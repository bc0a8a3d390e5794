------------------------ MODULE DirectorySearch_proofs ------------------------
(***************************************************************************)
(* Proofs about DirectorySearch, for any number of Dta userdata and files. *)
(***************************************************************************)
EXTENDS DirectorySearch, WellFoundedInduction, TLAPS

\* A call in progress is a record of the second kind.
LEMMA CallFields ==
  ASSUME TypeOK, NEW c \in Context
  PROVE  /\ call[c].pc = "idle" <=> call[c] = NoCall
         /\ call[c].fn = "none" <=> call[c] = NoCall
         /\ call[c] # NoCall => call[c] \in Begun
<1>1. call[c] \in Calls
  BY DEF TypeOK
<1>2. CASE call[c] = NoCall
  BY <1>2 DEF NoCall, Call
<1>3. CASE call[c] # NoCall
  BY <1>1, <1>3 DEF Calls, Begun
<1>4. QED
  BY <1>2, <1>3

-------------------------------------------------------------------------------
(* The inductive invariant.                                                *)

InGemdos(c) == call[c].pc \in {"set", "searched"}

\* The DTA is switched for the time of a GEMDOS call only, and remembered.
Switched ==
  IF InGemdos(Who)
  THEN dta = call[Who].ud /\ call[Who].saved = PROCESS
       /\ call[Who].fn \in {"first", "next"}
  ELSE dta = PROCESS

\* A finalizer runs where Lua objects are created, and has a call only then.
Nesting ==
  /\ fin => call["main"].pc \in {"idle", "pushed"}
  /\ ~fin => call["finalizer"] = NoCall

\* What a call works on exists; a userdata it creates is not the script's yet
\* and blank until GEMDOS has found a file.
CallOwns(c) ==
  /\ call[c].ud \in born
  /\ call[c].fn = "next" => InGemdos(c) /\ call[c].ud \in held
  /\ call[c].fn # "next" => call[c].ud \notin held
  /\ call[c].fn # "next" /\ ~call[c].found => mem[call[c].ud] = BlankDta
  /\ call[c].fn = "first" => call[c].select \in Selection
  /\ call[c].fn = "first" /\ call[c].found => mem[call[c].ud].at # NULL
  /\ call[c].fn = "copy" =>
       /\ call[c].src \in born /\ mem[call[c].src].at # NULL
       /\ call[c].pc = "pushed"
  /\ call[c].found => call[c].pc = "searched"

CallsOwn == \A c \in Context : call[c] # NoCall => CallOwns(c)

\* Two calls do not create the same userdata.
CallsDiffer ==
  call["main"] # NoCall /\ call["finalizer"] # NoCall =>
    call["main"].ud # call["finalizer"].ud

\* What the script has is at a file; what does not exist is blank.
Contents ==
  /\ \A u \in held : mem[u].at # NULL
  /\ \A u \in Userdata \ born : mem[u] = BlankDta
  /\ mem[PROCESS] = BlankDta

IInv == TypeOK /\ Switched /\ Nesting /\ CallsOwn /\ CallsDiffer /\ Contents
-------------------------------------------------------------------------------
(* The calls that steps begin.                                             *)

LEMMA NewCalls ==
  ASSUME NEW u \in Userdata, NEW v \in Userdata, NEW S \in SUBSET Entry,
         NEW d \in Userdata \cup {PROCESS}
  PROVE  /\ Call("first", u, NULL, S, "pushed", NULL) \in Calls
         /\ Call("next", u, NULL, {}, "set", d) \in Calls
         /\ Call("copy", v, u, {}, "pushed", NULL) \in Calls
  BY DEF Call, Begun, Calls

LEMMA NewDtas ==
  /\ BlankDta \in Dta /\ NoCall \in Calls
  /\ "main" \in Context /\ "finalizer" \in Context /\ Who \in Context
  BY DEF BlankDta, Dta, Calls, Context, Who

LEMMA HasMin ==
  ASSUME NEW S \in SUBSET Nat, S # {}
  PROVE  /\ Min(S) \in S
         /\ S \ {Min(S)} = {e \in S : e > Min(S)}
<1>1. PICK n \in S : \A m \in S : <<m, n>> \notin OpToRel(<, Nat)
  BY WFMin, NatLessThanWellFounded
<1>2. ASSUME NEW m \in S PROVE n <= m
  <2>1. m \in Nat /\ n \in Nat /\ <<m, n>> \notin OpToRel(<, Nat)
    BY <1>1
  <2>2. ~(m < n)
    BY <2>1, Zenon DEF OpToRel
  <2>3. m \in Nat /\ n \in Nat
    OBVIOUS
  <2>4. QED
    BY <2>2, <2>3
<1>3. Min(S) \in S /\ \A m \in S : Min(S) <= m
  BY <1>2 DEF Min
<1>4. ASSUME NEW k \in S, \A m \in S : k <= m
      PROVE  S \ {k} = {e \in S : e > k}
  <2>1. \A e \in S : e # k <=> e > k
    BY <1>4
  <2>2. QED
    BY <2>1
<1>5. QED
  BY <1>3, <1>4

\* What is found is a file.
LEMMA FoundIsEntry ==
  ASSUME NEW S \in SUBSET Entry, S # {}
  PROVE  Min(S) \in S /\ Min(S) # NULL
<1>1. S \in SUBSET Nat
  BY EntriesAreNumbered
<1>2. Min(S) \in S
  BY <1>1, HasMin
<1>3. QED
  BY <1>2, EntriesAreNumbered

\* SetDta moves the call of Fsfirst on, remembers the DTA and still owns what it
\* works on.
LEMMA SetDtaGoesOn ==
  ASSUME TypeOK, CallsOwn, SetDta
  PROVE  /\ call'[Who].pc = "set" /\ call'[Who].saved = dta
         /\ call'[Who].fn = call[Who].fn /\ call'[Who].ud = call[Who].ud
         /\ call'[Who].select = call[Who].select /\ call'[Who].found = call[Who].found
         /\ \A c \in Context : c # Who => call'[c] = call[c]
         /\ CallOwns(Who)' /\ Who' = Who
<1>1. /\ call[Who] \in Begun /\ CallOwns(Who)
      /\ call[Who].fn = "first" /\ call[Who].pc = "pushed"
      /\ UNCHANGED <<mem, born, held, fin>> /\ dta' = call[Who].ud
  BY DEF SetDta, TypeOK, CallsOwn, Context, Who, Calls, Begun, NoCall, Call
<1>2. /\ call'[Who] = [call[Who] EXCEPT !.pc = "set", !.saved = dta]
      /\ \A c \in Context : c # Who => call'[c] = call[c]
  BY DEF SetDta, Goes, TypeOK, Context, Who
<1>3. /\ call'[Who].pc = "set" /\ call'[Who].saved = dta
      /\ call'[Who].fn = call[Who].fn /\ call'[Who].ud = call[Who].ud
      /\ call'[Who].select = call[Who].select /\ call'[Who].found = call[Who].found
  BY <1>1, <1>2 DEF Begun
<1>4. Who' = Who
  BY <1>1 DEF Who
<1>5. CallOwns(Who)'
  BY <1>1, <1>3, <1>4 DEF CallOwns, InGemdos
<1>6. QED
  BY <1>2, <1>3, <1>4, <1>5

\* Search moves the call on to its answer.
LEMMA SearchGoesOn ==
  ASSUME TypeOK, call[Who] \in Begun, NEW f \in BOOLEAN,
         Goes([call[Who] EXCEPT !.pc = "searched", !.found = f])
  PROVE  /\ call'[Who].pc = "searched" /\ call'[Who].found = f
         /\ call'[Who].fn = call[Who].fn /\ call'[Who].ud = call[Who].ud
         /\ call'[Who].src = call[Who].src /\ call'[Who].select = call[Who].select
         /\ call'[Who].saved = call[Who].saved /\ call'[Who] # NoCall
         /\ \A c \in Context : c # Who => call'[c] = call[c]
<1>1. /\ call'[Who] = [call[Who] EXCEPT !.pc = "searched", !.found = f]
      /\ \A c \in Context : c # Who => call'[c] = call[c]
  BY DEF Goes, TypeOK, Context, Who
<1>2. PICK r \in Begun : r = call[Who]
  OBVIOUS
<1>3. call'[Who] = [r EXCEPT !.pc = "searched", !.found = f]
  BY <1>1, <1>2
<1>4. /\ call'[Who].pc = "searched" /\ call'[Who].found = f
      /\ call'[Who].fn = r.fn /\ call'[Who].ud = r.ud
      /\ call'[Who].src = r.src /\ call'[Who].select = r.select
      /\ call'[Who].saved = r.saved
  BY <1>2, <1>3 DEF Begun
<1>5. call'[Who] # NoCall
  BY <1>4 DEF NoCall, Call
<1>6. QED
  BY <1>1, <1>2, <1>4, <1>5

LEMMA InitType == Init => TypeOK
  BY NewDtas DEF Init, TypeOK

LEMMA NextType == IInv /\ [Next]_vars => TypeOK'
<1> SUFFICES ASSUME TypeOK, CallsOwn, Switched, [Next]_vars PROVE TypeOK'
  BY DEF IInv
<1> USE NewDtas DEF TypeOK
<1>1. ASSUME NEW c \in Calls, Goes(c) PROVE call' \in [Context -> Calls]
  BY <1>1 DEF Goes
<1>2. ASSUME NEW u \in Userdata, PushDtaUserData(u)
      PROVE  /\ mem' \in [Userdata \cup {PROCESS} -> Dta]
             /\ born' \in SUBSET Userdata /\ born \subseteq born'
  BY <1>2 DEF PushDtaUserData
<1>3. ASSUME NEW u \in Userdata, NEW S \in Selection, l_Fsfirst(u, S) PROVE TypeOK'
  <2>1. Call("first", u, NULL, S, "pushed", NULL) \in Calls
    BY NewCalls, EntriesAreNumbered
  <2>2. QED
    BY <1>1, <1>2, <1>3, <2>1 DEF l_Fsfirst
<1>4. CASE PushRaises
  BY <1>1, <1>4 DEF PushRaises
<1>5. CASE SetDta
  <2>1. call[Who] # NoCall
    BY <1>5 DEF SetDta, NoCall, Call
  <2>2. [call[Who] EXCEPT !.pc = "set", !.saved = dta] \in Calls
    BY <2>1, CallFields DEF Calls, Begun
  <2>3. QED
    BY <1>1, <1>5, <2>1, <2>2, CallFields DEF SetDta, Begun
<1>6. ASSUME NEW u \in Userdata, l_Fsnext(u) PROVE TypeOK'
  <2>1. Call("next", u, NULL, {}, "set", dta) \in Calls
    BY NewCalls
  <2>2. QED
    BY <1>1, <1>6, <2>1 DEF l_Fsnext
<1>7. CASE Search
  <2>1. call[Who] # NoCall
    BY <1>7 DEF Search, NoCall, Call
  <2>2. /\ [call[Who] EXCEPT !.pc = "searched", !.found = TRUE] \in Calls
        /\ [call[Who] EXCEPT !.pc = "searched"] \in Calls
    BY <2>1, CallFields DEF Calls, Begun
  <2>3. call' \in [Context -> Calls]
    BY <1>1, <1>7, <2>2 DEF Search
  <2>4. mem' \in [Userdata \cup {PROCESS} -> Dta]
    <3>1. ASSUME NEW S \in SUBSET Entry, NEW T \in SUBSET Entry, S # {}
          PROVE  [at |-> Min(S), select |-> T] \in Dta
      BY <3>1, HasMin, EntriesAreNumbered DEF Dta
    <3>2. call[Who].select \in SUBSET Entry /\ mem[dta].select \in SUBSET Entry
          /\ dir \cap call[Who].select \in SUBSET Entry /\ Rest(dta) \in SUBSET Entry
      BY <2>1, CallFields DEF Dta, Rest, Begun
    <3>3. QED
      BY <1>7, <3>1, <3>2 DEF Search
  <2>5. QED
    BY <1>7, <2>3, <2>4 DEF Search
<1>8. CASE RestoreDta
  <2>1. call[Who] # NoCall
    BY <1>8 DEF RestoreDta, NoCall, Call
  <2>2. call[Who] \in Begun /\ call[Who].ud \in born
    BY <2>1, CallFields DEF CallsOwn, CallOwns
  <2>3. dta' \in Userdata \cup {PROCESS}
    BY <1>8 DEF RestoreDta, Switched, InGemdos
  <2>4. held' \in SUBSET born
    BY <1>8, <2>2 DEF RestoreDta
  <2>5. QED
    BY <1>1, <1>8, <2>3, <2>4 DEF RestoreDta
<1>9. ASSUME NEW u \in Userdata, NEW v \in Userdata, BeginCopydta(u, v) PROVE TypeOK'
  <2>1. Call("copy", v, u, {}, "pushed", NULL) \in Calls
    BY NewCalls
  <2>2. QED
    BY <1>1, <1>2, <1>9, <2>1 DEF BeginCopydta
<1>10. CASE DtaCopydta
  <2>1. call[Who] # NoCall
    BY <1>10 DEF DtaCopydta, NoCall, Call
  <2>2. call[Who] \in Begun /\ call[Who].ud \in born /\ call[Who].src \in born
    BY <1>10, <2>1, CallFields DEF CallsOwn, CallOwns, DtaCopydta
  <2>3. QED
    BY <1>1, <1>10, <2>2 DEF DtaCopydta
<1>11. ASSUME NEW u \in Userdata, Drop(u) \/ Collect(u) PROVE TypeOK'
  BY <1>11 DEF Drop, Collect
<1>12. ASSUME NEW e \in Entry, l_Fdelete(e) PROVE TypeOK'
  BY <1>12 DEF l_Fdelete
<1>13. CASE ScriptFinalizerStarts \/ ScriptFinalizerEnds
  BY <1>13 DEF ScriptFinalizerStarts, ScriptFinalizerEnds
<1>14. CASE UNCHANGED vars
  BY <1>14 DEF vars
<1>15. QED
  BY <1>3, <1>4, <1>5, <1>6, <1>7, <1>8, <1>9, <1>10, <1>11, <1>12, <1>13, <1>14
  DEF Next, ScriptStep, CallStep

LEMMA NextInv == IInv /\ [Next]_vars => IInv'
<1> SUFFICES ASSUME IInv, TypeOK', [Next]_vars PROVE IInv'
  BY NextType
<1> USE NewDtas, CallFields
        DEF TypeOK, Context, Who, InGemdos, NoCall, Call, Begun, Goes,
            IInv, Switched, Nesting, CallsOwn, CallOwns, CallsDiffer, Contents
<1>1. ASSUME NEW u \in Userdata, NEW S \in Selection, l_Fsfirst(u, S) PROVE IInv'
  <2>1. Switched'
    BY <1>1 DEF l_Fsfirst, PushDtaUserData, ScriptRuns
  <2>2. Nesting'
    BY <1>1 DEF l_Fsfirst, PushDtaUserData, ScriptRuns
  <2>3. CallsOwn'
    <3>1. \A d \in Userdata : d \in born => d # u /\ mem'[d] = mem[d]
      BY <1>1 DEF l_Fsfirst, PushDtaUserData, ScriptRuns
    <3>2. /\ call'[Who] = Call("first", u, NULL, S, "pushed", NULL)
          /\ \A c \in Context : c # Who => call'[c] = call[c]
      BY <1>1 DEF l_Fsfirst, PushDtaUserData, ScriptRuns
    <3>3. u \in born' /\ u \notin held' /\ mem'[u] = BlankDta
      BY <1>1 DEF l_Fsfirst, PushDtaUserData, ScriptRuns
    <3>4. ASSUME NEW c \in Context, c # Who, call'[c] # NoCall
          PROVE  CallOwns(c)'
      <4>1. CallOwns(c) /\ call[c] \in Begun
        BY <3>2, <3>4
      <4>2. QED
        BY <1>1, <3>1, <3>2, <3>4, <4>1 DEF l_Fsfirst, PushDtaUserData, ScriptRuns
    <3>5. CallOwns(Who)'
      BY <1>1, <3>1, <3>2, <3>3 DEF l_Fsfirst, PushDtaUserData, ScriptRuns
    <3>6. QED
      BY <3>4, <3>5, <1>1 DEF l_Fsfirst
  <2>4. CallsDiffer'
    BY <1>1 DEF l_Fsfirst, PushDtaUserData, ScriptRuns
  <2>5. Contents'
    BY <1>1 DEF l_Fsfirst, PushDtaUserData, ScriptRuns
  <2>6. QED
    BY <2>1, <2>2, <2>3, <2>4, <2>5
<1>2. ASSUME PushRaises PROVE IInv'
  <2>1. Switched'
    BY <1>2 DEF PushRaises
  <2>2. Nesting'
    BY <1>2 DEF PushRaises
  <2>3. CallsOwn'
    BY <1>2 DEF PushRaises
  <2>4. CallsDiffer'
    BY <1>2 DEF PushRaises
  <2>5. Contents'
    BY <1>2 DEF PushRaises
  <2>6. QED
    BY <2>1, <2>2, <2>3, <2>4, <2>5
<1>3. ASSUME SetDta PROVE IInv'
  <2>0. /\ call'[Who].pc = "set" /\ call'[Who].saved = dta
        /\ call'[Who].fn = call[Who].fn /\ call'[Who].ud = call[Who].ud
        /\ call'[Who].select = call[Who].select /\ call'[Who].found = call[Who].found
        /\ \A c \in Context : c # Who => call'[c] = call[c]
        /\ CallOwns(Who)' /\ Who' = Who
    <3> HIDE DEF TypeOK, CallsOwn, CallOwns, Who, Context
    <3>1. QED
      BY <1>3, SetDtaGoesOn
  <2>1. Switched'
    BY <1>3, <2>0 DEF SetDta
  <2>2. Nesting'
    BY <1>3, <2>0 DEF SetDta
  <2>3. CallsOwn'
    <3>1. UNCHANGED <<mem, born, held, fin>>
      BY <1>3 DEF SetDta
    <3>2. CallOwns(Who) /\ call[Who].fn = "first"
      BY <1>3 DEF SetDta
    <3> HIDE DEF Begun, NoCall, Call, Context
    <3>3. CallOwns(Who)' /\ Who' = Who
      <4> HIDE DEF CallOwns, Who
      <4>1. QED
        BY <2>0
    <3>4. ASSUME NEW c \in Context, c # Who, call'[c] # NoCall
          PROVE  CallOwns(c)'
      <4>1. CallOwns(c) /\ call'[c] = call[c]
        BY <2>0, <3>4
      <4>2. QED
        BY <3>1, <4>1
    <3>5. \A c \in Context : call'[c] # NoCall => CallOwns(c)'
      <4> HIDE DEF CallOwns, Who
      <4>1. QED
        BY <3>3, <3>4
    <3> HIDE DEF CallOwns
    <3>6. QED
      BY <3>5
  <2>4. CallsDiffer'
    BY <1>3, <2>0 DEF SetDta
  <2>5. Contents'
    BY <1>3 DEF SetDta
  <2>6. QED
    BY <2>1, <2>2, <2>3, <2>4, <2>5
<1>4. ASSUME NEW u \in Userdata, l_Fsnext(u) PROVE IInv'
  <2>1. Switched'
    BY <1>4 DEF l_Fsnext, ScriptRuns
  <2>2. Nesting'
    BY <1>4 DEF l_Fsnext, ScriptRuns
  <2>3. CallsOwn'
    BY <1>4 DEF l_Fsnext, ScriptRuns
  <2>4. CallsDiffer'
    BY <1>4 DEF l_Fsnext, ScriptRuns
  <2>5. Contents'
    BY <1>4 DEF l_Fsnext, ScriptRuns
  <2>6. QED
    BY <2>1, <2>2, <2>3, <2>4, <2>5
<1>5. ASSUME Search PROVE IInv'
  <2>1. /\ call[Who].ud \in Userdata /\ dta = call[Who].ud /\ call[Who] \in Begun
        /\ call[Who].pc = "set" /\ ~call[Who].found /\ call[Who].fn \in {"first", "next"}
    BY <1>5 DEF Search
  <2>2. PICK f \in BOOLEAN :
          /\ Goes([call[Who] EXCEPT !.pc = "searched", !.found = f])
          /\ f => mem'[dta].at # NULL
          /\ ~f => mem' = mem
    <3>1. ASSUME NEW S \in SUBSET Entry, S # {} PROVE Min(S) # NULL
      BY <3>1, FoundIsEntry
    <3>2. dir \cap call[Who].select \in SUBSET Entry /\ Rest(dta) \in SUBSET Entry
      BY DEF Rest
    <3>3. ~call[Who].found
      BY <2>1
    <3>4. CASE Goes([call[Who] EXCEPT !.pc = "searched"]) /\ mem' = mem
      <4>1. [call[Who] EXCEPT !.pc = "searched"]
              = [call[Who] EXCEPT !.pc = "searched", !.found = FALSE]
        BY <2>1, <3>3
      <4>2. QED
        BY <3>4, <4>1
    <3>5. CASE ~(Goes([call[Who] EXCEPT !.pc = "searched"]) /\ mem' = mem)
      <4>1. Goes([call[Who] EXCEPT !.pc = "searched", !.found = TRUE])
        BY <1>5, <3>5 DEF Search
      <4>2. PICK S \in SUBSET Entry, T \in SUBSET Entry :
              S # {} /\ mem' = [mem EXCEPT ![dta] = [at |-> Min(S), select |-> T]]
        <5>1. mem[dta].select \in SUBSET Entry /\ call[Who].select \in SUBSET Entry
          BY <2>1 DEF Dta
        <5>2. QED
          BY <1>5, <3>2, <3>5, <5>1 DEF Search
      <4>3. mem'[dta].at # NULL
        BY <3>1, <4>2
      <4>4. QED
        BY <4>1, <4>3
    <3>6. QED
      BY <3>4, <3>5
  <2>3. \A d \in Userdata \cup {PROCESS} : d # dta => mem'[d] = mem[d]
    BY <1>5 DEF Search
  <2>4. UNCHANGED <<dir, dta, born, held, fin>>
    BY <1>5 DEF Search
  <2>5. /\ call'[Who].pc = "searched" /\ call'[Who].found = f
        /\ call'[Who].fn = call[Who].fn /\ call'[Who].ud = call[Who].ud
        /\ call'[Who].src = call[Who].src /\ call'[Who].select = call[Who].select
        /\ call'[Who].saved = call[Who].saved /\ call'[Who] # NoCall
        /\ \A c \in Context : c # Who => call'[c] = call[c]
    <3> HIDE DEF TypeOK, Who, Context, Begun, NoCall, Goes
    <3>1. call[Who] \in Begun /\ f \in BOOLEAN
      BY <2>1, <2>2
    <3>2. Goes([call[Who] EXCEPT !.pc = "searched", !.found = f])
      BY <2>2
    <3>3. QED
      BY <3>1, <3>2, SearchGoesOn
  <2>6. Switched' /\ Nesting' /\ CallsDiffer'
    BY <2>1, <2>4, <2>5
  <2>7. CallsOwn'
    <3>1. ASSUME NEW c \in Context, c = Who, call'[c] # NoCall
          PROVE  CallOwns(c)'
      BY <2>1, <2>2, <2>4, <2>5, <3>1
    <3>2. ASSUME NEW c \in Context, c # Who, call'[c] # NoCall
          PROVE  CallOwns(c)'
      <4>1. CallOwns(c) /\ call[c] \in Begun /\ call'[c] = call[c]
        BY <2>5, <3>2
      <4>2. call[c].fn # "next" => call[c].ud # dta
        BY <2>1, <3>2, <4>1
      <4>3. call[c].fn = "copy" => mem'[call[c].src].at # NULL
        BY <2>2, <2>3, <4>1
      <4>4. QED
        BY <2>3, <2>4, <4>1, <4>2, <4>3
    <3>3. QED
      BY <3>1, <3>2
  <2>8. Contents'
    BY <2>1, <2>2, <2>3, <2>4, DtasDiffer
  <2>9. QED
    BY <2>6, <2>7, <2>8
<1>6. ASSUME RestoreDta PROVE IInv'
  <2>1. Switched'
    BY <1>6 DEF RestoreDta
  <2>2. Nesting'
    BY <1>6 DEF RestoreDta
  <2>3. CallsOwn'
    BY <1>6 DEF RestoreDta
  <2>4. CallsDiffer'
    BY <1>6 DEF RestoreDta
  <2>5. Contents'
    BY <1>6 DEF RestoreDta
  <2>6. QED
    BY <2>1, <2>2, <2>3, <2>4, <2>5
<1>7. ASSUME NEW u \in Userdata, NEW v \in Userdata, BeginCopydta(u, v) PROVE IInv'
  <2>1. Switched'
    BY <1>7 DEF BeginCopydta, PushDtaUserData, ScriptRuns
  <2>2. Nesting'
    BY <1>7 DEF BeginCopydta, PushDtaUserData, ScriptRuns
  <2>3. CallsOwn'
    <3>1. \A d \in Userdata : d \in born => d # v /\ mem'[d] = mem[d]
      BY <1>7 DEF BeginCopydta, PushDtaUserData, ScriptRuns
    <3>2. /\ call'[Who] = Call("copy", v, u, {}, "pushed", NULL)
          /\ \A c \in Context : c # Who => call'[c] = call[c]
      BY <1>7 DEF BeginCopydta, PushDtaUserData, ScriptRuns
    <3>3. v \in born' /\ v \notin held' /\ mem'[v] = BlankDta
      BY <1>7 DEF BeginCopydta, PushDtaUserData, ScriptRuns
    <3>4. ASSUME NEW c \in Context, c # Who, call'[c] # NoCall
          PROVE  CallOwns(c)'
      <4>1. CallOwns(c) /\ call[c] \in Begun
        BY <3>2, <3>4
      <4>2. QED
        BY <1>7, <3>1, <3>2, <3>4, <4>1 DEF BeginCopydta, PushDtaUserData, ScriptRuns
    <3>5. CallOwns(Who)'
      BY <1>7, <3>1, <3>2, <3>3 DEF BeginCopydta, PushDtaUserData, ScriptRuns
    <3>6. QED
      BY <3>4, <3>5, <1>7 DEF BeginCopydta
  <2>4. CallsDiffer'
    BY <1>7 DEF BeginCopydta, PushDtaUserData, ScriptRuns
  <2>5. Contents'
    BY <1>7 DEF BeginCopydta, PushDtaUserData, ScriptRuns
  <2>6. QED
    BY <2>1, <2>2, <2>3, <2>4, <2>5
<1>8. ASSUME DtaCopydta PROVE IInv'
  <2>1. call[Who] \in Begun /\ call[Who].ud \in Userdata /\ mem[call[Who].src].at # NULL
        /\ call[Who].ud \in born
    BY <1>8 DEF DtaCopydta
  <2>2. \A d \in Userdata \cup {PROCESS} :
          mem'[d] = IF d = call[Who].ud THEN mem[call[Who].src] ELSE mem[d]
    BY <1>8, <2>1 DEF DtaCopydta
  <2>3. Switched' /\ Nesting' /\ CallsDiffer'
    BY <1>8 DEF DtaCopydta
  <2>4. CallsOwn'
    <3>1. call'[Who] = NoCall /\ \A c \in Context : c # Who => call'[c] = call[c]
      BY <1>8 DEF DtaCopydta
    <3>2. ASSUME NEW c \in Context, call'[c] # NoCall
          PROVE  CallOwns(c)'
      <4>1. c # Who /\ CallOwns(c) /\ call[c] \in Begun /\ call'[c] = call[c]
        <5>1. c # Who /\ call'[c] = call[c] /\ call[c] # NoCall
          BY <3>1, <3>2
        <5>2. QED
          BY <5>1
      <4>2. call[c].ud # call[Who].ud
        BY <1>8, <2>1, <4>1 DEF DtaCopydta
      <4>3. mem'[call[c].ud] = mem[call[c].ud]
        BY <2>2, <4>1, <4>2
      <4>4. call[c].fn = "copy" => mem'[call[c].src].at # NULL
        BY <2>1, <2>2, <4>1
      <4>5. QED
        BY <1>8, <4>1, <4>2, <4>3, <4>4 DEF DtaCopydta
    <3>3. QED
      BY <3>2
  <2>5. Contents'
    BY <1>8, <2>1, <2>2, DtasDiffer DEF DtaCopydta
  <2>6. QED
    BY <2>3, <2>4, <2>5
<1>9. ASSUME NEW u \in Userdata, Drop(u) PROVE IInv'
  <2>1. Switched'
    BY <1>9 DEF Drop, ScriptRuns
  <2>2. Nesting'
    BY <1>9 DEF Drop, ScriptRuns
  <2>3. CallsOwn'
    BY <1>9 DEF Drop, ScriptRuns
  <2>4. CallsDiffer'
    BY <1>9 DEF Drop, ScriptRuns
  <2>5. Contents'
    BY <1>9 DEF Drop, ScriptRuns
  <2>6. QED
    BY <2>1, <2>2, <2>3, <2>4, <2>5
<1>10. ASSUME NEW u \in Userdata, Collect(u) PROVE IInv'
  <2>1. Switched'
    BY <1>10 DEF Collect, OnStack, GcPoint
  <2>2. Nesting'
    BY <1>10 DEF Collect, OnStack, GcPoint
  <2>3. CallsOwn'
    BY <1>10 DEF Collect, OnStack, GcPoint
  <2>4. CallsDiffer'
    BY <1>10 DEF Collect, OnStack, GcPoint
  <2>5. Contents'
    BY <1>10 DEF Collect, OnStack, GcPoint
  <2>6. QED
    BY <2>1, <2>2, <2>3, <2>4, <2>5
<1>11. ASSUME NEW e \in Entry, l_Fdelete(e) PROVE IInv'
  <2>1. Switched'
    BY <1>11 DEF l_Fdelete, ScriptRuns
  <2>2. Nesting'
    BY <1>11 DEF l_Fdelete, ScriptRuns
  <2>3. CallsOwn'
    BY <1>11 DEF l_Fdelete, ScriptRuns
  <2>4. CallsDiffer'
    BY <1>11 DEF l_Fdelete, ScriptRuns
  <2>5. Contents'
    BY <1>11 DEF l_Fdelete, ScriptRuns
  <2>6. QED
    BY <2>1, <2>2, <2>3, <2>4, <2>5
<1>12. ASSUME ScriptFinalizerStarts PROVE IInv'
  <2>1. Switched'
    BY <1>12 DEF ScriptFinalizerStarts, GcPoint
  <2>2. Nesting'
    BY <1>12 DEF ScriptFinalizerStarts, GcPoint
  <2>3. CallsOwn'
    BY <1>12 DEF ScriptFinalizerStarts, GcPoint
  <2>4. CallsDiffer'
    BY <1>12 DEF ScriptFinalizerStarts, GcPoint
  <2>5. Contents'
    BY <1>12 DEF ScriptFinalizerStarts, GcPoint
  <2>6. QED
    BY <2>1, <2>2, <2>3, <2>4, <2>5
<1>13. ASSUME ScriptFinalizerEnds PROVE IInv'
  <2>1. Switched'
    BY <1>13 DEF ScriptFinalizerEnds, ScriptRuns
  <2>2. Nesting'
    BY <1>13 DEF ScriptFinalizerEnds, ScriptRuns
  <2>3. CallsOwn'
    BY <1>13 DEF ScriptFinalizerEnds, ScriptRuns
  <2>4. CallsDiffer'
    BY <1>13 DEF ScriptFinalizerEnds, ScriptRuns
  <2>5. Contents'
    BY <1>13 DEF ScriptFinalizerEnds, ScriptRuns
  <2>6. QED
    BY <2>1, <2>2, <2>3, <2>4, <2>5
<1>14. ASSUME UNCHANGED vars PROVE IInv'
  <2>1. Switched'
    BY <1>14 DEF vars
  <2>2. Nesting'
    BY <1>14 DEF vars
  <2>3. CallsOwn'
    BY <1>14 DEF vars
  <2>4. CallsDiffer'
    BY <1>14 DEF vars
  <2>5. Contents'
    BY <1>14 DEF vars
  <2>6. QED
    BY <2>1, <2>2, <2>3, <2>4, <2>5
<1>15. QED
  BY <1>1, <1>2, <1>3, <1>4, <1>5, <1>6, <1>7, <1>8, <1>9, <1>10, <1>11, <1>12,
     <1>13, <1>14 DEF Next, ScriptStep, CallStep

LEMMA Invariance == Spec => []IInv
<1>1. Init => IInv
  BY InitType, NewDtas
  DEF Init, IInv, Switched, Nesting, CallsOwn, CallsDiffer, Contents, InGemdos,
      NoCall, Call, Context, Who
<1>2. IInv /\ [Next]_vars => IInv'
  BY NextInv
<1>3. QED
  BY <1>1, <1>2, PTL DEF Spec
-------------------------------------------------------------------------------
(* The theorems.                                                           *)

\* The DTA, the Dta userdata and the calls in progress have their types.
THEOREM SearchTyped == Spec => []TypeOK
<1>1. IInv => TypeOK
  BY DEF IInv
<1>2. QED
  BY <1>1, Invariance, PTL

\* Fsfirst and Fsnext put the process's DTA back, and GEMDOS writes to it only
\* while it is a userdata that exists: the collector, which runs between the
\* steps of Fsfirst and of copydta, and the searches of finalizers included.
THEOREM DtaComesBack == Spec => []DtaIsRestored
<1>1. IInv => DtaIsRestored
  BY CallFields, NewDtas
  DEF IInv, Switched, CallsOwn, CallOwns, Contents, InGemdos, NoCall, Call,
      DtaIsRestored
<1>2. QED
  BY <1>1, Invariance, PTL
-------------------------------------------------------------------------------
(* Every step is one of Searches, or leaves the searches alone.            *)

Doing(u) == [at |-> DtaName(u), todo |-> Rest(u)]
Doings == [u \in Userdata |-> Doing(u)]

LEMMA SameMin ==
  ASSUME NEW S
  PROVE  Iteration!Min(S) = Min(S)
  BY DEF Iteration!Min, Min

\* Only the contents and the directory tell where searches are.
LEMMA Quiet ==
  ASSUME UNCHANGED <<dir, mem>>
  PROVE  UNCHANGED Iteration!vars
  BY DEF Iteration!vars, DtaName, Rest

\* What a step changes in one userdata, it changes in one search.
LEMMA OneSearch ==
  ASSUME TypeOK, TypeOK', dir' = dir, NEW u \in Userdata,
         \A d \in Userdata : d # u => mem'[d] = mem[d]
  PROVE  Doings' = [Doings EXCEPT ![u] = Doing(u)']
<1>1. \A d \in Userdata : d # u => Doing(d)' = Doing(d)
  BY DEF Doing, DtaName, Rest
<1>2. QED
  BY <1>1 DEF Doings

LEMMA Begins ==
  ASSUME IInv, TypeOK', Search, call[Who].fn = "first", mem' # mem
  PROVE  \E u \in Userdata, selected \in Selection : Iteration!Begin(u, selected)
<1>1. /\ call[Who].ud \in Userdata /\ dta = call[Who].ud
      /\ call[Who].select \in Selection /\ ~call[Who].found
      /\ mem[dta] = BlankDta
  BY CallFields, NewDtas
  DEF Search, IInv, TypeOK, Switched, InGemdos, CallsOwn, CallOwns, NoCall, Call, Begun
<1>2. PICK u \in Userdata, s \in Selection : u = dta /\ s = call[Who].select
  BY <1>1
<1>3. /\ dir' = dir /\ s \cap dir # {}
      /\ mem' = [mem EXCEPT ![u] = [at |-> Min(s \cap dir), select |-> s]]
  <2>1. dir \cap s = s \cap dir
    OBVIOUS
  <2>2. QED
    BY <1>2, <2>1 DEF Search
<1>4. s \cap dir \in SUBSET Nat
  BY EntriesAreNumbered DEF IInv, TypeOK
<1>5. /\ Min(s \cap dir) \in s \cap dir /\ Min(s \cap dir) # NULL
      /\ (s \cap dir) \ {Min(s \cap dir)} = {e \in s \cap dir : e > Min(s \cap dir)}
  BY <1>3, <1>4, HasMin, EntriesAreNumbered DEF IInv, TypeOK
<1>6. mem'[u] = [at |-> Min(s \cap dir), select |-> s]
  BY <1>3 DEF IInv, TypeOK
<1>7. Doing(u)' = [at |-> Min(s \cap dir), todo |-> (s \cap dir) \ {Min(s \cap dir)}]
  <2>1. Rest(u)' = {e \in s \cap dir : e > Min(s \cap dir)}
    BY <1>3, <1>5, <1>6 DEF Rest
  <2>2. mem'[u].at = Min(s \cap dir)
    BY <1>6
  <2>3. QED
    BY <1>5, <2>1, <2>2 DEF Doing, DtaName
<1>8. Doings' = [Doings EXCEPT ![u] = Doing(u)']
  BY <1>3, OneSearch DEF IInv, TypeOK
<1>9. Doings[u] = Iteration!NoSearch
  <2>1. mem[u] = BlankDta
    BY <1>1, <1>2
  <2>2. Doing(u) = Iteration!NoSearch
    BY <2>1 DEF Doing, DtaName, Rest, BlankDta, Iteration!NoSearch
  <2>3. QED
    BY <2>2 DEF Doings
<1>10. Doing(u)' = Iteration!Reaches(s \cap dir)
  BY <1>7, SameMin DEF Iteration!Reaches
<1>11. Iteration!Begin(u, s)
  BY <1>3, <1>8, <1>9, <1>10 DEF Iteration!Begin, Doings, Doing
<1>12. QED
  BY <1>11

LEMMA Advances ==
  ASSUME IInv, TypeOK', Search, call[Who].fn = "next", mem' # mem
  PROVE  \E u \in Userdata : Iteration!Advance(u)
<1>1. /\ call[Who].ud \in Userdata /\ dta = call[Who].ud
  BY CallFields, NewDtas
  DEF Search, IInv, TypeOK, Switched, InGemdos, NoCall, Call, Begun
<1>2. PICK u \in Userdata, R \in SUBSET Nat, m \in Nat :
        u = dta /\ R = Rest(u) /\ m = Min(R) /\ R # {}
        /\ m \in R /\ R \ {m} = {e \in R : e > m}
  <2>1. Rest(dta) \in SUBSET Nat /\ Rest(dta) # {}
    BY EntriesAreNumbered DEF Rest, Search, IInv, TypeOK
  <2>2. PICK u \in Userdata, R \in SUBSET Nat : u = dta /\ R = Rest(u) /\ R # {}
    BY <1>1, <2>1
  <2>3. Min(R) \in R /\ R \ {Min(R)} = {e \in R : e > Min(R)}
    BY <2>2, HasMin
  <2>4. PICK m \in Nat : m = Min(R)
    BY <2>3
  <2>5. QED
    BY <2>2, <2>3, <2>4
<1>3. /\ dir' = dir /\ m # NULL /\ mem[u].at \in Nat /\ m > mem[u].at
      /\ mem' = [mem EXCEPT ![u] = [at |-> m, select |-> mem[u].select]]
  <2>1. mem[u].at \in Entry \cup {NULL} /\ R \subseteq Entry
    BY <1>2, EntriesAreNumbered DEF Rest, Dta, IInv, TypeOK
  <2>2. mem[u].at # NULL /\ m > mem[u].at
    BY <1>2 DEF Rest
  <2>3. m # NULL /\ mem[u].at \in Nat
    BY <1>2, <2>1, <2>2, EntriesAreNumbered
  <2>4. dir' = dir /\ mem' = [mem EXCEPT ![u] = [at |-> m, select |-> mem[u].select]]
    BY <1>2 DEF Search
  <2>5. QED
    BY <2>2, <2>3, <2>4
<1>4. mem'[u] = [at |-> m, select |-> mem[u].select]
  BY <1>3 DEF IInv, TypeOK
<1>5. Rest(u)' = R \ {m}
  <2>1. Rest(u)' = {e \in dir \cap mem[u].select : e > m}
    BY <1>3, <1>4 DEF Rest
  <2>2. \A e \in dir \cap mem[u].select : e \in Nat
    BY EntriesAreNumbered DEF IInv, TypeOK
  <2>3. \A e \in dir \cap mem[u].select : e > m => e \in R
    BY <1>2, <1>3, <2>2 DEF Rest
  <2>4. \A e \in R : e \in dir \cap mem[u].select
    BY <1>2 DEF Rest
  <2>5. QED
    BY <1>2, <2>1, <2>3, <2>4
<1>6. Doings' = [Doings EXCEPT ![u] = Doing(u)']
  BY <1>3, OneSearch DEF IInv, TypeOK
<1>7. Doing(u)' = Iteration!Reaches(R)
  BY <1>2, <1>4, <1>5, SameMin DEF Iteration!Reaches, Doing, DtaName
<1>8. Doings[u].todo = R
  BY <1>2 DEF Doings, Doing
<1>9. Iteration!Advance(u)
  BY <1>2, <1>3, <1>6, <1>7, <1>8 DEF Iteration!Advance, Doings, Doing
<1>10. QED
  BY <1>9

LEMMA Forks ==
  ASSUME IInv, TypeOK', DtaCopydta
  PROVE  \E i \in Userdata, j \in Userdata : Iteration!Fork(i, j)
<1>1. /\ call[Who].ud \in Userdata /\ call[Who].src \in Userdata
      /\ mem[call[Who].src].at # NULL /\ mem[call[Who].ud] = BlankDta
  BY CallFields, NewDtas
  DEF DtaCopydta, IInv, TypeOK, CallsOwn, CallOwns, NoCall, Call, Begun
<1>2. PICK u \in Userdata, s \in Userdata : u = call[Who].ud /\ s = call[Who].src
  BY <1>1
<1>3. /\ dir' = dir /\ mem'[u] = mem[s]
      /\ \A d \in Userdata : d # u => mem'[d] = mem[d]
  BY <1>2 DEF DtaCopydta, IInv, TypeOK
<1>4. Doings' = [Doings EXCEPT ![u] = Doing(u)']
  BY <1>3, OneSearch DEF IInv
<1>5. Doing(u)' = Doing(s)
  BY <1>3 DEF Doing, DtaName, Rest
<1>6. Doing(s) # Iteration!NoSearch /\ Doing(u) = Iteration!NoSearch
  BY <1>1, <1>2 DEF Doing, DtaName, Rest, BlankDta, Iteration!NoSearch
<1>7. /\ Doings' = [Doings EXCEPT ![u] = Doings[s]]
      /\ Doings[s] # Iteration!NoSearch /\ Doings[u] = Iteration!NoSearch
  BY <1>4, <1>5, <1>6 DEF Doings
<1>8. Iteration!Fork(s, u)
  BY <1>3, <1>7 DEF Iteration!Fork, Doings, Doing
<1>9. QED
  BY <1>8

LEMMA Forgets ==
  ASSUME IInv, TypeOK', NEW u \in Userdata, Collect(u)
  PROVE  Iteration!Forget(u)
<1>1. /\ dir' = dir /\ mem'[u] = BlankDta
      /\ \A d \in Userdata : d # u => mem'[d] = mem[d]
  BY DEF Collect, IInv, TypeOK
<1>2. Doings' = [Doings EXCEPT ![u] = Doing(u)']
  BY <1>1, OneSearch DEF IInv
<1>3. Doing(u)' = Iteration!NoSearch
  BY <1>1 DEF Doing, DtaName, Rest, BlankDta, Iteration!NoSearch
<1>4. QED
  BY <1>1, <1>2, <1>3 DEF Iteration!Forget, Doings, Doing

LEMMA Deletes ==
  ASSUME IInv, TypeOK', NEW e \in Entry, l_Fdelete(e)
  PROVE  e \in dir /\ Iteration!Delete(e)
<1>1. e \in dir /\ dir' = dir \ {e} /\ mem' = mem
  BY DEF l_Fdelete
<1>2. ASSUME NEW u \in Userdata
      PROVE  Doing(u)' = [Doing(u) EXCEPT !.todo = @ \ {e}]
  <2>1. Rest(u)' = Rest(u) \ {e}
    BY <1>1 DEF Rest
  <2>2. QED
    BY <1>1, <2>1 DEF Doing, DtaName
<1>3. Doings' = [u \in Userdata |-> [Doings[u] EXCEPT !.todo = @ \ {e}]]
  BY <1>2 DEF Doings
<1>4. QED
  BY <1>1, <1>3 DEF Iteration!Delete, Doings, Doing

\* A userdata just created is as blank as its memory was.
LEMMA Blank ==
  ASSUME IInv, NEW u \in Userdata, PushDtaUserData(u)
  PROVE  mem' = mem
  BY DEF PushDtaUserData, IInv, TypeOK, Contents

LEMMA StepGoesOn ==
  IInv /\ TypeOK' /\ [Next]_vars => [Iteration!Next]_(Iteration!vars)
<1> SUFFICES ASSUME IInv, TypeOK', [Next]_vars
             PROVE  Iteration!Next \/ UNCHANGED Iteration!vars
  OBVIOUS
<1>1. ASSUME NEW u \in Userdata, NEW S \in Selection, l_Fsfirst(u, S)
      PROVE  UNCHANGED <<dir, mem>>
  BY <1>1, Blank DEF l_Fsfirst
<1>2. ASSUME NEW u \in Userdata, NEW v \in Userdata, BeginCopydta(u, v)
      PROVE  UNCHANGED <<dir, mem>>
  BY <1>2, Blank DEF BeginCopydta
<1>3. CASE Search /\ mem' # mem
  <2>1. call[Who].fn \in {"first", "next"}
    BY <1>3 DEF Search, IInv, Switched, InGemdos
  <2>2. QED
    BY <1>3, <2>1, Begins, Advances DEF Iteration!Next
<1>4. CASE DtaCopydta
  BY <1>4, Forks DEF Iteration!Next
<1>5. ASSUME NEW u \in Userdata, Collect(u) PROVE Iteration!Next
  BY <1>5, Forgets DEF Iteration!Next
<1>6. ASSUME NEW e \in Entry, l_Fdelete(e) PROVE Iteration!Next
  BY <1>6, Deletes DEF Iteration!Next
<1>7. CASE UNCHANGED <<dir, mem>>
  BY <1>7, Quiet
<1>8. CASE Search /\ mem' = mem
  BY <1>7, <1>8 DEF Search
<1>9. QED
  BY <1>1, <1>2, <1>3, <1>4, <1>5, <1>6, <1>7, <1>8
  DEF Next, ScriptStep, CallStep, vars, PushRaises, SetDta, l_Fsnext, RestoreDta,
      Drop, ScriptFinalizerStarts, ScriptFinalizerEnds

\* Every Dta is a search of its own: it visits the files it selects in order,
\* none twice and none left out, and a copy goes on from where its original
\* stood, whatever calls, deletions, collections and finalizers come between.
THEOREM SearchesGoOn == Spec => EverySearchGoesOn
<1>1. Init => Iteration!Init
  BY NewDtas
  DEF Init, Iteration!Init, Iteration!NoSearch, BlankDta, DtaName, Rest
<1>2. IInv /\ IInv' /\ [Next]_vars => [Iteration!Next]_(Iteration!vars)
  BY StepGoesOn DEF IInv
<1>3. QED
  BY <1>1, <1>2, Invariance, PTL DEF Spec, EverySearchGoesOn, Iteration!Spec
===============================================================================
