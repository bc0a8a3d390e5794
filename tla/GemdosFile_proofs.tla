-------------------------- MODULE GemdosFile_proofs --------------------------
(***************************************************************************)
(* Proofs about GemdosFile, for any number of userdata, handles, standard  *)
(* handles and script finalizers.                                          *)
(***************************************************************************)
EXTENDS GemdosFile, TLAPS

\* What the actions write has the right type.
LEMMA StructsTyped ==
  /\ InvalidFile \in File
  /\ \A h \in Handle : ValidFile(h) \in File
  /\ NoCall \in Calls /\ NoSys \in Sys
  BY DEF InvalidFile, ValidFile, File, CONIN, NoCall, Calls, NoSys, Sys

\* A struct File is InvalidFile or holds a handle of a file.
LEMMA FileFields ==
  ASSUME TypeOK, NEW u \in Userdata
  PROVE  \/ fud[u] = InvalidFile /\ ~fud[u].valid /\ fud[u].handle = CONIN
         \/ fud[u].valid /\ fud[u].handle \in Handle
<1>1. fud[u] \in File
  BY DEF TypeOK
<1>2. CASE fud[u] = InvalidFile
  BY <1>2 DEF InvalidFile
<1>3. CASE fud[u] \in [valid : {TRUE}, handle : Handle]
  BY <1>3
<1>4. QED
  BY <1>1, <1>2, <1>3 DEF File

LEMMA SysCallTyped ==
  ASSUME TypeOK, NEW u \in Userdata,
         NEW fn \in {"io", "force", "transfer", "datime"}, SysCall(fn, u)
  PROVE  sys' \in Sys
<1>1. fud[u].handle \in Handle \cup {CONIN}
  BY FileFields
<1>2. QED
  BY <1>1 DEF SysCall, Sys

LEMMA CallFields ==
  ASSUME TypeOK, call # NoCall
  PROVE  call \in [ud : Userdata, pc : {"gcpoint", "cycled"}]
  BY DEF TypeOK, Calls

LEMMA InitType == Init => TypeOK
<1> SUFFICES ASSUME Init PROVE TypeOK
  OBVIOUS
<1>1. /\ fd \in [Handle -> {"closed", "file", "device"}]
      /\ redir \in [StdHandle -> Handle \cup {NULL}]
      /\ fud \in [Userdata -> File] /\ life \in [Userdata -> Life]
  BY StructsTyped DEF Init, Life
<1>2. scripts \in 0..MaxScriptFin
  BY ScriptFinBound DEF Init
<1>3. /\ given \in SUBSET Handle /\ orphans \in SUBSET Userdata
      /\ held \in SUBSET Userdata /\ call \in Calls /\ sys \in Sys
  BY StructsTyped DEF Init
<1>4. fin \in BOOLEAN /\ closing \in BOOLEAN
  BY DEF Init
<1>5. QED
  BY <1>1, <1>2, <1>3, <1>4 DEF TypeOK

LEMMA NextType == TypeOK /\ [Next]_vars => TypeOK'
<1> SUFFICES ASSUME TypeOK, [Next]_vars PROVE TypeOK'
  OBVIOUS
<1> USE StructsTyped DEF TypeOK, gemdos, lua
<1>1. ASSUME NEW u \in Userdata, NEW h \in Handle, NEW kind \in {"file", "device"},
             Opened(u, h, kind)
      PROVE  /\ fd' \in [Handle -> {"closed", "file", "device"}]
             /\ fud' \in [Userdata -> File] /\ held' \in SUBSET Userdata
  BY <1>1 DEF Opened
<1>2. ASSUME NEW u \in Userdata, NotOpened(u)
      PROVE  /\ fd' \in [Handle -> {"closed", "file", "device"}]
             /\ fud' \in [Userdata -> File] /\ held' \in SUBSET Userdata
  BY <1>2 DEF NotOpened
<1>3. ASSUME NEW u \in Userdata, PushFileUserData(u)
      PROVE  life' \in [Userdata -> Life]
  BY <1>3 DEF PushFileUserData, Life
<1>4. ASSUME NEW u \in Userdata, l_Fopen(u) PROVE TypeOK'
  <2>1. life' \in [Userdata -> Life]
    BY <1>3, <1>4 DEF l_Fopen
  <2>2. /\ fd' \in [Handle -> {"closed", "file", "device"}]
        /\ fud' \in [Userdata -> File] /\ held' \in SUBSET Userdata
    BY <1>1, <1>2, <1>4 DEF l_Fopen
  <2>3. QED
    BY <1>4, <2>1, <2>2 DEF l_Fopen
<1>5. ASSUME NEW u \in Userdata, NEW s \in StdHandle, l_Fdup(u, s) PROVE TypeOK'
  <2>1. life' \in [Userdata -> Life]
    BY <1>3, <1>5 DEF l_Fdup
  <2>2. /\ fd' \in [Handle -> {"closed", "file", "device"}]
        /\ fud' \in [Userdata -> File] /\ held' \in SUBSET Userdata
    BY <1>1, <1>2, <1>5 DEF l_Fdup
  <2>3. QED
    BY <1>5, <2>1, <2>2 DEF l_Fdup
<1>6. ASSUME NEW u \in Userdata, FileCloseHandle(u)
      PROVE  /\ fd' \in [Handle -> {"closed", "file", "device"}]
             /\ fud' \in [Userdata -> File]
  BY <1>6 DEF FileCloseHandle, Closed, InvalidateFileUserData
<1>7. ASSUME NEW u \in Userdata, l_Fclose(u) PROVE TypeOK'
  BY <1>7 DEF l_Fclose, Closed, InvalidateFileUserData
<1>8. ASSUME NEW u \in Userdata, FileClose(u) PROVE TypeOK'
  BY <1>6, <1>8 DEF FileClose
<1>9. ASSUME NEW u \in Userdata, FileDetach(u) PROVE TypeOK'
  BY <1>9 DEF FileDetach, InvalidateFileUserData, OpenHandles
<1>10. ASSUME NEW u \in Userdata, Drop(u) \/ Resurrect(u) PROVE TypeOK'
  BY <1>10 DEF Drop, Resurrect
<1>11. ASSUME NEW u \in Userdata, FileIO(u) \/ l_Fdatime(u) PROVE TypeOK'
  BY <1>11, SysCallTyped DEF FileIO, l_Fdatime, Uses
<1>12. ASSUME NEW u \in Userdata, NEW s \in StdHandle, l_Fforce(u, s) PROVE TypeOK'
  <2>1. sys' \in Sys
    BY <1>12, SysCallTyped DEF l_Fforce
  <2>2. fud[u].handle \in Handle
    BY <1>12, FileFields DEF l_Fforce
  <2>3. QED
    BY <1>12, <2>1, <2>2 DEF l_Fforce
<1>13. ASSUME NEW u \in Userdata, BeginTransfer(u) PROVE TypeOK'
  BY <1>13 DEF BeginTransfer, Calls
<1>14. CASE TransferReturns
  <2>1. call.ud \in Userdata
    BY <1>14, CallFields DEF TransferReturns
  <2>2. sys' \in Sys
    BY <1>14, <2>1, SysCallTyped DEF TransferReturns
  <2>3. QED
    BY <1>14, <2>2 DEF TransferReturns
<1>15. CASE l_Pexec0
  BY <1>15 DEF l_Pexec0
<1>16. CASE CollectorStep
  <2>1. call' \in Calls
    <3>1. CASE call = NoCall /\ UNCHANGED call
      BY <3>1
    <3>2. CASE call.pc = "gcpoint" /\ call' = [call EXCEPT !.pc = "cycled"]
      <4>1. call # NoCall
        BY <3>2 DEF NoCall
      <4>2. QED
        BY <3>2, <4>1, CallFields DEF Calls
    <3>3. QED
      BY <1>16, <3>1, <3>2 DEF CollectorStep
  <2>2. scripts' \in 0..MaxScriptFin
    BY <1>16, ScriptFinBound DEF CollectorStep
  <2>3. QED
    BY <1>16, <2>1, <2>2 DEF CollectorStep, Life
<1>17. ASSUME NEW u \in Userdata, FileGC(u) PROVE TypeOK'
  BY <1>6, <1>17 DEF FileGC, Life
<1>18. CASE ScriptFinalizerStarts \/ ScriptFinalizerEnds
  <2>1. scripts' \in 0..MaxScriptFin
    BY <1>18, ScriptFinBound DEF ScriptFinalizerStarts, ScriptFinalizerEnds
  <2>2. fin' \in BOOLEAN
    BY <1>18, Zenon DEF ScriptFinalizerStarts, ScriptFinalizerEnds
  <2>3. QED
    BY <1>18, <2>1, <2>2 DEF ScriptFinalizerStarts, ScriptFinalizerEnds
<1>19. CASE LuaClose
  BY <1>19, ScriptFinBound DEF LuaClose, Life
<1>20. CASE UNCHANGED vars
  BY <1>20 DEF vars
<1>21. QED
  BY <1>4, <1>5, <1>7, <1>8, <1>9, <1>10, <1>11, <1>12, <1>13, <1>14, <1>15,
     <1>16, <1>17, <1>18, <1>19, <1>20
  DEF Next, ScriptStep, FinalizerStep

\* The state of the binding, of GEMDOS and of the collector keeps its type.
THEOREM FileTyped == Spec => []TypeOK
  BY InitType, NextType, PTL DEF Spec
-------------------------------------------------------------------------------
(* The inductive invariant: who owns a handle, and in which state.         *)

DueStates == {"live", "pending", "exempt"}

\* A userdata that owns a handle has its __gc still to come.
OwnerIsDue ==
  \A u \in Userdata, h \in Handle : Owns(u, h) => life[u] \in DueStates

\* What a userdata owns is open, unless a child closed it.
OwnedIsOpen ==
  \A u \in Userdata, h \in Handle :
    Owns(u, h) => (fd[h] = "closed" <=> u \in orphans)

OpenIsOwned ==
  \A h \in Handle :
    fd[h] # "closed" /\ h \notin given => \E u \in Userdata : Owns(u, h)

\* A file that a child closed is still valid, and the script's.
OrphansAreHeld == \A u \in orphans : u \in held /\ fud[u].valid

\* A detached handle is open and no userdata will close it.
GivenIsUnowned ==
  \A h \in given : fd[h] # "closed" /\ \A u \in Userdata : ~ Owns(u, h)

OwnInv ==
  /\ OwnerIsDue /\ OwnedIsOpen /\ OpenIsOwned /\ OneOwner
  /\ OrphansAreHeld /\ GivenIsUnowned

IInv == TypeOK /\ OwnInv

\* A valid userdata owns exactly its handle.
LEMMA ValidOwns ==
  ASSUME TypeOK
  PROVE  /\ \A u \in Userdata :
              fud[u].valid => fud[u].handle \in Handle /\ Owns(u, fud[u].handle)
         /\ \A u \in Userdata, h \in Handle :
              Owns(u, h) => fud[u].valid /\ fud[u].handle = h
  BY FileFields DEF Owns
-------------------------------------------------------------------------------
(* What a step can do to handles and their owners.  Every step is of one of *)
(* five kinds, and each theorem below has one case per kind.               *)

Opens(u, h) ==
  /\ orphans = {} /\ ~fud[u].valid
  /\ fd[h] = "closed" /\ fd'[h] # "closed"
  /\ \A g \in Handle \ {h} : fd'[g] = fd[g]
  /\ fud' = [fud EXCEPT ![u] = ValidFile(h)]
  /\ life'[u] \in DueStates
  /\ \A v \in Userdata \ {u} : life'[v] = life[v]
  /\ UNCHANGED <<given, orphans>>

Closes(u) ==
  /\ orphans = {} /\ fud[u].valid
  /\ u \in held \/ life[u] = "pending"
  /\ fd' = Closed(fud[u].handle)
  /\ fud' = [fud EXCEPT ![u] = InvalidFile]
  /\ \A v \in Userdata \ {u} : life'[v] = life[v]
  /\ UNCHANGED <<given, orphans>>

Detaches(u) ==
  /\ fud[u].valid
  /\ fud' = [fud EXCEPT ![u] = InvalidFile]
  /\ given' = given \cup ({fud[u].handle} \cap OpenHandles)
  /\ orphans' = orphans \ {u}
  /\ UNCHANGED <<fd, life, held>>

Stays ==
  /\ UNCHANGED <<fd, fud, given, orphans>>
  /\ \A v \in Userdata :
       fud[v].valid /\ life[v] \in DueStates => life'[v] \in DueStates
  /\ orphans # {} => UNCHANGED held

LEMMA StepKinds ==
  ASSUME IInv, [Next]_vars
  PROVE  \/ \E u \in Userdata, h \in Handle : Opens(u, h)
         \/ \E u \in Userdata : Closes(u) \/ Detaches(u)
         \/ l_Pexec0
         \/ Stays
<1>t. fud \in [Userdata -> File] /\ life \in [Userdata -> Life]
      /\ fd \in [Handle -> {"closed", "file", "device"}]
  BY DEF IInv, TypeOK
<1>f. \A u \in Userdata : ~fud[u].valid => fud[u] = InvalidFile
  BY FileFields DEF IInv
<1>1. ASSUME NEW u \in Userdata, PushFileUserData(u)
      PROVE  /\ ~fud[u].valid
             /\ life'[u] \in DueStates
             /\ \A v \in Userdata \ {u} : life'[v] = life[v]
  <2>1. \A h \in Handle : ~ Owns(u, h)
    BY <1>1 DEF PushFileUserData, IInv, OwnInv, OwnerIsDue, DueStates
  <2>2. QED
    BY <1>1, <1>t, <2>1, ValidOwns DEF PushFileUserData, DueStates, IInv
<1>2. ASSUME NEW u \in Userdata, ScriptRuns, PushFileUserData(u),
             NEW h \in Handle, NEW kind \in {"file", "device"},
             Opened(u, h, kind), UNCHANGED <<given, orphans>>
      PROVE  Opens(u, h)
  BY <1>1, <1>2, <1>t DEF Opened, Opens, ScriptRuns
<1>3. ASSUME NEW u \in Userdata, ScriptRuns, PushFileUserData(u), NotOpened(u),
             UNCHANGED <<given, orphans>>
      PROVE  Stays
  BY <1>1, <1>3, <1>t, <1>f DEF NotOpened, Stays
<1>4. ASSUME NEW u \in Userdata, FileCloseHandle(u), orphans = {},
             u \in held \/ life[u] = "pending",
             \A v \in Userdata \ {u} : life'[v] = life[v],
             UNCHANGED <<given, orphans>>
      PROVE  Closes(u) \/ Stays
  BY <1>4 DEF FileCloseHandle, InvalidateFileUserData, Closes, Stays
<1>5. ASSUME NEW u \in Userdata, l_Fopen(u)
      PROVE  Stays \/ \E h \in Handle : Opens(u, h)
  BY <1>2, <1>3, <1>5 DEF l_Fopen
<1>6. ASSUME NEW u \in Userdata, NEW s \in StdHandle, l_Fdup(u, s)
      PROVE  Stays \/ \E h \in Handle : Opens(u, h)
  BY <1>2, <1>3, <1>6 DEF l_Fdup
<1>7. ASSUME NEW u \in Userdata, l_Fclose(u) PROVE Closes(u)
  BY <1>7 DEF l_Fclose, InvalidateFileUserData, Closes, ScriptRuns, lua
<1>8. ASSUME NEW u \in Userdata, FileClose(u) PROVE Closes(u) \/ Stays
  BY <1>4, <1>8 DEF FileClose, ScriptRuns
<1>9. ASSUME NEW u \in Userdata, FileDetach(u) PROVE Detaches(u) \/ Stays
  <2>1. CASE fud[u].valid
    BY <1>9, <2>1 DEF FileDetach, InvalidateFileUserData, Detaches, gemdos, lua
  <2>2. CASE ~fud[u].valid
    <3>1. fud' = fud
      BY <1>9, <1>t, <1>f, <2>2 DEF FileDetach, InvalidateFileUserData
    <3>2. fud[u].handle \notin Handle
      BY <1>f, <2>2, HandlesDiffer DEF InvalidFile, CONIN
    <3>3. u \notin orphans
      BY <2>2 DEF IInv, OwnInv, OrphansAreHeld
    <3>4. QED
      BY <1>9, <3>1, <3>2, <3>3 DEF FileDetach, OpenHandles, Stays, gemdos, lua
  <2>3. QED
    BY <2>1, <2>2
<1>10. ASSUME NEW u \in Userdata, Drop(u) \/ Resurrect(u) PROVE Stays
  BY <1>10 DEF Drop, Resurrect, ScriptRuns, Stays, gemdos
<1>11. ASSUME NEW u \in Userdata,
              FileIO(u) \/ l_Fdatime(u) \/ BeginTransfer(u)
       PROVE  Stays
  BY <1>11 DEF FileIO, l_Fdatime, Uses, BeginTransfer, Stays, gemdos, lua
<1>12. ASSUME NEW u \in Userdata, NEW s \in StdHandle, l_Fforce(u, s) PROVE Stays
  BY <1>12 DEF l_Fforce, Stays, lua
<1>13. CASE TransferReturns \/ ScriptFinalizerStarts \/ ScriptFinalizerEnds
  BY <1>13 DEF TransferReturns, ScriptFinalizerStarts, ScriptFinalizerEnds,
               Stays, gemdos
<1>14. CASE CollectorStep
  BY <1>14, <1>t DEF CollectorStep, Stays, DueStates, gemdos
<1>15. ASSUME NEW u \in Userdata, FileGC(u) PROVE Closes(u) \/ Stays
  <2>1. \A v \in Userdata \ {u} : life'[v] = life[v]
    BY <1>15, <1>t DEF FileGC
  <2>2. orphans = {} /\ life[u] = "pending" /\ FileCloseHandle(u)
        /\ UNCHANGED <<given, orphans, held>>
    BY <1>15 DEF FileGC, CollectorMayRun
  <2>3. QED
    BY <2>1, <2>2 DEF FileCloseHandle, InvalidateFileUserData, Closes, Stays
<1>16. CASE LuaClose
  BY <1>16, <1>t DEF LuaClose, Stays, DueStates, gemdos
<1>17. CASE UNCHANGED vars
  BY <1>17 DEF vars, gemdos, lua, Stays
<1>18. QED
  BY <1>5, <1>6, <1>7, <1>8, <1>9, <1>10, <1>11, <1>12, <1>13, <1>14, <1>15,
     <1>16, <1>17
  DEF Next, ScriptStep, FinalizerStep
-------------------------------------------------------------------------------
(* Every kind of step keeps the invariant.                                 *)

\* Who owns what after a userdata got a handle, and after it lost it.
LEMMA OwnsAfterOpen ==
  ASSUME TypeOK, NEW u \in Userdata, NEW h \in Handle, Opens(u, h)
  PROVE  \A v \in Userdata, g \in Handle :
           Owns(v, g)' <=> IF v = u THEN g = h ELSE Owns(v, g)
  BY DEF TypeOK, Opens, Owns, ValidFile

LEMMA OwnsAfterInvalidate ==
  ASSUME TypeOK, NEW u \in Userdata, fud' = [fud EXCEPT ![u] = InvalidFile]
  PROVE  \A v \in Userdata, g \in Handle : Owns(v, g)' <=> v # u /\ Owns(v, g)
  BY DEF TypeOK, Owns, InvalidFile

LEMMA InitInv == Init => IInv
<1> SUFFICES ASSUME Init PROVE IInv
  OBVIOUS
<1>1. TypeOK
  BY InitType
<1>2. \A u \in Userdata, h \in Handle : ~ Owns(u, h)
  BY DEF Init, InvalidFile, Owns
<1>3. \A h \in Handle : fd[h] = "closed"
  BY DEF Init
<1>4. orphans = {} /\ given = {}
  BY DEF Init
<1>5. QED
  BY <1>1, <1>2, <1>3, <1>4
  DEF IInv, OwnInv, OwnerIsDue, OwnedIsOpen, OpenIsOwned, OneOwner,
      OrphansAreHeld, GivenIsUnowned

LEMMA OpensKeepsInv ==
  ASSUME IInv, NEW u \in Userdata, NEW h \in Handle, Opens(u, h)
  PROVE  OwnInv'
<1> USE DEF IInv, OwnInv
<1>t. TypeOK /\ given \subseteq Handle
  BY DEF TypeOK
<1>1. \A v \in Userdata, g \in Handle :
        Owns(v, g)' <=> IF v = u THEN g = h ELSE Owns(v, g)
  BY <1>t, OwnsAfterOpen
<1>2. \A v \in Userdata : ~ Owns(v, h)
  BY DEF OwnedIsOpen, Opens
<1>3. OwnerIsDue'
  BY <1>1 DEF OwnerIsDue, Opens
<1>4. OwnedIsOpen'
  BY <1>1, <1>2 DEF OwnedIsOpen, Opens
<1>5. OpenIsOwned'
  <2> SUFFICES ASSUME NEW g \in Handle, fd'[g] # "closed", g \notin given'
               PROVE  \E v \in Userdata : Owns(v, g)'
    BY DEF OpenIsOwned
  <2>1. CASE g = h
    BY <1>1, <2>1
  <2>2. CASE g # h
    <3>1. PICK v \in Userdata : Owns(v, g)
      BY <2>2 DEF OpenIsOwned, Opens
    <3>2. v # u
      BY <1>t, <3>1, ValidOwns DEF Opens
    <3>3. QED
      BY <1>1, <3>1, <3>2
  <2>3. QED
    BY <2>1, <2>2
<1>6. OneOwner'
  BY <1>1, <1>2 DEF OneOwner
<1>7. OrphansAreHeld'
  BY DEF OrphansAreHeld, Opens
<1>8. GivenIsUnowned'
  BY <1>t, <1>1 DEF GivenIsUnowned, Opens
<1>9. QED
  BY <1>3, <1>4, <1>5, <1>6, <1>7, <1>8

LEMMA ClosesKeepsInv ==
  ASSUME IInv, NEW u \in Userdata, Closes(u)
  PROVE  OwnInv'
<1> USE DEF IInv, OwnInv
<1> DEFINE h == fud[u].handle
<1>t. TypeOK /\ given \subseteq Handle /\ fd \in [Handle -> {"closed", "file", "device"}]
  BY DEF TypeOK
<1>1. \A v \in Userdata, g \in Handle : Owns(v, g)' <=> v # u /\ Owns(v, g)
  BY <1>t, OwnsAfterInvalidate DEF Closes
<1>2. h \in Handle /\ Owns(u, h)
  BY <1>t, ValidOwns DEF Closes
<1>3. \A v \in Userdata : Owns(v, h) => v = u
  BY <1>2 DEF OneOwner
<1>4. \A g \in Handle : fd'[g] = IF g = h THEN "closed" ELSE fd[g]
  BY <1>t DEF Closes, Closed
<1>5. OwnerIsDue'
  BY <1>1 DEF OwnerIsDue, Closes
<1>6. OwnedIsOpen'
  BY <1>1, <1>3, <1>4 DEF OwnedIsOpen, Closes
<1>7. OpenIsOwned'
  BY <1>t, <1>1, <1>4, ValidOwns DEF OpenIsOwned, Closes
<1>8. OneOwner'
  BY <1>1 DEF OneOwner
<1>9. OrphansAreHeld'
  BY DEF OrphansAreHeld, Closes
<1>10. GivenIsUnowned'
  BY <1>t, <1>1, <1>2, <1>4 DEF GivenIsUnowned, Closes
<1>11. QED
  BY <1>5, <1>6, <1>7, <1>8, <1>9, <1>10

LEMMA DetachesKeepsInv ==
  ASSUME IInv, NEW u \in Userdata, Detaches(u)
  PROVE  OwnInv'
<1> USE DEF IInv, OwnInv
<1> DEFINE h == fud[u].handle
<1>t. TypeOK /\ given \subseteq Handle /\ fud \in [Userdata -> File]
      /\ orphans \subseteq Userdata
  BY DEF TypeOK
<1>1. \A v \in Userdata, g \in Handle : Owns(v, g)' <=> v # u /\ Owns(v, g)
  BY <1>t, OwnsAfterInvalidate DEF Detaches
<1>2. h \in Handle /\ Owns(u, h)
  BY <1>t, ValidOwns DEF Detaches
<1>3. \A v \in Userdata : Owns(v, h) => v = u
  BY <1>2 DEF OneOwner
<1>4. fd' = fd /\ life' = life /\ held' = held
  BY DEF Detaches
<1>5. \A g \in Handle :
        g \in given' <=> g \in given \/ (g = h /\ fd[h] # "closed")
  BY <1>2 DEF Detaches, OpenHandles
<1>6. OwnerIsDue'
  BY <1>1, <1>4 DEF OwnerIsDue
<1>7. OwnedIsOpen'
  BY <1>1, <1>4 DEF OwnedIsOpen, Detaches
<1>8. OpenIsOwned'
  BY <1>t, <1>1, <1>4, <1>5, ValidOwns DEF OpenIsOwned
<1>9. OneOwner'
  BY <1>1 DEF OneOwner
<1>10. OrphansAreHeld'
  BY <1>t, <1>4 DEF OrphansAreHeld, Detaches
<1>11. GivenIsUnowned'
  <2>1. given' \subseteq Handle
    BY <1>t, <1>2 DEF Detaches
  <2>2. QED
    BY <2>1, <1>1, <1>3, <1>4, <1>5 DEF GivenIsUnowned
<1>12. QED
  BY <1>6, <1>7, <1>8, <1>9, <1>10, <1>11

LEMMA PexecKeepsInv ==
  ASSUME IInv, l_Pexec0
  PROVE  OwnInv'
<1> USE DEF IInv, OwnInv
<1>t. TypeOK /\ given \subseteq Handle
  BY DEF TypeOK
<1>1. /\ \A v \in Userdata, g \in Handle : Owns(v, g)' <=> Owns(v, g)
      /\ life' = life /\ held' = held /\ fud' = fud /\ orphans = {}
  BY DEF l_Pexec0, lua, Owns, ScriptRuns
<1>2. /\ Redirected \subseteq Handle
      /\ \A g \in Handle : fd'[g] = IF g \in Redirected THEN "closed" ELSE fd[g]
      /\ given' = given \ Redirected
  BY DEF l_Pexec0, Redirected, OpenHandles
<1>3. \A v \in Userdata, g \in Handle :
        Owns(v, g) => (v \in orphans' <=> g \in Redirected)
  BY <1>t, <1>2, ValidOwns DEF l_Pexec0
<1>4. OwnerIsDue'
  BY <1>1 DEF OwnerIsDue
<1>5. OwnedIsOpen'
  BY <1>1, <1>2, <1>3 DEF OwnedIsOpen
<1>6. OpenIsOwned'
  BY <1>1, <1>2 DEF OpenIsOwned
<1>7. OneOwner'
  BY <1>1 DEF OneOwner
<1>8. OrphansAreHeld'
  <2> SUFFICES ASSUME NEW v \in orphans' PROVE v \in held' /\ fud'[v].valid
    BY DEF OrphansAreHeld
  <2>1. v \in Userdata /\ \E g \in Redirected : Owns(v, g)
    BY DEF l_Pexec0
  <2>2. fud[v].valid
    BY <1>t, <1>2, <2>1, ValidOwns
  <2>3. v \in held
    BY DEF l_Pexec0
  <2>4. QED
    BY <1>1, <2>2, <2>3
<1>9. GivenIsUnowned'
  BY <1>t, <1>1, <1>2 DEF GivenIsUnowned
<1>10. QED
  BY <1>4, <1>5, <1>6, <1>7, <1>8, <1>9

LEMMA StaysKeepsInv ==
  ASSUME IInv, Stays
  PROVE  OwnInv'
<1> USE DEF IInv, OwnInv
<1>t. TypeOK
  OBVIOUS
<1>1. /\ \A v \in Userdata, g \in Handle : Owns(v, g)' <=> Owns(v, g)
      /\ fd' = fd /\ fud' = fud /\ given' = given /\ orphans' = orphans
  BY DEF Stays, Owns
<1>2. OwnerIsDue'
  BY <1>t, <1>1, ValidOwns DEF OwnerIsDue, Stays
<1>3. OwnedIsOpen' /\ OpenIsOwned' /\ OneOwner'
  BY <1>1 DEF OwnedIsOpen, OpenIsOwned, OneOwner
<1>4. OrphansAreHeld'
  BY <1>1 DEF OrphansAreHeld, Stays
<1>5. GivenIsUnowned'
  BY <1>t, <1>1 DEF GivenIsUnowned, TypeOK
<1>6. QED
  BY <1>2, <1>3, <1>4, <1>5

LEMMA NextInv == IInv /\ [Next]_vars => IInv'
<1> SUFFICES ASSUME IInv, [Next]_vars PROVE IInv'
  OBVIOUS
<1>1. TypeOK'
  BY NextType DEF IInv
<1>2. OwnInv'
  BY StepKinds, OpensKeepsInv, ClosesKeepsInv, DetachesKeepsInv,
     PexecKeepsInv, StaysKeepsInv
<1>3. QED
  BY <1>1, <1>2 DEF IInv

LEMMA FileInvariant == Spec => []IInv
  BY InitInv, NextInv, PTL DEF Spec
-------------------------------------------------------------------------------
(* What follows.                                                           *)

\* The handle of a valid file is open from the call that stored it until the
\* one that closes or detaches it, or until a child closes it.
THEOREM ValidFilesAreOpen == Spec => []ValidIsOpen
<1>1. IInv => ValidIsOpen
  BY ValidOwns DEF IInv, OwnInv, OwnedIsOpen, ValidIsOpen, OpenHandles
<1>2. QED
  BY <1>1, FileInvariant, PTL

\* No handle is going to be closed by two userdata.
THEOREM HandlesHaveAtMostOneOwner == Spec => []OneOwner
<1>1. IInv => OneOwner
  BY DEF IInv, OwnInv
<1>2. QED
  BY <1>1, FileInvariant, PTL

\* Every open handle that was not detached belongs to a userdata whose __gc is
\* still to come, or that was opened while the state was being closed.
THEOREM NoHandleLeaks == Spec => []NoHandleLeak
<1>1. IInv => NoHandleLeak
  BY DEF IInv, OwnInv, OpenIsOwned, OwnerIsDue, DueStates, NoHandleLeak,
         OpenHandles
<1>2. QED
  BY <1>1, FileInvariant, PTL

\* A handle is closed through its owner, for a reason, or by a child that got
\* it as a standard handle, and then the script knows its owner.
THEOREM ClosedByOwnerOrChild == Spec => OnlyOwnerCloses
<1>1. IInv /\ [Next]_vars =>
        [\A h \in OpenHandles :
           fd'[h] = "closed" =>
             \/ \E u \in Userdata :
                  /\ Owns(u, h) /\ ~fud'[u].valid
                  /\ u \in held \/ life[u] = "pending"
             \/ /\ h \in Redirected
                /\ \A u \in Userdata : Owns(u, h) => u \in orphans' \cap held']_vars
  <2> SUFFICES ASSUME IInv, Next, NEW h \in OpenHandles, fd'[h] = "closed"
               PROVE  \/ \E u \in Userdata :
                           /\ Owns(u, h) /\ ~fud'[u].valid
                           /\ u \in held \/ life[u] = "pending"
                      \/ /\ h \in Redirected
                         /\ \A u \in Userdata :
                              Owns(u, h) => u \in orphans' \cap held'
    OBVIOUS
  <2>t. /\ h \in Handle /\ fd[h] # "closed" /\ TypeOK
        /\ fud \in [Userdata -> File]
        /\ fd \in [Handle -> {"closed", "file", "device"}]
    BY DEF OpenHandles, IInv, TypeOK
  <2>1. ASSUME NEW u \in Userdata, NEW g \in Handle, Opens(u, g) PROVE FALSE
    BY <2>1, <2>t DEF Opens
  <2>2. ASSUME NEW u \in Userdata, Closes(u)
        PROVE  /\ Owns(u, h) /\ ~fud'[u].valid
               /\ u \in held \/ life[u] = "pending"
    <3>1. h = fud[u].handle
      BY <2>2, <2>t DEF Closes, Closed
    <3>2. Owns(u, h)
      BY <2>2, <2>t, <3>1, ValidOwns DEF Closes
    <3>3. fud'[u] = InvalidFile
      BY <2>2, <2>t DEF Closes
    <3>4. QED
      BY <2>2, <3>2, <3>3 DEF InvalidFile, Closes
  <2>3. ASSUME (\E u \in Userdata : Detaches(u)) \/ Stays PROVE FALSE
    BY <2>3, <2>t DEF Detaches, Stays
  <2>4. CASE l_Pexec0
    <3>1. h \in Redirected
      BY <2>4, <2>t DEF l_Pexec0
    <3>2. \A u \in Userdata : Owns(u, h) => u \in orphans' /\ u \in held'
      BY <2>4, <3>1 DEF l_Pexec0, lua
    <3>3. QED
      BY <3>1, <3>2
  <2>5. QED
    BY <2>1, <2>2, <2>3, <2>4, StepKinds
<1>2. QED
  BY <1>1, FileInvariant, PTL DEF Spec, OnlyOwnerCloses

\* A detached handle is closed by a child it was forced upon and by nothing
\* else.
THEOREM DetachedIsLeftOpen == Spec => DetachedStaysOpen
<1>1. IInv /\ [Next]_vars =>
        [\A h \in given : fd'[h] = "closed" => h \in Redirected]_vars
  <2> SUFFICES ASSUME IInv, Next, NEW h \in given, fd'[h] = "closed"
               PROVE  h \in Redirected
    OBVIOUS
  <2>t. /\ TypeOK /\ h \in Handle
        /\ fd[h] # "closed" /\ \A u \in Userdata : ~ Owns(u, h)
        /\ fd \in [Handle -> {"closed", "file", "device"}]
    BY DEF IInv, TypeOK, OwnInv, GivenIsUnowned
  <2>1. ASSUME NEW u \in Userdata, NEW g \in Handle, Opens(u, g) PROVE FALSE
    BY <2>1, <2>t DEF Opens
  <2>2. ASSUME NEW u \in Userdata, Closes(u) PROVE FALSE
    <3>1. h = fud[u].handle
      BY <2>2, <2>t DEF Closes, Closed
    <3>2. QED
      BY <2>2, <2>t, <3>1, ValidOwns DEF Closes
  <2>3. ASSUME (\E u \in Userdata : Detaches(u)) \/ Stays PROVE FALSE
    BY <2>3, <2>t DEF Detaches, Stays
  <2>4. CASE l_Pexec0
    BY <2>4, <2>t DEF l_Pexec0
  <2>5. QED
    BY <2>1, <2>2, <2>3, <2>4, StepKinds
<1>2. QED
  BY <1>1, FileInvariant, PTL DEF Spec, DetachedStaysOpen
-------------------------------------------------------------------------------
(* The refinement of ResourceOwner.                                        *)

Busy == (OpenHandles \ given) \cup {fud[u].handle : u \in orphans}
Holder == [h \in Handle |-> {u \in Userdata : Owns(u, h)}]

LEMMA AcquireMaps ==
  ASSUME NEW h \in Handle, NEW u \in Userdata,
         h \notin Busy, \A g \in Handle : u \notin Holder[g],
         Busy' = Busy \cup {h}, Holder' = [Holder EXCEPT ![h] = {u}]
  PROVE  Ownership!Next
<1>1. Ownership!Acquire(h, u)
  BY DEF Ownership!Acquire, Busy, Holder
<1>2. QED
  BY <1>1 DEF Ownership!Next

LEMMA ReleaseMaps ==
  ASSUME NEW h \in Handle, NEW u \in Userdata, Holder[h] = {u},
         Busy' = Busy \ {h}, Holder' = [Holder EXCEPT ![h] = {}]
  PROVE  Ownership!Next
<1>1. Ownership!Release(h, u)
  BY DEF Ownership!Release, Busy, Holder
<1>2. QED
  BY <1>1 DEF Ownership!Next

\* What is busy: the open handles that were not detached and those of orphans.
LEMMA BusyHandles ==
  ASSUME TypeOK, OrphansAreHeld
  PROVE  /\ Busy \subseteq Handle
         /\ \A g \in Handle :
              g \in Busy <=> \/ fd[g] # "closed" /\ g \notin given
                           \/ \E v \in orphans : Owns(v, g)
<1>1. orphans \subseteq Userdata
  BY DEF TypeOK
<1>2. \A v \in orphans : fud[v].handle \in Handle /\ Owns(v, fud[v].handle)
  BY <1>1, ValidOwns DEF OrphansAreHeld
<1>3. \A v \in orphans, g \in Handle : Owns(v, g) => fud[v].handle = g
  BY DEF Owns
<1>4. QED
  BY <1>2, <1>3 DEF Busy, OpenHandles

LEMMA StepMaps == IInv /\ [Next]_vars => [Ownership!Next]_(Ownership!vars)
<1> SUFFICES ASSUME IInv, [Next]_vars
             PROVE  Ownership!Next \/ (Busy' = Busy /\ Holder' = Holder)
  BY DEF Ownership!vars, Busy, Holder
<1>t. /\ TypeOK /\ OwnInv /\ TypeOK' /\ OwnInv'
      /\ given \subseteq Handle /\ orphans \subseteq Userdata
      /\ fd \in [Handle -> {"closed", "file", "device"}]
  BY NextInv DEF IInv, TypeOK
<1>b. /\ Busy \subseteq Handle
      /\ \A g \in Handle :
           g \in Busy <=> \/ fd[g] # "closed" /\ g \notin given
                        \/ \E v \in orphans : Owns(v, g)
  BY <1>t, BusyHandles DEF OwnInv
<1>p. /\ Busy' \subseteq Handle
      /\ \A g \in Handle :
           g \in Busy' <=> \/ fd'[g] # "closed" /\ g \notin given'
                         \/ \E v \in orphans' : Owns(v, g)'
  <2>1. TypeOK' /\ OrphansAreHeld' =>
          (/\ Busy \subseteq Handle
           /\ \A g \in Handle :
                g \in Busy <=> \/ fd[g] # "closed" /\ g \notin given
                             \/ \E v \in orphans : Owns(v, g))'
    BY BusyHandles, PTL
  <2>2. QED
    BY <1>t, <2>1 DEF OwnInv
<1>1. ASSUME NEW u \in Userdata, NEW h \in Handle, Opens(u, h)
      PROVE  Ownership!Next
  <2>1. \A v \in Userdata, g \in Handle :
          Owns(v, g)' <=> IF v = u THEN g = h ELSE Owns(v, g)
    BY <1>t, <1>1, OwnsAfterOpen
  <2>2. \A v \in Userdata : ~ Owns(v, h)
    BY <1>t, <1>1 DEF OwnInv, OwnedIsOpen, Opens
  <2>3. \A g \in Handle : ~ Owns(u, g)
    BY <1>t, <1>1, ValidOwns DEF Opens
  <2>4. h \notin Busy /\ Busy' = Busy \cup {h}
    <3>1. h \notin given
      BY <1>t, <1>1 DEF OwnInv, GivenIsUnowned, Opens
    <3>2. QED
      BY <1>1, <1>b, <1>p, <3>1 DEF Opens
  <2>5. Holder' = [Holder EXCEPT ![h] = {u}]
    BY <2>1, <2>2, <2>3 DEF Holder
  <2>6. \A g \in Handle : u \notin Holder[g]
    BY <2>3 DEF Holder
  <2>7. QED
    BY <2>4, <2>5, <2>6, AcquireMaps
<1>2. ASSUME NEW u \in Userdata, Closes(u) \/ Detaches(u)
      PROVE  Ownership!Next
  <2> DEFINE h == fud[u].handle
  <2>1. h \in Handle /\ Owns(u, h)
    BY <1>t, <1>2, ValidOwns DEF Closes, Detaches
  <2>2. \A v \in Userdata, g \in Handle : Owns(v, g)' <=> v # u /\ Owns(v, g)
    BY <1>t, <1>2, OwnsAfterInvalidate DEF Closes, Detaches
  <2>3. \A v \in Userdata : Owns(v, h) <=> v = u
    BY <1>t, <2>1 DEF OwnInv, OneOwner
  <2>4. \A g \in Handle : Owns(u, g) <=> g = h
    BY <1>t, <2>1, ValidOwns
  <2>5. Holder[h] = {u} /\ Holder' = [Holder EXCEPT ![h] = {}]
    BY <2>1, <2>2, <2>3, <2>4 DEF Holder
  <2>6. Busy' = Busy \ {h}
    <3>1. CASE Closes(u)
      <4>1. \A g \in Handle : fd'[g] = IF g = h THEN "closed" ELSE fd[g]
        BY <1>t, <3>1 DEF Closes, Closed
      <4>2. orphans = {} /\ orphans' = {} /\ given' = given
        BY <3>1 DEF Closes
      <4>3. \A g \in Handle : g \in Busy' <=> g \in Busy /\ g # h
        BY <1>b, <1>p, <4>1, <4>2
      <4>4. QED
        BY <1>b, <1>p, <4>3
    <3>2. CASE Detaches(u)
      <4>1. \A g \in Handle :
              g \in given' <=> g \in given \/ (g = h /\ fd[h] # "closed")
        BY <2>1, <3>2 DEF Detaches, OpenHandles
      <4>2. fd' = fd /\ orphans' = orphans \ {u}
        BY <3>2 DEF Detaches
      <4>3. ASSUME NEW g \in Handle
            PROVE  (\E v \in orphans' : Owns(v, g)')
                     <=> g # h /\ \E v \in orphans : Owns(v, g)
        BY <1>t, <2>2, <2>3, <2>4, <4>2
      <4>4. \A g \in Handle : g \in Busy' <=> g \in Busy /\ g # h
        BY <1>b, <1>p, <4>1, <4>2, <4>3
      <4>5. QED
        BY <1>b, <1>p, <4>4
    <3>3. QED
      BY <1>2, <3>1, <3>2
  <2>7. QED
    BY <2>1, <2>5, <2>6, ReleaseMaps
<1>3. CASE l_Pexec0
  <2>1. /\ \A v \in Userdata, g \in Handle : Owns(v, g)' <=> Owns(v, g)
        /\ orphans = {}
    BY <1>3 DEF l_Pexec0, Owns, ScriptRuns
  <2>2. /\ \A g \in Handle : fd'[g] = IF g \in Redirected THEN "closed" ELSE fd[g]
        /\ given' = given \ Redirected
        /\ \A g \in Redirected : g \in Handle /\ fd[g] # "closed"
    BY <1>3 DEF l_Pexec0, Redirected, OpenHandles
  <2>3. ASSUME NEW g \in Handle
        PROVE  (\E v \in orphans' : Owns(v, g)')
                 <=> g \in Redirected /\ \E v \in Userdata : Owns(v, g)
    <3>1. \A v \in Userdata : Owns(v, g) => (v \in orphans' <=> g \in Redirected)
      BY <1>t, <1>3, <2>2, ValidOwns DEF l_Pexec0
    <3>2. orphans' \subseteq Userdata
      BY <1>3 DEF l_Pexec0
    <3>3. QED
      BY <2>1, <3>1, <3>2
  <2>4. \A g \in Handle :
          (\E v \in Userdata : Owns(v, g)) <=> fd[g] # "closed" /\ g \notin given
    BY <1>t, <2>1 DEF OwnInv, OwnedIsOpen, OpenIsOwned, GivenIsUnowned
  <2>5. \A g \in Handle : g \in Busy' <=> g \in Busy
    BY <1>b, <1>p, <2>1, <2>2, <2>3, <2>4
  <2>6. Busy' = Busy
    BY <1>b, <1>p, <2>5
  <2>7. Holder' = Holder
    BY <2>1 DEF Holder
  <2>8. QED
    BY <2>6, <2>7
<1>4. CASE Stays
  <2>1. Busy' = Busy
    BY <1>4 DEF Stays, Busy, OpenHandles
  <2>2. Holder' = Holder
    BY <1>4 DEF Stays, Holder, Owns
  <2>3. QED
    BY <2>1, <2>2
<1>5. QED
  BY <1>1, <1>2, <1>3, <1>4, StepKinds

\* File userdata implement ResourceOwner: handles are got, held and given back
\* by one userdata each, children's exits and detached handles included.
THEOREM FileImplementsOwner == Spec => HandlesHaveOneOwner
<1>1. Init => Ownership!Init
  <2> SUFFICES ASSUME Init PROVE Ownership!Init
    OBVIOUS
  <2>1. Busy = {}
    BY DEF Init, Busy, OpenHandles
  <2>2. \A u \in Userdata, h \in Handle : ~ Owns(u, h)
    BY DEF Init, Owns, InvalidFile
  <2>3. Holder = [h \in Handle |-> {}]
    BY <2>2 DEF Holder
  <2>4. QED
    BY <2>1, <2>3 DEF Ownership!Init, Busy, Holder
<1>2. QED
  BY <1>1, StepMaps, FileInvariant, PTL
  DEF Spec, HandlesHaveOneOwner, Ownership!Spec
-------------------------------------------------------------------------------
(* What liveness rests on.  That lua_close closes everything is checked    *)
(* under fairness; the theorems here are what this says besides: its list  *)
(* of finalizers only gets shorter, and nothing is open when it is empty.  *)

Pending == {u \in Userdata : life[u] = "pending"}

\* Once lua_close has begun no transfer is in progress, and no userdata is left
\* whose __gc has not been queued or called, but those that will have none.
ClosingQueuesAll == closing => call = NoCall /\ \A u \in Userdata : life[u] # "live"

\* What a script does creates userdata, and queues none.
LEMMA ScriptQueuesNothing ==
  ASSUME ScriptStep
  PROVE  /\ scripts' = scripts /\ closing' = closing
         /\ life' = life \/ \E u \in Userdata : PushFileUserData(u)
         /\ call' = call \/ ~closing
<1> DEFINE Queues == /\ scripts' = scripts /\ closing' = closing
                     /\ life' = life \/ \E u \in Userdata : PushFileUserData(u)
                     /\ call' = call \/ ~closing
<1>1. ASSUME NEW u \in Userdata, NEW s \in StdHandle, l_Fdup(u, s) \/ l_Fforce(u, s)
      PROVE  Queues
  BY <1>1 DEF l_Fdup, l_Fforce, lua
<1>2. ASSUME NEW u \in Userdata, l_Fopen(u) \/ BeginTransfer(u) \/ Drop(u) \/ Resurrect(u)
      PROVE  Queues
  BY <1>2 DEF l_Fopen, BeginTransfer, Drop, Resurrect, ScriptRuns, InControl
<1>3. ASSUME NEW u \in Userdata,
             \/ l_Fclose(u) \/ FileClose(u) \/ FileDetach(u)
             \/ FileIO(u) \/ l_Fdatime(u)
      PROVE  Queues
  BY <1>3 DEF l_Fclose, FileClose, FileDetach, FileIO, l_Fdatime, Uses, lua
<1>4. CASE l_Pexec0
  BY <1>4 DEF l_Pexec0, lua
<1>5. QED
  BY <1>1, <1>2, <1>3, <1>4 DEF ScriptStep

\* No step after lua_close has begun takes that back.
LEMMA ClosingInvariant == Spec => []ClosingQueuesAll
<1>1. Init => ClosingQueuesAll
  BY DEF Init, ClosingQueuesAll
<1>2. TypeOK /\ ClosingQueuesAll /\ [Next]_vars => ClosingQueuesAll'
  <2> SUFFICES ASSUME TypeOK, ClosingQueuesAll, [Next]_vars
               PROVE  ClosingQueuesAll'
    OBVIOUS
  <2> USE DEF ClosingQueuesAll, TypeOK
  <2>1. CASE ScriptStep
    <3>1. ASSUME NEW u \in Userdata, PushFileUserData(u), closing
          PROVE  \A v \in Userdata : life'[v] # "live"
      BY <3>1 DEF PushFileUserData
    <3>2. QED
      BY <2>1, <3>1, ScriptQueuesNothing
  <2>2. CASE TransferReturns
    BY <2>2 DEF TransferReturns
  <2>3. CASE FinalizerStep
    BY <2>3 DEF FinalizerStep, FileGC, ScriptFinalizerStarts
  <2>4. CASE CollectorStep
    BY <2>4 DEF CollectorStep
  <2>5. CASE LuaClose
    BY <2>5 DEF LuaClose, ScriptRuns, InControl
  <2>6. QED
    BY <2>1, <2>2, <2>3, <2>4, <2>5 DEF Next, ScriptFinalizerEnds, vars, lua
<1>3. QED
  BY <1>1, <1>2, FileTyped, PTL DEF Spec

\* When lua_close has called every pending __gc, every handle is closed, whatever
\* the finalizers on its list did; only what the script detached, and what a
\* script finalizer opened meanwhile, is open.
ClosedHasReleasedAll ==
  closing /\ Pending = {} =>
    \A h \in OpenHandles \ given :
      \E u \in Userdata : Owns(u, h) /\ life[u] = "exempt"

\* So whatever walks the list to its end ends with nothing lost.
THEOREM CloseEndsWithAllReleased == Spec => []ClosedHasReleasedAll
<1>1. NoHandleLeak /\ ClosingQueuesAll => ClosedHasReleasedAll
  BY DEF NoHandleLeak, ClosingQueuesAll, ClosedHasReleasedAll, Pending
<1>2. QED
  BY <1>1, NoHandleLeaks, ClosingInvariant, PTL

\* The list of finalizers that lua_close walks only gets shorter, and each
\* finalizer called is taken off it: no finalizer, whatever it opens, closes or
\* brings back, puts one on it.
FinalizersRunOut ==
  [][closing =>
       /\ Pending' \subseteq Pending /\ scripts' <= scripts
       /\ FinalizerStep => Pending' # Pending \/ scripts' < scripts]_vars

\* So lua_close ends if finalizers return.
THEOREM FinalizersAlwaysRunOut == Spec => FinalizersRunOut
<1> DEFINE Shrinks == /\ Pending' \subseteq Pending /\ scripts' <= scripts
                      /\ FinalizerStep => Pending' # Pending \/ scripts' < scripts
<1>1. TypeOK /\ ClosingQueuesAll /\ [Next]_vars => [closing => Shrinks]_vars
  <2> SUFFICES ASSUME TypeOK, ClosingQueuesAll, Next, closing
               PROVE  Shrinks
    BY DEF vars
  <2>1. scripts \in Nat /\ call = NoCall
    BY ScriptFinBound DEF TypeOK, ClosingQueuesAll
  <2>2. ASSUME scripts' = scripts,
               \A u \in Userdata : life'[u] = "pending" => life[u] = "pending"
        PROVE  Pending' \subseteq Pending /\ scripts' <= scripts
    BY <2>1, <2>2 DEF Pending
  <2>3. ASSUME NEW u \in Userdata, FileGC(u)
        PROVE  Shrinks
    BY <2>1, <2>3 DEF FileGC, Pending, TypeOK
  <2>4. CASE ScriptFinalizerStarts
    BY <2>1, <2>4 DEF ScriptFinalizerStarts, Pending
  <2>5. CASE FinalizerStep
    BY <2>3, <2>4, <2>5 DEF FinalizerStep
  <2>6. CASE ScriptStep
    <3>1. ASSUME NEW u \in Userdata, PushFileUserData(u)
          PROVE  \A v \in Userdata : life'[v] = "pending" => life[v] = "pending"
      BY <3>1 DEF PushFileUserData, TypeOK
    <3>2. QED
      BY <2>2, <2>5, <2>6, <3>1, ScriptQueuesNothing
  <2>7. CASE ScriptFinalizerEnds
    BY <2>2, <2>5, <2>7 DEF ScriptFinalizerEnds
  <2>8. ~TransferReturns /\ ~CollectorStep /\ ~LuaClose
    BY <2>1 DEF TransferReturns, CollectorStep, LuaClose, ScriptRuns, InControl
  <2>9. QED
    BY <2>5, <2>6, <2>7, <2>8 DEF Next
<1>2. QED
  BY <1>1, FileTyped, ClosingInvariant, PTL DEF Spec, FinalizersRunOut
===============================================================================
