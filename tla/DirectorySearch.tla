---------------------------- MODULE DirectorySearch ----------------------------
(***************************************************************************)
(* The directory search (src/gemdos/gemdos_f.c): Fsfirst, Fsnext and       *)
(* copydta on Dta userdata.  GEMDOS searches with whatever disk transfer   *)
(* address (DTA) the process has set, keeps the state of the search there  *)
(* and writes there what it found, so the binding points the DTA at the    *)
(* userdata's memory for the time of the call.                             *)
(*                                                                         *)
(* As in GemdosMemory, a collection can come where Lua objects are created *)
(* (PushDtaUserData) and may run finalizers the script wrote, which search *)
(* on their own; collection is stopped while one runs.  A Dta owns nothing *)
(* in GEMDOS and has no finalizer: it is simply freed.                     *)
(*                                                                         *)
(* GEMDOS is external: a search finds files in directory order and goes on *)
(* when files are deleted, as unittest/fsnext.lua relies on.  No file is   *)
(* created while searches are under way.                                   *)
(***************************************************************************)
EXTENDS FiniteSetsExt

CONSTANTS
  Userdata,    \* identities a Dta userdata can have
  Entry,       \* files, numbered in directory order
  Selection,   \* the sets of files a name and attributes can select
  PROCESS,     \* the DTA the process had before
  NULL         \* no file, no userdata

ASSUME EntriesAreNumbered ==
  /\ Entry \subseteq Nat /\ NULL \notin Entry
  /\ Selection \subseteq SUBSET Entry

ASSUME DtasDiffer == PROCESS \notin Userdata /\ NULL \notin Userdata \cup {PROCESS}

VARIABLES
  dir,         \* files that exist
  dta,         \* the DTA of the process
  mem,         \* per DTA: its contents
  born,        \* userdata that exist
  held,        \* userdata the script can reach
  call,        \* per context: the C function in progress
  fin          \* a script finalizer is running

vars == <<dir, dta, mem, born, held, call, fin>>
-------------------------------------------------------------------------------
\* A finalizer interrupts the main program, and may call the same functions.
Context == {"main", "finalizer"}
Who == IF fin THEN "finalizer" ELSE "main"

\* The last file found and what the search selects; memset leaves it blank.
BlankDta == [at |-> NULL, select |-> {}]
Dta == [at : Entry \cup {NULL}, select : SUBSET Entry]

\* pc: "pushed" while Lua objects are created, "set" when the DTA points to
\* the userdata, "searched" when GEMDOS has answered.  src is the original of
\* a copy, select what Fsfirst was given, saved the DTA to restore.
Call(fn, ud, src, select, pc, saved) ==
  [fn |-> fn, ud |-> ud, src |-> src, select |-> select,
   pc |-> pc, saved |-> saved, found |-> FALSE]

NoCall == Call("none", NULL, NULL, {}, "idle", NULL)

Begun ==
  [fn : {"first", "next", "copy"}, ud : Userdata, src : Userdata \cup {NULL},
   select : SUBSET Entry, pc : {"pushed", "set", "searched"},
   saved : Userdata \cup {PROCESS, NULL}, found : BOOLEAN]

Calls == {NoCall} \cup Begun

TypeOK ==
  /\ dir \in SUBSET Entry
  /\ dta \in Userdata \cup {PROCESS}
  /\ mem \in [Userdata \cup {PROCESS} -> Dta]
  /\ born \in SUBSET Userdata
  /\ held \in SUBSET born
  /\ call \in [Context -> Calls]
  /\ fin \in BOOLEAN

Init ==
  /\ dir = Entry
  /\ dta = PROCESS
  /\ mem = [d \in Userdata \cup {PROCESS} |-> BlankDta]
  /\ born = {}
  /\ held = {}
  /\ call = [c \in Context |-> NoCall]
  /\ fin = FALSE
-------------------------------------------------------------------------------
(* Who runs.                                                               *)

\* A finalizer or the main program, between two calls.
ScriptRuns == call[Who] = NoCall

\* Lua objects are created: by the script, or by PushDtaUserData.
GcPoint == ~fin /\ call["main"].pc \in {"idle", "pushed"}

Goes(c) == call' = [call EXCEPT ![Who] = c]
-------------------------------------------------------------------------------
(* Fsfirst and Fsnext.                                                     *)

\* A zeroed userdata on the stack.
PushDtaUserData(u) ==
  /\ u \notin born
  /\ born' = born \cup {u}
  /\ mem' = [mem EXCEPT ![u] = BlankDta]

\* An attribute that does not exist raises an error before this.
l_Fsfirst(u, selected) ==
  /\ ScriptRuns
  /\ PushDtaUserData(u)
  /\ Goes(Call("first", u, NULL, selected, "pushed", NULL))
  /\ UNCHANGED <<dir, dta, held, fin>>

\* Lua has no memory for the objects: the error leaves the C function.
PushRaises ==
  /\ call[Who].pc = "pushed"
  /\ Goes(NoCall)
  /\ UNCHANGED <<dir, dta, mem, born, held, fin>>

\* Fgetdta, Fsetdta.
SetDta ==
  /\ call[Who].fn = "first" /\ call[Who].pc = "pushed"
  /\ dta' = call[Who].ud
  /\ Goes([call[Who] EXCEPT !.pc = "set", !.saved = dta])
  /\ UNCHANGED <<dir, mem, born, held, fin>>

\* No Lua object is created: the same calls at once.
l_Fsnext(u) ==
  /\ ScriptRuns /\ u \in held
  /\ dta' = u
  /\ Goes(Call("next", u, NULL, {}, "set", dta))
  /\ UNCHANGED <<dir, mem, born, held, fin>>

\* What the search in a DTA has still to visit.
Rest(d) == {e \in dir \cap mem[d].select : mem[d].at # NULL /\ e > mem[d].at}

\* GEMDOS writes what it finds to the DTA of the process, or fails: no (more)
\* such files, or a path or a drive it cannot search.
Search ==
  /\ call[Who].pc = "set"
  /\ LET first == call[Who].fn = "first"
         select == IF first THEN call[Who].select ELSE mem[dta].select
         candidates == IF first THEN dir \cap select ELSE Rest(dta)
     IN  \/ /\ candidates # {}
            /\ mem' = [mem EXCEPT ![dta] =
                         [at |-> Min(candidates), select |-> select]]
            /\ Goes([call[Who] EXCEPT !.pc = "searched", !.found = TRUE])
         \/ /\ first \/ candidates = {}
            /\ Goes([call[Who] EXCEPT !.pc = "searched"])
            /\ UNCHANGED mem
  /\ UNCHANGED <<dir, dta, born, held, fin>>

\* Faulty: an error returns before the DTA is restored.
RestoreUnlessError ==
  /\ call[Who].pc = "searched"
  /\ dta' = IF call[Who].found THEN call[Who].saved ELSE dta
  /\ held' = IF call[Who].found THEN held \cup {call[Who].ud} ELSE held
  /\ Goes(NoCall)
  /\ UNCHANGED <<dir, mem, born, fin>>

\* The second Fsetdta; then Fsfirst returns its userdata, or pops it when
\* nothing was found.  That of Fsnext is the script's already.
RestoreDta ==
  /\ call[Who].pc = "searched"
  /\ dta' = call[Who].saved
  /\ held' = IF call[Who].found THEN held \cup {call[Who].ud} ELSE held
  /\ Goes(NoCall)
  /\ UNCHANGED <<dir, mem, born, fin>>
-------------------------------------------------------------------------------
(* Copies, and what the script does besides.                               *)

\* The original stays on the stack while the copy is created.
BeginCopydta(u, v) ==
  /\ ScriptRuns /\ u \in held
  /\ PushDtaUserData(v)
  /\ Goes(Call("copy", v, u, {}, "pushed", NULL))
  /\ UNCHANGED <<dir, dta, held, fin>>

\* Faulty: the search's state is left out of the copy.
CopydtaKeepsNameOnly ==
  /\ call[Who].fn = "copy"
  /\ mem' = [mem EXCEPT ![call[Who].ud].at = mem[call[Who].src].at]
  /\ held' = held \cup {call[Who].ud}
  /\ Goes(NoCall)
  /\ UNCHANGED <<dir, dta, born, fin>>

\* memcpy, after the objects were created.
DtaCopydta ==
  /\ call[Who].fn = "copy"
  /\ mem' = [mem EXCEPT ![call[Who].ud] = mem[call[Who].src]]
  /\ held' = held \cup {call[Who].ud}
  /\ Goes(NoCall)
  /\ UNCHANGED <<dir, dta, born, fin>>

\* What name(), length(), attr(), datime() and tostring() tell of a Dta.
DtaName(u) == mem[u].at

Drop(u) ==
  /\ ScriptRuns /\ u \in held
  /\ held' = held \ {u}
  /\ UNCHANGED <<dir, dta, mem, born, call, fin>>

\* A file is deleted, often the one a Dta has just found.
l_Fdelete(e) ==
  /\ ScriptRuns /\ e \in dir
  /\ dir' = dir \ {e}
  /\ UNCHANGED <<dta, mem, born, held, call, fin>>
-------------------------------------------------------------------------------
(* The collector.                                                          *)

OnStack(u) == u \in {call["main"].ud, call["main"].src}

\* An unreachable userdata is freed; its memory holds nothing any more.
Collect(u) ==
  /\ GcPoint
  /\ u \in born \ held /\ ~OnStack(u)
  /\ born' = born \ {u}
  /\ mem' = [mem EXCEPT ![u] = BlankDta]
  /\ UNCHANGED <<dir, dta, held, call, fin>>

ScriptFinalizerStarts ==
  /\ GcPoint
  /\ fin' = TRUE
  /\ UNCHANGED <<dir, dta, mem, born, held, call>>

ScriptFinalizerEnds ==
  /\ fin /\ ScriptRuns
  /\ fin' = FALSE
  /\ UNCHANGED <<dir, dta, mem, born, held, call>>
-------------------------------------------------------------------------------
CallStep == PushRaises \/ SetDta \/ Search \/ RestoreDta \/ DtaCopydta

ScriptStep ==
  \/ \E u \in Userdata :
       \/ \E selected \in Selection : l_Fsfirst(u, selected)
       \/ l_Fsnext(u) \/ Drop(u)
       \/ \E v \in Userdata : BeginCopydta(u, v)
  \/ \E e \in Entry : l_Fdelete(e)

Next ==
  \/ ScriptStep \/ CallStep
  \/ ScriptFinalizerStarts \/ ScriptFinalizerEnds
  \/ \E u \in Userdata : Collect(u)

Spec == Init /\ [][Next]_vars
-------------------------------------------------------------------------------
(* Properties.                                                             *)

\* The DTA of the process is its own whenever Lua code runs or memory is
\* collected, after failed searches too, and GEMDOS never writes there for a
\* script; for the time of a GEMDOS call it is that call's userdata, which
\* exists: no search is left writing into memory that was freed.
DtaIsRestored ==
  /\ mem[PROCESS] = BlankDta
  /\ dta # PROCESS =>
       /\ call[Who].pc \in {"set", "searched"}
       /\ dta = call[Who].ud /\ dta \in born

\* Each Dta is a search of its own (see Searches) and name() tells where it is,
\* however searches, copies, deletions, collections and the searches of
\* finalizers interleave.
Iteration ==
  INSTANCE Searches WITH
    Id <- Userdata,
    files <- dir,
    search <- [u \in Userdata |-> [at |-> DtaName(u), todo |-> Rest(u)]]

EverySearchGoesOn == Iteration!Spec
===============================================================================
