------------------------------ MODULE GemdosFile ------------------------------
(***************************************************************************)
(* The life of File userdata (src/gemdos/gemdos_f.c): how GEMDOS handles   *)
(* are opened, duplicated, forced onto the standard handles, closed and    *)
(* detached, by the script, by to-be-closed variables and by the collector,*)
(* and what running a child program (gemdos_p.c) does to them.             *)
(*                                                                         *)
(* The collector is that of GemdosMemory: it runs between two calls of the *)
(* script and inside the transfers that create Lua objects after they have *)
(* checked their file.  Opening a file creates its userdata before the     *)
(* GEMDOS call and nothing after it, so those functions are one step.      *)
(*                                                                         *)
(* GEMDOS is external: its handle table is modelled from how the binding,  *)
(* its documentation and its tests use it.  What is read and written is    *)
(* the subject of FileTransfer; open modes are left out.                   *)
(***************************************************************************)
EXTENDS Naturals

CONSTANTS
  Userdata,        \* identities a File userdata can have
  Handle,          \* handles GEMDOS gives out for files (6 and above)
  StdHandle,       \* standard handles the script redirects, some of 0..3
  NULL,            \* no handle, no userdata
  MaxScriptFin     \* script finalizers a collection finds (a bound)

ASSUME HandlesDiffer ==
  /\ StdHandle \subseteq 0..3
  /\ Handle \cap 0..3 = {}
  /\ NULL \notin Handle \cup Userdata

ASSUME ScriptFinBound == MaxScriptFin \in Nat

VARIABLES
  fd,          \* the GEMDOS handle table: "closed", "file" or "device"
  redir,       \* per standard handle: the file it is forced to, or NULL
  fud,         \* per userdata: the C struct File
  given,       \* open handles the script detached
  orphans,     \* userdata whose handle a child closed, not yet detached
  life,        \* per userdata: where it stands with the collector
  held,        \* userdata the script can reach
  call,        \* the transfer in progress that a collection can interrupt
  scripts,     \* script finalizers found by a collection and not yet run
  fin,         \* a script finalizer is running
  closing,     \* lua_close has been called
  sys          \* the GEMDOS call on a handle the last step made

gemdos == <<fd, redir>>
lua == <<life, held, call, scripts, fin, closing>>
vars == <<gemdos, fud, given, orphans, lua, sys>>
-------------------------------------------------------------------------------
Life == {"unborn", "live", "pending", "finalized", "exempt"}

\* What InvalidateFileUserData leaves: handle zero is the console input.
CONIN == 0
InvalidFile == [valid |-> FALSE, handle |-> CONIN]
ValidFile(h) == [valid |-> TRUE, handle |-> h]

File == {InvalidFile} \cup [valid : {TRUE}, handle : Handle]

\* pc: "gcpoint" between a transfer's checks and its GEMDOS calls, "cycled"
\* when a collection has begun there.
NoCall == [ud |-> NULL, pc |-> "idle"]
Calls == {NoCall} \cup [ud : Userdata, pc : {"gcpoint", "cycled"}]

NoSys == [fn |-> "none", ud |-> NULL, handle |-> CONIN]
Sys == {NoSys} \cup
  [fn : {"io", "force", "transfer", "datime"}, ud : Userdata,
   handle : Handle \cup {CONIN}]

TypeOK ==
  /\ fd \in [Handle -> {"closed", "file", "device"}]
  /\ redir \in [StdHandle -> Handle \cup {NULL}]
  /\ fud \in [Userdata -> File]
  /\ given \in SUBSET Handle
  /\ orphans \in SUBSET Userdata
  /\ life \in [Userdata -> Life]
  /\ held \in SUBSET Userdata
  /\ call \in Calls
  /\ scripts \in 0..MaxScriptFin
  /\ fin \in BOOLEAN
  /\ closing \in BOOLEAN
  /\ sys \in Sys

Init ==
  /\ fd = [h \in Handle |-> "closed"]
  /\ redir = [s \in StdHandle |-> NULL]
  /\ fud = [u \in Userdata |-> InvalidFile]
  /\ given = {}
  /\ orphans = {}
  /\ life = [u \in Userdata |-> "unborn"]
  /\ held = {}
  /\ call = NoCall
  /\ scripts = 0
  /\ fin = FALSE
  /\ closing = FALSE
  /\ sys = NoSys
-------------------------------------------------------------------------------
(* Who runs.                                                               *)

\* A finalizer, or else the main program between two calls.  After a child
\* that closed a redirected handle it detaches that file first, as the tests
\* do and the documentation of detach() asks.
InControl == fin \/ (call = NoCall /\ ~closing)
ScriptRuns == InControl /\ orphans = {}

\* Detaching creates no Lua object, so no collection comes before it.
CollectorMayRun == ~fin /\ orphans = {}

Reachable(u) == u \in held \/ u = call.ud

\* u will close h.
Owns(u, h) == fud[u].valid /\ fud[u].handle = h

OpenHandles == {h \in Handle : fd[h] # "closed"}
-------------------------------------------------------------------------------
(* Opening.                                                                *)

PushFileUserData(u) ==
  /\ life[u] = "unborn"
  /\ life' = [life EXCEPT ![u] = IF closing THEN "exempt" ELSE "live"]

\* GEMDOS opens h: the struct is filled and the userdata returned.
Opened(u, h, kind) ==
  /\ fd[h] = "closed"
  /\ fd' = [fd EXCEPT ![h] = kind]
  /\ fud' = [fud EXCEPT ![u] = ValidFile(h)]
  /\ held' = held \cup {u}

\* Faulty: the error is stored as a handle.
NotOpenedStoresError(u) ==
  /\ fud' = [fud EXCEPT ![u] = ValidFile(NULL)]
  /\ UNCHANGED <<fd, held>>

\* GEMDOS refuses, for want of a handle or otherwise: the userdata is popped.
\* Unlike Malloc nothing is collected to make room.
NotOpened(u) ==
  /\ fud' = [fud EXCEPT ![u] = InvalidFile]
  /\ UNCHANGED <<fd, held>>

\* l_Fcreate differs in what GEMDOS is asked and in the mode it records.
l_Fopen(u) ==
  /\ ScriptRuns
  /\ PushFileUserData(u)
  /\ (\E h \in Handle : Opened(u, h, "file")) \/ NotOpened(u)
  /\ sys' = NoSys
  /\ UNCHANGED <<redir, given, orphans, call, scripts, fin, closing>>

\* Faulty: the handle of the redirected file is returned, not a duplicate.
FdupShares(u, s) ==
  /\ ScriptRuns
  /\ PushFileUserData(u)
  /\ \/ /\ redir[s] = NULL
        /\ \E h \in Handle : Opened(u, h, "device")
     \/ /\ redir[s] \in OpenHandles
        /\ fud' = [fud EXCEPT ![u] = ValidFile(redir[s])]
        /\ held' = held \cup {u}
        /\ UNCHANGED fd
     \/ NotOpened(u)
  /\ sys' = NoSys
  /\ UNCHANGED <<redir, given, orphans, call, scripts, fin, closing>>

\* A duplicate of a redirected standard handle is a handle of the file.
l_Fdup(u, s) ==
  /\ ScriptRuns
  /\ PushFileUserData(u)
  /\ \/ /\ redir[s] = NULL
        /\ \E h \in Handle : Opened(u, h, "device")
     \/ /\ redir[s] \in OpenHandles
        /\ \E h \in Handle : Opened(u, h, "file")
     \/ NotOpened(u)
  /\ sys' = NoSys
  /\ UNCHANGED <<redir, given, orphans, call, scripts, fin, closing>>
-------------------------------------------------------------------------------
(* Closing and detaching.                                                  *)

InvalidateFileUserData(u) == fud' = [fud EXCEPT ![u] = InvalidFile]

\* Fclose: the handle can be given out again.
Closed(h) == [fd EXCEPT ![h] = "closed"]

\* Faulty: the userdata stays valid.
FileCloseKeepsHandle(u) ==
  IF fud[u].valid THEN fd' = Closed(fud[u].handle) /\ UNCHANGED fud
  ELSE UNCHANGED <<fd, fud>>

\* Faulty: the userdata is invalidated first and nothing is closed.
FileCloseForgets(u) ==
  IF fud[u].valid THEN InvalidateFileUserData(u) /\ UNCHANGED fd
  ELSE UNCHANGED <<fd, fud>>

\* What __gc and __close do: the userdata is invalid even if Fclose failed.
FileCloseHandle(u) ==
  IF fud[u].valid
  THEN fd' = Closed(fud[u].handle) /\ InvalidateFileUserData(u)
  ELSE UNCHANGED <<fd, fud>>

\* Faulty: the userdata stays valid.
FcloseKeepsHandle(u) ==
  /\ ScriptRuns /\ u \in held
  /\ fud[u].valid
  /\ fd' = Closed(fud[u].handle)
  /\ sys' = NoSys
  /\ UNCHANGED <<redir, fud, given, orphans, lua>>

\* The script closes a valid file.
l_Fclose(u) ==
  /\ ScriptRuns /\ u \in held
  /\ fud[u].valid
  /\ fd' = Closed(fud[u].handle)
  /\ InvalidateFileUserData(u)
  /\ sys' = NoSys
  /\ UNCHANGED <<redir, given, orphans, lua>>

\* A to-be-closed variable goes out of scope, whatever was done before.
FileClose(u) ==
  /\ ScriptRuns /\ u \in held
  /\ FileCloseHandle(u)
  /\ held' = held \ {u}
  /\ sys' = NoSys
  /\ UNCHANGED <<redir, given, orphans, life, call, scripts, fin, closing>>

\* Faulty: the userdata keeps the handle it gave away.
FileDetachKeepsHandle(u) ==
  /\ InControl /\ u \in held
  /\ orphans # {} => u \in orphans
  /\ given' = given \cup ({fud[u].handle} \cap OpenHandles)
  /\ orphans' = orphans \ {u}
  /\ sys' = NoSys
  /\ UNCHANGED <<gemdos, fud, lua>>

\* The handle, if it is open, is the script's from now on.
FileDetach(u) ==
  /\ InControl /\ u \in held
  /\ orphans # {} => u \in orphans
  /\ given' = given \cup ({fud[u].handle} \cap OpenHandles)
  /\ InvalidateFileUserData(u)
  /\ orphans' = orphans \ {u}
  /\ sys' = NoSys
  /\ UNCHANGED <<gemdos, lua>>

Drop(u) ==
  /\ ScriptRuns /\ u \in held
  /\ held' = held \ {u}
  /\ sys' = NoSys
  /\ UNCHANGED <<gemdos, fud, given, orphans, life, call, scripts, fin, closing>>
-------------------------------------------------------------------------------
(* Calls that use the handle of a file.                                    *)

SysCall(fn, u) == sys' = [fn |-> fn, ud |-> u, handle |-> fud[u].handle]

\* Nothing but the GEMDOS call that a handler makes for u.
Uses(fn, u) ==
  /\ SysCall(fn, u)
  /\ UNCHANGED <<gemdos, fud, given, orphans, lua>>

\* l_Fwrites, l_Fwritei, l_Freadi, l_Freadm, l_Fwritem and l_Fseek: no Lua
\* object is created between the check and the last GEMDOS call.
FileIO(u) ==
  /\ ScriptRuns /\ u \in held
  /\ fud[u].valid
  /\ Uses("io", u)

\* The file's standard handle is the file until the next Fforce; a device
\* restores the standard handle.
l_Fforce(u, s) ==
  /\ ScriptRuns /\ u \in held
  /\ fud[u].valid
  /\ redir' = [redir EXCEPT ![s] =
                 IF fd[fud[u].handle] = "device" THEN NULL ELSE fud[u].handle]
  /\ SysCall("force", u)
  /\ UNCHANGED <<fd, fud, given, orphans, lua>>

\* The one function that uses the handle without checking the file.
l_Fdatime(u) ==
  /\ ScriptRuns /\ u \in held
  /\ Uses("datime", u)

\* l_Freads, l_Freadt and l_Fwritet check the file, then create Lua objects
\* (a buffer, a table), then call GEMDOS with the handle the struct has then.
BeginTransfer(u) ==
  /\ ScriptRuns /\ ~fin /\ u \in held
  /\ fud[u].valid
  /\ call' = [ud |-> u, pc |-> "gcpoint"]
  /\ sys' = NoSys
  /\ UNCHANGED <<gemdos, fud, given, orphans, life, held, scripts, fin, closing>>

TransferReturns ==
  /\ call # NoCall /\ ~fin
  /\ SysCall("transfer", call.ud)
  /\ call' = NoCall
  /\ UNCHANGED <<gemdos, fud, given, orphans, life, held, scripts, fin, closing>>
-------------------------------------------------------------------------------
(* Running a program.                                                      *)

\* The files standard handles are forced to.
Redirected == {redir[s] : s \in StdHandle} \cap OpenHandles

\* The child runs and exits; GEMDOS closes the handles its standard handles
\* were forced to.  The script keeps those files until it has detached them.
\* When Pexec fails nothing happens.
l_Pexec0 ==
  /\ ScriptRuns
  /\ orphans' = {u \in Userdata : \E h \in Redirected : Owns(u, h)}
  /\ orphans' \subseteq held
  /\ fd' = [h \in Handle |-> IF h \in Redirected THEN "closed" ELSE fd[h]]
  /\ given' = given \ Redirected
  /\ sys' = NoSys
  /\ UNCHANGED <<redir, fud, lua>>
-------------------------------------------------------------------------------
(* The collector.                                                          *)

Garbage == {u \in Userdata : life[u] = "live" /\ ~Reachable(u)}

\* A cycle: what is unreachable is queued for finalization; what earlier
\* cycles finalized and nobody brought back is freed.  The few objects a
\* transfer creates take the collector through one atomic phase at most.
CollectorStep ==
  /\ CollectorMayRun /\ ~closing
  /\ \/ call = NoCall /\ UNCHANGED call
     \/ call.pc = "gcpoint" /\ call' = [call EXCEPT !.pc = "cycled"]
  /\ life' = [u \in Userdata |->
                IF u \in Garbage THEN "pending"
                ELSE IF life[u] = "finalized" /\ ~Reachable(u) THEN "unborn"
                ELSE life[u]]
  /\ scripts' \in scripts..MaxScriptFin
  /\ sys' = NoSys
  /\ UNCHANGED <<gemdos, fud, given, orphans, held, fin, closing>>

\* The collector calls __gc once, even if a finalizer brought u back.
FileGC(u) ==
  /\ CollectorMayRun
  /\ life[u] = "pending"
  /\ FileCloseHandle(u)
  /\ life' = [life EXCEPT ![u] = "finalized"]
  /\ sys' = NoSys
  /\ UNCHANGED <<redir, given, orphans, held, call, scripts, fin, closing>>

ScriptFinalizerStarts ==
  /\ CollectorMayRun /\ scripts > 0
  /\ fin' = TRUE /\ scripts' = scripts - 1
  /\ sys' = NoSys
  /\ UNCHANGED <<gemdos, fud, given, orphans, life, held, call, closing>>

ScriptFinalizerEnds ==
  /\ fin /\ orphans = {}
  /\ fin' = FALSE
  /\ sys' = NoSys
  /\ UNCHANGED <<gemdos, fud, given, orphans, life, held, call, scripts, closing>>

\* A script object being finalized refers to u and stores it again.
Resurrect(u) ==
  /\ fin /\ ScriptRuns
  /\ life[u] \in {"pending", "finalized"} /\ u \notin held
  /\ held' = held \cup {u}
  /\ sys' = NoSys
  /\ UNCHANGED <<gemdos, fud, given, orphans, life, call, scripts, fin, closing>>

\* The program ends: lua_close queues every userdata, held or not.
LuaClose ==
  /\ ScriptRuns /\ ~fin
  /\ closing' = TRUE
  /\ life' = [u \in Userdata |-> IF life[u] = "live" THEN "pending" ELSE life[u]]
  /\ scripts' \in scripts..MaxScriptFin
  /\ sys' = NoSys
  /\ UNCHANGED <<gemdos, fud, given, orphans, held, call, fin>>
-------------------------------------------------------------------------------
ScriptStep ==
  \/ \E u \in Userdata :
       \/ l_Fopen(u) \/ l_Fclose(u) \/ FileClose(u) \/ FileDetach(u)
       \/ Drop(u) \/ Resurrect(u)
       \/ FileIO(u) \/ l_Fdatime(u) \/ BeginTransfer(u)
       \/ \E s \in StdHandle : l_Fdup(u, s) \/ l_Fforce(u, s)
  \/ l_Pexec0

FinalizerStep == (\E u \in Userdata : FileGC(u)) \/ ScriptFinalizerStarts

\* What the script still has to do for a finalizer to return.
FinalizerReturns ==
  ScriptFinalizerEnds \/ \E u \in orphans : fin /\ FileDetach(u)

Next ==
  \/ ScriptStep \/ TransferReturns \/ FinalizerStep
  \/ CollectorStep \/ ScriptFinalizerEnds \/ LuaClose

Spec == Init /\ [][Next]_vars

\* A transfer goes on (devices answer), lua_close walks the whole list of
\* finalizers, and finalizers written by the script terminate.
FairSpec ==
  /\ Spec
  /\ WF_vars(TransferReturns)
  /\ WF_vars(closing /\ FinalizerStep)
  /\ WF_vars(FinalizerReturns)
-------------------------------------------------------------------------------
(* Properties.                                                             *)

\* The handle of a valid file is open in GEMDOS, from the call that stored it
\* until the one that closes or detaches it: no handle is closed twice or used
\* after it was given to someone else.  A child's exit is the only exception,
\* until the script has detached the file.
ValidIsOpen ==
  \A u \in Userdata \ orphans : fud[u].valid => fud[u].handle \in OpenHandles

\* No two userdata will close the same handle, duplicates included.
OneOwner ==
  \A u, v \in Userdata, h \in Handle : Owns(u, h) /\ Owns(v, h) => u = v

\* No handle is lost: an open one belongs to a userdata whose __gc is still to
\* come or was detached on purpose; only what a finalizer opens after lua_close
\* began escapes its __gc.
NoHandleLeak ==
  \A h \in OpenHandles \ given :
    \E u \in Userdata : Owns(u, h) /\ life[u] \in {"live", "pending", "exempt"}

\* A handle is closed through its owner, and only when the script asks for it
\* or the collector found the owner unreachable; or by a child it was given to
\* as a standard handle, and then its owner, if it has one, is known to the
\* script, which must detach it.
OnlyOwnerCloses ==
  [][\A h \in OpenHandles :
       fd'[h] = "closed" =>
         \/ \E u \in Userdata :
              /\ Owns(u, h) /\ ~fud'[u].valid
              /\ u \in held \/ life[u] = "pending"
         \/ /\ h \in Redirected
            /\ \A u \in Userdata : Owns(u, h) => u \in orphans' \cap held']_vars

\* README.md:809: once detached, a handle is no longer closed when a userdata
\* is closed or collected, whatever handles were reused meanwhile; only a child
\* it was forced upon takes it.
DetachedStaysOpen ==
  [][\A h \in given : fd'[h] = "closed" => h \in Redirected]_vars

\* Once lua_close has begun, every handle is closed but those the script
\* detached and those that script finalizers open on the way.
CloseReleasesAll ==
  closing ~> \A h \in OpenHandles \ given :
               \E u \in Userdata : Owns(u, h) /\ life[u] = "exempt"

\* l_Fdatime acts on its file's own handle.
DatimeUsesItsFile ==
  sys.fn = "datime" => Owns(sys.ud, sys.handle)

\* File userdata keep the promise of ResourceOwner: a handle is busy while it is
\* open, unless it was detached, and while its file waits to be detached after a
\* child closed it; its holders are the userdata that would close it.
Ownership ==
  INSTANCE ResourceOwner WITH
    Resource <- Handle, Owner <- Userdata,
    busy <- (OpenHandles \ given) \cup {fud[u].handle : u \in orphans},
    holder <- [h \in Handle |-> {u \in Userdata : Owns(u, h)}]

HandlesHaveOneOwner == Ownership!Spec
===============================================================================
