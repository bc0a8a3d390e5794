------------------------------- MODULE Searches -------------------------------
(***************************************************************************)
(* What Fsfirst, Fsnext and copydta promise a script: every Dta is a search*)
(* of its own.  It visits the files its pattern selects one after another, *)
(* in directory order, none twice and none left out, whatever other        *)
(* searches do in the meantime; a copy goes on by itself from where its    *)
(* original stood; a file deleted on the way is no longer visited.         *)
(***************************************************************************)
EXTENDS FiniteSetsExt

CONSTANTS
  Id,          \* what identifies a search
  Entry,       \* files, numbered in directory order
  Selection,   \* the sets of files a name and attributes can select
  NULL         \* no file

VARIABLES
  files,       \* files that exist
  search       \* per identity: the file it is at, and those still to visit

vars == <<files, search>>

NoSearch == [at |-> NULL, todo |-> {}]

\* A search that reaches the first of the files S.
Reaches(S) == [at |-> Min(S), todo |-> S \ {Min(S)}]

Init ==
  /\ files = Entry
  /\ search = [i \in Id |-> NoSearch]

Begin(i, selected) ==
  /\ search[i] = NoSearch
  /\ selected \cap files # {}
  /\ search' = [search EXCEPT ![i] = Reaches(selected \cap files)]
  /\ UNCHANGED files

Advance(i) ==
  /\ search[i].todo # {}
  /\ search' = [search EXCEPT ![i] = Reaches(search[i].todo)]
  /\ UNCHANGED files

Fork(i, j) ==
  /\ search[i] # NoSearch /\ search[j] = NoSearch
  /\ search' = [search EXCEPT ![j] = search[i]]
  /\ UNCHANGED files

Forget(i) ==
  /\ search' = [search EXCEPT ![i] = NoSearch]
  /\ UNCHANGED files

Delete(e) ==
  /\ files' = files \ {e}
  /\ search' = [i \in Id |-> [search[i] EXCEPT !.todo = @ \ {e}]]

Next ==
  \/ \E i \in Id :
       \/ \E selected \in Selection : Begin(i, selected)
       \/ Advance(i) \/ Forget(i)
       \/ \E j \in Id : Fork(i, j)
  \/ \E e \in files : Delete(e)

Spec == Init /\ [][Next]_vars
===============================================================================
