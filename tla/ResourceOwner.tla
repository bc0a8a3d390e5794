---------------------------- MODULE ResourceOwner ----------------------------
(***************************************************************************)
(* What a userdata type that owns a TOS resource promises its script: a    *)
(* resource the system has given out has exactly one owner, which got it   *)
(* free, owns no other, and alone gives it back.  There is no other way to *)
(* lose a resource, to share it or to give it back twice.  Memory userdata *)
(* (blocks) and File userdata (handles) implement it.                      *)
(***************************************************************************)
CONSTANTS
  Resource,    \* what the system gives out
  Owner        \* the userdata

VARIABLES
  busy,        \* resources given out and not given back
  holder       \* per resource: the userdata that will give it back

vars == <<busy, holder>>

Init ==
  /\ busy = {}
  /\ holder = [r \in Resource |-> {}]

Acquire(r, o) ==
  /\ r \notin busy
  /\ \A q \in Resource : o \notin holder[q]
  /\ busy' = busy \cup {r}
  /\ holder' = [holder EXCEPT ![r] = {o}]

Release(r, o) ==
  /\ holder[r] = {o}
  /\ busy' = busy \ {r}
  /\ holder' = [holder EXCEPT ![r] = {}]

Next == \E r \in Resource, o \in Owner : Acquire(r, o) \/ Release(r, o)

Spec == Init /\ [][Next]_vars
===============================================================================
