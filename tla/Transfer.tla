-------------------------------- MODULE Transfer --------------------------------
(***************************************************************************)
(* What a function that moves bytes promises its script: it moves bytes up *)
(* to the number asked for, then it returns how many it moved, or fails, or*)
(* raises an error; after that nothing moves.  How many blocks it takes is *)
(* not the script's business.  FileTransfer implements it.                 *)
(***************************************************************************)
EXTENDS Naturals

VARIABLES
  phase,       \* "idle", "moving", "returned", "failed" or "raised"
  asked,       \* bytes asked for
  moved,       \* bytes moved
  told         \* the number returned

vars == <<phase, asked, moved, told>>

Init == phase = "idle" /\ asked = 0 /\ moved = 0 /\ told = 0

Start ==
  /\ phase = "idle"
  /\ phase' \in {"moving", "raised"}
  /\ asked' \in Nat
  /\ UNCHANGED <<moved, told>>

Move ==
  /\ phase = "moving"
  /\ moved' > moved /\ moved' <= asked
  /\ UNCHANGED <<phase, asked, told>>

Return ==
  /\ phase = "moving"
  /\ phase' = "returned" /\ told' = moved
  /\ UNCHANGED <<asked, moved>>

Fail ==
  /\ phase = "moving"
  /\ phase' \in {"failed", "raised"}
  /\ UNCHANGED <<asked, moved, told>>

Next == Start \/ Move \/ Return \/ Fail

Spec == Init /\ [][Next]_vars
===============================================================================
