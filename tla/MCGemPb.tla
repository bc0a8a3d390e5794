-------------------------------- MODULE MCGemPb --------------------------------
(***************************************************************************)
(* Arrays of one or two words, but for the control arrays, whose words     *)
(* have each their use; vdi_control has one that the traps leave alone.    *)
(***************************************************************************)
EXTENDS GemPb

SmallSize ==
  [a \in Array |-> CASE a = "vdi_control" -> 12 [] a = "aes_control" -> 5
                     [] a \in VdiArray \ {"vdi_control"} -> 2 [] OTHER -> 1]
===============================================================================
