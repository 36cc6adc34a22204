----------------------------- MODULE MCHciLayer -----------------------------
(* Instances of HciLayer for TLC: commands and packets of each kind. *)
EXTENDS HciLayer, TLC

CONSTANTS c1, c2, c3, p1

(* Two commands of one opcode, one with a status callback and one without. *)
KindTwins   == c1 :> "btu" @@ c2 :> "vendor"
OpcodeTwins == c1 :> 1 @@ c2 :> 1

(* A legacy command (two posts), HCI_HOST_NUM_PACKETS_DONE and a future. *)
KindMixed   == c1 :> "future" @@ c2 :> "legacy" @@ c3 :> "npd"
OpcodeMixed == c1 :> 1 @@ c2 :> 2 @@ c3 :> 3

FragsThree == p1 :> 3
NoPkts  == {}
NoFrags == [p \in {} |-> 1]
=============================================================================
