---------------------------- MODULE MCWebTransfer ----------------------------
(***************************************************************************)
(* The instance of MCStreamTransfer, for all pairs of ends.                *)
(***************************************************************************)
EXTENDS WebTransfer

CONSTANTS A, B

MCPolLen == [p \in Policies |-> IF p = A THEN 1 ELSE 2]
MCLens == 0..6
MCShortLens == 0..3
MCEnds == {"rust", "web"} \X {"rust", "web"}
MCWebEnds == MCEnds \ {<<"rust", "rust">>}
=============================================================================
