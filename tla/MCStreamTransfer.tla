-------------------------- MODULE MCStreamTransfer --------------------------
(***************************************************************************)
(* Segments of three bytes, and three policies: with the length field, A   *)
(* leaves one byte of the first segment to the message, B fills it exactly *)
(* and C does not fit.                                                     *)
(***************************************************************************)
EXTENDS StreamTransfer

CONSTANTS A, B, C

MCPolLen == [p \in Policies |-> CASE p = A -> 1 [] p = B -> 2 [] p = C -> 3]
MCLens == 0..6
=============================================================================
