------------------------- MODULE MCParameterServer -------------------------
(***************************************************************************)
(* Two runs of gen, one removal, a restore, and two seconds.               *)
(***************************************************************************)
EXTENDS ParameterServer
=============================================================================
