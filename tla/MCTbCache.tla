------------------------------ MODULE MCTbCache ------------------------------
(***************************************************************************)
(* Bounds for TLC.                                                         *)
(***************************************************************************)
EXTENDS TbCache
=============================================================================
