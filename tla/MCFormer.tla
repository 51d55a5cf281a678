------------------------------ MODULE MCFormer ------------------------------
(* FormerRoom for TLC.                                                     *)
EXTENDS FormerRoom
=============================================================================
