----------------------------- MODULE MCChannel -----------------------------
(* Channel for TLC: the user, another person and two topics.               *)
EXTENDS Channel
=============================================================================
