----------------------------- MODULE MCOwnEcho -----------------------------
(* OwnEcho for TLC; what is said matters only by being equal or not.       *)
EXTENDS OwnEcho, TLC

AnyText == Permutations(Texts)
=============================================================================
