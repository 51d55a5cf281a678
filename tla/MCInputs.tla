------------------------------ MODULE MCInputs ------------------------------
(* Inputs for TLC: characters of one, two and three bytes.                 *)
EXTENDS Inputs

Keyboard == {"a", "e'", "euro"}
Widths   == [ch \in Keyboard |-> CASE ch = "a" -> 1 [] ch = "e'" -> 2 [] OTHER -> 3]
=============================================================================
