---------------------------- MODULE MCDelivery ----------------------------
(* Delivery for TLC.  Identifiers are the numbers from First + 1, written  *)
(* in base two with four digits: so a short run has the carries that make  *)
(* one that is cut stand for a later message.                              *)
EXTENDS Delivery, Folds

CONSTANT First

Bits == {0, 1}

TextOf(m) == [i \in 1 .. 4 |-> ((First + m) \div 2 ^ (4 - i)) % 2]

ValueOf(t) == MapThenFoldSet(+, 0, LAMBDA i : t[i] * 2 ^ (Len(t) - i),
                             LAMBDA S : CHOOSE i \in S : TRUE, DOMAIN t) - First

ASSUME SameWidth
=============================================================================
