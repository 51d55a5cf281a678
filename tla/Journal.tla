------------------------------ MODULE Journal ------------------------------
(***************************************************************************)
(* What the log and the IRC channel promise of the forum's messages: they  *)
(* come in the order they were posted, each at most once, and none is      *)
(* passed over but those that had left the forum's page before they could  *)
(* be read.                                                                *)
(***************************************************************************)
EXTENDS Naturals, Sequences

CONSTANT Window     \* how many messages the forum's page shows

VARIABLES
  head,             \* messages posted so far, numbered from 1
  gone,             \* those that cannot be read any more
  log               \* what was written, in order

jvars == <<head, gone, log>>

JInit == head = 0 /\ gone = {} /\ log = << >>

LastOf(s) == IF s = << >> THEN 0 ELSE s[Len(s)]

JPost == head' = head + 1 /\ UNCHANGED <<gone, log>>

\* Whatever is older than the page may be given up.
JForget == gone' = gone \cup 1 .. (head - Window) /\ UNCHANGED <<head, log>>

JWrite(m) ==
  /\ m \in LastOf(log) + 1 .. head
  /\ \A k \in LastOf(log) + 1 .. m - 1 : k \in gone
  /\ log' = Append(log, m)
  /\ UNCHANGED <<head, gone>>

JNext == JPost \/ JForget \/ \E m \in 1 .. head : JWrite(m)

JSpec == JInit /\ [][JNext]_jvars
=============================================================================
