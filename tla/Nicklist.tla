------------------------------ MODULE Nicklist ------------------------------
(***************************************************************************)
(* nicklist.c: who is in the chat.  An entry is visible once a page of the *)
(* server listed the person, invisible when it only spoke; it is dropped   *)
(* at the end of a complete page when not seen for too long.  What an      *)
(* entry holds for display (URLs, "new" flag, time of arrival) is left out.*)
(***************************************************************************)
EXTENDS Integers

CONSTANTS
  Names,            \* names of people on the forum
  VisibleLimit,     \* 60 s: how long a listed person is kept unseen
  InvisibleLimit    \* 20 min: the same for a person who only spoke

ASSUME LimitsAssumption ==
  VisibleLimit \in Nat /\ InvisibleLimit \in Nat /\ VisibleLimit <= InvisibleLimit

VARIABLES
  members,          \* names with an entry in the list
  invisible,        \* those whose entry is invisible
  unseen            \* time since lastseen, counted to InvisibleLimit + 1

nvars == <<members, invisible, unseen>>

NicklistInit ==
  /\ members = {} /\ invisible = {}
  /\ unseen = [n \in Names |-> 0]

Seen(n) == unseen' = [unseen EXCEPT ![n] = 0]

\* nicklist_msg_update(): n spoke.
MsgUpdate(n) ==
  /\ Seen(n)
  /\ members' = members \cup {n}
  /\ invisible' = IF n \in members THEN invisible ELSE invisible \cup {n}

\* nicklist_recup_name(): the page lists n.
RecupName(n) ==
  /\ Seen(n)
  /\ members' = members \cup {n}
  /\ invisible' = invisible \ {n}

\* Mutant: only listed people are looked at.
ExpiredBug == {n \in members \ invisible : unseen[n] > VisibleLimit}

\* Who is dropped at the end of a page.
Expired ==
  {n \in members : IF n \in invisible THEN unseen[n] > InvisibleLimit
                                      ELSE unseen[n] > VisibleLimit}

\* nicklist_recup_end(), its calls of the IRC server aside.
RecupEnd ==
  /\ members' = members \ Expired
  /\ invisible' = invisible \ Expired
  /\ UNCHANGED unseen

\* Time passes.
Ageing ==
  /\ unseen' = [n \in Names |-> IF n \in members /\ unseen[n] <= InvisibleLimit
                                THEN unseen[n] + 1 ELSE unseen[n]]
  /\ UNCHANGED <<members, invisible>>

NicklistTypeOK ==
  /\ members \subseteq Names /\ invisible \subseteq members
  /\ unseen \in [Names -> 0 .. InvisibleLimit + 1]
=============================================================================
