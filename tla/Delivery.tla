------------------------------ MODULE Delivery ------------------------------
(***************************************************************************)
(* The messages of the forum, from its pages to the log file and the IRC   *)
(* client: main.c's minichat_message() and its choice of pages, and the    *)
(* identifiers parse_minichat_mess() leaves in `msg'.  Messages are        *)
(* numbered from 1 in the order they are posted, pages list them in that   *)
(* order; 0 stands for no identifier.  msg.msgid itself is a text, for its *)
(* digits are written in place over those of the identifier before.        *)
(***************************************************************************)
EXTENDS Integers, Sequences

CONSTANTS
  Window,           \* how many messages the forum's whole page shows
  MaxMsg,           \* bound: messages posted
  MaxLogin,         \* bound: times the program logs in
  MayCut,           \* whether a page may end too early, between two messages
  MayTear,          \* whether it may end within a message
  Digit,            \* the digits identifiers are made of
  Width,            \* how many of them at most
  Text(_),          \* a message's identifier as the page writes it, a sequence of digits
  Value(_)          \* the message such a sequence stands for, if there were that many

Identifiers == UNION {[1 .. w -> Digit] : w \in 0 .. Width}

ASSUME DeliveryAssumption ==
  /\ Window \in Nat /\ MaxMsg \in Nat /\ MaxLogin \in Nat
  /\ MayCut \in BOOLEAN /\ MayTear \in BOOLEAN
  /\ Digit \subseteq Nat /\ Width \in Nat \ {0}
  /\ \A m \in 1 .. MaxMsg : Text(m) \in Identifiers /\ Value(Text(m)) = m
  /\ \A t \in Identifiers : Value(t) \in Int

VARIABLES
  head,             \* messages posted on the forum
  state,            \* "LOGIN", "WATCH" between pages, or the page being read:
                    \* "GET_THE_BACKLOG", "WATCHING_NEW_MESSAGES"
  next, upto,       \* what is left of that page
  msgid,            \* msg.msgid, the text the last identifiers left
  know_msgid,       \* the static variable of minichat_message()
  log               \* messages written to the log and sent to IRC
VARIABLES           \* what the environment remembers
  shown,            \* those displayed
  gone,             \* messages that had left the page when it was asked for
  torn,             \* messages asked past because an identifier was cut
  again,            \* messages asked for again because a backlog was cut
  logins            \* logins so far

pagevars == <<next, upto>>

vars == <<head, state, pagevars, msgid, know_msgid, log, shown, gone, torn, again, logins>>

Init ==
  /\ head = 0 /\ state = "LOGIN"
  /\ next = 1 /\ upto = 0
  /\ msgid = << >> /\ know_msgid = 0 /\ log = << >>
  /\ shown = {} /\ gone = {} /\ torn = {} /\ again = {} /\ logins = 0
-----------------------------------------------------------------------------
\* strncmp(a, b, 29) > 0; identifiers are shorter than that.
StrAfter(a, b) ==
  \E k \in 1 .. Len(a) :
    /\ \A i \in 1 .. k - 1 : i <= Len(b) /\ a[i] = b[i]
    /\ k > Len(b) \/ a[k] > b[k]

Newer(m, known) == StrAfter(Text(m), Text(known))

\* When all identifiers have the same width, strncmp() orders them as the
\* numbers they stand for; shorter ones are older than any message.
SameWidth ==
  /\ \A m \in 1 .. MaxMsg : Len(Text(m)) = Width
  /\ \A t \in Identifiers : Len(t) < Width => Value(t) < 1
  /\ \A t, u \in [1 .. Width -> Digit] : StrAfter(t, u) <=> Value(t) > Value(u)

\* know_msgid after the comparison, 0 once it is freed.
StillKnown(m) == IF know_msgid # 0 /\ Newer(m, know_msgid) THEN 0 ELSE know_msgid

\* Mutant: the backlog is logged whatever is known of it.
IsLoggedBug(known) == TRUE

\* Whether a message of the page being read goes to the log and to IRC.
IsLogged(known) == ~(state = "GET_THE_BACKLOG" /\ known # 0)

\* Mutant: the log looks at what was known before the comparison.
minichat_messageBug(m) ==
  /\ shown' = shown \cup {m}
  /\ log' = IF IsLogged(know_msgid) THEN Append(log, m) ELSE log
  /\ know_msgid' = IF StillKnown(m) = 0 THEN m ELSE StillKnown(m)

minichat_message(m) ==
  /\ shown' = shown \cup {m}
  /\ log' = IF IsLogged(StillKnown(m)) THEN Append(log, m) ELSE log
  /\ know_msgid' = IF StillKnown(m) = 0 THEN m ELSE StillKnown(m)
-----------------------------------------------------------------------------
(* The forum, which is external.                                           *)

Post ==
  /\ head < MaxMsg
  /\ head' = head + 1
  /\ UNCHANGED <<state, pagevars, msgid, know_msgid, log, shown, gone, torn, again, logins>>

\* The oldest message of the forum's whole page.
Oldest == IF head > Window THEN head - Window + 1 ELSE 1
-----------------------------------------------------------------------------
(* The program.                                                            *)

\* A page refused with 403, when one is read or a message is posted.
Refused ==
  /\ state = "WATCH" /\ logins < MaxLogin
  /\ state' = "LOGIN"
  /\ UNCHANGED <<head, pagevars, msgid, know_msgid, log, shown, gone, torn, again, logins>>

\* Logged in: the whole page is asked for.
GetTheBacklog ==
  /\ state = "LOGIN"
  /\ state' = "GET_THE_BACKLOG"
  /\ next' = Oldest /\ upto' = head
  /\ gone' = gone \cup 1 .. (head - Window)
  /\ logins' = logins + 1
  /\ UNCHANGED <<head, msgid, know_msgid, log, shown, torn, again>>

\* The backlog gets no answer, or another page: the login counts as done.
BacklogMissed ==
  /\ MayCut
  /\ state = "LOGIN"
  /\ state' = "WATCH"
  /\ UNCHANGED <<head, pagevars, msgid, know_msgid, log, shown, gone, torn, again, logins>>

\* The message whose identifier a request gives as message_last_id.
Asked == IF Value(msgid) \in Nat THEN Value(msgid) ELSE 0

\* Mutant: the identifier asked for is that of the next message.
AskFromBug == Asked + 2

\* The first message that is asked for.
AskFrom == Asked + 1

WatchNewMessages ==
  /\ state = "WATCH"
  /\ state' = "WATCHING_NEW_MESSAGES"
  /\ next' = AskFrom /\ upto' = head
  /\ UNCHANGED <<head, msgid, know_msgid, log, shown, gone, torn, again, logins>>

Reading == state \in {"GET_THE_BACKLOG", "WATCHING_NEW_MESSAGES"}

\* A message is read from its identifier to its end.
ReadMessage ==
  /\ Reading /\ next <= upto
  /\ msgid' = Text(next)
  /\ minichat_message(next)
  /\ next' = next + 1
  /\ UNCHANGED <<head, state, upto, gone, torn, again, logins>>

EndPage ==
  /\ Reading /\ next > upto
  /\ state' = "WATCH"
  /\ UNCHANGED <<head, pagevars, msgid, know_msgid, log, shown, gone, torn, again, logins>>

\* The messages a page that is cut leaves to be asked for again: after a
\* backlog, some of them may be known.
LeftAgain == IF state = "GET_THE_BACKLOG" THEN Asked' + 1 .. know_msgid ELSE {}

\* The connection is lost, or was not even answered, before a message.
CutBetween ==
  /\ MayCut
  /\ Reading /\ next <= upto
  /\ state' = "WATCH"
  /\ UNCHANGED <<head, pagevars, msgid, know_msgid, log, shown, gone, torn, logins>>
  /\ again' = again \cup LeftAgain

\* A text whose first n digits are replaced by those of another one.
Overwrite(t, digits, n) == SubSeq(digits, 1, n) \o SubSeq(t, n + 1, Len(t))

\* What is asked past when m is cut after n digits of its identifier: messages
\* whose identifiers begin with these digits.
Passed(m, n) ==
  {i \in m .. MaxMsg : i <= Asked' /\ SubSeq(Text(i), 1, n) = SubSeq(Text(m), 1, n)}

\* It is lost within a message: n digits of its identifier were received, or
\* all of them with what ends them.
CutWithin ==
  /\ MayTear
  /\ Reading /\ next <= upto
  /\ \E n \in 1 .. Len(Text(next)) :
       /\ \/ msgid' = Overwrite(msgid, Text(next), n)
          \/ n = Len(Text(next)) /\ msgid' = Text(next)
       /\ torn' = torn \cup Passed(next, n)
  /\ state' = "WATCH"
  /\ again' = again \cup LeftAgain
  /\ UNCHANGED <<head, pagevars, know_msgid, log, shown, gone, logins>>

Next ==
  \/ Post \/ Refused \/ GetTheBacklog \/ BacklogMissed \/ WatchNewMessages
  \/ ReadMessage \/ EndPage \/ CutBetween \/ CutWithin

Spec == Init /\ [][Next]_vars

\* Pages end, the program logs in again and comes back to reading the chat.
FairSpec ==
  /\ Spec
  /\ WF_vars(GetTheBacklog) /\ SF_vars(WatchNewMessages)
  /\ WF_vars(ReadMessage) /\ WF_vars(EndPage)
-----------------------------------------------------------------------------
Logged == {log[i] : i \in 1 .. Len(log)}

TypeOK ==
  /\ head \in 0 .. MaxMsg /\ logins \in Nat
  /\ state \in {"LOGIN", "WATCH", "GET_THE_BACKLOG", "WATCHING_NEW_MESSAGES"}
  /\ upto \in 0 .. head /\ next \in Nat \ {0}
  /\ msgid \in Identifiers /\ know_msgid \in 0 .. head
  /\ log \in Seq(1 .. head) /\ shown \subseteq 1 .. head
  /\ gone \subseteq 1 .. head /\ torn \subseteq 1 .. MaxMsg /\ again \subseteq 1 .. head

\* A message is asked past without being logged only when it was out of reach,
\* or when an identifier was cut after digits its own begins with: digits are
\* written over the identifier before, so that what is left of that one may
\* ask past messages that were never received.  Whatever else is cut, and
\* logins in between, cost none (main.c:134-166, 534-557, parsehtml.c:174-183).
OnlyTornIsLost ==
  \A m \in 1 .. MaxMsg : m <= Asked => m \in Logged \cup gone \cup torn

\* A message goes to the log and to IRC a second time, or after a newer one,
\* only when a backlog was cut between it and what was known: then the request
\* that follows gives an identifier older than that (main.c:134-166, 497-557).
LoggedOnce ==
  \A i, k \in 1 .. Len(log) : i < k => log[i] < log[k] \/ log[k] \in again

\* The log and the IRC client get the forum's messages in order and once
\* each, although every login reads the backlog again (main.c:134-166).
J == INSTANCE Journal WITH head <- head, gone <- gone, log <- log, Window <- Window
LogIsJournal == J!JSpec

\* Every message posted is logged, or was gone at a login (main.c:534-587).
EverythingLogged ==
  \A m \in 1 .. MaxMsg : head >= m ~> m \in Logged \cup gone
=============================================================================
