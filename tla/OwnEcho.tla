------------------------------ MODULE OwnEcho ------------------------------
(***************************************************************************)
(* What the user says, on IRC or at the keyboard, on its way to the forum  *)
(* and back.  An IRC client displays what it sends, so irc_message() keeps *)
(* back, once, a message of the user's own name that equals the last thing *)
(* said on IRC.  Messages are numbered as they are said; texts are equal   *)
(* when they are to irc_message(), spaces and case aside.  The user's IRC  *)
(* client is in the channel throughout (Channel has its coming and going), *)
(* and the waits and the login are those of PollLoop, shortened.           *)
(***************************************************************************)
EXTENDS Integers, Sequences

CONSTANTS
  Texts, Nothing,   \* what may be said, and NULL
  MaxSaid,          \* bound: messages said
  MaxCopies,        \* bound: copies of one message the forum keeps
  MaxOvertaken      \* bound: lines with one text that are overtaken

ASSUME EchoAssumption ==
  Nothing \notin Texts /\ MaxSaid \in Nat /\ MaxCopies \in Nat /\ MaxOvertaken \in Nat

Ids == 1 .. MaxSaid
NoId == 0

VARIABLES
  state,            \* "wait", "login", "post" or "watch": where main() is
  outgoingmsg,      \* the message being sent, or NoId
  outgoingmsgretry,
  last_thing_i_said \* a text or Nothing

VARIABLES
  said,             \* messages said so far
  text, by_irc,     \* what each one says and whether it was said on IRC
  unread,           \* what the forum has and the next page will bring
  copies, read,     \* times each was stored by the forum, and read back
  shown,            \* times each was displayed by the IRC client
  reprint,          \* whether its success called irc_will_reprint_my_message()
  displayed, returned, \* times each text was displayed by it, and read back
  overtaken,        \* lines with each text that a later line kept from the forum
  disturbed         \* a message was refused for good, or a poll was missed

mainvars  == <<state, outgoingmsg, outgoingmsgretry>>
utterance == <<said, text, by_irc>>
totals    == <<displayed, returned>>
fate      == <<unread, copies, read, shown, reprint>>

vars == <<mainvars, last_thing_i_said, utterance, fate, totals, overtaken, disturbed>>

Init ==
  /\ state = "wait" /\ outgoingmsg = NoId /\ outgoingmsgretry = 0
  /\ last_thing_i_said = Nothing
  /\ said = 0
  /\ text = [m \in Ids |-> Nothing] /\ by_irc = [m \in Ids |-> FALSE]
  /\ unread = << >>
  /\ copies = [m \in Ids |-> 0] /\ read = [m \in Ids |-> 0]
  /\ shown = [m \in Ids |-> 0]
  /\ reprint = [m \in Ids |-> FALSE] /\ disturbed = FALSE
  /\ displayed = [t \in Texts |-> 0] /\ returned = [t \in Texts |-> 0]
  /\ overtaken = [t \in Texts |-> 0]
-----------------------------------------------------------------------------
(* What the user says.                                                     *)

\* Mutant: what was said on IRC is not remembered.
SaidBug(t) == UNCHANGED last_thing_i_said

\* What a line of the IRC client says is remembered.
Said(t) == last_thing_i_said' = t

\* The IRC client displays a text.
Displayed(t) == displayed' = [displayed EXCEPT ![t] = @ + 1]

\* The keyboard and the IRC client are listened to in the waits, those of the
\* login too, while nothing is pending.
Say(t, irc) ==
  /\ state \in {"wait", "login"} /\ outgoingmsg = NoId
  /\ said < MaxSaid
  /\ said' = said + 1
  /\ outgoingmsg' = said'
  /\ text' = [text EXCEPT ![said'] = t] /\ by_irc' = [by_irc EXCEPT ![said'] = irc]
  /\ state' = IF state = "wait" THEN "post" ELSE state
  /\ IF irc
       THEN Said(t) /\ shown' = [shown EXCEPT ![said'] = 1] /\ Displayed(t)
       ELSE UNCHANGED <<last_thing_i_said, shown, displayed>>
  /\ UNCHANGED <<outgoingmsgretry, unread, copies, read, reprint, returned, overtaken, disturbed>>

\* What a line says is remembered too when another line of the same recv()
\* follows, a PING say: then that one decides what irc_driver() returns, and
\* nothing is sent.
LineOvertaken(t) ==
  /\ state \in {"wait", "login"} /\ outgoingmsg = NoId
  /\ overtaken[t] < MaxOvertaken
  /\ overtaken' = [overtaken EXCEPT ![t] = @ + 1]
  /\ Said(t) /\ Displayed(t)
  /\ UNCHANGED <<mainvars, utterance, fate, returned, disturbed>>
-----------------------------------------------------------------------------
(* Posting it.                                                             *)

Store ==
  /\ copies' = [copies EXCEPT ![outgoingmsg] = @ + 1]
  /\ unread' = Append(unread, outgoingmsg)

\* irc_will_reprint_my_message(), after a success that took a retry.
WillReprint ==
  IF outgoingmsgretry = 0
    THEN UNCHANGED <<last_thing_i_said, reprint>>
    ELSE /\ last_thing_i_said' = Nothing
         /\ reprint' = [reprint EXCEPT ![outgoingmsg] = TRUE]

Posted ==
  /\ state = "post"
  /\ Store
  /\ WillReprint
  /\ state' = "watch" /\ outgoingmsg' = NoId /\ outgoingmsgretry' = 0
  /\ UNCHANGED <<utterance, read, shown, totals, overtaken, disturbed>>

\* No answer: the message may have been stored, and is posted again.
PostUnanswered ==
  /\ state = "post" /\ copies[outgoingmsg] + 1 < MaxCopies
  /\ Store
  /\ UNCHANGED <<mainvars, last_thing_i_said, utterance, read, shown, reprint,
                 totals, overtaken, disturbed>>

MayRetry == outgoingmsgretry < 2

\* 400: posted again after a wait; 403: after a new login.
PostRetried ==
  /\ state = "post" /\ MayRetry
  /\ outgoingmsgretry' = outgoingmsgretry + 1
  /\ state' \in {"post", "login"}
  /\ UNCHANGED <<outgoingmsg, last_thing_i_said, utterance, fate, totals, overtaken, disturbed>>

\* Another error, which counts as a retry, or one too many.
PostDropped ==
  /\ state = "post"
  /\ outgoingmsg' = NoId /\ disturbed' = TRUE
  /\ IF outgoingmsgretry < 2
       THEN outgoingmsgretry' = outgoingmsgretry + 1 /\ state' = "watch"
       ELSE outgoingmsgretry' = 0 /\ state' = "wait"
  /\ UNCHANGED <<last_thing_i_said, utterance, fate, totals, overtaken>>
-----------------------------------------------------------------------------
(* Reading the forum.                                                      *)

WaitIsOver ==
  /\ state = "wait"
  /\ state' = "watch"
  /\ UNCHANGED <<outgoingmsg, outgoingmsgretry, last_thing_i_said, utterance, fate,
                 totals, overtaken, disturbed>>

\* No answer, or 403 and a login.
PollMissed ==
  /\ state = "watch"
  /\ state' \in {"wait", "login"} /\ disturbed' = TRUE
  /\ UNCHANGED <<outgoingmsg, outgoingmsgretry, last_thing_i_said, utterance, fate,
                 totals, overtaken>>

LoggedIn ==
  /\ state = "login"
  /\ state' = "backlog"
  /\ UNCHANGED <<outgoingmsg, outgoingmsgretry, last_thing_i_said, utterance, fate,
                 totals, overtaken, disturbed>>

\* Mutant: what came back is not forgotten.
ForgetBug == UNCHANGED last_thing_i_said

Forget == last_thing_i_said' = Nothing

\* irc_message(), for one of the user's own messages.
ReadBack ==
  /\ state \in {"watch", "backlog"} /\ unread # << >>
  /\ LET m == Head(unread)
         kept_back == last_thing_i_said # Nothing /\ text[m] = last_thing_i_said
     IN  /\ read' = [read EXCEPT ![m] = @ + 1]
         /\ returned' = [returned EXCEPT ![text[m]] = @ + 1]
         /\ IF kept_back
              THEN Forget /\ UNCHANGED <<shown, displayed>>
              ELSE /\ shown' = [shown EXCEPT ![m] = @ + 1] /\ Displayed(text[m])
                   /\ UNCHANGED last_thing_i_said
  /\ unread' = Tail(unread)
  /\ UNCHANGED <<mainvars, utterance, copies, reprint, overtaken, disturbed>>

PageIsOver ==
  /\ state \in {"watch", "backlog"} /\ unread = << >>
  /\ state' = IF state = "backlog" /\ outgoingmsg # NoId THEN "post" ELSE "wait"
  /\ UNCHANGED <<outgoingmsg, outgoingmsgretry, last_thing_i_said, utterance, fate,
                 totals, overtaken, disturbed>>

Next ==
  \/ \E t \in Texts, irc \in BOOLEAN : Say(t, irc)
  \/ \E t \in Texts : LineOvertaken(t)
  \/ Posted \/ PostUnanswered \/ PostRetried \/ PostDropped
  \/ WaitIsOver \/ PollMissed \/ LoggedIn \/ ReadBack \/ PageIsOver

Spec == Init /\ [][Next]_vars
-----------------------------------------------------------------------------
TypeOK ==
  /\ state \in {"wait", "login", "post", "watch", "backlog"}
  /\ outgoingmsg \in 0 .. said /\ outgoingmsgretry \in 0 .. 2
  /\ state = "post" => outgoingmsg # NoId
  /\ last_thing_i_said \in Texts \cup {Nothing}
  /\ said \in 0 .. MaxSaid
  /\ text \in [Ids -> Texts \cup {Nothing}] /\ by_irc \in [Ids -> BOOLEAN]
  /\ unread \in Seq(1 .. said)
  /\ copies \in [Ids -> Nat] /\ read \in [Ids -> Nat] /\ shown \in [Ids -> Nat]
  /\ reprint \in [Ids -> BOOLEAN] /\ disturbed \in BOOLEAN
  /\ displayed \in [Texts -> Nat] /\ returned \in [Texts -> Nat]
  /\ overtaken \in [Texts -> Nat]

\* Each message the user sees back is displayed once by the IRC client, one
\* more time when its success took a retry: neither doubled nor swallowed, as
\* long as nothing is refused for good, no poll is missed, and no line with the
\* same text was overtaken by another one of its recv(), which leaves it
\* remembered though it was never sent (ircserver.c:504-526, 600-608,
\* main.c:689-697).
EchoOnce ==
  ~disturbed => \A m \in 1 .. said :
    read[m] = 1 /\ copies[m] = 1 /\ overtaken[text[m]] = 0 =>
      shown[m] = IF by_irc[m] /\ reprint[m] THEN 2 ELSE 1

\* Whatever is refused, unanswered or missed, the IRC client displays a text no
\* less often than it is read back: a message is kept back at most once for each
\* time the client said that text (ircserver.c:509-520).
TextIsSeen == \A t \in Texts : displayed[t] >= returned[t]
=============================================================================
