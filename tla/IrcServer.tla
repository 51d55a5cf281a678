----------------------------- MODULE IrcServer -----------------------------
(***************************************************************************)
(* ircserver.c: the mini IRC server, its one client and what that client   *)
(* has been told.  Messages to the client are reliable and in order (TCP), *)
(* so what it was told is kept as the client's own view of the channel.    *)
(* Operators take the nicklist where the code asks nicklist.c for it.      *)
(* Replies that change neither the session nor the client's knowledge of   *)
(* the channel (PING, WHOIS, AWAY, errors...) are left out; the texts said *)
(* by the client are in IrcInput.                                          *)
(***************************************************************************)
EXTENDS Integers

CONSTANTS
  Self,             \* forum_username, the user's own name
  Topics, NoTopic,
  TopicMode,        \* irc_topic_mode
  RejoinDelay       \* 5 s between registration and the automatic JOIN

ASSUME IrcAssumption ==
  /\ NoTopic \notin Topics
  /\ TopicMode \in 0 .. 3 /\ RejoinDelay \in Nat

\* The enumeration tclientstate, which the code compares.
DISCONNECTED == 0
CONNECTED    == 1
IDENTIFIED   == 2
INCHANNEL    == 3

Off == -1           \* no automatic JOIN is due (autorejoin = 0 in the code)

VARIABLES
  clientstate, cfd,               \* cfd: whether the client's socket is open
  client_nickname, client_ident,  \* whether they were given
  autorejoin,                     \* time left before the automatic JOIN, or Off
  last_topic_know, topic_changed

registration == <<client_nickname, client_ident>>
session      == <<clientstate, cfd, registration, autorejoin>>
topicvars    == <<last_topic_know, topic_changed>>

VARIABLES           \* the client's side
  said,             \* which of "NICK" and "USER" it said on this connection
  waited,           \* time since it was welcomed, counted to RejoinDelay
  view,             \* the people it was told are in the channel
  topic             \* the topic it was told, or NoTopic

clientvars == <<said, waited, view, topic>>

IrcInit ==
  /\ clientstate = DISCONNECTED /\ cfd = FALSE
  /\ client_nickname = FALSE /\ client_ident = FALSE
  /\ autorejoin = Off
  /\ last_topic_know = NoTopic /\ topic_changed = FALSE
  /\ said = {} /\ waited = 0 /\ view = {} /\ topic = NoTopic
-----------------------------------------------------------------------------
(* What nicklist.c calls.                                                  *)

\* Mutant: the state of a client that is not in the channel yet.
JoinedViewBug(n) ==
  IF clientstate = IDENTIFIED /\ n # Self THEN view \cup {n} ELSE view

\* The client's view after irc_join(): only a client in the channel is told,
\* and never of its own forum name.
JoinedView(n) ==
  IF clientstate = INCHANNEL /\ n # Self THEN view \cup {n} ELSE view

\* The client's view after an irc_part() for every name of ns.
PartedView(ns) == IF clientstate = INCHANNEL THEN view \ (ns \ {Self}) ELSE view

\* Mutant: the topic is remembered only when it is sent.
TopicBug(tp) ==
  IF tp = last_topic_know
    THEN topic_changed' = FALSE /\ UNCHANGED <<last_topic_know, topic>>
    ELSE /\ topic' = topic
         /\ last_topic_know' = tp
         /\ topic_changed' = TRUE

\* irc_topic(): a topic that did not change is forgotten as a change.
Topic(tp) ==
  IF tp = last_topic_know
    THEN topic_changed' = FALSE /\ UNCHANGED <<last_topic_know, topic>>
    ELSE /\ topic' = IF clientstate = INCHANNEL /\ TopicMode = 2 THEN tp ELSE topic
         /\ last_topic_know' = tp
         /\ topic_changed' = TRUE

\* irc_topic_mode3_showtime()
ShowTime ==
  /\ topic' = IF topic_changed /\ clientstate = INCHANNEL /\ TopicMode = 3
                THEN last_topic_know ELSE topic
  /\ topic_changed' = FALSE
  /\ UNCHANGED last_topic_know
-----------------------------------------------------------------------------
(* The client's lines.                                                     *)

\* JOIN, names, and topic if one is known and wanted, sent to the client.
EnterChannel(names) ==
  /\ clientstate' = INCHANNEL
  /\ view' = names
  /\ topic' = IF TopicMode # 0 THEN last_topic_know ELSE NoTopic

\* Mutant: a timer that is already running is left as it is.
WelcomeBug ==
  /\ clientstate' = IDENTIFIED
  /\ autorejoin' = IF autorejoin = Off THEN RejoinDelay ELSE autorejoin
  /\ waited' = 0

\* Both USER and NICK were given: welcome, and a JOIN in a while.
Welcome == clientstate' = IDENTIFIED /\ autorejoin' = RejoinDelay /\ waited' = 0

NotWelcome == UNCHANGED <<clientstate, autorejoin, waited>>

User ==
  /\ said' = said \cup {"USER"}
  /\ IF clientstate = CONNECTED
       THEN client_ident' = TRUE /\ IF client_nickname THEN Welcome ELSE NotWelcome
       ELSE UNCHANGED client_ident /\ NotWelcome
  /\ UNCHANGED <<cfd, client_nickname, view, topic>>

Nick ==
  /\ said' = said \cup {"NICK"}
  /\ client_nickname' = TRUE
  /\ IF clientstate = CONNECTED /\ client_ident THEN Welcome ELSE NotWelcome
  /\ UNCHANGED <<cfd, client_ident, view, topic>>

Join(names) ==
  /\ clientstate = IDENTIFIED
  /\ EnterChannel(names)
  /\ UNCHANGED <<cfd, registration, autorejoin, said, waited>>

Part ==
  /\ clientstate = INCHANNEL
  /\ clientstate' = IDENTIFIED
  /\ UNCHANGED <<cfd, registration, autorejoin, clientvars>>

\* TOPIC and NAMES are answered, in the channel or not.
AskTopic ==
  /\ clientstate >= IDENTIFIED /\ last_topic_know # NoTopic
  /\ topic' = last_topic_know
  /\ UNCHANGED <<session, said, waited, view>>

AskNames(names) ==
  /\ clientstate >= IDENTIFIED
  /\ view' = names
  /\ UNCHANGED <<session, said, waited, topic>>

Quit ==
  /\ clientstate >= IDENTIFIED
  /\ cfd' = FALSE /\ clientstate' = DISCONNECTED
  /\ UNCHANGED <<registration, autorejoin, clientvars>>

Line(names) ==
  /\ \/ User \/ Nick \/ Join(names) \/ Part
     \/ AskTopic \/ AskNames(names) \/ Quit
  /\ UNCHANGED topicvars
-----------------------------------------------------------------------------
(* irc_driver(), called at each tick of the main loop.                     *)

\* Mutant: the ident of the previous client is kept.
ForgetClientBug == client_nickname' = FALSE /\ UNCHANGED client_ident

\* The names given by the previous client are freed.
ForgetClient == client_nickname' = FALSE /\ client_ident' = FALSE

\* A new client takes the place of the one there may be.
Accept ==
  /\ cfd' = TRUE /\ clientstate' = CONNECTED
  /\ ForgetClient
  /\ said' = {} /\ waited' = 0 /\ view' = {} /\ topic' = NoTopic
  /\ UNCHANGED <<autorejoin, topicvars>>

\* recv() returns 0: the client closed its end.
Closed ==
  /\ cfd' = FALSE /\ clientstate' = DISCONNECTED
  /\ UNCHANGED <<registration, autorejoin, topicvars, clientvars>>

\* Mutant: the timer is dropped by any call that finds it running.
TimerBug == IF autorejoin >= 0 THEN Off ELSE autorejoin

Timer == IF autorejoin = 0 THEN Off ELSE autorejoin

\* The end of the call: the automatic JOIN when its time has come.
Rejoin(names) ==
  /\ autorejoin' = Timer
  /\ IF autorejoin = 0 /\ clientstate = IDENTIFIED
       THEN EnterChannel(names)
       ELSE UNCHANGED <<clientstate, view, topic>>
  /\ UNCHANGED <<cfd, registration, topicvars, said, waited>>

\* Time passes.
Countdown ==
  /\ autorejoin' = IF autorejoin > 0 THEN autorejoin - 1 ELSE autorejoin
  /\ waited' = IF waited < RejoinDelay THEN waited + 1 ELSE waited
  /\ UNCHANGED <<clientstate, cfd, registration, topicvars, said, view, topic>>

IrcTypeOK ==
  /\ clientstate \in DISCONNECTED .. INCHANNEL /\ cfd \in BOOLEAN
  /\ client_nickname \in BOOLEAN /\ client_ident \in BOOLEAN
  /\ autorejoin \in Off .. RejoinDelay
  /\ last_topic_know \in Topics \cup {NoTopic} /\ topic_changed \in BOOLEAN
  /\ said \subseteq {"NICK", "USER"} /\ waited \in 0 .. RejoinDelay
  /\ topic \in Topics \cup {NoTopic}
=============================================================================
