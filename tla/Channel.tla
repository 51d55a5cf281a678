------------------------------ MODULE Channel ------------------------------
(***************************************************************************)
(* The chat seen from an IRC client: the list of people (Nicklist), fed by *)
(* the pages of the web server, and the mini IRC server (IrcServer).  The  *)
(* program has one thread; `turn' is what it is doing: receiving a page,   *)
(* or running irc_driver() between two requests.                           *)
(***************************************************************************)
EXTENDS Nicklist, IrcServer

CONSTANT MayCut     \* whether a page may end before its list of people does

ASSUME ChannelAssumption == Self \in Names /\ MayCut \in BOOLEAN

\* "main"  between two requests     "recv"  in irc_driver(), before recv()
\* "page"  in a list of people      "lines" parsing what was received
\*                                  "tail"  after it
VARIABLE turn

vars == <<nvars, session, topicvars, clientvars, turn>>

Init == NicklistInit /\ IrcInit /\ turn = "main"

Goto(from, to) == turn = from /\ turn' = to
-----------------------------------------------------------------------------
(* A page of the web server.                                               *)

\* A new entry is reported by irc_join(), a known one is not.
ReportJoin(n) == view' = IF n \in members THEN view ELSE JoinedView(n)

\* A message of n (minichat_message() outside of the backlog).
Message(n) ==
  /\ Goto("main", "main")
  /\ MsgUpdate(n)
  /\ ReportJoin(n)
  /\ UNCHANGED <<session, topicvars, said, waited, topic>>

\* The line of statistics, used as a topic, which the people follow.
StartPage(tp) ==
  /\ Goto("main", "page")
  /\ Topic(tp)
  /\ UNCHANGED <<nvars, session, said, waited, view>>

PageName(n) ==
  /\ Goto("page", "page")
  /\ RecupName(n)
  /\ ReportJoin(n)
  /\ UNCHANGED <<session, topicvars, said, waited, topic>>

EndPage ==
  /\ Goto("page", "main")
  /\ RecupEnd
  /\ view' = PartedView(Expired)
  /\ ShowTime
  /\ UNCHANGED <<session, said, waited>>

\* The connection is lost in the list; the next page is parsed from scratch.
CutPage ==
  /\ MayCut
  /\ Goto("page", "main")
  /\ UNCHANGED <<nvars, session, topicvars, clientvars>>

Page ==
  \/ \E n \in Names : Message(n) \/ PageName(n)
  \/ \E tp \in Topics : StartPage(tp)
  \/ EndPage \/ CutPage
-----------------------------------------------------------------------------
(* A call of irc_driver().                                                 *)

DriverAccept == Goto("main", "recv") /\ Accept /\ UNCHANGED nvars

Driver ==
  /\ Goto("main", "recv")
  /\ clientstate # DISCONNECTED
  /\ UNCHANGED <<nvars, session, topicvars, clientvars>>

NothingReceived ==
  /\ Goto("recv", "tail")
  /\ UNCHANGED <<nvars, session, topicvars, clientvars>>

ClientClosed == Goto("recv", "main") /\ Closed /\ UNCHANGED nvars

Received ==
  /\ Goto("recv", "lines")
  /\ UNCHANGED <<nvars, session, topicvars, clientvars>>

ParseLine == Goto("lines", "lines") /\ Line(members) /\ UNCHANGED nvars

LinesParsed ==
  /\ Goto("lines", "tail")
  /\ UNCHANGED <<nvars, session, topicvars, clientvars>>

DriverEnd == Goto("tail", "main") /\ Rejoin(members) /\ UNCHANGED nvars

IrcDriver ==
  \/ DriverAccept \/ Driver \/ NothingReceived \/ ClientClosed
  \/ Received \/ ParseLine \/ LinesParsed \/ DriverEnd
-----------------------------------------------------------------------------
\* Time passes in the waits of the main loop and of network_recv().
Tick ==
  /\ turn \in {"main", "page"}
  /\ Ageing /\ Countdown
  /\ UNCHANGED turn

Next == Page \/ IrcDriver \/ Tick

Spec == Init /\ [][Next]_vars

\* Time passes, the main loop comes back to the chat and to irc_driver()
\* (PollLoop's KeepsReading), pages are not cut for ever, and what was
\* received in one call of recv() has an end.
FairSpec ==
  /\ Spec
  /\ SF_vars(Tick) /\ SF_vars(Driver) /\ WF_vars(LinesParsed) /\ WF_vars(DriverEnd)
  /\ WF_vars(NothingReceived)
  /\ SF_vars(\E tp \in Topics : StartPage(tp)) /\ SF_vars(EndPage)
-----------------------------------------------------------------------------
TypeOK ==
  /\ NicklistTypeOK /\ IrcTypeOK
  /\ view \subseteq Names
  /\ turn \in {"main", "page", "recv", "lines", "tail"}

\* A client in the channel was told exactly who is in the list, its own
\* forum name aside: no arrival or departure is missed, whatever comes
\* between pages, messages, JOIN, PART and NAMES (ircserver.c:480-502).
ViewIsList == clientstate = INCHANNEL => view \ {Self} = members \ {Self}

\* A client is welcomed on what it said itself, as soon as it said both NICK
\* and USER: nothing is left of the client it replaced (ircserver.c:266-301,
\* 576-590).
RegisteredByItself ==
  /\ clientstate >= IDENTIFIED => said = {"NICK", "USER"}
  /\ clientstate = CONNECTED   => said # {"NICK", "USER"}

\* irc_topic_mode 2: a client in the channel knows the latest topic
\* (ircserver.c:539-547).
TopicFollowed ==
  TopicMode = 2 /\ clientstate = INCHANNEL => topic = last_topic_know

\* The automatic JOIN comes no sooner than its delay after the welcome of
\* that very client, not on the timer of an earlier one (ircserver.c:615).
NotRushed ==
  [][turn = "tail" /\ clientstate = IDENTIFIED /\ clientstate' = INCHANNEL
       => waited >= RejoinDelay]_vars

\* Someone who is neither listed nor heard any more leaves the list, hence
\* the client's view (nicklist.c:286-297).
GoneIsParted ==
  \A n \in Names : []<>(n \notin members) \/ []<>(unseen[n] = 0)

\* A welcomed client with a timer running does not stay outside of the
\* channel (ircserver.c:615-633).
WelcomedEnters ==
  clientstate = IDENTIFIED /\ autorejoin # Off ~> clientstate # IDENTIFIED
=============================================================================
