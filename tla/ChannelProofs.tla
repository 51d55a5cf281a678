--------------------------- MODULE ChannelProofs ---------------------------
(***************************************************************************)
(* Channel's safety properties, for any people, topics and delays.  The    *)
(* inductive invariant adds to them what makes them last: before it is     *)
(* welcomed, which names a client gave is what the server remembers; after *)
(* that, the timer left and the time waited make up the delay.             *)
(***************************************************************************)
EXTENDS Channel, TLAPS

NamesRemembered ==
  clientstate = CONNECTED =>
    /\ client_nickname <=> "NICK" \in said
    /\ client_ident <=> "USER" \in said

TimerHonest ==
  clientstate >= IDENTIFIED /\ autorejoin # Off => waited + autorejoin >= RejoinDelay

States == DISCONNECTED .. INCHANNEL

USE DEF DISCONNECTED, CONNECTED, IDENTIFIED, INCHANNEL, Off
-----------------------------------------------------------------------------
(* The list and the view of it (nicklist.c, ircserver.c:480-502).          *)

ListTypeOK ==
  /\ NicklistTypeOK
  /\ clientstate \in States
  /\ view \subseteq Names

ListInv == ListTypeOK /\ ViewIsList

LEMMA ExpiredAreMembers == Expired \subseteq members
BY DEF Expired

\* Every step keeps the list well formed and the client's view equal to it.
LEMMA ListStep == ASSUME ListInv, [Next]_vars PROVE ListInv'
<1> USE LimitsAssumption, ChannelAssumption DEF ListInv, ListTypeOK, NicklistTypeOK, ViewIsList, States
<1>1. CASE UNCHANGED vars
  BY <1>1 DEF vars, nvars, session, clientvars
<1>2. ASSUME NEW n \in Names, Message(n) PROVE ListInv'
  BY <1>2 DEF Message, MsgUpdate, Seen, ReportJoin, JoinedView, session
<1>3. ASSUME NEW n \in Names, PageName(n) PROVE ListInv'
  BY <1>3 DEF PageName, RecupName, Seen, ReportJoin, JoinedView, session
<1>4. ASSUME NEW tp \in Topics, StartPage(tp) PROVE ListInv'
  BY <1>4 DEF StartPage, nvars, session
<1>5. CASE EndPage
  BY <1>5, ExpiredAreMembers DEF EndPage, RecupEnd, PartedView, session
<1>6. CASE CutPage
  BY <1>6 DEF CutPage, nvars, session, clientvars
<1>7. CASE DriverAccept
  BY <1>7 DEF DriverAccept, Accept, nvars
<1>8. CASE Driver \/ NothingReceived \/ Received \/ LinesParsed
  BY <1>8 DEF Driver, NothingReceived, Received, LinesParsed, nvars, session, clientvars
<1>9. CASE ClientClosed
  BY <1>9 DEF ClientClosed, Closed, nvars, clientvars
<1>10. CASE ParseLine
  <2>1. UNCHANGED nvars /\ Line(members) BY <1>10 DEF ParseLine
  <2>2. CASE User BY <2>1, <2>2 DEF User, Welcome, NotWelcome, nvars
  <2>3. CASE Nick BY <2>1, <2>3 DEF Nick, Welcome, NotWelcome, nvars
  <2>4. CASE Join(members) BY <2>1, <2>4 DEF Join, EnterChannel, nvars
  <2>5. CASE Part BY <2>1, <2>5 DEF Part, clientvars, nvars
  <2>6. CASE AskTopic BY <2>1, <2>6 DEF AskTopic, session, nvars
  <2>7. CASE AskNames(members) BY <2>1, <2>7 DEF AskNames, session, nvars
  <2>8. CASE Quit BY <2>1, <2>8 DEF Quit, clientvars, nvars
  <2> QED BY <2>1, <2>2, <2>3, <2>4, <2>5, <2>6, <2>7, <2>8 DEF Line
<1>11. CASE DriverEnd
  BY <1>11 DEF DriverEnd, Rejoin, EnterChannel, nvars
<1>12. CASE Tick
  BY <1>12 DEF Tick, Ageing, Countdown
<1> QED
  BY <1>1, <1>2, <1>3, <1>4, <1>5, <1>6, <1>7, <1>8, <1>9, <1>10, <1>11, <1>12
     DEF Next, Page, IrcDriver

LEMMA ListAlways == Spec => []ListInv
<1>1. Init => ListInv
  BY LimitsAssumption
     DEF Init, NicklistInit, IrcInit, ListInv, ListTypeOK, NicklistTypeOK, ViewIsList, States
<1> QED BY <1>1, ListStep, PTL DEF Spec

\* A client in the channel always knows exactly who is in the list, however
\* pages, messages and its own commands interleave (ircserver.c:480-502).
THEOREM ViewAlwaysTheList == Spec => []ViewIsList
BY ListAlways, PTL DEF ListInv
-----------------------------------------------------------------------------
(* The session: who is registered, and when it enters (ircserver.c:231-633). *)

SessionTypeOK ==
  /\ clientstate \in States
  /\ client_nickname \in BOOLEAN /\ client_ident \in BOOLEAN
  /\ autorejoin \in Off .. RejoinDelay
  /\ said \subseteq {"NICK", "USER"} /\ waited \in 0 .. RejoinDelay

SessionInv == SessionTypeOK /\ RegisteredByItself /\ NamesRemembered /\ TimerHonest

\* Every line of the client keeps what is remembered of it true.
LEMMA LineStep == ASSUME SessionInv, NEW names, Line(names) PROVE SessionInv'
<1> USE IrcAssumption DEF SessionInv, SessionTypeOK, RegisteredByItself, NamesRemembered,
                          TimerHonest, States
<1>1. CASE User
  <2>1. CASE clientstate = CONNECTED /\ client_nickname
    <3>1. client_ident' \in BOOLEAN
      BY <1>1, <2>1, Zenon DEF User
    <3>2. "NICK" \in said /\ said' = {"NICK", "USER"}
      BY <1>1, <2>1 DEF User
    <3> QED BY <1>1, <2>1, <3>1, <3>2 DEF User, Welcome
  <2>2. CASE clientstate = CONNECTED /\ ~client_nickname
    <3>1. client_ident' \in BOOLEAN /\ client_ident'
      BY <1>1, <2>2, Zenon DEF User
    <3> QED BY <1>1, <2>2, <3>1 DEF User, NotWelcome
  <2>3. CASE clientstate # CONNECTED
    BY <1>1, <2>3 DEF User, NotWelcome
  <2> QED BY <2>1, <2>2, <2>3
<1>2. CASE Nick
  <2>1. CASE clientstate = CONNECTED /\ client_ident
    <3>1. client_nickname' \in BOOLEAN
      BY <1>2, Zenon DEF Nick
    <3>2. "USER" \in said /\ said' = {"NICK", "USER"}
      BY <1>2, <2>1 DEF Nick
    <3> QED BY <1>2, <2>1, <3>1, <3>2 DEF Nick, Welcome
  <2>2. CASE clientstate = CONNECTED /\ ~client_ident
    <3>1. client_nickname' \in BOOLEAN /\ client_nickname'
      BY <1>2, Zenon DEF Nick
    <3> QED BY <1>2, <2>2, <3>1 DEF Nick, NotWelcome
  <2>3. CASE clientstate # CONNECTED
    BY <1>2, <2>3 DEF Nick, NotWelcome
  <2> QED BY <2>1, <2>2, <2>3
<1>3. CASE Join(names)
  BY <1>3 DEF Join, EnterChannel, registration
<1>4. CASE Part \/ Quit
  BY <1>4 DEF Part, Quit, registration, clientvars
<1>5. CASE AskTopic \/ AskNames(names)
  BY <1>5 DEF AskTopic, AskNames, session, registration
<1> QED BY <1>1, <1>2, <1>3, <1>4, <1>5 DEF Line

LEMMA SessionStep == ASSUME SessionInv, [Next]_vars PROVE SessionInv'
<1> USE IrcAssumption DEF SessionInv, SessionTypeOK, RegisteredByItself, NamesRemembered,
                          TimerHonest, States
<1>1. CASE UNCHANGED <<session, said, waited>>
  BY <1>1 DEF session, registration
<1>2. CASE DriverAccept
  <2>1. client_nickname' \in BOOLEAN /\ ~client_nickname'
        /\ client_ident' \in BOOLEAN /\ ~client_ident'
    BY <1>2, Zenon DEF DriverAccept, Accept, ForgetClient
  <2> QED
    BY <1>2, <2>1 DEF DriverAccept, Accept
<1>3. CASE ClientClosed
  BY <1>3 DEF ClientClosed, Closed, registration, clientvars
<1>4. CASE ParseLine
  BY <1>4, LineStep DEF ParseLine
<1>5. CASE DriverEnd
  BY <1>5 DEF DriverEnd, Rejoin, Timer, EnterChannel, registration
<1>6. CASE Tick
  BY <1>6 DEF Tick, Countdown, registration
<1>7. CASE UNCHANGED vars \/ Page \/ Driver \/ NothingReceived \/ Received \/ LinesParsed
  BY <1>1, <1>7 DEF vars, Page, Message, PageName, StartPage, EndPage, CutPage,
     Driver, NothingReceived, Received, LinesParsed, clientvars
<1> QED BY <1>2, <1>3, <1>4, <1>5, <1>6, <1>7 DEF Next, IrcDriver

LEMMA SessionAlways == Spec => []SessionInv
<1>1. Init => SessionInv
  <2> SUFFICES ASSUME Init PROVE SessionInv OBVIOUS
  <2>1. client_nickname \in BOOLEAN /\ client_ident \in BOOLEAN
    BY Zenon DEF Init, IrcInit
  <2>2. clientstate = DISCONNECTED /\ autorejoin = Off /\ said = {} /\ waited = 0
    BY DEF Init, IrcInit
  <2> QED
    BY <2>1, <2>2, IrcAssumption DEF SessionInv, SessionTypeOK, RegisteredByItself,
       NamesRemembered, TimerHonest, States
<1> QED BY <1>1, SessionStep, PTL DEF Spec

\* Nothing a client is welcomed on was said by the one it replaced
\* (ircserver.c:266-301, 576-590).
THEOREM AlwaysRegisteredByItself == Spec => []RegisteredByItself
BY SessionAlways, PTL DEF SessionInv

\* The automatic JOIN waits for its delay, whatever timer an earlier client
\* left running (ircserver.c:615).
THEOREM NeverRushed == Spec => NotRushed
<1>1. ASSUME SessionInv, [Next]_vars,
             turn = "tail", clientstate = IDENTIFIED, clientstate' = INCHANNEL
      PROVE  waited >= RejoinDelay
  <2>1. DriverEnd
    BY <1>1 DEF Next, vars, session, Page, Message, PageName, StartPage, EndPage, CutPage,
       IrcDriver, DriverAccept, Driver, NothingReceived, ClientClosed, Received, ParseLine,
       LinesParsed, Tick, Goto
  <2>2. autorejoin = 0
    BY <1>1, <2>1 DEF DriverEnd, Rejoin
  <2> QED
    BY <1>1, <2>2, IrcAssumption DEF SessionInv, SessionTypeOK, TimerHonest
<1> QED BY <1>1, SessionAlways, PTL DEF Spec, NotRushed
-----------------------------------------------------------------------------
(* The topic (ircserver.c:528-558).                                        *)

\* In mode 2 a client in the channel always knows the latest topic.
THEOREM TopicAlwaysFollowed == Spec => []TopicFollowed
<1> USE DEF TopicFollowed
<1>1. Init => TopicFollowed
  BY DEF Init, IrcInit
<1>2. ASSUME TopicFollowed, [Next]_vars PROVE TopicFollowed'
  <2>1. CASE UNCHANGED <<clientstate, last_topic_know, topic>>
    BY <1>2, <2>1
  <2>2. ASSUME NEW tp \in Topics, StartPage(tp) PROVE TopicFollowed'
    BY <1>2, <2>2 DEF StartPage, Topic, session
  <2>3. CASE EndPage
    BY <1>2, <2>3 DEF EndPage, ShowTime, session
  <2>4. CASE DriverAccept \/ ClientClosed
    BY <1>2, <2>4 DEF DriverAccept, Accept, ClientClosed, Closed
  <2>5. CASE ParseLine
    <3>1. Line(members) BY <2>5 DEF ParseLine
    <3> QED
      BY <1>2, <3>1 DEF Line, User, Nick, Welcome, NotWelcome, Join, EnterChannel, Part,
         AskTopic, AskNames, Quit, clientvars, session, topicvars
  <2>6. CASE DriverEnd
    BY <1>2, <2>6 DEF DriverEnd, Rejoin, EnterChannel, topicvars
  <2>7. CASE UNCHANGED vars \/ CutPage \/ Driver \/ NothingReceived \/ Received \/ LinesParsed
    BY <2>1, <2>7 DEF vars, CutPage, Driver, NothingReceived, Received, LinesParsed,
       session, topicvars, clientvars
  <2>8. ASSUME NEW n \in Names, Message(n) \/ PageName(n) PROVE TopicFollowed'
    BY <2>1, <2>8 DEF Message, PageName, session, topicvars
  <2>9. CASE Tick
    BY <2>1, <2>9 DEF Tick, Countdown, topicvars
  <2> QED
    BY <1>2, <2>2, <2>3, <2>4, <2>5, <2>6, <2>7, <2>8, <2>9 DEF Next, Page, IrcDriver
<1> QED BY <1>1, <1>2, PTL DEF Spec
=============================================================================
