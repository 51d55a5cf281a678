------------------------------ MODULE PollLoop ------------------------------
(***************************************************************************)
(* The main loop of main.c: a polling client of a phpBB mChat page.        *)
(* Every turn of the loop either waits one tick (a WAIT_ state) or opens   *)
(* one connection, makes one request and reads its answer (any other       *)
(* state).  The loop is single-threaded; what interleaves with it are the  *)
(* signals, the user's typing, the IRC client and the web server, which    *)
(* may be unreachable, refuse (403), complain (400 and the like) or close  *)
(* the connection without an answer.                                       *)
(***************************************************************************)
EXTENDS Integers

CONSTANTS
  Granularity,   \* length of a tick in ms (WAITING_TIME_GRANOLOSITY)
  WaitMaxi,      \* wait_time_maxi, wait_time_mini and wait_time_awake
  WaitMini,      \*   of mchatclient.conf, in seconds
  WaitAwake,
  RelogErrs,     \* failed connections after which a login is done again (30)
  Codes,         \* status codes the server may answer; 0: none in the line
  Silent,        \* states whose request the server may leave unanswered
  MaxNews,       \* most messages one poll can bring
  Forced,        \* TRUE if the user may force a poll (SIGUSR1, ^R, resize)
  MayExit        \* TRUE if the user may end the program (SIGINT, SIGTERM)

\* The enumeration tstate.  The code computes with it: WAIT_X + 1 = X.
WAIT_LOADING_LOGIN_PAGE           == 0
LOADING_LOGIN_PAGE                == 1
WAIT_SUBMIT_AUTHENTIFICATION      == 2
SUBMIT_AUTHENTIFICATION           == 3
WAIT_GET_THE_BACKLOG              == 4
GET_THE_BACKLOG                   == 5
WAIT_WATCHING_NEW_MESSAGES        == 6
WATCHING_NEW_MESSAGES             == 7
WAIT_RETRIEVING_THE_LIST_OF_USERS == 8
RETRIEVING_THE_LIST_OF_USERS      == 9
WAIT_POSTING_A_MESSAGE            == 10
POSTING_A_MESSAGE                 == 11

States == 0 .. 11
WaitStates == {WAIT_LOADING_LOGIN_PAGE, WAIT_SUBMIT_AUTHENTIFICATION,
               WAIT_GET_THE_BACKLOG, WAIT_WATCHING_NEW_MESSAGES,
               WAIT_RETRIEVING_THE_LIST_OF_USERS, WAIT_POSTING_A_MESSAGE}
RequestStates == States \ WaitStates
LoginStates   == WAIT_LOADING_LOGIN_PAGE .. GET_THE_BACKLOG
ReadingStates == WAIT_WATCHING_NEW_MESSAGES .. RETRIEVING_THE_LIST_OF_USERS
PostingStates == {WAIT_POSTING_A_MESSAGE, POSTING_A_MESSAGE}

ASSUME ConstantsAssumption ==
  /\ Granularity \in 1 .. 1000
  /\ WaitMaxi \in Nat /\ WaitMini \in Nat /\ WaitAwake \in Nat
  /\ RelogErrs \in Nat /\ RelogErrs > 0
  /\ Codes \subseteq Nat
  /\ Silent \subseteq States
  /\ MaxNews \in Nat
  /\ Forced \in BOOLEAN /\ MayExit \in BOOLEAN

Sec(n) == n * (1000 \div Granularity)
Ms(n)  == n \div Granularity

NoMsg   == "none"
Message == "message"    \* the line display_driver() or irc_driver() returned

NoAnswer == -2          \* the connection is closed before any data
Uninit   == -3          \* the local `response' before its first assignment

VARIABLES
  state, oldstate,      \* the state of the loop, and the one a wait left
  s,                    \* the connection of this turn
  t, wait_time,         \* ticks left, and ticks the next wait lasts
  nberr,                \* failed connections in a row, counted to RelogErrs
  u,                    \* polls since the list of users was asked
  outgoingmsg,          \* the message being sent, or NoMsg
  outgoingmsgretry,
  response,             \* code of the latest answer that was looked at
  poll_requested, exit_requested

vars == <<state, oldstate, s, t, wait_time, nberr, u, outgoingmsg,
          outgoingmsgretry, response, poll_requested, exit_requested>>

Init ==
  /\ state = WAIT_LOADING_LOGIN_PAGE /\ oldstate = -1 /\ s = "closed"
  /\ t = 0 /\ wait_time = Ms(2500)
  /\ nberr = 0 /\ u = 0
  /\ outgoingmsg = NoMsg /\ outgoingmsgretry = 0
  /\ response = Uninit
  /\ poll_requested = FALSE /\ exit_requested = FALSE
-----------------------------------------------------------------------------
(* The top of a turn: connect, unless the state only waits.                *)

\* The connection failed: wait 10s in the waiting twin of the state.  The
\* same turn goes on with the tick of that wait.
ConnectFails ==
  /\ s = "closed" /\ ~exit_requested /\ state \in RequestStates
  /\ s' = "failed"
  /\ nberr' = IF nberr < RelogErrs THEN nberr + 1 ELSE nberr
  /\ wait_time' = Sec(10)
  /\ state' = state - 1
  /\ UNCHANGED <<oldstate, t, u, response, poll_requested, exit_requested,
                 outgoingmsg, outgoingmsgretry>>

\* Connected; after a long outage the login is done again from its start.
ConnectSucceeds ==
  /\ s = "closed" /\ ~exit_requested /\ state \in RequestStates
  /\ s' = "open"
  /\ nberr' = 0
  /\ state' = IF nberr >= RelogErrs THEN LOADING_LOGIN_PAGE ELSE state
  /\ UNCHANGED <<oldstate, t, wait_time, u, response, poll_requested,
                 exit_requested, outgoingmsg, outgoingmsgretry>>
-----------------------------------------------------------------------------
(* The requests, each with what it is answered: a status code (0 when the  *)
(* status line has none) or nothing.                                       *)

Answers == Codes \cup {NoAnswer}

\* check_http_response(): the code of the status line, -1 if it has none.
CheckHttpResponse(code) == IF code = 0 THEN -1 ELSE code

\* Mutant: `response' is not set to 0 before the request.
FreshResponseBug(a) == IF a = NoAnswer THEN response ELSE CheckHttpResponse(a)

\* `response' after an answer, when it was set to 0 before the request.
FreshResponse(a) == IF a = NoAnswer THEN 0 ELSE CheckHttpResponse(a)

\* The connection is made for st; it is closed at the end of the turn.
Turn(st) ==
  /\ s = "open" /\ state = st
  /\ s' = "closed"
  /\ UNCHANGED <<oldstate, t, nberr, poll_requested, exit_requested>>

\* The turn sends the request of st and is answered a.
Request(st, a) ==
  /\ Turn(st)
  /\ a = NoAnswer => st \in Silent

KeepMessage == UNCHANGED <<outgoingmsg, outgoingmsgretry>>

LoadLoginPage(a) ==
  /\ Request(LOADING_LOGIN_PAGE, a)
  /\ wait_time' = Ms(500)
  /\ state' = WAIT_SUBMIT_AUTHENTIFICATION
  /\ KeepMessage /\ UNCHANGED <<u, response>>

Submit(a) ==
  /\ Request(SUBMIT_AUTHENTIFICATION, a)
  /\ response' = FreshResponse(a)
  /\ wait_time' = Ms(1000)
  /\ state' = WAIT_GET_THE_BACKLOG
  /\ KeepMessage /\ UNCHANGED u

\* No username or password in the configuration: on to the backlog at once.
SkipAuthentification ==
  /\ Turn(SUBMIT_AUTHENTIFICATION)
  /\ state' = GET_THE_BACKLOG
  /\ KeepMessage /\ UNCHANGED <<wait_time, u, response>>

\* The page gives the latest messages and the form's hidden values.
GetTheBacklog(a) ==
  /\ Request(GET_THE_BACKLOG, a)
  /\ response' = FreshResponse(a)
  /\ \/ /\ response' = 403
        /\ wait_time' = Ms(5000)
        /\ state' = WAIT_LOADING_LOGIN_PAGE
     \/ /\ response' # 403 /\ outgoingmsg # NoMsg
        /\ wait_time' = Ms(500)
        /\ state' = WAIT_POSTING_A_MESSAGE
     \/ /\ response' # 403 /\ outgoingmsg = NoMsg
        /\ wait_time' = Sec(10)
        /\ state' = WAIT_WATCHING_NEW_MESSAGES
  /\ KeepMessage /\ UNCHANGED u

\* The wait before the next poll, after a poll that brought n messages.
NextWait(w, n) ==
  LET longer  == w + (w \div 2)
      shorter == w \div (n + 1)
      mini    == Sec(WaitMini)
  IN IF n = 0
       THEN IF longer > Sec(WaitMaxi) THEN Sec(WaitMaxi) ELSE longer
       ELSE IF shorter >= mini THEN shorter
            ELSE IF w < mini THEN w ELSE mini

\* What `response' may hold after a poll answered a.  Without an answer it
\* keeps its value, and a value never assigned may be anything, 403 too.
WatchedResponse(a) ==
  IF a # NoAnswer THEN {CheckHttpResponse(a)}
  ELSE IF response = Uninit THEN {Uninit, 403}
  ELSE {response}

\* Mutant: the list of users is asked with no wait.
AfterPollBug == IF u > 4 THEN RETRIEVING_THE_LIST_OF_USERS
                        ELSE WAIT_WATCHING_NEW_MESSAGES

\* Every sixth poll is followed by a look at the list of users.
AfterPoll == IF u > 4 THEN WAIT_RETRIEVING_THE_LIST_OF_USERS
                      ELSE WAIT_WATCHING_NEW_MESSAGES

Watch(a) ==
  /\ Request(WATCHING_NEW_MESSAGES, a)
  /\ response' \in WatchedResponse(a)
  /\ \/ /\ response' = 403
        /\ wait_time' = Sec(10)
        /\ state' = WAIT_LOADING_LOGIN_PAGE
        /\ UNCHANGED u
     \/ /\ response' # 403
        /\ \E n \in IF a = NoAnswer THEN {0} ELSE 0 .. MaxNews :
             wait_time' = NextWait(wait_time, n)
        /\ u' = IF u > 4 THEN 0 ELSE u + 1
        /\ state' = AfterPoll
  /\ KeepMessage

\* Mutant: the list of users is asked again instead of the messages.
RetrieveUsersBug(a) ==
  /\ Request(RETRIEVING_THE_LIST_OF_USERS, a)
  /\ state' = WAIT_RETRIEVING_THE_LIST_OF_USERS
  /\ KeepMessage /\ UNCHANGED <<wait_time, u, response>>

RetrieveUsers(a) ==
  /\ Request(RETRIEVING_THE_LIST_OF_USERS, a)
  /\ state' = WATCHING_NEW_MESSAGES
  /\ KeepMessage /\ UNCHANGED <<wait_time, u, response>>
-----------------------------------------------------------------------------
(* Posting.  Only the first data received decides what comes next.         *)

\* No data: nothing is decided, the state and the message stay.
PostUnanswered(a) ==
  /\ a = NoAnswer
  /\ KeepMessage /\ UNCHANGED <<state, wait_time, response>>

\* Mutant: the message is kept.
PostAcceptedBug(a) ==
  /\ a = 200
  /\ response' = 200
  /\ outgoingmsgretry' = 0 /\ UNCHANGED outgoingmsg
  /\ wait_time' = Sec(WaitAwake)
  /\ state' = WATCHING_NEW_MESSAGES

PostAccepted(a) ==
  /\ a = 200
  /\ response' = 200
  /\ outgoingmsg' = NoMsg /\ outgoingmsgretry' = 0
  /\ wait_time' = Sec(WaitAwake)
  /\ state' = WATCHING_NEW_MESSAGES

\* Mutants: one retry too many, and retries that are not counted.
RetriesLeftBug == outgoingmsgretry <= 2
CountRetryBug  == UNCHANGED outgoingmsgretry

RetriesLeft == outgoingmsgretry < 2
CountRetry  == outgoingmsgretry' = outgoingmsgretry + 1

\* An error with tries left: 400 waits and posts again, 403 logs in again,
\* anything else drops the message.  outgoingmsgretry counts them all.
PostRetried(a) ==
  /\ a \notin {NoAnswer, 200} /\ RetriesLeft
  /\ response' = CheckHttpResponse(a)
  /\ CountRetry
  /\ \/ /\ a = 400
        /\ wait_time' = Ms(3000)
        /\ state' = WAIT_POSTING_A_MESSAGE
        /\ UNCHANGED outgoingmsg
     \/ /\ a = 403
        /\ wait_time' = Ms(500)
        /\ state' = LOADING_LOGIN_PAGE
        /\ UNCHANGED outgoingmsg
     \/ /\ a \notin {400, 403}
        /\ outgoingmsg' = NoMsg
        /\ state' = WATCHING_NEW_MESSAGES
        /\ UNCHANGED wait_time

PostGivenUp(a) ==
  /\ a \notin {NoAnswer, 200} /\ ~RetriesLeft
  /\ response' = CheckHttpResponse(a)
  /\ outgoingmsg' = NoMsg /\ outgoingmsgretry' = 0
  /\ wait_time' = Ms(3000)
  /\ state' = WAIT_WATCHING_NEW_MESSAGES

\* With no message to send the turn only complains and goes on reading.
Post(a) ==
  /\ Request(POSTING_A_MESSAGE, a)
  /\ UNCHANGED u
  /\ IF outgoingmsg = NoMsg
       THEN /\ state' = WATCHING_NEW_MESSAGES
            /\ KeepMessage /\ UNCHANGED <<wait_time, response>>
       ELSE \/ PostUnanswered(a) \/ PostAccepted(a)
            \/ PostRetried(a) \/ PostGivenUp(a)
-----------------------------------------------------------------------------
(* A tick of a WAIT_ state.                                                *)

\* What the loop holds after asking the keyboard, then the IRC client, for a
\* message; neither is asked while one is pending.
Gathered ==
  IF outgoingmsg = NoMsg THEN {Message, NoMsg} ELSE {outgoingmsg}

\* A new wait starts from wait_time.
TicksLeft == IF state # oldstate THEN wait_time ELSE t

\* The state once the timer and a requested poll had their say ...
TimedState ==
  IF poll_requested THEN RETRIEVING_THE_LIST_OF_USERS
  ELSE IF TicksLeft > 0 THEN state ELSE state + 1

\* Mutants: a message is posted before the login is done, or only in a wait
\* between polls.
WaitedStateBug1(msg) == IF msg # NoMsg THEN POSTING_A_MESSAGE ELSE TimedState
WaitedStateBug2(msg) ==
  IF msg # NoMsg /\ TimedState = WAIT_WATCHING_NEW_MESSAGES
    THEN POSTING_A_MESSAGE
    ELSE TimedState

\* ... and once there may be a message to post, if the login is done.
WaitedState(msg) ==
  IF msg # NoMsg /\ TimedState \in (ReadingStates \cup {POSTING_A_MESSAGE})
    THEN POSTING_A_MESSAGE
    ELSE TimedState

Wait ==
  /\ state \in WaitStates
  /\ s = "failed" \/ (s = "closed" /\ ~exit_requested)
  /\ s' = "closed"
  /\ t' = IF TicksLeft > 0 THEN TicksLeft - 1 ELSE TicksLeft
  /\ wait_time' = IF poll_requested THEN Sec(7) ELSE wait_time
  /\ \E msg \in Gathered :
       /\ outgoingmsg' = msg
       /\ state' = WaitedState(msg)
  /\ oldstate' = state'
  \* the keyboard driver is where ^R and a resize of the window are seen
  /\ poll_requested' \in {FALSE, Forced /\ outgoingmsg = NoMsg}
  /\ UNCHANGED <<nberr, u, response, exit_requested, outgoingmsgretry>>
-----------------------------------------------------------------------------
(* Signals, which may come between any two steps, and the end.             *)

SignalPoll ==
  /\ Forced /\ s # "ended" /\ ~poll_requested
  /\ poll_requested' = TRUE
  /\ UNCHANGED <<state, oldstate, s, t, wait_time, nberr, u, response,
                 exit_requested, outgoingmsg, outgoingmsgretry>>

SignalExit ==
  /\ MayExit /\ s # "ended" /\ ~exit_requested
  /\ exit_requested' = TRUE
  /\ UNCHANGED <<state, oldstate, s, t, wait_time, nberr, u, response,
                 poll_requested, outgoingmsg, outgoingmsgretry>>

\* The loop ends at its top; a second SIGINT ends the program anywhere.
End ==
  /\ exit_requested /\ s # "ended"
  /\ s' = "ended"
  /\ UNCHANGED <<state, oldstate, t, wait_time, nberr, u, response,
                 poll_requested, exit_requested, outgoingmsg,
                 outgoingmsgretry>>

Exchange(a) ==
  \/ LoadLoginPage(a) \/ Submit(a) \/ GetTheBacklog(a)
  \/ Watch(a) \/ RetrieveUsers(a) \/ Post(a)

Step == \/ ConnectFails \/ ConnectSucceeds
        \/ \E a \in Answers : Exchange(a)
        \/ SkipAuthentification
        \/ Wait

Signal == SignalPoll \/ SignalExit

Next == Step \/ Signal \/ End

Spec == Init /\ [][Next]_vars
-----------------------------------------------------------------------------
(* Fairness: the loop takes its turns; the server is not unreachable for   *)
(* ever, and does not refuse every backlog or leave every post unanswered. *)

BacklogGiven   == \E a \in Codes \ {403} : GetTheBacklog(a)
PostIsAnswered == \E a \in Codes : Post(a)

Fairness ==
  /\ WF_vars(Step)
  /\ SF_vars(ConnectSucceeds)
  /\ SF_vars(BacklogGiven)
  /\ SF_vars(PostIsAnswered)

FairSpec == Spec /\ Fairness
-----------------------------------------------------------------------------
(* Properties.                                                             *)

TypeOK ==
  /\ state \in States /\ oldstate \in States \cup {-1}
  /\ s \in {"closed", "open", "failed", "ended"}
  /\ t \in Nat /\ wait_time \in Nat
  /\ nberr \in 0 .. RelogErrs
  /\ u \in 0 .. 5
  /\ outgoingmsg \in {Message, NoMsg} /\ outgoingmsgretry \in 0 .. 2
  /\ response \in Nat \cup {Uninit, -1}
  /\ poll_requested \in BOOLEAN /\ exit_requested \in BOOLEAN

\* A message taken from the keyboard or from IRC is on its way as long as it
\* is pending: the loop is posting it or logging in again to post it, never
\* reading the chat with the message left behind; and it never posts with no
\* message, the case main.c:615 reports as an error.
PendingIsOnItsWay ==
  /\ state \in PostingStates => outgoingmsg # NoMsg
  /\ state \in ReadingStates => outgoingmsg = NoMsg

\* The wait between polls stays between the smallest and the largest of the
\* configured waits and of those the program sets itself: the server is not
\* hammered, and a new message is not read too late.
WaitTimeBounded ==
  /\ \E w \in {Sec(WaitMaxi), Sec(WaitAwake), Sec(10)} : wait_time <= w
  /\ \E w \in {Sec(WaitMaxi), Sec(WaitMini), Sec(WaitAwake), Ms(500)} :
       wait_time >= w

\* Outages long enough to send the loop back to its login do not recur for
\* ever (they could hit every post anew), the user stops forcing polls (each
\* may skip a wait in which the server came back), and does not quit.
Settling ==
  <>[](nberr < RelogErrs) /\ <>[](~poll_requested) /\ [](~exit_requested)

\* A message taken from the user is eventually sent or dropped.
MessageSettled ==
  Settling => (outgoingmsg # NoMsg ~> outgoingmsg = NoMsg)

\* Unless the user keeps it busy posting, the loop reads the chat for ever.
KeepsReading ==
  Settling /\ <>[](outgoingmsg = NoMsg)
    => []<>(s = "open" /\ state = WATCHING_NEW_MESSAGES)
=============================================================================
