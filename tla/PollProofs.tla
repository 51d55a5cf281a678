----------------------------- MODULE PollProofs -----------------------------
(***************************************************************************)
(* The main loop, for every granularity, every configured wait and every   *)
(* behaviour of the server: its own state, then its history (bounded       *)
(* retries, spaced requests, no message posted twice, a login before any   *)
(* use of the chat, and no login without a reason).                        *)
(***************************************************************************)
EXTENDS PollHistory, TLAPS


\* Quotients of naturals by positive naturals are naturals, no larger.
LEMMA Quotient ==
  ASSUME NEW a \in Nat, NEW b \in Nat, b > 0
  PROVE  a \div b \in Nat /\ a \div b <= a
  OBVIOUS

\* Products of naturals are naturals.
LEMMA Product ==
  ASSUME NEW a \in Nat, NEW b \in Nat
  PROVE  a * b \in Nat
  OBVIOUS

\* Waits given in seconds (main.c:334) or milliseconds are ticks.
LEMMA Ticks ==
  ASSUME NEW n \in Nat
  PROVE  Sec(n) \in Nat /\ Ms(n) \in Nat
  <1>1. Granularity \in Nat /\ Granularity > 0
    BY ConstantsAssumption
  <1>2. 1000 \div Granularity \in Nat /\ n \div Granularity \in Nat
    BY <1>1, Quotient
  <1> QED BY <1>2, Product DEF Sec, Ms

\* The adapted wait (main.c:564) is a number of ticks.
LEMMA NextWaitType ==
  ASSUME NEW w \in Nat, NEW n \in Nat
  PROVE  NextWait(w, n) \in Nat
  <1>1. w \div 2 \in Nat
    BY Quotient
  <1>2. w \div (n + 1) \in Nat
    <2>1. n + 1 \in Nat /\ n + 1 > 0
      OBVIOUS
    <2> QED BY <2>1, Quotient
  <1>3. Sec(WaitMaxi) \in Nat /\ Sec(WaitMini) \in Nat
    BY ConstantsAssumption, Ticks
  <1> QED BY <1>1, <1>2, <1>3 DEF NextWait
-----------------------------------------------------------------------------
USE DEF WAIT_LOADING_LOGIN_PAGE, LOADING_LOGIN_PAGE,
        WAIT_SUBMIT_AUTHENTIFICATION, SUBMIT_AUTHENTIFICATION,
        WAIT_GET_THE_BACKLOG, GET_THE_BACKLOG,
        WAIT_WATCHING_NEW_MESSAGES, WATCHING_NEW_MESSAGES,
        WAIT_RETRIEVING_THE_LIST_OF_USERS, RETRIEVING_THE_LIST_OF_USERS,
        WAIT_POSTING_A_MESSAGE, POSTING_A_MESSAGE,
        States, WaitStates, RequestStates, LoginStates, ReadingStates,
        PostingStates

\* What `response' may become is a response.
LEMMA ResponseType ==
  ASSUME TypeOK, NEW a \in Answers
  PROVE  /\ FreshResponse(a) \in Nat \cup {-1}
         /\ WatchedResponse(a) \subseteq Nat \cup {Uninit, -1}
         /\ a # NoAnswer => CheckHttpResponse(a) \in Nat \cup {-1}
  <1>1. a # NoAnswer => a \in Nat
    BY ConstantsAssumption DEF Answers
  <1> QED BY <1>1
      DEF TypeOK, FreshResponse, WatchedResponse, CheckHttpResponse, Uninit

\* The initial state is well typed.
LEMMA InitType == Init => TypeOK
  <1>1. Ms(2500) \in Nat
    BY Ticks
  <1>2. Init => /\ state \in States /\ oldstate \in States \cup {-1}
                /\ s \in {"closed", "open", "failed", "ended"}
                /\ t \in Nat /\ wait_time \in Nat
                /\ nberr \in 0 .. RelogErrs /\ u \in 0 .. 5
    BY <1>1, ConstantsAssumption DEF Init
  <1>3. Init => /\ outgoingmsg \in {Message, NoMsg}
                /\ outgoingmsgretry \in 0 .. 2
                /\ response \in Nat \cup {Uninit, -1}
    BY DEF Init
  <1>4. Init => poll_requested \in BOOLEAN /\ exit_requested \in BOOLEAN
    <2>1. Init => poll_requested = FALSE /\ exit_requested = FALSE
      BY DEF Init
    <2> QED BY ONLY <2>1, Zenon
  <1> QED BY <1>2, <1>3, <1>4 DEF TypeOK

\* A post, whatever it is answered, keeps the types.
LEMMA PostType ==
  ASSUME TypeOK, NEW a \in Answers, Post(a)
  PROVE  TypeOK'
  <1> USE DEF Post, Request, Turn, KeepMessage, TypeOK
  <1>0. /\ Ms(3000) \in Nat /\ Ms(500) \in Nat /\ Sec(WaitAwake) \in Nat
        /\ a # NoAnswer => CheckHttpResponse(a) \in Nat \cup {-1}
    BY Ticks, ResponseType, ConstantsAssumption
  <1>1. CASE outgoingmsg = NoMsg
    BY <1>1
  <1>2. CASE outgoingmsg # NoMsg /\ PostUnanswered(a)
    BY <1>2 DEF PostUnanswered
  <1>3. CASE outgoingmsg # NoMsg /\ PostAccepted(a)
    BY <1>0, <1>3 DEF PostAccepted
  <1>4. CASE outgoingmsg # NoMsg /\ PostRetried(a)
    BY <1>0, <1>4 DEF PostRetried, RetriesLeft, CountRetry
  <1>5. CASE outgoingmsg # NoMsg /\ PostGivenUp(a)
    BY <1>0, <1>5 DEF PostGivenUp
  <1> QED BY <1>1, <1>2, <1>3, <1>4, <1>5

\* Every step of the program keeps the types.
LEMMA NextType == TypeOK /\ [Next]_vars => TypeOK'
  <1> SUFFICES ASSUME TypeOK, [Next]_vars PROVE TypeOK'
    OBVIOUS
  <1> USE DEF TypeOK
  <1>0. /\ Sec(7) \in Nat /\ Sec(10) \in Nat
        /\ Ms(500) \in Nat /\ Ms(1000) \in Nat /\ Ms(5000) \in Nat
    BY Ticks
  <1>1. CASE ConnectFails
    BY <1>0, <1>1, ConstantsAssumption DEF ConnectFails
  <1>2. CASE ConnectSucceeds
    BY <1>2, ConstantsAssumption DEF ConnectSucceeds
  <1>3. ASSUME NEW a \in Answers, Exchange(a)
        PROVE  TypeOK'
    <2> USE DEF Request, Turn, KeepMessage
    <2>0. /\ FreshResponse(a) \in Nat \cup {-1}
          /\ WatchedResponse(a) \subseteq Nat \cup {Uninit, -1}
      BY ResponseType
    <2>1. CASE LoadLoginPage(a)
      BY <1>0, <2>1 DEF LoadLoginPage
    <2>2. CASE Submit(a)
      BY <1>0, <2>0, <2>2 DEF Submit
    <2>3. CASE GetTheBacklog(a)
      BY <1>0, <2>0, <2>3 DEF GetTheBacklog
    <2>4. CASE Watch(a)
      <3>1. \A n \in 0 .. MaxNews : NextWait(wait_time, n) \in Nat
        BY NextWaitType, ConstantsAssumption
      <3>2. wait_time' \in Nat
        BY <1>0, <2>4, <3>1, ConstantsAssumption DEF Watch
      <3>3. u' \in 0 .. 5 /\ state' \in States
        BY <2>4 DEF Watch, AfterPoll
      <3> QED BY <2>0, <2>4, <3>2, <3>3 DEF Watch
    <2>5. CASE RetrieveUsers(a)
      BY <2>5 DEF RetrieveUsers
    <2>6. CASE Post(a)
      BY <2>6, PostType
    <2> QED BY <1>3, <2>1, <2>2, <2>3, <2>4, <2>5, <2>6 DEF Exchange
  <1>4. CASE SkipAuthentification
    BY <1>4 DEF SkipAuthentification, Turn, KeepMessage
  <1>5. CASE Wait
    <2>1. TicksLeft \in Nat /\ TimedState \in States
      BY <1>5 DEF Wait, TicksLeft, TimedState
    <2>2. state' \in States /\ oldstate' \in States
      BY <1>5, <2>1 DEF Wait, WaitedState
    <2>3. t' \in Nat /\ wait_time' \in Nat
      BY <1>0, <1>5, <2>1 DEF Wait
    <2>4. outgoingmsg' \in {Message, NoMsg}
      BY <1>5 DEF Wait, Gathered
    <2>5. poll_requested' \in BOOLEAN
      BY <1>5, ConstantsAssumption, Zenon DEF Wait
    <2> QED BY <1>5, <2>2, <2>3, <2>4, <2>5 DEF Wait
  <1>6. CASE Signal
    BY <1>6 DEF Signal, SignalPoll, SignalExit
  <1>7. CASE End
    BY <1>7 DEF End
  <1>8. CASE UNCHANGED vars
    BY <1>8 DEF vars
  <1> QED BY <1>1, <1>2, <1>3, <1>4, <1>5, <1>6, <1>7, <1>8 DEF Next, Step

\* The variables of the loop keep their types, for every configuration.
THEOREM TypeCorrect == Spec => []TypeOK
  BY InitType, NextType, PTL DEF Spec
-----------------------------------------------------------------------------
\* One step of the program keeps a pending message on its way.
LEMMA PendingStep ==
  TypeOK /\ PendingIsOnItsWay /\ [Next]_vars => PendingIsOnItsWay'
  <1> SUFFICES ASSUME TypeOK, PendingIsOnItsWay, [Next]_vars
               PROVE  PendingIsOnItsWay'
    OBVIOUS
  <1> USE DEF TypeOK, PendingIsOnItsWay
  <1>1. CASE ConnectFails
    BY <1>1 DEF ConnectFails
  <1>2. CASE ConnectSucceeds
    BY <1>2 DEF ConnectSucceeds
  <1>3. ASSUME NEW a \in Answers, Exchange(a)
        PROVE  PendingIsOnItsWay'
    <2> USE DEF Request, Turn, KeepMessage
    <2>1. CASE LoadLoginPage(a) \/ Submit(a) \/ RetrieveUsers(a)
      BY <2>1 DEF LoadLoginPage, Submit, RetrieveUsers
    <2>2. CASE GetTheBacklog(a)
      BY <2>2 DEF GetTheBacklog
    <2>3. CASE Watch(a)
      BY <2>3 DEF Watch, AfterPoll
    <2>4. CASE Post(a)
      <3>1. CASE outgoingmsg = NoMsg
        BY <2>4, <3>1 DEF Post
      <3>2. CASE outgoingmsg # NoMsg
        BY <2>4, <3>2 DEF Post, PostUnanswered, PostAccepted, PostRetried,
                          PostGivenUp
      <3> QED BY <3>1, <3>2
    <2> QED BY <1>3, <2>1, <2>2, <2>3, <2>4 DEF Exchange
  <1>4. CASE SkipAuthentification
    BY <1>4 DEF SkipAuthentification, Turn
  <1>5. CASE Wait
    <2>1. PICK msg \in Gathered : outgoingmsg' = msg /\ state' = WaitedState(msg)
      BY <1>5 DEF Wait
    <2>2. outgoingmsg # NoMsg => msg # NoMsg
      BY <2>1 DEF Gathered
    <2>3. TimedState \in {state, state + 1, RETRIEVING_THE_LIST_OF_USERS}
      BY DEF TimedState
    <2> QED BY <1>5, <2>1, <2>2, <2>3 DEF Wait, WaitedState
  <1>6. CASE Signal \/ End
    BY <1>6 DEF Signal, SignalPoll, SignalExit, End
  <1>7. CASE UNCHANGED vars
    BY <1>7 DEF vars
  <1> QED BY <1>1, <1>2, <1>3, <1>4, <1>5, <1>6, <1>7 DEF Next, Step

\* A message taken from the user is never left behind by the loop, and the
\* loop never posts without one, whatever the server and the user do.
THEOREM PendingAlwaysOnItsWay == Spec => []PendingIsOnItsWay
  <1>1. Init => PendingIsOnItsWay
    BY DEF Init, PendingIsOnItsWay
  <1> QED BY <1>1, TypeCorrect, PendingStep, PTL DEF Spec
-----------------------------------------------------------------------------
\* Dividing by the same number keeps the order.
LEMMA QuotientMonotone ==
  ASSUME NEW a \in Nat, NEW b \in Nat, NEW c \in Nat, c > 0, a <= b
  PROVE  a \div c <= b \div c
  OBVIOUS

\* The waits the program sets itself lie between half a second and ten.
LEMMA OwnWaits ==
  /\ \A n \in {500, 1000, 2500, 3000, 5000} : Ms(500) <= Ms(n) /\ Ms(n) <= Sec(10)
  /\ \A n \in {7, 10} : Ms(500) <= Sec(n) /\ Sec(n) <= Sec(10)
  <1> DEFINE q == 1000 \div Granularity
  <1>1. Granularity \in Nat /\ Granularity > 0 /\ Granularity <= 1000
    BY ConstantsAssumption
  <1>2. q \in Nat /\ q > 0
    BY <1>1
  <1>3. \A n \in {500, 1000, 2500, 3000, 5000} : Ms(500) <= Ms(n) /\ Ms(n) <= Ms(5000)
    BY <1>1, QuotientMonotone DEF Ms
  <1>4. Ms(5000) <= Sec(10)
    <2>1. 1000 < (q + 1) * Granularity
      BY <1>1
    <2>2. Ms(5000) * Granularity <= 5000 /\ Ms(5000) \in Nat
      BY <1>1, Ticks DEF Ms
    <2>3. 5000 < (5 * (q + 1)) * Granularity
      BY <1>1, <1>2, <2>1
    <2>4. Ms(5000) < 5 * (q + 1)
      BY <1>1, <1>2, <2>2, <2>3
    <2>5. Sec(10) = 10 * q
      BY DEF Sec
    <2> QED BY <1>2, <2>2, <2>4, <2>5
  <1>5. Ms(500) <= q
    BY <1>1, QuotientMonotone DEF Ms
  <1> QED BY <1>2, <1>3, <1>4, <1>5, Ticks DEF Sec

\* A poll's wait grows to at most wait_time_maxi when the poll brings nothing,
\* and shrinks to no less than wait_time_mini when it brings messages, unless
\* it was below already (main.c:564-575).
LEMMA NextWaitBounds ==
  ASSUME NEW w \in Nat, NEW n \in Nat
  PROVE  /\ NextWait(w, n) <= w \/ NextWait(w, n) <= Sec(WaitMaxi)
         /\ \/ NextWait(w, n) >= w
            \/ NextWait(w, n) >= Sec(WaitMaxi)
            \/ NextWait(w, n) >= Sec(WaitMini)
  <1>1. w \div 2 \in Nat
    BY Quotient
  <1>2. w \div (n + 1) \in Nat /\ w \div (n + 1) <= w
    <2>1. n + 1 \in Nat /\ n + 1 > 0
      OBVIOUS
    <2> QED BY <2>1, Quotient
  <1>3. Sec(WaitMaxi) \in Nat /\ Sec(WaitMini) \in Nat
    BY ConstantsAssumption, Ticks
  <1> QED BY <1>1, <1>2, <1>3 DEF NextWait

\* What a wait may be set to keeps it within its bounds.
LEMMA WaitChoices ==
  ASSUME TypeOK, WaitTimeBounded,
         \/ wait_time' = wait_time
         \/ \E n \in {500, 1000, 2500, 3000, 5000} : wait_time' = Ms(n)
         \/ wait_time' = Sec(7) \/ wait_time' = Sec(10)
         \/ wait_time' = Sec(WaitAwake)
         \/ \E n \in Nat : wait_time' = NextWait(wait_time, n)
  PROVE  WaitTimeBounded'
  <1> USE DEF WaitTimeBounded
  <1>1. /\ Sec(WaitMaxi) \in Nat /\ Sec(WaitMini) \in Nat
        /\ Sec(WaitAwake) \in Nat /\ Sec(10) \in Nat /\ Sec(7) \in Nat
        /\ Ms(500) \in Nat /\ wait_time \in Nat
    BY Ticks, ConstantsAssumption DEF TypeOK
  <1>2. CASE wait_time' = wait_time
    BY <1>2
  <1>3. CASE \E n \in {500, 1000, 2500, 3000, 5000} : wait_time' = Ms(n)
    BY <1>3, OwnWaits
  <1>4. CASE wait_time' = Sec(7) \/ wait_time' = Sec(10)
    BY <1>4, OwnWaits
  <1>5. CASE wait_time' = Sec(WaitAwake)
    BY <1>1, <1>5
  <1>6. CASE \E n \in Nat : wait_time' = NextWait(wait_time, n)
    <2>1. PICK n \in Nat : wait_time' = NextWait(wait_time, n)
      BY <1>6
    <2>2. NextWait(wait_time, n) \in Nat
      BY <1>1, NextWaitType
    <2> QED BY <1>1, <2>1, <2>2, NextWaitBounds
  <1> QED BY <1>2, <1>3, <1>4, <1>5, <1>6

\* Every step chooses the next wait among those.
LEMMA WaitStep ==
  TypeOK /\ WaitTimeBounded /\ [Next]_vars => WaitTimeBounded'
  <1> SUFFICES ASSUME TypeOK, WaitTimeBounded, [Next]_vars
               PROVE  WaitTimeBounded'
    OBVIOUS
  <1>1. CASE ConnectFails \/ ConnectSucceeds
    BY <1>1, WaitChoices DEF ConnectFails, ConnectSucceeds
  <1>2. ASSUME NEW a \in Answers, Exchange(a)
        PROVE  WaitTimeBounded'
    <2>1. CASE LoadLoginPage(a) \/ Submit(a) \/ RetrieveUsers(a)
      BY <2>1, WaitChoices DEF LoadLoginPage, Submit, RetrieveUsers
    <2>2. CASE GetTheBacklog(a)
      BY <2>2, WaitChoices DEF GetTheBacklog
    <2>3. CASE Watch(a)
      <3>1. \/ wait_time' = Sec(10)
            \/ \E n \in Nat : wait_time' = NextWait(wait_time, n)
        BY <2>3, ConstantsAssumption DEF Watch
      <3> QED BY <3>1, WaitChoices
    <2>4. CASE Post(a)
      BY <2>4, WaitChoices
         DEF Post, PostUnanswered, PostAccepted, PostRetried, PostGivenUp
    <2> QED BY <1>2, <2>1, <2>2, <2>3, <2>4 DEF Exchange
  <1>3. CASE SkipAuthentification
    BY <1>3, WaitChoices DEF SkipAuthentification
  <1>4. CASE Wait
    BY <1>4, WaitChoices DEF Wait
  <1>5. CASE Signal \/ End
    BY <1>5, WaitChoices DEF Signal, SignalPoll, SignalExit, End
  <1>6. CASE UNCHANGED vars
    BY <1>6, WaitChoices DEF vars
  <1> QED BY <1>1, <1>2, <1>3, <1>4, <1>5, <1>6 DEF Next, Step

\* The wait between two polls never leaves its bounds, for every tick length
\* of at most a second and every configuration of the three waits.
THEOREM WaitAlwaysBounded == Spec => []WaitTimeBounded
  <1>1. Init => WaitTimeBounded
    <2>1. Sec(10) \in Nat /\ Ms(500) \in Nat /\ Ms(2500) \in Nat
      BY Ticks
    <2> QED BY <2>1, OwnWaits DEF Init, WaitTimeBounded
  <1> QED BY <1>1, TypeCorrect, WaitStep, PTL DEF Spec
-----------------------------------------------------------------------------
(* The history.                                                            *)


USE DEF WAIT_LOADING_LOGIN_PAGE, LOADING_LOGIN_PAGE,
        WAIT_SUBMIT_AUTHENTIFICATION, SUBMIT_AUTHENTIFICATION,
        WAIT_GET_THE_BACKLOG, GET_THE_BACKLOG,
        WAIT_WATCHING_NEW_MESSAGES, WATCHING_NEW_MESSAGES,
        WAIT_RETRIEVING_THE_LIST_OF_USERS, RETRIEVING_THE_LIST_OF_USERS,
        WAIT_POSTING_A_MESSAGE, POSTING_A_MESSAGE,
        States, WaitStates, RequestStates, LoginStates, ReadingStates,
        PostingStates

\* The history follows the loop and does not restrict it.
LEMMA HistoryStep == [HNext]_hvars => [Next]_vars
  BY DEF HNext, HExchange, HConnect, HSkip, HWait, HOther, Next, Step, hvars

\* Whatever holds of the loop holds of the loop with its history.
THEOREM HistoryRefines == HSpec => Spec
  <1>1. HInit => Init
    BY DEF HInit
  <1> QED BY <1>1, HistoryStep, PTL DEF HSpec, Spec

\* The loop's own types hold with the history too.
LEMMA HistoryTypes == HSpec => []TypeOK
  BY HistoryRefines, TypeCorrect, PTL
-----------------------------------------------------------------------------
\* A step counts no more answers than it counts retries.
LEMMA TriesStep ==
  TypeOK /\ TypeOK' /\ tries \in Nat /\ TriesBounded /\ [HNext]_hvars
    => (tries \in Nat)' /\ TriesBounded'
  <1> SUFFICES ASSUME TypeOK, TypeOK', tries \in Nat, TriesBounded, [HNext]_hvars
               PROVE  tries' \in Nat /\ TriesBounded'
    OBVIOUS
  <1> USE DEF TriesBounded
  <1>1. ASSUME NEW a \in Answers, HExchange(a)
        PROVE  tries' \in Nat /\ TriesBounded'
    <2>1. CASE outgoingmsg' = NoMsg
      BY <1>1, <2>1 DEF HExchange, TypeOK
    <2>2. CASE outgoingmsg' # NoMsg /\ Post(a)
      BY <1>1, <2>2 DEF HExchange, Post, Request, Turn, PostUnanswered,
         PostAccepted, PostRetried, PostGivenUp, RetriesLeft, CountRetry,
         KeepMessage, TypeOK
    <2>3. CASE outgoingmsg' # NoMsg /\ ~Post(a)
      <3>1. UNCHANGED outgoingmsgretry /\ state # POSTING_A_MESSAGE
        BY <1>1, <2>3 DEF HExchange, Exchange, LoadLoginPage, Submit,
           GetTheBacklog, Watch, RetrieveUsers, Request, Turn, KeepMessage
      <3> QED BY <1>1, <2>3, <3>1 DEF HExchange
    <2> QED BY <2>1, <2>2, <2>3
  <1>2. CASE HConnect \/ HSkip \/ HWait \/ HOther
    BY <1>2 DEF HConnect, HSkip, HWait, HOther, ConnectFails, ConnectSucceeds,
       SkipAuthentification, KeepMessage, Wait, Signal, SignalPoll, SignalExit,
       End, history
  <1>3. CASE UNCHANGED hvars
    BY <1>3 DEF hvars, vars, history
  <1> QED BY <1>1, <1>2, <1>3 DEF HNext

\* No message gets more than three answers of the server, whatever the server
\* answers and however often polls are forced (main.c:658-697).
THEOREM TriesAlwaysBounded == HSpec => []TriesBounded
  <1>1. HInit => tries \in Nat /\ TriesBounded
    BY DEF HInit, Init, TriesBounded
  <1> QED BY <1>1, HistoryTypes, TriesStep, PTL DEF HSpec
-----------------------------------------------------------------------------
\* Spaced requests: when posts are answered, only three requests may follow
\* another one at once, and none of them lets a third follow.
Spaced ==
  ~unanswered =>
    /\ burst \in 0 .. 2
    /\ state \in RequestStates => burst <= 1
    /\ state \in {SUBMIT_AUTHENTIFICATION, RETRIEVING_THE_LIST_OF_USERS,
                  POSTING_A_MESSAGE} => burst = 0

LEMMA SpacedStep ==
  TypeOK /\ PendingIsOnItsWay /\ Spaced /\ [HNext]_hvars => Spaced'
  <1> SUFFICES ASSUME TypeOK, PendingIsOnItsWay, Spaced, [HNext]_hvars,
                      ~unanswered'
               PROVE  Spaced'
    BY DEF Spaced
  <1> USE DEF Spaced, TypeOK
  <1>1. ASSUME NEW a \in Answers, HExchange(a)
        PROVE  Spaced'
    <2> USE DEF Request, Turn
    <2>0. ~unanswered /\ ~(state = POSTING_A_MESSAGE /\ a = NoAnswer)
      BY <1>1, Zenon DEF HExchange
    <2>9. burst' = IF burst < 3 THEN burst + 1 ELSE burst
      BY <1>1 DEF HExchange
    <2>1. CASE LoadLoginPage(a) \/ Submit(a) \/ RetrieveUsers(a)
      BY <2>0, <2>1, <2>9 DEF LoadLoginPage, Submit, RetrieveUsers
    <2>2. CASE GetTheBacklog(a)
      BY <2>0, <2>2, <2>9 DEF GetTheBacklog
    <2>3. CASE Watch(a)
      BY <2>0, <2>3, <2>9 DEF Watch, AfterPoll
    <2>4. CASE Post(a)
      <3>1. a # NoAnswer /\ outgoingmsg # NoMsg
        BY <2>0, <2>4 DEF Post, PendingIsOnItsWay
      <3> QED BY <2>0, <2>4, <2>9, <3>1 DEF Post, PostUnanswered, PostAccepted,
                 PostRetried, PostGivenUp
    <2> QED BY <1>1, <2>1, <2>2, <2>3, <2>4 DEF Exchange, HExchange
  <1>2. CASE HConnect
    BY <1>2 DEF HConnect, ConnectFails, ConnectSucceeds
  <1>3. CASE HSkip
    BY <1>3 DEF HSkip, SkipAuthentification, Turn
  <1>4. CASE HWait
    BY <1>4 DEF HWait
  <1>5. CASE HOther
    BY <1>5 DEF HOther, Signal, SignalPoll, SignalExit, End, history
  <1>6. CASE UNCHANGED hvars
    BY <1>6 DEF hvars, vars, history
  <1> QED BY <1>1, <1>2, <1>3, <1>4, <1>5, <1>6 DEF HNext

\* Unless a post goes unanswered, no three requests go out without a wait
\* between them, forced polls or not.
THEOREM AlwaysPolite == HSpec => []Polite
  <1>1. HInit => Spaced
    BY DEF HInit, Init, Spaced
  <1>2. HSpec => []PendingIsOnItsWay
    BY HistoryRefines, PendingAlwaysOnItsWay, PTL
  <1>3. Spaced => Polite
    BY DEF Spaced, Polite
  <1> QED BY <1>1, <1>2, <1>3, SpacedStep, HistoryTypes, PTL DEF HSpec
-----------------------------------------------------------------------------
\* Only a pending message has copies, and only after an unanswered post.
OnlyUnanswered ==
  /\ copies \in Nat
  /\ ~unanswered \/ outgoingmsg = NoMsg => copies = 0

LEMMA OnlyUnansweredStep ==
  TypeOK /\ PendingIsOnItsWay /\ OnlyUnanswered /\ [HNext]_hvars
    => OnlyUnanswered'
  <1> SUFFICES ASSUME TypeOK, PendingIsOnItsWay, OnlyUnanswered, [HNext]_hvars
               PROVE  OnlyUnanswered'
    OBVIOUS
  <1> USE DEF OnlyUnanswered
  <1>1. ASSUME NEW a \in Answers, HExchange(a)
        PROVE  OnlyUnanswered'
    <2>1. ASSUME outgoingmsg' # NoMsg, state = POSTING_A_MESSAGE
          PROVE  a # 200
      <3>1. Post(a)
        BY <1>1, <2>1 DEF HExchange, Exchange, LoadLoginPage, Submit,
           GetTheBacklog, Watch, RetrieveUsers, Request, Turn
      <3> QED BY <2>1, <3>1 DEF Post, Request, PostUnanswered, PostAccepted,
                 PostRetried, PostGivenUp, PendingIsOnItsWay, NoAnswer
    <2>2. ~unanswered' => ~unanswered /\ ~(state = POSTING_A_MESSAGE /\ a = NoAnswer)
      BY <1>1, Zenon DEF HExchange
    <2>3. copies' \in StoredAfter(a)
      BY <1>1 DEF HExchange
    <2>4. copies' \in Nat
      BY <2>3 DEF StoredAfter
    <2>5. outgoingmsg' = NoMsg => copies' = 0
      BY <2>3 DEF StoredAfter
    <2>6. ~unanswered' => copies' = 0
      BY <2>1, <2>2, <2>3 DEF StoredAfter
    <2> QED BY <2>4, <2>5, <2>6
  <1>2. CASE HConnect \/ HSkip \/ HOther
    BY <1>2 DEF HConnect, HSkip, HOther, history, ConnectFails,
       ConnectSucceeds, SkipAuthentification, KeepMessage, Signal, SignalPoll,
       SignalExit, End
  <1>3. CASE HWait
    <2>1. UNCHANGED copies /\ (~unanswered' => ~unanswered \/ outgoingmsg = NoMsg)
      BY <1>3, Zenon DEF HWait
    <2>2. outgoingmsg' = NoMsg => outgoingmsg = NoMsg
      BY <1>3 DEF HWait, Wait, Gathered
    <2> QED BY <2>1, <2>2
  <1>4. CASE UNCHANGED hvars
    BY <1>4 DEF hvars, vars, history
  <1> QED BY <1>1, <1>2, <1>3, <1>4 DEF HNext

\* A message the server stored is posted again only when the server left a
\* post of it unanswered.
THEOREM NeverReposted == HSpec => []NoRepost
  <1>1. HInit => OnlyUnanswered
    BY DEF HInit, OnlyUnanswered
  <1>2. HSpec => []PendingIsOnItsWay
    BY HistoryRefines, PendingAlwaysOnItsWay, PTL
  <1>3. OnlyUnanswered => NoRepost
    BY DEF OnlyUnanswered, NoRepost
  <1> QED BY <1>1, <1>2, <1>3, OnlyUnansweredStep, HistoryTypes, PTL DEF HSpec
-----------------------------------------------------------------------------
\* How far the login got in each state, unless a forced poll skipped the rest.
Restarting == state \in {WAIT_LOADING_LOGIN_PAGE, LOADING_LOGIN_PAGE}

LoggedAsFar ==
  /\ state <= LOADING_LOGIN_PAGE => logged = 0
  /\ state \in {WAIT_SUBMIT_AUTHENTIFICATION, SUBMIT_AUTHENTIFICATION} => logged = 1
  /\ state \in {WAIT_GET_THE_BACKLOG, GET_THE_BACKLOG} => logged = 2
  /\ state > GET_THE_BACKLOG => logged = 3

LoginProgress == /\ Restarting => LoggedAsFar
                 /\ skipped \/ LoggedAsFar

\* What every step that cuts no login short has to do.
LEMMA LoginCarried ==
  ASSUME LoginProgress, skipped' = SkippedAfter(FALSE),
         Restarting' => LoggedAsFar', LoggedAsFar => LoggedAsFar'
  PROVE  LoginProgress'
  BY Zenon DEF LoginProgress, SkippedAfter, Restarting

\* A tick of a wait moves to the next state, unless a poll is forced or there
\* is a message to post.
LEMMA WaitMoves ==
  ASSUME TypeOK, Wait
  PROVE  /\ state \in WaitStates
         /\ \/ state' \in {state, state + 1}
            \/ state \notin LoginStates /\ state' = POSTING_A_MESSAGE
            \/ poll_requested /\ state' \in {RETRIEVING_THE_LIST_OF_USERS, POSTING_A_MESSAGE}
  <1>1. state \in WaitStates
    BY DEF Wait
  <1>2. PICK msg \in Gathered : state' = WaitedState(msg)
    BY DEF Wait
  <1>3. CASE poll_requested
    BY <1>1, <1>2, <1>3 DEF WaitedState, TimedState
  <1>4. CASE ~poll_requested
    <2>1. TimedState \in {state, state + 1}
      BY <1>4 DEF TimedState
    <2> QED BY <1>1, <1>2, <2>1 DEF WaitedState
  <1> QED BY <1>1, <1>3, <1>4

LEMMA LoginStep ==
  TypeOK /\ LoginProgress /\ [HNext]_hvars => LoginProgress'
  <1> SUFFICES ASSUME TypeOK, LoginProgress, [HNext]_hvars
               PROVE  LoginProgress'
    OBVIOUS
  <1> USE DEF TypeOK
  <1>1. ASSUME NEW a \in Answers, HExchange(a)
        PROVE  LoginProgress'
    <2> USE DEF Request, Turn
    <2>1. (Restarting' => LoggedAsFar') /\ (LoggedAsFar => LoggedAsFar')
      <3> USE DEF Restarting, LoggedAsFar, LoggedAfter
      <3>0. logged' = LoggedAfter
        BY <1>1 DEF HExchange
      <3>1. CASE LoadLoginPage(a) \/ Submit(a) \/ RetrieveUsers(a)
        BY <3>0, <3>1 DEF LoadLoginPage, Submit, RetrieveUsers
      <3>2. CASE GetTheBacklog(a)
        BY <3>0, <3>2 DEF GetTheBacklog
      <3>3. CASE Watch(a)
        <4>1. /\ state = WATCHING_NEW_MESSAGES
              /\ state' \in {WAIT_LOADING_LOGIN_PAGE, WAIT_WATCHING_NEW_MESSAGES,
                             WAIT_RETRIEVING_THE_LIST_OF_USERS}
          BY <3>3 DEF Watch, AfterPoll
        <4> QED BY <3>0, <4>1
      <3>4. CASE Post(a)
        <4>1. /\ state = POSTING_A_MESSAGE
              /\ state' \in {LOADING_LOGIN_PAGE, POSTING_A_MESSAGE,
                             WATCHING_NEW_MESSAGES, WAIT_POSTING_A_MESSAGE,
                             WAIT_WATCHING_NEW_MESSAGES}
          BY <3>4 DEF Post, PostUnanswered, PostAccepted, PostRetried,
             PostGivenUp
        <4> QED BY <3>0, <4>1
      <3> QED BY <1>1, <3>1, <3>2, <3>3, <3>4 DEF Exchange, HExchange
    <2> QED BY <1>1, <2>1, LoginCarried DEF HExchange
  <1>2. CASE HConnect
    <2>1. (Restarting' => LoggedAsFar') /\ (LoggedAsFar => LoggedAsFar')
      <3>1. /\ state \in RequestStates
            /\ state' \in {state - 1, state, LOADING_LOGIN_PAGE}
            /\ state' = WAIT_LOADING_LOGIN_PAGE => state = LOADING_LOGIN_PAGE
            /\ logged' = IF state' = LOADING_LOGIN_PAGE THEN 0 ELSE logged
        BY <1>2 DEF HConnect, ConnectFails, ConnectSucceeds
      <3>2. Restarting => LoggedAsFar
        BY Zenon DEF LoginProgress
      <3>3. CASE state' = LOADING_LOGIN_PAGE
        BY <3>1, <3>3 DEF LoggedAsFar
      <3>4. CASE state' # LOADING_LOGIN_PAGE
        <4>1. logged' = logged /\ state' \in {state - 1, state}
          BY <3>1, <3>4
        <4>2. state \in {1, 3, 5, 7, 9, 11}
          BY <3>1
        <4>3. Restarting' => Restarting
          BY <4>1, <4>2 DEF Restarting
        <4>4. LoggedAsFar => LoggedAsFar'
          BY <4>1, <4>2 DEF LoggedAsFar
        <4> QED BY <3>2, <4>3, <4>4
      <3> QED BY <3>3, <3>4
    <2> QED BY <1>2, <2>1, LoginCarried DEF HConnect
  <1>3. CASE HSkip
    <2>1. (Restarting' => LoggedAsFar') /\ (LoggedAsFar => LoggedAsFar')
      BY <1>3 DEF HSkip, SkipAuthentification, Turn, LoggedAfter, Restarting,
         LoggedAsFar
    <2> QED BY <1>3, <2>1, LoginCarried DEF HSkip
  <1>4. CASE HWait
    <2>1. /\ logged' = logged
          /\ skipped' = SkippedAfter(poll_requested /\ state \in LoginStates)
      BY <1>4 DEF HWait
    <2>2. /\ state \in WaitStates
          /\ \/ state' \in {state, state + 1}
             \/ state \notin LoginStates /\ state' = POSTING_A_MESSAGE
             \/ poll_requested /\ state' \in {RETRIEVING_THE_LIST_OF_USERS, POSTING_A_MESSAGE}
      BY <1>4, WaitMoves DEF HWait
    <2>3. (Restarting' => Restarting) /\ (Restarting' /\ LoggedAsFar => LoggedAsFar')
      BY <2>1, <2>2 DEF Restarting, LoggedAsFar
    <2>4. ~(poll_requested /\ state \in LoginStates) /\ LoggedAsFar => LoggedAsFar'
      BY <2>1, <2>2 DEF LoggedAsFar
    <2> QED BY <2>1, <2>3, <2>4, Zenon DEF LoginProgress, SkippedAfter, Restarting
  <1>5. CASE HOther
    BY <1>5 DEF HOther, Signal, SignalPoll, SignalExit, End, history,
       LoginProgress, Restarting, LoggedAsFar
  <1>6. CASE UNCHANGED hvars
    BY <1>6 DEF hvars, vars, history, LoginProgress, Restarting, LoggedAsFar
  <1> QED BY <1>1, <1>2, <1>3, <1>4, <1>5, <1>6 DEF HNext

LEMMA LoginAlwaysInProgress == HSpec => []LoginProgress
  <1>1. HInit => LoginProgress
    BY DEF HInit, Init, LoginProgress, Restarting, LoggedAsFar
  <1> QED BY <1>1, LoginStep, HistoryTypes, PTL DEF HSpec

\* The chat is used only after a whole login, or after one that a forced poll
\* cut short.
THEOREM LoginAlwaysComplete == HSpec => []LoginIsComplete
  <1>1. TypeOK /\ LoginProgress => LoginIsComplete
    <2>1. TypeOK /\ state \in ReadingStates \cup PostingStates /\ LoggedAsFar
            => logged = 3
      BY DEF TypeOK, LoggedAsFar
    <2> QED BY <2>1, Zenon DEF LoginProgress, LoginIsComplete
  <1> QED BY <1>1, HistoryTypes, LoginAlwaysInProgress, PTL
-----------------------------------------------------------------------------
\* Past the login, `response' is assigned, and it only says 403 when the
\* server did; unless the login was skipped.
RefusalKnown ==
  state \notin LoginStates /\ ~skipped
    => response # Uninit /\ (response = 403 => refused)

LEMMA RefusalStep ==
  TypeOK /\ RefusalKnown /\ [HNext]_hvars
    => /\ RefusalKnown'
       /\ state \notin LoginStates /\ state' \in LoginStates
          => refused' \/ nberr >= RelogErrs \/ skipped
  <1> SUFFICES ASSUME TypeOK, RefusalKnown, [HNext]_hvars
               PROVE  /\ RefusalKnown'
                      /\ state \notin LoginStates /\ state' \in LoginStates
                         => refused' \/ nberr >= RelogErrs \/ skipped
    OBVIOUS
  <1> USE DEF RefusalKnown, TypeOK
  <1>1. ASSUME NEW a \in Answers, HExchange(a)
        PROVE  /\ RefusalKnown'
               /\ state \notin LoginStates /\ state' \in LoginStates
                  => refused' \/ skipped
    <2> USE DEF Request, Turn
    <2>8. ~skipped' => ~skipped \/ state' \in {WAIT_LOADING_LOGIN_PAGE, LOADING_LOGIN_PAGE}
      BY <1>1, Zenon DEF HExchange, SkippedAfter
    <2>9. refused' <=> (a = 403 \/ (refused /\ state # GET_THE_BACKLOG))
      BY <1>1, Zenon DEF HExchange
    <2>0. /\ FreshResponse(a) = 403 => a = 403
          /\ FreshResponse(a) # Uninit
          /\ a # NoAnswer => CheckHttpResponse(a) # Uninit
          /\ CheckHttpResponse(a) = 403 => a = 403
      <3>1. a = NoAnswer \/ a \in Nat
        BY ConstantsAssumption DEF Answers
      <3> QED BY <3>1 DEF FreshResponse, CheckHttpResponse, NoAnswer, Uninit
    <2>1. CASE LoadLoginPage(a) \/ Submit(a) \/ RetrieveUsers(a)
      BY <2>0, <2>1, <2>8, <2>9 DEF LoadLoginPage, Submit, RetrieveUsers
    <2>2. CASE GetTheBacklog(a)
      BY <2>0, <2>2, <2>8, <2>9 DEF GetTheBacklog
    <2>3. CASE Watch(a)
      <3>1. ~skipped /\ response' = 403 => a = 403 \/ refused
        BY <2>0, <2>3 DEF Watch, WatchedResponse
      <3>2. ~skipped => response' # Uninit
        BY <2>0, <2>3 DEF Watch, WatchedResponse
      <3> QED BY <2>3, <2>8, <2>9, <3>1, <3>2 DEF Watch, AfterPoll
    <2>4. CASE Post(a)
      <3>1. /\ state = POSTING_A_MESSAGE
            /\ state' \in LoginStates => a = 403
            /\ \/ response' = response
               \/ a # NoAnswer /\ response' = CheckHttpResponse(a)
        BY <2>4 DEF Post, PostUnanswered, PostAccepted, PostRetried,
           PostGivenUp, KeepMessage, CheckHttpResponse, NoAnswer
      <3>2. state \notin LoginStates /\ state # GET_THE_BACKLOG
        BY <3>1
      <3>3. ~skipped => response # Uninit /\ (response = 403 => refused)
        BY <3>2, Zenon
      <3>4. ~skipped => response' # Uninit
        BY <2>0, <3>1, <3>3
      <3>5. ~skipped => (response' = 403 => refused')
        <4>1. response' = 403 => response = 403 \/ a = 403
          BY <2>0, <3>1
        <4> QED BY ONLY <2>9, <3>2, <3>3, <4>1, Zenon
      <3>6. RefusalKnown'
        <4>1. state' \in {WAIT_LOADING_LOGIN_PAGE, LOADING_LOGIN_PAGE}
                => state' \in LoginStates
          OBVIOUS
        <4> QED BY ONLY <2>8, <3>4, <3>5, <4>1, Zenon DEF RefusalKnown
      <3> QED BY ONLY <2>9, <3>1, <3>6, Zenon
    <2> QED BY <1>1, <2>1, <2>2, <2>3, <2>4 DEF Exchange, HExchange
  <1>2. CASE HConnect
    <2>1. ~skipped' => ~skipped \/ state' \in {WAIT_LOADING_LOGIN_PAGE, LOADING_LOGIN_PAGE}
      BY <1>2, Zenon DEF HConnect, SkippedAfter
    <2>2. UNCHANGED <<response, refused>>
      BY <1>2 DEF HConnect, ConnectFails, ConnectSucceeds
    <2>3. /\ state \in RequestStates
          /\ \/ state' \in {state - 1, state}
             \/ state' = LOADING_LOGIN_PAGE /\ nberr >= RelogErrs
      BY <1>2 DEF HConnect, ConnectFails, ConnectSucceeds
    <2> QED BY <2>1, <2>2, <2>3
  <1>3. CASE HSkip
    BY <1>3 DEF HSkip, SkipAuthentification, Turn
  <1>4. CASE HWait
    <2>1. ~skipped' => \/ ~skipped /\ ~(poll_requested /\ state \in LoginStates)
                       \/ state' \in {WAIT_LOADING_LOGIN_PAGE, LOADING_LOGIN_PAGE}
      BY <1>4, Zenon DEF HWait, SkippedAfter
    <2>2. /\ state \in WaitStates
          /\ \/ state' \in {state, state + 1}
             \/ state \notin LoginStates /\ state' = POSTING_A_MESSAGE
             \/ poll_requested /\ state' \in {RETRIEVING_THE_LIST_OF_USERS, POSTING_A_MESSAGE}
      BY <1>4, WaitMoves DEF HWait
    <2>3. UNCHANGED <<response, refused>>
      BY <1>4 DEF HWait, Wait
    <2> QED BY <2>1, <2>2, <2>3
  <1>5. CASE HOther
    BY <1>5 DEF HOther, Signal, SignalPoll, SignalExit, End, history
  <1>6. CASE UNCHANGED hvars
    BY <1>6 DEF hvars, vars, history
  <1> QED BY <1>1, <1>2, <1>3, <1>4, <1>5, <1>6 DEF HNext

\* The loop leaves the chat for the login page only because the server refused
\* a request or was long out of reach: after a login that was not skipped, the
\* value `response' keeps when a poll gets no data is never misread.
THEOREM RelogAlwaysJustified == HSpec => RelogIsJustified
  <1>1. HInit => RefusalKnown
    BY DEF HInit, Init, RefusalKnown
  <1> QED BY <1>1, RefusalStep, HistoryTypes, PTL DEF HSpec, RelogIsJustified
=============================================================================
