---------------------------- MODULE PollHistory ----------------------------
(***************************************************************************)
(* PollLoop with the history its promises to the user and to the server    *)
(* are about: what was sent between two waits, how often the message being *)
(* sent was tried and stored, how far the login got.  The loop never reads *)
(* it.                                                                     *)
(***************************************************************************)
EXTENDS PollLoop

VARIABLES
  burst,       \* requests sent since the last wait, counted to 3
  tries,       \* posts of the pending message that got an answer
  copies,      \* times the server stored the pending message, counted to 2
  logged,      \* steps of the login done since it last started, in order
  refused,     \* a request was answered 403 since the last backlog
  skipped,     \* a forced poll cut the latest login short
  unanswered   \* a post got no answer, and no wait without a message followed

history == <<burst, tries, copies, logged, refused, skipped, unanswered>>
hvars   == <<vars, history>>

HInit ==
  /\ Init
  /\ burst = 0 /\ tries = 0 /\ copies = 0
  /\ logged = 0 /\ refused = FALSE /\ skipped = FALSE /\ unanswered = FALSE

\* The login after a turn that left it in state'.
LoggedAfter ==
  IF state' \in {WAIT_LOADING_LOGIN_PAGE, LOADING_LOGIN_PAGE} THEN 0
  ELSE IF \/ state = LOADING_LOGIN_PAGE /\ logged = 0
          \/ state = SUBMIT_AUTHENTIFICATION /\ logged = 1
          \/ state = GET_THE_BACKLOG /\ logged = 2
       THEN logged + 1
  ELSE logged

\* A login that starts again is not skipped any more.
SkippedAfter(cut) ==
  (skipped \/ cut) /\ state' \notin {WAIT_LOADING_LOGIN_PAGE, LOADING_LOGIN_PAGE}

\* The server stores a post it answers 200; one it leaves unanswered may have
\* been stored all the same.
StoredAfter(a) ==
  LET more == IF copies < 2 THEN copies + 1 ELSE copies
  IN IF outgoingmsg' = NoMsg THEN {0}
     ELSE IF state # POSTING_A_MESSAGE THEN {copies}
     ELSE IF a = 200 THEN {more}
     ELSE IF a = NoAnswer THEN {copies, more}
     ELSE {copies}

HExchange(a) ==
  /\ Exchange(a)
  /\ burst' = IF burst < 3 THEN burst + 1 ELSE burst
  /\ tries' = IF outgoingmsg' = NoMsg THEN 0
              ELSE IF state = POSTING_A_MESSAGE /\ a # NoAnswer THEN tries + 1
              ELSE tries
  /\ copies' \in StoredAfter(a)
  /\ logged' = LoggedAfter
  /\ refused' = (a = 403 \/ (refused /\ state # GET_THE_BACKLOG))
  /\ skipped' = SkippedAfter(FALSE)
  /\ unanswered' = (unanswered \/ (state = POSTING_A_MESSAGE /\ a = NoAnswer))

HConnect ==
  /\ ConnectFails \/ ConnectSucceeds
  /\ logged' = IF state' = LOADING_LOGIN_PAGE THEN 0 ELSE logged
  /\ skipped' = SkippedAfter(FALSE)
  /\ UNCHANGED <<burst, tries, copies, refused, unanswered>>

HSkip ==
  /\ SkipAuthentification
  /\ burst' = IF burst < 3 THEN burst + 1 ELSE burst
  /\ logged' = LoggedAfter
  /\ skipped' = SkippedAfter(FALSE)
  /\ UNCHANGED <<tries, copies, refused, unanswered>>

HWait ==
  /\ Wait
  /\ burst' = 0
  /\ skipped' = SkippedAfter(poll_requested /\ state \in LoginStates)
  /\ unanswered' = (unanswered /\ outgoingmsg # NoMsg)
  /\ UNCHANGED <<tries, copies, logged, refused>>

HOther == (Signal \/ End) /\ UNCHANGED history

HNext == \/ \E a \in Answers : HExchange(a)
         \/ HConnect \/ HSkip \/ HWait \/ HOther

HSpec == HInit /\ [][HNext]_hvars
-----------------------------------------------------------------------------
HTypeOK ==
  /\ TypeOK
  /\ burst \in 0 .. 3 /\ tries \in 0 .. 2 /\ copies \in 0 .. 2
  /\ logged \in 0 .. 3 /\ refused \in BOOLEAN
  /\ skipped \in BOOLEAN /\ unanswered \in BOOLEAN

\* No message gets more than three answers from the server: each answer
\* settles it or counts as one of its two retries (main.c:658-697).
TriesBounded == tries <= outgoingmsgretry /\ outgoingmsgretry <= 2

\* Between two waits the loop makes at most two requests (main.c:710 waits
\* "pour ne pas saturer le serveur"), unless a post got no answer.
Polite == burst <= 2 \/ unanswered

\* The same without exception: the loop never floods the server (main.c:614).
NeverFloods == burst <= 2

\* A message the server has stored is not posted again, unless the server did
\* not answer a post of it.
NoRepost == s = "open" /\ state = POSTING_A_MESSAGE /\ copies > 0 => unanswered

\* The chat is only read or posted to after a whole login: login page, then
\* authentification, then backlog, in this order; unless a poll forced since
\* that login started skipped the rest of it (main.c:728).
LoginIsComplete ==
  state \in ReadingStates \cup PostingStates => logged = 3 \/ skipped

\* The loop leaves the chat for the login page only when the server refused
\* a request, or was out of reach for long (main.c:420, 558 and 665), or when
\* the login was skipped: `response' may then be read without having been set.
RelogIsJustified ==
  [][ state \notin LoginStates /\ state' \in LoginStates
      => refused' \/ nberr >= RelogErrs \/ skipped ]_hvars
=============================================================================
