--------------------------- MODULE OwnEchoProofs ---------------------------
(***************************************************************************)
(* OwnEcho, for any texts and bounds: as long as nothing is refused for    *)
(* good and no poll is missed, at most one message is on its way, and what *)
(* irc_message() compares with is that message, or a text that a line      *)
(* overtaken by another left there, or nothing.                            *)
(***************************************************************************)
EXTENDS OwnEcho, SequenceTheorems, TLAPS

USE EchoAssumption

\* Nothing has happened yet to a message that was not said.
Unsaid ==
  \A m \in Ids : m > said =>
    copies[m] = 0 /\ read[m] = 0 /\ shown[m] = 0 /\ reprint[m] = FALSE

\* Where the last message said is, as far as main() knows.
Place ==
  /\ state = "wait" => unread = << >>
  /\ state \in {"wait", "watch"} =>
       outgoingmsg = NoId /\ (said > 0 => copies[said] > 0)
  /\ state \in {"post", "login", "backlog"} => said > 0 /\ outgoingmsg = said

\* The forum's copies of it are read, or are all the next page will bring.
Copies ==
  /\ said = 0 => unread = << >>
  /\ \A i \in 1 .. Len(unread) : unread[i] = said
  /\ said > 0 => read[said] + Len(unread) = copies[said]

\* What is remembered is no message's, but maybe a line's that was overtaken.
Stale == last_thing_i_said # Nothing => overtaken[last_thing_i_said] > 0

\* What is remembered of it, and what the IRC client displayed.
Memory ==
  /\ said = 0 => Stale
  /\ said > 0 /\ read[said] = 0 =>
       /\ shown[said] = IF by_irc[said] THEN 1 ELSE 0
       /\ by_irc[said] /\ ~reprint[said] => last_thing_i_said = text[said]
       /\ by_irc[said] /\ reprint[said] => last_thing_i_said = Nothing
       /\ ~by_irc[said] => Stale
  /\ said > 0 /\ read[said] > 0 => Stale

\* What was said is a text.
Spoken == \A m \in Ids : m <= said => text[m] \in Texts

EchoInv == TypeOK /\ Unsaid /\ Spoken /\ (~disturbed => Place /\ Copies /\ Memory /\ EchoOnce)
-----------------------------------------------------------------------------
\* The state has its types: in particular a message is pending wherever one is
\* posted, and is counted at most two retries (main.c:640-700).
LEMMA InitTypes == Init => TypeOK
<1> SUFFICES ASSUME Init PROVE TypeOK
  OBVIOUS
<1>1. said = 0 /\ said \in 0 .. MaxSaid /\ outgoingmsg \in 0 .. said
  BY DEF Init, NoId
<1>2. unread \in Seq(1 .. said)
  BY DEF Init
<1>3. text \in [Ids -> Texts \cup {Nothing}] /\ by_irc \in [Ids -> BOOLEAN]
  BY DEF Init
<1>4. copies \in [Ids -> Nat] /\ read \in [Ids -> Nat] /\ shown \in [Ids -> Nat]
  BY DEF Init
<1>5. reprint \in [Ids -> BOOLEAN]
  BY DEF Init
<1>6. last_thing_i_said \in Texts \cup {Nothing} /\ disturbed \in BOOLEAN
  BY DEF Init
<1>7. state = "wait" /\ outgoingmsgretry \in 0 .. 2
  BY DEF Init
<1>8. /\ displayed \in [Texts -> Nat] /\ returned \in [Texts -> Nat]
      /\ overtaken \in [Texts -> Nat]
  BY DEF Init
<1> QED
  BY <1>1, <1>2, <1>3, <1>4, <1>5, <1>6, <1>7, <1>8 DEF TypeOK

\* Counting something once more changes nothing for the others.
LEMMA CountedOnce ==
  ASSUME NEW S, NEW f \in [S -> Nat], NEW m
  PROVE  /\ [f EXCEPT ![m] = @ + 1] \in [S -> Nat]
         /\ \A i \in S : [f EXCEPT ![m] = @ + 1][i] = IF i = m THEN f[i] + 1 ELSE f[i]
<1>1. CASE m \in S
  BY <1>1
<1>2. ASSUME NEW v, m \notin S PROVE [f EXCEPT ![m] = v] = f
  BY <1>2
<1>3. CASE m \notin S
  <2>1. [f EXCEPT ![m] = @ + 1] = f
    BY <1>2, <1>3, Zenon
  <2> QED
    BY <1>3, <2>1
<1> QED
  BY <1>1, <1>3

\* The forum stores a message that was said.
LEMMA OneMore ==
  ASSUME TypeOK, outgoingmsg # NoId, Store
  PROVE  copies' \in [Ids -> Nat] /\ unread' \in Seq(1 .. said)
<1>1. outgoingmsg \in 1 .. said /\ 1 .. said \subseteq Ids
  BY DEF TypeOK, Ids, NoId
<1>2. copies' \in [Ids -> Nat]
  BY <1>1 DEF TypeOK, Store
<1>3. unread' \in Seq(1 .. said)
  BY <1>1 DEF TypeOK, Store
<1> QED
  BY <1>2, <1>3

\* A message that is read back is one that was said.
LEMMA OneRead ==
  ASSUME TypeOK, ReadBack
  PROVE  /\ Head(unread) \in 1 .. said /\ Head(unread) \in Ids
         /\ unread' = Tail(unread) /\ unread' \in Seq(1 .. said)
         /\ read' = [read EXCEPT ![Head(unread)] = @ + 1]
         /\ \/ /\ last_thing_i_said # Nothing /\ text[Head(unread)] = last_thing_i_said
               /\ last_thing_i_said' = Nothing /\ shown' = shown
            \/ /\ ~(last_thing_i_said # Nothing /\ text[Head(unread)] = last_thing_i_said)
               /\ shown' = [shown EXCEPT ![Head(unread)] = @ + 1]
               /\ last_thing_i_said' = last_thing_i_said
         /\ returned' = [returned EXCEPT ![text[Head(unread)]] = @ + 1]
         /\ \/ last_thing_i_said = text[Head(unread)] /\ last_thing_i_said' = Nothing
               /\ displayed' = displayed
            \/ /\ displayed' = [displayed EXCEPT ![text[Head(unread)]] = @ + 1]
               /\ last_thing_i_said' = last_thing_i_said
<1>1. unread \in Seq(1 .. said) /\ unread # << >> /\ unread' = Tail(unread)
  BY DEF TypeOK, ReadBack
<1>2. Head(unread) \in 1 .. said /\ unread' \in Seq(1 .. said)
  BY <1>1, HeadTailProperties
<1>3. Head(unread) \in Ids
  BY <1>2 DEF TypeOK, Ids
<1>4. read' = [read EXCEPT ![Head(unread)] = @ + 1]
  BY ZenonT(20) DEF ReadBack
<1>5. \/ /\ last_thing_i_said # Nothing /\ text[Head(unread)] = last_thing_i_said
         /\ last_thing_i_said' = Nothing /\ shown' = shown
      \/ /\ ~(last_thing_i_said # Nothing /\ text[Head(unread)] = last_thing_i_said)
         /\ shown' = [shown EXCEPT ![Head(unread)] = @ + 1]
         /\ last_thing_i_said' = last_thing_i_said
  BY ZenonT(20) DEF ReadBack, Forget
<1>6. /\ returned' = [returned EXCEPT ![text[Head(unread)]] = @ + 1]
      /\ \/ last_thing_i_said = text[Head(unread)] /\ last_thing_i_said' = Nothing
            /\ displayed' = displayed
         \/ /\ displayed' = [displayed EXCEPT ![text[Head(unread)]] = @ + 1]
            /\ last_thing_i_said' = last_thing_i_said
  BY ZenonT(20) DEF ReadBack, Forget, Displayed
<1> QED
  BY <1>1, <1>2, <1>3, <1>4, <1>5, <1>6

\* What main() holds keeps its types.
LEMMA MainTypes ==
  ASSUME TypeOK, [Next]_vars
  PROVE  /\ state' \in {"wait", "login", "post", "watch", "backlog"}
         /\ outgoingmsg' \in 0 .. said' /\ outgoingmsgretry' \in 0 .. 2
         /\ state' = "post" => outgoingmsg' # NoId
         /\ said' \in 0 .. MaxSaid
         /\ disturbed' \in BOOLEAN
<1>1. /\ state \in {"wait", "login", "post", "watch", "backlog"}
      /\ outgoingmsg \in 0 .. said /\ outgoingmsgretry \in 0 .. 2
      /\ state = "post" => outgoingmsg # NoId
      /\ said \in 0 .. MaxSaid
      /\ disturbed \in BOOLEAN
  BY DEF TypeOK
<1>2. ASSUME NEW t \in Texts, NEW irc \in BOOLEAN, Say(t, irc)
      PROVE  /\ state' \in {"post", "login"} /\ said' = said + 1 /\ said < MaxSaid
             /\ outgoingmsg' = said' /\ UNCHANGED <<outgoingmsgretry, disturbed>>
  BY <1>1, <1>2 DEF Say
<1>3. CASE Posted
  BY <1>1, <1>3 DEF Posted, utterance, NoId
<1>4. CASE PostUnanswered \/ ReadBack \/ (\E t \in Texts : LineOvertaken(t)) \/ UNCHANGED vars
  BY <1>1, <1>4 DEF PostUnanswered, ReadBack, LineOvertaken, vars, mainvars, utterance
<1>5. CASE PostRetried
  BY <1>1, <1>5 DEF PostRetried, MayRetry, utterance
<1>6. CASE PostDropped
  BY <1>1, <1>6 DEF PostDropped, utterance, NoId
<1>7. CASE WaitIsOver \/ PollMissed \/ LoggedIn \/ PageIsOver
  BY <1>1, <1>7 DEF WaitIsOver, PollMissed, LoggedIn, PageIsOver, utterance
<1>8. ASSUME NEW t \in Texts, NEW irc \in BOOLEAN, Say(t, irc)
      PROVE  /\ state' \in {"wait", "login", "post", "watch", "backlog"}
             /\ outgoingmsg' \in 0 .. said' /\ outgoingmsgretry' \in 0 .. 2
             /\ state' = "post" => outgoingmsg' # NoId
             /\ said' \in 0 .. MaxSaid
             /\ disturbed' \in BOOLEAN
  BY <1>1, <1>2, <1>8 DEF NoId
<1> QED
  BY <1>3, <1>4, <1>5, <1>6, <1>7, <1>8 DEF Next

\* So do what was said and what is remembered of it.
LEMMA TextTypes ==
  ASSUME TypeOK, [Next]_vars
  PROVE  /\ last_thing_i_said' \in Texts \cup {Nothing}
         /\ text' \in [Ids -> Texts \cup {Nothing}] /\ by_irc' \in [Ids -> BOOLEAN]
         /\ reprint' \in [Ids -> BOOLEAN]
<1>1. /\ last_thing_i_said \in Texts \cup {Nothing}
      /\ text \in [Ids -> Texts \cup {Nothing}] /\ by_irc \in [Ids -> BOOLEAN]
      /\ reprint \in [Ids -> BOOLEAN]
  BY DEF TypeOK
<1>2. ASSUME NEW t \in Texts, NEW irc \in BOOLEAN, Say(t, irc)
      PROVE  /\ last_thing_i_said' \in Texts \cup {Nothing}
             /\ text' \in [Ids -> Texts \cup {Nothing}] /\ by_irc' \in [Ids -> BOOLEAN]
             /\ reprint' \in [Ids -> BOOLEAN]
  <2>1. text' \in [Ids -> Texts \cup {Nothing}]
    BY <1>1, <1>2 DEF Say
  <2>2. by_irc' \in [Ids -> BOOLEAN]
    BY <1>1, <1>2 DEF Say
  <2>3. last_thing_i_said' \in Texts \cup {Nothing} /\ reprint' = reprint
    BY <1>1, <1>2 DEF Say, Said
  <2> QED
    BY <1>1, <2>1, <2>2, <2>3
<1>3. CASE Posted
  <2>1. UNCHANGED <<text, by_irc>>
    BY <1>3 DEF Posted, utterance
  <2>2. \/ UNCHANGED <<last_thing_i_said, reprint>>
        \/ last_thing_i_said' = Nothing /\ reprint' = [reprint EXCEPT ![outgoingmsg] = TRUE]
    BY <1>3 DEF Posted, WillReprint
  <2> QED
    BY <1>1, <2>1, <2>2
<1>4. CASE PostUnanswered \/ PostRetried \/ PostDropped \/ WaitIsOver \/ PollMissed \/ LoggedIn
           \/ PageIsOver \/ UNCHANGED vars
  BY <1>1, <1>4 DEF PostUnanswered, PostRetried, PostDropped, WaitIsOver, PollMissed, LoggedIn,
                    PageIsOver, vars, utterance, fate
<1>5. CASE ReadBack
  BY <1>1, <1>5, OneRead DEF ReadBack, utterance
<1>6. CASE \E t \in Texts : LineOvertaken(t)
  <2>1. UNCHANGED <<text, by_irc, reprint>> /\ last_thing_i_said' \in Texts
    BY <1>6 DEF LineOvertaken, Said, utterance, fate
  <2> QED BY <1>1, <2>1
<1> QED
  BY <1>2, <1>3, <1>4, <1>5, <1>6 DEF Next

\* And so does what happened to the messages.
LEMMA FateTypes ==
  ASSUME TypeOK, [Next]_vars
  PROVE  /\ unread' \in Seq(1 .. said')
         /\ copies' \in [Ids -> Nat] /\ read' \in [Ids -> Nat] /\ shown' \in [Ids -> Nat]
<1>1. /\ unread \in Seq(1 .. said) /\ said \in 0 .. MaxSaid
      /\ copies \in [Ids -> Nat] /\ read \in [Ids -> Nat] /\ shown \in [Ids -> Nat]
  BY DEF TypeOK
<1>2. ASSUME NEW t \in Texts, NEW irc \in BOOLEAN, Say(t, irc)
      PROVE  /\ unread' \in Seq(1 .. said')
             /\ copies' \in [Ids -> Nat] /\ read' \in [Ids -> Nat] /\ shown' \in [Ids -> Nat]
  <2>1. said' = said + 1 /\ UNCHANGED <<unread, copies, read>>
    BY <1>2 DEF Say
  <2>2. 1 .. said \subseteq 1 .. said'
    BY <1>1, <2>1
  <2>3. unread' \in Seq(1 .. said')
    BY <1>1, <2>1, <2>2, SeqMonotonic
  <2>4. shown' = [shown EXCEPT ![said'] = 1] \/ shown' = shown
    BY <1>2 DEF Say
  <2>5. shown' \in [Ids -> Nat]
    BY <1>1, <2>4
  <2> QED
    BY <1>1, <2>1, <2>3, <2>5
<1>3. CASE Posted \/ PostUnanswered
  <2>1. said' = said /\ UNCHANGED <<read, shown>> /\ state = "post" /\ Store
    BY <1>3 DEF Posted, PostUnanswered, utterance
  <2>2. outgoingmsg # NoId
    BY <2>1 DEF TypeOK
  <2> QED
    BY <1>1, <2>1, <2>2, OneMore
<1>4. CASE PostRetried \/ PostDropped \/ WaitIsOver \/ PollMissed \/ LoggedIn
           \/ PageIsOver \/ (\E t \in Texts : LineOvertaken(t)) \/ UNCHANGED vars
  BY <1>1, <1>4 DEF PostRetried, PostDropped, WaitIsOver, PollMissed, LoggedIn,
                    PageIsOver, LineOvertaken, vars, utterance, fate
<1>5. CASE ReadBack
  <2>1. said' = said /\ copies' = copies
    BY <1>5 DEF ReadBack, utterance
  <2>2. PICK m \in Ids : read' = [read EXCEPT ![m] = @ + 1]
                         /\ (shown' = shown \/ shown' = [shown EXCEPT ![m] = @ + 1])
    BY <1>5, OneRead
  <2>3. [read EXCEPT ![m] = @ + 1] \in [Ids -> Nat]
    BY <1>1, CountedOnce
  <2>4. [shown EXCEPT ![m] = @ + 1] \in [Ids -> Nat]
    BY <1>1, CountedOnce
  <2> QED
    BY <1>1, <1>5, <2>1, <2>2, <2>3, <2>4, OneRead
<1> QED
  BY <1>2, <1>3, <1>4, <1>5 DEF Next

\* And the totals.
LEMMA TotalTypes ==
  ASSUME TypeOK, [Next]_vars
  PROVE  /\ displayed' \in [Texts -> Nat] /\ returned' \in [Texts -> Nat]
         /\ overtaken' \in [Texts -> Nat]
<1>1. /\ displayed \in [Texts -> Nat] /\ returned \in [Texts -> Nat]
      /\ overtaken \in [Texts -> Nat]
  BY DEF TypeOK
<1>2. ASSUME NEW t \in Texts, NEW irc \in BOOLEAN, Say(t, irc)
      PROVE  /\ displayed' \in [Texts -> Nat] /\ returned' \in [Texts -> Nat]
             /\ overtaken' \in [Texts -> Nat]
  <2>1. UNCHANGED <<returned, overtaken>> /\ (displayed' = displayed \/ Displayed(t))
    BY <1>2 DEF Say
  <2> QED
    BY <1>1, <2>1, CountedOnce DEF Displayed
<1>3. CASE ReadBack
  <2>1. PICK t : /\ returned' = [returned EXCEPT ![t] = @ + 1]
                 /\ displayed' = displayed \/ displayed' = [displayed EXCEPT ![t] = @ + 1]
    BY <1>3, OneRead
  <2>2. [returned EXCEPT ![t] = @ + 1] \in [Texts -> Nat]
    BY <1>1, CountedOnce
  <2>3. [displayed EXCEPT ![t] = @ + 1] \in [Texts -> Nat]
    BY <1>1, CountedOnce
  <2>4. overtaken' = overtaken
    BY <1>3 DEF ReadBack
  <2> QED
    BY <1>1, <2>1, <2>2, <2>3, <2>4
<1>4. CASE Posted \/ PostUnanswered \/ PostRetried \/ PostDropped \/ WaitIsOver \/ PollMissed
           \/ LoggedIn \/ PageIsOver \/ UNCHANGED vars
  BY <1>1, <1>4 DEF Posted, PostUnanswered, PostRetried, PostDropped, WaitIsOver, PollMissed,
                    LoggedIn, PageIsOver, vars, totals
<1>5. CASE \E t \in Texts : LineOvertaken(t)
  <2>1. PICK t \in Texts : /\ displayed' = [displayed EXCEPT ![t] = @ + 1]
                            /\ overtaken' = [overtaken EXCEPT ![t] = @ + 1]
                            /\ returned' = returned
    BY <1>5 DEF LineOvertaken, Displayed
  <2>2. [displayed EXCEPT ![t] = @ + 1] \in [Texts -> Nat]
    BY <1>1, CountedOnce
  <2>3. [overtaken EXCEPT ![t] = @ + 1] \in [Texts -> Nat]
    BY <1>1, CountedOnce
  <2> QED
    BY <1>1, <2>1, <2>2, <2>3
<1> QED
  BY <1>2, <1>3, <1>4, <1>5 DEF Next

\* Every step of the program, the user and the forum keeps the types.
LEMMA NextTypes == TypeOK /\ [Next]_vars => TypeOK'
<1> SUFFICES ASSUME TypeOK, [Next]_vars PROVE TypeOK'
  OBVIOUS
<1> QED
  BY MainTypes, TextTypes, FateTypes, TotalTypes DEF TypeOK

\* A message is pending wherever one is posted, and at most two retries are
\* counted for it, whatever the forum answers (main.c:649-697).
THEOREM TypeCorrect == Spec => []TypeOK
  BY InitTypes, NextTypes, PTL DEF Spec
-----------------------------------------------------------------------------
\* The invariant holds at first and every step keeps it, action by action.
LEMMA InitEcho == Init => EchoInv
<1> SUFFICES ASSUME Init PROVE EchoInv
  OBVIOUS
<1>1. TypeOK
  BY InitTypes
<1>2. said = 0 /\ state = "wait" /\ outgoingmsg = NoId /\ unread = << >>
      /\ last_thing_i_said = Nothing
  BY DEF Init
<1>3. Unsaid
  BY DEF Init, Unsaid
<1>4. Place /\ Copies /\ Memory /\ EchoOnce
  BY <1>2 DEF Place, Copies, Memory, Stale, EchoOnce, NoId
<1>5. Spoken
  BY <1>2 DEF Spoken, Ids
<1> QED
  BY <1>1, <1>3, <1>4, <1>5 DEF EchoInv

\* Only a text is said, and what a message says does not change.
LEMMA SpokenStep == TypeOK /\ Spoken /\ [Next]_vars => Spoken'
<1> SUFFICES ASSUME TypeOK, Spoken, [Next]_vars, NEW m \in Ids, m <= said'
             PROVE  text'[m] \in Texts
  BY DEF Spoken
<1>1. ASSUME NEW t \in Texts, NEW irc \in BOOLEAN, Say(t, irc) PROVE text'[m] \in Texts
  <2>1. text \in [Ids -> Texts \cup {Nothing}] /\ said \in Nat
    BY DEF TypeOK
  <2>2. said' = said + 1 /\ text' = [text EXCEPT ![said'] = t]
    BY <1>1 DEF Say
  <2> QED
    BY <2>1, <2>2 DEF Spoken, Ids
<1>2. CASE UNCHANGED utterance
  BY <1>2 DEF Spoken, utterance
<1> QED
  BY <1>1, <1>2 DEF Next, Posted, PostUnanswered, PostRetried, PostDropped, WaitIsOver,
                    PollMissed, LoggedIn, ReadBack, PageIsOver, LineOvertaken, vars

\* Only messages that were said are stored, read and displayed.
LEMMA UnsaidStep == TypeOK /\ Unsaid /\ [Next]_vars => Unsaid'
<1> SUFFICES ASSUME TypeOK, Unsaid, [Next]_vars, NEW m \in Ids, m > said'
             PROVE  copies'[m] = 0 /\ read'[m] = 0 /\ shown'[m] = 0 /\ reprint'[m] = FALSE
  BY DEF Unsaid
<1> USE DEF TypeOK, Unsaid, NoId
<1>0. said \in Nat /\ outgoingmsg \in Nat /\ outgoingmsg <= said
  OBVIOUS
<1>1. ASSUME NEW t \in Texts, NEW irc \in BOOLEAN, Say(t, irc)
      PROVE  copies'[m] = 0 /\ read'[m] = 0 /\ shown'[m] = 0 /\ reprint'[m] = FALSE
  <2>1. said' = said + 1 /\ UNCHANGED <<copies, read, reprint>>
    BY <1>1 DEF Say
  <2>2. shown' = [shown EXCEPT ![said'] = 1] \/ shown' = shown
    BY <1>1 DEF Say
  <2>3. m # said' /\ m > said
    BY <1>0, <2>1 DEF Ids
  <2>4. shown'[m] = shown[m]
    BY <2>2, <2>3
  <2> QED
    BY <2>1, <2>3, <2>4
<1>2. CASE Posted \/ PostUnanswered
  BY <1>0, <1>2 DEF Posted, PostUnanswered, Store, WillReprint, utterance
<1>3. CASE ReadBack
  <2>1. said' = said /\ UNCHANGED <<copies, reprint>>
    BY <1>3 DEF ReadBack, utterance
  <2>2. m # Head(unread) /\ (read'[m] = read[m]) /\ (shown'[m] = shown[m])
    <3>1. PICK h \in Ids : /\ h \in 1 .. said
                           /\ read' = [read EXCEPT ![h] = @ + 1]
                           /\ shown' = shown \/ shown' = [shown EXCEPT ![h] = @ + 1]
                           /\ h = Head(unread)
      <4> HIDE DEF TypeOK
      <4> QED BY <1>3, OneRead
    <3> QED BY <1>0, <2>1, <3>1
  <2> QED
    BY <1>0, <2>1, <2>2
<1>4. CASE PostRetried \/ PostDropped \/ WaitIsOver \/ PollMissed \/ LoggedIn \/ PageIsOver
           \/ (\E t \in Texts : LineOvertaken(t)) \/ UNCHANGED vars
  <2>1. said' = said /\ UNCHANGED <<copies, read, shown, reprint>>
    BY <1>4 DEF PostRetried, PostDropped, WaitIsOver, PollMissed, LoggedIn, PageIsOver,
                LineOvertaken, vars, utterance, fate
  <2> QED
    BY <2>1
<1> QED
  BY <1>1, <1>2, <1>3, <1>4 DEF Next

\* A message is said: all the others are settled, so none is remembered.
LEMMA EchoSay ==
  ASSUME NEW t \in Texts, NEW irc \in BOOLEAN, EchoInv, ~disturbed, Say(t, irc)
  PROVE  Place' /\ Copies' /\ Memory' /\ EchoOnce'
<1> USE DEF NoId
<1>1. said \in Nat /\ said' = said + 1 /\ said' \in Ids /\ outgoingmsg' = said'
  BY DEF EchoInv, TypeOK, Say, Ids
<1>2. state = "wait" /\ state' = "post"
  BY <1>1 DEF EchoInv, Place, Say
<1>3. unread = << >> /\ unread' = << >>
  BY <1>2 DEF EchoInv, Place, Say
<1>4. Stale
  <2>1. CASE said = 0
    BY <2>1 DEF EchoInv, Memory
  <2>2. CASE said > 0
    <3>1. said \in Ids
      BY <1>1, <2>2 DEF EchoInv, TypeOK, Ids
    <3>2. read[said] > 0
      BY <1>2, <1>3, <2>2, <3>1 DEF EchoInv, Place, Copies, TypeOK
    <3> QED
      BY <2>2, <3>2 DEF EchoInv, Memory
  <2> QED
    BY <1>1, <2>1, <2>2
<1>5. copies'[said'] = 0 /\ read'[said'] = 0 /\ reprint'[said'] = FALSE /\ shown[said'] = 0
  BY <1>1 DEF EchoInv, Unsaid, Say
<1>6. text'[said'] = t /\ by_irc'[said'] = irc
      /\ shown'[said'] = IF irc THEN 1 ELSE 0
  BY <1>1, <1>5 DEF EchoInv, TypeOK, Say
<1>7. (irc => last_thing_i_said' = t) /\ (~irc => Stale')
  <2>1. overtaken' = overtaken /\ (~irc => last_thing_i_said' = last_thing_i_said)
        /\ (irc => last_thing_i_said' = t)
    BY DEF Say, Said
  <2> QED BY <1>4, <2>1 DEF Stale
<1>8. Place' /\ Copies' /\ Memory'
  BY <1>1, <1>2, <1>3, <1>5, <1>6, <1>7 DEF Place, Copies, Memory
<1>9. ASSUME NEW m \in 1 .. said', read'[m] = 1 /\ copies'[m] = 1 /\ overtaken'[text'[m]] = 0
      PROVE  shown'[m] = IF by_irc'[m] /\ reprint'[m] THEN 2 ELSE 1
  <2>1. m # said' /\ m \in 1 .. said /\ m \in Ids
    <3>1. m # said'
      BY <1>5, <1>9
    <3>2. said \in 0 .. MaxSaid
      BY DEF EchoInv, TypeOK
    <3> QED
      BY <1>1, <3>1, <3>2 DEF Ids
  <2>2. /\ copies' = copies /\ read' = read /\ reprint' = reprint
        /\ by_irc' = [by_irc EXCEPT ![said'] = irc]
        /\ shown' = [shown EXCEPT ![said'] = 1] \/ shown' = shown
        /\ text' = [text EXCEPT ![said'] = t] /\ overtaken' = overtaken
    BY DEF Say
  <2>3. /\ by_irc \in [Ids -> BOOLEAN] /\ shown \in [Ids -> Nat]
        /\ text \in [Ids -> Texts \cup {Nothing}]
    BY DEF EchoInv, TypeOK
  <2>4. shown'[m] = shown[m] /\ by_irc'[m] = by_irc[m] /\ text'[m] = text[m]
    BY <2>1, <2>2, <2>3
  <2> QED
    BY <1>9, <2>1, <2>2, <2>4 DEF EchoInv, EchoOnce
<1> QED
  BY <1>8, <1>9 DEF EchoOnce

\* The forum stores the pending message, again if it was read before.
LEMMA EchoStore ==
  ASSUME EchoInv, ~disturbed, state = "post", Store, UNCHANGED <<utterance, read, shown>>
  PROVE  /\ said \in Ids /\ said > 0 /\ outgoingmsg = said /\ copies'[said] = copies[said] + 1
         /\ Copies' /\ copies'[said] > 0
         /\ read'[said] = 1 => copies'[said] > 1
         /\ \A m \in 1 .. said : m # said => copies'[m] = copies[m]
<1>1. said \in Ids /\ said > 0 /\ outgoingmsg = said /\ said \in 1 .. said
  BY DEF EchoInv, Place, TypeOK, Ids, NoId
<1>2. copies'[said] = copies[said] + 1 /\ copies[said] \in Nat /\ read[said] \in Nat
  BY <1>1 DEF EchoInv, TypeOK, Store
<1>3. unread \in Seq(1 .. said) /\ unread' = Append(unread, said)
  BY <1>1 DEF EchoInv, TypeOK, Store
<1>4. Len(unread') = Len(unread) + 1 /\ Len(unread) \in Nat
      /\ \A i \in 1 .. Len(unread') : unread'[i] = said
  BY <1>1, <1>3, AppendProperties DEF EchoInv, Copies
<1>5. read[said] + Len(unread) = copies[said]
  BY <1>1 DEF EchoInv, Copies
<1>6. UNCHANGED <<said, read>>
  BY DEF utterance
<1>7. Copies'
  BY <1>1, <1>2, <1>4, <1>5, <1>6 DEF Copies
<1>8. \A m \in 1 .. said : m # said => copies'[m] = copies[m]
  BY <1>1 DEF EchoInv, TypeOK, Store, Ids
<1> QED
  BY <1>1, <1>2, <1>4, <1>5, <1>6, <1>7, <1>8

\* A post reaches the forum, with an answer or without.
LEMMA EchoPosted ==
  ASSUME EchoInv, ~disturbed, Posted \/ PostUnanswered
  PROVE  Place' /\ Copies' /\ Memory' /\ EchoOnce'
<1>1. /\ state = "post" /\ Store /\ UNCHANGED <<utterance, read, shown>>
      /\ (state' = "watch" /\ outgoingmsg' = NoId) \/ UNCHANGED <<state, outgoingmsg>>
      /\ WillReprint \/ UNCHANGED <<last_thing_i_said, reprint>>
  BY DEF Posted, PostUnanswered, mainvars
<1>2. UNCHANGED <<said, text, by_irc, overtaken>>
  BY <1>1 DEF utterance, Posted, PostUnanswered
<1>3. \/ UNCHANGED <<last_thing_i_said, reprint>>
      \/ last_thing_i_said' = Nothing /\ reprint' = [reprint EXCEPT ![said] = TRUE]
  BY <1>1, EchoStore DEF WillReprint
<1>4. Place'
  BY <1>1, <1>2, EchoStore DEF EchoInv, Place
<1>5. Memory'
  <2>1. said \in Ids /\ reprint \in [Ids -> BOOLEAN] /\ said > 0
    BY <1>1, EchoStore DEF EchoInv, TypeOK
  <2>2. CASE UNCHANGED <<last_thing_i_said, reprint>>
    BY <1>1, <1>2, <2>1, <2>2 DEF EchoInv, Memory, Stale
  <2>3. CASE last_thing_i_said' = Nothing /\ reprint' = [reprint EXCEPT ![said] = TRUE]
    BY <1>1, <1>2, <2>1, <2>3 DEF EchoInv, Memory, Stale
  <2> QED BY <1>3, <2>2, <2>3
<1>6. ASSUME NEW m \in 1 .. said', read'[m] = 1 /\ copies'[m] = 1 /\ overtaken'[text'[m]] = 0
      PROVE  shown'[m] = IF by_irc'[m] /\ reprint'[m] THEN 2 ELSE 1
  <2>1. m # said /\ m \in 1 .. said
    BY <1>1, <1>2, <1>6, EchoStore
  <2>2. copies'[m] = copies[m]
    BY <1>1, <2>1, EchoStore
  <2>3. m \in Ids /\ reprint \in [Ids -> BOOLEAN]
    BY <2>1 DEF EchoInv, TypeOK, Ids
  <2>4. reprint'[m] = reprint[m]
    BY <1>3, <2>1, <2>3
  <2> QED
    BY <1>1, <1>2, <1>6, <2>1, <2>2, <2>4 DEF EchoInv, EchoOnce
<1> QED
  BY <1>1, <1>4, <1>5, <1>6, EchoStore DEF EchoOnce

\* A copy is read back: the first of a message said on IRC is kept back, unless
\* a retry had its client told to expect it again.
LEMMA EchoRead ==
  ASSUME EchoInv, ~disturbed, ReadBack
  PROVE  Place' /\ Copies' /\ Memory' /\ EchoOnce'
<1>1. unread # << >> /\ unread \in Seq(1 .. said) /\ said \in Nat
  BY DEF EchoInv, TypeOK, ReadBack
<1>2. /\ Len(unread) \in Nat \ {0} /\ Head(unread) = said
      /\ Len(unread') = Len(unread) - 1 /\ \A i \in 1 .. Len(unread') : unread'[i] = said
  <2>1. Len(unread) \in Nat \ {0} /\ Head(unread) = unread[1]
    BY <1>1, EmptySeq
  <2>2. unread' = Tail(unread)
    BY DEF ReadBack
  <2>3. Len(unread') = Len(unread) - 1 /\ \A i \in 1 .. Len(unread') : unread'[i] = unread[i + 1]
    BY <1>1, <2>2, HeadTailProperties
  <2>4. \A i \in 1 .. Len(unread) : unread[i] = said
    BY DEF EchoInv, Copies
  <2>5. \A i \in 1 .. Len(unread') : unread'[i] = said
    BY <2>1, <2>3, <2>4
  <2> QED
    BY <2>1, <2>3, <2>4, <2>5
<1>3. said \in Ids /\ said > 0 /\ said \in 1 .. said
  BY <1>1 DEF EchoInv, Copies, TypeOK, Ids
<1>4. read' = [read EXCEPT ![said] = @ + 1] /\ read \in [Ids -> Nat] /\ shown \in [Ids -> Nat]
  BY <1>2, OneRead DEF EchoInv, TypeOK
<1>5. read'[said] = read[said] + 1 /\ read[said] \in Nat
      /\ \A m \in Ids : m # said => read'[m] = read[m]
  BY <1>3, <1>4
<1>6. UNCHANGED <<state, outgoingmsg, said, text, by_irc, copies, reprint, overtaken>>
  BY DEF ReadBack, mainvars, utterance
<1>7. CASE last_thing_i_said # Nothing /\ text[said] = last_thing_i_said
           /\ last_thing_i_said' = Nothing /\ shown' = shown
  <2>1. \/ read[said] = 0 /\ by_irc[said] /\ ~reprint[said] /\ shown[said] = 1
        \/ overtaken[text[said]] > 0
    BY <1>3, <1>5, <1>7 DEF EchoInv, Memory, Stale
  <2>2. Memory'
    BY <1>3, <1>5, <1>6, <1>7 DEF Memory, Stale
  <2>3. ASSUME NEW m \in 1 .. said', read'[m] = 1 /\ copies'[m] = 1 /\ overtaken'[text'[m]] = 0
        PROVE  shown'[m] = IF by_irc'[m] /\ reprint'[m] THEN 2 ELSE 1
    <3>1. CASE m = said
      <4>1. overtaken[text[said]] = 0
        BY <1>6, <2>3, <3>1
      <4>2. by_irc[said] /\ ~reprint[said] /\ shown[said] = 1
        BY <2>1, <4>1
      <4> QED BY <1>6, <1>7, <3>1, <4>2
    <3>2. CASE m # said
      <4>1. m \in Ids /\ m \in 1 .. said
        BY <1>6 DEF EchoInv, TypeOK, Ids
      <4> QED
        BY <1>5, <1>6, <1>7, <2>3, <3>2, <4>1 DEF EchoInv, EchoOnce
    <3> QED BY <3>1, <3>2
  <2>4. EchoOnce'
    BY <2>3 DEF EchoOnce
  <2> QED
    BY <1>2, <1>3, <1>5, <1>6, <2>2, <2>4 DEF EchoInv, Place, Copies, TypeOK, ReadBack
<1>8. CASE ~(last_thing_i_said # Nothing /\ text[said] = last_thing_i_said)
           /\ shown' = [shown EXCEPT ![said] = @ + 1] /\ last_thing_i_said' = last_thing_i_said
  <2>1. shown'[said] = shown[said] + 1 /\ \A m \in Ids : m # said => shown'[m] = shown[m]
    BY <1>3, <1>4, <1>8
  <2>2. text[said] \in Texts /\ text[said] # Nothing
    BY <1>3 DEF EchoInv, Spoken
  <2>3. Stale /\ Stale'
    <3>1. Stale
      BY <1>3, <1>5, <1>8, <2>2 DEF EchoInv, Memory, Stale
    <3> QED BY <1>6, <1>8, <3>1 DEF Stale
  <2>7. Memory'
    BY <1>3, <1>5, <1>6, <2>3 DEF Memory
  <2>4. read[said] = 0 => (by_irc[said] => reprint[said])
    BY <1>3, <1>8, <2>2 DEF EchoInv, Memory
  <2>5. ASSUME NEW m \in 1 .. said', read'[m] = 1 /\ copies'[m] = 1 /\ overtaken'[text'[m]] = 0
        PROVE  shown'[m] = IF by_irc'[m] /\ reprint'[m] THEN 2 ELSE 1
    <3>1. CASE m = said
      <4>1. read[said] = 0
        BY <1>5, <2>5, <3>1
      <4>2. shown[said] = IF by_irc[said] THEN 1 ELSE 0
        BY <1>3, <4>1 DEF EchoInv, Memory
      <4> QED
        BY <1>6, <2>1, <2>4, <3>1, <4>1, <4>2
    <3>2. CASE m # said
      <4>1. m \in Ids /\ m \in 1 .. said
        BY <1>6 DEF EchoInv, TypeOK, Ids
      <4> QED
        BY <1>5, <1>6, <2>1, <2>5, <3>2, <4>1 DEF EchoInv, EchoOnce
    <3> QED BY <3>1, <3>2
  <2>6. EchoOnce'
    BY <2>5 DEF EchoOnce
  <2> QED
    BY <1>2, <1>3, <1>5, <1>6, <2>6, <2>7 DEF EchoInv, Place, Copies, TypeOK, ReadBack
<1>9. \/ last_thing_i_said # Nothing /\ text[said] = last_thing_i_said
         /\ last_thing_i_said' = Nothing /\ shown' = shown
      \/ ~(last_thing_i_said # Nothing /\ text[said] = last_thing_i_said)
         /\ shown' = [shown EXCEPT ![said] = @ + 1] /\ last_thing_i_said' = last_thing_i_said
  BY <1>2, OneRead DEF EchoInv
<1> QED
  BY <1>7, <1>8, <1>9

\* The loop goes from one request to the next.
LEMMA EchoMoves ==
  ASSUME EchoInv, ~disturbed, PostRetried \/ WaitIsOver \/ LoggedIn \/ PageIsOver \/ UNCHANGED vars
  PROVE  Place' /\ Copies' /\ Memory' /\ EchoOnce'
<1>1. UNCHANGED <<outgoingmsg, last_thing_i_said, utterance, fate>>
  BY DEF PostRetried, WaitIsOver, LoggedIn, PageIsOver, vars, mainvars
<1>2. UNCHANGED <<said, text, by_irc, unread, copies, read, shown, reprint, overtaken>>
  BY <1>1 DEF utterance, fate, PostRetried, WaitIsOver, LoggedIn, PageIsOver, vars
<1>3. Copies' /\ Memory' /\ EchoOnce'
  BY <1>1, <1>2 DEF EchoInv, Copies, Memory, Stale, EchoOnce
<1>4. Place'
  BY <1>1, <1>2 DEF EchoInv, Place, Copies, NoId, PostRetried, WaitIsOver, LoggedIn, PageIsOver,
                    vars, mainvars
<1> QED
  BY <1>3, <1>4

\* A line that is overtaken leaves its text, which is no message's from then on.
LEMMA EchoOvertaken ==
  ASSUME NEW t \in Texts, EchoInv, ~disturbed, LineOvertaken(t)
  PROVE  Place' /\ Copies' /\ Memory' /\ EchoOnce'
<1>1. /\ UNCHANGED <<state, outgoingmsg, said, text, by_irc, unread, copies, read, shown, reprint>>
      /\ last_thing_i_said' = t /\ overtaken' = [overtaken EXCEPT ![t] = @ + 1]
      /\ state \in {"wait", "login"} /\ outgoingmsg = NoId
  BY DEF LineOvertaken, Said, mainvars, utterance, fate
<1>2. overtaken \in [Texts -> Nat] /\ said \in Nat
  BY DEF EchoInv, TypeOK
<1>3. \A u \in Texts : overtaken'[u] = IF u = t THEN overtaken[u] + 1 ELSE overtaken[u]
  BY <1>1, <1>2
<1>4. Place' /\ Copies'
  BY <1>1 DEF EchoInv, Place, Copies
<1>5. said > 0 => read[said] > 0
  <2> SUFFICES ASSUME said > 0 PROVE read[said] > 0
    OBVIOUS
  <2>1. state = "wait"
    BY <1>1, <1>2 DEF EchoInv, Place, NoId
  <2>2. unread = << >> /\ copies[said] > 0 /\ read[said] + Len(unread) = copies[said]
    BY <2>1 DEF EchoInv, Place, Copies
  <2>3. said \in Ids /\ read[said] \in Nat
    BY <1>2 DEF EchoInv, TypeOK, Ids
  <2> QED BY <2>2, <2>3
<1>6. Stale'
  BY <1>1, <1>2, <1>3 DEF Stale
<1>7. Memory'
  BY <1>1, <1>5, <1>6 DEF Memory
<1>8. EchoOnce'
  <2>1. SUFFICES ASSUME NEW m \in 1 .. said,
                        read[m] = 1 /\ copies[m] = 1 /\ overtaken'[text[m]] = 0
                 PROVE  shown[m] = IF by_irc[m] /\ reprint[m] THEN 2 ELSE 1
    BY <1>1 DEF EchoOnce
  <2>2. m \in Ids BY <1>2 DEF EchoInv, TypeOK, Ids
  <2>3. text[m] \in Texts BY <2>2 DEF EchoInv, Spoken
  <2>4. overtaken[text[m]] = 0 BY <1>2, <1>3, <2>1, <2>3
  <2> QED BY <2>1, <2>4 DEF EchoInv, EchoOnce
<1> QED BY <1>4, <1>7, <1>8

\* Every step keeps the invariant; PostDropped and PollMissed end its promise.
LEMMA EchoStep == EchoInv /\ [Next]_vars => EchoInv'
<1> SUFFICES ASSUME EchoInv, [Next]_vars PROVE EchoInv'
  OBVIOUS
<1>1. TypeOK' /\ Unsaid' /\ Spoken'
  BY NextTypes, UnsaidStep, SpokenStep DEF EchoInv
<1>2. ASSUME ~disturbed' PROVE Place' /\ Copies' /\ Memory' /\ EchoOnce'
  <2>1. ~disturbed /\ ~PostDropped /\ ~PollMissed
    BY <1>2 DEF Next, Say, Posted, PostUnanswered, PostRetried, PostDropped, WaitIsOver,
                PollMissed, LoggedIn, ReadBack, PageIsOver, LineOvertaken, vars
  <2> QED
    BY <2>1, EchoSay, EchoOvertaken, EchoPosted, EchoRead, EchoMoves DEF Next
<1> QED
  BY <1>1, <1>2 DEF EchoInv

\* For any texts and numbers of messages, copies and lines: each message the
\* user sees back is displayed once by the IRC client, or twice after a retry, as
\* long as nothing is refused for good, no poll is missed and no line with its
\* text was overtaken by another of the same recv() (ircserver.c:504-526, 600-608).
THEOREM EchoAlwaysOnce == Spec => []EchoOnce
<1>1. EchoInv => EchoOnce
  BY DEF EchoInv, EchoOnce
<1> QED
  BY <1>1, InitEcho, EchoStep, PTL DEF Spec
-----------------------------------------------------------------------------
\* A text that is remembered was displayed once more than it came back.
Owed(t)  == IF last_thing_i_said = t THEN 1 ELSE 0
Balanced == \A t \in Texts : displayed[t] >= returned[t] + Owed(t)

BalanceInv == TypeOK /\ Spoken /\ Balanced

\* A line of the client adds to what was displayed what it adds to what is owed.
LEMMA BalanceSay ==
  ASSUME BalanceInv, NEW t \in Texts, NEW irc \in BOOLEAN, Say(t, irc), NEW u \in Texts
  PROVE  displayed'[u] >= returned'[u] + Owed(u)'
<1>1. displayed \in [Texts -> Nat] /\ returned \in [Texts -> Nat]
      /\ displayed[u] >= returned[u] + Owed(u)
  BY DEF BalanceInv, TypeOK, Balanced
<1>2. returned' = returned
  BY DEF Say
<1>3. CASE irc
  <2>1. last_thing_i_said' = t /\ displayed' = [displayed EXCEPT ![t] = @ + 1]
    BY <1>3 DEF Say, Said, Displayed
  <2>2. displayed'[u] = IF u = t THEN displayed[u] + 1 ELSE displayed[u]
    BY <1>1, <2>1
  <2> QED
    BY <1>1, <1>2, <2>1, <2>2 DEF Owed
<1>4. CASE ~irc
  <2>1. UNCHANGED <<last_thing_i_said, displayed>>
    BY <1>4 DEF Say
  <2> QED
    BY <1>1, <1>2, <2>1 DEF Owed
<1> QED
  BY <1>3, <1>4

\* So does one that is overtaken.
LEMMA BalanceOvertaken ==
  ASSUME BalanceInv, NEW t \in Texts, LineOvertaken(t), NEW u \in Texts
  PROVE  displayed'[u] >= returned'[u] + Owed(u)'
<1>1. displayed \in [Texts -> Nat] /\ returned \in [Texts -> Nat]
      /\ displayed[u] >= returned[u] + Owed(u)
  BY DEF BalanceInv, TypeOK, Balanced
<1>2. /\ last_thing_i_said' = t /\ displayed' = [displayed EXCEPT ![t] = @ + 1]
      /\ returned' = returned
  BY DEF LineOvertaken, Said, Displayed
<1>3. displayed'[u] = IF u = t THEN displayed[u] + 1 ELSE displayed[u]
  BY <1>1, <1>2
<1> QED
  BY <1>1, <1>2, <1>3 DEF Owed

\* A text that comes back is displayed again, or settles what is owed of it.
LEMMA BalanceRead ==
  ASSUME BalanceInv, ReadBack, NEW u \in Texts
  PROVE  displayed'[u] >= returned'[u] + Owed(u)'
<1>1. displayed \in [Texts -> Nat] /\ returned \in [Texts -> Nat]
      /\ displayed[u] >= returned[u] + Owed(u) /\ TypeOK
  BY DEF BalanceInv, TypeOK, Balanced
<1>2. PICK t : /\ returned' = [returned EXCEPT ![t] = @ + 1]
               /\ \/ last_thing_i_said = t /\ last_thing_i_said' = Nothing
                     /\ displayed' = displayed
                  \/ /\ displayed' = [displayed EXCEPT ![t] = @ + 1]
                     /\ last_thing_i_said' = last_thing_i_said
  BY <1>1, OneRead
<1>3. returned'[u] = IF u = t THEN returned[u] + 1 ELSE returned[u]
  BY <1>1, <1>2
<1>4. CASE last_thing_i_said = t /\ last_thing_i_said' = Nothing /\ displayed' = displayed
  BY <1>1, <1>3, <1>4, EchoAssumption DEF Owed
<1>5. CASE /\ displayed' = [displayed EXCEPT ![t] = @ + 1]
           /\ last_thing_i_said' = last_thing_i_said
  <2>1. displayed'[u] = IF u = t THEN displayed[u] + 1 ELSE displayed[u]
    BY <1>1, <1>5
  <2> QED
    BY <1>1, <1>3, <1>5, <2>1 DEF Owed
<1> QED
  BY <1>2, <1>4, <1>5

\* Every other step forgets at most what is owed.
LEMMA BalanceStep == BalanceInv /\ [Next]_vars => BalanceInv'
<1> SUFFICES ASSUME BalanceInv, [Next]_vars PROVE BalanceInv'
  OBVIOUS
<1>1. TypeOK' /\ Spoken'
  BY NextTypes, SpokenStep DEF BalanceInv
<1>2. ASSUME NEW u \in Texts PROVE displayed'[u] >= returned'[u] + Owed(u)'
  <2>1. displayed[u] \in Nat /\ returned[u] \in Nat /\ displayed[u] >= returned[u] + Owed(u)
    BY DEF BalanceInv, TypeOK, Balanced
  <2>2. CASE Posted
    <3>1. last_thing_i_said' \in {last_thing_i_said, Nothing} /\ UNCHANGED <<displayed, returned>>
      BY <2>2 DEF Posted, WillReprint, totals
    <3> QED
      BY <2>1, <3>1, EchoAssumption DEF Owed
  <2>3. CASE PostUnanswered \/ PostRetried \/ PostDropped \/ WaitIsOver \/ PollMissed
             \/ LoggedIn \/ PageIsOver \/ UNCHANGED vars
    <3>1. UNCHANGED <<last_thing_i_said, displayed, returned>>
      BY <2>3 DEF PostUnanswered, PostRetried, PostDropped, WaitIsOver, PollMissed,
                  LoggedIn, PageIsOver, vars, totals
    <3> QED
      BY <2>1, <3>1 DEF Owed
  <2> QED
    BY <2>2, <2>3, BalanceSay, BalanceOvertaken, BalanceRead DEF Next
<1> QED
  BY <1>1, <1>2 DEF BalanceInv, Balanced

\* For any texts and numbers of messages and copies, and whatever is refused,
\* unanswered or missed: no text is displayed less often than it came back, since
\* what irc_message() keeps back is owed by a line of the client
\* (ircserver.c:509-520).
THEOREM TextAlwaysSeen == Spec => []TextIsSeen
<1>1. Init => BalanceInv
  <2> SUFFICES ASSUME Init PROVE BalanceInv
    OBVIOUS
  <2>1. TypeOK /\ Spoken
    BY InitEcho DEF EchoInv
  <2>2. ASSUME NEW t \in Texts PROVE displayed[t] >= returned[t] + Owed(t)
    <3>1. displayed[t] = 0 /\ returned[t] = 0 /\ last_thing_i_said = Nothing
      BY DEF Init
    <3>2. Owed(t) = 0
      BY <3>1, EchoAssumption DEF Owed
    <3> QED
      BY <3>1, <3>2
  <2> QED
    BY <2>1, <2>2 DEF BalanceInv, Balanced
<1>2. BalanceInv => TextIsSeen
  <2> SUFFICES ASSUME BalanceInv, NEW t \in Texts PROVE displayed[t] >= returned[t]
    BY DEF TextIsSeen
  <2>1. displayed[t] \in Nat /\ returned[t] \in Nat
    BY DEF BalanceInv, TypeOK
  <2>2. displayed[t] >= returned[t] + Owed(t) /\ Owed(t) \in {0, 1}
    BY DEF BalanceInv, Balanced, Owed
  <2> QED
    BY <2>1, <2>2
<1> QED
  BY <1>1, <1>2, BalanceStep, PTL DEF Spec
=============================================================================
