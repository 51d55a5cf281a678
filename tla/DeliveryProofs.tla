--------------------------- MODULE DeliveryProofs ---------------------------
(***************************************************************************)
(* Delivery's safety properties and its refinement of Journal, for any     *)
(* window and number of messages, when identifiers have the same width.    *)
(***************************************************************************)
EXTENDS Delivery, SequenceTheorems, WellFoundedInduction, TLAPS

(* Identifiers.                                                            *)

LEMMA LoggedAppend ==
  ASSUME NEW S, NEW s \in Seq(S), NEW m \in S
  PROVE  LET t == Append(s, m)
         IN  {t[i] : i \in 1 .. Len(t)} = {s[i] : i \in 1 .. Len(s)} \cup {m}
OBVIOUS

LEMMA IsIdentifier ==
  ASSUME NEW t
  PROVE  t \in Identifiers <=> t \in Seq(Digit) /\ Len(t) <= Width
<1> USE DeliveryAssumption DEF Identifiers
<1>1. ASSUME t \in Identifiers PROVE t \in Seq(Digit) /\ Len(t) <= Width
  <2>1. PICK w \in 0 .. Width : t \in [1 .. w -> Digit] BY <1>1
  <2> QED BY <2>1
<1>2. ASSUME t \in Seq(Digit), Len(t) <= Width PROVE t \in Identifiers
  <2>1. Len(t) \in 0 .. Width /\ t \in [1 .. Len(t) -> Digit] BY <1>2
  <2> QED BY <2>1
<1> QED BY <1>1, <1>2

LEMMA TextIs ==
  ASSUME NEW m \in 1 .. MaxMsg
  PROVE  Text(m) \in Seq(Digit) /\ Len(Text(m)) <= Width /\ Value(Text(m)) = m
BY DeliveryAssumption, IsIdentifier

\* What is left of two identifiers, digit by digit.
LEMMA OverwriteIs ==
  ASSUME NEW t \in Seq(Digit), NEW u \in Seq(Digit), NEW n \in 1 .. Len(u)
  PROVE  LET x == Overwrite(t, u, n)
         IN  /\ x \in Seq(Digit)
             /\ Len(x) = (IF n > Len(t) THEN n ELSE Len(t))
             /\ \A i \in 1 .. Len(x) : x[i] = IF i <= n THEN u[i] ELSE t[i]
<1> DEFINE a == SubSeq(u, 1, n)
           b == SubSeq(t, n + 1, Len(t))
<1>1. a \in Seq(Digit) /\ Len(a) = n /\ \A i \in 1 .. n : a[i] = u[i]
  OBVIOUS
<1>2. b \in Seq(Digit) /\ Len(b) = (IF n > Len(t) THEN 0 ELSE Len(t) - n)
      /\ \A i \in 1 .. Len(b) : b[i] = t[i + n]
  OBVIOUS
<1>3. Overwrite(t, u, n) = a \o b BY DEF Overwrite
<1> HIDE DEF a, b
<1>4. a \o b \in Seq(Digit) /\ Len(a \o b) = Len(a) + Len(b)
      /\ \A i \in 1 .. Len(a) + Len(b) : (a \o b)[i] = IF i <= Len(a) THEN a[i] ELSE b[i - Len(a)]
  <2>1. a \in Seq(Digit) /\ b \in Seq(Digit) BY <1>1, <1>2
  <2> QED BY <2>1, ConcatProperties
<1>5. \A i \in n + 1 .. Len(t) : b[i - n] = t[i]
  <2> TAKE i \in n + 1 .. Len(t)
  <2>1. n \in Nat /\ Len(t) \in Nat /\ i \in Int OBVIOUS
  <2>2. i - n \in 1 .. Len(b) /\ (i - n) + n = i BY <1>2, <2>1
  <2>3. b[i - n] = t[(i - n) + n] BY <1>2, <2>2
  <2> QED BY <2>2, <2>3
<1> QED BY <1>1, <1>2, <1>3, <1>4, <1>5

LEMMA OverwriteIsIdentifier ==
  ASSUME NEW t \in Identifiers, NEW m \in 1 .. MaxMsg, NEW n \in 1 .. Len(Text(m))
  PROVE  Overwrite(t, Text(m), n) \in Identifiers
<1>1. t \in Seq(Digit) /\ Len(t) <= Width /\ Text(m) \in Seq(Digit) /\ Len(Text(m)) <= Width
  BY IsIdentifier, TextIs
<1>2. Overwrite(t, Text(m), n) \in Seq(Digit)
      /\ Len(Overwrite(t, Text(m), n)) = (IF n > Len(t) THEN n ELSE Len(t))
  BY <1>1, OverwriteIs
<1>3. Len(Overwrite(t, Text(m), n)) <= Width
  <2>1. n \in Nat /\ n <= Len(Text(m)) /\ Len(Text(m)) \in Nat /\ Len(t) \in Nat /\ Width \in Nat
    BY <1>1, DeliveryAssumption
  <2> QED BY <1>1, <1>2, <2>1
<1> QED BY <1>2, <1>3, IsIdentifier

LEMMA AskedIs == Asked \in Nat /\ (Value(msgid) \in Int => Value(msgid) <= Asked)
BY DEF Asked

\* Numbers have a least one.
LEMMA LeastNumber ==
  ASSUME NEW T, T \subseteq Nat, T # {}
  PROVE  \E i \in T : \A h \in T : i <= h
<1> DEFINE R == {p \in Nat \X Nat : p[1] < p[2]}
<1>1. IsWellFoundedOn(R, Nat)
  BY NatLessThanWellFounded DEF OpToRel
<1>2. \E i \in T : \A h \in T : ~(<<h, i>> \in R)
  <2> HIDE DEF R
  <2> QED BY <1>1, WFMin
<1>3. PICK i \in T : \A h \in T : ~(<<h, i>> \in R)
  BY <1>2
<1>4. ASSUME NEW h \in T PROVE i <= h
  <2>1. i \in Nat /\ h \in Nat OBVIOUS
  <2>2. ~(h < i) BY <1>3, <2>1
  <2> QED BY <2>1, <2>2
<1> QED BY <1>3, <1>4

\* Identifiers of one width compare as the messages do.
LEMMA Order ==
  ASSUME SameWidth
  PROVE  /\ \A m, k \in 1 .. MaxMsg : Newer(m, k) <=> m > k
         /\ \A m \in 1 .. MaxMsg : Text(m) \in [1 .. Width -> Digit]
<1>1. \A m \in 1 .. MaxMsg : Text(m) \in [1 .. Width -> Digit] /\ Value(Text(m)) = m
  BY TextIs DEF SameWidth
<1> QED BY <1>1 DEF SameWidth, Newer

\* What lies between an identifier and a mix that begins with n of its digits
\* begins with them too.
LEMMA Between ==
  ASSUME SameWidth, NEW m \in 1 .. MaxMsg, NEW i \in m .. MaxMsg,
         NEW t \in Identifiers, NEW n \in 1 .. Len(Text(m)),
         i <= Value(Overwrite(t, Text(m), n))
  PROVE  SubSeq(Text(i), 1, n) = SubSeq(Text(m), 1, n)
<1> DEFINE u == Text(m)
           v == Text(i)
           x == Overwrite(t, u, n)
<1>1. /\ Len(u) = Width /\ Len(v) = Width /\ u \in Seq(Digit) /\ v \in Seq(Digit)
      /\ u \in [1 .. Width -> Digit] /\ v \in [1 .. Width -> Digit]
      /\ Value(u) = m /\ Value(v) = i
  BY TextIs, Order DEF SameWidth
<1>2. x \in Identifiers /\ t \in Seq(Digit) /\ Len(t) <= Width
  BY OverwriteIsIdentifier, IsIdentifier
<1>3. /\ x \in Seq(Digit)
      /\ Len(x) = (IF n > Len(t) THEN n ELSE Len(t))
      /\ \A d \in 1 .. Len(x) : x[d] = IF d <= n THEN u[d] ELSE t[d]
  BY <1>1, <1>2, OverwriteIs
<1>4. Len(x) = Width
  <2>1. ~(Value(x) < 1) BY <1>2, DeliveryAssumption
  <2>2. ~(Len(x) < Width) BY <1>2, <2>1 DEF SameWidth
  <2> QED BY <1>1, <1>2, <1>3, <2>2
<1>5. x \in [1 .. Width -> Digit] BY <1>3, <1>4
<1> HIDE DEF x
<1>6. ~StrAfter(v, x)
  <2>1. ~(i > Value(x)) BY <1>2, DeliveryAssumption DEF x
  <2> QED BY <1>1, <1>5, <2>1 DEF SameWidth
<1>7. ~StrAfter(u, v)
  BY <1>1 DEF SameWidth
<1> HIDE DEF u, v
<1> DEFINE T == {d \in 1 .. n : u[d] # v[d]}
<1>8. T = {}
  <2>1. SUFFICES ASSUME T # {} PROVE FALSE OBVIOUS
  <2>2. T \subseteq Nat BY <1>1 DEF u
  <2>3. PICK d \in T : \A h \in T : d <= h
    <3> HIDE DEF T
    <3> QED BY <2>1, <2>2, LeastNumber
  <2>4. d \in 1 .. n /\ u[d] # v[d] /\ \A h \in 1 .. d - 1 : u[h] = v[h]
    BY <2>3
  <2>5. n \in 1 .. Width BY <1>1 DEF u
  <2>6. u[d] \in Nat /\ v[d] \in Nat
    <3>1. d \in 1 .. Width BY <2>4, <2>5, DeliveryAssumption
    <3>2. u[d] \in Digit /\ v[d] \in Digit BY <1>1, <3>1 DEF u, v
    <3> QED BY <3>2, DeliveryAssumption
  <2>7. x[d] = u[d] /\ \A h \in 1 .. d - 1 : x[h] = u[h]
    BY <1>3, <1>4, <2>4, <2>5
  <2>8. CASE v[d] > u[d]
    <3>1. StrAfter(v, x)
      BY <1>1, <1>4, <2>4, <2>5, <2>7, <2>8 DEF StrAfter
    <3> QED BY <1>6, <3>1
  <2>9. CASE u[d] > v[d]
    <3>1. StrAfter(u, v)
      BY <1>1, <2>4, <2>5, <2>9 DEF StrAfter
    <3> QED BY <1>7, <3>1
  <2> QED BY <2>4, <2>6, <2>8, <2>9
<1>9. \A d \in 1 .. n : u[d] = v[d] BY <1>8
<1>10. n \in 1 .. Width BY <1>1 DEF u
<1>11. SubSeq(u, 1, n) = SubSeq(v, 1, n)
  BY <1>1, <1>9, <1>10
<1> QED BY <1>11 DEF u, v

\* A message past what was asked for leaves, once cut, no older request.
LEMMA MixUp ==
  ASSUME SameWidth, NEW t \in Identifiers, NEW m \in 1 .. MaxMsg,
         m > Value(t), NEW n \in 1 .. Len(Text(m)), Value(t) > 0
  PROVE  Value(Overwrite(t, Text(m), n)) >= Value(t)
<1> DEFINE u == Text(m)
           x == Overwrite(t, u, n)
<1>1. Value(t) \in Int /\ x \in Identifiers /\ Value(x) \in Int
  BY OverwriteIsIdentifier, DeliveryAssumption
<1>2. t \in Seq(Digit) /\ Len(t) = Width
  <2>1. t \in Seq(Digit) /\ Len(t) <= Width BY IsIdentifier
  <2>2. ~(Len(t) < Width) BY <1>1 DEF SameWidth
  <2> QED BY <2>1, <2>2, DeliveryAssumption
<1>3. u \in Seq(Digit) /\ Len(u) = Width /\ u \in [1 .. Width -> Digit] /\ Value(u) = m
  BY TextIs, Order DEF SameWidth
<1>4. /\ x \in Seq(Digit) /\ Len(x) = Width
      /\ \A d \in 1 .. Width : x[d] = IF d <= n THEN u[d] ELSE t[d]
  <2>1. n \in 1 .. Width BY <1>3
  <2>2. /\ x \in Seq(Digit)
        /\ Len(x) = (IF n > Len(t) THEN n ELSE Len(t))
        /\ \A d \in 1 .. Len(x) : x[d] = IF d <= n THEN u[d] ELSE t[d]
    BY <1>2, <1>3, OverwriteIs
  <2> QED BY <1>2, <2>1, <2>2
<1>5. t \in [1 .. Width -> Digit] /\ x \in [1 .. Width -> Digit]
  BY <1>2, <1>4
<1>6. ~StrAfter(t, u)
  BY <1>1, <1>3, <1>5 DEF SameWidth
<1> HIDE DEF x, u
<1>7. ~StrAfter(t, x)
  <2>1. SUFFICES ASSUME StrAfter(t, x) PROVE StrAfter(t, u) BY <1>6
  <2>2. PICK d \in 1 .. Len(t) :
          /\ \A h \in 1 .. d - 1 : h <= Len(x) /\ t[h] = x[h]
          /\ d > Len(x) \/ t[d] > x[d]
    BY <2>1 DEF StrAfter
  <2>3. d \in 1 .. Width /\ t[d] \in Nat /\ t[d] > x[d]
    <3>1. d \in 1 .. Width BY <1>2, <2>2
    <3>2. t[d] \in Digit BY <1>5, <3>1
    <3>3. ~(d > Width) BY <3>1, DeliveryAssumption
    <3>4. t[d] \in Nat BY <3>2, DeliveryAssumption
    <3> QED BY <1>4, <2>2, <3>1, <3>3, <3>4
  <2>4. d <= n BY <1>3, <1>4, <2>3 DEF u
  <2>5. x[d] = u[d] /\ \A h \in 1 .. d - 1 : x[h] = u[h]
    BY <1>3, <1>4, <2>3, <2>4 DEF u
  <2> QED BY <1>2, <1>3, <1>4, <2>2, <2>3, <2>5 DEF StrAfter
<1>8. ~(Value(t) > Value(x))
  BY <1>5, <1>7 DEF SameWidth
<1> QED BY <1>1, <1>8 DEF x, u
-----------------------------------------------------------------------------
LEMMA InitIdentifier == << >> \in Identifiers
<1>1. << >> \in Seq(Digit) /\ Len(<< >>) <= Width BY DeliveryAssumption
<1> QED BY <1>1, IsIdentifier

LEMMA Interval ==
  ASSUME NEW a \in Nat, NEW b \in Nat, NEW c \in Nat, b <= c
  PROVE  a + 1 .. b \subseteq 1 .. c
OBVIOUS

LEMMA ShorterInterval ==
  ASSUME NEW a \in Nat, NEW b \in Nat, NEW c \in Nat, c >= a
  PROVE  c + 1 .. b \subseteq a + 1 .. b
OBVIOUS

LEMMA ElementIn == ASSUME NEW S, NEW s \in Seq(S), NEW i \in 1 .. Len(s) PROVE s[i] \in S
OBVIOUS

\* What a page that is cut, in an identifier or not, leaves.
Cut == CutBetween \/ CutWithin

LEMMA CutIs ==
  ASSUME TypeOK, Cut
  PROVE  /\ Reading /\ next <= upto /\ next \in 1 .. head /\ state' = "WATCH"
         /\ UNCHANGED <<head, next, upto, know_msgid, log, shown, gone, logins>>
         /\ msgid' \in Identifiers /\ Asked' \in Nat
         /\ again' = again \cup (IF state = "GET_THE_BACKLOG" THEN Asked' + 1 .. know_msgid ELSE {})
         /\ torn \subseteq torn' /\ torn' \subseteq 1 .. MaxMsg
<1> USE DEF TypeOK
<1>1. Asked' \in Nat BY DEF Asked
<1>2. CASE CutBetween
  BY <1>1, <1>2 DEF CutBetween, pagevars, LeftAgain
<1>3. CASE CutWithin
  <2>1. /\ Reading /\ next <= upto /\ next \in 1 .. head /\ next \in 1 .. MaxMsg
        /\ state' = "WATCH"
        /\ UNCHANGED <<head, next, upto, know_msgid, log, shown, gone, logins>>
    BY <1>3, DeliveryAssumption DEF CutWithin, pagevars
  <2>2. again' = again \cup (IF state = "GET_THE_BACKLOG" THEN Asked' + 1 .. know_msgid ELSE {})
    BY <1>3 DEF CutWithin, LeftAgain
  <2>3. PICK n \in 1 .. Len(Text(next)) :
          /\ \/ msgid' = Overwrite(msgid, Text(next), n)
             \/ n = Len(Text(next)) /\ msgid' = Text(next)
          /\ torn' = torn \cup Passed(next, n)
    BY <1>3 DEF CutWithin
  <2>4. msgid' \in Identifiers
    BY <2>1, <2>3, OverwriteIsIdentifier, DeliveryAssumption
  <2>5. Passed(next, n) \subseteq 1 .. MaxMsg
    BY <2>1 DEF Passed
  <2> QED BY <1>1, <2>1, <2>2, <2>3, <2>4, <2>5
<1> QED BY <1>2, <1>3 DEF Cut

\* Every step of the program or of the forum keeps the types.
LEMMA TypeStep == ASSUME TypeOK, [Next]_vars PROVE TypeOK'
<1> USE DeliveryAssumption DEF TypeOK
<1>1. CASE UNCHANGED vars
  BY <1>1 DEF vars, pagevars
<1>2. CASE Post
  <2>1. head' = head + 1 /\ head' <= MaxMsg BY <1>2 DEF Post
  <2>2. log' \in Seq(1 .. head')
    <3>1. 1 .. head \subseteq 1 .. head' BY <2>1
    <3>2. log' = log BY <1>2 DEF Post
    <3>3. log \in Seq(1 .. head') BY <3>1, SeqMonotonic
    <3> QED BY <3>2, <3>3
  <2> QED BY <1>2, <2>1, <2>2 DEF Post, pagevars
<1>3. CASE Refused \/ EndPage \/ BacklogMissed
  BY <1>3 DEF Refused, EndPage, BacklogMissed, pagevars
<1>4. CASE GetTheBacklog
  BY <1>4 DEF GetTheBacklog, Oldest
<1>5. CASE WatchNewMessages
  <2>1. AskFrom \in Nat \ {0} BY AskedIs DEF AskFrom
  <2> QED BY <1>5, <2>1 DEF WatchNewMessages
<1>6. CASE ReadMessage
  <2>1. next \in 1 .. head /\ next \in 1 .. MaxMsg BY <1>6 DEF ReadMessage
  <2>2. log' \in Seq(1 .. head)
    <3>1. log' \in {log, Append(log, next)} BY <1>6 DEF ReadMessage, minichat_message
    <3>2. Append(log, next) \in Seq(1 .. head) BY <2>1
    <3> QED BY <1>6, <3>1, <3>2 DEF ReadMessage
  <2>3. know_msgid' \in 0 .. head
    BY <1>6, <2>1 DEF ReadMessage, minichat_message, StillKnown
  <2> QED BY <1>6, <2>1, <2>2, <2>3 DEF ReadMessage, minichat_message
<1>7. CASE CutBetween \/ CutWithin
  <2>1. /\ next \in 1 .. head /\ state' = "WATCH"
        /\ UNCHANGED <<head, next, upto, know_msgid, log, shown, gone, logins>>
        /\ msgid' \in Identifiers /\ Asked' \in Nat
        /\ again' = again \cup (IF state = "GET_THE_BACKLOG" THEN Asked' + 1 .. know_msgid ELSE {})
        /\ torn' \subseteq 1 .. MaxMsg
    BY <1>7, CutIs DEF Cut
  <2>2. Asked' + 1 .. know_msgid \subseteq 1 .. head
    <3>1. know_msgid \in Nat /\ head \in Nat /\ know_msgid <= head OBVIOUS
    <3> QED BY <2>1, <3>1, Interval
  <2>3. again' \subseteq 1 .. head BY <2>1, <2>2
  <2> QED BY <2>1, <2>3
<1> QED BY <1>1, <1>2, <1>3, <1>4, <1>5, <1>6, <1>7 DEF Next

LEMMA TypeInit == Init => TypeOK
BY DeliveryAssumption, InitIdentifier DEF Init, TypeOK

\* What is read and known never exceeds what was posted, though what an
\* identifier that was cut stands for may (parsehtml.c:174-183).
THEOREM TypeCorrect == Spec => []TypeOK
BY TypeInit, TypeStep, PTL DEF Spec
-----------------------------------------------------------------------------
(* No message is skipped but by an identifier that was cut.                *)

\* Whatever is below an identifier the program holds was logged, gone or
\* asked past because of a cut.
Behind(n) == \A m \in 1 .. MaxMsg : m <= n => m \in Logged \cup gone \cup torn

CoverInv ==
  /\ TypeOK
  /\ Behind(Asked) /\ Behind(know_msgid)
  /\ Reading => Behind(next - 1)
  /\ \A m \in gone : m <= head - Window
  /\ state = "GET_THE_BACKLOG" => \A m \in gone : m < next

LEMMA StillBehind ==
  ASSUME NEW h \in Int, NEW i \in Int, NEW w \in Int, NEW m \in Int, i >= h, m <= h - w
  PROVE  m <= i - w
OBVIOUS

LEMMA CoverCut ==
  ASSUME SameWidth, CoverInv, Cut
  PROVE  Behind(Asked)'
<1>1. TypeOK /\ Reading /\ Behind(next - 1) /\ Behind(Asked)
  BY CutIs DEF CoverInv
<1>2. /\ next \in 1 .. head /\ next \in 1 .. MaxMsg /\ torn \subseteq torn'
      /\ log' = log /\ gone' = gone /\ Asked' \in Nat
  BY <1>1, CutIs, DeliveryAssumption DEF TypeOK
<1>3. Logged' = Logged BY <1>2 DEF Logged
<1>4. CASE CutBetween
  <2>1. msgid' = msgid BY <1>4 DEF CutBetween
  <2>2. Asked' = Asked BY <2>1 DEF Asked
  <2> QED BY <1>1, <1>2, <1>3, <2>2 DEF Behind
<1>5. CASE CutWithin
  <2>1. PICK n \in 1 .. Len(Text(next)) :
          /\ \/ msgid' = Overwrite(msgid, Text(next), n)
             \/ n = Len(Text(next)) /\ msgid' = Text(next)
          /\ torn' = torn \cup Passed(next, n)
    BY <1>5 DEF CutWithin
  <2>2. SUFFICES ASSUME NEW m \in 1 .. MaxMsg, m <= Asked'
                 PROVE  m \in Logged \cup gone \cup torn'
    BY <1>2, <1>3 DEF Behind
  <2>3. CASE m < next
    BY <1>1, <1>2, <2>3 DEF Behind
  <2>4. CASE m >= next
    <3>1. m \in next .. MaxMsg BY <1>2, <2>4
    <3>2. m <= Value(msgid')
      BY <2>2 DEF Asked
    <3>3. SubSeq(Text(m), 1, n) = SubSeq(Text(next), 1, n)
      <4>1. CASE msgid' = Overwrite(msgid, Text(next), n)
        <5>1. msgid \in Identifiers BY <1>1 DEF TypeOK
        <5> QED BY <1>2, <3>1, <3>2, <4>1, <5>1, Between
      <4>2. CASE msgid' = Text(next)
        <5>1. m = next BY <1>2, <3>1, <3>2, <4>2, DeliveryAssumption
        <5> QED BY <5>1
      <4> QED BY <2>1, <4>1, <4>2
    <3>4. m \in Passed(next, n) BY <2>2, <3>1, <3>3 DEF Passed
    <3> QED BY <2>1, <3>4
  <2> QED BY <1>2, <2>3, <2>4
<1> QED BY <1>4, <1>5 DEF Cut

LEMMA CoverStep ==
  ASSUME SameWidth, CoverInv, [Next]_vars
  PROVE  CoverInv'
<1> USE DeliveryAssumption DEF CoverInv, Behind, Reading
<1>0. TypeOK' BY TypeStep
<1>1. CASE UNCHANGED vars
  BY <1>0, <1>1 DEF vars, pagevars, Logged, Asked
<1>2. CASE Post \/ Refused \/ EndPage \/ BacklogMissed \/ Cut
  <2>1. /\ UNCHANGED <<next, upto, know_msgid, log, gone>>
        /\ head' >= head /\ (state' = state \/ state' \in {"LOGIN", "WATCH"})
        /\ torn \subseteq torn'
    <3>1. CASE Cut
      <4> HIDE DEF CoverInv, Reading
      <4>1. TypeOK BY DEF CoverInv
      <4>2. head' = head /\ head \in Nat BY <3>1, <4>1, CutIs DEF TypeOK
      <4> QED BY <3>1, <4>1, <4>2, CutIs
    <3>2. CASE Post \/ Refused \/ EndPage \/ BacklogMissed
      BY <3>2 DEF Post, Refused, EndPage, BacklogMissed, TypeOK, pagevars
    <3> QED BY <1>2, <3>1, <3>2
  <2>2. log' = log /\ next' = next /\ know_msgid' = know_msgid /\ gone' = gone BY <2>1
  <2>3. Logged' = Logged BY <2>2 DEF Logged
  <2>4. Reading' => Reading /\ state' = state BY <2>1
  <2>5. Behind(Asked)'
    <3>1. CASE Cut
      <4> HIDE DEF CoverInv, Behind
      <4> QED BY <3>1, CoverCut
    <3>2. CASE Post \/ Refused \/ EndPage \/ BacklogMissed
      <4>1. msgid' = msgid BY <3>2 DEF Post, Refused, EndPage, BacklogMissed
      <4>2. Asked' = Asked BY <4>1 DEF Asked
      <4> QED BY <2>1, <2>2, <2>3, <4>2
    <3> QED BY <1>2, <3>1, <3>2
  <2>6. \A m \in gone' : m <= head' - Window
    <3> SUFFICES ASSUME NEW m \in gone PROVE m <= head' - Window
      BY <2>2
    <3>1. head \in Int /\ head' \in Int /\ m \in Int /\ Window \in Int
      BY <1>0 DEF TypeOK
    <3>2. head' >= head BY <2>1
    <3>3. m <= head - Window OBVIOUS
    <3> QED BY ONLY <3>1, <3>2, <3>3, StillBehind
  <2>7. Behind(know_msgid)'
    BY <2>1, <2>2, <2>3
  <2> HIDE DEF Reading
  <2>8. Reading' => Behind(next - 1)'
    BY <2>1, <2>2, <2>3, <2>4
  <2>9. state' = "GET_THE_BACKLOG" => \A m \in gone' : m < next'
    BY <2>1, <2>2
  <2> QED BY <1>0, <2>5, <2>6, <2>7, <2>8, <2>9
<1>3. CASE GetTheBacklog
  <2>1. Logged' = Logged /\ Asked' = Asked BY <1>3 DEF GetTheBacklog, Logged, Asked
  <2>2. \A m \in gone' : m <= head' - Window
    BY <1>3 DEF GetTheBacklog, TypeOK
  <2>3. \A m \in gone' : m < next'
    BY <1>3, <2>2 DEF GetTheBacklog, Oldest, TypeOK
  <2>4. \A m \in 1 .. MaxMsg : m <= next' - 1 => m \in gone'
    BY <1>3 DEF GetTheBacklog, Oldest, TypeOK
  <2>5. /\ state' = "GET_THE_BACKLOG" /\ know_msgid' = know_msgid /\ torn' = torn
        /\ gone \subseteq gone'
    BY <1>3 DEF GetTheBacklog
  <2>6. Behind(Asked)' /\ Behind(know_msgid)' BY <2>1, <2>5
  <2>7. Behind(next - 1)' BY <2>4
  <2> QED BY <1>0, <2>2, <2>3, <2>6, <2>7
<1>4. CASE WatchNewMessages
  <2>1. Logged' = Logged /\ Asked' = Asked BY <1>4 DEF WatchNewMessages, Logged, Asked
  <2>2. next' - 1 = Asked
    <3>1. next' = Asked + 1 BY <1>4 DEF WatchNewMessages, AskFrom
    <3> QED BY <3>1, AskedIs
  <2> QED BY <1>0, <1>4, <2>1, <2>2 DEF WatchNewMessages
<1>5. CASE ReadMessage
  <2>1. /\ next \in 1 .. head /\ next \in 1 .. MaxMsg
        /\ next \notin gone \/ state = "WATCHING_NEW_MESSAGES"
        /\ Behind(next - 1)
    BY <1>5 DEF ReadMessage, TypeOK
  <2>2. Logged \subseteq Logged'
    BY <1>5, <2>1, LoggedAppend DEF ReadMessage, minichat_message, Logged, TypeOK
  <2>3. next \in Logged' \cup torn
    <3>1. CASE IsLogged(StillKnown(next))
      BY <1>5, <2>1, <3>1, LoggedAppend DEF ReadMessage, minichat_message, Logged, TypeOK
    <3>2. CASE ~IsLogged(StillKnown(next))
      <4>1. next <= know_msgid /\ state = "GET_THE_BACKLOG"
        BY <2>1, <3>2, Order DEF IsLogged, StillKnown, TypeOK
      <4>2. next \in Logged \cup torn BY <2>1, <4>1 DEF TypeOK
      <4> QED BY <2>2, <4>2
    <3> QED BY <3>1, <3>2
  <2>4. know_msgid' \in {know_msgid, next}
    BY <1>5 DEF ReadMessage, minichat_message, StillKnown
  <2>5. \A m \in 1 .. MaxMsg : m <= next => m \in Logged' \cup gone \cup torn
    BY <2>1, <2>2, <2>3 DEF TypeOK
  <2>6. /\ UNCHANGED <<head, state, gone, torn>>
        /\ next' = next + 1 /\ next' - 1 = next /\ msgid' = Text(next)
    BY <1>5, <2>1 DEF ReadMessage
  <2>7. Asked' = next
    BY <2>1, <2>6 DEF Asked
  <2>8. Behind(know_msgid)' BY <2>2, <2>4, <2>5, <2>6
  <2>9. Behind(Asked)' /\ Behind(next - 1)' BY <2>5, <2>6, <2>7
  <2>10. \A m \in gone' : m <= head' - Window BY <2>6
  <2>11. state' = "GET_THE_BACKLOG" => \A m \in gone' : m < next'
    BY <2>1, <2>6 DEF TypeOK
  <2> QED BY <1>0, <2>8, <2>9, <2>10, <2>11
<1> QED BY <1>1, <1>2, <1>3, <1>4, <1>5 DEF Next, Cut

\* No message is asked past at first.
LEMMA InitAsked == ASSUME SameWidth, Init PROVE Asked = 0
<1>1. Len(<< >>) = 0 /\ << >> \in Identifiers BY InitIdentifier
<1>2. Value(<< >>) \in Int /\ Value(<< >>) < 1
  BY <1>1, DeliveryAssumption DEF SameWidth
<1> QED BY <1>2 DEF Init, Asked

LEMMA CoverInit == ASSUME SameWidth, Init PROVE CoverInv
<1>1. TypeOK BY TypeInit
<1>2. Behind(0) BY DEF Behind
<1> QED BY <1>1, <1>2, InitAsked DEF Init, CoverInv, Reading

LEMMA CoverAlways == ASSUME SameWidth PROVE Spec => []CoverInv
BY CoverInit, CoverStep, PTL DEF Spec

\* No request asks past a message that was neither logged, nor gone, nor past
\* an identifier that was cut after digits it begins with, however logins,
\* losses of connection and new messages interleave (main.c:534-557).
THEOREM OnlyTornLost == ASSUME SameWidth PROVE Spec => []OnlyTornIsLost
<1>1. CoverInv => OnlyTornIsLost
  BY DEF CoverInv, Behind, OnlyTornIsLost
<1> QED BY <1>1, CoverAlways, PTL
-----------------------------------------------------------------------------
(* The log gets a message twice only after a backlog that was cut.         *)

\* Messages that are known and will be read again outside of a backlog.
Overlap == Asked + 1 .. know_msgid

OnceInv ==
  /\ TypeOK
  /\ LoggedOnce
  /\ \A i \in 1 .. Len(log) : log[i] <= know_msgid
  /\ state = "GET_THE_BACKLOG" => know_msgid <= upto
  /\ state = "WATCHING_NEW_MESSAGES" => next = Asked + 1
  /\ (state = "GET_THE_BACKLOG" /\ next <= upto) \/ Overlap \subseteq again

\* A message that is newer than all that were logged, or is asked for again.
LEMMA OnceAppend ==
  ASSUME NEW S \in SUBSET Nat, NEW s \in Seq(S), NEW A, NEW m \in S, NEW x \in Nat, NEW y \in Nat,
         \A i, k \in 1 .. Len(s) : i < k => s[i] < s[k] \/ s[k] \in A,
         \A i \in 1 .. Len(s) : s[i] <= x,
         x <= y, m <= y, m > x \/ m \in A
  PROVE  LET t == Append(s, m)
         IN  /\ \A i, k \in 1 .. Len(t) : i < k => t[i] < t[k] \/ t[k] \in A
             /\ \A i \in 1 .. Len(t) : t[i] <= y
<1> DEFINE t == Append(s, m)
<1>1. Len(t) = Len(s) + 1 /\ \A i \in 1 .. Len(t) : t[i] = IF i <= Len(s) THEN s[i] ELSE m
  OBVIOUS
<1>2. \A i \in 1 .. Len(s) : s[i] \in Nat
  <2>1. \A i \in 1 .. Len(s) : s[i] \in S OBVIOUS
  <2>2. S \subseteq Nat OBVIOUS
  <2> QED BY <2>1, <2>2
<1>3. m \in Nat /\ Len(s) \in Nat OBVIOUS
<1> HIDE DEF t
<1>4. \A i \in 1 .. Len(t) : t[i] <= y
  BY <1>1, <1>2, <1>3
<1>5. \A i, k \in 1 .. Len(t) : i < k => t[i] < t[k] \/ t[k] \in A
  BY <1>1, <1>2, <1>3
<1> QED BY <1>4, <1>5 DEF t

\* A page that is cut while watching asks for nothing older.
LEMMA WatchCut ==
  ASSUME SameWidth, TypeOK, CutWithin, next = Asked + 1
  PROVE  Asked' >= Asked
<1>1. next \in 1 .. MaxMsg /\ next > Value(msgid) /\ msgid \in Identifiers
      /\ Value(msgid) \in Int /\ Asked' \in Nat /\ Asked \in Nat
  BY AskedIs, CutIs, DeliveryAssumption DEF TypeOK, Asked, Cut
<1>2. PICK n \in 1 .. Len(Text(next)) :
        \/ msgid' = Overwrite(msgid, Text(next), n)
        \/ msgid' = Text(next)
  BY DEF CutWithin
<1>3. CASE msgid' = Text(next)
  <2>1. Value(msgid') = next BY <1>1, <1>3, DeliveryAssumption
  <2> QED BY <1>1, <2>1 DEF Asked
<1>4. CASE msgid' = Overwrite(msgid, Text(next), n) /\ Value(msgid) > 0
  <2>1. Value(msgid') >= Value(msgid)
    BY <1>1, <1>4, MixUp
  <2>2. Value(msgid') \in Int BY <1>1, <1>4, OverwriteIsIdentifier, DeliveryAssumption
  <2> QED BY <1>1, <1>4, <2>1, <2>2 DEF Asked
<1>5. CASE ~(Value(msgid) > 0)
  BY <1>1, <1>5 DEF Asked
<1> QED BY <1>2, <1>3, <1>4, <1>5

LEMMA OnceStep ==
  ASSUME SameWidth, OnceInv, [Next]_vars
  PROVE  OnceInv'
<1> USE DeliveryAssumption DEF OnceInv, Overlap
<1>0. TypeOK' BY TypeStep
<1>1. CASE UNCHANGED vars
  BY <1>0, <1>1 DEF vars, pagevars, Asked, LoggedOnce
<1>2. CASE Post \/ Refused \/ BacklogMissed \/ EndPage
  <2>1. /\ UNCHANGED <<next, upto, msgid, know_msgid, log, again>>
        /\ state' = state \/ (state' \in {"LOGIN", "WATCH"}
                              /\ ~(state = "GET_THE_BACKLOG" /\ next <= upto))
    BY <1>2 DEF Post, Refused, BacklogMissed, EndPage, pagevars, TypeOK
  <2>2. Asked' = Asked /\ (LoggedOnce => LoggedOnce') BY <2>1 DEF Asked, LoggedOnce
  <2> QED BY <1>0, <2>1, <2>2
<1>3. CASE GetTheBacklog
  <2>1. Asked' = Asked /\ (LoggedOnce => LoggedOnce') BY <1>3 DEF GetTheBacklog, Asked, LoggedOnce
  <2>2. know_msgid' <= upto' BY <1>3 DEF GetTheBacklog, TypeOK
  <2> QED BY <1>0, <1>3, <2>1, <2>2 DEF GetTheBacklog
<1>4. CASE WatchNewMessages
  <2>1. Asked' = Asked /\ (LoggedOnce => LoggedOnce')
    BY <1>4 DEF WatchNewMessages, Asked, LoggedOnce
  <2> QED BY <1>0, <1>4, <2>1 DEF WatchNewMessages, AskFrom
<1>5. CASE ReadMessage
  <2>1. /\ next \in 1 .. head /\ next \in 1 .. MaxMsg /\ next <= upto /\ upto \in Nat
        /\ UNCHANGED <<head, state, upto, again>>
        /\ next' = next + 1 /\ msgid' = Text(next)
        /\ state \in {"GET_THE_BACKLOG", "WATCHING_NEW_MESSAGES"}
        /\ know_msgid \in Nat /\ know_msgid <= head
    BY <1>5 DEF ReadMessage, Reading, TypeOK
  <2>2. Asked' = next BY <2>1 DEF Asked
  <2>3. know_msgid' = IF next > know_msgid THEN next ELSE know_msgid
    <3>1. know_msgid # 0 => (Newer(next, know_msgid) <=> next > know_msgid)
      <4>1. know_msgid # 0 => know_msgid \in 1 .. MaxMsg BY <2>1 DEF TypeOK
      <4> QED BY <2>1, <4>1, Order
    <3>2. know_msgid' = IF StillKnown(next) = 0 THEN next ELSE StillKnown(next)
      BY <1>5 DEF ReadMessage, minichat_message
    <3> QED BY <2>1, <3>1, <3>2 DEF StillKnown
  <2>4. \/ log' = log
        \/ /\ log' = Append(log, next)
           /\ next > know_msgid \/ state = "WATCHING_NEW_MESSAGES"
    <3>1. know_msgid # 0 => (Newer(next, know_msgid) <=> next > know_msgid)
      <4>1. know_msgid # 0 => know_msgid \in 1 .. MaxMsg BY <2>1 DEF TypeOK
      <4> QED BY <2>1, <4>1, Order
    <3>2. log' = IF IsLogged(StillKnown(next)) THEN Append(log, next) ELSE log
      BY <1>5 DEF ReadMessage, minichat_message
    <3> QED BY <2>1, <3>1, <3>2 DEF StillKnown, IsLogged
  <2>5. state = "WATCHING_NEW_MESSAGES" => next > know_msgid \/ next \in again
    <3> SUFFICES ASSUME state = "WATCHING_NEW_MESSAGES", ~(next > know_msgid) PROVE next \in again
      OBVIOUS
    <3>1. next = Asked + 1 /\ Overlap \subseteq again OBVIOUS
    <3> QED BY <2>1, <3>1
  <2>6. LoggedOnce' /\ \A i \in 1 .. Len(log') : log'[i] <= know_msgid'
    <3>1. know_msgid' \in Nat /\ know_msgid <= know_msgid' /\ next <= know_msgid'
      BY <2>1, <2>3
    <3>2. log \in Seq(1 .. head) /\ 1 .. head \in SUBSET Nat BY DEF TypeOK
    <3>3. CASE log' = log
      <4>1. LoggedOnce' BY <2>1, <3>3 DEF LoggedOnce
      <4>2. \A i \in 1 .. Len(log) : log[i] \in 1 .. head
        <5> HIDE DEF OnceInv
        <5> QED BY <3>2, ElementIn
      <4>3. \A i \in 1 .. Len(log) : log[i] <= know_msgid OBVIOUS
      <4> QED BY <2>1, <3>1, <3>3, <4>1, <4>2, <4>3
    <3>4. CASE log' = Append(log, next) /\ (next > know_msgid \/ next \in again)
      <4> HIDE DEF OnceInv
      <4>1. \A i, k \in 1 .. Len(log) : i < k => log[i] < log[k] \/ log[k] \in again
        BY DEF OnceInv, LoggedOnce
      <4>2. \A i \in 1 .. Len(log) : log[i] <= know_msgid BY DEF OnceInv
      <4>3. next \in 1 .. head /\ know_msgid \in Nat BY <2>1
      <4>4. next > know_msgid \/ next \in again BY <3>4
      <4>5. /\ \A i, k \in 1 .. Len(Append(log, next)) : i < k =>
                 Append(log, next)[i] < Append(log, next)[k] \/ Append(log, next)[k] \in again
            /\ \A i \in 1 .. Len(Append(log, next)) : Append(log, next)[i] <= know_msgid'
        BY <3>1, <3>2, <4>1, <4>2, <4>3, <4>4, OnceAppend
      <4> QED BY <2>1, <3>4, <4>5 DEF LoggedOnce
    <3> QED BY <2>4, <2>5, <3>3, <3>4
  <2>7. state' = "GET_THE_BACKLOG" => know_msgid' <= upto' BY <2>1, <2>3
  <2>8. state' = "WATCHING_NEW_MESSAGES" => next' = Asked' + 1 BY <2>1, <2>2
  <2>9. (state' = "GET_THE_BACKLOG" /\ next' <= upto') \/ Overlap' \subseteq again'
    <3>1. CASE state = "GET_THE_BACKLOG" /\ ~(next' <= upto')
      <4>1. Asked' >= know_msgid'
        BY <2>1, <2>2, <2>3, <3>1
      <4> QED BY <2>1, <2>2, <2>3, <4>1
    <3>2. CASE state = "WATCHING_NEW_MESSAGES"
      <4>1. Overlap \subseteq again /\ next = Asked + 1 BY <3>2
      <4>2. Overlap' \subseteq Overlap
        <5>1. CASE next > know_msgid BY <2>1, <2>2, <2>3, <5>1
        <5>2. CASE ~(next > know_msgid)
          <6>1. Asked \in Int BY AskedIs
          <6> QED BY <2>1, <2>2, <2>3, <4>1, <5>2, <6>1
        <5> QED BY <5>1, <5>2
      <4> QED BY <2>1, <4>1, <4>2
    <3> QED BY <2>1, <3>1, <3>2
  <2> QED BY <1>0, <2>6, <2>7, <2>8, <2>9
<1>6. CASE Cut
  <2>1. /\ Reading /\ next <= upto /\ state' = "WATCH" /\ TypeOK
        /\ UNCHANGED <<next, upto, know_msgid, log>> /\ Asked' \in Nat
        /\ again' = again \cup (IF state = "GET_THE_BACKLOG" THEN Asked' + 1 .. know_msgid ELSE {})
    BY <1>6, CutIs
  <2>2. LoggedOnce' BY <2>1 DEF LoggedOnce
  <2>3. Overlap' \subseteq again'
    <3>1. CASE state = "GET_THE_BACKLOG" BY <2>1, <3>1
    <3>2. CASE state = "WATCHING_NEW_MESSAGES"
      <4>1. next = Asked + 1 /\ Overlap \subseteq again /\ again' = again BY <2>1, <3>2
      <4>2. Asked' >= Asked
        <5>1. CASE CutBetween
          <6>1. msgid' = msgid BY <5>1 DEF CutBetween
          <6> QED BY <6>1, AskedIs DEF Asked
        <5>2. CASE CutWithin BY <2>1, <4>1, <5>2, WatchCut
        <5> QED BY <1>6, <5>1, <5>2 DEF Cut
      <4>3. Asked \in Nat /\ know_msgid \in Nat BY AskedIs DEF TypeOK
      <4>4. Overlap' \subseteq Overlap BY <2>1, <4>2, <4>3, ShorterInterval
      <4> QED BY <4>1, <4>4
    <3> QED BY <2>1, <3>1, <3>2 DEF Reading
  <2> QED BY <1>0, <2>1, <2>2, <2>3
<1> QED BY <1>1, <1>2, <1>3, <1>4, <1>5, <1>6 DEF Next, Cut

\* A message is logged and sent to IRC again, or late, only when a backlog was
\* cut before what was already known (main.c:134-166, 497-557).
THEOREM AlwaysLoggedOnce == ASSUME SameWidth PROVE Spec => []LoggedOnce
<1>1. Init => OnceInv
  <2>1. Init => TypeOK BY TypeInit
  <2> QED BY <2>1 DEF Init, OnceInv, LoggedOnce, Overlap, Asked
<1>2. OnceInv => LoggedOnce BY DEF OnceInv
<1> QED BY <1>1, <1>2, OnceStep, PTL DEF Spec
-----------------------------------------------------------------------------
(* The log is a Journal when no page is cut.                               *)

OrderInv ==
  /\ TypeOK
  /\ know_msgid = J!LastOf(log)
  /\ state # "GET_THE_BACKLOG" => Asked = know_msgid
  /\ state = "WATCHING_NEW_MESSAGES" => next = know_msgid + 1
  /\ state = "GET_THE_BACKLOG" =>
       /\ know_msgid <= upto
       /\ \A m \in know_msgid + 1 .. next - 1 : m \in gone
       /\ Asked = know_msgid \/ (Asked = next - 1 /\ Asked < know_msgid)

\* A message read that is new to the program is logged right after the last.
LEMMA ReadStep ==
  ASSUME SameWidth, OrderInv, ReadMessage
  PROVE  /\ next \in 1 .. head
         /\ know_msgid < next => /\ log' = Append(log, next)
                                 /\ know_msgid' = next
                                 /\ \A m \in know_msgid + 1 .. next - 1 : m \in gone
         /\ know_msgid >= next => /\ state = "GET_THE_BACKLOG"
                                  /\ log' = log
                                  /\ know_msgid' = know_msgid
<1> USE DEF OrderInv, TypeOK
<1>1. next \in 1 .. head /\ state \in {"GET_THE_BACKLOG", "WATCHING_NEW_MESSAGES"}
  BY DEF ReadMessage, Reading
<1>0. /\ next \in 1 .. MaxMsg
      /\ know_msgid # 0 => know_msgid \in 1 .. MaxMsg
  BY <1>1, DeliveryAssumption
<1>2. CASE know_msgid < next
  <2>1. StillKnown(next) = 0 BY <1>0, <1>1, <1>2, Order DEF StillKnown
  <2> QED BY <1>1, <1>2, <2>1 DEF ReadMessage, minichat_message, IsLogged
<1>3. CASE know_msgid >= next
  <2>1. state = "GET_THE_BACKLOG" BY <1>1, <1>3
  <2>2. StillKnown(next) = know_msgid /\ know_msgid # 0
    BY <1>0, <1>1, <1>3, Order DEF StillKnown
  <2> QED BY <1>1, <1>3, <2>1, <2>2 DEF ReadMessage, minichat_message, IsLogged
<1> QED BY <1>1, <1>2, <1>3

LEMMA OrderStep ==
  ASSUME SameWidth, MayTear = FALSE, MayCut = FALSE, OrderInv, [Next]_vars
  PROVE  OrderInv'
<1> USE DEF OrderInv, J!LastOf
<1>0. TypeOK' BY TypeStep
<1>1. CASE UNCHANGED vars
  BY <1>0, <1>1 DEF vars, pagevars, Asked
<1>2. CASE Post
  BY <1>0, <1>2 DEF Post, pagevars, Asked
<1>3. CASE Refused
  BY <1>0, <1>3 DEF Refused, pagevars, Asked
<1>4. CASE GetTheBacklog
  <2>1. Asked' = Asked BY <1>4 DEF GetTheBacklog, Asked
  <2> QED BY <1>0, <1>4, <2>1, DeliveryAssumption DEF GetTheBacklog, Oldest, TypeOK
<1>5. CASE WatchNewMessages
  <2>1. Asked' = Asked BY <1>5 DEF WatchNewMessages, Asked
  <2> QED BY <1>0, <1>5, <2>1 DEF WatchNewMessages, AskFrom
<1>6. CASE ReadMessage
  <2>0. /\ state' = state /\ upto' = upto /\ gone' = gone
        /\ Asked' = next /\ next' = next + 1
        /\ next \in 1 .. head /\ next <= upto
        /\ state \in {"GET_THE_BACKLOG", "WATCHING_NEW_MESSAGES"}
    <3>1. /\ state' = state /\ upto' = upto /\ gone' = gone
          /\ msgid' = Text(next) /\ next' = next + 1
          /\ next \in 1 .. head /\ next \in 1 .. MaxMsg /\ next <= upto
          /\ state \in {"GET_THE_BACKLOG", "WATCHING_NEW_MESSAGES"}
      BY <1>6, DeliveryAssumption DEF ReadMessage, Reading, TypeOK
    <3>2. Value(msgid') = next BY <3>1, DeliveryAssumption
    <3> QED BY <3>1, <3>2 DEF Asked
  <2>1. CASE know_msgid < next
    <3>1. /\ log' = Append(log, next) /\ know_msgid' = next
          /\ \A m \in know_msgid + 1 .. next - 1 : m \in gone
      BY <1>6, <2>1, ReadStep
    <3>2. J!LastOf(log)' = next
      <4>1. log \in Seq(1 .. head) /\ next \in 1 .. head
        BY <2>0 DEF TypeOK
      <4> QED BY <3>1, <4>1, AppendProperties
    <3>3. know_msgid' = J!LastOf(log)' BY <3>1, <3>2
    <3>4. state = "WATCHING_NEW_MESSAGES" => know_msgid' + 1 = next'
      BY <2>0, <3>1
    <3>5. \A m \in know_msgid' + 1 .. next' - 1 : m \in gone'
      BY <2>0, <3>1
    <3>6. know_msgid' <= upto' /\ Asked' = know_msgid'
      BY <2>0, <3>1
    <3> QED BY ONLY <1>0, <2>0, <3>3, <3>4, <3>5, <3>6 DEF OrderInv
  <2>2. CASE know_msgid >= next
    <3>1. log' = log /\ know_msgid' = know_msgid /\ state = "GET_THE_BACKLOG"
      BY <1>6, <2>2, ReadStep
    <3>2. J!LastOf(log)' = J!LastOf(log) BY <3>1
    <3>3. know_msgid' <= upto' /\ know_msgid \in Int
      BY <2>0, <3>1 DEF TypeOK
    <3>4. \A m \in know_msgid' + 1 .. next' - 1 : m \in gone'
      BY <2>0, <2>2, <3>1, <3>3
    <3>5. Asked' = know_msgid' \/ (Asked' = next' - 1 /\ Asked' < know_msgid')
      BY <2>0, <2>2, <3>1, <3>3
    <3> QED BY ONLY <1>0, <2>0, <3>1, <3>2, <3>3, <3>4, <3>5, OrderInv DEF OrderInv
  <2>3. know_msgid \in Int /\ next \in Int BY <2>0 DEF TypeOK
  <2> QED BY ONLY <2>1, <2>2, <2>3
<1>7. CASE EndPage
  <2>1. Asked' = Asked BY <1>7 DEF EndPage, Asked
  <2>2. /\ state' = "WATCH" /\ next > upto /\ know_msgid' = know_msgid /\ log' = log
        /\ next \in Nat /\ upto \in Nat /\ know_msgid \in Nat
    BY <1>7 DEF EndPage, TypeOK
  <2>3. Asked = know_msgid
    BY <2>2 DEF TypeOK
  <2> QED BY <1>0, <2>1, <2>2, <2>3
<1>8. CASE CutBetween \/ CutWithin \/ BacklogMissed
  BY <1>8 DEF CutBetween, CutWithin, BacklogMissed, TypeOK
<1> QED BY <1>1, <1>2, <1>3, <1>4, <1>5, <1>6, <1>7, <1>8 DEF Next

LEMMA JournalStep ==
  ASSUME SameWidth, MayTear = FALSE, MayCut = FALSE, OrderInv, [Next]_vars
  PROVE  [J!JNext]_(J!jvars)
<1> USE DEF J!jvars
<1>1. CASE UNCHANGED vars BY <1>1 DEF vars
<1>2. CASE Post BY <1>2 DEF Post, J!JNext, J!JPost
<1>3. CASE GetTheBacklog BY <1>3 DEF GetTheBacklog, J!JNext, J!JForget
<1>4. CASE Refused \/ WatchNewMessages \/ EndPage
  BY <1>4 DEF Refused, WatchNewMessages, EndPage
<1>5. CASE ReadMessage
  <2>1. CASE know_msgid < next
    <3>1. J!JWrite(next)
      BY <1>5, <2>1, ReadStep DEF ReadMessage, J!JWrite, OrderInv, TypeOK
    <3> QED BY <1>5, <3>1, ReadStep DEF J!JNext
  <2>2. CASE know_msgid >= next
    BY <1>5, <2>2, ReadStep DEF ReadMessage
  <2> QED BY <1>5, <2>1, <2>2, ReadStep DEF OrderInv, TypeOK
<1>6. CASE CutBetween \/ CutWithin \/ BacklogMissed
  BY <1>6 DEF CutBetween, CutWithin, BacklogMissed, OrderInv, TypeOK
<1> QED BY <1>1, <1>2, <1>3, <1>4, <1>5, <1>6 DEF Next

\* With whole pages, the log and the IRC client get the forum's messages in
\* order, once each: Delivery implements Journal (main.c:130-166).
THEOREM DeliveryIsJournal ==
  ASSUME SameWidth, MayTear = FALSE, MayCut = FALSE PROVE Spec => LogIsJournal
<1>1. Init => OrderInv /\ J!JInit
  BY TypeInit, InitAsked DEF Init, OrderInv, J!LastOf, J!JInit
<1> QED BY <1>1, OrderStep, JournalStep, PTL DEF Spec, LogIsJournal, J!JSpec
=============================================================================
