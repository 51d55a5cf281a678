---------------------------- MODULE AnswerProofs ----------------------------
(***************************************************************************)
(* What main() keeps of the answers of the forum, for all values of the    *)
(* constants, wherever the network cuts them: the two values of the form   *)
(* are of one page, and the jar is what the forum told.  Both rest on what *)
(* is sent (Sending): the lines and parts of the answer, symbol by symbol. *)
(***************************************************************************)
EXTENDS Answer, FiniteSetTheorems, SequenceTheorems, WellFoundedInduction, TLAPS

-----------------------------------------------------------------------------
(* The jar.                                                                *)

IsPair(c) == c # FREE /\ c = <<c[1], c[2]>>

\* The jar fills from its first slot on, and names are in it once.
JarOrdered ==
  /\ cookies = [i \in Slots |-> cookies[i]]
  /\ \A i \in Slots : cookies[i] = FREE \/ IsPair(cookies[i])
  /\ \A i, h \in Slots : i < h /\ cookies[h] # FREE =>
       cookies[i] # FREE /\ cookies[i][1] # cookies[h][1]

\* A cookie is told from a free slot.
LEMMA PairIsNotFree == ASSUME NEW nm, NEW v PROVE IsPair(<<nm, v>>)
<1>1. Len(<< >>) # Len(<<nm, v>>)
  OBVIOUS
<1>2. <<nm, v>> # << >>
  OBVIOUS
<1> QED
  BY <1>2 DEF IsPair, FREE

\* The first place for a cookie gets it, every other slot keeps its own.
StoresAt(i, name, value) ==
  /\ cookies[i] = FREE \/ cookies[i][1] = name
  /\ \A h \in Slots : h < i => cookies[h] # FREE /\ cookies[h][1] # name
  /\ cookies' = [h \in Slots |-> IF h = i THEN <<name, value>> ELSE cookies[h]]

\* The jar is empty at first.
LEMMA JarInit == Init => JarOrdered
  BY DEF Init, CookiesInit, JarOrdered

\* A jar with no place for a cookie stays as it is.
LEMMA StoreNowhere ==
  ASSUME NEW name, NEW value, JarOrdered, cookies' = storecookie(cookies, name, value),
         \A i \in Slots : cookies[i] # FREE /\ cookies[i][1] # name
  PROVE  cookies' = cookies
<1>1. PlaceFor(cookies, name) = {}
  BY DEF PlaceFor, IsFor
<1>2. cookies' = [i \in Slots |-> cookies[i]]
  BY <1>1 DEF storecookie
<1> QED
  BY <1>2 DEF JarOrdered

\* Numbers have a least one.
LEMMA LeastNumber ==
  ASSUME NEW T, T \subseteq Nat, T # {}
  PROVE  \E i \in T : \A h \in T : i <= h
<1> DEFINE R == {ss \in Nat \X Nat : ss[1] < ss[2]}
<1>1. IsWellFoundedOn(R, Nat)
  BY NatLessThanWellFounded DEF OpToRel
<1>2. \E i \in T : \A h \in T : ~(<<h, i>> \in R)
  <2> HIDE DEF R
  <2> QED
    BY <1>1, WFMin
<1>3. PICK i \in T : \A h \in T : ~(<<h, i>> \in R)
  BY <1>2
<1>4. ASSUME NEW h \in T PROVE i <= h
  <2>1. i \in Nat /\ h \in Nat
    OBVIOUS
  <2>2. ~(h < i)
    BY <1>3, <2>1
  <2> QED
    BY <2>1, <2>2
<1> QED
  BY <1>3, <1>4

\* One with a place stores it there.
LEMMA StorePlace ==
  ASSUME NEW name, NEW value, JarOrdered, cookies' = storecookie(cookies, name, value),
         \E i \in Slots : cookies[i] = FREE \/ cookies[i][1] = name
  PROVE  \E i \in Slots : StoresAt(i, name, value)
<1> DEFINE P == PlaceFor(cookies, name)
           IsFirst(i) == i \in P /\ \A h \in P : i <= h
<1>1. cookies' = [i \in Slots |-> IF IsFirst(i) THEN <<name, value>> ELSE cookies[i]]
  BY DEF storecookie, Stored
<1>2. P # {} /\ P \subseteq Nat
  BY CookiesAssumption DEF PlaceFor, IsFor, Slots
<1>3. PICK i \in P : \A h \in P : i <= h
  <2> HIDE DEF P
  <2> QED
    BY <1>2, LeastNumber
<1>4. i \in Slots /\ IsFirst(i)
  BY <1>3 DEF PlaceFor
<1>5. cookies[i] = FREE \/ cookies[i][1] = name
  BY <1>4 DEF PlaceFor, IsFor
<1>6. \A h \in Slots : h < i => h \notin PlaceFor(cookies, name)
  BY <1>4, CookiesAssumption DEF Slots
<1>7. \A h \in Slots : h < i => cookies[h] # FREE /\ cookies[h][1] # name
  BY <1>6 DEF PlaceFor, IsFor
<1>8. \A h \in Slots : IsFirst(h) <=> h = i
  BY <1>4, CookiesAssumption DEF Slots, PlaceFor
<1>9. cookies' = [h \in Slots |-> IF h = i THEN <<name, value>> ELSE cookies[h]]
  <2> HIDE DEF IsFirst
  <2> QED
    BY <1>1, <1>8
<1> QED
  BY <1>4, <1>5, <1>7, <1>9 DEF StoresAt

\* Either way.
LEMMA StoreCases ==
  ASSUME NEW name, NEW value, JarOrdered, cookies' = storecookie(cookies, name, value)
  PROVE  cookies' = cookies \/ \E i \in Slots : StoresAt(i, name, value)
<1>1. CASE \A i \in Slots : cookies[i] # FREE /\ cookies[i][1] # name
  BY <1>1, StoreNowhere
<1>2. CASE \E i \in Slots : cookies[i] = FREE \/ cookies[i][1] = name
  BY <1>2, StorePlace
<1> QED
  BY <1>1, <1>2

\* A jar has no more names than slots, the one just stored included.
LEMMA NamesFit ==
  ASSUME NEW jar, NEW N, \A nm \in N : \E i \in Slots : jar[i] # FREE /\ jar[i][1] = nm
  PROVE  Cardinality(N) <= MAXCOOKIES
<1> DEFINE f == [i \in Slots |-> jar[i][1]]
           T == {f[i] : i \in Slots}
<1>1. IsFiniteSet(Slots) /\ Cardinality(Slots) = MAXCOOKIES
  BY CookiesAssumption, FS_Interval DEF Slots
<1>2. f \in Surjection(Slots, T)
  BY DEF Surjection
<1>3. IsFiniteSet(T) /\ Cardinality(T) <= MAXCOOKIES
  BY <1>1, <1>2, FS_Surjection
<1>4. N \subseteq T
  OBVIOUS
<1>5. Cardinality(N) <= Cardinality(T) /\ Cardinality(N) \in Nat /\ Cardinality(T) \in Nat
  BY <1>3, <1>4, FS_Subset, FS_CardinalityType
<1> QED
  BY <1>3, <1>5, CookiesAssumption

\* The slots after a cookie is stored.
LEMMA SlotsAfter ==
  ASSUME NEW name, NEW value, JarOrdered, NEW i \in Slots, StoresAt(i, name, value)
  PROVE  /\ cookies'[i] = <<name, value>> /\ cookies'[i] # FREE /\ IsPair(cookies'[i])
         /\ cookies'[i][1] = name /\ cookies'[i][2] = value
         /\ \A h \in Slots : h # i => cookies'[h] = cookies[h]
         /\ \A h \in Slots : h # i /\ cookies[h] # FREE => cookies[h][1] # name
<1>0. /\ cookies[i] = FREE \/ cookies[i][1] = name
      /\ \A h \in Slots : h < i => cookies[h] # FREE /\ cookies[h][1] # name
      /\ cookies' = [h \in Slots |-> IF h = i THEN <<name, value>> ELSE cookies[h]]
  BY DEF StoresAt
<1>1. cookies'[i] = <<name, value>> /\ cookies'[i] # FREE /\ IsPair(cookies'[i])
      /\ cookies'[i][1] = name /\ cookies'[i][2] = value
  BY <1>0, PairIsNotFree DEF IsPair
<1>2. \A h \in Slots : h # i => cookies'[h] = cookies[h]
  BY <1>0
<1>3. \A h \in Slots : h # i /\ cookies[h] # FREE => cookies[h][1] # name
  BY <1>0, CookiesAssumption DEF JarOrdered, Slots
<1> QED
  BY <1>1, <1>2, <1>3

\* What is sent after a cookie is stored.
LEMMA SentAfter ==
  ASSUME NEW name, NEW value, JarOrdered, NEW i \in Slots, StoresAt(i, name, value)
  PROVE  Sent' = {c \in Sent : c[1] # name} \cup {<<name, value>>}
<1>1. /\ cookies'[i] = <<name, value>> /\ cookies'[i] # FREE
      /\ \A h \in Slots : h # i => cookies'[h] = cookies[h]
      /\ \A h \in Slots : h # i /\ cookies[h] # FREE => cookies[h][1] # name
      /\ cookies[i] = FREE \/ cookies[i][1] = name
  BY SlotsAfter DEF StoresAt
<1>2. ASSUME NEW c \in Sent' PROVE c = <<name, value>> \/ (c \in Sent /\ c[1] # name)
  <2>1. PICK h \in Slots : c = cookies'[h] /\ cookies'[h] # FREE
    BY <1>2 DEF Sent, Slots, FREE
  <2>2. CASE h = i
    BY <1>1, <2>1, <2>2
  <2>3. CASE h # i
    BY <1>1, <2>1, <2>3 DEF Sent
  <2> QED
    BY <2>2, <2>3
<1>3. ASSUME NEW c \in Sent, c[1] # name PROVE c \in Sent'
  <2>1. PICK h \in Slots : c = cookies[h] /\ cookies[h] # FREE
    BY <1>3 DEF Sent
  <2>2. h # i
    BY <1>1, <1>3, <2>1
  <2> QED
    BY <1>1, <2>1, <2>2 DEF Sent, Slots, FREE
<1>4. <<name, value>> \in Sent'
  BY <1>1 DEF Sent, Slots, FREE
<1> QED
  BY <1>2, <1>3, <1>4

\* Storing a cookie keeps the jar in order, and is what CookieStore does.
LEMMA StoreStep ==
  ASSUME NEW name, NEW value, JarOrdered, cookies' = storecookie(cookies, name, value)
  PROVE  JarOrdered' /\ [CS!SNext]_Sent
<1>1. CASE cookies' = cookies
  <2>1. JarOrdered'
    BY <1>1 DEF JarOrdered, Slots
  <2>2. Sent' = Sent
    BY <1>1 DEF Sent, Slots
  <2> QED
    BY <2>1, <2>2
<1>2. ASSUME NEW i \in Slots, StoresAt(i, name, value)
      PROVE  JarOrdered' /\ [CS!SNext]_Sent
  <2>0. /\ cookies[i] = FREE \/ cookies[i][1] = name
        /\ \A h \in Slots : h < i => cookies[h] # FREE /\ cookies[h][1] # name
        /\ cookies' = [h \in Slots |-> IF h = i THEN <<name, value>> ELSE cookies[h]]
    BY <1>2 DEF StoresAt
  <2>1. cookies'[i] = <<name, value>> /\ cookies'[i] # FREE /\ IsPair(cookies'[i])
        /\ cookies'[i][1] = name /\ cookies'[i][2] = value
    BY <1>2, SlotsAfter
  <2>2. \A h \in Slots : h # i => cookies'[h] = cookies[h]
    BY <1>2, SlotsAfter
  <2>3. \A h \in Slots : h # i /\ cookies[h] # FREE => cookies[h][1] # name
    BY <1>2, SlotsAfter
  <2>4. JarOrdered'
    <3>1. cookies' = [h \in Slots |-> cookies'[h]]
      BY <2>0
    <3>2. \A h \in Slots : cookies'[h] = FREE \/ IsPair(cookies'[h])
      BY <2>1, <2>2 DEF JarOrdered
    <3>3. ASSUME NEW g \in Slots, NEW h \in Slots, g < h, cookies'[h] # FREE
          PROVE  cookies'[g] # FREE /\ cookies'[g][1] # cookies'[h][1]
      <4>1. CASE g # i /\ h # i
        BY <2>2, <3>3, <4>1 DEF JarOrdered
      <4>2. CASE g = i
        <5>1. h # i /\ cookies'[h] = cookies[h]
          BY <2>2, <3>3, <4>2, CookiesAssumption DEF Slots
        <5> QED
          BY <2>1, <2>3, <3>3, <4>2, <5>1
      <4>3. CASE h = i
        BY <2>0, <2>1, <2>2, <3>3, <4>3, CookiesAssumption DEF Slots
      <4> QED
        BY <4>1, <4>2, <4>3
    <3> QED
      BY <3>1, <3>2, <3>3 DEF JarOrdered, Slots
  <2>5. Sent' = {c \in Sent : c[1] # name} \cup {<<name, value>>}
    BY <1>2, SentAfter
  <2>6. <<name, value>> \in Sent'
    BY <2>5
  <2>7. Cardinality({c[1] : c \in Sent} \cup {name}) <= MAXCOOKIES
    <3>1. ASSUME NEW c \in Sent
          PROVE  \E h \in Slots : cookies'[h] # FREE /\ cookies'[h][1] = c[1]
      <4>1. PICK h \in Slots : c = cookies[h] /\ cookies[h] # FREE
        BY DEF Sent, FREE
      <4> QED
        BY <2>0, <2>1, <2>2, <4>1
    <3>2. \A nm \in {c[1] : c \in Sent} \cup {name} :
            \E h \in Slots : cookies'[h] # FREE /\ cookies'[h][1] = nm
      BY <2>1, <3>1
    <3> QED
      BY <3>2, NamesFit
  <2>8. CS!SSet(name, value)
    <3>1. \A S : CS!Cardinality(S) = Cardinality(S)
      BY DEF CS!Cardinality, Cardinality
    <3> QED
      BY <2>5, <2>7, <3>1 DEF CS!SSet, CS!Others, CS!StoredNames
  <2>9. CS!SSet(<<name, value>>[1], <<name, value>>[2])
    <3>1. <<name, value>>[1] = name /\ <<name, value>>[2] = value
      OBVIOUS
    <3> QED
      BY <2>8, <3>1
  <2> QED
    BY <2>4, <2>6, <2>9 DEF CS!SNext
<1> QED
  BY <1>1, <1>2, StoreCases

\* A step of the program or of the forum leaves the jar, or stores one cookie.
LEMMA JarStep ==
  ASSUME JarOrdered, [Next]_vars
  PROVE  JarOrdered' /\ [CS!SNext]_Sent
<1>1. \/ cookies' = cookies
      \/ \E name, value : cookies' = storecookie(cookies, name, value)
  <2>1. ASSUME NEW status \in {200, 403}, NEW people \in Presences,
               NEW cs \in CookieSets(state), Ask(status, people, cs)
        PROVE  cookies' = cookies \/ \E name, value : cookies' = storecookie(cookies, name, value)
    <3>1. cookies' = IF state = "POSTING_A_MESSAGE"
                       THEN storecookie(cookies, <<"mChatShowUserList">>, <<"yes">>) ELSE cookies
      BY <2>1 DEF Ask
    <3> QED
      BY <3>1
  <2>2. CASE Symbol
    <3>1. cookies' = cookies \/ \E c : ParseHeader(c)
      BY <2>2 DEF Symbol
    <3>2. ASSUME NEW c, ParseHeader(c)
          PROVE  cookies' = cookies \/ \E name, value : cookies' = storecookie(cookies, name, value)
      BY <3>2 DEF ParseHeader, WaitForNewline, InHeader, HeaderFound, InCookieName, InCookieValue
    <3> QED
      BY <3>1, <3>2
  <2>3. CASE Post \/ FirstPiece
    BY <2>3 DEF Post, FirstPiece, cookievars
  <2>4. CASE Over \/ Lost
    BY <2>4 DEF Over, Lost, IsOver, cookievars
  <2>5. CASE UNCHANGED vars
    BY <2>5 DEF vars, cookievars
  <2> QED
    BY <2>1, <2>2, <2>3, <2>4, <2>5 DEF Next
<1>2. CASE cookies' = cookies
  <2>1. JarOrdered'
    BY <1>2 DEF JarOrdered, Slots
  <2>2. Sent' = Sent
    BY <1>2 DEF Sent, Slots
  <2> QED
    BY <2>1, <2>2
<1> QED
  BY <1>1, <1>2, StoreStep

\* For any answers, cut anywhere, and a jar of any size: what the next request
\* carries is what a store with the jar's capacity would hold; no name is ever
\* forgotten, and none has two values (cookies.c:21-63).
THEOREM JarAlwaysStore == Spec => JarIsStore
<1>1. Init => CS!SInit
  BY DEF Init, CookiesInit, CS!SInit, Sent
<1> QED
  BY <1>1, JarInit, JarStep, PTL DEF Spec, JarIsStore, CS!SSpec
-----------------------------------------------------------------------------
(* What is sent.                                                           *)

Written ==
  {"HTTP/1.1", "Server", "\r", "\n", "Set-", "Cookie:", " ", "=", "0", "1", "2", "3", "4", "5",
   "6", "7", "8", "9", "\"", ">", "/>", "<", "div ", "id=m", "ess", "ChatStats class",
   "img ", "icon", "a ", "href=", ".", "profile", "author", "/a>", "class=avatarMessage",
   "/div>", "topic", "br />", "input ", "hidden"}
All == Symbols \cup Written \cup FormKeys
Keyless == All \ FormKeys

HasForm == FormPart.kind \in {page[i].kind : i \in DOMAIN page}

\* The form comes first in the page, after the headers.
FormAt == Len(sets) + 4

IsForm(p) == \E d \in 1 .. 10 : p = [kind |-> "form", creation_time |-> Digits[d], form_token |-> Digits[d]]

IsPage(p) ==
  /\ p = [i \in 1 .. Len(p) |-> p[i]] /\ Len(p) \in Nat
  /\ \A i \in 1 .. Len(p) :
       /\ WritePart(p[i]) \in Seq(All) /\ WritePart(p[i]) # << >>
       /\ IF p[i].kind = "form" THEN i = 1 /\ IsForm(p[i]) ELSE WritePart(p[i]) \in Seq(Keyless)

AreCookies(cs) == cs \in Seq(CookieRecords) /\ \A i \in DOMAIN cs : IsCookie(cs[i])

\* What is sent, and where its reading is.
Sending ==
  /\ state \in Requests
  /\ turn \in {"ask", "recv", "read"}
  /\ head \in 0 .. MaxMsg /\ logins \in 0 .. MaxLogin
  /\ turn # "ask" =>
       /\ AreCookies(sets) /\ IsPage(page)
       /\ text = Headers(sets) \o WritePage(page)
       /\ line \in Nat \ {0} /\ at \in Nat \ {0}
       /\ ~AllRead => at <= Len(text[line])
  /\ turn = "recv" => line = 1 /\ at = 1 /\ calls = << >>

CookieLine(c) == CookiePair(c) \o c.rest \o EOL

\* A sequence over a set is one over a larger set.
LEMMA SeqMono ==
  ASSUME NEW A, NEW B, A \subseteq B, NEW s \in Seq(A) PROVE s \in Seq(B)
<1>1. Len(s) \in Nat /\ DOMAIN s = 1 .. Len(s) /\ s = [i \in 1 .. Len(s) |-> s[i]]
  OBVIOUS
<1>2. \A i \in 1 .. Len(s) : s[i] \in B
  BY <1>1
<1> QED
  BY <1>1, <1>2

\* Short tuples are sequences.
LEMMA ShortSeqs ==
  ASSUME NEW S
  PROVE  /\ << >> \in Seq(S)
         /\ \A a \in S : <<a>> \in Seq(S) /\ Len(<<a>>) = 1
         /\ \A a, b \in S : <<a, b>> \in Seq(S) /\ Len(<<a, b>>) = 2
         /\ \A a, b, c \in S : <<a, b, c>> \in Seq(S) /\ Len(<<a, b, c>>) = 3
         /\ \A a, b, c, d \in S : <<a, b, c, d>> \in Seq(S) /\ Len(<<a, b, c, d>>) = 4
         /\ \A a, b, c, d, e, g \in S : <<a, b, c, d, e, g>> \in Seq(S) /\ Len(<<a, b, c, d, e, g>>) = 6
<1>1. << >> \in Seq(S) /\ \A a \in S : <<a>> \in Seq(S) /\ Len(<<a>>) = 1
  OBVIOUS
<1>2. \A a, b \in S : <<a, b>> \in Seq(S) /\ Len(<<a, b>>) = 2
  OBVIOUS
<1>3. \A a, b, c \in S : <<a, b, c>> \in Seq(S) /\ Len(<<a, b, c>>) = 3
  OBVIOUS
<1>4. \A a, b, c, d \in S : <<a, b, c, d>> \in Seq(S) /\ Len(<<a, b, c, d>>) = 4
  OBVIOUS
<1>5. \A a, b, c, d, e, g \in S : <<a, b, c, d, e, g>> \in Seq(S) /\ Len(<<a, b, c, d, e, g>>) = 6
  OBVIOUS
<1> QED
  BY <1>1, <1>2, <1>3, <1>4, <1>5

\* Two sequences, one after the other.
LEMMA Join2 ==
  ASSUME NEW S, NEW s \in Seq(S), NEW t \in Seq(S)
  PROVE  /\ s \o t \in Seq(S) /\ Len(s \o t) = Len(s) + Len(t)
         /\ Len(s) \in Nat /\ Len(t) \in Nat
  BY ConcatProperties

\* The symbols of two sequences, one after the other.
LEMMA ConcatAt ==
  ASSUME NEW S, NEW s \in Seq(S), NEW t \in Seq(S)
  PROVE  \A i \in 1 .. Len(s) + Len(t) : (s \o t)[i] = IF i <= Len(s) THEN s[i] ELSE t[i - Len(s)]
  BY ConcatProperties

\* The line of a cookie is made of symbols, none of which begins a tag.
LEMMA CookieLineIsText ==
  ASSUME NEW c, IsCookie(c) PROVE CookieLine(c) \in Seq(All \ {"<"}) /\ CookieLine(c) # << >>
<1> DEFINE S == All \ {"<"}
<1>1. c.name \in Seq(S) /\ c.value \in Seq(S) /\ c.rest \in Seq(S)
  <2>1. /\ c.name \in Seq(Symbols \ {CR, LF, ";", "=", "<"})
        /\ c.value \in Seq(Symbols \ {CR, LF, ";", "<"})
        /\ c.rest \in Seq(Symbols \ {LF, "<"})
    BY DEF IsCookie, CookieRecords
  <2>2. /\ Symbols \ {CR, LF, ";", "=", "<"} \subseteq S
        /\ Symbols \ {CR, LF, ";", "<"} \subseteq S
        /\ Symbols \ {LF, "<"} \subseteq S
    BY DEF All
  <2> HIDE DEF S
  <2> QED
    BY <2>1, <2>2, SeqMono
<1>2. SetCookie \in Seq(S) /\ <<" ">> \in Seq(S) /\ <<"=">> \in Seq(S) /\ << >> \in Seq(S) /\ EOL \in Seq(S)
  <2>1. {"Set-", "Cookie:", " ", "=", "\r", "\n"} \subseteq S
    BY DEF All, Written
  <2> HIDE DEF S
  <2>2. "Set-" \in S /\ "Cookie:" \in S /\ " " \in S /\ "=" \in S /\ "\r" \in S /\ "\n" \in S
    BY <2>1
  <2> QED
    BY <2>2, ShortSeqs, Zenon DEF SetCookie, EOL
<1> DEFINE e == IF c.equal THEN <<"=">> ELSE << >>
<1>3. e \in Seq(S)
  BY <1>2
<1> HIDE DEF e
<1>4. SetCookie \o <<" ">> \in Seq(S)
  BY <1>2, ConcatProperties
<1>5. SetCookie \o <<" ">> \o c.name \in Seq(S)
  BY <1>1, <1>4, ConcatProperties
<1>6. SetCookie \o <<" ">> \o c.name \o e \in Seq(S)
  BY <1>3, <1>5, ConcatProperties
<1>7. SetCookie \o <<" ">> \o c.name \o e \o c.value \in Seq(S)
  BY <1>1, <1>6, ConcatProperties
<1>8. CookiePair(c) \in Seq(S)
  BY <1>7 DEF CookiePair, e
<1>9. CookiePair(c) \o c.rest \in Seq(S)
  BY <1>1, <1>8, ConcatProperties
<1>10. CookieLine(c) \in Seq(S) /\ Len(CookieLine(c)) = Len(CookiePair(c) \o c.rest) + Len(EOL)
  BY <1>2, <1>9, ConcatProperties DEF CookieLine
<1>11. Len(CookiePair(c) \o c.rest) \in Nat /\ Len(EOL) = 2
  BY <1>9, LenProperties DEF EOL
<1> QED
  BY <1>10, <1>11

\* The headers, line by line: two lines, one for every cookie, an empty one.
LEMMA HeaderText ==
  ASSUME NEW cs, AreCookies(cs)
  PROVE  /\ Headers(cs) \in Seq(Seq(All \ {"<"})) /\ Len(Headers(cs)) = Len(cs) + 3 /\ Len(cs) \in Nat
         /\ Headers(cs)[1] = <<"HTTP/1.1", "\r", "\n">>
         /\ Headers(cs)[2] = <<"Server", "\r", "\n">>
         /\ \A i \in 1 .. Len(cs) : Headers(cs)[i + 2] = CookieLine(cs[i])
         /\ Headers(cs)[Len(cs) + 3] = EOL
         /\ \A i \in 1 .. Len(cs) + 3 : Headers(cs)[i] # << >>
<1> DEFINE T == All \ {"<"}
           S == Seq(T)
<1>1. Len(cs) \in Nat /\ DOMAIN cs = 1 .. Len(cs)
  BY DEF AreCookies
<1>2. FirstLines = <<<<"HTTP/1.1", "\r", "\n">>, <<"Server", "\r", "\n">>>>
  BY DEF FirstLines, CR, LF
<1>3. FirstLines \in Seq(S) /\ Len(FirstLines) = 2 /\ <<EOL>> \in Seq(S) /\ Len(<<EOL>>) = 1
  <2>1. {"HTTP/1.1", "Server", "\r", "\n"} \subseteq T
    BY DEF All, Written
  <2>2. EOL \in S /\ <<"HTTP/1.1", "\r", "\n">> \in S /\ <<"Server", "\r", "\n">> \in S
    <3> HIDE DEF T
    <3>1. "HTTP/1.1" \in T /\ "Server" \in T /\ "\r" \in T /\ "\n" \in T
      BY <2>1
    <3> QED
      BY <3>1, ShortSeqs, Zenon DEF EOL
  <2> HIDE DEF S
  <2> QED
    BY <1>2, <2>2
<1>4. \A i \in 1 .. Len(cs) : CookieLine(cs[i]) \in S /\ CookieLine(cs[i]) # << >>
  <2>1. \A i \in 1 .. Len(cs) : IsCookie(cs[i])
    BY <1>1 DEF AreCookies
  <2> HIDE DEF S
  <2>2. \A c : IsCookie(c) => CookieLine(c) \in S /\ CookieLine(c) # << >>
    BY CookieLineIsText DEF S
  <2> QED
    BY <2>1, <2>2
<1>5. CookieLines(cs) = [i \in 1 .. Len(cs) |-> CookieLine(cs[i])]
  BY DEF CookieLines, CookieLine
<1> HIDE DEF S
<1>6. CookieLines(cs) \in Seq(S) /\ Len(CookieLines(cs)) = Len(cs)
  BY <1>1, <1>4, <1>5
<1> DEFINE t == FirstLines \o CookieLines(cs)
<1>7. /\ t \in Seq(S) /\ Len(t) = 2 + Len(cs)
      /\ \A i \in 1 .. 2 + Len(cs) : t[i] = IF i <= 2 THEN FirstLines[i] ELSE CookieLines(cs)[i - 2]
  <2>1. /\ t \in Seq(S) /\ Len(t) = Len(FirstLines) + Len(CookieLines(cs))
        /\ \A i \in 1 .. Len(FirstLines) + Len(CookieLines(cs)) :
             t[i] = IF i <= Len(FirstLines) THEN FirstLines[i] ELSE CookieLines(cs)[i - Len(FirstLines)]
    BY <1>3, <1>6, Join2, ConcatAt, Zenon
  <2> QED
    BY <1>3, <1>6, <2>1
<1> HIDE DEF t
<1>9. Headers(cs) \in Seq(S) /\ Len(Headers(cs)) = Len(cs) + 3
  BY <1>1, <1>3, <1>7, ConcatProperties DEF Headers, t
<1>10. \A i \in 1 .. 3 + Len(cs) : Headers(cs)[i] = IF i <= 2 + Len(cs) THEN t[i] ELSE <<EOL>>[i - (2 + Len(cs))]
  BY <1>1, <1>3, <1>7, ConcatProperties DEF Headers, t
<1>11. Headers(cs)[1] = <<"HTTP/1.1", "\r", "\n">> /\ Headers(cs)[2] = <<"Server", "\r", "\n">>
  BY <1>1, <1>2, <1>7, <1>10
<1>12. ASSUME NEW i \in 1 .. Len(cs) PROVE Headers(cs)[i + 2] = CookieLine(cs[i])
  <2>1. i + 2 \in 1 .. 2 + Len(cs) /\ i + 2 \in 1 .. 3 + Len(cs) /\ ~(i + 2 <= 2) /\ i + 2 - 2 = i
    BY <1>1
  <2>2. Headers(cs)[i + 2] = CookieLines(cs)[i]
    BY <1>1, <1>7, <1>10, <2>1
  <2> QED
    BY <1>5, <2>2
<1>13. Headers(cs)[Len(cs) + 3] = EOL
  <2>1. Len(cs) + 3 \in 1 .. 3 + Len(cs) /\ ~(Len(cs) + 3 <= 2 + Len(cs)) /\ Len(cs) + 3 - (2 + Len(cs)) = 1
    BY <1>1
  <2> QED
    BY <1>10, <2>1
<1>14. ASSUME NEW i \in 1 .. Len(cs) + 3 PROVE Headers(cs)[i] # << >>
  <2>1. CASE i = 1 \/ i = 2 \/ i = Len(cs) + 3
    BY <1>11, <1>13, <2>1 DEF EOL
  <2>2. CASE i \in 3 .. Len(cs) + 2
    <3>1. i - 2 \in 1 .. Len(cs) /\ (i - 2) + 2 = i
      BY <1>1, <2>2
    <3> QED
      BY <1>4, <1>12, <3>1
  <2> QED
    BY <1>1, <2>1, <2>2
<1> QED
  BY <1>1, <1>9, <1>11, <1>12, <1>13, <1>14 DEF S

IsAnswer(t, cs, pg) == AreCookies(cs) /\ IsPage(pg) /\ t = Headers(cs) \o WritePage(pg)

\* Its lines and parts, none empty.
HasParts(t, cs, pg) ==
  /\ Len(cs) \in Nat /\ Len(pg) \in Nat /\ Len(t) = Len(cs) + 3 + Len(pg)
  /\ \A i \in 1 .. Len(cs) + 3 : t[i] = Headers(cs)[i]
  /\ \A i \in 1 .. Len(pg) : t[i + (Len(cs) + 3)] = WritePart(pg[i])
  /\ \A i \in 1 .. Len(t) : t[i] \in Seq(All) /\ t[i] # << >>

\* An answer's lines and parts, by their places.
LEMMA TextOf ==
  ASSUME NEW cs, NEW pg, NEW t, IsAnswer(t, cs, pg)
  PROVE  HasParts(t, cs, pg)
<1>1. AreCookies(cs) /\ IsPage(pg) /\ t = Headers(cs) \o WritePage(pg)
  BY DEF IsAnswer
<1>2. /\ Headers(cs) \in Seq(Seq(All \ {"<"})) /\ Len(Headers(cs)) = Len(cs) + 3 /\ Len(cs) \in Nat
      /\ \A i \in 1 .. Len(cs) + 3 : Headers(cs)[i] # << >>
  BY <1>1, HeaderText
<1> DEFINE S == Seq(All)
<1>3. Seq(All \ {"<"}) \subseteq S
  <2>1. All \ {"<"} \subseteq All
    OBVIOUS
  <2> QED
    BY <2>1, SeqMono
<1>4. Len(pg) \in Nat /\ \A i \in 1 .. Len(pg) : WritePart(pg[i]) \in S /\ WritePart(pg[i]) # << >>
  BY <1>1 DEF IsPage
<1> HIDE DEF S
<1>5. Headers(cs) \in Seq(S)
  BY <1>2, <1>3, SeqMono
<1>6. WritePage(pg) \in Seq(S) /\ Len(WritePage(pg)) = Len(pg)
      /\ \A i \in 1 .. Len(pg) : WritePage(pg)[i] = WritePart(pg[i])
  BY <1>4 DEF WritePage
<1> DEFINE h == Headers(cs)
           w == WritePage(pg)
<1>7. /\ t \in Seq(S) /\ Len(t) = Len(h) + Len(w)
      /\ \A i \in 1 .. Len(h) + Len(w) : t[i] = IF i <= Len(h) THEN h[i] ELSE w[i - Len(h)]
  <2> HIDE DEF h, w
  <2>1. h \in Seq(S) /\ w \in Seq(S) /\ t = h \o w
    BY <1>1, <1>5, <1>6 DEF h, w
  <2> QED
    BY <2>1, ConcatProperties, Zenon
<1> HIDE DEF h, w
<1>8. Len(h) = Len(cs) + 3 /\ Len(w) = Len(pg) /\ Len(cs) \in Nat /\ Len(pg) \in Nat
  BY <1>2, <1>4, <1>6 DEF h, w
<1>9. \A i \in 1 .. Len(cs) + 3 : t[i] = h[i]
  BY <1>7, <1>8
<1>10. ASSUME NEW i \in 1 .. Len(pg) PROVE t[i + (Len(cs) + 3)] = w[i]
  <2>1. PICK q : q = i + (Len(cs) + 3)
    OBVIOUS
  <2>2. q \in 1 .. Len(h) + Len(w) /\ ~(q <= Len(h)) /\ q - Len(h) = i
    BY <1>8, <2>1
  <2> QED
    BY <1>7, <2>1, <2>2
<1>11. \A i \in 1 .. Len(pg) : t[i + (Len(cs) + 3)] = WritePart(pg[i])
  BY <1>6, <1>10 DEF w
<1>12. ASSUME NEW i \in 1 .. Len(t) PROVE t[i] \in S /\ t[i] # << >>
  <2>1. t[i] \in S
    BY <1>7
  <2>2. CASE i <= Len(cs) + 3
    <3>1. i \in 1 .. Len(cs) + 3
      BY <1>7, <1>8, <2>2
    <3> QED
      BY <1>2, <1>9, <2>1, <3>1 DEF h
  <2>3. CASE i > Len(cs) + 3
    <3>1. PICK q : q = i - (Len(cs) + 3)
      OBVIOUS
    <3>2. q \in 1 .. Len(pg) /\ q + (Len(cs) + 3) = i
      BY <1>7, <1>8, <2>3, <3>1
    <3> QED
      BY <1>4, <1>11, <2>1, <3>2
  <2> QED
    BY <1>8, <2>2, <2>3
<1> QED
  BY <1>7, <1>8, <1>9, <1>11, <1>12 DEF S, h, HasParts

\* The same of the answer that is being read.
LEMMA TextIs ==
  ASSUME Sending, turn # "ask"
  PROVE  /\ Len(sets) \in Nat /\ Len(page) \in Nat /\ Len(text) = Len(sets) + 3 + Len(page)
         /\ \A i \in 1 .. Len(sets) + 3 : text[i] = Headers(sets)[i]
         /\ \A i \in 1 .. Len(page) : text[i + (Len(sets) + 3)] = WritePart(page[i])
         /\ \A i \in 1 .. Len(text) : text[i] \in Seq(All) /\ text[i] # << >>
<1>1. IsAnswer(text, sets, page)
  BY DEF Sending, IsAnswer
<1>2. HasParts(text, sets, page)
  BY <1>1, TextOf
<1> QED
  BY <1>2 DEF HasParts

\* The symbol being read.
LEMMA SymbolIs ==
  ASSUME Sending, turn # "ask", ~AllRead
  PROVE  /\ line \in 1 .. Len(text) /\ at \in 1 .. Len(text[line]) /\ text[line][at] \in All
         /\ Len(text) \in Nat /\ Len(text[line]) \in Nat
<1>1. line \in Nat \ {0} /\ at \in Nat \ {0} /\ at <= Len(text[line])
  BY DEF Sending
<1>2. Len(text) \in Nat /\ \A i \in 1 .. Len(text) : text[i] \in Seq(All)
  BY TextIs
<1>3. line \in 1 .. Len(text)
  BY <1>1, <1>2 DEF AllRead
<1>4. text[line] \in Seq(All)
  BY <1>2, <1>3
<1> QED
  BY <1>1, <1>2, <1>3, <1>4

\* The next place is one of the answer too.
LEMMA AdvanceIs ==
  ASSUME Sending, turn # "ask", ~AllRead, Advance, text' = text
  PROVE  /\ line' \in Nat \ {0} /\ at' \in Nat \ {0}
         /\ ~(line' > Len(text)) => at' <= Len(text[line'])
<1>1. /\ line \in 1 .. Len(text) /\ at \in 1 .. Len(text[line])
      /\ Len(text) \in Nat /\ Len(text[line]) \in Nat
  BY SymbolIs
<1>2. CASE at < Len(text[line])
  BY <1>1, <1>2 DEF Advance
<1>3. CASE ~(at < Len(text[line]))
  <2>1. line' = line + 1 /\ at' = 1
    BY <1>3 DEF Advance
  <2>2. ASSUME ~(line' > Len(text)) PROVE 1 <= Len(text[line'])
    <3>1. line' \in 1 .. Len(text)
      BY <1>1, <2>1, <2>2
    <3>2. text[line'] \in Seq(All) /\ text[line'] # << >>
      BY <3>1, TextIs
    <3> QED
      BY <3>2
  <2> QED
    BY <1>1, <2>1, <2>2
<1> QED
  BY <1>2, <1>3

\* So has one that is not empty.
LEMMA JoinLong ==
  ASSUME NEW S, NEW s \in Seq(S), NEW t \in Seq(S), Len(s) > 3
  PROVE  s \o t \in Seq(S) /\ Len(s \o t) > 3
  BY Join2

\* A digit is a symbol, and no key of a form.
LEMMA DigitsAreSymbols == \A x \in 1 .. 10 : Digits[x] \in Keyless /\ Digits[x] \in All
<1>1. {"0", "1", "2", "3", "4", "5", "6", "7", "8", "9"} \subseteq Keyless
  BY DEF Keyless, All, Written, FormKeys
<1>2. ASSUME NEW x \in 1 .. 10
      PROVE  Digits[x] \in {"0", "1", "2", "3", "4", "5", "6", "7", "8", "9"}
  BY DEF Digits
<1> QED
  BY <1>1, <1>2 DEF Keyless

\* An identifier is written with digits, at most two of them.
LEMMA IdIsKeyless ==
  ASSUME NEW mess \in 1 .. MaxMsg PROVE IdOf(mess) \in Seq(Keyless)
<1> DEFINE v == First + mess
<1>1. v \in 0 .. 99
  BY AnswerAssumption
<1> HIDE DEF v
<1>2. \A x \in 0 .. 9 : Digits[x + 1] \in Keyless
  <2>1. \A x \in 0 .. 9 : x + 1 \in 1 .. 10
    OBVIOUS
  <2> QED
    BY <2>1, DigitsAreSymbols
<1>3. CASE v < 10
  <2>1. Decimal(mess) = <<v>> /\ v \in 0 .. 9
    BY <1>1, <1>3 DEF Decimal, v
  <2>2. IdOf(mess) = [i \in 1 .. 1 |-> Digits[v + 1]]
    BY <2>1 DEF IdOf
  <2> QED
    BY <1>2, <2>1, <2>2
<1>4. CASE v >= 10
  <2>1. Decimal(mess) = <<v \div 10, v % 10>> /\ v \div 10 \in 0 .. 9 /\ v % 10 \in 0 .. 9
    BY <1>1, <1>4 DEF Decimal, v
  <2>2. PICK x \in 0 .. 9, y \in 0 .. 9 : Decimal(mess) = <<x, y>>
    BY <2>1
  <2>3. IdOf(mess) = [i \in 1 .. 2 |-> Digits[<<x, y>>[i] + 1]]
    BY <2>2 DEF IdOf
  <2>4. \A i \in 1 .. 2 : <<x, y>>[i] \in 0 .. 9
    OBVIOUS
  <2> QED
    BY <1>2, <2>3, <2>4
<1> QED
  BY <1>1, <1>3, <1>4

\* A message, as the forum writes it, holds no key of a form.
LEMMA MessageIsKeyless ==
  ASSUME NEW mess \in 1 .. MaxMsg
  PROVE  /\ WritePart(MessagePart(mess)) \in Seq(Keyless) /\ WritePart(MessagePart(mess)) # << >>
         /\ MessagePart(mess).kind = "message"
<1> DEFINE p == MessagePart(mess)
           S == Keyless
<1>1. p.kind = "message" /\ p.icon = "icon" /\ p.profile = "profile" /\ p.username = "author"
      /\ p.id = IdOf(mess) /\ p.text = ContentOf(mess)
  BY DEF MessagePart
<1>2. p.id \in Seq(S)
  BY <1>1, IdIsKeyless
<1>3. p.text \in Seq(S)
  <2>1. ContentOf(mess) \in Seq(Plain)
    BY ContentAssumption
  <2>2. Plain \subseteq S
    BY DEF Plain, Keyless, All
  <2> QED
    BY <1>1, <2>1, <2>2, SeqMono
<1>4. {"<", "div ", "id=m", "ess", "\"", ">", "img ", "icon", "/>", "\r", "\n", "a ", "href=", ".",
       "profile", "author", "/a>", "class=avatarMessage", "/div>"} \subseteq S
  BY DEF Keyless, All, Written, FormKeys
<1> HIDE DEF S, p
<1>5. /\ "<" \in S /\ "div " \in S /\ "id=m" \in S /\ "ess" \in S /\ "\"" \in S /\ ">" \in S
      /\ "img " \in S /\ "icon" \in S /\ "/>" \in S /\ "\r" \in S /\ "\n" \in S /\ "a " \in S
      /\ "href=" \in S /\ "." \in S /\ "profile" \in S /\ "author" \in S /\ "/a>" \in S
      /\ "class=avatarMessage" \in S /\ "/div>" \in S
  BY <1>4
<1>6. DivMess \in Seq(S) /\ Len(DivMess) = 4
  BY <1>5, ShortSeqs, Zenon DEF DivMess
<1>7. <<QUOTE, ">">> \in Seq(S) /\ ImgSrc \in Seq(S) /\ EOL \in Seq(S)
  BY <1>5, ShortSeqs, Zenon DEF QUOTE, ImgSrc, EOL
<1>8. <<p.icon, QUOTE, "/>">> \in Seq(S)
  BY <1>1, <1>5, ShortSeqs, Zenon DEF QUOTE
<1>9. ProfileHref \in Seq(S) /\ MessageDiv \in Seq(S) /\ EndDiv \in Seq(S)
  BY <1>5, ShortSeqs, Zenon DEF ProfileHref, MessageDiv, EndDiv
<1>10. <<p.profile, QUOTE, ">", p.username, "<", "/a>">> \in Seq(S)
  BY <1>1, <1>5, ShortSeqs, Zenon DEF QUOTE
<1> DEFINE a == DivMess \o p.id
           b == a \o <<QUOTE, ">">> \o ImgSrc
           c == b \o <<p.icon, QUOTE, "/>">> \o EOL
           d == c \o ProfileHref \o <<p.profile, QUOTE, ">", p.username, "<", "/a>">>
           e == d \o MessageDiv \o p.text \o EndDiv \o EndDiv
<1>11. a \in Seq(S) /\ Len(a) > 3
  <2>1. Len(DivMess) > 3
    BY <1>6
  <2> QED
    BY <1>2, <1>6, <2>1, JoinLong, Zenon
<1> HIDE DEF a
<1>12. b \in Seq(S) /\ Len(b) > 3
  <2>1. a \o <<QUOTE, ">">> \in Seq(S) /\ Len(a \o <<QUOTE, ">">>) > 3
    BY <1>7, <1>11, JoinLong, Zenon
  <2> QED
    BY <1>7, <2>1, JoinLong, Zenon
<1> HIDE DEF b
<1>13. c \in Seq(S) /\ Len(c) > 3
  <2>1. b \o <<p.icon, QUOTE, "/>">> \in Seq(S) /\ Len(b \o <<p.icon, QUOTE, "/>">>) > 3
    BY <1>8, <1>12, JoinLong, Zenon
  <2> QED
    BY <1>7, <2>1, JoinLong, Zenon
<1> HIDE DEF c
<1>14. d \in Seq(S) /\ Len(d) > 3
  <2>1. c \o ProfileHref \in Seq(S) /\ Len(c \o ProfileHref) > 3
    BY <1>9, <1>13, JoinLong, Zenon
  <2> QED
    BY <1>10, <2>1, JoinLong, Zenon
<1> HIDE DEF d
<1>15. e \in Seq(S) /\ Len(e) > 3
  <2>1. d \o MessageDiv \in Seq(S) /\ Len(d \o MessageDiv) > 3
    BY <1>9, <1>14, JoinLong, Zenon
  <2>2. d \o MessageDiv \o p.text \in Seq(S) /\ Len(d \o MessageDiv \o p.text) > 3
    BY <1>3, <2>1, JoinLong, Zenon
  <2>3. d \o MessageDiv \o p.text \o EndDiv \in Seq(S) /\ Len(d \o MessageDiv \o p.text \o EndDiv) > 3
    BY <1>9, <2>2, JoinLong, Zenon
  <2> QED
    BY <1>9, <2>3, JoinLong, Zenon
<1>16. WritePart(p) = e
  <2>1. WriteMessage(p) = e
    BY Zenon DEF WriteMessage, a, b, c, d
  <2> HIDE DEF e
  <2> QED
    BY <1>1, <2>1 DEF WritePart
<1> HIDE DEF e
<1>17. e # << >>
  BY <1>15
<1>18. WritePart(p) \in Seq(S)
  BY <1>15, <1>16, Zenon
<1>19. p.kind = "message" /\ WritePart(p) # << >>
  BY <1>1, <1>16, <1>17, Zenon
<1>20. p = MessagePart(mess) /\ S = Keyless
  BY DEF S, p
<1> QED
  BY <1>18, <1>19, <1>20, Zenon

\* Nor does the link of a person, which is nine symbols long.
LEMMA PersonIsKeyless ==
  ASSUME NEW u \in [username : Plain, profile : Plain]
  PROVE  WritePerson(u) \in Seq(Keyless) /\ Len(WritePerson(u)) = 9
<1> DEFINE S == Keyless
<1>1. /\ {"<", "a ", "href=", "\"", ">", "/a>"} \subseteq S
      /\ {u.username, u.profile} \subseteq S
  <2>1. {"<", "a ", "href=", "\"", ">", "/a>"} \subseteq S
    BY DEF Keyless, All, Written, FormKeys
  <2>2. {u.username, u.profile} \subseteq S
    <3>1. u.username \in Plain /\ u.profile \in Plain
      OBVIOUS
    <3>2. Plain \subseteq S
      BY DEF Keyless, All, Plain
    <3> QED
      BY <3>1, <3>2
  <2> QED
    BY <2>1, <2>2
<1> HIDE DEF S
<1>2. /\ "<" \in S /\ "a " \in S /\ "href=" \in S /\ "\"" \in S /\ ">" \in S /\ "/a>" \in S
      /\ u.username \in S /\ u.profile \in S
  BY <1>1
<1>3. /\ ALink \in Seq(S) /\ Len(ALink) = 2 /\ Href \in Seq(S) /\ Len(Href) = 1
      /\ <<u.profile, QUOTE, ">", u.username, "<", "/a>">> \in Seq(S)
      /\ Len(<<u.profile, QUOTE, ">", u.username, "<", "/a>">>) = 6
  BY <1>2, ShortSeqs, Zenon DEF QUOTE, ALink, Href
<1>4. ALink \o Href \in Seq(S) /\ Len(ALink \o Href) = 3
  <2>1. ALink \o Href \in Seq(S) /\ Len(ALink \o Href) = Len(ALink) + Len(Href)
    BY <1>3, Join2, Zenon
  <2> QED
    BY <1>3, <2>1
<1>5. WritePerson(u) \in Seq(S)
      /\ Len(WritePerson(u)) = Len(ALink \o Href) + Len(<<u.profile, QUOTE, ">", u.username, "<", "/a>">>)
  BY <1>3, <1>4, Join2, Zenon DEF WritePerson
<1> QED
  BY <1>3, <1>4, <1>5 DEF S

\* Nor do those of all the people there.
LEMMA PeopleAreKeyless ==
  ASSUME NEW people \in Presences
  PROVE  WritePeople(people) \in Seq(Keyless)
<1>1. people \in Seq([username : Plain, profile : Plain])
  BY PresencesAssumption
<1>2. \A i \in 1 .. Len(people) : WritePerson(people[i]) \in Seq(Keyless) /\ Len(WritePerson(people[i])) = 9
  <2> DEFINE R == [username : Plain, profile : Plain]
  <2>1. \A i \in 1 .. Len(people) : people[i] \in R
    <3> HIDE DEF R
    <3>1. people \in Seq(R)
      BY <1>1 DEF R
    <3> QED
      BY <3>1
  <2> QED
    BY <2>1, PersonIsKeyless, Zenon
<1>3. Len(people) \in Nat
  BY <1>1
<1>4. ASSUME NEW i \in 1 .. PersonSize * Len(people)
      PROVE  WritePerson(people[((i - 1) \div PersonSize) + 1])[((i - 1) % PersonSize) + 1] \in Keyless
  <2>1. ((i - 1) \div 9) + 1 \in 1 .. Len(people) /\ ((i - 1) % 9) + 1 \in 1 .. 9
    BY <1>3 DEF PersonSize
  <2>2. PICK x, y : x = ((i - 1) \div 9) + 1 /\ y = ((i - 1) % 9) + 1
    OBVIOUS
  <2>3. WritePerson(people[x])[y] \in Keyless
    BY <1>2, <2>1, <2>2
  <2> QED
    BY <2>2, <2>3 DEF PersonSize
<1>5. PersonSize * Len(people) \in Nat
  BY <1>3 DEF PersonSize
<1> QED
  BY <1>4, <1>5 DEF WritePeople

\* Nor does the list of the people with its topic.
LEMMA StatsAreKeyless ==
  ASSUME NEW people \in Presences
  PROVE  /\ WritePart(StatsPart(people)) \in Seq(Keyless) /\ WritePart(StatsPart(people)) # << >>
         /\ StatsPart(people).kind = "stats"
<1> DEFINE p == StatsPart(people)
           S == Keyless
           br == IF p.people = << >> THEN << >> ELSE Br
<1>1. p.kind = "stats" /\ p.topic = "topic" /\ p.people = people
  BY DEF StatsPart
<1>2. {"<", "div ", "id=m", "ChatStats class", "topic", "br />", "/div>"} \subseteq S
  BY DEF Keyless, All, Written, FormKeys
<1>3. WritePeople(p.people) \in Seq(S)
  BY <1>1, PeopleAreKeyless
<1> HIDE DEF S, p
<1>4. /\ "<" \in S /\ "div " \in S /\ "id=m" \in S /\ "ChatStats class" \in S /\ "topic" \in S
      /\ "br />" \in S /\ "/div>" \in S
  BY <1>2
<1>5. StatsIdCl \in Seq(S) /\ Len(StatsIdCl) = 4
  BY <1>4, ShortSeqs, Zenon DEF StatsIdCl
<1>6. Br \in Seq(S) /\ EndDiv \in Seq(S) /\ << >> \in Seq(S) /\ <<p.topic>> \in Seq(S)
  BY <1>1, <1>4, ShortSeqs, Zenon DEF Br, EndDiv
<1>7. br \in Seq(S)
  BY <1>6
<1> HIDE DEF br
<1> DEFINE a == StatsIdCl \o <<p.topic>>
           b == a \o br
           c == b \o WritePeople(p.people)
           e == c \o EndDiv
<1>8. a \in Seq(S) /\ Len(a) > 3
  <2>1. Len(StatsIdCl) > 3
    BY <1>5
  <2> QED
    BY <1>5, <1>6, <2>1, JoinLong, Zenon
<1> HIDE DEF a
<1>9. b \in Seq(S) /\ Len(b) > 3
  BY <1>7, <1>8, JoinLong, Zenon
<1> HIDE DEF b
<1>10. c \in Seq(S) /\ Len(c) > 3
  BY <1>3, <1>9, JoinLong, Zenon
<1> HIDE DEF c
<1>11. e \in Seq(S) /\ Len(e) > 3
  BY <1>6, <1>10, JoinLong, Zenon
<1> HIDE DEF e
<1>12. e # << >>
  BY <1>11
<1>13. WritePart(p) = e
  <2>1. WriteStats(p) = e
    BY Zenon DEF WriteStats, a, b, c, e, br
  <2> QED
    BY <1>1, <2>1 DEF WritePart
<1> QED
  BY <1>1, <1>11, <1>12, <1>13 DEF S, p

\* A text of 16 symbols, symbol by symbol.
FormText(w, x) ==
  /\ Len(w) = 16
  /\ w[1] = "<" /\ w[2] = "input " /\ w[3] = "hidden" /\ w[4] = "creation_time"
  /\ w[5] = x /\ w[6] = "\"" /\ w[7] = "/>" /\ w[8] = "\r" /\ w[9] = "\n"
  /\ w[10] = "<" /\ w[11] = "input " /\ w[12] = "hidden" /\ w[13] = "form_token"
  /\ w[14] = x /\ w[15] = "\"" /\ w[16] = "/>"

\* The text of a form that has x twice.
LEMMA FormIs ==
  ASSUME NEW p, NEW x \in All, p = [kind |-> "form", creation_time |-> x, form_token |-> x]
  PROVE  WritePart(p) \in Seq(All) /\ FormText(WritePart(p), x)
<1> DEFINE S == All
           v == <<x, "\"", "/>">>
           a == CreationKey \o v
           b == a \o EOL
           c == b \o TokenKey
           e == c \o v
<1>1. p.kind = "form" /\ p.creation_time = x /\ p.form_token = x
  OBVIOUS
<1>2. WritePart(p) = e
  <2>1. WriteForm(p) = e
    BY <1>1, Zenon DEF WriteForm, QUOTE
  <2> HIDE DEF e
  <2> QED
    BY <1>1, <2>1 DEF WritePart
<1>3. {"<", "input ", "hidden", "creation_time", "form_token", "\"", "/>", "\r", "\n"} \subseteq S
  BY DEF All, Written, FormKeys
<1>4. x \in S
  OBVIOUS
<1> HIDE DEF S
<1>5. /\ "<" \in S /\ "input " \in S /\ "hidden" \in S /\ "creation_time" \in S /\ "form_token" \in S
      /\ "\"" \in S /\ "/>" \in S /\ "\r" \in S /\ "\n" \in S
  BY <1>3
<1>6. CreationKey \in Seq(S) /\ Len(CreationKey) = 4 /\ TokenKey \in Seq(S) /\ Len(TokenKey) = 4
  BY <1>5, ShortSeqs, Zenon DEF CreationKey, TokenKey
<1>7. v \in Seq(S) /\ Len(v) = 3 /\ EOL \in Seq(S) /\ Len(EOL) = 2
  BY <1>4, <1>5, ShortSeqs, Zenon DEF EOL
<1>8. v[1] = x /\ v[2] = "\"" /\ v[3] = "/>" /\ EOL[1] = "\r" /\ EOL[2] = "\n"
  BY DEF EOL
<1>9. /\ CreationKey[1] = "<" /\ CreationKey[2] = "input " /\ CreationKey[3] = "hidden"
      /\ CreationKey[4] = "creation_time"
      /\ TokenKey[1] = "<" /\ TokenKey[2] = "input " /\ TokenKey[3] = "hidden" /\ TokenKey[4] = "form_token"
  BY DEF CreationKey, TokenKey
<1> HIDE DEF v
<1>10. /\ a \in Seq(S) /\ Len(a) = 7
       /\ \A i \in 1 .. 7 : a[i] = IF i <= 4 THEN CreationKey[i] ELSE v[i - 4]
  <2>1. a \in Seq(S) /\ Len(a) = Len(CreationKey) + Len(v)
    BY <1>6, <1>7, Join2, Zenon
  <2>2. \A i \in 1 .. Len(CreationKey) + Len(v) :
          a[i] = IF i <= Len(CreationKey) THEN CreationKey[i] ELSE v[i - Len(CreationKey)]
    BY <1>6, <1>7, ConcatAt, Zenon
  <2> HIDE DEF a
  <2> QED
    BY <1>6, <1>7, <2>1, <2>2
<1> HIDE DEF a
<1>11. /\ a[1] = "<" /\ a[2] = "input " /\ a[3] = "hidden" /\ a[4] = "creation_time"
       /\ a[5] = x /\ a[6] = "\"" /\ a[7] = "/>"
  <2>1. /\ a[1] = CreationKey[1] /\ a[2] = CreationKey[2] /\ a[3] = CreationKey[3]
        /\ a[4] = CreationKey[4] /\ a[5] = v[1] /\ a[6] = v[2] /\ a[7] = v[3]
    BY <1>10
  <2> QED
    BY <1>8, <1>9, <2>1, Zenon
<1>12. /\ b \in Seq(S) /\ Len(b) = 9
       /\ \A i \in 1 .. 9 : b[i] = IF i <= 7 THEN a[i] ELSE EOL[i - 7]
  <2>1. b \in Seq(S) /\ Len(b) = Len(a) + Len(EOL)
    BY <1>7, <1>10, Join2, Zenon
  <2>2. \A i \in 1 .. Len(a) + Len(EOL) : b[i] = IF i <= Len(a) THEN a[i] ELSE EOL[i - Len(a)]
    BY <1>7, <1>10, ConcatAt, Zenon
  <2> HIDE DEF b
  <2> QED
    BY <1>7, <1>10, <2>1, <2>2
<1> HIDE DEF b
<1>13. /\ b[1] = "<" /\ b[2] = "input " /\ b[3] = "hidden" /\ b[4] = "creation_time"
       /\ b[5] = x /\ b[6] = "\"" /\ b[7] = "/>" /\ b[8] = "\r" /\ b[9] = "\n"
  <2>1. /\ b[1] = a[1] /\ b[2] = a[2] /\ b[3] = a[3] /\ b[4] = a[4] /\ b[5] = a[5]
        /\ b[6] = a[6] /\ b[7] = a[7] /\ b[8] = EOL[1] /\ b[9] = EOL[2]
    BY <1>12
  <2> QED
    BY <1>8, <1>11, <2>1, Zenon
<1>14. /\ c \in Seq(S) /\ Len(c) = 13
       /\ \A i \in 1 .. 13 : c[i] = IF i <= 9 THEN b[i] ELSE TokenKey[i - 9]
  <2>1. c \in Seq(S) /\ Len(c) = Len(b) + Len(TokenKey)
    BY <1>6, <1>12, Join2, Zenon
  <2>2. \A i \in 1 .. Len(b) + Len(TokenKey) : c[i] = IF i <= Len(b) THEN b[i] ELSE TokenKey[i - Len(b)]
    BY <1>6, <1>12, ConcatAt, Zenon
  <2> HIDE DEF c
  <2> QED
    BY <1>6, <1>12, <2>1, <2>2
<1> HIDE DEF c
<1>15. /\ c[1] = "<" /\ c[2] = "input " /\ c[3] = "hidden" /\ c[4] = "creation_time"
       /\ c[5] = x /\ c[6] = "\"" /\ c[7] = "/>" /\ c[8] = "\r" /\ c[9] = "\n"
       /\ c[10] = "<" /\ c[11] = "input " /\ c[12] = "hidden" /\ c[13] = "form_token"
  <2>1. /\ c[1] = b[1] /\ c[2] = b[2] /\ c[3] = b[3] /\ c[4] = b[4] /\ c[5] = b[5]
        /\ c[6] = b[6] /\ c[7] = b[7] /\ c[8] = b[8] /\ c[9] = b[9]
        /\ c[10] = TokenKey[1] /\ c[11] = TokenKey[2] /\ c[12] = TokenKey[3] /\ c[13] = TokenKey[4]
    BY <1>14
  <2> QED
    BY <1>9, <1>13, <2>1, Zenon
<1>16. /\ e \in Seq(S) /\ Len(e) = 16
       /\ \A i \in 1 .. 16 : e[i] = IF i <= 13 THEN c[i] ELSE v[i - 13]
  <2>1. e \in Seq(S) /\ Len(e) = Len(c) + Len(v)
    BY <1>7, <1>14, Join2, Zenon
  <2>2. \A i \in 1 .. Len(c) + Len(v) : e[i] = IF i <= Len(c) THEN c[i] ELSE v[i - Len(c)]
    BY <1>7, <1>14, ConcatAt, Zenon
  <2> HIDE DEF e
  <2> QED
    BY <1>7, <1>14, <2>1, <2>2
<1> HIDE DEF e
<1>17. FormText(e, x)
  <2>1. /\ e[1] = c[1] /\ e[2] = c[2] /\ e[3] = c[3] /\ e[4] = c[4] /\ e[5] = c[5]
        /\ e[6] = c[6] /\ e[7] = c[7] /\ e[8] = c[8] /\ e[9] = c[9]
        /\ e[10] = c[10] /\ e[11] = c[11] /\ e[12] = c[12] /\ e[13] = c[13]
    <3>1. \A i \in 1 .. 13 : e[i] = c[i]
      BY <1>16
    <3> QED
      BY <3>1
  <2>2. e[14] = v[1] /\ e[15] = v[2] /\ e[16] = v[3]
    <3>1. \A i \in 14 .. 16 : e[i] = v[i - 13]
      BY <1>16
    <3> QED
      BY <3>1
  <2>3. Len(e) = 16
    BY <1>16
  <2>4. /\ e[1] = "<" /\ e[2] = "input " /\ e[3] = "hidden" /\ e[4] = "creation_time"
        /\ e[5] = x /\ e[6] = "\"" /\ e[7] = "/>" /\ e[8] = "\r" /\ e[9] = "\n"
    BY <1>15, <2>1, Zenon
  <2>5. e[10] = "<" /\ e[11] = "input " /\ e[12] = "hidden" /\ e[13] = "form_token"
    BY <1>15, <2>1, Zenon
  <2>6. e[14] = x /\ e[15] = "\"" /\ e[16] = "/>"
    BY <1>8, <2>2, Zenon
  <2> QED
    BY <2>3, <2>4, <2>5, <2>6, Zenon DEF FormText
<1> QED
  BY <1>2, <1>16, <1>17 DEF S

\* A part that is no form.
IsOther(p) == WritePart(p) \in Seq(Keyless) /\ WritePart(p) # << >> /\ p.kind # "form"

\* A text without a key of a form is a text.
LEMMA KeylessIsText == ASSUME NEW w \in Seq(Keyless) PROVE w \in Seq(All)
<1>1. Keyless \subseteq All
  BY DEF Keyless
<1> QED
  BY <1>1, SeqMono

\* A page without a form.
LEMMA OthersArePage ==
  ASSUME NEW O, \A p \in O : IsOther(p), NEW t \in Seq(O)
  PROVE  IsPage(t) /\ \A i \in 1 .. Len(t) : t[i].kind # "form"
<1>1. Len(t) \in Nat /\ t = [i \in 1 .. Len(t) |-> t[i]] /\ \A i \in 1 .. Len(t) : t[i] \in O
  OBVIOUS
<1>2. \A i \in 1 .. Len(t) : IsOther(t[i])
  BY <1>1
<1>3. \A i \in 1 .. Len(t) : /\ WritePart(t[i]) \in Seq(Keyless) /\ WritePart(t[i]) \in Seq(All)
                            /\ WritePart(t[i]) # << >> /\ t[i].kind # "form"
  BY <1>2, KeylessIsText DEF IsOther
<1> QED
  BY <1>1, <1>3 DEF IsPage

\* One that begins with a form.
LEMMA FormFirstIsPage ==
  ASSUME NEW O, \A p \in O : IsOther(p), NEW f, IsForm(f), NEW t \in Seq(O \cup {f}),
         Len(t) > 0, t[1] = f, \A i \in 2 .. Len(t) : t[i] \in O
  PROVE  IsPage(t)
<1>1. Len(t) \in Nat /\ t = [i \in 1 .. Len(t) |-> t[i]]
  OBVIOUS
<1>2. \A i \in 2 .. Len(t) : IsOther(t[i])
  OBVIOUS
<1>3. \A i \in 2 .. Len(t) : /\ WritePart(t[i]) \in Seq(Keyless) /\ WritePart(t[i]) \in Seq(All)
                            /\ WritePart(t[i]) # << >> /\ t[i].kind # "form"
  BY <1>2, KeylessIsText DEF IsOther
<1>4. WritePart(f) \in Seq(All) /\ WritePart(f) # << >> /\ f.kind = "form"
  <2>1. PICK d \in 1 .. 10 : f = [kind |-> "form", creation_time |-> Digits[d], form_token |-> Digits[d]]
    BY DEF IsForm
  <2>2. Digits[d] \in All
    BY DigitsAreSymbols
  <2>3. PICK x \in All : x = Digits[d]
    BY <2>2
  <2>4. f = [kind |-> "form", creation_time |-> x, form_token |-> x]
    BY <2>1, <2>3
  <2>5. WritePart(f) \in Seq(All) /\ FormText(WritePart(f), x)
    BY <2>4, FormIs
  <2>6. Len(WritePart(f)) = 16
    BY <2>5 DEF FormText
  <2>8. ASSUME WritePart(f) = << >> PROVE FALSE
    <3>1. Len(<< >>) = 16
      BY <2>6, <2>8, Zenon
    <3> QED
      BY <3>1
  <2>9. f.kind = "form"
    BY <2>1
  <2> QED
    BY <2>5, <2>8, <2>9
<1>5. \A i \in 1 .. Len(t) : i = 1 \/ i \in 2 .. Len(t)
  BY <1>1
<1>6. ASSUME NEW i \in 1 .. Len(t)
      PROVE  /\ WritePart(t[i]) \in Seq(All) /\ WritePart(t[i]) # << >>
             /\ IF t[i].kind = "form" THEN i = 1 /\ IsForm(t[i]) ELSE WritePart(t[i]) \in Seq(Keyless)
  <2>1. CASE i = 1
    BY <1>4, <2>1
  <2>2. CASE i \in 2 .. Len(t)
    BY <1>3, <2>2
  <2> QED
    BY <1>5, <2>1, <2>2
<1> QED
  BY <1>1, <1>6 DEF IsPage

\* What the forum answers: only the whole page has a form, and at its beginning.
LEMMA PartsArePage ==
  ASSUME Sending, NEW people \in Presences, state = "GET_THE_BACKLOG" => logins < MaxLogin
  PROVE  /\ IsPage(Parts(people))
         /\ state # "GET_THE_BACKLOG" =>
              \A i \in 1 .. Len(Parts(people)) : Parts(people)[i].kind # "form"
<1> DEFINE M == {MessagePart(mess) : mess \in 1 .. MaxMsg}
           O == M \cup {StatsPart(people)}
<1>1. \A p \in O : IsOther(p)
  <2>1. ASSUME NEW mess \in 1 .. MaxMsg PROVE IsOther(MessagePart(mess))
    BY MessageIsKeyless DEF IsOther
  <2>2. IsOther(StatsPart(people))
    BY StatsAreKeyless DEF IsOther
  <2> QED
    BY <2>1, <2>2
<1>2. head \in 0 .. MaxMsg /\ MaxMsg \in Nat /\ Window \in Nat
  BY AnswerAssumption DEF Sending
<1>3. ASSUME NEW from \in Nat \ {0} PROVE MessageParts(from) \in Seq(O)
  <2>1. CASE from > head
    BY <2>1 DEF MessageParts
  <2>2. CASE ~(from > head)
    <3>1. MessageParts(from) = [i \in 1 .. head - from + 1 |-> MessagePart(from + i - 1)]
      BY <2>2 DEF MessageParts
    <3>2. \A i \in 1 .. head - from + 1 : from + i - 1 \in 1 .. MaxMsg
      BY <1>2, <1>3
    <3>3. \A i \in 1 .. head - from + 1 : MessagePart(from + i - 1) \in O
      BY <3>2
    <3>4. head - from + 1 \in Nat
      BY <1>2, <1>3, <2>2
    <3> HIDE DEF O
    <3> QED
      BY <3>1, <3>3, <3>4
  <2> QED
    BY <2>1, <2>2
<1>4. <<StatsPart(people)>> \in Seq(O) /\ << >> \in Seq(O) /\ Len(<<StatsPart(people)>>) = 1
  <2>1. StatsPart(people) \in O
    OBVIOUS
  <2> HIDE DEF O
  <2> QED
    BY <2>1, ShortSeqs, Zenon
<1> HIDE DEF O
<1>5. CASE state = "GET_THE_BACKLOG"
  <2> DEFINE f  == FormPart
             t1 == <<f>> \o MessageParts(Oldest)
             t  == t1 \o <<StatsPart(people)>>
  <2>1. Parts(people) = t
    BY <1>5 DEF Parts
  <2>2. IsForm(f)
    <3>1. logins \in Nat /\ logins < MaxLogin /\ MaxLogin \in 0 .. 8
      BY <1>5, AnswerAssumption DEF Sending
    <3>2. PICK d \in 1 .. 10 : d = logins + 1
      BY <3>1
    <3>3. f = [kind |-> "form", creation_time |-> Digits[d], form_token |-> Digits[d]]
      BY <3>2 DEF FormPart
    <3> QED
      BY <3>3 DEF IsForm
  <2>3. Oldest \in Nat \ {0}
    BY <1>2 DEF Oldest
  <2> DEFINE S == O \cup {f}
             u == MessageParts(Oldest)
  <2>4. u \in Seq(O) /\ Len(u) \in Nat /\ \A i \in 1 .. Len(u) : u[i] \in O
    <3>1. u \in Seq(O)
      BY <1>3, <2>3
    <3> HIDE DEF u
    <3> QED
      BY <3>1
  <2>5. O \subseteq S /\ f \in S
    OBVIOUS
  <2> HIDE DEF S, f, u
  <2>6. u \in Seq(S) /\ <<StatsPart(people)>> \in Seq(S) /\ <<f>> \in Seq(S) /\ Len(<<f>>) = 1
        /\ <<f>>[1] = f
    BY <1>4, <2>4, <2>5, SeqMono, ShortSeqs
  <2>7. /\ t1 \in Seq(S) /\ Len(t1) = 1 + Len(u)
        /\ \A i \in 1 .. 1 + Len(u) : t1[i] = IF i <= 1 THEN <<f>>[i] ELSE u[i - 1]
    <3>1. t1 \in Seq(S) /\ Len(t1) = Len(<<f>>) + Len(u)
      BY <2>6, Join2, Zenon DEF u
    <3>2. \A i \in 1 .. Len(<<f>>) + Len(u) : t1[i] = IF i <= Len(<<f>>) THEN <<f>>[i] ELSE u[i - Len(<<f>>)]
      BY <2>6, ConcatAt, Zenon DEF u
    <3> HIDE DEF t1
    <3> QED
      BY <2>6, <3>1, <3>2
  <2> HIDE DEF t1
  <2>8. t1[1] = f /\ \A i \in 2 .. Len(t1) : t1[i] \in O
    BY <2>4, <2>6, <2>7
  <2>9. /\ t \in Seq(S) /\ Len(t) = Len(t1) + 1
        /\ \A i \in 1 .. Len(t1) + 1 : t[i] = IF i <= Len(t1) THEN t1[i] ELSE <<StatsPart(people)>>[i - Len(t1)]
    <3>1. t \in Seq(S) /\ Len(t) = Len(t1) + Len(<<StatsPart(people)>>)
      BY <2>6, <2>7, Join2, Zenon
    <3>2. \A i \in 1 .. Len(t1) + Len(<<StatsPart(people)>>) :
            t[i] = IF i <= Len(t1) THEN t1[i] ELSE <<StatsPart(people)>>[i - Len(t1)]
      BY <2>6, <2>7, ConcatAt, Zenon
    <3> HIDE DEF t
    <3> QED
      BY <1>4, <3>1, <3>2
  <2> HIDE DEF t
  <2>10. <<StatsPart(people)>>[1] \in O
    BY <1>4
  <2>11. t[1] = f /\ Len(t) > 0 /\ \A i \in 2 .. Len(t) : t[i] \in O
    <3>1. Len(t1) \in Nat \ {0}
      BY <2>4, <2>7
    <3>2. ASSUME NEW i \in 2 .. Len(t) PROVE t[i] \in O
      <4>1. CASE i <= Len(t1)
        BY <2>8, <2>9, <3>1, <3>2, <4>1
      <4>2. CASE ~(i <= Len(t1))
        <5>1. i - Len(t1) = 1
          BY <2>9, <3>1, <3>2, <4>2
        <5> QED
          BY <2>9, <2>10, <3>1, <3>2, <4>2, <5>1
      <4> QED
        BY <4>1, <4>2
    <3> QED
      BY <2>8, <2>9, <3>1, <3>2
  <2>12. t \in Seq(O \cup {f})
    BY <2>9 DEF S
  <2>13. IsPage(t)
    BY <1>1, <2>2, <2>11, <2>12, FormFirstIsPage, Zenon
  <2> QED
    BY <1>5, <2>1, <2>13
<1>6. CASE state # "GET_THE_BACKLOG"
  <2>1. Parts(people) \in Seq(O)
    <3>1. AskedFrom \in Nat \ {0}
      BY DEF AskedFrom
    <3> QED
      BY <1>3, <1>4, <1>6, <3>1 DEF Parts
  <2> QED
    BY <1>1, <1>6, <2>1, OthersArePage
<1> QED
  BY <1>5, <1>6

\* Nothing is sent at first.
LEMMA SendingInit == Init => Sending
<1>1. MaxMsg \in Nat /\ MaxLogin \in 0 .. 8
  BY AnswerAssumption
<1> QED
  BY <1>1 DEF Init, Sending, Requests

\* What is sent stays as it was written, and the place in it one of its symbols
\* or its end, whatever the forum, the network and the program do.
LEMMA SendingStep ==
  ASSUME Sending, [Next]_vars
  PROVE  Sending'
<1>0. MaxMsg \in Nat /\ MaxLogin \in 0 .. 8
  BY AnswerAssumption
<1>1. CASE Post
  BY <1>0, <1>1 DEF Post, Sending, mainvars, logvars, pagevars, past
<1>2. ASSUME NEW status \in {200, 403}, NEW people \in Presences, NEW cs \in CookieSets(state),
             Ask(status, people, cs)
      PROVE  Sending'
  <2>1. /\ turn' = "recv" /\ line' = 1 /\ at' = 1 /\ calls' = << >> /\ sets' = cs
        /\ text' = Headers(cs) \o WritePage(page') /\ head' = head /\ state' = state
        /\ page' = (IF status = 403 THEN << >> ELSE Parts(people))
    BY <1>2 DEF Ask
  <2>2. AreCookies(cs)
    BY CookieSetsAssumption DEF Sending, AreCookies
  <2>3. IsPage(page')
    <3>1. CASE status = 403
      <4>1. page' = << >>
        BY <2>1, <3>1
      <4> QED
        BY <4>1 DEF IsPage
    <3>2. CASE status # 403
      <4>1. state = "GET_THE_BACKLOG" => logins < MaxLogin
        BY <1>2 DEF Ask
      <4> QED
        BY <2>1, <3>2, <4>1, PartsArePage
    <3> QED
      BY <3>1, <3>2
  <2>4. logins' \in 0 .. MaxLogin
    <3>1. logins' = logins \/ (logins' = logins + 1 /\ logins < MaxLogin)
      BY <1>2 DEF Ask
    <3> QED
      BY <1>0, <3>1 DEF Sending
  <2>5. AreCookies(sets') /\ text' = Headers(sets') \o WritePage(page')
    BY <2>1, <2>2
  <2>6. /\ Len(text') \in Nat /\ \A i \in 1 .. Len(text') : text'[i] \in Seq(All) /\ text'[i] # << >>
    <3>1. IsAnswer(text', sets', page')
      BY <2>3, <2>5 DEF IsAnswer
    <3>2. HasParts(text', sets', page')
      BY <3>1, TextOf
    <3> QED
      BY <3>2 DEF HasParts
  <2>7. ~AllRead' => at' <= Len(text'[line'])
    <3>1. ASSUME ~AllRead' PROVE 1 <= Len(text'[1])
      <4>1. 1 \in 1 .. Len(text')
        BY <2>1, <2>6, <3>1 DEF AllRead
      <4>2. text'[1] \in Seq(All) /\ text'[1] # << >>
        BY <2>6, <4>1
      <4> QED
        BY <4>2
    <3> QED
      BY <2>1, <3>1
  <2>8. state' \in Requests /\ head' \in 0 .. MaxMsg
    BY <2>1 DEF Sending
  <2>9. turn' \in {"ask", "recv", "read"} /\ line' \in Nat \ {0} /\ at' \in Nat \ {0}
        /\ line' = 1 /\ at' = 1 /\ calls' = << >>
    BY <2>1
  <2> QED
    BY <2>3, <2>4, <2>5, <2>7, <2>8, <2>9 DEF Sending
<1>3. CASE FirstPiece
  BY <1>0, <1>3 DEF FirstPiece, Sending, pagevars, past, AllRead
<1>4. CASE Symbol
  <2>1. /\ turn = "read" /\ ~AllRead /\ Advance
        /\ UNCHANGED <<head, state, turn, text, sets, page, logins>>
    BY <1>4 DEF Symbol
  <2>2. /\ line' \in Nat \ {0} /\ at' \in Nat \ {0} /\ (~(line' > Len(text)) => at' <= Len(text[line']))
    BY <2>1, AdvanceIs
  <2> QED
    BY <2>1, <2>2 DEF Sending, AllRead
<1>5. CASE Over \/ Lost
  <2>1. turn' = "ask" /\ state' \in NextState /\ head' = head /\ logins' = logins
    BY <1>5 DEF Over, Lost, IsOver
  <2>2. NextState \subseteq Requests
    BY DEF Sending, NextState, Requests
  <2> QED
    BY <2>1, <2>2 DEF Sending
<1>6. CASE UNCHANGED vars
  BY <1>6 DEF vars, mainvars, pagevars, past, Sending, AllRead
<1> QED
  BY <1>1, <1>2, <1>3, <1>4, <1>5, <1>6 DEF Next
-----------------------------------------------------------------------------
(* The parser in a form.                                                   *)

Hidden == {"IN_CREATION_TIME", "IN_FORM_TOKEN"}

\* Calls that set no value of a form.
NotSet(made) == made = << >> \/ made[1][1] \notin {"set_creation_time", "set_form_token"}

\* The keys of the two values of a form (parsehtml.c:149-172).
LEMMA Keys ==
  /\ Len(CreationKey) = 4 /\ CreationKey[1] = "<" /\ CreationKey[2] = "input "
  /\ CreationKey[3] = "hidden" /\ CreationKey[4] = "creation_time"
  /\ Len(TokenKey) = 4 /\ TokenKey[1] = "<" /\ TokenKey[2] = "input "
  /\ TokenKey[3] = "hidden" /\ TokenKey[4] = "form_token"
<1>1. Len(CreationKey) = 4 /\ Len(TokenKey) = 4
  BY DEF CreationKey, TokenKey
<1>2. /\ CreationKey[1] = "<" /\ CreationKey[2] = "input "
      /\ CreationKey[3] = "hidden" /\ CreationKey[4] = "creation_time"
  BY DEF CreationKey
<1>3. TokenKey[1] = "<" /\ TokenKey[2] = "input " /\ TokenKey[3] = "hidden" /\ TokenKey[4] = "form_token"
  BY DEF TokenKey
<1> QED
  BY <1>1, <1>2, <1>3

\* A symbol that sets no value leaves both.
LEMMA KeptBySet ==
  ASSUME NEW made, NotSet(made), Perform(made)
  PROVE  UNCHANGED <<creation_time, form_token>>
  BY DEF NotSet, Perform, SetBy

\* The name of a call, with or without a last argument.
LEMMA FirstOfTwo ==
  ASSUME NEW a, NEW b, NEW c
  PROVE  /\ (<<a, b>> \o << >>)[1] = a /\ (<<a, b>> \o <<c>>)[1] = a
<1> DEFINE S == {a, b, c}
<1>1. <<a, b>> \in Seq(S) /\ << >> \in Seq(S) /\ <<c>> \in Seq(S) /\ Len(<<a, b>>) = 2
  OBVIOUS
<1>2. Len(<< >>) = 0 /\ Len(<<c>>) = 1 /\ <<a, b>>[1] = a
  OBVIOUS
<1> HIDE DEF S
<1>3. \A i \in 1 .. 2 + 0 : (<<a, b>> \o << >>)[i] = IF i <= 2 THEN <<a, b>>[i] ELSE << >>[i - 2]
  BY <1>1, <1>2, ConcatAt
<1>4. \A i \in 1 .. 2 + 1 : (<<a, b>> \o <<c>>)[i] = IF i <= 2 THEN <<a, b>>[i] ELSE <<c>>[i - 2]
  BY <1>1, <1>2, ConcatAt
<1> QED
  BY <1>2, <1>3, <1>4

\* Without the names of a form's values, the parser never goes into one.
LEMMA KeylessEat ==
  ASSUME NEW c, Eat(c), pstate \notin Hidden, c \notin FormKeys
  PROVE  pstate' \notin Hidden /\ NotSet(called')
<1>1. CASE EndOfLine(c)
  BY <1>1 DEF EndOfLine, NotSet
<1>2. CASE Ready(c)
  <2>1. ~Found(TokenKey, c, n)
    <3>1. ASSUME Found(TokenKey, c, n) PROVE c = TokenKey[4]
      BY <3>1, Keys DEF Found
    <3> QED
      BY <3>1, Keys DEF FormKeys
  <2>2. ~Found(CreationKey, c, m)
    <3>1. ASSUME Found(CreationKey, c, m) PROVE c = CreationKey[4]
      BY <3>1, Keys DEF Found
    <3> QED
      BY <3>1, Keys DEF FormKeys
  <2> QED
    BY <1>2, <2>1, <2>2 DEF Ready, NotSet, Hidden
<1>3. CASE InMsgId(c)
  BY <1>3 DEF InMsgId, NotSet, Hidden
<1>4. CASE LookForIcon(c) \/ LookForProfile(c) \/ LookForName(c) \/ LookForMessage(c)
  BY <1>4 DEF LookForIcon, LookForProfile, LookForName, LookForMessage, LookFor, NotSet, Hidden
<1>5. CASE InIcon(c) \/ InProfile(c) \/ InUsername(c)
  BY <1>5 DEF InIcon, InProfile, InUsername, Field, NotSet, Hidden
<1>6. CASE InInnerDiv(c)
  BY <1>6 DEF InInnerDiv, NotSet, Hidden
<1>7. CASE InMessage(c)
  BY <1>7 DEF InMessage, NotSet, Hidden
<1>8. CASE LookForStats(c)
  <2>1. pstate' \in {"LOOKING_FOR_USERS", "READY", pstate}
    BY <1>8 DEF LookForStats
  <2>2. called' = << >> \/ \E t : \/ called' = <<<<"nicklist_topic", t>>, <<"nicklist_recup_start">>>> \o << >>
                                  \/ called' = <<<<"nicklist_topic", t>>, <<"nicklist_recup_start">>>> \o <<<<"nicklist_recup_end">>>>
    BY <1>8 DEF LookForStats
  <2>3. ASSUME NEW t,
               \/ called' = <<<<"nicklist_topic", t>>, <<"nicklist_recup_start">>>> \o << >>
               \/ called' = <<<<"nicklist_topic", t>>, <<"nicklist_recup_start">>>> \o <<<<"nicklist_recup_end">>>>
        PROVE  called'[1][1] = "nicklist_topic"
    <3>1. PICK a, b, e : a = <<"nicklist_topic", t>> /\ b = <<"nicklist_recup_start">> /\ e = <<"nicklist_recup_end">>
      OBVIOUS
    <3>2. called' = <<a, b>> \o << >> \/ called' = <<a, b>> \o <<e>>
      BY <2>3, <3>1
    <3>3. called'[1] = a
      BY <3>2, FirstOfTwo
    <3> QED
      BY <3>1, <3>3
  <2> QED
    BY <2>1, <2>2, <2>3 DEF NotSet, Hidden
<1>9. CASE LookForUsers(c)
  BY <1>9 DEF LookForUsers, NotSet, Hidden
<1>10. CASE InUserLink(c) \/ InUserHref(c)
  BY <1>10 DEF InUserLink, InUserHref, NotSet, Hidden
<1>11. CASE InUserName(c)
  BY <1>11 DEF InUserName, NotSet, Hidden
<1>12. CASE InHidden(c)
  BY <1>12 DEF InHidden, Hidden
<1> QED
  BY <1>1, <1>2, <1>3, <1>4, <1>5, <1>6, <1>7, <1>8, <1>9, <1>10, <1>11, <1>12 DEF Eat

\* What the parser does with a symbol depends on its state.
LEMMA EatInReady ==
  ASSUME NEW c, Eat(c), pstate = "READY", c \notin {"\r", "\n"}
  PROVE  Ready(c)
  BY DEF Eat, InHidden, InMsgId, LookForIcon, LookForProfile, LookForName, LookForMessage, LookFor,
         InIcon, InProfile, InUsername, Field, InInnerDiv, InMessage, LookForStats, LookForUsers,
         InUserLink, InUserHref, InUserName

\* A symbol in a value of a form is treated as one.
LEMMA EatInHidden ==
  ASSUME NEW c, Eat(c), pstate \in Hidden, c \notin {"\r", "\n"}
  PROVE  InHidden(c)
  BY DEF Eat, Ready, InMsgId, LookForIcon, LookForProfile, LookForName, LookForMessage, LookFor,
         InIcon, InProfile, InUsername, Field, InInnerDiv, InMessage, LookForStats, LookForUsers,
         InUserLink, InUserHref, InUserName, Hidden

\* The end of a line changes neither the state nor the places in the keys.
LEMMA EatEnd ==
  ASSUME NEW c, Eat(c), c \in {"\r", "\n"}
  PROVE  /\ pstate' = pstate /\ m' = m /\ n' = n /\ called' = << >>
         /\ j = 0 /\ l = 0 => j' = 0 /\ l' = 0
  BY DEF Eat, EndOfLine, J, L

\* The places in the keys stay places of them.
LEMMA KeysStayPlaces ==
  ASSUME NEW c, Eat(c), m \in 0 .. 3, n \in 0 .. 3
  PROVE  m' \in 0 .. 3 /\ n' \in 0 .. 3
<1>1. ASSUME NEW key, Len(key) = 4, NEW p \in 0 .. 3 PROVE Place(key, c, p) \in 0 .. 3
  <2>1. CASE c # key[p + 1] \/ Found(key, c, p)
    BY <2>1 DEF Place
  <2>2. CASE ~(c # key[p + 1] \/ Found(key, c, p))
    <3>1. p + 1 # 4
      BY <1>1, <2>2 DEF Found
    <3> QED
      BY <1>1, <2>2, <3>1 DEF Place
  <2> QED
    BY <2>1, <2>2
<1>2. (m' = Place(CreationKey, c, m) /\ n' = Place(TokenKey, c, n)) \/ (m' = m /\ n' = n)
  BY DEF Eat, EndOfLine, Ready, InHidden, InMsgId, LookForIcon, LookForProfile, LookForName, LookForMessage, LookFor,
         InIcon, InProfile, InUsername, Field, InInnerDiv, InMessage, LookForStats, LookForUsers,
         InUserLink, InUserHref, InUserName
<1> QED
  BY <1>1, <1>2, Keys

\* What a symbol does when it is parsed.
Reads(c) == Eat(c) /\ Perform(called') /\ calls' = calls \o called'

\* A symbol of an answer for the parser is parsed.
LEMMA SymbolReads ==
  ASSUME Symbol, Parsed
  PROVE  /\ turn = "read" /\ ~AllRead /\ Advance /\ Reads(text[line][at])
         /\ UNCHANGED <<head, state, turn, text, page, sets, formcut>>
  BY DEF Symbol, Reads

\* The marks of a message and of the list of people.
LEMMA Marks ==
  /\ Len(DivMess) = 4 /\ DivMess[1] = "<" /\ DivMess[4] = "ess"
  /\ Len(StatsIdCl) = 4 /\ StatsIdCl[1] = "<" /\ StatsIdCl[4] = "ChatStats class"
  /\ Len(StatsClId) = 4 /\ StatsClId[1] = "<" /\ StatsClId[4] = "ChatStats id"
<1>1. Len(DivMess) = 4 /\ DivMess[1] = "<" /\ DivMess[4] = "ess"
  BY DEF DivMess
<1>2. Len(StatsIdCl) = 4 /\ StatsIdCl[1] = "<" /\ StatsIdCl[4] = "ChatStats class"
  BY DEF StatsIdCl
<1>3. Len(StatsClId) = 4 /\ StatsClId[1] = "<" /\ StatsClId[4] = "ChatStats id"
  BY DEF StatsClId
<1> QED
  BY <1>1, <1>2, <1>3

\* A mark is not found with a symbol that is not its last.
LEMMA NotFound ==
  ASSUME NEW key, Len(key) = 4, NEW c, NEW p, c # key[4]
  PROVE  ~Found(key, c, p)
<1>1. ASSUME Found(key, c, p) PROVE c = key[4]
  BY <1>1 DEF Found
<1> QED
  BY <1>1

\* A symbol that does not go on with a mark starts it again.
LEMMA NotAtAll ==
  ASSUME NEW key, Len(key) = 4, NEW c, NEW p, c # key[p + 1]
  PROVE  ~Found(key, c, p) /\ Place(key, c, p) = 0
  BY DEF Found, Place

\* One that does is counted.
LEMMA OneMore ==
  ASSUME NEW key, Len(key) = 4, NEW c, NEW p \in 0 .. 2, c = key[p + 1]
  PROVE  ~Found(key, c, p) /\ Place(key, c, p) = p + 1
<1>1. p + 1 # 4
  OBVIOUS
<1> QED
  BY <1>1 DEF Found, Place

\* The last one finds it.
LEMMA TheLast ==
  ASSUME NEW key, Len(key) = 4, NEW c, c = key[4]
  PROVE  Found(key, c, 3) /\ Place(key, c, 3) = 0
  BY DEF Found, Place

\* In the headers, where nothing begins a tag.
LEMMA HeaderRead ==
  ASSUME NEW c, Reads(c), pstate = "READY", j = 0, l = 0, m \in 0 .. 3, n \in 0 .. 3, c # "<",
         c = "HTTP/1.1" \/ (m = 0 /\ n = 0), calls = << >>
  PROVE  /\ pstate' = "READY" /\ j' = 0 /\ l' = 0 /\ m' = 0 /\ n' = 0
         /\ calls' = << >> /\ UNCHANGED <<creation_time, form_token>>
<1>0. /\ pstate' = "READY" /\ j' = 0 /\ l' = 0 /\ m' = 0 /\ n' = 0 /\ called' = << >>
  <2>1. CASE c \in {"\r", "\n"}
    BY <2>1, EatEnd DEF Reads
  <2>2. CASE c \notin {"\r", "\n"}
    <3>1. Ready(c)
      BY <2>2, EatInReady DEF Reads
    <3>2. J = 0 /\ L = 0
      BY DEF J, L
    <3>8. J + 1 = 1 /\ L + 1 = 1
      BY <3>2
    <3>9. c # DivMess[J + 1] /\ c # StatsIdCl[L + 1] /\ c # StatsClId[L + 1]
      BY <3>8, Marks
    <3>3. ~Found(DivMess, c, J) /\ Place(DivMess, c, J) = 0
      BY <3>9, Marks, NotAtAll, Zenon
    <3>4. ~Found(StatsIdCl, c, L) /\ Place(StatsIdCl, c, L) = 0 /\ ~Found(StatsClId, c, L) /\ Place(StatsClId, c, L) = 0
      BY <3>9, Marks, NotAtAll, Zenon
    <3>5. ~Found2(StatsIdCl, StatsClId, c, L) /\ Place2(StatsIdCl, StatsClId, c, L) = 0
      BY <3>4 DEF Found2, Place2
    <3>6. c # CreationKey[m + 1] /\ c # TokenKey[n + 1]
      <4>1. /\ m + 1 = 1 \/ m + 1 = 2 \/ m + 1 = 3 \/ m + 1 = 4
            /\ n + 1 = 1 \/ n + 1 = 2 \/ n + 1 = 3 \/ n + 1 = 4
        OBVIOUS
      <4>2. CASE c = "HTTP/1.1"
        <5>1. c \notin {"<", "input ", "hidden", "creation_time", "form_token"}
          BY <4>2
        <5> QED
          BY <4>1, <5>1, Keys, Zenon
      <4>3. CASE m = 0 /\ n = 0
        <5>1. m + 1 = 1 /\ n + 1 = 1
          BY <4>3
        <5> QED
          BY <5>1, Keys, Zenon
      <4> QED
        BY <4>2, <4>3
    <3>7. ~Found(CreationKey, c, m) /\ Place(CreationKey, c, m) = 0 /\ ~Found(TokenKey, c, n) /\ Place(TokenKey, c, n) = 0
      BY <3>6, Keys, NotAtAll, Zenon
    <3> QED
      BY <3>1, <3>3, <3>5, <3>7 DEF Ready
  <2> QED
    BY <2>1, <2>2
<1>1. NotSet(called')
  BY <1>0 DEF NotSet
<1>2. calls' = << >> \o << >>
  BY <1>0 DEF Reads
<1>3. << >> \o << >> = << >>
  OBVIOUS
<1>4. UNCHANGED <<creation_time, form_token>>
  BY <1>1, KeptBySet DEF Reads
<1> QED
  BY <1>0, <1>2, <1>3, <1>4

\* The same in READY in a form.
LEMMA FormReady ==
  ASSUME NEW c, Reads(c), pstate = "READY", c \notin {"\r", "\n", "ess", "ChatStats class", "ChatStats id"}
  PROVE  /\ m' = Place(CreationKey, c, m) /\ n' = Place(TokenKey, c, n) /\ called' = << >>
         /\ pstate' = IF Found(TokenKey, c, n) THEN "IN_FORM_TOKEN"
                      ELSE IF Found(CreationKey, c, m) THEN "IN_CREATION_TIME" ELSE "READY"
         /\ pstate' # "READY" => buffer' = << >>
         /\ UNCHANGED <<creation_time, form_token>>
<1>1. Ready(c)
  BY EatInReady DEF Reads
<1>2. ~Found(DivMess, c, J) /\ ~Found(StatsIdCl, c, L) /\ ~Found(StatsClId, c, L)
  <2>1. c # DivMess[4] /\ c # StatsIdCl[4] /\ c # StatsClId[4]
    BY Marks
  <2> QED
    BY <2>1, Marks, NotFound, Zenon
<1>3. ~Found2(StatsIdCl, StatsClId, c, L)
  BY <1>2 DEF Found2
<1>4. m' = Place(CreationKey, c, m) /\ n' = Place(TokenKey, c, n) /\ called' = << >>
  BY <1>1 DEF Ready
<1>5. pstate' = IF Found(TokenKey, c, n) THEN "IN_FORM_TOKEN"
                      ELSE IF Found(CreationKey, c, m) THEN "IN_CREATION_TIME" ELSE "READY"
  <2>1. ~(Found(TokenKey, c, n) /\ Found(CreationKey, c, m))
    <3>1. CASE c # TokenKey[4]
      BY <3>1, Keys, NotFound, Zenon
    <3>2. CASE c # CreationKey[4]
      BY <3>2, Keys, NotFound, Zenon
    <3>3. TokenKey[4] # CreationKey[4]
      BY Keys
    <3> QED
      BY <3>1, <3>2, <3>3
  <2> QED
    BY <1>1, <1>2, <1>3, <2>1 DEF Ready
<1>6. pstate' # "READY" => buffer' = << >>
  BY <1>1 DEF Ready
<1>7. NotSet(called')
  BY <1>4 DEF NotSet
<1>8. UNCHANGED <<creation_time, form_token>>
  BY <1>7, KeptBySet DEF Reads
<1> QED
  BY <1>4, <1>5, <1>6, <1>8

\* A symbol that makes no call leaves those made.
LEMMA NoCall ==
  ASSUME NEW c, Reads(c), called' = << >>, NEW known, calls = known, known = << >> \/ \E a : known = <<a>>
  PROVE  calls' = known
<1>1. calls' = known \o << >>
  BY DEF Reads
<1>2. CASE known = << >>
  BY <1>1, <1>2
<1>3. CASE \E a : known = <<a>>
  <2>1. PICK a : known = <<a>>
    BY <1>3
  <2>2. <<a>> \o << >> = <<a>>
    OBVIOUS
  <2> QED
    BY <1>1, <2>1, <2>2
<1> QED
  BY <1>2, <1>3

\* Where the parser is in the text of a form whose values are x.
InForm(x) ==
  /\ at \in 1 .. 16
  /\ at <= 4 \/ at \in 7 .. 13 \/ at = 16 => pstate = "READY"
  /\ at \in {5, 6} => pstate = "IN_CREATION_TIME"
  /\ at \in {14, 15} => pstate = "IN_FORM_TOKEN"
  /\ at <= 4 => m = at - 1 /\ n = at - 1
  /\ at \in 5 .. 9 => m = 0 /\ n = 0
  /\ at \in 10 .. 13 => m = at - 10 /\ n = at - 10
  /\ at \in {5, 14} => buffer = << >>
  /\ at \in {6, 15} => buffer = <<x>>
  /\ at <= 6 => calls = << >>
  /\ at \in 7 .. 15 => calls = <<<<"set_creation_time", <<x>>>>>> /\ creation_time = <<x>>
  /\ at = 16 => form_token = creation_time

\* Between the tags of a value's name.
LEMMA FormBeforeKey ==
  ASSUME NEW c, NEW w, NEW x, Reads(c), InForm(x), FormText(w, x), c = w[at],
         at \in 1 .. 3 \/ at \in 10 .. 12, at' = at + 1
  PROVE  InForm(x)'
<1>1. pstate = "READY" /\ m = n /\ m \in 0 .. 2
  BY DEF InForm
<1>2. CASE at \in 1 .. 3
  <2>1. m + 1 = at /\ (at = 1 \/ at = 2 \/ at = 3)
    BY <1>2 DEF InForm
  <2>2. c = CreationKey[m + 1] /\ c = TokenKey[n + 1]
    BY <1>1, <2>1, Keys, Zenon DEF FormText
  <2>3. c \in {"<", "input ", "hidden"}
    BY <2>1, Zenon DEF FormText
  <2>4. m' = m + 1 /\ n' = n + 1 /\ pstate' = "READY" /\ called' = << >> /\ UNCHANGED <<creation_time, form_token>>
    <3>1. n \in 0 .. 2
      BY <1>1
    <3>2. ~Found(CreationKey, c, m) /\ Place(CreationKey, c, m) = m + 1
      BY <1>1, <2>2, Keys, OneMore
    <3>3. ~Found(TokenKey, c, n) /\ Place(TokenKey, c, n) = n + 1
      BY <3>1, <2>2, Keys, OneMore
    <3> QED
      BY <1>1, <2>3, <3>2, <3>3, FormReady
  <2>5. calls' = << >>
    <3>1. calls = << >>
      BY <1>2 DEF InForm
    <3> QED
      BY <2>4, <3>1, NoCall
  <2>6. at' \in 2 .. 4 /\ m' = at' - 1 /\ n' = at' - 1
    BY <1>1, <1>2, <2>1, <2>4
  <2> QED
    BY <2>4, <2>5, <2>6 DEF InForm
<1>3. CASE at \in 10 .. 12
  <2>1. m + 10 = at /\ m + 1 \in 1 .. 3 /\ (at = 10 \/ at = 11 \/ at = 12)
    BY <1>3 DEF InForm
  <2>2. c = CreationKey[m + 1] /\ c = TokenKey[n + 1] /\ c \in {"<", "input ", "hidden"}
    <3>1. CASE at = 10
      <4>1. m + 1 = 1 /\ n + 1 = 1
        BY <1>1, <2>1, <3>1
      <4> QED
        BY <3>1, <4>1, Keys, Zenon DEF FormText
    <3>2. CASE at = 11
      <4>1. m + 1 = 2 /\ n + 1 = 2
        BY <1>1, <2>1, <3>2
      <4> QED
        BY <3>2, <4>1, Keys, Zenon DEF FormText
    <3>3. CASE at = 12
      <4>1. m + 1 = 3 /\ n + 1 = 3
        BY <1>1, <2>1, <3>3
      <4> QED
        BY <3>3, <4>1, Keys, Zenon DEF FormText
    <3> QED
      BY <2>1, <3>1, <3>2, <3>3
  <2>4. m' = m + 1 /\ n' = n + 1 /\ pstate' = "READY" /\ called' = << >> /\ UNCHANGED <<creation_time, form_token>>
    <3>1. n \in 0 .. 2
      BY <1>1
    <3>2. ~Found(CreationKey, c, m) /\ Place(CreationKey, c, m) = m + 1
      BY <1>1, <2>2, Keys, OneMore
    <3>3. ~Found(TokenKey, c, n) /\ Place(TokenKey, c, n) = n + 1
      BY <3>1, <2>2, Keys, OneMore
    <3> QED
      BY <1>1, <2>2, <3>2, <3>3, FormReady
  <2>5. calls' = <<<<"set_creation_time", <<x>>>>>> /\ creation_time' = <<x>>
    <3>1. calls = <<<<"set_creation_time", <<x>>>>>> /\ creation_time = <<x>>
      BY <1>3 DEF InForm
    <3>2. \E a : <<<<"set_creation_time", <<x>>>>>> = <<a>>
      OBVIOUS
    <3> QED
      BY <2>4, <3>1, <3>2, NoCall
  <2>6. at' \in 11 .. 13 /\ m' = at' - 10 /\ n' = at' - 10
    BY <1>1, <1>3, <2>1, <2>4
  <2> QED
    BY <2>4, <2>5, <2>6 DEF InForm
<1> QED
  BY <1>2, <1>3

\* The name of a value.
LEMMA FormKeyRead ==
  ASSUME NEW c, NEW w, NEW x, Reads(c), InForm(x), FormText(w, x), c = w[at],
         at \in {4, 13}, at' = at + 1
  PROVE  InForm(x)'
<1>1. pstate = "READY" /\ m = 3 /\ n = 3
  BY DEF InForm
<1>2. CASE at = 4
  <2>1. c = "creation_time"
    BY <1>2, Zenon DEF FormText
  <2>2. c = CreationKey[4] /\ c # TokenKey[4]
    BY <2>1, Keys
  <2>3. Found(CreationKey, c, m) /\ Place(CreationKey, c, m) = 0
    BY <1>1, <2>2, Keys, TheLast
  <2>4. ~Found(TokenKey, c, n) /\ Place(TokenKey, c, n) = 0
    <3>1. n + 1 = 4
      BY <1>1
    <3>2. c # TokenKey[n + 1]
      BY <2>2, <3>1
    <3> QED
      BY <3>2, Keys, NotAtAll, Zenon
  <2>5. m' = 0 /\ n' = 0 /\ pstate' = "IN_CREATION_TIME" /\ called' = << >> /\ buffer' = << >>
    BY <1>1, <2>1, <2>3, <2>4, FormReady
  <2>6. calls' = << >>
    <3>1. calls = << >>
      BY <1>2 DEF InForm
    <3> QED
      BY <2>5, <3>1, NoCall
  <2>7. at' = 5
    BY <1>2
  <2> QED
    BY <2>5, <2>6, <2>7 DEF InForm
<1>3. CASE at = 13
  <2>1. c = "form_token"
    BY <1>3, Zenon DEF FormText
  <2>2. c = TokenKey[4]
    BY <2>1, Keys
  <2>3. Found(TokenKey, c, n)
    BY <1>1, <2>2, Keys, TheLast
  <2>5. pstate' = "IN_FORM_TOKEN" /\ called' = << >> /\ buffer' = << >>
        /\ UNCHANGED <<creation_time, form_token>>
    BY <1>1, <2>1, <2>3, FormReady
  <2>6. calls' = <<<<"set_creation_time", <<x>>>>>> /\ creation_time' = <<x>>
    <3>1. calls = <<<<"set_creation_time", <<x>>>>>> /\ creation_time = <<x>>
      BY <1>3 DEF InForm
    <3>2. \E a : <<<<"set_creation_time", <<x>>>>>> = <<a>>
      OBVIOUS
    <3> QED
      BY <2>5, <3>1, <3>2, NoCall
  <2>7. at' = 14
    BY <1>3
  <2> QED
    BY <2>5, <2>6, <2>7 DEF InForm
<1> QED
  BY <1>2, <1>3

\* A buffer that gets its first symbol has room for it.
LEMMA OneSymbol ==
  ASSUME NEW b, NEW x, b = Room(Append(<< >>, x))
  PROVE  b = <<x>>
<1>1. Append(<< >>, x) = <<x>> /\ Len(<<x>>) = 1
  OBVIOUS
<1> QED
  BY <1>1, ParserAssumption DEF Room

\* The value itself, and the quote after it.
LEMMA FormValueRead ==
  ASSUME NEW c, NEW w, NEW x, Reads(c), InForm(x), FormText(w, x), c = w[at], x \notin {"\r", "\n", QUOTE},
         at \in {5, 14}, at' = at + 1
  PROVE  InForm(x)'
<1>1. c = x /\ c # QUOTE /\ pstate \in Hidden /\ buffer = << >>
  BY DEF FormText, InForm, Hidden
<1>2. InHidden(c)
  BY <1>1, EatInHidden DEF Reads
<1>3. buffer' = <<x>> /\ called' = << >> /\ pstate' = pstate /\ m' = m /\ n' = n
  <2>1. buffer' = Room(Append(<< >>, x)) /\ called' = << >> /\ pstate' = pstate /\ m' = m /\ n' = n
    BY <1>1, <1>2 DEF InHidden
  <2> QED
    BY <2>1, OneSymbol
<1>4. UNCHANGED <<creation_time, form_token>>
  <2>1. NotSet(called')
    BY <1>3 DEF NotSet
  <2> QED
    BY <2>1, KeptBySet DEF Reads
<1>5. CASE at = 5
  <2>1. calls = << >> /\ at' = 6 /\ m = 0 /\ n = 0 /\ pstate = "IN_CREATION_TIME"
    BY <1>5 DEF InForm
  <2>2. calls' = << >>
    BY <1>3, <2>1, NoCall
  <2> QED
    BY <1>3, <2>1, <2>2 DEF InForm
<1>6. CASE at = 14
  <2>1. calls = <<<<"set_creation_time", <<x>>>>>> /\ creation_time = <<x>> /\ at' = 15 /\ pstate = "IN_FORM_TOKEN"
    BY <1>6 DEF InForm
  <2>2. \E a : <<<<"set_creation_time", <<x>>>>>> = <<a>>
    OBVIOUS
  <2>3. calls' = <<<<"set_creation_time", <<x>>>>>>
    BY <1>3, <2>1, <2>2, NoCall
  <2> QED
    BY <1>3, <1>4, <2>1, <2>3 DEF InForm
<1> QED
  BY <1>5, <1>6

\* The quote after a value: it is set.
LEMMA FormQuoteRead ==
  ASSUME NEW c, NEW w, NEW x, Reads(c), InForm(x), FormText(w, x), c = w[at],
         at \in {6, 15}, at' = at + 1
  PROVE  InForm(x)'
<1>1. c = QUOTE /\ c \notin {"\r", "\n"} /\ pstate \in Hidden /\ buffer = <<x>>
  BY DEF FormText, InForm, Hidden, QUOTE
<1>2. InHidden(c)
  BY <1>1, EatInHidden DEF Reads
<1>3. pstate' = "READY" /\ m' = m /\ n' = n
  BY <1>1, <1>2 DEF InHidden
<1>5. CASE at = 6
  <2>1. calls = << >> /\ at' = 7 /\ m = 0 /\ n = 0 /\ pstate = "IN_CREATION_TIME"
    BY <1>5 DEF InForm
  <2>2. PICK call : call = <<"set_creation_time", <<x>>>>
    OBVIOUS
  <2>3. called' = <<call>> /\ call[1] = "set_creation_time" /\ call[2] = <<x>>
    BY <1>1, <1>2, <2>1, <2>2 DEF InHidden
  <2>4. << >> \o <<call>> = <<call>> /\ <<call>> # << >> /\ <<call>>[1] = call
    OBVIOUS
  <2>5. calls' = <<call>>
    BY <2>1, <2>3, <2>4 DEF Reads
  <2>6. creation_time' = <<x>>
    <3>1. creation_time' = SetBy(called', "set_creation_time", creation_time)
      BY DEF Reads, Perform
    <3> QED
      BY <2>3, <2>4, <3>1 DEF SetBy
  <2> QED
    BY <1>3, <2>1, <2>2, <2>5, <2>6 DEF InForm
<1>6. CASE at = 15
  <2>1. creation_time = <<x>> /\ at' = 16 /\ pstate = "IN_FORM_TOKEN"
    BY <1>6 DEF InForm
  <2>2. PICK call : call = <<"set_form_token", <<x>>>>
    OBVIOUS
  <2>3. called' = <<call>> /\ call[1] = "set_form_token" /\ call[2] = <<x>>
    BY <1>1, <1>2, <2>1, <2>2 DEF InHidden
  <2>4. <<call>> # << >> /\ <<call>>[1] = call
    OBVIOUS
  <2>6. form_token' = <<x>> /\ creation_time' = creation_time
    <3>1. /\ form_token' = SetBy(called', "set_form_token", form_token)
          /\ creation_time' = SetBy(called', "set_creation_time", creation_time)
      BY DEF Reads, Perform
    <3> QED
      BY <2>3, <2>4, <3>1 DEF SetBy
  <2> QED
    BY <1>3, <2>1, <2>6 DEF InForm
<1> QED
  BY <1>5, <1>6

\* The end of the first tag, and of its line.
LEMMA FormBetween ==
  ASSUME NEW c, NEW w, NEW x, Reads(c), InForm(x), FormText(w, x), c = w[at],
         at \in 7 .. 9, at' = at + 1
  PROVE  InForm(x)'
<1>1. /\ pstate = "READY" /\ m = 0 /\ n = 0
      /\ calls = <<<<"set_creation_time", <<x>>>>>> /\ creation_time = <<x>>
  BY DEF InForm
<1>2. pstate' = "READY" /\ m' = 0 /\ n' = 0 /\ called' = << >>
  <2>1. CASE at = 7
    <3>1. c = "/>"
      BY <2>1, Zenon DEF FormText
    <3>2. c # "<" /\ m + 1 = 1 /\ n + 1 = 1
      BY <1>1, <3>1
    <3>3. c # CreationKey[m + 1] /\ c # TokenKey[n + 1]
      BY <3>2, Keys, Zenon
    <3>4. ~Found(CreationKey, c, m) /\ Place(CreationKey, c, m) = 0 /\ ~Found(TokenKey, c, n) /\ Place(TokenKey, c, n) = 0
      BY <3>3, Keys, NotAtAll, Zenon
    <3>5. c \notin {"\r", "\n", "ess", "ChatStats class", "ChatStats id"}
      BY <3>1
    <3> QED
      BY <1>1, <3>4, <3>5, FormReady
  <2>2. CASE at = 8 \/ at = 9
    <3>1. ASSUME at = 8 PROVE c = "\r"
      BY <3>1, Zenon DEF FormText
    <3>2. ASSUME at = 9 PROVE c = "\n"
      BY <3>2, Zenon DEF FormText
    <3>3. c \in {"\r", "\n"}
      BY <2>2, <3>1, <3>2
    <3> QED
      BY <1>1, <3>3, EatEnd DEF Reads
  <2> QED
    BY <2>1, <2>2
<1>3. UNCHANGED <<creation_time, form_token>>
  <2>1. NotSet(called')
    BY <1>2 DEF NotSet
  <2> QED
    BY <2>1, KeptBySet DEF Reads
<1>4. calls' = <<<<"set_creation_time", <<x>>>>>>
  <2>2. \E a : <<<<"set_creation_time", <<x>>>>>> = <<a>>
    OBVIOUS
  <2> QED
    BY <1>1, <1>2, <2>2, NoCall
<1>5. at' \in 8 .. 10 /\ (at' = 10 => 0 = at' - 10)
  OBVIOUS
<1> QED
  BY <1>1, <1>2, <1>3, <1>4, <1>5 DEF InForm

\* A symbol of a form but the last.
LEMMA FormStep ==
  ASSUME NEW c, NEW w, NEW x, Reads(c), InForm(x), FormText(w, x), c = w[at], x \notin {"\r", "\n", QUOTE},
         at < 16, at' = at + 1
  PROVE  InForm(x)'
<1>1. \/ at \in 1 .. 3 \/ at \in 10 .. 12 \/ at \in {4, 13} \/ at \in {5, 14} \/ at \in {6, 15} \/ at \in 7 .. 9
  BY DEF InForm
<1>2. CASE at \in 1 .. 3 \/ at \in 10 .. 12
  BY <1>2, FormBeforeKey
<1>3. CASE at \in {4, 13}
  BY <1>3, FormKeyRead
<1>4. CASE at \in {5, 14}
  BY <1>4, FormValueRead
<1>5. CASE at \in {6, 15}
  BY <1>5, FormQuoteRead
<1>6. CASE at \in 7 .. 9
  BY <1>6, FormBetween
<1> QED
  BY <1>1, <1>2, <1>3, <1>4, <1>5, <1>6
-----------------------------------------------------------------------------
(* The two values of the form.                                             *)

\* Where the parser is in an answer that it reads.
Placed ==
  /\ line < FormAt => /\ pstate = "READY" /\ j = 0 /\ l = 0 /\ calls = << >>
                      /\ (line = 1 /\ at = 1) \/ (m = 0 /\ n = 0)
  /\ line = FormAt /\ HasForm => InForm(page[1].creation_time)
  /\ line >= FormAt /\ ~HasForm => pstate \notin Hidden
  /\ line > FormAt /\ HasForm => pstate \notin Hidden /\ form_token = creation_time

\* The two values are of one page but while a form is read, or when one was cut.
TokensInv ==
  /\ m \in 0 .. 3 /\ n \in 0 .. 3
  /\ turn # "ask" /\ HasForm => state = "GET_THE_BACKLOG"
  /\ turn = "ask" \/ ~HasForm => formcut \/ form_token = creation_time
  /\ turn = "read" /\ Parsed => Placed

\* The form of a page is its first part, the others have no key of a form.
LEMMA FormIsFirst ==
  ASSUME IsPage(page)
  PROVE  /\ Len(page) \in Nat
         /\ HasForm => /\ Len(page) > 0 /\ page[1].creation_time \in All
                       /\ page[1].creation_time \notin {"\r", "\n", QUOTE}
                       /\ FormText(WritePart(page[1]), page[1].creation_time)
         /\ \A i \in 1 .. Len(page) : i # 1 \/ ~HasForm => WritePart(page[i]) \in Seq(Keyless)
<1>1. /\ Len(page) \in Nat /\ DOMAIN page = 1 .. Len(page)
      /\ \A i \in 1 .. Len(page) : IF page[i].kind = "form" THEN i = 1 /\ IsForm(page[i])
                                   ELSE WritePart(page[i]) \in Seq(Keyless)
  BY DEF IsPage
<1>2. HasForm <=> \E i \in 1 .. Len(page) : page[i].kind = "form"
  <2>1. FormPart.kind = "form"
    BY DEF FormPart
  <2> QED
    BY <1>1, <2>1 DEF HasForm
<1>3. ASSUME HasForm
      PROVE  /\ Len(page) > 0 /\ page[1].creation_time \in All
             /\ page[1].creation_time \notin {"\r", "\n", QUOTE}
             /\ FormText(WritePart(page[1]), page[1].creation_time)
  <2>1. Len(page) > 0 /\ IsForm(page[1])
    BY <1>1, <1>2, <1>3
  <2>2. PICK d \in 1 .. 10 : page[1] = [kind |-> "form", creation_time |-> Digits[d], form_token |-> Digits[d]]
    BY <2>1 DEF IsForm
  <2>3. Digits[d] \in All /\ Digits[d] \in {"0", "1", "2", "3", "4", "5", "6", "7", "8", "9"}
    BY DigitsAreSymbols DEF Digits
  <2>4. PICK x \in All : x = Digits[d] /\ x \notin {"\r", "\n", QUOTE}
    BY <2>3 DEF QUOTE
  <2>5. page[1] = [kind |-> "form", creation_time |-> x, form_token |-> x]
    BY <2>2, <2>4
  <2>6. FormText(WritePart(page[1]), x)
    BY <2>5, FormIs
  <2>7. page[1].creation_time = x
    BY <2>5
  <2> QED
    BY <2>1, <2>4, <2>6, <2>7
<1>4. \A i \in 1 .. Len(page) : i # 1 \/ ~HasForm => WritePart(page[i]) \in Seq(Keyless)
  BY <1>1, <1>2
<1> QED
  BY <1>1, <1>3, <1>4

\* Lines before the page have no tag, parts but the form no name of a value.
LEMMA SymbolKind ==
  ASSUME Sending, turn # "ask", ~AllRead
  PROVE  /\ line < FormAt => text[line][at] # "<" /\ (line = 1 /\ at = 1 => text[line][at] = "HTTP/1.1")
         /\ line >= FormAt /\ (line # FormAt \/ ~HasForm) => text[line][at] \notin FormKeys
         /\ line = FormAt /\ HasForm => text[line] = WritePart(page[1])
<1>1. /\ line \in 1 .. Len(text) /\ at \in 1 .. Len(text[line]) /\ Len(text) \in Nat
  BY SymbolIs
<1>2. /\ Len(sets) \in Nat /\ Len(page) \in Nat /\ Len(text) = Len(sets) + 3 + Len(page)
      /\ \A i \in 1 .. Len(sets) + 3 : text[i] = Headers(sets)[i]
      /\ \A i \in 1 .. Len(page) : text[i + (Len(sets) + 3)] = WritePart(page[i])
  BY TextIs
<1>3. AreCookies(sets) /\ IsPage(page)
  BY DEF Sending
<1>4. CASE line < FormAt
  <2>1. line \in 1 .. Len(sets) + 3 /\ line # FormAt /\ ~(line >= FormAt)
    BY <1>1, <1>2, <1>4 DEF FormAt
  <2>2. text[line] = Headers(sets)[line]
    BY <1>2, <2>1
  <2>3. Headers(sets) \in Seq(Seq(All \ {"<"})) /\ Len(Headers(sets)) = Len(sets) + 3
        /\ Headers(sets)[1] = <<"HTTP/1.1", "\r", "\n">>
    BY <1>3, HeaderText
  <2>4. text[line] \in Seq(All \ {"<"})
    BY <2>1, <2>2, <2>3
  <2>5. text[line][at] # "<"
    BY <1>1, <2>4
  <2>6. ASSUME line = 1, at = 1 PROVE text[line][at] = "HTTP/1.1"
    BY <2>2, <2>3, <2>6
  <2> QED
    BY <2>1, <2>5, <2>6
<1>5. CASE line >= FormAt
  <2>1. PICK i : i = line - (Len(sets) + 3)
    OBVIOUS
  <2>2. /\ i \in 1 .. Len(page) /\ i + (Len(sets) + 3) = line /\ (i = 1 <=> line = FormAt)
        /\ ~(line < FormAt)
    BY <1>1, <1>2, <1>5, <2>1 DEF FormAt
  <2>3. text[line] = WritePart(page[i])
    BY <1>2, <2>2
  <2>4. ASSUME i # 1 \/ ~HasForm PROVE text[line][at] \notin FormKeys
    <3>1. text[line] \in Seq(Keyless)
      BY <1>3, <2>2, <2>3, <2>4, FormIsFirst
    <3>2. text[line][at] \in Keyless
      BY <1>1, <3>1
    <3> QED
      BY <3>2 DEF Keyless
  <2> QED
    BY <2>2, <2>3, <2>4
<1>6. line < FormAt \/ line >= FormAt
  BY <1>1, <1>2 DEF FormAt
<1> QED
  BY <1>4, <1>5, <1>6

\* The place in a form, by the values that the page has.
LEMMA InFormOfPage ==
  ASSUME NEW x, page' = page, x = page[1].creation_time, InForm(x)'
  PROVE  InForm(page[1].creation_time)'
<1>1. page[1].creation_time' = x
  OBVIOUS
<1> QED
  BY <1>1 DEF InForm

\* A symbol of an answer that is parsed.
LEMMA PlacedStep ==
  ASSUME Sending, TokensInv, Symbol, Parsed
  PROVE  Placed' /\ (~HasForm => UNCHANGED <<creation_time, form_token>>)
<1> DEFINE c == text[line][at]
<1>1. /\ turn = "read" /\ ~AllRead /\ Advance /\ Reads(c)
      /\ UNCHANGED <<head, state, turn, text, page, sets, formcut>>
  BY SymbolReads
<1>2. /\ line \in 1 .. Len(text) /\ at \in 1 .. Len(text[line])
      /\ Len(text) \in Nat /\ Len(text[line]) \in Nat
  BY <1>1, SymbolIs
<1>3. m \in 0 .. 3 /\ n \in 0 .. 3 /\ Placed
  BY <1>1 DEF TokensInv
<1>4. FormAt' = FormAt /\ (HasForm' <=> HasForm) /\ FormAt \in Nat
  <2>1. FormAt' = FormAt
    BY <1>1 DEF FormAt
  <2>2. HasForm' <=> HasForm
    <3>1. FormPart.kind' = FormPart.kind
      BY DEF FormPart
    <3> QED
      BY <1>1, <3>1 DEF HasForm
  <2>3. FormAt \in Nat
    BY <1>1, TextIs DEF FormAt
  <2> QED
    BY <2>1, <2>2, <2>3
<1>5. /\ line < FormAt => c # "<" /\ (line = 1 /\ at = 1 => c = "HTTP/1.1")
      /\ line >= FormAt /\ (line # FormAt \/ ~HasForm) => c \notin FormKeys
      /\ line = FormAt /\ HasForm => text[line] = WritePart(page[1])
  BY <1>1, SymbolKind
<1>6. (line' = line /\ at' = at + 1 /\ at < Len(text[line])) \/ (line' = line + 1 /\ at' = 1 /\ ~(at < Len(text[line])))
  BY <1>1 DEF Advance
<1>7. CASE line < FormAt
  <2>1. /\ pstate = "READY" /\ j = 0 /\ l = 0 /\ calls = << >>
        /\ c = "HTTP/1.1" \/ (m = 0 /\ n = 0)
    BY <1>3, <1>5, <1>7 DEF Placed
  <2>2. /\ pstate' = "READY" /\ j' = 0 /\ l' = 0 /\ m' = 0 /\ n' = 0
        /\ calls' = << >> /\ UNCHANGED <<creation_time, form_token>>
    <3>1. c # "<"
      BY <1>5, <1>7
    <3> HIDE DEF c
    <3> QED
      BY <1>1, <1>3, <2>1, <3>1, HeaderRead
  <2>3. ~(line' > FormAt)
    BY <1>2, <1>4, <1>6, <1>7
  <2>4. ASSUME line' >= FormAt PROVE InForm(page[1].creation_time)'
    <3>1. at' = 1
      BY <1>2, <1>4, <1>6, <1>7, <2>4
    <3> QED
      BY <2>2, <3>1 DEF InForm
  <2>5. line' = FormAt => line' >= FormAt
    BY <1>4
  <2>6. pstate' \notin Hidden
    BY <2>2 DEF Hidden
  <2> QED
    BY <1>4, <2>2, <2>3, <2>4, <2>5, <2>6 DEF Placed
<1>8. CASE line = FormAt /\ HasForm
  <2>1. PICK x : x = page[1].creation_time
    OBVIOUS
  <2>2. x \notin {"\r", "\n", QUOTE} /\ FormText(text[line], x)
    <3>1. IsPage(page)
      BY <1>1 DEF Sending
    <3> QED
      BY <1>5, <1>8, <2>1, <3>1, FormIsFirst
  <2>3. InForm(x) /\ at \in 1 .. 16
    <3>1. InForm(page[1].creation_time)
      BY <1>3, <1>8 DEF Placed
    <3>2. InForm(x)
      BY <2>1, <3>1
    <3> QED
      BY <3>2 DEF InForm
  <2>4. Len(text[line]) = 16
    BY <2>2 DEF FormText
  <2>5. PICK w : w = text[line]
    OBVIOUS
  <2>6. c = w[at] /\ FormText(w, x)
    BY <2>2, <2>5
  <2>7. CASE at < 16
    <3>1. at' = at + 1 /\ line' = line
      BY <1>6, <2>4, <2>7
    <3>2. InForm(x)'
      <4> HIDE DEF c
      <4> QED
        BY <1>1, <2>2, <2>3, <2>6, <2>7, <3>1, FormStep
    <3>3. InForm(page[1].creation_time)'
      BY <1>1, <2>1, <3>2, InFormOfPage
    <3>4. ~(line' < FormAt) /\ ~(line' > FormAt)
      BY <1>4, <1>8, <3>1
    <3> QED
      BY <1>4, <1>8, <3>3, <3>4 DEF Placed
  <2>8. CASE at = 16
    <3>1. line' = line + 1
      BY <1>6, <2>4, <2>8
    <3>2. pstate = "READY" /\ form_token = creation_time
      BY <2>3, <2>8 DEF InForm
    <3>3. c = "/>"
      BY <2>6, <2>8, Zenon DEF FormText
    <3>4. c \notin FormKeys /\ pstate \notin Hidden
      BY <3>2, <3>3 DEF FormKeys, Hidden
    <3>5. pstate' \notin Hidden /\ NotSet(called')
      <4> HIDE DEF c
      <4> QED
        BY <1>1, <3>4, KeylessEat DEF Reads
    <3>6. UNCHANGED <<creation_time, form_token>>
      BY <1>1, <3>5, KeptBySet DEF Reads
    <3>7. ~(line' < FormAt) /\ ~(line' = FormAt)
      BY <1>4, <1>8, <3>1
    <3> QED
      BY <1>4, <1>8, <3>2, <3>5, <3>6, <3>7 DEF Placed
  <2> QED
    BY <2>3, <2>7, <2>8
<1>9. CASE line >= FormAt /\ (line # FormAt \/ ~HasForm)
  <2>1. pstate \notin Hidden /\ (HasForm => form_token = creation_time)
    <3>1. HasForm => line > FormAt
      BY <1>2, <1>4, <1>9
    <3> QED
      BY <1>3, <1>9, <3>1 DEF Placed
  <2>2. c \notin FormKeys
    BY <1>5, <1>9
  <2>3. pstate' \notin Hidden /\ NotSet(called')
    <3> HIDE DEF c
    <3> QED
      BY <1>1, <2>1, <2>2, KeylessEat DEF Reads
  <2>4. UNCHANGED <<creation_time, form_token>>
    BY <1>1, <2>3, KeptBySet DEF Reads
  <2>5. ~(line' < FormAt) /\ (HasForm => ~(line' = FormAt))
    BY <1>2, <1>4, <1>6, <1>9
  <2> QED
    BY <1>4, <2>1, <2>3, <2>4, <2>5 DEF Placed
<1>10. line < FormAt \/ (line = FormAt /\ HasForm) \/ (line >= FormAt /\ (line # FormAt \/ ~HasForm))
  BY <1>2, <1>4
<1> QED
  BY <1>7, <1>8, <1>9, <1>10

\* A page without a form.
LEMMA NoForm ==
  ASSUME NEW p, \A i \in DOMAIN p : p[i].kind # "form", page = p
  PROVE  ~HasForm
<1>1. FormPart.kind = "form"
  BY DEF FormPart
<1> QED
  BY <1>1 DEF HasForm

\* A page of no part has no form.
LEMMA EmptyPage == page = << >> => ~HasForm
<1>1. DOMAIN << >> = {}
  OBVIOUS
<1> QED
  BY <1>1 DEF HasForm

\* Both values are empty at first.
LEMMA TokensInit == Init => TokensInv
<1> SUFFICES ASSUME Init PROVE TokensInv
  OBVIOUS
<1>1. /\ m = 0 /\ n = 0 /\ turn = "ask" /\ form_token = << >> /\ creation_time = << >>
  BY DEF Init, CookiesInit, ParserInit
<1> QED
  BY <1>1 DEF TokensInv

\* A request changes no value, and only that for the whole page gets a form.
LEMMA AskTokens ==
  ASSUME Sending, TokensInv, NEW status \in {200, 403}, NEW people \in Presences,
         NEW cs \in CookieSets(state), Ask(status, people, cs)
  PROVE  TokensInv'
<1>1. /\ turn = "ask" /\ turn' = "recv" /\ UNCHANGED <<state, formcut, creation_time, form_token, m, n>>
      /\ page' = (IF status = 403 THEN << >> ELSE Parts(people))
      /\ state = "GET_THE_BACKLOG" \/ status = 403 => logins < MaxLogin
  BY DEF Ask, tokens, parservars, counters
<1>2. ASSUME state # "GET_THE_BACKLOG" PROVE ~HasForm'
  <2>1. FormPart.kind' = "form"
    BY DEF FormPart
  <2>2. CASE status = 403
    <3>1. DOMAIN << >> = {}
      OBVIOUS
    <3> QED
      BY <1>1, <2>2, <3>1 DEF HasForm
  <2>3. CASE status # 403
    <3>1. IsPage(Parts(people)) /\ \A i \in 1 .. Len(Parts(people)) : Parts(people)[i].kind # "form"
      BY <1>1, <1>2, PartsArePage
    <3>2. DOMAIN Parts(people) = 1 .. Len(Parts(people))
      BY <3>1 DEF IsPage
    <3>3. page' = Parts(people)
      BY <1>1, <2>3
    <3>4. \A i \in DOMAIN page' : page'[i].kind # "form"
      BY <3>1, <3>2, <3>3
    <3> QED
      BY <2>1, <3>4 DEF HasForm
  <2> QED
    BY <2>2, <2>3
<1>3. formcut \/ form_token = creation_time
  BY <1>1 DEF TokensInv
<1>4. m \in 0 .. 3 /\ n \in 0 .. 3
  BY DEF TokensInv
<1> QED
  BY <1>1, <1>2, <1>3, <1>4 DEF TokensInv

\* The first piece of an answer puts the parser back in READY, outside any
\* mark but maybe that of a key, which the first symbol of the headers ends.
LEMMA FirstTokens ==
  ASSUME Sending, TokensInv, FirstPiece
  PROVE  TokensInv'
<1>1. /\ turn = "recv" /\ turn' = "read"
      /\ UNCHANGED <<state, line, at, page, sets, calls, formcut, creation_time, form_token, m, n>>
      /\ Parsed => pstate' = "READY" /\ j' = 0 /\ l' = 0
  BY DEF FirstPiece, tokens, parservars, counters, Reset, pagevars, past
<1>2. line = 1 /\ at = 1 /\ calls = << >>
  BY <1>1 DEF Sending
<1>3. FormAt' = FormAt /\ (HasForm' <=> HasForm) /\ FormAt \in Nat /\ FormAt > 1
  <2>1. FormPart.kind' = FormPart.kind
    BY DEF FormPart
  <2>2. Len(sets) \in Nat
    BY <1>1, TextIs
  <2> QED
    BY <1>1, <2>1, <2>2 DEF FormAt, HasForm
<1>4. Parsed' => Parsed
  BY <1>1 DEF Parsed
<1>5. Parsed' => Placed'
  <2>1. line' < FormAt' /\ ~(line' >= FormAt') /\ ~(line' = FormAt') /\ ~(line' > FormAt')
    BY <1>1, <1>2, <1>3
  <2> QED
    BY <1>1, <1>2, <1>4, <2>1 DEF Placed
<1>6. m \in 0 .. 3 /\ n \in 0 .. 3 /\ (HasForm => state = "GET_THE_BACKLOG")
      /\ (~HasForm => formcut \/ form_token = creation_time)
  BY <1>1 DEF TokensInv
<1> QED
  BY <1>1, <1>3, <1>5, <1>6 DEF TokensInv

\* A symbol moves the parser on in the form, or leaves both values.
LEMMA SymbolTokens ==
  ASSUME Sending, TokensInv, Symbol
  PROVE  TokensInv'
<1>1. /\ turn = "read" /\ UNCHANGED <<state, turn, page, sets, formcut>>
  BY DEF Symbol
<1>2. /\ m \in 0 .. 3 /\ n \in 0 .. 3 /\ (HasForm => state = "GET_THE_BACKLOG")
      /\ (~HasForm => formcut \/ form_token = creation_time)
  BY <1>1 DEF TokensInv
<1>3. HasForm' <=> HasForm
  <2>1. FormPart.kind' = FormPart.kind
    BY DEF FormPart
  <2> QED
    BY <1>1, <2>1 DEF HasForm
<1>4. CASE Parsed
  <2>1. Placed' /\ (~HasForm => UNCHANGED <<creation_time, form_token>>)
    BY <1>4, PlacedStep
  <2>2. m' \in 0 .. 3 /\ n' \in 0 .. 3
    BY <1>2, <1>4, SymbolReads, KeysStayPlaces DEF Reads
  <2> QED
    BY <1>1, <1>2, <1>3, <2>1, <2>2 DEF TokensInv
<1>5. CASE ~Parsed
  <2>1. Perform(<< >>) /\ UNCHANGED <<m, n>>
    BY <1>5 DEF Symbol, parservars, counters
  <2>2. UNCHANGED <<creation_time, form_token>>
    BY <2>1, KeptBySet DEF NotSet
  <2>3. ~Parsed'
    BY <1>1, <1>5 DEF Parsed
  <2> QED
    BY <1>1, <1>2, <1>3, <2>1, <2>2, <2>3 DEF TokensInv
<1> QED
  BY <1>4, <1>5

\* However an answer ends.
LEMMA OverTokens ==
  ASSUME Sending, TokensInv, Over \/ Lost
  PROVE  TokensInv'
<1>1. /\ turn \in {"recv", "read"} /\ turn' = "ask" /\ page' = << >>
      /\ UNCHANGED <<creation_time, form_token, m, n>>
      /\ formcut' = IF HasForm THEN ~(\E i \in DOMAIN calls : calls[i][1] = "set_form_token") ELSE formcut
  BY DEF Over, Lost, IsOver, cookievars, tokens, parservars, counters, HasForm
<1>2. m \in 0 .. 3 /\ n \in 0 .. 3
  BY DEF TokensInv
<1>3. CASE ~HasForm
  <2>1. formcut \/ form_token = creation_time
    BY <1>3 DEF TokensInv
  <2> QED
    BY <1>1, <1>2, <1>3, <2>1 DEF TokensInv
<1>4. CASE HasForm
  <2>1. Parsed /\ (turn = "read" => Placed)
    <3>1. state = "GET_THE_BACKLOG"
      BY <1>1, <1>4 DEF TokensInv
    <3> QED
      BY <3>1 DEF TokensInv, Parsed
  <2>2. (\A i \in DOMAIN calls : calls[i][1] # "set_form_token") \/ form_token = creation_time
    <3>1. CASE calls = << >>
      <4>1. DOMAIN << >> = {}
        OBVIOUS
      <4> QED
        BY <3>1, <4>1
    <3>2. CASE turn = "read" /\ line < FormAt
      BY <2>1, <3>1, <3>2 DEF Placed
    <3>3. CASE turn = "read" /\ line = FormAt
      <4>1. PICK x : x = page[1].creation_time
        OBVIOUS
      <4>2. InForm(x)
        BY <1>4, <2>1, <3>3, <4>1 DEF Placed
      <4>3. CASE at <= 6
        BY <3>1, <4>2, <4>3 DEF InForm
      <4>4. CASE at \in 7 .. 15
        <5>1. PICK call : call = <<"set_creation_time", <<x>>>>
          OBVIOUS
        <5>2. calls = <<call>> /\ call[1] = "set_creation_time"
          BY <4>2, <4>4, <5>1 DEF InForm
        <5>3. DOMAIN <<call>> = {1} /\ <<call>>[1] = call
          OBVIOUS
        <5> QED
          BY <5>2, <5>3
      <4>5. CASE at = 16
        BY <4>2, <4>5 DEF InForm
      <4> QED
        BY <4>2, <4>3, <4>4, <4>5 DEF InForm
    <3>4. CASE turn = "read" /\ line > FormAt
      BY <1>4, <2>1, <3>4 DEF Placed
    <3>5. turn = "recv" => calls = << >>
      BY DEF Sending
    <3>6. line < FormAt \/ line = FormAt \/ line > FormAt
      <4>1. line \in Nat /\ Len(sets) \in Nat
        BY <1>1, TextIs DEF Sending
      <4> QED
        BY <4>1 DEF FormAt
    <3> QED
      BY <1>1, <3>1, <3>2, <3>3, <3>4, <3>5, <3>6
  <2>3. formcut' = ~(\E i \in DOMAIN calls : calls[i][1] = "set_form_token")
    BY <1>1, <1>4
  <2>4. formcut' \/ form_token = creation_time
    BY <2>2, <2>3, Zenon
  <2>5. formcut' \/ form_token' = creation_time'
    BY <1>1, <2>4, Zenon
  <2> QED
    BY <1>1, <1>2, <2>5 DEF TokensInv
<1> QED
  BY <1>3, <1>4

\* Every step keeps what is known of the two values.
LEMMA TokensStep ==
  ASSUME Sending, TokensInv, [Next]_vars
  PROVE  TokensInv'
<1>1. CASE Post \/ UNCHANGED vars
  <2>1. UNCHANGED <<mainvars, pagevars, calls, past, cookievars, parservars>>
    BY <1>1 DEF Post, vars
  <2>2. UNCHANGED <<state, turn, line, at, page, sets, calls, formcut, creation_time, form_token>>
    BY <2>1 DEF mainvars, pagevars, past, cookievars, tokens
  <2>3. UNCHANGED <<pstate, j, l, m, n, buffer>>
    BY <2>1 DEF parservars, counters, fields
  <2>4. (HasForm' <=> HasForm) /\ FormAt' = FormAt /\ (Parsed' <=> Parsed)
    <3>1. FormPart.kind' = "form" /\ FormPart.kind = "form"
      BY DEF FormPart
    <3> QED
      BY <2>2, <3>1 DEF HasForm, FormAt, Parsed
  <2>5. Placed => Placed'
    <3>1. \A x : InForm(x) => InForm(x)'
      BY <2>2, <2>3 DEF InForm
    <3>2. PICK x : x = page[1].creation_time
      OBVIOUS
    <3>3. InForm(page[1].creation_time) => InForm(page[1].creation_time)'
      BY <2>2, <3>1, <3>2, InFormOfPage
    <3> QED
      BY <2>2, <2>3, <2>4, <3>3 DEF Placed
  <2> QED
    BY <2>2, <2>3, <2>4, <2>5 DEF TokensInv
<1>2. CASE \E status \in {200, 403}, people \in Presences, cs \in CookieSets(state) : Ask(status, people, cs)
  BY <1>2, AskTokens
<1>3. CASE FirstPiece
  BY <1>3, FirstTokens
<1>4. CASE Symbol
  BY <1>4, SymbolTokens
<1>5. CASE Over \/ Lost
  BY <1>5, OverTokens
<1> QED
  BY <1>1, <1>2, <1>3, <1>4, <1>5 DEF Next

\* The creation time and the token of the form that a message is posted with are
\* those of one page, unless the last page with a form was cut before its second
\* value: for any window, answers, cookies, people and messages, wherever the
\* network cuts and whatever an answer that was cut left in the static variables
\* of the parser (parsehtml.c:149-172, main.c:640).
THEOREM TokensAlwaysPaired == Spec => []TokensArePaired
<1>1. Init => Sending /\ TokensInv
  BY SendingInit, TokensInit
<1>2. Sending /\ TokensInv /\ [Next]_vars => Sending' /\ TokensInv'
  BY SendingStep, TokensStep
<1>3. TokensInv => TokensArePaired
  BY DEF TokensInv, TokensArePaired
<1> QED
  BY <1>1, <1>2, <1>3, PTL DEF Spec
-----------------------------------------------------------------------------
(* A cookie, from its line to the jar.                                     *)

\* The jar and what was told after a cookie that is told and stored.
LEMMA StoreTold ==
  ASSUME NEW name, NEW value, JarOrdered, JarIsTold,
         cookies' = storecookie(cookies, name, value), told' = Tell(told, name, value)
  PROVE  JarIsTold'
<1> DEFINE kept(S) == {c \in S : c[1] # name}
<1>1. told' = kept(told) \cup {<<name, value>>}
  BY DEF Tell
<1>2. /\ Sent \subseteq told
      /\ \A c \in told \ Sent : (\A i \in Slots : cookies[i] # FREE) /\ c[1] \notin {d[1] : d \in Sent}
  BY DEF JarIsTold
<1>3. <<name, value>>[1] = name
  OBVIOUS
<1>4. CASE \E i \in Slots : cookies[i] = FREE \/ cookies[i][1] = name
  <2>1. PICK i \in Slots : StoresAt(i, name, value)
    BY <1>4, StorePlace
  <2>2. /\ cookies'[i] = <<name, value>> /\ cookies'[i] # FREE
        /\ \A h \in Slots : h # i => cookies'[h] = cookies[h]
    BY <2>1, SlotsAfter
  <2>5. Sent' = kept(Sent) \cup {<<name, value>>}
    BY <2>1, SentAfter
  <2>6. Sent' \subseteq told'
    BY <1>1, <1>2, <2>5
  <2>7. ASSUME NEW c \in told' \ Sent'
        PROVE  (\A h \in Slots : cookies'[h] # FREE) /\ c[1] \notin {d[1] : d \in Sent'}
    <3>1. c \in told \ Sent /\ c[1] # name
      BY <1>1, <2>5, <2>7
    <3>2. \A h \in Slots : cookies'[h] # FREE
      BY <1>2, <2>2, <3>1
    <3>3. c[1] \notin {d[1] : d \in Sent}
      BY <1>2, <3>1
    <3> QED
      BY <1>3, <2>5, <3>1, <3>2, <3>3
  <2> QED
    BY <2>6, <2>7 DEF JarIsTold, Slots
<1>5. CASE \A i \in Slots : cookies[i] # FREE /\ cookies[i][1] # name
  <2>1. cookies' = cookies
    BY <1>5, StoreNowhere
  <2>2. Sent' = Sent /\ \A d \in Sent : d[1] # name
    BY <1>5, <2>1 DEF Sent, Slots
  <2>3. Sent' \subseteq told'
    BY <1>1, <1>2, <2>2
  <2>4. ASSUME NEW c \in told' \ Sent'
        PROVE  (\A h \in Slots : cookies'[h] # FREE) /\ c[1] \notin {d[1] : d \in Sent'}
    BY <1>1, <1>2, <1>3, <1>5, <2>1, <2>2, <2>4
  <2> QED
    BY <2>3, <2>4 DEF JarIsTold, Slots
<1> QED
  BY <1>4, <1>5

\* Symbols of a cookie's line before its value, and before what follows the pair.
ValueFrom(c) == Len(c.name) + (IF c.equal THEN 4 ELSE 3)
PairSize(c) == ValueFrom(c) + Len(c.value)

\* A cookie's line, by places.
CookieText(w, c) ==
  /\ Len(w) = PairSize(c) + Len(c.rest) + 2
  /\ w[1] = "Set-" /\ w[2] = "Cookie:" /\ w[3] = " "
  /\ \A p \in 4 .. Len(c.name) + 3 : w[p] = c.name[p - 3]
  /\ c.equal => w[Len(c.name) + 4] = "="
  /\ \A p \in ValueFrom(c) + 1 .. PairSize(c) : w[p] = c.value[p - ValueFrom(c)]
  /\ \A p \in PairSize(c) + 1 .. PairSize(c) + Len(c.rest) : w[p] = c.rest[p - PairSize(c)]
  /\ w[PairSize(c) + Len(c.rest) + 1] = "\r"
  /\ w[PairSize(c) + Len(c.rest) + 2] = "\n"

\* The symbols of a sequence.
LEMMA SeqSymbols ==
  ASSUME NEW S, NEW s \in Seq(S)
  PROVE  /\ Len(s) \in Nat /\ (Len(s) = 0 <=> s = << >>)
         /\ \A i \in 1 .. Len(s) : s[i] \in S
  OBVIOUS

\* The sizes of a cookie's parts.
LEMMA CookieSizes ==
  ASSUME NEW c, IsCookie(c)
  PROVE  /\ Len(c.name) \in Nat \ {0} /\ Len(c.value) \in Nat /\ Len(c.rest) \in Nat
         /\ ValueFrom(c) \in Nat /\ PairSize(c) \in Nat
         /\ ValueFrom(c) = Len(c.name) + 3 \/ ValueFrom(c) = Len(c.name) + 4
         /\ c.equal => ValueFrom(c) = Len(c.name) + 4
         /\ ~c.equal => ValueFrom(c) = Len(c.name) + 3 /\ Len(c.value) = 0
         /\ PairSize(c) = ValueFrom(c) + Len(c.value)
<1>1. /\ c.name \in Seq(Symbols \ {CR, LF, ";", "=", "<"}) /\ c.name # << >>
      /\ c.value \in Seq(Symbols \ {CR, LF, ";", "<"})
      /\ c.rest \in Seq(Symbols \ {LF, "<"})
      /\ ~c.equal => c.value = << >>
  BY DEF IsCookie, CookieRecords
<1> DEFINE S1 == Symbols \ {CR, LF, ";", "=", "<"}
           S2 == Symbols \ {CR, LF, ";", "<"}
           S3 == Symbols \ {LF, "<"}
<1>2. Len(c.name) \in Nat \ {0} /\ Len(c.value) \in Nat /\ Len(c.rest) \in Nat
      /\ (c.value = << >> => Len(c.value) = 0)
  <2>0. c.name \in Seq(S1) /\ c.value \in Seq(S2) /\ c.rest \in Seq(S3)
    BY <1>1
  <2> HIDE DEF S1, S2, S3
  <2>1. Len(c.name) \in Nat /\ (Len(c.name) = 0 <=> c.name = << >>)
    BY <2>0, SeqSymbols
  <2>2. Len(c.value) \in Nat /\ (Len(c.value) = 0 <=> c.value = << >>)
    BY <2>0, SeqSymbols
  <2>3. Len(c.rest) \in Nat
    BY <2>0, SeqSymbols
  <2>4. Len(c.name) # 0
    BY <1>1, <2>1
  <2> QED
    BY <2>1, <2>2, <2>3, <2>4
<1>3. ~c.equal => Len(c.value) = 0
  BY <1>1, <1>2
<1>4. c.equal => ValueFrom(c) = Len(c.name) + 4
  BY DEF ValueFrom
<1>5. ~c.equal => ValueFrom(c) = Len(c.name) + 3
  BY DEF ValueFrom
<1> QED
  BY <1>2, <1>3, <1>4, <1>5 DEF PairSize

\* The symbols of a name, of a value, of what follows.
LEMMA CookieSymbols ==
  ASSUME NEW c, IsCookie(c)
  PROVE  /\ \A i \in 1 .. Len(c.name) : c.name[i] \notin {"\r", "\n", ";", "="}
         /\ c.name[1] \notin {" ", "-"}
         /\ \A i \in 1 .. Len(c.value) : c.value[i] \notin {"\r", "\n", ";"}
         /\ \A i \in 1 .. Len(c.rest) : c.rest[i] # "\n"
         /\ Len(c.rest) > 0 => c.rest[1] = ";"
<1>1. /\ c.name \in Seq(Symbols \ {CR, LF, ";", "=", "<"})
      /\ c.name[1] \notin {" ", "-"}
      /\ c.value \in Seq(Symbols \ {CR, LF, ";", "<"})
      /\ c.rest \in Seq(Symbols \ {LF, "<"})
      /\ c.rest = << >> \/ c.rest[1] = ";"
  BY DEF IsCookie, CookieRecords
<1>2. \A i \in 1 .. Len(c.name) : c.name[i] \in Symbols \ {CR, LF, ";", "=", "<"}
  BY <1>1, SeqSymbols, Zenon
<1>3. \A i \in 1 .. Len(c.value) : c.value[i] \in Symbols \ {CR, LF, ";", "<"}
  BY <1>1, SeqSymbols, Zenon
<1>4. \A i \in 1 .. Len(c.rest) : c.rest[i] \in Symbols \ {LF, "<"}
  BY <1>1, SeqSymbols, Zenon
<1>5. Len(c.rest) > 0 => c.rest[1] = ";"
  <2>1. Len(c.rest) \in Nat /\ (Len(c.rest) = 0 <=> c.rest = << >>)
    <3>1. c.rest \in Seq(Symbols \ {LF, "<"})
      BY <1>1
    <3> DEFINE S3 == Symbols \ {LF, "<"}
    <3> HIDE DEF S3
    <3> QED
      BY <3>1, SeqSymbols DEF S3
  <2>2. ASSUME Len(c.rest) > 0 PROVE c.rest[1] = ";"
    <3>1. Len(c.rest) # 0
      BY <2>1, <2>2
    <3>2. c.rest # << >>
      BY <2>1, <3>1
    <3> QED
      BY <1>1, <3>2, Zenon
  <2> QED
    BY <2>2
<1> QED
  BY <1>1, <1>2, <1>3, <1>4, <1>5 DEF CR, LF

\* x is s, of size a, and then t, of size b.
Joined(x, s, t, a, b) ==
  /\ Len(x) = a + b
  /\ \A i \in 1 .. a : x[i] = s[i]
  /\ \A i \in a + 1 .. a + b : x[i] = t[i - a]

\* Two sequences, one after the other, and their places.
LEMMA JoinAt ==
  ASSUME NEW S, NEW s \in Seq(S), NEW t \in Seq(S)
  PROVE  s \o t \in Seq(S) /\ Joined(s \o t, s, t, Len(s), Len(t))
<1>0. PICK a, b : a = Len(s) /\ b = Len(t)
  OBVIOUS
<1>1. s \o t \in Seq(S) /\ Len(s \o t) = Len(s) + Len(t) /\ a \in Nat /\ b \in Nat
  BY <1>0, Join2
<1>2. \A i \in 1 .. Len(s) + Len(t) : (s \o t)[i] = IF i <= Len(s) THEN s[i] ELSE t[i - Len(s)]
  BY ConcatAt
<1>3. ASSUME NEW i \in 1 .. a PROVE (s \o t)[i] = s[i]
  BY <1>0, <1>1, <1>2
<1>4. ASSUME NEW i \in a + 1 .. a + b PROVE (s \o t)[i] = t[i - a]
  BY <1>0, <1>1, <1>2
<1> QED
  BY <1>0, <1>1, <1>3, <1>4 DEF Joined

\* The line the forum writes for a cookie has its symbols where CookieText says.
LEMMA CookieIs ==
  ASSUME NEW c, IsCookie(c)
  PROVE  CookieText(CookieLine(c), c) /\ Len(CookiePair(c)) = PairSize(c)
<1> DEFINE T == All \cup Symbols
<1>1. PICK eq : eq = IF c.equal THEN <<"=">> ELSE << >>
  OBVIOUS
<1>2. c.name \in Seq(T) /\ c.value \in Seq(T) /\ c.rest \in Seq(T)
  <2>1. /\ c.name \in Seq(Symbols \ {CR, LF, ";", "=", "<"})
        /\ c.value \in Seq(Symbols \ {CR, LF, ";", "<"})
        /\ c.rest \in Seq(Symbols \ {LF, "<"})
    BY DEF IsCookie, CookieRecords
  <2>2. /\ Symbols \ {CR, LF, ";", "=", "<"} \subseteq T
        /\ Symbols \ {CR, LF, ";", "<"} \subseteq T
        /\ Symbols \ {LF, "<"} \subseteq T
    OBVIOUS
  <2> HIDE DEF T
  <2> QED
    BY <2>1, <2>2, SeqMono
<1>3. SetCookie \in Seq(T) /\ <<" ">> \in Seq(T) /\ eq \in Seq(T) /\ EOL \in Seq(T)
  <2>1. {"Set-", "Cookie:", " ", "=", "\r", "\n"} \subseteq T
    BY DEF All, Written
  <2> HIDE DEF T
  <2>2. "Set-" \in T /\ "Cookie:" \in T /\ " " \in T /\ "=" \in T /\ "\r" \in T /\ "\n" \in T
    BY <2>1
  <2>3. <<"=">> \in Seq(T) /\ << >> \in Seq(T)
    BY <2>2, ShortSeqs
  <2> QED
    BY <1>1, <2>2, <2>3, ShortSeqs DEF SetCookie, EOL
<1>4. /\ Len(SetCookie) = 2 /\ SetCookie[1] = "Set-" /\ SetCookie[2] = "Cookie:"
      /\ Len(<<" ">>) = 1 /\ <<" ">>[1] = " " /\ Len(EOL) = 2 /\ EOL[1] = "\r" /\ EOL[2] = "\n"
  BY DEF SetCookie, EOL
<1>5. /\ c.equal => Len(eq) = 1 /\ eq[1] = "="
      /\ ~c.equal => Len(eq) = 0
  <2>1. Len(<<"=">>) = 1 /\ <<"=">>[1] = "=" /\ Len(<< >>) = 0
    OBVIOUS
  <2> QED
    BY <1>1, <2>1
<1>6. PICK nm, v, r, sp : nm = c.name /\ v = c.value /\ r = c.rest /\ sp = <<" ">>
  OBVIOUS
<1>7. PICK N, V, R, E : N = Len(nm) /\ V = Len(v) /\ R = Len(r) /\ E = Len(eq)
  OBVIOUS
<1>8. N \in Nat \ {0} /\ V \in Nat /\ R \in Nat /\ E \in Nat
  <2>1. Len(nm) \in Nat \ {0} /\ Len(v) \in Nat /\ Len(r) \in Nat
    BY <1>6, CookieSizes
  <2> QED
    BY <1>5, <1>7, <2>1
<1>9. PICK F, P, Q : F = N + 3 + E /\ P = F + V /\ Q = P + R
  OBVIOUS
<1>10. F \in Nat /\ P \in Nat /\ Q \in Nat /\ ValueFrom(c) = F /\ PairSize(c) = P
  <2>1. c.equal => ValueFrom(c) = Len(nm) + 4
    BY <1>6 DEF ValueFrom
  <2>2. ~c.equal => ValueFrom(c) = Len(nm) + 3
    BY <1>6 DEF ValueFrom
  <2>3. ValueFrom(c) = F
    <3>1. CASE c.equal
      <4>1. E = 1 /\ ValueFrom(c) = N + 4
        BY <1>5, <1>7, <2>1, <3>1
      <4> QED
        BY <1>8, <1>9, <4>1
    <3>2. CASE ~c.equal
      <4>1. E = 0 /\ ValueFrom(c) = N + 3
        BY <1>5, <1>7, <2>2, <3>2
      <4> QED
        BY <1>8, <1>9, <4>1
    <3> QED
      BY <3>1, <3>2
  <2>4. PairSize(c) = ValueFrom(c) + Len(v)
    BY <1>6 DEF PairSize
  <2> QED
    BY <1>7, <1>8, <1>9, <2>3, <2>4
<1>11. /\ nm \in Seq(T) /\ v \in Seq(T) /\ r \in Seq(T) /\ sp \in Seq(T)
       /\ Len(sp) = 1 /\ sp[1] = " "
  BY <1>2, <1>3, <1>4, <1>6
<1> HIDE DEF T
<1>12. PICK s : s = SetCookie \o sp
  OBVIOUS
<1>13. /\ s \in Seq(T) /\ Len(s) = 3
       /\ s[1] = "Set-" /\ s[2] = "Cookie:" /\ s[3] = " "
  <2>1. 2 = Len(SetCookie) /\ 1 = Len(sp)
    BY <1>4, <1>11
  <2>2. SetCookie \o sp \in Seq(T) /\ Joined(SetCookie \o sp, SetCookie, sp, Len(SetCookie), Len(sp))
    BY <1>3, <1>11, JoinAt, Zenon
  <2>4. s \in Seq(T) /\ Joined(s, SetCookie, sp, 2, 1)
    BY <1>12, <2>1, <2>2, Zenon
  <2>3. s[1] = SetCookie[1] /\ s[2] = SetCookie[2] /\ s[3] = sp[1] /\ Len(s) = 3
    BY <2>4 DEF Joined
  <2> QED
    BY <1>4, <1>11, <2>3, <2>4
<1>14. PICK n1 : n1 = s \o nm
  OBVIOUS
<1>15. /\ n1 \in Seq(T) /\ Len(n1) = 3 + N
       /\ \A i \in 1 .. 3 : n1[i] = s[i]
       /\ \A i \in 3 + 1 .. 3 + N : n1[i] = nm[i - 3]
  <2>1. s \o nm \in Seq(T) /\ Joined(s \o nm, s, nm, Len(s), Len(nm))
    BY <1>11, <1>13, JoinAt, Zenon
  <2>2. Len(s) = 3 /\ Len(nm) = N
    BY <1>4, <1>7, <1>13
  <2>3. n1 \in Seq(T) /\ Joined(n1, s, nm, 3, N)
    BY <1>14, <2>1, <2>2, Zenon
  <2> QED
    BY <2>3, Zenon DEF Joined
<1>16. PICK n2 : n2 = n1 \o eq
  OBVIOUS
<1>17. /\ n2 \in Seq(T) /\ Len(n2) = (3 + N) + E
       /\ \A i \in 1 .. 3 + N : n2[i] = n1[i]
       /\ \A i \in (3 + N) + 1 .. (3 + N) + E : n2[i] = eq[i - (3 + N)]
  <2>1. n1 \o eq \in Seq(T) /\ Joined(n1 \o eq, n1, eq, Len(n1), Len(eq))
    BY <1>3, <1>15, JoinAt, Zenon
  <2>2. Len(n1) = 3 + N /\ Len(eq) = E
    BY <1>4, <1>7, <1>15
  <2>3. n2 \in Seq(T) /\ Joined(n2, n1, eq, 3 + N, E)
    BY <1>16, <2>1, <2>2, Zenon
  <2> QED
    BY <2>3, Zenon DEF Joined
<1>18. PICK n3 : n3 = n2 \o v
  OBVIOUS
<1>19. /\ n3 \in Seq(T) /\ Len(n3) = F + V
       /\ \A i \in 1 .. F : n3[i] = n2[i]
       /\ \A i \in F + 1 .. F + V : n3[i] = v[i - F]
  <2>1. n2 \o v \in Seq(T) /\ Joined(n2 \o v, n2, v, Len(n2), Len(v))
    BY <1>11, <1>17, JoinAt, Zenon
  <2>2. Len(n2) = F /\ Len(v) = V
    BY <1>4, <1>7, <1>8, <1>9, <1>17
  <2>3. n3 \in Seq(T) /\ Joined(n3, n2, v, F, V)
    BY <1>18, <2>1, <2>2, Zenon
  <2> QED
    BY <2>3, Zenon DEF Joined
<1>20. PICK n4 : n4 = n3 \o r
  OBVIOUS
<1>21. /\ n4 \in Seq(T) /\ Len(n4) = P + R
       /\ \A i \in 1 .. P : n4[i] = n3[i]
       /\ \A i \in P + 1 .. P + R : n4[i] = r[i - P]
  <2>1. n3 \o r \in Seq(T) /\ Joined(n3 \o r, n3, r, Len(n3), Len(r))
    BY <1>11, <1>19, JoinAt, Zenon
  <2>2. Len(n3) = P /\ Len(r) = R
    BY <1>4, <1>7, <1>9, <1>19
  <2>3. n4 \in Seq(T) /\ Joined(n4, n3, r, P, R)
    BY <1>20, <2>1, <2>2, Zenon
  <2> QED
    BY <2>3, Zenon DEF Joined
<1>22. PICK n5 : n5 = n4 \o EOL
  OBVIOUS
<1>23. /\ n5 \in Seq(T) /\ Len(n5) = Q + 2
       /\ \A i \in 1 .. Q : n5[i] = n4[i]
       /\ \A i \in Q + 1 .. Q + 2 : n5[i] = EOL[i - Q]
  <2>1. n4 \o EOL \in Seq(T) /\ Joined(n4 \o EOL, n4, EOL, Len(n4), Len(EOL))
    BY <1>3, <1>21, JoinAt, Zenon
  <2>2. Len(n4) = Q /\ Len(EOL) = 2
    BY <1>4, <1>7, <1>9, <1>21
  <2>3. n5 \in Seq(T) /\ Joined(n5, n4, EOL, Q, 2)
    BY <1>22, <2>1, <2>2, Zenon
  <2> QED
    BY <2>3, Zenon DEF Joined
<1>24. n3 = CookiePair(c) /\ n5 = CookieLine(c)
  <2>1. n3 = SetCookie \o <<" ">> \o c.name \o (IF c.equal THEN <<"=">> ELSE << >>) \o c.value
    BY <1>1, <1>6, <1>12, <1>14, <1>16, <1>18
  <2> QED
    BY <1>6, <1>20, <1>22, <2>1 DEF CookiePair, CookieLine
<1>25. n5[Q + 1] = "\r" /\ n5[Q + 2] = "\n"
  <2>1. PICK q1, q2 : q1 = Q + 1 /\ q2 = Q + 2
    OBVIOUS
  <2>2. q1 \in Q + 1 .. Q + 2 /\ q2 \in Q + 1 .. Q + 2 /\ q1 - Q = 1 /\ q2 - Q = 2
    BY <1>10, <2>1
  <2>3. n5[q1] = EOL[q1 - Q] /\ n5[q2] = EOL[q2 - Q]
    BY <1>23, <2>2
  <2> QED
    BY <1>4, <2>1, <2>2, <2>3
<1>26. ASSUME NEW i \in P + 1 .. P + R PROVE n5[i] = r[i - P]
  <2>1. i \in 1 .. Q
    BY <1>8, <1>9, <1>10
  <2> QED
    BY <1>21, <1>23, <2>1
<1>27. ASSUME NEW i \in 1 .. P PROVE n5[i] = n3[i]
  <2>1. i \in 1 .. Q
    BY <1>8, <1>9, <1>10
  <2> QED
    BY <1>21, <1>23, <2>1
<1>28. ASSUME NEW i \in F + 1 .. P PROVE n5[i] = v[i - F]
  <2>1. i \in 1 .. P /\ i \in F + 1 .. F + V
    BY <1>8, <1>9, <1>10
  <2> QED
    BY <1>19, <1>27, <2>1
<1>29. ASSUME NEW i \in 1 .. F PROVE n5[i] = n2[i]
  <2>1. i \in 1 .. P
    BY <1>8, <1>9, <1>10
  <2> QED
    BY <1>19, <1>27, <2>1
<1>30. ASSUME NEW i \in 1 .. N + 3 PROVE n5[i] = n1[i]
  <2>1. i \in 1 .. F /\ i \in 1 .. 3 + N
    BY <1>8, <1>9, <1>10
  <2> QED
    BY <1>17, <1>29, <2>1
<1>31. ASSUME NEW i \in 4 .. N + 3 PROVE n5[i] = nm[i - 3]
  <2>1. i \in 1 .. N + 3 /\ i \in 3 + 1 .. 3 + N
    BY <1>8
  <2> QED
    BY <1>15, <1>30, <2>1
<1>32. n5[1] = "Set-" /\ n5[2] = "Cookie:" /\ n5[3] = " "
  <2>1. n5[1] = n1[1] /\ n5[2] = n1[2] /\ n5[3] = n1[3]
    BY <1>8, <1>30
  <2>2. n1[1] = s[1] /\ n1[2] = s[2] /\ n1[3] = s[3]
    BY <1>15
  <2> QED
    BY <1>13, <2>1, <2>2
<1>33. ASSUME c.equal PROVE n5[N + 4] = "="
  <2>1. PICK q : q = N + 4
    OBVIOUS
  <2>2. q \in 1 .. F /\ E = 1 /\ q - (3 + N) = 1 /\ q \in (3 + N) + 1 .. (3 + N) + E
    BY <1>5, <1>7, <1>8, <1>9, <1>33, <2>1
  <2>3. n5[q] = eq[q - (3 + N)]
    BY <1>17, <1>29, <2>2
  <2> QED
    BY <1>5, <1>33, <2>1, <2>2, <2>3
<1>34. CookieText(n5, c)
  <2>1. Len(n5) = PairSize(c) + R + 2
    BY <1>9, <1>10, <1>23
  <2>2. Q = PairSize(c) + R
    BY <1>9, <1>10
  <2> QED
    BY <1>6, <1>7, <1>10, <1>25, <1>26, <1>28, <1>31, <1>32, <1>33, <2>1, <2>2 DEF CookieText
<1> QED
  BY <1>9, <1>10, <1>19, <1>24, <1>34

\* The automaton of the cookies after i symbols of a name, of a value.
InName(c, i) ==
  IF i <= MAXBUFNAME
    THEN hstate = "IN_COOKIENAME" /\ bufname = SubSeq(c.name, 1, i)
    ELSE hstate = "WAITINGFORNEWLINE"
InValue(c, i) ==
  IF Len(c.name) <= MAXBUFNAME /\ i <= MAXBUFVALUE
    THEN hstate = "IN_COOKIE_VALUE" /\ bufname = c.name /\ bufvalue = SubSeq(c.value, 1, i)
    ELSE hstate = "WAITINGFORNEWLINE"

\* Before the symbol p of a cookie's line.
InCookie(c, p) ==
  /\ hj = IF p = 2 THEN 1 ELSE 0
  /\ p \in {1, 2} => hstate = "IN_HEADER"
  /\ p \in {3, 4} => hstate = "HEADER_FOUND"
  /\ p \in 5 .. Len(c.name) + 4 => InName(c, p - 4)
  /\ c.equal /\ p \in ValueFrom(c) + 1 .. PairSize(c) + 1 => InValue(c, p - (ValueFrom(c) + 1))
  /\ p > PairSize(c) + 1 => hstate = "WAITINGFORNEWLINE"

\* The beginning of a sequence, and one symbol more.
LEMMA PrefixFacts ==
  ASSUME NEW S, NEW s \in Seq(S)
  PROVE  /\ SubSeq(s, 1, 0) = << >> /\ SubSeq(s, 1, Len(s)) = s
         /\ \A i \in 0 .. Len(s) : Len(SubSeq(s, 1, i)) = i
         /\ \A i \in 1 .. Len(s) : SubSeq(s, 1, i) = Append(SubSeq(s, 1, i - 1), s[i])
<1>1. SubSeq(s, 1, 0) = << >> /\ SubSeq(s, 1, Len(s)) = s
  OBVIOUS
<1>2. \A i \in 0 .. Len(s) : Len(SubSeq(s, 1, i)) = i
  OBVIOUS
<1>3. ASSUME NEW i \in 1 .. Len(s) PROVE SubSeq(s, 1, i) = Append(SubSeq(s, 1, i - 1), s[i])
  OBVIOUS
<1> QED
  BY <1>1, <1>2, <1>3

\* What was read of a cookie's name and value, by length.
LEMMA CookiePrefixes ==
  ASSUME NEW c, IsCookie(c)
  PROVE  /\ SubSeq(c.name, 1, Len(c.name)) = c.name
         /\ \A i \in 0 .. Len(c.name) : Len(SubSeq(c.name, 1, i)) = i
         /\ \A i \in 1 .. Len(c.name) : SubSeq(c.name, 1, i) = Append(SubSeq(c.name, 1, i - 1), c.name[i])
         /\ SubSeq(c.name, 1, 0) = << >>
         /\ SubSeq(c.value, 1, Len(c.value)) = c.value
         /\ \A i \in 0 .. Len(c.value) : Len(SubSeq(c.value, 1, i)) = i
         /\ \A i \in 1 .. Len(c.value) : SubSeq(c.value, 1, i) = Append(SubSeq(c.value, 1, i - 1), c.value[i])
         /\ SubSeq(c.value, 1, 0) = << >>
<1> DEFINE S1 == Symbols \ {CR, LF, ";", "=", "<"}
           S2 == Symbols \ {CR, LF, ";", "<"}
<1>1. c.name \in Seq(S1) /\ c.value \in Seq(S2)
  BY DEF IsCookie, CookieRecords
<1> HIDE DEF S1, S2
<1>2. PICK s, t : s = c.name /\ t = c.value
  OBVIOUS
<1>3. /\ SubSeq(s, 1, 0) = << >> /\ SubSeq(s, 1, Len(s)) = s
      /\ \A i \in 0 .. Len(s) : Len(SubSeq(s, 1, i)) = i
      /\ \A i \in 1 .. Len(s) : SubSeq(s, 1, i) = Append(SubSeq(s, 1, i - 1), s[i])
  BY <1>1, <1>2, PrefixFacts, Zenon
<1>4. /\ SubSeq(t, 1, 0) = << >> /\ SubSeq(t, 1, Len(t)) = t
      /\ \A i \in 0 .. Len(t) : Len(SubSeq(t, 1, i)) = i
      /\ \A i \in 1 .. Len(t) : SubSeq(t, 1, i) = Append(SubSeq(t, 1, i - 1), t[i])
  BY <1>1, <1>2, PrefixFacts, Zenon
<1> QED
  BY <1>2, <1>3, <1>4, Zenon

\* What the automaton does in each of its states.
LEMMA HeaderStates ==
  ASSUME NEW x, ParseHeader(x)
  PROVE  /\ hstate = "WAITINGFORNEWLINE" => WaitForNewline(x)
         /\ hstate = "IN_HEADER" => InHeader(x)
         /\ hstate = "HEADER_FOUND" => HeaderFound(x)
         /\ hstate = "IN_COOKIENAME" => InCookieName(x)
         /\ hstate = "IN_COOKIE_VALUE" => InCookieValue(x)
  BY DEF ParseHeader, WaitForNewline, InHeader, HeaderFound, InCookieName, InCookieValue

\* Until the first symbol of the name.
LEMMA BeginRead ==
  ASSUME NEW c, IsCookie(c), NEW w, CookieText(w, c), NEW p \in 1 .. 3, NEW x, x = w[p],
         ParseHeader(x), InCookie(c, p)
  PROVE  InCookie(c, p + 1)' /\ cookies' = cookies
<1>1. SetCookie[1] = "Set-" /\ SetCookie[2] = "Cookie:" /\ Len(SetCookie) = 2
  BY DEF SetCookie
<1>2. PICK q : q = p + 1
  OBVIOUS
<1>3. /\ hj' = IF q = 2 THEN 1 ELSE 0
      /\ q = 2 => hstate' = "IN_HEADER"
      /\ q \in {3, 4} => hstate' = "HEADER_FOUND"
      /\ cookies' = cookies
  <2>1. CASE p = 1
    <3>1. hstate = "IN_HEADER" /\ hj = 0
      BY <2>1 DEF InCookie
    <3>2. InHeader(x)
      BY <3>1, HeaderStates
    <3>3. x = "Set-"
      BY <2>1 DEF CookieText
    <3>4. x \notin {"\r", "\n"} /\ hj + 1 = 1
      BY <3>1, <3>3
    <3>5. hj' = hj + 1 /\ hstate' = hstate /\ cookies' = cookies
      BY <1>1, <3>2, <3>3, <3>4 DEF InHeader, LF, CR
    <3> QED
      BY <1>2, <2>1, <3>1, <3>5
  <2>2. CASE p = 2
    <3>1. hstate = "IN_HEADER" /\ hj = 1
      BY <2>2 DEF InCookie
    <3>2. InHeader(x)
      BY <3>1, HeaderStates
    <3>3. x = "Cookie:"
      BY <2>2 DEF CookieText
    <3>4. x \notin {"\r", "\n"} /\ hj + 1 = 2
      BY <3>1, <3>3
    <3>5. hj' = 0 /\ hstate' = "HEADER_FOUND" /\ cookies' = cookies
      BY <1>1, <3>2, <3>3, <3>4 DEF InHeader, LF, CR
    <3> QED
      BY <1>2, <2>2, <3>5
  <2>3. CASE p = 3
    <3>1. hstate = "HEADER_FOUND" /\ hj = 0
      BY <2>3 DEF InCookie
    <3>2. HeaderFound(x)
      BY <3>1, HeaderStates
    <3>3. x = " "
      BY <2>3 DEF CookieText
    <3>5. hj' = 0 /\ hstate' = "HEADER_FOUND" /\ cookies' = cookies
      BY <3>1, <3>2, <3>3 DEF HeaderFound, IsLow, IsControl, LF, CR
    <3> QED
      BY <1>2, <2>3, <3>5
  <2> QED
    BY <2>1, <2>2, <2>3
<1>4. /\ q \in 2 .. 4 /\ q \notin 5 .. Len(c.name) + 4
      /\ q \notin ValueFrom(c) + 1 .. PairSize(c) + 1 /\ ~(q > PairSize(c) + 1)
  BY <1>2, CookieSizes
<1>5. InCookie(c, q)'
  BY <1>3, <1>4 DEF InCookie
<1> QED
  BY <1>2, <1>3, <1>5

\* The first symbol of the name.
LEMMA NameBegins ==
  ASSUME NEW c, IsCookie(c), NEW w, CookieText(w, c), NEW x, x = w[4], ParseHeader(x), InCookie(c, 4)
  PROVE  InCookie(c, 5)' /\ cookies' = cookies
<1>1. hstate = "HEADER_FOUND" /\ hj = 0
  BY DEF InCookie
<1>2. HeaderFound(x)
  BY <1>1, HeaderStates
<1>3. Len(c.name) \in Nat \ {0} /\ x = c.name[1]
  <2>1. Len(c.name) \in Nat \ {0}
    BY CookieSizes
  <2>2. 4 \in 4 .. Len(c.name) + 3 /\ 4 - 3 = 1
    BY <2>1
  <2>3. w[4] = c.name[4 - 3]
    BY <2>2 DEF CookieText
  <2> QED
    BY <2>1, <2>2, <2>3
<1>4. x \notin {"\r", "\n", ";", "=", " ", "-"}
  <2>1. \A i \in 1 .. Len(c.name) : c.name[i] \notin {"\r", "\n", ";", "="}
    BY CookieSymbols
  <2>2. 1 \in 1 .. Len(c.name)
    BY <1>3
  <2>3. x \notin {"\r", "\n", ";", "="}
    BY <1>3, <2>1, <2>2
  <2>4. x \notin {" ", "-"}
    BY <1>3, CookieSymbols
  <2> QED
    BY <2>3, <2>4
<1>5. hstate' = "IN_COOKIENAME" /\ bufname' = <<x>> /\ hj' = 0 /\ cookies' = cookies
  BY <1>1, <1>2, <1>4 DEF HeaderFound, LF, CR, IsLow, IsControl
<1>6. SubSeq(c.name, 1, 1) = <<x>>
  <2>1. 1 \in 1 .. Len(c.name) /\ 1 - 1 = 0
    BY <1>3
  <2>2. SubSeq(c.name, 1, 1) = Append(SubSeq(c.name, 1, 0), c.name[1])
    BY <2>1, CookiePrefixes
  <2>3. SubSeq(c.name, 1, 1) = Append(<< >>, x)
    BY <1>3, <2>2, CookiePrefixes
  <2> QED
    BY <2>3
<1>7. InName(c, 1)'
  <2>1. 1 <= MAXBUFNAME
    BY CookiesAssumption
  <2>2. bufname' = SubSeq(c.name, 1, 1)
    BY <1>5, <1>6, Zenon
  <2> QED
    BY <1>5, <2>1, <2>2, Zenon DEF InName
<1>8. 5 \notin ValueFrom(c) + 1 .. PairSize(c) + 1 \/ ~c.equal
  BY <1>3, CookieSizes
<1>9. ~(5 > PairSize(c) + 1) /\ 5 - 4 = 1
  BY <1>3, CookieSizes
<1> QED
  BY <1>5, <1>7, <1>8, <1>9 DEF InCookie

\* A symbol that ends no line, while a line's end is waited for.
LEMMA StillWaiting ==
  ASSUME NEW x, ParseHeader(x), hstate = "WAITINGFORNEWLINE", x # "\n"
  PROVE  hstate' = "WAITINGFORNEWLINE" /\ hj' = hj /\ cookies' = cookies
<1>1. WaitForNewline(x)
  BY HeaderStates
<1> QED
  BY <1>1 DEF WaitForNewline, LF

\* A symbol of the name.
LEMMA NameRead ==
  ASSUME NEW c, IsCookie(c), NEW i \in 1 .. Len(c.name) - 1, NEW x, x = c.name[i + 1],
         ParseHeader(x), InName(c, i)
  PROVE  InName(c, i + 1)' /\ hj' = hj /\ cookies' = cookies
<1>0. Len(c.name) \in Nat \ {0} /\ MAXBUFNAME \in Nat
  BY CookieSizes, CookiesAssumption
<1>1. PICK q : q = i + 1
  OBVIOUS
<1>2. q \in 1 .. Len(c.name) /\ q - 1 = i /\ i \in 0 .. Len(c.name)
  BY <1>0, <1>1
<1>3. x \notin {"\r", "\n", ";", "="}
  BY <1>1, <1>2, CookieSymbols
<1>4. SubSeq(c.name, 1, q) = Append(SubSeq(c.name, 1, i), x) /\ Len(SubSeq(c.name, 1, i)) = i
  BY <1>1, <1>2, CookiePrefixes
<1>5. CASE i <= MAXBUFNAME
  <2>1. hstate = "IN_COOKIENAME" /\ bufname = SubSeq(c.name, 1, i)
    BY <1>5 DEF InName
  <2>2. InCookieName(x)
    BY <2>1, HeaderStates
  <2>3. /\ hj' = hj /\ cookies' = cookies
        /\ IF IsFull(bufname, MAXBUFNAME) THEN hstate' = "WAITINGFORNEWLINE"
           ELSE hstate' = hstate /\ bufname' = Append(bufname, x)
    BY <1>3, <2>2 DEF InCookieName, IsControl, LF, CR
  <2>4. IsFull(bufname, MAXBUFNAME) <=> i >= MAXBUFNAME
    BY <1>4, <2>1 DEF IsFull
  <2>5. CASE i >= MAXBUFNAME
    <3>1. ~(q <= MAXBUFNAME) /\ hstate' = "WAITINGFORNEWLINE"
      BY <1>0, <1>1, <2>3, <2>4, <2>5
    <3> QED
      BY <1>1, <2>3, <3>1, Zenon DEF InName
  <2>6. CASE ~(i >= MAXBUFNAME)
    <3>1. q <= MAXBUFNAME
      BY <1>0, <1>1, <2>6
    <3>2. hstate' = "IN_COOKIENAME" /\ bufname' = SubSeq(c.name, 1, q)
      BY <1>4, <2>1, <2>3, <2>4, <2>6
    <3> QED
      BY <1>1, <2>3, <3>1, <3>2, Zenon DEF InName
  <2> QED
    BY <2>5, <2>6
<1>6. CASE ~(i <= MAXBUFNAME)
  <2>1. hstate = "WAITINGFORNEWLINE"
    BY <1>6 DEF InName
  <2>2. hstate' = "WAITINGFORNEWLINE" /\ hj' = hj /\ cookies' = cookies
    BY <1>3, <2>1, StillWaiting
  <2>3. ~(q <= MAXBUFNAME)
    BY <1>0, <1>1, <1>6
  <2> QED
    BY <1>1, <2>2, <2>3, Zenon DEF InName
<1> QED
  BY <1>5, <1>6

\* The sign after the name.
LEMMA EqualRead ==
  ASSUME NEW c, IsCookie(c), NEW x, x = "=", ParseHeader(x), InName(c, Len(c.name))
  PROVE  InValue(c, 0)' /\ hj' = hj /\ cookies' = cookies
<1>1. 0 <= MAXBUFVALUE
  BY CookiesAssumption
<1>2. CASE Len(c.name) <= MAXBUFNAME
  <2>1. hstate = "IN_COOKIENAME" /\ bufname = c.name
    BY <1>2, CookiePrefixes DEF InName
  <2>2. InCookieName(x)
    BY <2>1, HeaderStates
  <2>3. hstate' = "IN_COOKIE_VALUE" /\ bufname' = bufname /\ bufvalue' = << >> /\ hj' = hj /\ cookies' = cookies
    BY <2>2 DEF InCookieName, IsControl, LF, CR
  <2>4. bufname' = c.name /\ bufvalue' = SubSeq(c.value, 1, 0)
    BY <2>1, <2>3, CookiePrefixes
  <2> QED
    BY <1>1, <1>2, <2>3, <2>4, Zenon DEF InValue
<1>3. CASE ~(Len(c.name) <= MAXBUFNAME)
  <2>1. hstate = "WAITINGFORNEWLINE"
    BY <1>3 DEF InName
  <2>2. hstate' = "WAITINGFORNEWLINE" /\ hj' = hj /\ cookies' = cookies
    BY <2>1, StillWaiting
  <2> QED
    BY <1>3, <2>2, Zenon DEF InValue
<1> QED
  BY <1>2, <1>3

\* A symbol of the value.
LEMMA ValueRead ==
  ASSUME NEW c, IsCookie(c), NEW i \in 0 .. Len(c.value) - 1, NEW x, x = c.value[i + 1],
         ParseHeader(x), InValue(c, i)
  PROVE  InValue(c, i + 1)' /\ hj' = hj /\ cookies' = cookies
<1>0. Len(c.value) \in Nat /\ MAXBUFVALUE \in Nat
  BY CookieSizes, CookiesAssumption
<1>1. PICK q : q = i + 1
  OBVIOUS
<1>2. q \in 1 .. Len(c.value) /\ q - 1 = i /\ i \in 0 .. Len(c.value)
  BY <1>0, <1>1
<1>3. x \notin {"\r", "\n", ";"}
  BY <1>1, <1>2, CookieSymbols
<1>4. SubSeq(c.value, 1, q) = Append(SubSeq(c.value, 1, i), x) /\ Len(SubSeq(c.value, 1, i)) = i
  BY <1>1, <1>2, CookiePrefixes
<1>5. CASE Len(c.name) <= MAXBUFNAME /\ i <= MAXBUFVALUE
  <2>1. hstate = "IN_COOKIE_VALUE" /\ bufname = c.name /\ bufvalue = SubSeq(c.value, 1, i)
    BY <1>5 DEF InValue
  <2>2. InCookieValue(x)
    BY <2>1, HeaderStates
  <2>3. /\ hj' = hj /\ cookies' = cookies /\ bufname' = bufname
        /\ IF IsFull(bufvalue, MAXBUFVALUE) THEN hstate' = "WAITINGFORNEWLINE"
           ELSE hstate' = hstate /\ bufvalue' = Append(bufvalue, x)
    BY <1>3, <2>2 DEF InCookieValue, IsValueEnd, IsControl, LF, CR
  <2>4. IsFull(bufvalue, MAXBUFVALUE) <=> i >= MAXBUFVALUE
    BY <1>4, <2>1 DEF IsFull
  <2>5. CASE i >= MAXBUFVALUE
    <3>1. ~(q <= MAXBUFVALUE) /\ hstate' = "WAITINGFORNEWLINE"
      BY <1>0, <1>1, <2>3, <2>4, <2>5
    <3> QED
      BY <1>1, <2>3, <3>1, Zenon DEF InValue
  <2>6. CASE ~(i >= MAXBUFVALUE)
    <3>1. q <= MAXBUFVALUE
      BY <1>0, <1>1, <2>6
    <3>2. hstate' = "IN_COOKIE_VALUE" /\ bufname' = c.name /\ bufvalue' = SubSeq(c.value, 1, q)
      BY <1>4, <2>1, <2>3, <2>4, <2>6
    <3> QED
      BY <1>1, <1>5, <2>3, <3>1, <3>2, Zenon DEF InValue
  <2> QED
    BY <2>5, <2>6
<1>6. CASE ~(Len(c.name) <= MAXBUFNAME /\ i <= MAXBUFVALUE)
  <2>1. hstate = "WAITINGFORNEWLINE"
    BY <1>6 DEF InValue
  <2>2. hstate' = "WAITINGFORNEWLINE" /\ hj' = hj /\ cookies' = cookies
    BY <1>3, <2>1, StillWaiting
  <2>3. ~(Len(c.name) <= MAXBUFNAME /\ q <= MAXBUFVALUE)
    BY <1>0, <1>1, <1>6
  <2> QED
    BY <1>1, <2>2, <2>3, Zenon DEF InValue
<1> QED
  BY <1>5, <1>6

\* The buffer of a value has room for none.
LEMMA NoValueFits == 0 <= MAXBUFVALUE
  BY CookiesAssumption

\* The pair is read.
AllInPair(c) == (c.equal => InValue(c, Len(c.value))) /\ (~c.equal => InName(c, Len(c.name)))

\* The symbol that ends the pair: a cookie that fits is stored.
LEMMA PairOver ==
  ASSUME NEW c, IsCookie(c), NEW x, x \in {";", "\r"}, ParseHeader(x),
         AllInPair(c)
  PROVE  /\ hstate' = "WAITINGFORNEWLINE" /\ hj' = hj
         /\ cookies' = IF Fits(c) THEN storecookie(cookies, c.name, c.value) ELSE cookies
<1>9. 0 <= MAXBUFVALUE
  BY NoValueFits
<1>0. x # "\n"
  OBVIOUS
<1>1. Len(c.name) <= MAXBUFNAME /\ Len(c.value) <= MAXBUFVALUE <=> Fits(c)
  BY DEF Fits
<1>2. CASE c.equal
  <2>1. InValue(c, Len(c.value))
    BY <1>2 DEF AllInPair
  <2>2. CASE Fits(c)
    <3>1. hstate = "IN_COOKIE_VALUE" /\ bufname = c.name /\ bufvalue = c.value
      BY <1>1, <2>1, <2>2, CookiePrefixes DEF InValue
    <3>2. InCookieValue(x)
      BY <3>1, HeaderStates
    <3>3. hj' = hj /\ cookies' = storecookie(cookies, bufname, bufvalue) /\ hstate' = AfterCookie(x)
      BY <3>2 DEF InCookieValue, IsValueEnd, IsControl, LF, CR
    <3>4. AfterCookie(x) = "WAITINGFORNEWLINE"
      BY <1>0 DEF AfterCookie, LF
    <3> QED
      BY <2>2, <3>1, <3>3, <3>4
  <2>3. CASE ~Fits(c)
    <3>1. hstate = "WAITINGFORNEWLINE"
      BY <1>1, <2>1, <2>3 DEF InValue
    <3> QED
      BY <1>0, <2>3, <3>1, StillWaiting
  <2> QED
    BY <2>2, <2>3
<1>3. CASE ~c.equal
  <2>1. InName(c, Len(c.name))
    BY <1>3 DEF AllInPair
  <2>2. c.value = << >> /\ Len(c.value) = 0 /\ 0 <= MAXBUFVALUE
    <3>1. c.value = << >>
      BY <1>3, Zenon DEF IsCookie
    <3>2. Len(c.value) = 0
      BY <1>3, CookieSizes
    <3> QED
      BY <1>9, <3>1, <3>2
  <2>3. CASE Fits(c)
    <3>1. hstate = "IN_COOKIENAME" /\ bufname = c.name
      BY <1>1, <2>1, <2>3, CookiePrefixes DEF InName
    <3>2. InCookieName(x)
      BY <3>1, HeaderStates
    <3>3. hj' = hj /\ cookies' = storecookie(cookies, bufname, << >>) /\ hstate' = AfterCookie(x)
      BY <3>2 DEF InCookieName, IsControl, LF, CR
    <3>4. AfterCookie(x) = "WAITINGFORNEWLINE"
      BY <1>0 DEF AfterCookie, LF
    <3> QED
      BY <2>2, <2>3, <3>1, <3>3, <3>4
  <2>4. CASE ~Fits(c)
    <3>1. ~(Len(c.name) <= MAXBUFNAME)
      BY <1>1, <2>2, <2>4
    <3>2. hstate = "WAITINGFORNEWLINE"
      BY <2>1, <3>1 DEF InName
    <3> QED
      BY <1>0, <2>4, <3>2, StillWaiting
  <2> QED
    BY <2>3, <2>4
<1> QED
  BY <1>2, <1>3

\* A symbol of a cookie's line but the last.
LEMMA CookieRead ==
  ASSUME NEW c, IsCookie(c), NEW w, CookieText(w, c), NEW p \in 1 .. Len(w) - 1, NEW x, x = w[p],
         ParseHeader(x), InCookie(c, p)
  PROVE  /\ InCookie(c, p + 1)'
         /\ cookies' = IF p = PairSize(c) + 1 /\ Fits(c) THEN storecookie(cookies, c.name, c.value)
                       ELSE cookies
<1>1. PICK N, V, R, F, P : /\ N = Len(c.name) /\ V = Len(c.value) /\ R = Len(c.rest)
                           /\ F = ValueFrom(c) /\ P = PairSize(c)
  OBVIOUS
<1>2. /\ N \in Nat \ {0} /\ V \in Nat /\ R \in Nat /\ F \in Nat /\ P \in Nat
      /\ F = N + 3 \/ F = N + 4
      /\ c.equal => F = N + 4
      /\ ~c.equal => F = N + 3 /\ V = 0
      /\ P = F + V
  BY <1>1, CookieSizes
<1>3. Len(w) = P + R + 2 /\ p \in 1 .. P + R + 1 /\ p \in Nat /\ (R = 0 \/ R > 0)
  <2>1. Len(w) = P + R + 2
    BY <1>1 DEF CookieText
  <2>2. P \in Nat /\ R \in Nat
    BY <1>2
  <2> QED
    BY <2>1, <2>2
<1>4. PICK q : q = p + 1
  OBVIOUS
<1>5. hj = IF p = 2 THEN 1 ELSE 0
  BY DEF InCookie
<1>6. CASE p \in 1 .. 3
  <2>1. p # P + 1
    BY <1>2, <1>6
  <2>2. InCookie(c, p + 1)' /\ cookies' = cookies
    BY <1>6, BeginRead
  <2> QED
    BY <1>1, <2>1, <2>2
<1>7. CASE p = 4
  <2>1. p # P + 1 /\ p + 1 = 5
    BY <1>2, <1>7
  <2>2. InCookie(c, 5)' /\ cookies' = cookies
    BY <1>7, NameBegins
  <2> QED
    BY <1>1, <2>1, <2>2
<1>8. CASE p \in 5 .. N + 3
  <2>1. PICK i : i = p - 4
    OBVIOUS
  <2>2. /\ i \in 1 .. N - 1 /\ p \in 5 .. N + 4 /\ p \in 4 .. N + 3 /\ p - 3 = i + 1 /\ q - 4 = i + 1
        /\ p # 2 /\ p # P + 1
    BY <1>2, <1>4, <1>8, <2>1
  <2>3. InName(c, i)
    BY <1>1, <2>1, <2>2 DEF InCookie
  <2>4. x = c.name[i + 1]
    <3>1. w[p] = c.name[p - 3]
      BY <1>1, <2>2 DEF CookieText
    <3> QED
      BY <2>2, <3>1
  <2>5. InName(c, i + 1)' /\ hj' = hj /\ cookies' = cookies
    BY <1>1, <2>2, <2>3, <2>4, NameRead
  <2>6. /\ q \notin {1, 2} /\ q \notin {3, 4} /\ q # 2
        /\ ~(c.equal /\ q \in F + 1 .. P + 1) /\ ~(q > P + 1)
    BY <1>2, <1>4, <1>8
  <2>7. InName(c, q - 4)'
    BY <2>2, <2>5
  <2>8. hj' = 0
    BY <1>5, <2>2, <2>5
  <2>9. InCookie(c, q)'
    BY <1>1, <2>6, <2>7, <2>8 DEF InCookie
  <2> QED
    BY <1>1, <1>4, <2>2, <2>5, <2>9
<1>9. CASE p = N + 4 /\ c.equal
  <2>1. /\ p \in 5 .. N + 4 /\ p - 4 = N /\ p # 2 /\ p # P + 1 /\ q = F + 1 /\ q - (F + 1) = 0
        /\ q \in F + 1 .. P + 1
    BY <1>2, <1>4, <1>9
  <2>2. InName(c, Len(c.name))
    <3>1. InName(c, p - 4)
      BY <1>1, <2>1 DEF InCookie
    <3> QED
      BY <1>1, <2>1, <3>1
  <2>3. x = "="
    BY <1>1, <1>9 DEF CookieText
  <2>4. InValue(c, 0)' /\ hj' = hj /\ cookies' = cookies
    BY <2>2, <2>3, EqualRead
  <2>5. /\ q \notin {1, 2} /\ q \notin {3, 4} /\ q # 2 /\ q \notin 5 .. N + 4 /\ ~(q > P + 1)
    BY <1>2, <1>4, <1>9
  <2>6. InValue(c, q - (F + 1))'
    BY <2>1, <2>4
  <2>7. hj' = 0
    BY <1>5, <2>1, <2>4
  <2>8. InCookie(c, q)'
    BY <1>1, <2>5, <2>6, <2>7 DEF InCookie
  <2> QED
    BY <1>1, <1>4, <2>1, <2>4, <2>8
<1>10. CASE c.equal /\ p \in F + 1 .. P
  <2>1. PICK i : i = p - (F + 1)
    OBVIOUS
  <2>2. /\ i \in 0 .. V - 1 /\ p \in F + 1 .. P + 1 /\ p # 2 /\ p # P + 1
        /\ p - F = i + 1 /\ q - (F + 1) = i + 1
    BY <1>2, <1>4, <1>10, <2>1
  <2>3. InValue(c, i)
    BY <1>1, <1>10, <2>1, <2>2 DEF InCookie
  <2>4. x = c.value[i + 1]
    <3>1. w[p] = c.value[p - F]
      BY <1>1, <1>10 DEF CookieText
    <3> QED
      BY <2>2, <3>1
  <2>5. InValue(c, i + 1)' /\ hj' = hj /\ cookies' = cookies
    BY <1>1, <2>2, <2>3, <2>4, ValueRead
  <2>6. /\ q \notin {1, 2} /\ q \notin {3, 4} /\ q # 2 /\ q \notin 5 .. N + 4 /\ ~(q > P + 1)
    BY <1>2, <1>4, <1>10
  <2>7. InValue(c, q - (F + 1))'
    BY <2>2, <2>5
  <2>8. hj' = 0
    BY <1>5, <2>2, <2>5
  <2>9. InCookie(c, q)'
    BY <1>1, <2>6, <2>7, <2>8 DEF InCookie
  <2> QED
    BY <1>1, <1>4, <2>2, <2>5, <2>9
<1>11. CASE p = P + 1
  <2>1. x \in {";", "\r"}
    <3>1. CASE R = 0
      <4>1. P + R + 1 = p
        BY <1>2, <1>11, <3>1
      <4>2. w[P + R + 1] = "\r"
        BY <1>1 DEF CookieText
      <4> QED
        BY <4>1, <4>2
    <3>2. CASE R > 0
      <4>1. p \in P + 1 .. P + R /\ p - P = 1
        BY <1>2, <1>11, <3>2
      <4>2. w[p] = c.rest[p - P]
        BY <1>1, <4>1 DEF CookieText
      <4>3. c.rest[1] = ";"
        BY <1>1, <3>2, CookieSymbols
      <4> QED
        BY <4>1, <4>2, <4>3
    <3> QED
      BY <1>3, <3>1, <3>2
  <2>2. AllInPair(c)
    <3>1. CASE c.equal
      <4>1. p \in F + 1 .. P + 1 /\ p - (F + 1) = V
        BY <1>2, <1>11, <3>1
      <4>2. InValue(c, p - (F + 1))
        BY <1>1, <3>1, <4>1 DEF InCookie
      <4> QED
        BY <1>1, <3>1, <4>1, <4>2 DEF AllInPair
    <3>2. CASE ~c.equal
      <4>1. p \in 5 .. N + 4 /\ p - 4 = N
        BY <1>2, <1>11, <3>2
      <4>2. InName(c, p - 4)
        BY <1>1, <4>1 DEF InCookie
      <4> QED
        BY <1>1, <3>2, <4>1, <4>2 DEF AllInPair
    <3> QED
      BY <3>1, <3>2
  <2>3. /\ hstate' = "WAITINGFORNEWLINE" /\ hj' = hj
        /\ cookies' = IF Fits(c) THEN storecookie(cookies, c.name, c.value) ELSE cookies
    BY <2>1, <2>2, PairOver
  <2>4. /\ q \notin {1, 2} /\ q \notin {3, 4} /\ q # 2 /\ q \notin 5 .. N + 4 /\ p # 2
        /\ ~(q \in F + 1 .. P + 1)
    BY <1>2, <1>4, <1>11
  <2>5. hj' = 0
    BY <1>5, <2>3, <2>4
  <2>6. InCookie(c, q)'
    BY <1>1, <2>3, <2>4, <2>5 DEF InCookie
  <2> QED
    BY <1>1, <1>4, <1>11, <2>3, <2>6
<1>12. CASE p > P + 1
  <2>1. hstate = "WAITINGFORNEWLINE"
    BY <1>1, <1>12 DEF InCookie
  <2>2. x # "\n"
    <3>1. CASE p = P + R + 1
      <4>1. w[P + R + 1] = "\r"
        BY <1>1 DEF CookieText
      <4> QED
        BY <3>1, <4>1
    <3>2. CASE p # P + R + 1
      <4>1. PICK i : i = p - P
        OBVIOUS
      <4>2. p \in P + 1 .. P + R /\ i \in 1 .. R
        BY <1>2, <1>3, <1>12, <3>2, <4>1
      <4>3. w[p] = c.rest[i]
        BY <1>1, <4>1, <4>2 DEF CookieText
      <4>4. c.rest[i] # "\n"
        BY <1>1, <4>2, CookieSymbols
      <4> QED
        BY <4>3, <4>4
    <3> QED
      BY <3>1, <3>2
  <2>3. hstate' = "WAITINGFORNEWLINE" /\ hj' = hj /\ cookies' = cookies
    BY <2>1, <2>2, StillWaiting
  <2>4. /\ q \notin {1, 2} /\ q \notin {3, 4} /\ q # 2 /\ q \notin 5 .. N + 4 /\ p # 2
        /\ ~(q \in F + 1 .. P + 1) /\ p # P + 1
    BY <1>2, <1>3, <1>4, <1>12
  <2>5. hj' = 0
    BY <1>5, <2>3, <2>4
  <2>6. InCookie(c, q)'
    BY <1>1, <2>3, <2>4, <2>5 DEF InCookie
  <2> QED
    BY <1>1, <1>4, <2>3, <2>4, <2>6
<1>13. \/ p \in 1 .. 3 \/ p = 4 \/ p \in 5 .. N + 3 \/ (p = N + 4 /\ c.equal)
       \/ (c.equal /\ p \in F + 1 .. P) \/ p = P + 1 \/ p > P + 1
  <2>1. CASE c.equal
    BY <1>2, <1>3, <2>1
  <2>2. CASE ~c.equal
    BY <1>2, <1>3, <2>2
  <2> QED
    BY <2>1, <2>2
<1> QED
  BY <1>6, <1>7, <1>8, <1>9, <1>10, <1>11, <1>12, <1>13

\* The end of a cookie's line.
LEMMA CookieLineOver ==
  ASSUME NEW c, IsCookie(c), NEW w, CookieText(w, c), NEW p, p = Len(w), NEW x, x = w[p],
         ParseHeader(x), InCookie(c, p)
  PROVE  hstate' = "IN_HEADER" /\ hj' = 0 /\ cookies' = cookies /\ p # PairSize(c) + 1
<1>1. Len(c.rest) \in Nat /\ PairSize(c) \in Nat /\ Len(w) = PairSize(c) + Len(c.rest) + 2
      /\ PairSize(c) > 2
  <2>1. Len(w) = PairSize(c) + Len(c.rest) + 2
    BY DEF CookieText
  <2>2. PICK N, V, R, F, P : /\ N = Len(c.name) /\ V = Len(c.value) /\ R = Len(c.rest)
                             /\ F = ValueFrom(c) /\ P = PairSize(c)
    OBVIOUS
  <2>3. /\ N \in Nat \ {0} /\ V \in Nat /\ R \in Nat /\ F \in Nat /\ P \in Nat
        /\ F = N + 3 \/ F = N + 4
        /\ P = F + V
    BY <2>2, CookieSizes
  <2>4. P > 2
    BY <2>3
  <2> QED
    BY <2>1, <2>2, <2>3, <2>4
<1>2. p > PairSize(c) + 1 /\ p = PairSize(c) + Len(c.rest) + 2 /\ p # 2
  BY <1>1
<1>3. hstate = "WAITINGFORNEWLINE" /\ hj = 0
  BY <1>2 DEF InCookie
<1>4. x = "\n"
  BY <1>2 DEF CookieText
<1>5. WaitForNewline(x)
  BY <1>3, HeaderStates
<1>6. hstate' = "IN_HEADER" /\ hj' = hj /\ cookies' = cookies
  BY <1>4, <1>5 DEF WaitForNewline, LF
<1> QED
  BY <1>1, <1>2, <1>3, <1>6
-----------------------------------------------------------------------------
(* The jar and what was told.                                              *)

\* Where the automaton of the cookies is in the first piece of an answer.
InHeaders ==
  /\ line <= Len(sets) + 3
  /\ line = 1 => hstate = "WAITINGFORNEWLINE" /\ hj = 0
  /\ line = 2 => hj = 0 /\ (at = 1 => hstate = "IN_HEADER") /\ (at # 1 => hstate = "WAITINGFORNEWLINE")
  /\ line \in 3 .. Len(sets) + 2 => InCookie(sets[line - 2], at)
  /\ line = Len(sets) + 3 => hstate = "IN_HEADER" /\ hj = 0

HeaderPlace == turn = "read" /\ k => InHeaders

\* The lines of the headers.
LEMMA HeaderLines ==
  ASSUME Sending, turn # "ask"
  PROVE  /\ Len(sets) \in Nat
         /\ text[1] = <<"HTTP/1.1", "\r", "\n">> /\ text[2] = <<"Server", "\r", "\n">>
         /\ \A i \in 3 .. Len(sets) + 2 :
              /\ IsCookie(sets[i - 2]) /\ CookieText(text[i], sets[i - 2])
              /\ Len(CookiePair(sets[i - 2])) = PairSize(sets[i - 2])
         /\ text[Len(sets) + 3] = <<"\r", "\n">>
<1>1. AreCookies(sets)
  BY DEF Sending
<1>2. /\ Len(sets) \in Nat
      /\ \A i \in 1 .. Len(sets) + 3 : text[i] = Headers(sets)[i]
  BY TextIs
<1>3. /\ Headers(sets)[1] = <<"HTTP/1.1", "\r", "\n">>
      /\ Headers(sets)[2] = <<"Server", "\r", "\n">>
      /\ \A i \in 1 .. Len(sets) : Headers(sets)[i + 2] = CookieLine(sets[i])
      /\ Headers(sets)[Len(sets) + 3] = EOL
  BY <1>1, HeaderText
<1>4. text[1] = Headers(sets)[1] /\ text[2] = Headers(sets)[2]
      /\ text[Len(sets) + 3] = Headers(sets)[Len(sets) + 3]
  <2>1. 1 \in 1 .. Len(sets) + 3 /\ 2 \in 1 .. Len(sets) + 3 /\ Len(sets) + 3 \in 1 .. Len(sets) + 3
    BY <1>2
  <2> QED
    BY <1>2, <2>1
<1>5. ASSUME NEW i \in 3 .. Len(sets) + 2
      PROVE  /\ IsCookie(sets[i - 2]) /\ CookieText(text[i], sets[i - 2])
             /\ Len(CookiePair(sets[i - 2])) = PairSize(sets[i - 2])
  <2>1. PICK q : q = i - 2
    OBVIOUS
  <2>2. q \in 1 .. Len(sets) /\ q + 2 = i /\ i \in 1 .. Len(sets) + 3
    BY <1>2, <2>1
  <2>3. text[i] = CookieLine(sets[q])
    BY <1>2, <1>3, <2>2
  <2>4. IsCookie(sets[q])
    <3>1. sets \in Seq(CookieRecords) /\ \A h \in DOMAIN sets : IsCookie(sets[h])
      BY <1>1 DEF AreCookies
    <3>2. DOMAIN sets = 1 .. Len(sets)
      BY <3>1
    <3> QED
      BY <2>2, <3>1, <3>2
  <2> QED
    BY <2>1, <2>3, <2>4, CookieIs
<1> QED
  BY <1>2, <1>3, <1>4, <1>5 DEF EOL

\* Two lines come before the cookies.
LEMMA FirstIsTwo == Len(FirstLines) = 2
  BY DEF FirstLines

\* The place in a cookie's line, by its values.
LEMMA InCookieHere ==
  ASSUME NEW c, NEW p, InCookie(c, p)', c = (sets[line - 2])', p = at'
  PROVE  InCookie(sets[line - 2], at)'
  BY DEF InCookie, InName, InValue, ValueFrom, PairSize

\* Before the first symbol of a cookie's line.
LEMMA CookieBegins ==
  ASSUME NEW c, IsCookie(c), hstate' = "IN_HEADER", hj' = 0
  PROVE  InCookie(c, 1)'
<1>1. PICK N, F, P : N = Len(c.name) /\ F = ValueFrom(c) /\ P = PairSize(c)
  OBVIOUS
<1>2. N \in Nat \ {0} /\ F \in Nat /\ P \in Nat
  BY <1>1, CookieSizes
<1>3. F >= 3 /\ P >= 3
  <2>1. (F = N + 3 \/ F = N + 4) /\ P = F + Len(c.value) /\ Len(c.value) \in Nat
    BY <1>1, CookieSizes
  <2> QED
    BY <1>2, <2>1
<1>4. /\ 1 \notin {3, 4} /\ 1 \notin 5 .. N + 4 /\ 1 \notin F + 1 .. P + 1 /\ ~(1 > P + 1)
  BY <1>2, <1>3
<1> QED
  BY <1>1, <1>4 DEF InCookie

\* The beginning of a line but the first.
LEMMA LineBegins ==
  ASSUME Sending, turn # "ask", line \in 1 .. Len(sets) + 2, sets' = sets, line' = line + 1, at' = 1,
         hstate' = "IN_HEADER", hj' = 0
  PROVE  InHeaders'
<1>1. Len(sets) \in Nat
  BY HeaderLines
<1>2. line' <= Len(sets) + 3 /\ line' # 1
  BY <1>1
<1>3. ASSUME line' \in 3 .. Len(sets) + 2 PROVE InCookie(sets[line - 2], at)'
  <2>1. PICK c : c = sets[line' - 2]
    OBVIOUS
  <2>2. IsCookie(c)
    BY <1>3, <2>1, HeaderLines
  <2>3. InCookie(c, 1)'
    BY <2>2, CookieBegins
  <2>4. c = (sets[line - 2])' /\ 1 = at'
    BY <2>1
  <2> QED
    BY <2>3, <2>4, InCookieHere
<1> QED
  BY <1>2, <1>3 DEF InHeaders

\* A symbol of the headers that is given to the automaton.
LEMMA HeaderSymbol ==
  ASSUME Sending, JarOrdered, JarIsTold, InHeaders, Symbol, k
  PROVE  (k' => InHeaders') /\ JarIsTold'
<1> DEFINE x == text[line][at]
<1>1. /\ turn = "read" /\ ~AllRead /\ Advance /\ ParseHeader(x)
      /\ UNCHANGED <<turn, text, sets>>
      /\ told' = IF PairIsRead /\ Fits(Current) THEN Tell(told, Current.name, Current.value) ELSE told
  BY DEF Symbol
<1>2. hstate' = "ENDOFHTTPHEADERS" => ~k'
  <2>1. k' \in (IF k /\ hstate' # "ENDOFHTTPHEADERS" THEN BOOLEAN ELSE {FALSE})
    BY DEF Symbol
  <2> QED
    BY <2>1, Zenon
<1>3. /\ line \in 1 .. Len(text) /\ at \in 1 .. Len(text[line])
      /\ Len(text) \in Nat /\ Len(text[line]) \in Nat
  BY <1>1, SymbolIs
<1>4. /\ Len(sets) \in Nat /\ line \in 1 .. Len(sets) + 3
  BY <1>1, <1>3, HeaderLines DEF InHeaders
<1>5. (line' = line /\ at' = at + 1 /\ at < Len(text[line])) \/ (line' = line + 1 /\ at' = 1 /\ at = Len(text[line]))
  BY <1>1, <1>3 DEF Advance
<1>6. ASSUME line \notin 3 .. Len(sets) + 2, cookies' = cookies PROVE JarIsTold'
  <2>1. ~PairIsRead
    <3>1. line - 2 \notin 1 .. Len(sets)
      BY <1>4, <1>6
    <3> QED
      BY <3>1, FirstIsTwo DEF PairIsRead
  <2>2. told' = told /\ Sent' = Sent
    BY <1>1, <1>6, <2>1 DEF Sent, Slots
  <2> QED
    BY <1>6, <2>2 DEF JarIsTold, Slots
<1>7. CASE line = 1
  <2>1. text[line] = <<"HTTP/1.1", "\r", "\n">>
    BY <1>1, <1>7, HeaderLines
  <2>2. Len(text[line]) = 3 /\ (at = 1 \/ at = 2 \/ at = 3)
    BY <1>3, <2>1
  <2>3. hstate = "WAITINGFORNEWLINE" /\ hj = 0
    BY <1>7 DEF InHeaders
  <2>4. CASE at = 1 \/ at = 2
    <3>1. x # "\n"
      <4>1. x = "HTTP/1.1" \/ x = "\r"
        BY <2>1, <2>4
      <4> QED
        BY <4>1
    <3>2. hstate' = "WAITINGFORNEWLINE" /\ hj' = 0 /\ cookies' = cookies
      <4> HIDE DEF x
      <4> QED
        BY <1>1, <2>3, <3>1, StillWaiting
    <3>3. line' = 1
      BY <1>5, <1>7, <2>2, <2>4
    <3>4. InHeaders'
      BY <1>1, <1>4, <3>2, <3>3 DEF InHeaders
    <3> QED
      BY <1>6, <1>7, <3>2, <3>4
  <2>5. CASE at = 3
    <3>1. x = "\n"
      BY <2>1, <2>5
    <3>2. WaitForNewline(x)
      <4> HIDE DEF x
      <4> QED
        BY <1>1, <2>3, HeaderStates
    <3>3. hstate' = "IN_HEADER" /\ hj' = 0 /\ cookies' = cookies
      BY <2>3, <3>1, <3>2 DEF WaitForNewline, LF
    <3>4. line' = line + 1 /\ at' = 1 /\ line \in 1 .. Len(sets) + 2
      BY <1>4, <1>5, <1>7, <2>2, <2>5
    <3>5. InHeaders'
      BY <1>1, <3>3, <3>4, LineBegins
    <3> QED
      BY <1>6, <1>7, <3>3, <3>5
  <2> QED
    BY <2>2, <2>4, <2>5
<1>8. CASE line = 2
  <2>1. text[line] = <<"Server", "\r", "\n">>
    BY <1>1, <1>8, HeaderLines
  <2>2. Len(text[line]) = 3 /\ (at = 1 \/ at = 2 \/ at = 3)
    BY <1>3, <2>1
  <2>3. hj = 0 /\ (at = 1 => hstate = "IN_HEADER") /\ (at # 1 => hstate = "WAITINGFORNEWLINE")
    BY <1>8 DEF InHeaders
  <2>4. CASE at = 1 \/ at = 2
    <3>1. hstate' = "WAITINGFORNEWLINE" /\ hj' = 0 /\ cookies' = cookies
      <4>1. CASE at = 1
        <5>1. x = "Server" /\ hstate = "IN_HEADER"
          BY <2>1, <2>3, <4>1
        <5>2. InHeader(x)
          <6> HIDE DEF x
          <6> QED
            BY <1>1, <5>1, HeaderStates
        <5>3. SetCookie[hj + 1] = "Set-"
          <6>1. hj + 1 = 1 /\ SetCookie[1] = "Set-"
            BY <2>3 DEF SetCookie
          <6> QED
            BY <6>1
        <5>4. x \notin {LF, CR} /\ x # SetCookie[hj + 1] /\ x # LF /\ x # CR
          BY <5>1, <5>3 DEF LF, CR
        <5> HIDE DEF x
        <5> QED
          BY <5>2, <5>4 DEF InHeader
      <4>2. CASE at = 2
        <5>1. x = "\r" /\ hstate = "WAITINGFORNEWLINE"
          BY <2>1, <2>3, <4>2
        <5>2. x # "\n"
          BY <5>1
        <5> HIDE DEF x
        <5> QED
          BY <1>1, <2>3, <5>1, <5>2, StillWaiting
      <4> QED
        BY <2>4, <4>1, <4>2
    <3>2. line' = 2 /\ at' # 1
      BY <1>5, <1>8, <2>2, <2>4
    <3>3. InHeaders'
      BY <1>1, <1>4, <3>1, <3>2 DEF InHeaders
    <3> QED
      BY <1>6, <1>8, <3>1, <3>3
  <2>5. CASE at = 3
    <3>1. x = "\n" /\ hstate = "WAITINGFORNEWLINE"
      BY <2>1, <2>3, <2>5
    <3>2. WaitForNewline(x)
      <4> HIDE DEF x
      <4> QED
        BY <1>1, <3>1, HeaderStates
    <3>3. hstate' = "IN_HEADER" /\ hj' = 0 /\ cookies' = cookies
      BY <2>3, <3>1, <3>2 DEF WaitForNewline, LF
    <3>4. line' = line + 1 /\ at' = 1 /\ line \in 1 .. Len(sets) + 2
      BY <1>4, <1>5, <1>8, <2>2, <2>5
    <3>5. InHeaders'
      BY <1>1, <3>3, <3>4, LineBegins
    <3> QED
      BY <1>6, <1>8, <3>3, <3>5
  <2> QED
    BY <2>2, <2>4, <2>5
<1>9. CASE line \in 3 .. Len(sets) + 2
  <2>1. PICK c, w, p : c = sets[line - 2] /\ w = text[line] /\ p = at
    OBVIOUS
  <2>2. IsCookie(c) /\ CookieText(w, c) /\ Len(CookiePair(c)) = PairSize(c)
    BY <1>1, <1>9, <2>1, HeaderLines
  <2>3. InCookie(c, p)
    <3>1. InCookie(sets[line - 2], at)
      BY <1>9 DEF InHeaders
    <3> QED
      BY <2>1, <3>1
  <2>4. c = Current /\ (PairIsRead <=> p = PairSize(c) + 1)
    <3>1. c = Current
      BY <2>1, FirstIsTwo DEF Current
    <3>2. line - Len(FirstLines) \in 1 .. Len(sets)
      BY <1>4, <1>9, FirstIsTwo
    <3> QED
      BY <2>1, <2>2, <3>1, <3>2 DEF PairIsRead
  <2>5. x = w[p] /\ p \in 1 .. Len(w) /\ Len(w) \in Nat
    BY <1>3, <2>1
  <2>6. CASE p < Len(w)
    <3>1. p \in 1 .. Len(w) - 1
      BY <2>5, <2>6
    <3>2. /\ InCookie(c, p + 1)'
          /\ cookies' = IF p = PairSize(c) + 1 /\ Fits(c) THEN storecookie(cookies, c.name, c.value)
                        ELSE cookies
      <4> HIDE DEF x
      <4> QED
        BY <1>1, <2>2, <2>3, <2>5, <3>1, CookieRead
    <3>3. line' = line /\ at' = p + 1
      BY <1>5, <2>1, <2>6
    <3>4. InCookie(sets[line - 2], at)'
      <4>1. c = (sets[line - 2])' /\ p + 1 = at'
        BY <1>1, <2>1, <3>3
      <4>2. PICK q : q = p + 1
        OBVIOUS
      <4> QED
        BY <3>2, <4>1, <4>2, InCookieHere
    <3>5. InHeaders'
      <4>1. line' <= Len(sets') + 3 /\ line' # 1 /\ line' # 2 /\ line' # Len(sets') + 3
        BY <1>1, <1>4, <1>9, <3>3
      <4> QED
        BY <3>4, <4>1 DEF InHeaders
    <3>6. CASE p = PairSize(c) + 1 /\ Fits(c)
      <4>1. cookies' = storecookie(cookies, c.name, c.value) /\ told' = Tell(told, c.name, c.value)
        BY <1>1, <2>4, <3>2, <3>6
      <4>2. PICK nm, v : nm = c.name /\ v = c.value
        OBVIOUS
      <4>3. JarIsTold'
        BY <4>1, <4>2, StoreTold
      <4> QED
        BY <3>5, <4>3
    <3>7. CASE ~(p = PairSize(c) + 1 /\ Fits(c))
      <4>1. cookies' = cookies /\ told' = told
        BY <1>1, <2>4, <3>2, <3>7
      <4>2. JarIsTold'
        BY <4>1 DEF JarIsTold, Sent, Slots
      <4> QED
        BY <3>5, <4>2
    <3> QED
      BY <3>6, <3>7
  <2>7. CASE p = Len(w)
    <3>1. hstate' = "IN_HEADER" /\ hj' = 0 /\ cookies' = cookies /\ p # PairSize(c) + 1
      <4> HIDE DEF x
      <4> QED
        BY <1>1, <2>2, <2>3, <2>5, <2>7, CookieLineOver
    <3>2. line' = line + 1 /\ at' = 1 /\ line \in 1 .. Len(sets) + 2
      BY <1>4, <1>5, <1>9, <2>1, <2>5, <2>7
    <3>3. InHeaders'
      BY <1>1, <3>1, <3>2, LineBegins
    <3>4. cookies' = cookies /\ told' = told
      BY <1>1, <2>4, <3>1
    <3>5. JarIsTold'
      BY <3>4 DEF JarIsTold, Sent, Slots
    <3> QED
      BY <3>3, <3>5
  <2> QED
    BY <2>5, <2>6, <2>7
<1>10. CASE line = Len(sets) + 3
  <2>1. text[line] = <<"\r", "\n">>
    BY <1>1, <1>10, HeaderLines
  <2>2. Len(text[line]) = 2 /\ (at = 1 \/ at = 2)
    BY <1>3, <2>1
  <2>3. hstate = "IN_HEADER" /\ hj = 0
    BY <1>10 DEF InHeaders
  <2>4. line \notin 3 .. Len(sets) + 2
    BY <1>4, <1>10
  <2>5. InHeader(x)
    <3> HIDE DEF x
    <3> QED
      BY <1>1, <2>3, HeaderStates
  <2>6. SetCookie[hj + 1] = "Set-" /\ cookies' = cookies
    <3>1. hj + 1 = 1 /\ SetCookie[1] = "Set-"
      BY <2>3 DEF SetCookie
    <3> QED
      BY <2>5, <3>1 DEF InHeader
  <2>7. CASE at = 1
    <3>1. x = "\r"
      BY <2>1, <2>7
    <3>2. x # LF /\ x = CR /\ x # SetCookie[hj + 1]
      BY <2>6, <3>1 DEF LF, CR
    <3>3. hstate' = hstate /\ hj' = hj
      <4> HIDE DEF x
      <4> QED
        BY <2>5, <3>2 DEF InHeader
    <3>4. line' = line
      BY <1>5, <2>2, <2>7
    <3>5. line' <= Len(sets') + 3 /\ line' # 1 /\ line' # 2 /\ line' \notin 3 .. Len(sets') + 2
      BY <1>1, <1>4, <1>10, <2>4, <3>4
    <3>6. InHeaders'
      BY <2>3, <3>3, <3>5 DEF InHeaders
    <3> QED
      BY <1>6, <2>4, <2>6, <3>6
  <2>8. CASE at = 2
    <3>1. x = "\n"
      BY <2>1, <2>8
    <3>2. x = LF /\ x # CR /\ x # SetCookie[hj + 1] /\ ~(x \notin {LF, CR})
      BY <2>6, <3>1 DEF LF, CR
    <3>3. hstate' = "ENDOFHTTPHEADERS"
      <4> HIDE DEF x
      <4> QED
        BY <2>5, <3>2 DEF InHeader
    <3> QED
      BY <1>2, <1>6, <2>4, <2>6, <3>3
  <2> QED
    BY <2>2, <2>7, <2>8
<1>11. line = 1 \/ line = 2 \/ line \in 3 .. Len(sets) + 2 \/ line = Len(sets) + 3
  BY <1>4
<1> QED
  BY <1>7, <1>8, <1>9, <1>10, <1>11

\* What every step keeps of the jar, of what was told and of the automaton.
JarInv == JarOrdered /\ JarIsTold /\ HeaderPlace

\* The jar is empty at first, and nothing was told.
LEMMA ToldInit == Init => JarInv
<1> SUFFICES ASSUME Init PROVE JarInv
  OBVIOUS
<1>1. cookies = [i \in Slots |-> FREE] /\ told = {} /\ turn = "ask"
  BY DEF Init, CookiesInit
<1>2. JarOrdered
  BY JarInit
<1>3. Sent = {}
  BY <1>1 DEF Sent
<1>4. JarIsTold
  BY <1>1, <1>3 DEF JarIsTold
<1> QED
  BY <1>1, <1>2, <1>4 DEF JarInv, HeaderPlace

\* Every step keeps the jar what was told.
LEMMA ToldStep ==
  ASSUME Sending, JarInv, [Next]_vars
  PROVE  JarInv'
<1>1. JarOrdered'
  BY JarStep DEF JarInv
<1>2. JarOrdered /\ JarIsTold /\ HeaderPlace
  BY DEF JarInv
<1>3. ASSUME UNCHANGED <<cookies, told>> PROVE JarIsTold'
  <2>1. Sent' = Sent
    BY <1>3 DEF Sent, Slots
  <2> QED
    BY <1>2, <1>3, <2>1 DEF JarIsTold, Slots
<1>4. CASE Post \/ UNCHANGED vars
  <2>1. UNCHANGED <<mainvars, pagevars, past, cookievars>>
    BY <1>4 DEF Post, vars
  <2>2. UNCHANGED <<cookies, told>>
    BY <2>1 DEF past, cookievars
  <2>3. UNCHANGED <<turn, line, at, k, sets, hstate, hj, bufname, bufvalue>>
    BY <2>1 DEF mainvars, pagevars, cookievars, hvars
  <2>4. HeaderPlace'
    <3>1. InHeaders => InHeaders'
      BY <2>3 DEF InHeaders, InCookie, InName, InValue, ValueFrom, PairSize
    <3> QED
      BY <1>2, <2>3, <3>1, Zenon DEF HeaderPlace
  <2> QED
    BY <1>1, <1>3, <2>2, <2>4 DEF JarInv
<1>5. ASSUME NEW status \in {200, 403}, NEW people \in Presences,
             NEW cs \in CookieSets(state), Ask(status, people, cs)
      PROVE  JarInv'
  <2>1. /\ turn' = "recv"
        /\ cookies' = IF state = "POSTING_A_MESSAGE"
                        THEN storecookie(cookies, <<"mChatShowUserList">>, <<"yes">>) ELSE cookies
        /\ told' = IF state = "POSTING_A_MESSAGE"
                     THEN Tell(told, <<"mChatShowUserList">>, <<"yes">>) ELSE told
    BY <1>5 DEF Ask
  <2>2. HeaderPlace'
    BY <2>1 DEF HeaderPlace
  <2>3. JarIsTold'
    <3>1. CASE state = "POSTING_A_MESSAGE"
      <4>1. PICK nm, v : nm = <<"mChatShowUserList">> /\ v = <<"yes">>
        OBVIOUS
      <4>2. cookies' = storecookie(cookies, nm, v) /\ told' = Tell(told, nm, v)
        BY <2>1, <3>1, <4>1
      <4> QED
        BY <1>2, <4>2, StoreTold
    <3>2. CASE state # "POSTING_A_MESSAGE"
      BY <1>3, <2>1, <3>2
    <3> QED
      BY <3>1, <3>2
  <2> QED
    BY <1>1, <2>2, <2>3 DEF JarInv
<1>6. CASE FirstPiece
  <2>1. turn = "recv" /\ UNCHANGED <<cookies, told, line, at, sets>>
        /\ hstate' = "WAITINGFORNEWLINE" /\ hj' = 0
    BY <1>6 DEF FirstPiece, StartHeaders, past, pagevars
  <2>2. line = 1 /\ Len(sets) \in Nat
    BY <2>1, TextIs DEF Sending
  <2>3. InHeaders'
    BY <2>1, <2>2 DEF InHeaders
  <2> QED
    BY <1>1, <1>3, <2>1, <2>3 DEF JarInv, HeaderPlace
<1>7. CASE Symbol
  <2>1. turn = "read"
    BY <1>7 DEF Symbol
  <2>2. CASE k
    <3>1. InHeaders
      BY <1>2, <2>1, <2>2, Zenon DEF HeaderPlace
    <3>2. (k' => InHeaders') /\ JarIsTold'
      BY <1>2, <1>7, <2>2, <3>1, HeaderSymbol
    <3> QED
      BY <1>1, <3>2, Zenon DEF JarInv, HeaderPlace
  <2>3. CASE ~k
    <3>1. k' \in (IF k /\ hstate' # "ENDOFHTTPHEADERS" THEN BOOLEAN ELSE {FALSE})
      BY <1>7 DEF Symbol
    <3>2. ~k'
      BY <2>3, <3>1, Zenon
    <3>3. cookies' = cookies /\ told' = told
      BY <1>7, <2>3, Zenon DEF Symbol
    <3> QED
      BY <1>1, <1>3, <3>2, <3>3, Zenon DEF JarInv, HeaderPlace
  <2> QED
    BY <2>2, <2>3
<1>8. CASE Over \/ Lost
  <2>1. turn' = "ask" /\ UNCHANGED <<cookies, told>>
    BY <1>8 DEF Over, Lost, IsOver, cookievars
  <2> QED
    BY <1>1, <1>3, <2>1 DEF JarInv, HeaderPlace
<1> QED
  BY <1>4, <1>5, <1>6, <1>7, <1>8 DEF Next

\* The jar holds the last value of every cookie that came whole in the first
\* piece of its answer and fitted, and nothing else, but for the names that were
\* new to a full jar: for any number of slots, any sizes of the two buffers, any
\* cookies and wherever a first piece ends (cookies.c:21-63, 139-236,
\* main.c:510).
THEOREM JarAlwaysTold == Spec => []JarIsTold
<1>1. Init => Sending /\ JarInv
  BY SendingInit, ToldInit
<1>2. Sending /\ JarInv /\ [Next]_vars => Sending' /\ JarInv'
  BY SendingStep, ToldStep
<1>3. JarInv => JarIsTold
  BY DEF JarInv
<1> QED
  BY <1>1, <1>2, <1>3, PTL DEF Spec
=============================================================================
