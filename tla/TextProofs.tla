----------------------------- MODULE TextProofs -----------------------------
(***************************************************************************)
(* The configuration as the whole program reads it, for any file, any keys *)
(* in any order, and a buffer of any size; then the lines of rules, for    *)
(* any length of the pieces fgets() reads; then, for any messages and any  *)
(* rules, the links between the parts of a message, the last part of one   *)
(* that ends with a comma, and what the rules put around the parts.        *)
(***************************************************************************)
EXTENDS Text, SequenceTheorems, WellFoundedInduction, TLAPS

USE BufSizeAssumption

States == {"VRFY_KEY", "WF_VALUE", "WF_NEWLINE", "IN_VALUE", "END"}

ConfTypes ==
  /\ conf \in Seq(STRING) /\ cpos \in 1 .. Len(conf) + 1 /\ fd \in BOOLEAN
  /\ asked \in 0 .. Len(Asked) /\ asking \in {0, asked}
  /\ state \in States /\ matched \in Nat /\ buf \in Seq(STRING) /\ answer \in Seq(STRING)
  /\ asking # 0 /\ state \notin {"IN_VALUE", "END"} => buf = << >>

\* What was matched is the beginning of the key, after separators, from where a
\* line or the read began;
Matching ==
  asking # 0 /\ state = "VRFY_KEY" /\ ~AtEnd =>
    \E p, a \in 1 .. Len(conf) :
      /\ StartOfRead(p) /\ p <= a /\ cpos = a + matched /\ matched <= Len(key)
      /\ \A x \in p .. a - 1 : conf[x] \in SEPARATOR
      /\ \A x \in 1 .. matched : conf[a + x - 1] = key[x]

\* then there is the whole key, a separator and blanks,
Given(p, a, v) == StartOfRead(p) /\ KeyAt(p, key, a, v)

Awaited ==
  asking # 0 /\ state = "WF_VALUE" =>
    \E p, a \in 1 .. Len(conf) : Given(p, a, cpos)

\* and the value is what was read since.
Copied ==
  asking # 0 /\ state = "IN_VALUE" =>
    \E p, a, v \in 1 .. Len(conf) :
      /\ Given(p, a, v) /\ conf[v] \notin NEWLINE \cup BLANK
      /\ v < cpos /\ cpos - v < BufSize /\ buf = SubSeq(conf, v, cpos - 1)
      /\ \A x \in v .. cpos - 1 : conf[x] \notin NEWLINE \cup {"\t"}

\* A value of the key that was asked for last.
Theirs(s) ==
  s # << >> =>
    \E p \in DOMAIN conf : StartOfRead(p) /\
      \E a, v, w \in p .. Len(conf) :
        GivenAt(p, Asked[asked], a, v) /\ Value(v, w) /\ s = SubSeq(conf, v, w)

\* Between two reads, the next one starts well.
Stopped ==
  /\ asking # 0 /\ state = "END" => Theirs(buf)
  /\ asking = 0 => Theirs(answer)
  /\ (asking = 0 \/ state = "END") /\ ~AtEnd => StartOfRead(cpos)

ValueInv == ConfTypes /\ Matching /\ Awaited /\ Copied /\ Stopped

\* A value of the key, on a line that was begun in the last pass, makes the search
\* go by each of its characters in turn.
Along(a, v) ==
  /\ cpos <= v
  /\ cpos <= a => state = "VRFY_KEY" /\ matched = 0
  /\ a < cpos /\ cpos <= a + Len(key) => state = "VRFY_KEY" /\ matched = cpos - a
  /\ a + Len(key) < cpos => state = "WF_VALUE"

Followed ==
  asking # 0 /\ lastpass /\ state \notin {"IN_VALUE", "END"} =>
    \A p \in 2 .. Len(conf) : \A a, v \in p .. Len(conf) :
      StartOfLine(p) /\ GivenAt(p, key, a, v) /\ p <= cpos => Along(a, v)

Missed(k) ==
  \A p \in 2 .. Len(conf) : StartOfLine(p) =>
    \A a, v \in p .. Len(conf) : ~GivenAt(p, k, a, v)

FoundInv ==
  /\ ConfTypes /\ Followed
  /\ asking # 0 => fd
  /\ ~fd => cpos = 1
  /\ asking # 0 /\ state = "IN_VALUE" => buf # << >>
  /\ asking # 0 /\ state = "END" /\ buf = << >> => Missed(key)
  /\ asking = 0 /\ fd /\ answer = << >> => Missed(Asked[asked])
-----------------------------------------------------------------------------
\* A sequence of one element.
LEMMA One ==
  ASSUME NEW S, NEW x \in S
  PROVE  <<x>> \in Seq(S) /\ Len(<<x>>) = 1 /\ <<x>>[1] = x /\ <<x>> # << >>
  OBVIOUS

(* The variables of conf.c have their types.                                 *)
LEMMA StartTypes == ConfInit => ConfTypes
  <1> SUFFICES ASSUME ConfInit PROVE ConfTypes
    OBVIOUS
  <1>1. conf \in Seq(STRING)
    BY ConfAssumption DEF ConfInit
  <1>2. Len(Asked) \in Nat /\ Len(conf) \in Nat
    BY <1>1, ConfAssumption
  <1>3. cpos \in 1 .. Len(conf) + 1 /\ asked \in 0 .. Len(Asked)
    BY <1>2 DEF ConfInit
  <1>4. << >> \in Seq(STRING)
    OBVIOUS
  <1> QED
    BY <1>1, <1>3, <1>4 DEF ConfInit, ConfTypes, States

\* One more character is read while a key is looked for.
LEMMA NextTypes ==
  ASSUME ConfTypes, NextChar
  PROVE  ConfTypes'
  <1>1. /\ c \in STRING /\ cpos' \in 1 .. Len(conf) + 1
        /\ conf' = conf /\ fd' = fd /\ asking' = asking /\ asked' = asked /\ answer' = answer
        /\ asking # 0
    BY DEF NextChar, Reading, AtEnd, ConfTypes, c
  <1>2. /\ state' \in States /\ matched' \in Nat /\ buf' \in Seq(STRING)
        /\ state' \notin {"IN_VALUE", "END"} => buf' = << >>
    <2>1. CASE VerifyKey
      BY <1>1, <2>1 DEF VerifyKey, EndOfKey, ConfTypes, States
    <2>2. CASE WaitForValue
      <3>1. <<c>> \in Seq(STRING)
        BY <1>1, One, Zenon
      <3>2. CASE c \in NEWLINE \/ c \in BLANK
        <4> HIDE DEF c
        <4>1. \/ state' = "VRFY_KEY" /\ matched' = 0 /\ buf' = buf
              \/ state' = state /\ matched' = matched /\ buf' = buf
          BY <2>2, <3>2, Zenon DEF WaitForValue
        <4> QED
          <5>1. state = "WF_VALUE" /\ buf = << >>
            BY <1>1, <2>2 DEF WaitForValue, ConfTypes
          <5>2. buf' = << >>
            BY <4>1, <5>1
          <5>3. state' \in {"VRFY_KEY", "WF_VALUE"} /\ matched' \in Nat
            BY <4>1, <5>1 DEF ConfTypes
          <5>4. << >> \in Seq(STRING)
            OBVIOUS
          <5> QED
            BY <5>2, <5>3, <5>4 DEF States
      <3>3. CASE c \notin NEWLINE \cup BLANK
        <4>1. state' = "IN_VALUE" /\ buf' = <<c>> /\ matched' = matched
          BY <2>2, <3>3 DEF WaitForValue
        <4> HIDE DEF c
        <4> QED
          BY <4>1, <3>1 DEF ConfTypes, States
      <3> QED
        BY <3>2, <3>3
    <2>3. CASE WaitForNewline
      BY <1>1, <2>3 DEF WaitForNewline, ConfTypes, States
    <2>4. CASE InValue
      <3>1. Append(buf, c) \in Seq(STRING)
        BY <1>1 DEF ConfTypes
      <3> QED
        BY <1>1, <2>4, <3>1 DEF InValue, ConfTypes, States
    <2> QED
      BY <2>1, <2>2, <2>3, <2>4 DEF NextChar
  <1> QED
    BY <1>1, <1>2 DEF ConfTypes

\* Every step of read_conf_string().
LEMMA StepTypes ==
  ASSUME ConfTypes, [ConfNext]_confvars
  PROVE  ConfTypes'
  <1>1. Len(Asked) \in Nat /\ Len(conf) \in Nat
    BY ConfAssumption DEF ConfTypes
  <1>2. CASE read_conf_string
    BY <1>1, <1>2 DEF read_conf_string, LastPass, ConfTypes, States
  <1>3. CASE CannotOpen
    BY <1>1, <1>3 DEF CannotOpen, ConfTypes, States
  <1>4. CASE LastChar
    BY <1>1, <1>4 DEF LastChar, ConfTypes, States
  <1>5. CASE Rewound
    BY <1>1, <1>5 DEF Rewound, Reading, ConfTypes, States
  <1>6. CASE NextChar
    BY <1>6, NextTypes
  <1>7. CASE Answered
    BY <1>1, <1>7 DEF Answered, ConfTypes, States
  <1>8. CASE UNCHANGED confvars
    BY <1>8 DEF confvars, ConfTypes, States
  <1> QED
    BY <1>2, <1>3, <1>4, <1>5, <1>6, <1>7, <1>8 DEF ConfNext
-----------------------------------------------------------------------------
\* A key that is read is one of the program's, and it is not empty.
LEMMA KeyIsAsked ==
  ASSUME ConfTypes, asking # 0
  PROVE  /\ asking = asked /\ asking \in DOMAIN Asked
         /\ key \in Seq(STRING) /\ key # << >> /\ Len(key) \in Nat \ {0}
  <1>1. Len(Asked) \in Nat /\ Asked \in Seq(Seq(STRING) \ {<< >>})
    BY ConfAssumption
  <1>2. asking = asked /\ asking \in 1 .. Len(Asked)
    BY <1>1 DEF ConfTypes
  <1>3. Asked[asking] \in Seq(STRING) \ {<< >>}
    BY <1>1, <1>2
  <1> QED
    BY <1>1, <1>2, <1>3, EmptySeq DEF key

\* The file does not change, nor where its lines begin.
LEMMA SameFile ==
  ASSUME conf' = conf, NEW p
  PROVE  (StartOfLine(p)' <=> StartOfLine(p)) /\ (StartOfRead(p)' <=> StartOfRead(p))
  BY DEF StartOfLine, StartOfRead

\* The search begins again where a line or a read may begin.
LEMMA BeginsAgain ==
  ASSUME ConfTypes', conf' = conf, matched' = 0, StartOfRead(cpos') \/ AtEnd'
  PROVE  Matching'
  <1> SUFFICES ASSUME asking' # 0, ~AtEnd'
               PROVE  \E p, a \in 1 .. Len(conf') :
                        /\ StartOfRead(p)' /\ p <= a /\ cpos' = a + matched' /\ matched' <= Len(key')
                        /\ \A x \in p .. a - 1 : conf'[x] \in SEPARATOR
                        /\ \A x \in 1 .. matched' : conf'[a + x - 1] = key'[x]
    BY DEF Matching, key
  <1>1. cpos' \in 1 .. Len(conf')
    BY DEF ConfTypes, AtEnd
  <1>2. PICK q \in 1 .. Len(conf') : q = cpos'
    BY <1>1
  <1>3. StartOfRead(q)
    BY <1>2
  <1>4. StartOfRead(q)'
    BY <1>3, SameFile
  <1>5. Len(key') \in Nat
    <2>1. Len(Asked) \in Nat /\ Asked \in Seq(Seq(STRING) \ {<< >>})
      BY ConfAssumption
    <2>2. asking' \in 1 .. Len(Asked)
      BY <2>1 DEF ConfTypes
    <2>3. Asked[asking'] \in Seq(STRING)
      BY <2>1, <2>2
    <2> QED
      BY <2>3 DEF key
  <1> QED
    BY <1>1, <1>2, <1>4, <1>5

\* The key is matched a little more.
LEMMA MatchedMore ==
  ASSUME ConfTypes, ConfTypes', Matching, asking # 0, conf' = conf, asking' = asking, cpos' = cpos + 1,
         state = "VRFY_KEY", ~AtEnd,
         \/ matched = 0 /\ matched' = 0 /\ conf[cpos] \in SEPARATOR
         \/ matched < Len(key) /\ conf[cpos] = key[matched + 1] /\ matched' = matched + 1
  PROVE  Matching'
  <1> SUFFICES ASSUME ~AtEnd'
               PROVE  \E p, a \in 1 .. Len(conf) :
                        /\ StartOfRead(p)' /\ p <= a /\ cpos' = a + matched' /\ matched' <= Len(key)
                        /\ \A x \in p .. a - 1 : conf[x] \in SEPARATOR
                        /\ \A x \in 1 .. matched' : conf[a + x - 1] = key[x]
    BY DEF Matching, key
  <1>1. PICK p, a \in 1 .. Len(conf) :
          /\ StartOfRead(p) /\ p <= a /\ cpos = a + matched /\ matched <= Len(key)
          /\ \A x \in p .. a - 1 : conf[x] \in SEPARATOR
          /\ \A x \in 1 .. matched : conf[a + x - 1] = key[x]
    BY DEF Matching
  <1>2. StartOfRead(p)'
    BY <1>1, SameFile
  <1>3. Len(conf) \in Nat /\ Len(key) \in Nat /\ cpos + 1 \in 1 .. Len(conf) /\ matched \in Nat
    <2>1. Len(key) \in Nat
      BY KeyIsAsked
    <2>2. Len(conf) \in Nat /\ cpos \in 1 .. Len(conf) + 1 /\ matched \in Nat
      BY DEF ConfTypes
    <2>3. ~(cpos + 1 > Len(conf))
      BY DEF AtEnd
    <2> QED
      BY <2>1, <2>2, <2>3
  <1>4. CASE matched = 0 /\ matched' = 0 /\ conf[cpos] \in SEPARATOR
    <2>1. cpos = a /\ a + 1 \in 1 .. Len(conf)
      BY <1>1, <1>3, <1>4
    <2>2. \A x \in p .. a + 1 - 1 : conf[x] \in SEPARATOR
      BY <1>1, <1>3, <1>4, <2>1
    <2>3. /\ p <= a + 1 /\ cpos + 1 = a + 1 + 0 /\ 0 <= Len(key)
          /\ \A x \in 1 .. 0 : conf[a + 1 + x - 1] = key[x]
      BY <1>1, <1>3, <2>1
    <2> QED
      BY <1>2, <1>4, <2>1, <2>2, <2>3
  <1>5. CASE matched < Len(key) /\ conf[cpos] = key[matched + 1] /\ matched' = matched + 1
    <2>1. \A x \in 1 .. matched + 1 : conf[a + x - 1] = key[x]
      <3> SUFFICES ASSUME NEW x \in 1 .. matched + 1 PROVE conf[a + x - 1] = key[x]
        OBVIOUS
      <3>1. CASE x = matched + 1
        <4>1. a + x - 1 = cpos
          BY <1>1, <1>3, <3>1
        <4> QED
          BY <1>5, <3>1, <4>1
      <3>2. CASE x \in 1 .. matched
        BY <1>1, <3>2
      <3> QED
        BY <1>3, <3>1, <3>2
    <2>2. cpos + 1 = a + (matched + 1) /\ matched + 1 <= Len(key)
      BY <1>1, <1>3, <1>5
    <2> QED
      BY <1>1, <1>2, <1>5, <2>1, <2>2
  <1> QED
    BY <1>4, <1>5

\* After the key a separator is found,
LEMMA KeyEnds ==
  ASSUME ConfTypes, Matching, asking # 0, cpos' = cpos + 1,
         state = "VRFY_KEY", ~AtEnd, matched = Len(key), conf[cpos] \in SEPARATOR
  PROVE  \E p, a \in 1 .. Len(conf) : Given(p, a, cpos + 1)
  <1>1. PICK p, a \in 1 .. Len(conf) :
          /\ StartOfRead(p) /\ p <= a /\ cpos = a + matched /\ matched <= Len(key)
          /\ \A x \in p .. a - 1 : conf[x] \in SEPARATOR
          /\ \A x \in 1 .. matched : conf[a + x - 1] = key[x]
    BY DEF Matching
  <1>2. Len(key) \in Nat /\ cpos \in Nat
    BY KeyIsAsked DEF ConfTypes
  <1>3. KeyAt(p, key, a, cpos + 1)
    BY <1>1, <1>2 DEF KeyAt
  <1> QED
    BY <1>1, <1>3 DEF Given

\* then blanks.
LEMMA BlankFollows ==
  ASSUME ConfTypes, asking # 0, NEW p \in 1 .. Len(conf), NEW a \in 1 .. Len(conf),
         Given(p, a, cpos), conf[cpos] \in BLANK
  PROVE  Given(p, a, cpos + 1)
  <1>1. Len(key) \in Nat /\ cpos \in Nat
    BY KeyIsAsked DEF ConfTypes
  <1>2. \A x \in a + Len(key) + 1 .. cpos + 1 - 1 : conf[x] \in BLANK
    BY <1>1 DEF Given, KeyAt
  <1> QED
    BY <1>1, <1>2 DEF Given, KeyAt

\* What was found stays so, as the file and the key do.
LEMMA GivenStays ==
  ASSUME conf' = conf, asking' = asking, NEW p, NEW a, NEW v, Given(p, a, v)
  PROVE  Given(p, a, v)'
  <1>1. StartOfRead(p)'
    BY SameFile DEF Given
  <1>2. KeyAt(p, key, a, v)'
    BY DEF Given, KeyAt, key
  <1> QED
    BY <1>1, <1>2 DEF Given

\* The first character of a value is copied,
LEMMA ValueBegins ==
  ASSUME ConfTypes, Awaited, asking # 0, conf' = conf, asking' = asking, cpos' = cpos + 1,
         state = "WF_VALUE", ~AtEnd, conf[cpos] \notin NEWLINE \cup BLANK, buf' = <<conf[cpos]>>
  PROVE  Copied'
  <1> SUFFICES \E p, a, v \in 1 .. Len(conf) :
                 /\ Given(p, a, v)' /\ conf[v] \notin NEWLINE \cup BLANK
                 /\ v < cpos' /\ cpos' - v < BufSize /\ buf' = SubSeq(conf, v, cpos' - 1)
                 /\ \A x \in v .. cpos' - 1 : conf[x] \notin NEWLINE \cup {"\t"}
    BY DEF Copied
  <1>1. PICK p, a \in 1 .. Len(conf) : Given(p, a, cpos)
    BY DEF Awaited
  <1>2. cpos \in 1 .. Len(conf) /\ Len(conf) \in Nat /\ conf \in Seq(STRING)
    BY DEF ConfTypes, AtEnd
  <1>3. PICK v \in 1 .. Len(conf) : v = cpos
    BY <1>2
  <1>4. Given(p, a, v)'
    BY <1>1, <1>3, GivenStays
  <1>5. buf' = SubSeq(conf, v, cpos' - 1)
    <2>1. cpos + 1 - 1 = v
      BY <1>2, <1>3
    <2>2. SubSeq(conf, v, v) = <<conf[v]>>
      <3>1. SubSeq(conf, v, v) = SubSeq(conf, v, v - 1) \o <<conf[v]>>
        BY <1>2, SubSeqRecursiveSecond
      <3>2. SubSeq(conf, v, v - 1) = << >>
        BY <1>2, SubSeqEmpty
      <3>3. <<conf[v]>> \in Seq(STRING)
        BY <1>2, ElementOfSeq, One
      <3>4. << >> \o <<conf[v]>> = <<conf[v]>>
        BY <3>3, ConcatEmptySeq, Zenon
      <3> QED
        BY <3>1, <3>2, <3>4
    <2> QED
      BY <1>3, <2>1, <2>2
  <1>6. \A x \in v .. cpos + 1 - 1 : conf[x] \notin NEWLINE \cup {"\t"}
    <2>1. conf[v] \notin NEWLINE \cup {"\t"}
      BY <1>3 DEF BLANK
    <2> QED
      BY <1>2, <1>3, <2>1
  <1> QED
    BY <1>2, <1>3, <1>4, <1>5, <1>6

\* and the others, until the buffer is full.
LEMMA ValueGoesOn ==
  ASSUME ConfTypes, asking # 0, NEW p \in 1 .. Len(conf), NEW a \in 1 .. Len(conf), NEW v \in 1 .. Len(conf),
         v < cpos, buf = SubSeq(conf, v, cpos - 1), ~AtEnd,
         \A x \in v .. cpos - 1 : conf[x] \notin NEWLINE \cup {"\t"},
         conf[cpos] \notin NEWLINE \cup {"\t"}
  PROVE  /\ Append(buf, conf[cpos]) = SubSeq(conf, v, cpos)
         /\ Len(Append(buf, conf[cpos])) = cpos + 1 - v
         /\ \A x \in v .. cpos : conf[x] \notin NEWLINE \cup {"\t"}
  <1>1. cpos \in 1 .. Len(conf) /\ Len(conf) \in Nat /\ conf \in Seq(STRING)
    BY DEF ConfTypes, AtEnd
  <1>2. Append(buf, conf[cpos]) = SubSeq(conf, v, cpos)
    <2>1. SubSeq(conf, v, cpos) = SubSeq(conf, v, cpos - 1) \o <<conf[cpos]>>
      BY <1>1, SubSeqRecursiveSecond
    <2>2. buf \in Seq(STRING) /\ conf[cpos] \in STRING
      BY <1>1 DEF ConfTypes
    <2>3. Append(buf, conf[cpos]) = buf \o <<conf[cpos]>>
      BY <2>2, AppendIsConcat
    <2> QED
      BY <2>1, <2>3
  <1>3. Len(SubSeq(conf, v, cpos)) = cpos + 1 - v
    BY <1>1
  <1>4. \A x \in v .. cpos : conf[x] \notin NEWLINE \cup {"\t"}
    BY <1>1
  <1> QED
    BY <1>2, <1>3, <1>4

\* A value that ends is the key's.
LEMMA ValueEnds ==
  ASSUME ConfTypes, asking # 0,
         NEW p \in 1 .. Len(conf), NEW a \in 1 .. Len(conf), NEW v \in 1 .. Len(conf), NEW w \in v .. Len(conf),
         Given(p, a, v), conf[v] \notin NEWLINE \cup BLANK, Value(v, w)
  PROVE  Theirs(SubSeq(conf, v, w))
  <1>1. asking = asked /\ Len(key) \in Nat /\ Len(conf) \in Nat
    BY KeyIsAsked DEF ConfTypes
  <1>2. p \in DOMAIN conf /\ StartOfRead(p)
    BY DEF Given, ConfTypes
  <1>3. p <= a /\ a < v
    BY <1>1 DEF Given, KeyAt
  <1>4. a \in p .. Len(conf) /\ v \in p .. Len(conf) /\ w \in p .. Len(conf)
    BY <1>1, <1>3
  <1>5. GivenAt(p, Asked[asked], a, v)
    BY <1>1 DEF Given, GivenAt, key
  <1> QED
    BY <1>2, <1>4, <1>5 DEF Theirs

\* It stays the key's in the buffer, and in the answer.
LEMMA TheirsStays ==
  ASSUME conf' = conf, asked' = asked, NEW s, Theirs(s)
  PROVE  Theirs(s)'
  <1>1. \A p : StartOfRead(p)' <=> StartOfRead(p)
    BY SameFile
  <1>2. \A p, a, v : GivenAt(p, Asked[asked], a, v)' <=> GivenAt(p, Asked[asked], a, v)
    BY DEF GivenAt, KeyAt
  <1>3. \A v, w : Value(v, w)' <=> Value(v, w)
    BY DEF Value
  <1> QED
    BY <1>1, <1>2, <1>3, Zenon DEF Theirs

\* A read begins where the last one stopped.
LEMMA ReadKeepsValues ==
  ASSUME ValueInv, ConfTypes', read_conf_string
  PROVE  Matching' /\ Awaited' /\ Copied' /\ Stopped'
  <1>1. /\ conf' = conf /\ cpos' = cpos /\ matched' = 0 /\ state' = "VRFY_KEY" /\ asking = 0
        /\ asking' = asked + 1 /\ asked \in Nat
    BY ConfAssumption DEF read_conf_string, ValueInv, ConfTypes
  <1>2. StartOfRead(cpos') \/ AtEnd'
    BY <1>1 DEF ValueInv, Stopped, AtEnd
  <1>3. Matching'
    BY <1>1, <1>2, BeginsAgain
  <1>4. Awaited' /\ Copied' /\ Stopped'
    BY <1>1 DEF Awaited, Copied, Stopped
  <1> QED
    BY <1>3, <1>4

\* A file that cannot be opened gives none.
LEMMA CannotOpenKeepsValues ==
  ASSUME ValueInv, CannotOpen
  PROVE  Matching' /\ Awaited' /\ Copied' /\ Stopped'
  <1>1. /\ conf' = conf /\ cpos' = cpos /\ asking = 0 /\ asking' = 0 /\ answer' = << >>
    BY DEF CannotOpen
  <1>2. Theirs(answer)'
    BY <1>1 DEF Theirs
  <1>3. ~AtEnd' => StartOfRead(cpos)'
    BY <1>1 DEF ValueInv, Stopped, AtEnd, StartOfRead, StartOfLine
  <1> QED
    BY <1>1, <1>2, <1>3 DEF Matching, Awaited, Copied, Stopped

\* The answer is what was copied.
LEMMA AnsweredKeepsValues ==
  ASSUME ValueInv, Answered
  PROVE  Matching' /\ Awaited' /\ Copied' /\ Stopped'
  <1>1. /\ conf' = conf /\ cpos' = cpos /\ asking # 0 /\ state = "END" /\ asking' = 0 /\ answer' = buf /\ asked' = asked
    BY DEF Answered
  <1>2. Theirs(answer)'
    <2>1. Theirs(buf)
      BY <1>1 DEF ValueInv, Stopped
    <2>2. PICK s : s = buf
      OBVIOUS
    <2>3. Theirs(s)'
      BY <1>1, <2>1, <2>2, TheirsStays, Zenon
    <2> QED
      BY <1>1, <2>2, <2>3
  <1>3. ~AtEnd' => StartOfRead(cpos)'
    BY <1>1 DEF ValueInv, Stopped, AtEnd, StartOfRead, StartOfLine
  <1> QED
    BY <1>1, <1>2, <1>3 DEF Matching, Awaited, Copied, Stopped

\* A value may end with the file.
LEMMA LastCharKeepsValues ==
  ASSUME ValueInv, ConfTypes', LastChar
  PROVE  Matching' /\ Awaited' /\ Copied' /\ Stopped'
  <1>1. /\ conf' = conf /\ cpos' = cpos /\ asking # 0 /\ state # "END" /\ state' = "END" /\ asking' = asking
        /\ asked' = asked /\ buf' = buf /\ cpos > Len(conf)
    BY DEF LastChar, Reading, AtEnd
  <1>2. Theirs(buf)
    <2>1. CASE state = "IN_VALUE"
      <3>1. PICK p, a, v \in 1 .. Len(conf) :
              /\ Given(p, a, v) /\ conf[v] \notin NEWLINE \cup BLANK
              /\ v < cpos /\ cpos - v < BufSize /\ buf = SubSeq(conf, v, cpos - 1)
              /\ \A x \in v .. cpos - 1 : conf[x] \notin NEWLINE \cup {"\t"}
        <4>1. Copied
          BY DEF ValueInv
        <4> QED
          BY <1>1, <2>1, <4>1 DEF Copied
      <3>2. cpos - 1 = Len(conf) /\ Len(conf) \in Nat /\ cpos \in Nat
        <4>1. conf \in Seq(STRING) /\ cpos \in 1 .. Len(conf) + 1
          BY DEF ValueInv, ConfTypes
        <4> QED
          BY <1>1, <4>1
      <3>3. PICK w \in v .. Len(conf) : w = cpos - 1
        BY <3>1, <3>2
      <3>4. Value(v, w)
        BY <3>1, <3>2, <3>3 DEF Value
      <3>5. Theirs(SubSeq(conf, v, w))
        BY <1>1, <3>1, <3>3, <3>4, ValueEnds DEF ValueInv
      <3> QED
        BY <3>1, <3>3, <3>5
    <2>2. CASE state # "IN_VALUE"
      BY <1>1, <2>2 DEF ValueInv, ConfTypes, Theirs
    <2> QED
      BY <2>1, <2>2
  <1>3. Theirs(buf)'
    <2>1. PICK s : s = buf
      OBVIOUS
    <2>2. Theirs(s)'
      BY <1>1, <1>2, <2>1, TheirsStays, Zenon
    <2> QED
      BY <1>1, <2>1, <2>2
  <1>4. AtEnd'
    BY <1>1 DEF AtEnd
  <1>5. asking' # 0
    BY <1>1
  <1> QED
    BY <1>1, <1>3, <1>4, <1>5 DEF Matching, Awaited, Copied, Stopped

\* A character that ends no value leaves only the search to look at.
LEMMA SearchGoesOn ==
  ASSUME asking' # 0, state' \notin {"IN_VALUE", "END"}, Matching', Awaited'
  PROVE  Matching' /\ Awaited' /\ Copied' /\ Stopped'
  BY DEF Copied, Stopped

\* One more character keeps what the values rest on, where a key is verified,
LEMMA VerifyKeepsValues ==
  ASSUME ValueInv, ConfTypes', NextChar, VerifyKey
  PROVE  Matching' /\ Awaited' /\ Copied' /\ Stopped'
  <1>1. /\ conf' = conf /\ cpos' = cpos + 1 /\ asking # 0 /\ asking' = asking /\ ~AtEnd /\ c = conf[cpos]
        /\ state = "VRFY_KEY" /\ cpos \in Nat /\ matched \in Nat
    BY DEF NextChar, VerifyKey, Reading, c, ValueInv, ConfTypes
  <1> HIDE DEF c
  <1>2. CASE matched = 0 /\ c \in COMMENT /\ state' = "WF_NEWLINE"
    BY <1>1, <1>2, SearchGoesOn DEF Matching, Awaited
  <1>3. CASE c \in NEWLINE /\ matched' = 0 /\ state' = state
    <2>1. StartOfRead(cpos')
      BY <1>1, <1>3 DEF StartOfRead, StartOfLine
    <2>2. Matching'
      BY <1>1, <1>3, <2>1, BeginsAgain
    <2> QED
      BY <1>1, <1>3, <2>2, SearchGoesOn DEF Awaited
  <1>4. CASE c \in SEPARATOR /\ matched = 0 /\ state' = state /\ matched' = matched
    <2>1. Matching'
      BY <1>1, <1>4, MatchedMore DEF ValueInv
    <2> QED
      BY <1>1, <1>4, <2>1, SearchGoesOn DEF Awaited
  <1>5. CASE c \in SEPARATOR /\ matched # 0 /\ state' = EndOfKey
    <2>1. CASE matched = Len(key)
      <3>1. PICK p, a \in 1 .. Len(conf) : Given(p, a, cpos + 1)
        BY <1>1, <1>5, <2>1, KeyEnds DEF ValueInv
      <3>2. PICK v : v = cpos + 1
        OBVIOUS
      <3>3. Given(p, a, v)'
        BY <1>1, <3>1, <3>2, GivenStays
      <3>4. state' = "WF_VALUE"
        BY <1>5, <2>1 DEF EndOfKey
      <3>5. Awaited'
        BY <1>1, <3>2, <3>3 DEF Awaited, Given
      <3> QED
        BY <1>1, <3>4, <3>5, SearchGoesOn DEF Matching
    <2>2. CASE matched # Len(key)
      BY <1>1, <1>5, <2>2, SearchGoesOn DEF EndOfKey, Matching, Awaited
    <2> QED
      BY <2>1, <2>2
  <1>6. CASE matched < Len(key) /\ c = key[matched + 1] /\ matched' = matched + 1 /\ state' = state
    <2>1. Matching'
      BY <1>1, <1>6, MatchedMore DEF ValueInv
    <2> QED
      BY <1>1, <1>6, <2>1, SearchGoesOn DEF Awaited
  <1>7. CASE state' = "WF_NEWLINE"
    BY <1>1, <1>7, SearchGoesOn DEF Matching, Awaited
  <1> QED
    BY <1>2, <1>3, <1>4, <1>5, <1>6, <1>7, Zenon DEF VerifyKey

\* where a value may begin,
LEMMA WaitKeepsValues ==
  ASSUME ValueInv, ConfTypes', NextChar, WaitForValue
  PROVE  Matching' /\ Awaited' /\ Copied' /\ Stopped'
  <1>1. /\ conf' = conf /\ cpos' = cpos + 1 /\ asking # 0 /\ asking' = asking /\ ~AtEnd /\ c = conf[cpos]
        /\ state = "WF_VALUE" /\ cpos \in Nat
    BY DEF NextChar, WaitForValue, Reading, c, ValueInv, ConfTypes
  <1> HIDE DEF c
  <1>2. CASE c \in NEWLINE /\ matched' = 0 /\ state' = "VRFY_KEY"
    <2>1. StartOfRead(cpos')
      BY <1>1, <1>2 DEF StartOfRead, StartOfLine
    <2>2. Matching'
      BY <1>1, <1>2, <2>1, BeginsAgain
    <2> QED
      BY <1>1, <1>2, <2>2, SearchGoesOn DEF Awaited
  <1>3. CASE c \in BLANK /\ state' = state
    <2>1. PICK p, a \in 1 .. Len(conf) : Given(p, a, cpos)
      BY <1>1 DEF ValueInv, Awaited
    <2>2. PICK v : v = cpos + 1
      OBVIOUS
    <2>3. Given(p, a, v)
      BY <1>1, <1>3, <2>1, <2>2, BlankFollows DEF ValueInv
    <2>4. Given(p, a, v)'
      BY <1>1, <2>3, GivenStays
    <2>5. Awaited'
      BY <1>1, <2>2, <2>4 DEF Awaited, Given
    <2> QED
      BY <1>1, <1>3, <2>5, SearchGoesOn DEF Matching
  <1>4. CASE c \notin NEWLINE \cup BLANK /\ state' = "IN_VALUE" /\ buf' = <<c>>
    <2>1. Copied'
      BY <1>1, <1>4, ValueBegins DEF ValueInv
    <2> QED
      BY <1>1, <1>4, <2>1 DEF Matching, Awaited, Stopped
  <1> QED
    BY <1>2, <1>3, <1>4, Zenon DEF WaitForValue

\* where the rest of a line is skipped,
LEMMA NewlineKeepsValues ==
  ASSUME ValueInv, ConfTypes', NextChar, WaitForNewline
  PROVE  Matching' /\ Awaited' /\ Copied' /\ Stopped'
  <1>1. /\ conf' = conf /\ cpos' = cpos + 1 /\ asking # 0 /\ asking' = asking /\ c = conf[cpos]
        /\ state = "WF_NEWLINE" /\ cpos \in Nat
    BY DEF NextChar, WaitForNewline, Reading, c, ValueInv, ConfTypes
  <1> HIDE DEF c
  <1>2. CASE c \in NEWLINE /\ matched' = 0 /\ state' = "VRFY_KEY"
    <2>1. StartOfRead(cpos')
      BY <1>1, <1>2 DEF StartOfRead, StartOfLine
    <2>2. Matching'
      BY <1>1, <1>2, <2>1, BeginsAgain
    <2> QED
      BY <1>1, <1>2, <2>2, SearchGoesOn DEF Awaited
  <1>3. CASE state' = state
    BY <1>1, <1>3, SearchGoesOn DEF Matching, Awaited
  <1> QED
    BY <1>2, <1>3, Zenon DEF WaitForNewline

\* and where a value is copied.
LEMMA InValueKeepsValues ==
  ASSUME ValueInv, ConfTypes', NextChar, InValue
  PROVE  Matching' /\ Awaited' /\ Copied' /\ Stopped'
  <1>1. /\ conf' = conf /\ cpos' = cpos + 1 /\ asking # 0 /\ asking' = asking /\ asked' = asked /\ c = conf[cpos]
        /\ state = "IN_VALUE" /\ cpos \in 1 .. Len(conf) /\ Len(conf) \in Nat /\ ~AtEnd /\ ConfTypes
    BY DEF NextChar, InValue, Reading, AtEnd, c, ValueInv, ConfTypes
  <1>2. PICK p, a, v \in 1 .. Len(conf) :
          /\ Given(p, a, v) /\ conf[v] \notin NEWLINE \cup BLANK
          /\ v < cpos /\ cpos - v < BufSize /\ buf = SubSeq(conf, v, cpos - 1)
          /\ \A x \in v .. cpos - 1 : conf[x] \notin NEWLINE \cup {"\t"}
    BY <1>1 DEF ValueInv, Copied
  <1> HIDE DEF c
  <1>3. CASE c \in NEWLINE \cup {"\t"} /\ state' = "END" /\ buf' = buf
    <2>1. PICK w \in v .. Len(conf) : w = cpos - 1
      BY <1>1, <1>2
    <2>2. Value(v, w)
      BY <1>1, <1>2, <1>3, <2>1 DEF Value
    <2>3. Theirs(SubSeq(conf, v, w))
      BY <1>1, <1>2, <2>2, ValueEnds
    <2>4. PICK s : s = buf
      OBVIOUS
    <2>5. Theirs(s)'
      BY <1>1, <1>2, <2>1, <2>3, <2>4, TheirsStays, Zenon
    <2>6. Theirs(buf)'
      BY <1>3, <2>4, <2>5
    <2>7. StartOfRead(cpos)'
      BY <1>1, <1>3 DEF StartOfRead, StartOfLine
    <2> QED
      BY <1>1, <1>3, <2>6, <2>7 DEF Matching, Awaited, Copied, Stopped
  <1>4. CASE /\ c \notin NEWLINE \cup {"\t"} /\ buf' = Append(buf, c)
             /\ state' = IF Len(buf') >= BufSize THEN "END" ELSE state
    <2>1. /\ buf' = SubSeq(conf, v, cpos) /\ Len(buf') = cpos + 1 - v
          /\ \A x \in v .. cpos : conf[x] \notin NEWLINE \cup {"\t"}
      BY <1>1, <1>2, <1>4, ValueGoesOn
    <2>2. CASE cpos + 1 - v >= BufSize
      <3>1. state' = "END"
        BY <1>4, <2>1, <2>2
      <3>2. PICK w \in v .. Len(conf) : w = cpos
        BY <1>1, <1>2
      <3>3. cpos + 1 - v = BufSize /\ BufSize \in Nat
        BY <1>1, <1>2, <2>2
      <3>4. Value(v, w)
        BY <1>1, <2>1, <3>2, <3>3 DEF Value
      <3>5. Theirs(SubSeq(conf, v, w))
        BY <1>1, <1>2, <3>4, ValueEnds
      <3>6. PICK s : s = buf'
        OBVIOUS
      <3>7. Theirs(s)'
        BY <1>1, <2>1, <3>2, <3>5, <3>6, TheirsStays, Zenon
      <3>8. Theirs(buf)'
        BY <3>6, <3>7
      <3>9. StartOfRead(cpos)'
        <4>1. cpos + 1 > BufSize /\ \A x \in cpos + 1 - BufSize .. cpos + 1 - 1 : conf[x] \notin NEWLINE
          BY <1>1, <1>2, <2>1, <3>3
        <4> QED
          BY <1>1, <4>1 DEF StartOfRead
      <3> QED
        BY <1>1, <3>1, <3>8, <3>9 DEF Matching, Awaited, Copied, Stopped
    <2>3. CASE ~(cpos + 1 - v >= BufSize)
      <3>1. state' = "IN_VALUE"
        BY <1>1, <1>4, <2>1, <2>3
      <3>2. Given(p, a, v)'
        BY <1>1, <1>2, GivenStays
      <3>3. /\ cpos' - v < BufSize /\ v < cpos' /\ buf' = SubSeq(conf', v, cpos' - 1)
            /\ \A x \in v .. cpos' - 1 : conf'[x] \notin NEWLINE \cup {"\t"}
        <4>1. cpos' - 1 = cpos
          BY <1>1
        <4> QED
          BY <1>1, <1>2, <2>1, <2>3, <4>1
      <3>4. Copied'
        BY <1>1, <1>2, <3>2, <3>3 DEF Copied
      <3> QED
        BY <1>1, <3>1, <3>4 DEF Matching, Awaited, Stopped
    <2> QED
      BY <2>2, <2>3
  <1> QED
    BY <1>3, <1>4, Zenon DEF InValue

(* Every step of read_conf_string() keeps what the values rest on.           *)
LEMMA StepKeepsValues ==
  ASSUME ValueInv, [ConfNext]_confvars
  PROVE  ValueInv'
  <1>1. ConfTypes'
    BY StepTypes DEF ValueInv
  <1>2. CASE read_conf_string
    BY <1>1, <1>2, ReadKeepsValues DEF ValueInv
  <1>3. CASE CannotOpen
    BY <1>1, <1>3, CannotOpenKeepsValues DEF ValueInv
  <1>4. CASE LastChar
    BY <1>1, <1>4, LastCharKeepsValues DEF ValueInv
  <1>5. CASE Rewound
    <2>1. asking' # 0 /\ state' = "WF_NEWLINE"
      BY <1>5 DEF Rewound, Reading
    <2> QED
      BY <1>1, <2>1 DEF ValueInv, Matching, Awaited, Copied, Stopped
  <1>6. CASE NextChar
    BY <1>1, <1>6, VerifyKeepsValues, WaitKeepsValues, NewlineKeepsValues, InValueKeepsValues
       DEF NextChar, ValueInv
  <1>7. CASE Answered
    BY <1>1, <1>7, AnsweredKeepsValues DEF ValueInv
  <1>8. CASE UNCHANGED confvars
    <2>1. /\ conf' = conf /\ cpos' = cpos /\ asking' = asking /\ asked' = asked /\ state' = state
          /\ matched' = matched /\ buf' = buf /\ answer' = answer
      BY <1>8 DEF confvars
    <2>2. Matching'
      <3>1. \A p : StartOfRead(p)' <=> StartOfRead(p)
        BY <2>1, SameFile
      <3>2. (AtEnd' <=> AtEnd) /\ key' = key
        BY <2>1 DEF AtEnd, key
      <3>3. Matching
        BY DEF ValueInv
      <3> QED
        BY <2>1, <3>1, <3>2, <3>3 DEF Matching
    <2>3. Awaited'
      BY <2>1 DEF ValueInv, Awaited, Given, KeyAt, StartOfRead, StartOfLine, key
    <2>4. Copied'
      <3>1. \A p, a, v : Given(p, a, v)' <=> Given(p, a, v)
        BY <2>1 DEF Given, KeyAt, StartOfRead, StartOfLine, key
      <3> QED
        BY <2>1, <3>1 DEF ValueInv, Copied
    <2>5. Theirs(buf)' <=> Theirs(buf)
      BY <2>1 DEF Theirs, GivenAt, KeyAt, Value, StartOfRead, StartOfLine
    <2>6. Theirs(answer)' <=> Theirs(answer)
      BY <2>1 DEF Theirs, GivenAt, KeyAt, Value, StartOfRead, StartOfLine
    <2>7. Stopped'
      BY <2>1, <2>5, <2>6 DEF ValueInv, Stopped, StartOfRead, StartOfLine, AtEnd
    <2> QED
      BY <1>1, <2>2, <2>3, <2>4, <2>7 DEF ValueInv
  <1> QED
    BY <1>2, <1>3, <1>4, <1>5, <1>6, <1>7, <1>8 DEF ConfNext

(* The value of a key is one that the file gives to that very key, where a   *)
(* line begins or where the last read stopped, whatever the file, the keys   *)
(* and the order they are read in (conf.c:86-151).                           *)
THEOREM ValuesAlwaysTheirs == Spec => []ValuesAreTheirs
  <1>1. Init => ValueInv
    <2> SUFFICES ASSUME Init PROVE ValueInv
      OBVIOUS
    <2>1. ConfInit /\ ConfTypes
      BY StartTypes DEF Init
    <2>2. Matching /\ Awaited /\ Copied
      BY <2>1 DEF ConfInit, Matching, Awaited, Copied
    <2>3. Theirs(answer) /\ StartOfRead(cpos)
      BY <2>1 DEF ConfInit, Theirs, StartOfRead, StartOfLine
    <2> QED
      BY <2>1, <2>2, <2>3 DEF ConfInit, ValueInv, Stopped
  <1>2. ValueInv /\ [Next]_vars => ValueInv'
    <2> SUFFICES ASSUME ValueInv, [Next]_vars PROVE ValueInv'
      OBVIOUS
    <2>1. [ConfNext]_confvars
      BY DEF Next, Configure, Format, vars
    <2> QED
      BY <2>1, StepKeepsValues
  <1>3. ValueInv => ValuesAreTheirs
    BY Zenon DEF ValueInv, Stopped, Theirs, ValuesAreTheirs
  <1> QED
    BY <1>1, <1>2, <1>3, PTL DEF Spec
-----------------------------------------------------------------------------
\* No character is of two kinds; those of a key are of none.
LEMMA Kinds ==
  /\ NEWLINE \cap SEPARATOR = {} /\ NEWLINE \cap COMMENT = {} /\ COMMENT \cap SEPARATOR = {}
  /\ BLANK \subseteq SEPARATOR
  BY DEF NEWLINE, SEPARATOR, BLANK, COMMENT

\* The characters of a key, and its first one.
LEMMA KeyKinds ==
  ASSUME ConfTypes, asking # 0, NEW x \in 1 .. Len(key)
  PROVE  key[x] \notin NEWLINE \cup SEPARATOR /\ key[1] \notin COMMENT
  <1>1. key[1] \notin COMMENT /\ ToSet(key) \cap (NEWLINE \cup SEPARATOR) = {}
    BY KeyIsAsked, ConfAssumption DEF key
  <1>2. key[x] \in ToSet(key)
    BY KeyIsAsked DEF ToSet
  <1> QED
    BY <1>1, <1>2

\* One character more goes by on the way to a value that was begun,
LEMMA GoesAlong ==
  ASSUME ConfTypes, NextChar, NEW p \in 2 .. Len(conf), NEW a \in p .. Len(conf), NEW v \in p .. Len(conf),
         GivenAt(p, key, a, v), p <= cpos, Along(a, v), state' # "IN_VALUE"
  PROVE  Along(a, v)'
  <1>1. /\ conf' = conf /\ cpos' = cpos + 1 /\ asking # 0 /\ asking' = asking /\ c = conf[cpos]
        /\ cpos \in Nat /\ p \in Nat /\ a \in Nat /\ v \in Nat /\ Len(key') = Len(key)
        /\ VerifyKey \/ WaitForValue \/ WaitForNewline \/ InValue
    BY DEF NextChar, Reading, c, ConfTypes, key
  <1>2. Len(key) \in Nat \ {0} /\ cpos <= v /\ a + Len(key) < v
    BY <1>1, KeyIsAsked DEF Along, GivenAt, KeyAt
  <1> HIDE DEF c
  <1>3. CASE cpos < a
    <2>1. c \in SEPARATOR /\ state = "VRFY_KEY" /\ matched = 0
      BY <1>1, <1>3 DEF GivenAt, KeyAt, Along
    <2>2. c \notin NEWLINE /\ c \notin COMMENT
      BY <2>1, Kinds
    <2>3. state' = "VRFY_KEY" /\ matched' = 0
      BY <1>1, <2>1, <2>2 DEF VerifyKey, WaitForValue, WaitForNewline, InValue
    <2> QED
      BY <1>1, <1>2, <1>3, <2>3 DEF Along
  <1>4. CASE a <= cpos /\ cpos < a + Len(key)
    <2>1. state = "VRFY_KEY" /\ matched = cpos - a
      BY <1>1, <1>2, <1>4 DEF Along
    <2>2. cpos - a + 1 \in 1 .. Len(key) /\ a + (cpos - a + 1) - 1 = cpos
      BY <1>1, <1>2, <1>4
    <2>3. c = key[cpos - a + 1]
      BY <1>1, <2>2 DEF GivenAt, KeyAt
    <2>4. c \notin NEWLINE /\ c \notin SEPARATOR /\ (matched = 0 => c \notin COMMENT)
      BY <1>1, <2>1, <2>2, <2>3, KeyKinds
    <2>5. state' = "VRFY_KEY" /\ matched' = matched + 1
      BY <1>1, <1>4, <2>1, <2>2, <2>3, <2>4 DEF VerifyKey, WaitForValue, WaitForNewline, InValue
    <2> QED
      BY <1>1, <1>2, <1>4, <2>1, <2>5 DEF Along
  <1>5. CASE cpos = a + Len(key)
    <2>1. state = "VRFY_KEY" /\ matched = Len(key)
      BY <1>1, <1>2, <1>5 DEF Along
    <2>2. c \in SEPARATOR /\ cpos < v
      BY <1>1, <1>5 DEF GivenAt, KeyAt
    <2>3. c \notin NEWLINE /\ c \notin COMMENT
      BY <2>2, Kinds
    <2>4. state' = "WF_VALUE"
      BY <1>1, <1>2, <2>1, <2>2, <2>3 DEF VerifyKey, WaitForValue, WaitForNewline, InValue, EndOfKey
    <2> QED
      BY <1>1, <1>2, <1>5, <2>2, <2>4 DEF Along
  <1>6. CASE a + Len(key) < cpos
    <2>1. state = "WF_VALUE"
      BY <1>6 DEF Along
    <2>2. cpos # v
      <3> SUFFICES ASSUME cpos = v PROVE FALSE
        OBVIOUS
      <3>1. c \notin NEWLINE \cup BLANK
        BY <1>1 DEF GivenAt
      <3>2. state' = "IN_VALUE"
        BY <1>1, <2>1, <3>1 DEF VerifyKey, WaitForValue, WaitForNewline, InValue
      <3> QED
        BY <3>2
    <2>3. cpos < v
      BY <1>1, <1>2, <2>2
    <2>4. c \in BLANK
      BY <1>1, <1>2, <1>6, <2>3 DEF GivenAt, KeyAt
    <2>5. c \notin NEWLINE
      BY <2>4, Kinds
    <2>6. state' = "WF_VALUE"
      BY <1>1, <2>1, <2>4, <2>5 DEF VerifyKey, WaitForValue, WaitForNewline, InValue
    <2> QED
      BY <1>1, <1>2, <1>6, <2>3, <2>6 DEF Along
  <1> QED
    BY <1>1, <1>2, <1>3, <1>4, <1>5, <1>6

\* which the end of a line begins.
LEMMA BeginsAlong ==
  ASSUME ConfTypes, NextChar, conf[cpos] \in NEWLINE, NEW a \in Nat, NEW v \in Nat,
         cpos + 1 <= a, a <= v, state' # "END"
  PROVE  Along(a, v)'
  <1>1. /\ cpos' = cpos + 1 /\ c \in NEWLINE /\ cpos \in Nat /\ asking # 0
        /\ VerifyKey \/ WaitForValue \/ WaitForNewline \/ InValue
    BY DEF NextChar, Reading, c, ConfTypes
  <1> HIDE DEF c
  <1>2. c \notin COMMENT /\ c \notin SEPARATOR
    BY <1>1, Kinds
  <1>3. state' = "VRFY_KEY" /\ matched' = 0
    <2>1. CASE VerifyKey
      BY <1>1, <1>2, <2>1 DEF VerifyKey
    <2>2. CASE WaitForValue
      BY <1>1, <1>2, <2>2 DEF WaitForValue, SEPARATOR
    <2>3. CASE WaitForNewline
      BY <1>1, <2>3 DEF WaitForNewline
    <2>4. CASE InValue
      BY <1>1, <2>4 DEF InValue
    <2> QED
      BY <1>1, <2>1, <2>2, <2>3, <2>4
  <1>4. cpos' <= a /\ cpos' <= v
    BY <1>1
  <1>5. Len(key') \in Nat
    BY <1>1, KeyIsAsked DEF NextChar, key
  <1> QED
    BY <1>1, <1>3, <1>4, <1>5 DEF Along

\* One more character keeps what a search rests on;
LEMMA NextKeepsFound ==
  ASSUME FoundInv, ConfTypes', NextChar
  PROVE  FoundInv'
  <1>1. /\ conf' = conf /\ cpos' = cpos + 1 /\ asking # 0 /\ asking' = asking /\ fd' = fd /\ lastpass' = lastpass
        /\ cpos \in 1 .. Len(conf) /\ Len(conf) \in Nat /\ ConfTypes /\ state # "END" /\ fd = TRUE
        /\ c = conf[cpos]
        /\ VerifyKey \/ WaitForValue \/ WaitForNewline \/ InValue
    BY DEF NextChar, Reading, AtEnd, c, FoundInv, ConfTypes
  <1> HIDE DEF c
  <1>2. state' \in {"IN_VALUE", "END"} => buf' # << >>
    <2>1. CASE VerifyKey
      BY <1>1, <2>1 DEF VerifyKey, EndOfKey
    <2>2. CASE WaitForValue
      <3>1. state' = "IN_VALUE" => buf' = <<c>>
        BY <1>1, <2>2 DEF WaitForValue
      <3>2. state' # "END"
        BY <1>1, <2>2 DEF WaitForValue
      <3> QED
        BY <1>1, <3>1, <3>2
    <2>3. CASE WaitForNewline
      BY <1>1, <2>3 DEF WaitForNewline
    <2>4. CASE InValue
      <3>1. buf # << >> /\ buf \in Seq(STRING) /\ c \in STRING
        BY <1>1, <2>4, ElementOfSeq DEF InValue, FoundInv, ConfTypes
      <3>2. Append(buf, c) # << >>
        BY <3>1, AppendProperties
      <3> QED
        BY <2>4, <3>1, <3>2 DEF InValue
    <2> QED
      BY <1>1, <2>1, <2>2, <2>3, <2>4
  <1>3. Followed'
    <2> SUFFICES ASSUME lastpass, state' \notin {"IN_VALUE", "END"},
                        NEW p \in 2 .. Len(conf), NEW a \in p .. Len(conf), NEW v \in p .. Len(conf),
                        StartOfLine(p)', GivenAt(p, key, a, v)', p <= cpos'
                 PROVE  Along(a, v)'
      BY <1>1 DEF Followed
    <2>1. StartOfLine(p) /\ GivenAt(p, key, a, v)
      BY <1>1 DEF StartOfLine, GivenAt, KeyAt, key
    <2>2. CASE p <= cpos
      <3>1. state # "IN_VALUE"
        BY <1>1, <1>2 DEF VerifyKey, WaitForValue, WaitForNewline, InValue
      <3>2. Along(a, v)
        BY <1>1, <2>1, <2>2, <3>1 DEF FoundInv, Followed
      <3> QED
        BY <1>1, <2>1, <2>2, <3>2, GoesAlong
    <2>3. CASE p = cpos + 1
      <3>1. conf[cpos] \in NEWLINE
        BY <1>1, <2>1, <2>3 DEF StartOfLine
      <3>2. a \in Nat /\ v \in Nat /\ cpos + 1 <= a /\ a <= v
        BY <1>1, <2>1, <2>3, KeyIsAsked DEF GivenAt, KeyAt
      <3> QED
        BY <1>1, <3>1, <3>2, BeginsAlong
    <2> QED
      BY <1>1, <2>2, <2>3
  <1> QED
    BY <1>1, <1>2, <1>3 DEF FoundInv

\* so does the end of the file, where nothing is left to go by.
LEMMA LastCharKeepsFound ==
  ASSUME FoundInv, ConfTypes', LastChar
  PROVE  FoundInv'
  <1>1. /\ conf' = conf /\ cpos' = cpos /\ asking # 0 /\ state # "END" /\ state' = "END" /\ asking' = asking
        /\ fd' = fd /\ buf' = buf /\ cpos > Len(conf) /\ (lastpass \/ state = "IN_VALUE")
        /\ Len(conf) \in Nat /\ cpos \in Nat
    BY DEF LastChar, Reading, AtEnd, FoundInv, ConfTypes
  <1>2. buf = << >> => Missed(key)
    <2> SUFFICES ASSUME buf = << >>,
                        NEW p \in 2 .. Len(conf), StartOfLine(p),
                        NEW a \in p .. Len(conf), NEW v \in p .. Len(conf), GivenAt(p, key, a, v)
                 PROVE  FALSE
      BY DEF Missed
    <2>1. lastpass /\ state # "IN_VALUE"
      BY <1>1 DEF FoundInv
    <2>2. p <= cpos /\ ~(cpos <= v)
      BY <1>1 DEF FoundInv, ConfTypes
    <2>3. Along(a, v)
      BY <1>1, <2>1, <2>2 DEF FoundInv, Followed
    <2> QED
      BY <2>2, <2>3 DEF Along
  <1>3. Missed(key)' <=> Missed(key)
    BY <1>1 DEF Missed, StartOfLine, GivenAt, KeyAt, key
  <1>4. Followed'
    BY <1>1 DEF Followed
  <1> QED
    BY <1>1, <1>2, <1>3, <1>4 DEF FoundInv

(* Every step of read_conf_string() keeps what a search rests on.            *)
LEMMA StepKeepsFound ==
  ASSUME FoundInv, [ConfNext]_confvars
  PROVE  FoundInv'
  <1>1. ConfTypes' /\ ConfTypes
    BY StepTypes DEF FoundInv
  <1>2. CASE read_conf_string
    <2>1. /\ conf' = conf /\ cpos' = cpos /\ state' = "VRFY_KEY" /\ matched' = 0 /\ asking' # 0
          /\ fd' = TRUE /\ lastpass' = ~fd
      BY <1>1, <1>2, ConfAssumption DEF read_conf_string, LastPass, ConfTypes
    <2>2. Followed'
      <3> SUFFICES ASSUME lastpass', NEW p \in 2 .. Len(conf'), p <= cpos'
                   PROVE  FALSE
        BY DEF Followed
      <3>1. cpos = 1
        BY <2>1 DEF FoundInv
      <3> QED
        BY <1>1, <2>1, <3>1 DEF ConfTypes
    <2> QED
      BY <1>1, <2>1, <2>2 DEF FoundInv
  <1>3. CASE CannotOpen
    <2>1. cpos' = cpos /\ fd = FALSE /\ fd' = FALSE /\ asking' = 0
      BY <1>1, <1>3 DEF CannotOpen, ConfTypes
    <2> QED
      BY <1>1, <2>1 DEF FoundInv, Followed
  <1>4. CASE LastChar
    BY <1>1, <1>4, LastCharKeepsFound
  <1>5. CASE Rewound
    <2>1. cpos' = 1 /\ asking # 0 /\ asking' = asking /\ fd' = fd /\ state' = "WF_NEWLINE"
      BY <1>5 DEF Rewound, Reading
    <2>2. Followed'
      BY <2>1 DEF Followed
    <2> QED
      BY <1>1, <2>1, <2>2 DEF FoundInv
  <1>6. CASE NextChar
    BY <1>1, <1>6, NextKeepsFound
  <1>7. CASE Answered
    <2>1. /\ conf' = conf /\ cpos' = cpos /\ asking # 0 /\ asking' = 0 /\ asking = asked /\ asked' = asked
          /\ fd' = fd /\ state = "END" /\ answer' = buf
      BY <1>1, <1>7, KeyIsAsked DEF Answered
    <2>2. buf = << >> => Missed(Asked[asked])
      BY <2>1 DEF FoundInv, key
    <2>3. Missed(Asked[asked])' <=> Missed(Asked[asked])
      BY <2>1 DEF Missed, StartOfLine, GivenAt, KeyAt
    <2> QED
      BY <1>1, <2>1, <2>2, <2>3 DEF FoundInv, Followed
  <1>8. CASE UNCHANGED confvars
    <2>1. /\ conf' = conf /\ cpos' = cpos /\ asking' = asking /\ asked' = asked /\ state' = state /\ fd' = fd
          /\ matched' = matched /\ buf' = buf /\ answer' = answer /\ lastpass' = lastpass
      BY <1>8 DEF confvars
    <2>2. Followed'
      <3>1. \A p, a, v : /\ (StartOfLine(p)' <=> StartOfLine(p)) /\ (Along(a, v)' <=> Along(a, v))
                         /\ (GivenAt(p, key, a, v)' <=> GivenAt(p, key, a, v))
        BY <2>1 DEF Along, StartOfLine, GivenAt, KeyAt, key
      <3> QED
        BY <2>1, <3>1 DEF FoundInv, Followed
    <2>3. Missed(key)' <=> Missed(key)
      BY <2>1 DEF Missed, StartOfLine, GivenAt, KeyAt, key
    <2>4. Missed(Asked[asked])' <=> Missed(Asked[asked])
      BY <2>1 DEF Missed, StartOfLine, GivenAt, KeyAt
    <2> QED
      BY <1>1, <2>1, <2>2, <2>3, <2>4 DEF FoundInv
  <1> QED
    BY <1>2, <1>3, <1>4, <1>5, <1>6, <1>7, <1>8 DEF ConfNext

(* A key that has a value on any line but the first is found, wherever the   *)
(* last read stopped in the file: the search that starts again at its        *)
(* beginning goes by every character of that line (conf.c:71-83).            *)
THEOREM KeysAlwaysFound == Spec => []KeysAreFound
  <1>1. Init => FoundInv
    <2> SUFFICES ASSUME Init PROVE FoundInv
      OBVIOUS
    <2>1. ConfInit /\ ConfTypes
      BY StartTypes DEF Init
    <2> QED
      BY <2>1 DEF ConfInit, FoundInv, Followed
  <1>2. FoundInv /\ [Next]_vars => FoundInv'
    <2> SUFFICES ASSUME FoundInv, [Next]_vars PROVE FoundInv'
      OBVIOUS
    <2>1. [ConfNext]_confvars
      BY DEF Next, Configure, Format, vars
    <2> QED
      BY <2>1, StepKeepsFound
  <1>3. FoundInv => KeysAreFound
    BY Zenon DEF FoundInv, Missed, KeysAreFound
  <1> QED
    BY <1>1, <1>2, <1>3, PTL DEF Spec
-----------------------------------------------------------------------------
\* A set of numbers has a smallest one.
LEMMA Smallest ==
  ASSUME NEW T \in SUBSET Nat, T # {}
  PROVE  \E x \in T : \A y \in T : x <= y
  <1> DEFINE R == {ss \in Nat \X Nat : ss[1] < ss[2]}
  <1>1. IsWellFoundedOn(R, Nat)
    BY NatLessThanWellFounded DEF OpToRel
  <1> HIDE DEF R
  <1>2. PICK x \in T : \A y \in T : ~(<<y, x>> \in R)
    BY <1>1, WFMin
  <1>3. \A y \in T : x <= y
    <2> SUFFICES ASSUME NEW y \in T, ~(x <= y) PROVE FALSE
      OBVIOUS
    <2>1. x \in Nat /\ y \in Nat /\ y < x
      OBVIOUS
    <2>2. <<y, x>> \in R
      BY <2>1 DEF R
    <2> QED
      BY <1>2, <2>2
  <1> QED
    BY <1>3

\* The characters of a part of a sequence.
LEMMA PartOf ==
  ASSUME NEW s \in Seq(STRING), NEW a \in 1 .. Len(s) + 1, NEW e \in a - 1 .. Len(s)
  PROVE  /\ SubSeq(s, a, e) \in Seq(STRING) /\ Len(SubSeq(s, a, e)) = e - a + 1
         /\ \A x \in 1 .. e - a + 1 : SubSeq(s, a, e)[x] = s[a + x - 1]
  <1>1. a \in Int /\ e \in Int /\ \A x \in a .. e : s[x] \in STRING
    OBVIOUS
  <1> QED
    BY <1>1, SubSeqProperties

\* What fgets() reads: to the end of the line, of the file or of the buffer.
PieceEnds(e) ==
  /\ Piece = SubSeq(file, pos, e)
  /\ e - pos + 1 <= Chunk
  /\ \A x \in pos .. e - 1 : file[x] # LF
  /\ Ended => e = Len(file) /\ file[e] # LF
  /\ ~Ended /\ file[e] # LF => e - pos + 1 = Chunk

LEMMA RestIs ==
  ASSUME file \in Seq(STRING), pos \in 1 .. Len(file)
  PROVE  /\ Rest \in Seq(STRING) /\ Len(Rest) = Len(file) - pos + 1
         /\ \A x \in 1 .. Len(Rest) : Rest[x] = file[pos + x - 1]
         /\ \A x \in 1 .. Len(Rest) : SubSeq(Rest, 1, x) = SubSeq(file, pos, pos + x - 1)
         /\ LF \in ToSet(Rest) <=> \E x \in pos .. Len(file) : file[x] = LF
  <1>1. Len(file) \in Nat
    OBVIOUS
  <1>2. /\ Rest \in Seq(STRING) /\ Len(Rest) = Len(file) - pos + 1
        /\ \A x \in 1 .. Len(file) - pos + 1 : Rest[x] = file[pos + x - 1]
    BY <1>1, PartOf DEF Rest
  <1>3. \A x \in 1 .. Len(Rest) : SubSeq(Rest, 1, x) = SubSeq(file, pos, pos + x - 1)
    <2> SUFFICES ASSUME NEW x \in 1 .. Len(file) - pos + 1
                 PROVE  SubSeq(SubSeq(file, pos, Len(file)), 1, x) = SubSeq(file, pos, pos + x - 1)
      BY <1>2 DEF Rest
    <2>1. /\ Len(file) \in 1 .. Len(file) /\ 1 \in 1 .. Len(file) - pos + 1
          /\ pos + 1 - 1 = pos
      BY <1>1
    <2>2. SubSeq(SubSeq(file, pos, Len(file)), 1, x) = SubSeq(file, pos + 1 - 1, pos + x - 1)
      BY <2>1, SubSeqOfSubSeq
    <2> QED
      BY <2>1, <2>2
  <1>4. LF \in ToSet(Rest) <=> \E x \in pos .. Len(file) : file[x] = LF
    <2>1. ASSUME NEW x \in 1 .. Len(Rest), Rest[x] = LF
          PROVE  \E y \in pos .. Len(file) : file[y] = LF
      <3>1. pos + x - 1 \in pos .. Len(file)
        BY <1>1, <1>2
      <3> QED
        BY <1>2, <2>1, <3>1
    <2>2. ASSUME NEW x \in pos .. Len(file), file[x] = LF
          PROVE  \E y \in 1 .. Len(Rest) : Rest[y] = LF
      <3>1. x - pos + 1 \in 1 .. Len(Rest) /\ pos + (x - pos + 1) - 1 = x
        BY <1>1, <1>2
      <3> QED
        BY <1>2, <2>2, <3>1
    <2>3. LF \in ToSet(Rest) <=> \E x \in 1 .. Len(Rest) : Rest[x] = LF
      <3>1. DOMAIN Rest = 1 .. Len(Rest)
        BY <1>2
      <3> QED
        BY <3>1 DEF ToSet
    <2> QED
      BY <2>1, <2>2, <2>3
  <1> QED
    BY <1>2, <1>3, <1>4

LEMMA PieceIs ==
  ASSUME file \in Seq(STRING), pos \in 1 .. Len(file)
  PROVE  \E e \in pos .. Len(file) : PieceEnds(e)
  <1> DEFINE J == {x \in 1 .. Len(Rest) : Rest[x] = LF}
             n == Len(Rest)
  <1>1. Len(file) \in Nat /\ Chunk \in Nat \ {0} /\ n \in Nat \ {0} /\ n = Len(file) - pos + 1
    BY RestIs, IniAssumption
  <1>2. CASE J = {}
    <2>1. Piece = SubSeq(Rest, 1, IF n < Chunk THEN n ELSE Chunk)
      BY <1>2 DEF Piece, SelectInSeq
    <2>2. PICK y \in 1 .. n : y = (IF n < Chunk THEN n ELSE Chunk)
      BY <1>1
    <2>3. \A x \in pos .. Len(file) : file[x] # LF
      <3> SUFFICES ASSUME NEW x \in pos .. Len(file), file[x] = LF PROVE FALSE
        OBVIOUS
      <3>1. x - pos + 1 \in 1 .. n /\ pos + (x - pos + 1) - 1 = x
        BY <1>1
      <3>2. x - pos + 1 \in J
        BY <3>1, RestIs
      <3> QED
        BY <1>2, <3>2
    <2>4. Piece = SubSeq(file, pos, pos + y - 1)
      BY <2>1, <2>2, RestIs
    <2>5. Ended <=> n < Chunk
      BY <2>3, RestIs DEF Ended
    <2>6. pos + y - 1 \in pos .. Len(file)
      BY <1>1
    <2> HIDE DEF n
    <2>7. PieceEnds(pos + y - 1)
      BY <1>1, <2>2, <2>3, <2>4, <2>5, <2>6 DEF PieceEnds
    <2> QED
      BY <2>6, <2>7
  <1>3. CASE J # {}
    <2>1. PICK y \in J : \A z \in J : y <= z
      <3>1. J \in SUBSET Nat
        BY <1>1
      <3> HIDE DEF J
      <3> QED
        BY <1>3, <3>1, Smallest
    <2>2. Min(J) = y
      BY <2>1 DEF Min
    <2>3. Piece = IF y # 0 /\ y <= Chunk THEN SubSeq(Rest, 1, y)
                  ELSE SubSeq(Rest, 1, IF n < Chunk THEN n ELSE Chunk)
      BY <1>3, <2>2 DEF Piece, SelectInSeq
    <2>4. PICK z \in 1 .. n : z = (IF y <= Chunk THEN y ELSE Chunk)
      BY <1>1
    <2>5. Piece = SubSeq(Rest, 1, z)
      BY <1>1, <2>1, <2>3, <2>4
    <2>6. Piece = SubSeq(file, pos, pos + z - 1)
      BY <2>5, RestIs
    <2>7. /\ pos + z - 1 \in pos .. Len(file) /\ z <= Chunk /\ pos + z - 1 - pos + 1 = z
      BY <1>1, <2>4
    <2>8. ~Ended
      <3>1. Rest[y] = LF /\ y \in 1 .. Len(Rest)
        BY <2>1
      <3> QED
        BY <3>1, RestIs DEF Ended, ToSet
    <2>9. \A x \in pos .. pos + z - 1 - 1 : file[x] # LF
      <3> SUFFICES ASSUME NEW x \in pos .. pos + z - 1 - 1, file[x] = LF PROVE FALSE
        OBVIOUS
      <3>1. x - pos + 1 \in 1 .. n /\ pos + (x - pos + 1) - 1 = x /\ x - pos + 1 < y
        BY <1>1, <2>4
      <3>2. x - pos + 1 \in J
        BY <3>1, RestIs
      <3> QED
        BY <1>1, <2>1, <3>1, <3>2
    <2>10. file[pos + z - 1] # LF => z = Chunk
      <3>1. z # Chunk => z = y
        BY <2>4
      <3>2. file[pos + y - 1] = LF
        BY <2>1, RestIs
      <3> QED
        BY <3>1, <3>2
    <2> HIDE DEF n, J
    <2>11. PieceEnds(pos + z - 1)
      BY <2>6, <2>7, <2>8, <2>9, <2>10 DEF PieceEnds
    <2> QED
      BY <2>7, <2>11
  <1> QED
    BY <1>2, <1>3

\* A line without its end.
LEMMA CrlfIs ==
  ASSUME NEW s \in Seq(STRING), NEW a \in 1 .. Len(s), NEW e \in a .. Len(s)
  PROVE  remove_crlf(SubSeq(s, a, e)) =
           SubSeq(s, a, IF s[e] # LF THEN e ELSE IF e > a /\ s[e - 1] = CR THEN e - 2 ELSE e - 1)
  <1> DEFINE t == SubSeq(s, a, e)
  <1>1. Len(s) \in Nat /\ a \in Nat /\ e \in Nat
    OBVIOUS
  <1>2. t \in Seq(STRING) /\ Len(t) = e - a + 1 /\ t # << >>
    BY <1>1, PartOf, EmptySeq
  <1>3. Last(t) = s[e] /\ (e > a => t[Len(t) - 1] = s[e - 1])
    <2>1. \A x \in 1 .. e - a + 1 : t[x] = s[a + x - 1]
      BY <1>1, PartOf
    <2>2. e - a + 1 \in 1 .. e - a + 1 /\ a + (e - a + 1) - 1 = e
      BY <1>1
    <2>3. e > a => e - a \in 1 .. e - a + 1 /\ a + (e - a) - 1 = e - 1 /\ e - a + 1 - 1 = e - a
      BY <1>1
    <2> HIDE DEF t
    <2>4. Last(t) = s[e]
      BY <1>2, <2>1, <2>2 DEF Last
    <2>5. ASSUME e > a PROVE t[Len(t) - 1] = s[e - 1]
      BY <1>2, <2>1, <2>3, <2>5
    <2> QED
      BY <2>4, <2>5
  <1>4. \A y \in a - 1 .. e : SubSeq(t, 1, y - a + 1) = SubSeq(s, a, y)
    <2> SUFFICES ASSUME NEW y \in a - 1 .. e PROVE SubSeq(t, 1, y - a + 1) = SubSeq(s, a, y)
      OBVIOUS
    <2>1. CASE y = a - 1
      <3>1. y - a + 1 = 0 /\ y < a
        BY <1>1, <2>1
      <3>2. SubSeq(s, a, y) = << >>
        BY <1>1, <3>1, SubSeqEmpty
      <3> HIDE DEF t
      <3>3. SubSeq(t, 1, 0) = << >>
        BY SubSeqEmpty
      <3> QED
        BY <3>1, <3>2, <3>3
    <2>2. CASE y \in a .. e
      <3>1. /\ y - a + 1 \in 1 .. e - a + 1 /\ 1 \in 1 .. e - a + 1 /\ a + 1 - 1 = a
            /\ a + (y - a + 1) - 1 = y /\ e \in 1 .. Len(s)
        BY <1>1, <2>2
      <3>2. SubSeq(SubSeq(s, a, e), 1, y - a + 1) = SubSeq(s, a + 1 - 1, a + (y - a + 1) - 1)
        BY <3>1, SubSeqOfSubSeq
      <3> QED
        BY <3>1, <3>2
    <2> QED
      BY <1>1, <2>1, <2>2
  <1> HIDE DEF t
  <1>5. CASE s[e] # LF
    BY <1>2, <1>3, <1>5 DEF remove_crlf, t
  <1>6. CASE s[e] = LF /\ e > a /\ s[e - 1] = CR
    <2>1. Len(t) > 1 /\ Len(t) - 2 = e - 2 - a + 1 /\ e - 2 \in a - 1 .. e
      BY <1>1, <1>2, <1>6
    <2>2. remove_crlf(t) = SubSeq(t, 1, Len(t) - 2)
      BY <1>2, <1>3, <1>6, <2>1 DEF remove_crlf
    <2> QED
      BY <1>4, <1>6, <2>1, <2>2 DEF t
  <1>7. CASE s[e] = LF /\ ~(e > a /\ s[e - 1] = CR)
    <2>1. Len(t) > 1 <=> e > a
      BY <1>1, <1>2
    <2>2. Len(t) - 1 = e - 1 - a + 1 /\ e - 1 \in a - 1 .. e
      BY <1>1, <1>2
    <2>3. remove_crlf(t) = SubSeq(t, 1, Len(t) - 1)
      BY <1>2, <1>3, <1>7, <2>1 DEF remove_crlf, Front
    <2> QED
      BY <1>4, <1>7, <2>2, <2>3 DEF t
  <1> QED
    BY <1>5, <1>6, <1>7

\* The last line that was read.
LEMMA LineIs ==
  ASSUME file \in Seq(STRING), NEW s \in 1 .. Len(file), NEW e \in s .. Len(file),
         s = 1 \/ file[s - 1] = LF, \A x \in s .. e - 1 : file[x] # LF
  PROVE  LineBefore(e + 1) = SubSeq(file, s, e)
  <1>0. PICK p \in Nat : p = e + 1
    OBVIOUS
  <1> DEFINE E == {0} \cup {q \in 1 .. p - 2 : file[q] = LF}
  <1>1. Len(file) \in Nat /\ s \in Nat /\ e \in Nat /\ p \in Nat /\ p = e + 1
    BY <1>0
  <1>2. s - 1 \in E
    BY <1>1
  <1>3. \A q \in E : q \in Nat /\ q <= s - 1
    <2> SUFFICES ASSUME NEW q \in 1 .. p - 2, file[q] = LF PROVE q <= s - 1
      BY <1>1
    <2>1. q \notin s .. e - 1
      BY <1>1
    <2> QED
      BY <1>1, <2>1
  <1>6. LineBefore(p) = SubSeq(file, Max(E) + 1, p - 1)
    BY DEF LineBefore
  <1> HIDE DEF E
  <1>4. Max(E) = s - 1
    BY <1>1, <1>2, <1>3 DEF Max
  <1>5. s - 1 + 1 = s /\ p - 1 = e
    BY <1>1
  <1> QED
    BY <1>1, <1>4, <1>5, <1>6

\* Whole pieces leave nothing over.
LEMMA WholePieces ==
  ASSUME NEW x \in Nat, NEW n \in Nat \ {0}
  PROVE  (x * n) % n = 0
  <1>1. x * n \in Int /\ n \in Int
    OBVIOUS
  <1> DEFINE q == (x * n) \div n
             r == (x * n) % n
  <1>2. x * n = n * q + r /\ r \in 0 .. n - 1 /\ q \in Int
    BY <1>1
  <1> HIDE DEF q, r
  <1>3. n * (x - q) = r
    BY <1>2
  <1>4. CASE x - q >= 1
    <2>1. n * (x - q) >= n
      BY <1>2, <1>4
    <2> QED
      BY <1>2, <1>3, <2>1
  <1>5. CASE x - q <= -1
    <2>1. n * (x - q) <= -n
      BY <1>2, <1>5
    <2> QED
      BY <1>2, <1>3, <2>1
  <1>6. CASE x - q = 0
    BY <1>2, <1>3, <1>6 DEF r
  <1> QED
    BY <1>2, <1>4, <1>5, <1>6

(* Where the reader of rules is: at the beginning of a line, or after some   *)
(* whole pieces of one.                                                      *)
InLine(s, n) ==
  /\ s = 1 \/ file[s - 1] = LF
  /\ \A x \in s .. pos - 1 : file[x] # LF
  /\ string = SubSeq(file, s, pos - 1) /\ pos - s = n * Chunk

IsList(t) == \E S : t \in Seq(S)

IniInv ==
  /\ file \in Seq(STRING) /\ pos \in 1 .. Len(file) + 1 /\ eof \in BOOLEAN
  /\ reading \in {"closed", "line", "more", "done"}
  /\ IsList(atts)
  /\ reading = "closed" => pos = 1
  /\ reading = "line" /\ ~eof => pos = 1 \/ file[pos - 1] = LF
  /\ reading = "more" => \E s \in 1 .. pos - 1, n \in Nat : InLine(s, n)

LEMMA IniStarts == IniInit => IniInv
  <1> SUFFICES ASSUME IniInit PROVE IniInv
    OBVIOUS
  <1>1. << >> \in Seq(STRING) /\ Len(<< >>) = 0
    OBVIOUS
  <1>2. IsList(atts)
    BY <1>1 DEF IniInit, IsList
  <1>3. file \in Seq(STRING) /\ Len(file) = 0
    BY <1>1 DEF IniInit
  <1>4. pos = 1 /\ eof = FALSE /\ reading = "closed"
    BY DEF IniInit
  <1>5. pos \in 1 .. Len(file) + 1 /\ pos = 1
    BY <1>3, <1>4
  <1>6. eof \in BOOLEAN /\ reading \in {"closed", "line", "more", "done"}
    BY <1>4
  <1>7. reading # "more"
    BY <1>4
  <1> QED
    BY <1>2, <1>3, <1>5, <1>6, <1>7 DEF IniInv

\* What is said in a line is added to what was read.
LEMMA Added ==
  ASSUME IsList(atts), NEW t, AddAttribute(t)
  PROVE  /\ atts' = atts \o (IF t # << >> /\ Kept(get_attribute(t)) THEN <<get_attribute(t)>> ELSE << >>)
         /\ IsList(atts)'
  <1> DEFINE a == get_attribute(t)
  <1>0. PICK S : atts \in Seq(S)
    BY DEF IsList
  <1>1. atts \o << >> = atts
    BY <1>0, ConcatEmptySeq
  <1>2. atts \in Seq(S \cup {a}) /\ a \in S \cup {a}
    BY <1>0
  <1> HIDE DEF a
  <1>3. Append(atts, a) = atts \o <<a>> /\ Append(atts, a) \in Seq(S \cup {a})
    BY <1>2, AppendIsConcat, AppendProperties
  <1>4. atts' = IF t # << >> /\ Kept(a) THEN Append(atts, a) ELSE atts
    BY DEF AddAttribute, a
  <1>5. atts' = atts \o (IF t # << >> /\ Kept(a) THEN <<a>> ELSE << >>)
    BY <1>1, <1>3, <1>4
  <1>6. IsList(atts)'
    BY <1>0, <1>3, <1>4 DEF IsList
  <1> QED
    BY <1>5, <1>6 DEF a

\* What was read of a line is what it says.
LEMMA AddedIsSaid ==
  ASSUME IsList(atts), NEW line, AddAttribute(remove_crlf(line))
  PROVE  atts' = atts \o Said(line) /\ IsList(atts)'
  BY Added DEF Said

\* At the end of the file nothing is read.
LEMMA NothingLeft ==
  ASSUME file \in Seq(STRING), pos = Len(file) + 1
  PROVE  Rest = << >> /\ Ended /\ Len(Piece) = 0
  <1>1. Rest = << >>
    <2>1. Len(file) \in Nat
      OBVIOUS
    <2> QED
      BY <2>1, SubSeqEmpty DEF Rest
  <1>2. Len(<< >>) = 0 /\ Chunk \in Nat \ {0} /\ SubSeq(<< >>, 1, 0) = << >>
    BY IniAssumption, SubSeqEmpty
  <1>3. Ended
    BY <1>1, <1>2 DEF Ended, ToSet
  <1>4. {x \in 1 .. Len(Rest) : Rest[x] = LF} = {}
    BY <1>1, <1>2
  <1>5. Piece = SubSeq(Rest, 1, IF Len(Rest) < Chunk THEN Len(Rest) ELSE Chunk)
    BY <1>4 DEF Piece, SelectInSeq
  <1> QED
    BY <1>1, <1>2, <1>3, <1>5

\* What fgets() does where something is left.
LEMMA FgetsReads ==
  ASSUME file \in Seq(STRING), NEW e \in pos .. Len(file), PieceEnds(e), pos \in 1 .. Len(file), NEW old, Fgets(old)
  PROVE  /\ buffer' = SubSeq(file, pos, e) /\ pos' = e + 1 /\ eof' = Ended
         /\ IsFull(buffer') <=> Ended \/ file[e] = LF
  <1>1. Rest # << >>
    <2>1. Len(Rest) # 0
      BY RestIs
    <2> QED
      BY <2>1
  <1>2. /\ Len(SubSeq(file, pos, e)) = e - pos + 1 /\ SubSeq(file, pos, e) # << >>
        /\ SubSeq(file, pos, e)[e - pos + 1] = file[e]
    <2>1. /\ Len(SubSeq(file, pos, e)) = e - pos + 1
          /\ \A x \in 1 .. e - pos + 1 : SubSeq(file, pos, e)[x] = file[pos + x - 1]
      BY PartOf
    <2>2. e - pos + 1 \in 1 .. e - pos + 1 /\ pos + (e - pos + 1) - 1 = e
      OBVIOUS
    <2>3. Len(SubSeq(file, pos, e)) # 0
      BY <2>1, <2>2
    <2> QED
      BY <2>1, <2>2, <2>3
  <1>3. Piece = SubSeq(file, pos, e)
    BY DEF PieceEnds
  <1>4. buffer' = SubSeq(file, pos, e) /\ pos' = pos + (e - pos + 1) /\ eof' = Ended
    BY <1>1, <1>2, <1>3 DEF Fgets
  <1>5. Last(SubSeq(file, pos, e)) = file[e]
    BY <1>2 DEF Last
  <1> QED
    BY <1>2, <1>4, <1>5 DEF IsFull

LEMMA LineStep ==
  ASSUME IniInv, ReadLine
  PROVE  IniInv' /\ LineIsRead
  <1>1. /\ file \in Seq(STRING) /\ pos \in 1 .. Len(file) + 1 /\ Len(file) \in Nat /\ file' = file
        /\ reading = "line" /\ IsList(atts) /\ (pos = 1 \/ file[pos - 1] = LF) /\ Fgets(<< >>)
    BY DEF IniInv, ReadLine
  <1>2. CASE pos = Len(file) + 1
    <2>1. Rest = << >> /\ Ended /\ Len(Piece) = 0
      BY <1>1, <1>2, NothingLeft
    <2>2. buffer' = << >> /\ pos' = pos /\ eof' = TRUE
      BY <1>1, <2>1 DEF Fgets
    <2>3. AddAttribute(remove_crlf(buffer')) /\ reading' = reading
      BY <2>1 DEF ReadLine, IsFull
    <2>4. PICK line : line = buffer'
      OBVIOUS
    <2>5. IsList(atts)'
      BY <1>1, <2>3, <2>4, AddedIsSaid
    <2> QED
      BY <1>1, <2>2, <2>3, <2>5 DEF IniInv, LineIsRead
  <1>3. CASE pos # Len(file) + 1
    <2>1. pos \in 1 .. Len(file)
      BY <1>1, <1>3
    <2>2. PICK e \in pos .. Len(file) : PieceEnds(e)
      BY <1>1, <2>1, PieceIs
    <2>3. /\ buffer' = SubSeq(file, pos, e) /\ pos' = e + 1 /\ eof' = Ended
          /\ IsFull(buffer') <=> Ended \/ file[e] = LF
      BY <1>1, <2>1, <2>2, FgetsReads
    <2>4. pos' \in 1 .. Len(file) + 1 /\ pos' - 1 = e /\ Ended \in BOOLEAN
      BY <1>1, <2>1, <2>3 DEF Ended
    <2>5. CASE Ended \/ file[e] = LF
      <3>1. AddAttribute(remove_crlf(SubSeq(file, pos, e))) /\ reading' = reading
        BY <2>3, <2>5 DEF ReadLine
      <3>2. atts' = atts \o Said(SubSeq(file, pos, e)) /\ IsList(atts)'
        BY <1>1, <3>1, AddedIsSaid
      <3>3. LineBefore(e + 1) = SubSeq(file, pos, e)
        BY <1>1, <2>1, <2>2, LineIs DEF PieceEnds
      <3>4. LineIsRead
        BY <2>3, <3>2, <3>3 DEF LineIsRead
      <3>5. IniInv'
        BY <1>1, <2>3, <2>4, <2>5, <3>1, <3>2 DEF IniInv
      <3> QED
        BY <3>4, <3>5
    <2>6. CASE ~(Ended \/ file[e] = LF)
      <3>1. string' = buffer' /\ reading' = "more" /\ atts' = atts
        BY <2>3, <2>6 DEF ReadLine
      <3>2. PICK s \in 1 .. pos' - 1 : s = pos
        BY <2>1, <2>3
      <3>3. e - pos + 1 = Chunk /\ \A x \in pos .. e : file[x] # LF
        BY <1>1, <2>1, <2>2, <2>6 DEF PieceEnds
      <3>4. pos' - s = 1 * Chunk
        BY <2>1, <2>3, <3>2, <3>3, IniAssumption
      <3>5. InLine(s, 1)'
        BY <1>1, <2>3, <2>4, <3>1, <3>2, <3>3, <3>4 DEF InLine
      <3>6. IniInv'
        BY <1>1, <2>3, <2>4, <3>1, <3>5 DEF IniInv, IsList
      <3> QED
        BY <3>1, <3>6 DEF LineIsRead
    <2> QED
      BY <2>5, <2>6
  <1> QED
    BY <1>2, <1>3

\* The end of a long line, added to its beginning: what the line says, unless
\* its CR ends the piece before.
LEMMA LastPiece ==
  ASSUME file \in Seq(STRING), pos \in 1 .. Len(file), NEW e \in pos .. Len(file),
         NEW s \in 1 .. pos - 1, NEW n \in Nat, InLine(s, n)
  PROVE  \/ Joined(remove_crlf(SubSeq(file, pos, e))) = remove_crlf(SubSeq(file, s, e))
         \/ IsTorn(SubSeq(file, s, e))
  <1> DEFINE x == IF file[e] # LF THEN e ELSE IF e > pos /\ file[e - 1] = CR THEN e - 2 ELSE e - 1
             y == IF file[e] # LF THEN e ELSE IF e > s /\ file[e - 1] = CR THEN e - 2 ELSE e - 1
             line == SubSeq(file, s, e)
  <1>1. /\ Len(file) \in Nat /\ s \in 1 .. Len(file) /\ e \in s .. Len(file) /\ e > s
        /\ pos - 1 + 1 = pos /\ pos - 1 \in s - 1 .. Len(file)
    OBVIOUS
  <1>2. /\ remove_crlf(SubSeq(file, pos, e)) = SubSeq(file, pos, x)
        /\ remove_crlf(line) = SubSeq(file, s, y)
    BY <1>1, CrlfIs
  <1>3. x \in pos - 1 .. Len(file)
    BY <1>1
  <1>4. x = y \/ (e = pos /\ file[e] = LF /\ file[e - 1] = CR)
    BY <1>1
  <1>5. string = SubSeq(file, s, pos - 1) /\ pos - s = n * Chunk
    BY DEF InLine
  <1> HIDE DEF x, y
  <1>6. SubSeq(file, s, pos - 1) \o SubSeq(file, pos - 1 + 1, x) = SubSeq(file, s, x)
    BY <1>1, <1>3, ConcatAdjacentSubSeq
  <1>7. Joined(remove_crlf(SubSeq(file, pos, e))) = SubSeq(file, s, x)
    BY <1>1, <1>2, <1>5, <1>6 DEF Joined
  <1>8. CASE x = y
    BY <1>2, <1>7, <1>8
  <1>9. CASE e = pos /\ file[e] = LF /\ file[e - 1] = CR
    <2>1. /\ Len(line) = e - s + 1
          /\ \A z \in 1 .. e - s + 1 : line[z] = file[s + z - 1]
      BY <1>1, PartOf
    <2>2. /\ e - s + 1 \in 1 .. e - s + 1 /\ s + (e - s + 1) - 1 = e
          /\ e - s \in 1 .. e - s + 1 /\ s + (e - s) - 1 = e - 1
          /\ e - s + 1 - 1 = e - s /\ e - s + 1 > 1
      BY <1>1
    <2> HIDE DEF line
    <2>3. /\ Len(line) > 1 /\ line[Len(line)] = LF /\ line[Len(line) - 1] = CR
          /\ Len(line) - 1 = n * Chunk
      BY <1>5, <1>9, <2>1, <2>2
    <2>4. (n * Chunk) % Chunk = 0
      BY WholePieces, IniAssumption
    <2>5. line # << >>
      <3>1. Len(<< >>) = 0
        OBVIOUS
      <3> QED
        BY <2>3, <3>1
    <2>6. IsTorn(line)
      BY <2>3, <2>4, <2>5 DEF IsTorn, Last
    <2> QED
      BY <2>6 DEF line
  <1> QED
    BY <1>4, <1>8, <1>9

LEMMA MoreStep ==
  ASSUME IniInv, ReadMore
  PROVE  IniInv' /\ LineIsRead
  <1>1. /\ file \in Seq(STRING) /\ pos \in 1 .. Len(file) + 1 /\ Len(file) \in Nat /\ file' = file
        /\ reading = "more" /\ IsList(atts) /\ Fgets(buffer)
        /\ string' = Joined(remove_crlf(buffer'))
    BY DEF IniInv, ReadMore
  <1>2. CASE pos = Len(file) + 1
    <2>1. Rest = << >> /\ Ended /\ Len(Piece) = 0
      BY <1>1, <1>2, NothingLeft
    <2>2. pos' = pos /\ eof' = TRUE
      BY <1>1, <2>1 DEF Fgets
    <2>3. AddAttribute(string') /\ reading' = "line"
      BY <2>1 DEF ReadMore, IsFull
    <2>4. PICK line : line = string'
      OBVIOUS
    <2>5. IsList(atts)'
      BY <1>1, <2>3, <2>4, Added
    <2> QED
      BY <1>1, <2>2, <2>3, <2>5 DEF IniInv, LineIsRead
  <1>3. CASE pos # Len(file) + 1
    <2>1. pos \in 1 .. Len(file)
      BY <1>1, <1>3
    <2>2. PICK e \in pos .. Len(file) : PieceEnds(e)
      BY <1>1, <2>1, PieceIs
    <2>3. /\ buffer' = SubSeq(file, pos, e) /\ pos' = e + 1 /\ eof' = Ended
          /\ IsFull(buffer') <=> Ended \/ file[e] = LF
      BY <1>1, <2>1, <2>2, FgetsReads
    <2>4. pos' \in 1 .. Len(file) + 1 /\ pos' - 1 = e /\ Ended \in BOOLEAN
      BY <1>1, <2>1, <2>3 DEF Ended
    <2>5. PICK s \in 1 .. pos - 1, n \in Nat : InLine(s, n)
      BY <1>1 DEF IniInv
    <2>6. \/ string' = remove_crlf(SubSeq(file, s, e))
          \/ IsTorn(SubSeq(file, s, e))
      BY <1>1, <2>1, <2>3, <2>5, LastPiece
    <2>7. /\ s = 1 \/ file[s - 1] = LF
          /\ \A x \in s .. e - 1 : file[x] # LF
      BY <1>1, <2>1, <2>2, <2>5 DEF InLine, PieceEnds
    <2>8. CASE Ended \/ file[e] = LF
      <3>1. AddAttribute(string') /\ reading' = "line"
        BY <2>3, <2>8 DEF ReadMore
      <3>2. PICK t : t = string'
        OBVIOUS
      <3>3. IsList(atts)'
        BY <1>1, <3>1, <3>2, Added
      <3>4. string' = remove_crlf(SubSeq(file, s, e)) => atts' = atts \o Said(SubSeq(file, s, e))
        BY <1>1, <3>1, AddedIsSaid
      <3>5. s \in 1 .. Len(file) /\ e \in s .. Len(file)
        BY <1>1, <2>1
      <3>6. LineBefore(e + 1) = SubSeq(file, s, e)
        BY <1>1, <2>7, <3>5, LineIs
      <3>7. LineIsRead
        BY <2>3, <2>6, <3>4, <3>6 DEF LineIsRead
      <3>8. IniInv'
        BY <1>1, <2>3, <2>4, <2>8, <2>2, <3>1, <3>3 DEF IniInv, PieceEnds
      <3> QED
        BY <3>7, <3>8
    <2>9. CASE ~(Ended \/ file[e] = LF)
      <3>1. atts' = atts /\ reading' = reading
        BY <2>3, <2>9 DEF ReadMore
      <3>2. e - pos + 1 = Chunk /\ \A x \in s .. e : file[x] # LF
        BY <1>1, <2>1, <2>2, <2>7, <2>9 DEF PieceEnds
      <3>3. s \in 1 .. pos' - 1 /\ n + 1 \in Nat
        BY <2>1, <2>3
      <3>4. pos' - s = (n + 1) * Chunk
        <4>1. pos - s = n * Chunk /\ Chunk \in Nat
          BY <2>5, IniAssumption DEF InLine
        <4>2. (n + 1) * Chunk = n * Chunk + Chunk
          BY <4>1
        <4> QED
          BY <2>1, <2>3, <3>2, <4>1, <4>2
      <3>5. string' = SubSeq(file, s, e)
        <4>1. /\ SubSeq(file, s, pos - 1) \o SubSeq(file, pos - 1 + 1, e) = SubSeq(file, s, e)
              /\ pos - 1 + 1 = pos
          BY <1>1, <2>1, ConcatAdjacentSubSeq
        <4>2. remove_crlf(SubSeq(file, pos, e)) = SubSeq(file, pos, e)
          BY <1>1, <2>1, <2>9, CrlfIs
        <4>3. string = SubSeq(file, s, pos - 1)
          BY <2>5 DEF InLine
        <4> QED
          BY <1>1, <2>3, <4>1, <4>2, <4>3 DEF Joined
      <3>6. InLine(s, n + 1)'
        BY <1>1, <2>3, <2>4, <2>7, <3>2, <3>4, <3>5 DEF InLine
      <3>7. IniInv'
        BY <1>1, <2>3, <2>4, <3>1, <3>3, <3>6 DEF IniInv, IsList
      <3> QED
        BY <1>1, <3>1, <3>7 DEF LineIsRead
    <2> QED
      BY <2>8, <2>9
  <1> QED
    BY <1>2, <1>3

LEMMA ReaderStep ==
  ASSUME IniInv, [IniNext]_inivars
  PROVE  IniInv' /\ [LineIsRead]_inivars
  <1>1. CASE OpenFile
    <2>1. reading' = "line" /\ pos' = pos /\ atts' = atts /\ eof' = eof /\ pos = 1
      BY <1>1 DEF OpenFile, IniInv
    <2>2. file' \in Seq(STRING)
      BY <1>1, IniAssumption DEF OpenFile
    <2>3. pos' \in 1 .. Len(file') + 1
      BY <2>1, <2>2
    <2> QED
      BY <2>1, <2>2, <2>3 DEF IniInv, IsList, LineIsRead
  <1>2. CASE EndOfFile
    BY <1>2 DEF EndOfFile, IniInv, IsList, LineIsRead
  <1>3. CASE UNCHANGED inivars
    <2>1. IniInv'
      BY <1>3 DEF inivars, IniInv, IsList, InLine
    <2> QED
      BY <1>3, <2>1
  <1> QED
    BY <1>1, <1>2, <1>3, LineStep, MoreStep DEF IniNext

(* Whatever the length of a line of rules, and of the pieces fgets() reads,   *)
(* what is read of it is what it says, unless the edge of a piece tears it    *)
(* (ini.c:112-169).                                                           *)
THEOREM LinesAlwaysRead == Spec => LinesAreRead
  <1>1. Init => IniInv
    BY IniStarts DEF Init, FormatterInit
  <1>2. IniInv /\ [Next]_vars => IniInv' /\ [LineIsRead]_inivars
    <2> SUFFICES ASSUME IniInv, [Next]_vars PROVE [IniNext]_inivars
      BY ReaderStep
    <2>1. CASE Configure
      BY <2>1 DEF Configure, fvars
    <2>2. CASE Format
      <3>1. CASE ReadRules
        BY <3>1 DEF ReadRules
      <3>2. CASE parser_get_config \/ ConfigRead \/ Begin \/ Continue
        BY <3>2 DEF parser_get_config, ConfigRead, Begin, Continue
      <3>3. CASE CreateParts \/ PartsCreated \/ associate_links \/ force_close_tags \/ EndOfPass
        BY <3>3 DEF CreateParts, PartsCreated, associate_links, force_close_tags, EndOfPass
      <3>4. CASE CheckAt \/ CalledNick \/ NoMoreNick \/ CheckReduceLink \/ parser_parse_messages
        BY <3>4 DEF CheckAt, CalledNick, NoMoreNick, CheckReduceLink, parser_parse_messages
      <3> QED
        BY <2>2, <3>1, <3>2, <3>3, <3>4 DEF Format, FormatterNext
    <2>3. CASE UNCHANGED vars
      BY <2>3 DEF vars, fvars
    <2> QED
      BY <2>1, <2>2, <2>3 DEF Next
  <1> QED
    BY <1>1, <1>2, PTL DEF Spec, LinesAreRead

-----------------------------------------------------------------------------
(* The parts of a message, as records and in their list.                   *)

IsPart(x) ==
  x = [id |-> x.id, type |-> x.type, data |-> x.data, attributes |-> x.attributes, link |-> x.link]

WithLink(y, x, v) == y = [x EXCEPT !.link = v]

LEMMA LinkUpdated ==
  ASSUME NEW x, IsPart(x), NEW v, NEW y, WithLink(y, x, v)
  PROVE  /\ IsPart(y) /\ y.link = v
         /\ y.id = x.id /\ y.type = x.type /\ y.data = x.data /\ y.attributes = x.attributes
  <1>1. y = [id |-> x.id, type |-> x.type, data |-> x.data, attributes |-> x.attributes, link |-> v]
    BY DEF IsPart, WithLink
  <1> QED
    BY <1>1 DEF IsPart

WithData(y, x, v) == y = [x EXCEPT !.data = v]

LEMMA DataUpdated ==
  ASSUME NEW x, IsPart(x), NEW v, NEW y, WithData(y, x, v)
  PROVE  /\ IsPart(y) /\ y.data = v
         /\ y.id = x.id /\ y.type = x.type /\ y.link = x.link /\ y.attributes = x.attributes
  <1>1. y = [id |-> x.id, type |-> x.type, data |-> v, attributes |-> x.attributes, link |-> x.link]
    BY DEF IsPart, WithData
  <1> QED
    BY <1>1 DEF IsPart

WithAttributes(y, x, v) == y = [x EXCEPT !.attributes = v]

LEMMA AttributesUpdated ==
  ASSUME NEW x, IsPart(x), NEW v, NEW y, WithAttributes(y, x, v)
  PROVE  /\ IsPart(y) /\ y.attributes = v
         /\ y.id = x.id /\ y.type = x.type /\ y.link = x.link /\ y.data = x.data
  <1>1. y = [id |-> x.id, type |-> x.type, data |-> x.data, attributes |-> v, link |-> x.link]
    BY DEF IsPart, WithAttributes
  <1> QED
    BY <1>1 DEF IsPart

\* What names a tag has none of the symbols that texts are looked for, and names
\* the closing part made for it as well.
IsName(s) ==
  IsList(s) /\ IsPlain(s) /\ \A x \in 1 .. Len(s) : s[x] \notin {AT, COMMA, DOTS}

\* The parts have numbers of their own, from 1 to k.
PartsOk(L, k) ==
  /\ IsList(L)
  /\ \A p \in 1 .. Len(L) :
       /\ IsPart(L[p]) /\ L[p].id \in 1 .. k
       /\ L[p].type \in {"OPENING", "CLOSING", "MESSAGE"}
       /\ L[p].type = "MESSAGE" => L[p].link = 0
       /\ L[p].type # "MESSAGE" => IsName(L[p].data)
  /\ \A p, q \in 1 .. Len(L) : L[p].id = L[q].id => p = q

IsPair(L, p, q) ==
  /\ p \in 1 .. Len(L) /\ q \in 1 .. Len(L) /\ p < q
  /\ IsOpening(L[p]) /\ IsClosing(L[q])
  /\ L[p].link = L[q].id /\ L[q].link = L[p].id
  /\ L[p].data = L[q].data

Mutual(L) ==
  \A p \in 1 .. Len(L) : L[p].link # 0 => \E q \in 1 .. Len(L) : IsPair(L, p, q) \/ IsPair(L, q, p)

Nests(L) ==
  \A p, q, r, s \in 1 .. Len(L) : IsPair(L, p, q) /\ IsPair(L, r, s) /\ p < r /\ r < q => s < q

\* What is between an opening and a closing span that did not take it.
Barred(L, p, q) ==
  L[q].data = <<"span">> =>
    \E x \in p + 1 .. q - 1 : IsOpening(L[x]) /\ L[x].data # <<"span">>

Strays(L) ==
  \A p, q, r \in 1 .. Len(L) :
    IsPair(L, p, r) /\ p < q /\ q < r /\ IsClosing(L[q]) /\ L[q].link = 0 => Barred(L, p, q)

Opened(L, k) == \A p \in 1 .. k : IsOpening(L[p]) => L[p].link # 0

Ok(L, k) == PartsOk(L, k) /\ Mutual(L) /\ Nests(L) /\ Strays(L)

\* M is L without some pairs and texts, some pairs having changed names.
Thins(M, L, g) ==
  /\ IsList(M) /\ g \in [1 .. Len(M) -> 1 .. Len(L)]
  /\ \A x, y \in 1 .. Len(M) : x < y => g[x] < g[y]
  /\ \A x \in 1 .. Len(M) :
       /\ IsPart(M[x]) /\ M[x].id = L[g[x]].id /\ M[x].type = L[g[x]].type /\ M[x].link = L[g[x]].link
       /\ M[x].type # "MESSAGE" => IsName(M[x].data)
       /\ IsClosing(M[x]) /\ M[x].data = <<"span">> => L[g[x]].data = <<"span">>
       /\ \A q \in 1 .. Len(L) : IsPair(L, g[x], q) \/ IsPair(L, q, g[x]) =>
            \E y \in 1 .. Len(M) : g[y] = q /\ M[y].data = M[x].data
  /\ \A p \in 1 .. Len(L) : IsOpening(L[p]) /\ L[p].data # <<"span">> =>
       \E x \in 1 .. Len(M) : g[x] = p /\ M[x].data # <<"span">>

LEMMA OnlyPair ==
  ASSUME NEW L, NEW k, PartsOk(L, k), NEW p, NEW q, NEW r,
         IsPair(L, p, q) \/ IsPair(L, q, p), IsPair(L, p, r) \/ IsPair(L, r, p)
  PROVE  q = r
  BY DEF PartsOk, IsPair

LEMMA SamePairs ==
  ASSUME NEW L, NEW M, NEW g, NEW k \in Nat, PartsOk(L, k), Mutual(L), Thins(M, L, g), NEW x, NEW y
  PROVE  IsPair(M, x, y) => IsPair(L, g[x], g[y])
  <1> SUFFICES ASSUME IsPair(M, x, y) PROVE IsPair(L, g[x], g[y])
    OBVIOUS
  <1>1. /\ x \in 1 .. Len(M) /\ y \in 1 .. Len(M) /\ x < y /\ g[x] < g[y]
        /\ g[x] \in 1 .. Len(L) /\ g[y] \in 1 .. Len(L)
    BY DEF IsPair, Thins
  <1>2. /\ L[g[x]].link = L[g[y]].id /\ L[g[y]].link = L[g[x]].id
        /\ IsOpening(L[g[x]])
    BY <1>1 DEF IsPair, Thins, IsOpening
  <1>3. L[g[x]].link # 0
    BY <1>1, <1>2 DEF PartsOk
  <1>4. PICK q \in 1 .. Len(L) : IsPair(L, g[x], q) \/ IsPair(L, q, g[x])
    BY <1>1, <1>3 DEF Mutual
  <1>5. IsPair(L, g[x], q)
    BY <1>2, <1>4 DEF IsPair, IsOpening, IsClosing
  <1>6. L[q].id = L[g[y]].id
    BY <1>2, <1>5 DEF IsPair
  <1>7. q = g[y]
    BY <1>1, <1>6 DEF PartsOk
  <1> QED
    BY <1>5, <1>7

LEMMA Thinned ==
  ASSUME NEW L, NEW M, NEW g, NEW k \in Nat, Ok(L, k), Thins(M, L, g)
  PROVE  Ok(M, k)
  <1> DEFINE n == Len(M)
  <1>0. n \in Nat /\ Len(L) \in Nat
    BY DEF Ok, PartsOk, Thins, IsList
  <1>1. /\ \A x \in 1 .. n : g[x] \in 1 .. Len(L)
        /\ \A x, y \in 1 .. n : (x < y <=> g[x] < g[y]) /\ (g[x] = g[y] => x = y)
    <2>1. \A x \in 1 .. n : g[x] \in 1 .. Len(L)
      BY DEF Thins
    <2>2. \A x, y \in 1 .. n : x < y => g[x] < g[y]
      BY DEF Thins
    <2> HIDE DEF n
    <2> QED
      BY <1>0, <2>1, <2>2
  <1>2. PartsOk(M, k)
    <2>1. ASSUME NEW x \in 1 .. n
          PROVE  /\ IsPart(M[x]) /\ M[x].id \in 1 .. k
                 /\ M[x].type \in {"OPENING", "CLOSING", "MESSAGE"}
                 /\ M[x].type = "MESSAGE" => M[x].link = 0
                 /\ M[x].type # "MESSAGE" => IsName(M[x].data)
      <3>1. /\ L[g[x]].id \in 1 .. k /\ L[g[x]].type \in {"OPENING", "CLOSING", "MESSAGE"}
            /\ L[g[x]].type = "MESSAGE" => L[g[x]].link = 0
        BY <1>1 DEF Ok, PartsOk
      <3> QED
        BY <3>1 DEF Thins
    <2>2. ASSUME NEW x \in 1 .. n, NEW y \in 1 .. n, M[x].id = M[y].id PROVE x = y
      <3>1. L[g[x]].id = L[g[y]].id
        BY <2>2 DEF Thins
      <3>2. g[x] = g[y]
        BY <1>1, <3>1 DEF Ok, PartsOk
      <3> QED
        BY <1>1, <3>2
    <2>3. IsList(M)
      BY DEF Thins
    <2> QED
      BY <2>1, <2>2, <2>3 DEF PartsOk
  <1>3. Mutual(M)
    <2> SUFFICES ASSUME NEW x \in 1 .. n, M[x].link # 0
                 PROVE  \E y \in 1 .. n : IsPair(M, x, y) \/ IsPair(M, y, x)
      BY DEF Mutual
    <2>1. L[g[x]].link # 0
      BY DEF Thins
    <2>2. PICK q \in 1 .. Len(L) : IsPair(L, g[x], q) \/ IsPair(L, q, g[x])
      BY <1>1, <2>1 DEF Ok, Mutual
    <2>3. PICK y \in 1 .. n : g[y] = q /\ M[y].data = M[x].data
      BY <2>2 DEF Thins
    <2>4. /\ M[x].id = L[g[x]].id /\ M[x].type = L[g[x]].type /\ M[x].link = L[g[x]].link
          /\ M[y].id = L[q].id /\ M[y].type = L[q].type /\ M[y].link = L[q].link
      BY <2>3 DEF Thins
    <2>5. CASE IsPair(L, g[x], q)
      BY <1>1, <2>3, <2>4, <2>5 DEF IsPair, IsOpening, IsClosing
    <2>6. CASE IsPair(L, q, g[x])
      BY <1>1, <2>3, <2>4, <2>6 DEF IsPair, IsOpening, IsClosing
    <2> QED
      BY <2>2, <2>5, <2>6
  <1>4. \A x, y \in 1 .. n : IsPair(M, x, y) => IsPair(L, g[x], g[y])
    BY SamePairs DEF Ok
  <1>5. Nests(M)
    <2> SUFFICES ASSUME NEW p \in 1 .. n, NEW q \in 1 .. n, NEW r \in 1 .. n, NEW s \in 1 .. n,
                        IsPair(M, p, q), IsPair(M, r, s), p < r, r < q
                 PROVE  s < q
      BY DEF Nests
    <2> HIDE DEF n
    <2>1. g[s] < g[q]
      BY <1>1, <1>4 DEF Ok, Nests
    <2> QED
      BY <1>1, <2>1
  <1>6. Strays(M)
    <2> SUFFICES ASSUME NEW p \in 1 .. n, NEW q \in 1 .. n, NEW r \in 1 .. n,
                        IsPair(M, p, r), p < q, q < r, IsClosing(M[q]), M[q].link = 0,
                        M[q].data = <<"span">>
                 PROVE  \E x \in p + 1 .. q - 1 : IsOpening(M[x]) /\ M[x].data # <<"span">>
      BY DEF Strays, Barred
    <2>1. IsClosing(L[g[q]]) /\ L[g[q]].link = 0 /\ L[g[q]].data = <<"span">>
      BY DEF Thins, IsClosing
    <2>2. IsPair(L, g[p], g[r]) /\ g[p] < g[q] /\ g[q] < g[r]
      BY <1>1, <1>4
    <2>3. Barred(L, g[p], g[q])
      BY <1>1, <2>1, <2>2 DEF Ok, Strays
    <2>4. PICK t \in g[p] + 1 .. g[q] - 1 : IsOpening(L[t]) /\ L[t].data # <<"span">>
      BY <2>1, <2>3 DEF Barred
    <2>5. t \in 1 .. Len(L) /\ g[p] < t /\ t < g[q]
      BY <1>0, <1>1, <2>4
    <2>6. PICK x \in 1 .. n : g[x] = t /\ M[x].data # <<"span">>
      BY <2>4, <2>5 DEF Thins
    <2>7. IsOpening(M[x])
      BY <2>4, <2>6 DEF Thins, IsOpening
    <2>8. p < x /\ x < q
      BY <1>1, <2>5, <2>6
    <2>9. x \in p + 1 .. q - 1
      BY <1>0, <2>8
    <2> QED
      BY <2>6, <2>7, <2>9
  <1> QED
    BY <1>2, <1>3, <1>5, <1>6 DEF Ok

LEMMA OpenedThinned ==
  ASSUME NEW L, NEW M, NEW g, Opened(L, Len(L)), Thins(M, L, g)
  PROVE  Opened(M, Len(M))
  <1> SUFFICES ASSUME NEW x \in 1 .. Len(M), IsOpening(M[x]) PROVE M[x].link # 0
    BY DEF Opened
  <1>1. g[x] \in 1 .. Len(L) /\ M[x].type = L[g[x]].type /\ M[x].link = L[g[x]].link
    BY DEF Thins
  <1> QED
    BY <1>1 DEF Opened, IsOpening

\* Only texts were changed, and attributes.
SameTags(M, L) ==
  /\ IsList(M) /\ Len(M) = Len(L)
  /\ \A x \in 1 .. Len(L) :
       /\ IsPart(M[x]) /\ M[x].id = L[x].id /\ M[x].type = L[x].type /\ M[x].link = L[x].link
       /\ M[x].type # "MESSAGE" => M[x].data = L[x].data

LEMMA TextsChanged ==
  ASSUME NEW L, NEW M, NEW k \in Nat, Ok(L, k), Opened(L, Len(L)), SameTags(M, L)
  PROVE  Ok(M, k) /\ Opened(M, Len(M))
  <1> DEFINE g == [x \in 1 .. Len(M) |-> x]
  <1>1. /\ IsList(M) /\ Len(M) = Len(L) /\ Len(M) \in Nat
        /\ \A x \in 1 .. Len(M) : g[x] = x
        /\ g \in [1 .. Len(M) -> 1 .. Len(L)]
    BY DEF SameTags, IsList
  <1> HIDE DEF g
  <1>2. ASSUME NEW x \in 1 .. Len(M)
        PROVE  /\ IsPart(M[x]) /\ M[x].id = L[g[x]].id /\ M[x].type = L[g[x]].type /\ M[x].link = L[g[x]].link
               /\ M[x].type # "MESSAGE" => IsName(M[x].data) /\ M[x].data = L[g[x]].data
    BY <1>1 DEF SameTags, Ok, PartsOk
  <1>3. ASSUME NEW x \in 1 .. Len(M), NEW q \in 1 .. Len(L), IsPair(L, g[x], q) \/ IsPair(L, q, g[x])
        PROVE  g[q] = q /\ M[q].data = M[x].data
    <2>1. L[q].data = L[x].data /\ L[q].type # "MESSAGE" /\ L[x].type # "MESSAGE"
      BY <1>1, <1>3 DEF IsPair, IsOpening, IsClosing
    <2> QED
      BY <1>1, <1>2, <2>1
  <1>4. ASSUME NEW p \in 1 .. Len(L), IsOpening(L[p]), L[p].data # <<"span">>
        PROVE  g[p] = p /\ M[p].data # <<"span">>
    BY <1>1, <1>2, <1>4 DEF IsOpening
  <1>5. \A x, y \in 1 .. Len(M) : x < y => g[x] < g[y]
    BY <1>1
  <1>6. \A x \in 1 .. Len(M) : IsClosing(M[x]) /\ M[x].data = <<"span">> => L[g[x]].data = <<"span">>
    BY <1>2 DEF IsClosing
  <1>7. Thins(M, L, g)
    BY <1>1, <1>2, <1>3, <1>4, <1>5, <1>6 DEF Thins
  <1> QED
    BY <1>7, Thinned, OpenedThinned

\* The place that follows a removal had in the list before it.
Moved(x, from, to) == IF x < from THEN x ELSE x + (to - from + 1)

\* An identifier of one of the parts removed.
Gone(L, v, from, to) == \E p \in from .. to : v = L[p].id

\* A part that stays, its link broken when it is to one of them.
Copies(z, L, y, from, to) ==
  /\ y \in 1 .. Len(L) /\ IsPart(z)
  /\ z.id = L[y].id /\ z.type = L[y].type /\ z.data = L[y].data
  /\ z.link = IF Gone(L, L[y].link, from, to) THEN 0 ELSE L[y].link

LEMMA WithoutIs ==
  ASSUME NEW L, IsList(L), \A p \in 1 .. Len(L) : IsPart(L[p]),
         NEW from \in 1 .. Len(L) + 1, NEW to \in from - 1 .. Len(L), NEW M, M = Without(L, from, to)
  PROVE  /\ IsList(M) /\ Len(M) = Len(L) - (to - from + 1)
         /\ \A x \in 1 .. Len(M) : Copies(M[x], L, Moved(x, from, to), from, to)
  <1> DEFINE left == SubSeq(L, 1, from - 1) \o SubSeq(L, to + 1, Len(L))
             ids  == {L[p].id : p \in from .. to}
             n    == Len(L) - (to - from + 1)
  <1>0. PICK S : L \in Seq(S)
    BY DEF IsList
  <1>1. Len(L) \in Nat /\ from \in Nat /\ to \in Int /\ n \in Nat
    BY <1>0
  <1>2. /\ SubSeq(L, 1, from - 1) \in Seq(S) /\ Len(SubSeq(L, 1, from - 1)) = from - 1
        /\ \A x \in 1 .. from - 1 : SubSeq(L, 1, from - 1)[x] = L[x]
    <2>1. \A x \in 1 .. from - 1 : L[x] \in S
      BY <1>0, <1>1
    <2>2. /\ SubSeq(L, 1, from - 1) \in Seq(S)
          /\ Len(SubSeq(L, 1, from - 1)) = IF 1 <= from - 1 THEN from - 1 - 1 + 1 ELSE 0
          /\ \A x \in 1 .. from - 1 - 1 + 1 : SubSeq(L, 1, from - 1)[x] = L[1 + x - 1]
      BY <1>1, <2>1, SubSeqProperties
    <2> QED
      BY <1>1, <2>2
  <1>3. /\ SubSeq(L, to + 1, Len(L)) \in Seq(S) /\ Len(SubSeq(L, to + 1, Len(L))) = Len(L) - to
        /\ \A x \in 1 .. Len(L) - to : SubSeq(L, to + 1, Len(L))[x] = L[to + x]
    <2>1. \A x \in to + 1 .. Len(L) : L[x] \in S
      BY <1>0, <1>1
    <2>2. PICK q : q = to + 1
      OBVIOUS
    <2>3. q \in Nat /\ q >= 1 /\ \A x \in q .. Len(L) : L[x] \in S
      BY <1>1, <2>1, <2>2
    <2>4. /\ SubSeq(L, q, Len(L)) \in Seq(S)
          /\ Len(SubSeq(L, q, Len(L))) = IF q <= Len(L) THEN Len(L) - q + 1 ELSE 0
          /\ \A x \in 1 .. Len(L) - q + 1 : SubSeq(L, q, Len(L))[x] = L[q + x - 1]
      BY <1>1, <2>3, SubSeqProperties
    <2>5. Len(SubSeq(L, q, Len(L))) = Len(L) - to
      BY <1>1, <2>2, <2>4
    <2>6. \A x \in 1 .. Len(L) - to : x \in 1 .. Len(L) - q + 1 /\ q + x - 1 = to + x
      BY <1>1, <2>2
    <2> QED
      BY <2>2, <2>4, <2>5, <2>6, SMTT(30)
  <1>4. /\ left \in Seq(S) /\ Len(left) = n
        /\ \A x \in 1 .. n : left[x] = L[Moved(x, from, to)] /\ Moved(x, from, to) \in 1 .. Len(L)
    <2> DEFINE u == SubSeq(L, 1, from - 1)
               w == SubSeq(L, to + 1, Len(L))
    <2>0. u \in Seq(S) /\ w \in Seq(S) /\ Len(u) = from - 1 /\ Len(w) = Len(L) - to
      BY <1>2, <1>3
    <2> HIDE DEF u, w
    <2>1. /\ u \o w \in Seq(S) /\ Len(u \o w) = Len(u) + Len(w)
          /\ \A x \in 1 .. Len(u) + Len(w) : (u \o w)[x] = IF x <= Len(u) THEN u[x] ELSE w[x - Len(u)]
      BY <2>0, ConcatProperties
    <2>2. Len(u) + Len(w) = n
      BY <1>1, <2>0
    <2>3. ASSUME NEW x \in 1 .. n
          PROVE  (u \o w)[x] = L[Moved(x, from, to)] /\ Moved(x, from, to) \in 1 .. Len(L)
      <3>1. CASE x < from
        BY <1>1, <1>2, <2>0, <2>1, <2>2, <3>1 DEF Moved, u
      <3>2. CASE x >= from
        <4>1. PICK z \in 1 .. Len(L) - to : z = x - (from - 1)
          BY <1>1, <3>2
        <4>2. to + z = x + (to - from + 1) /\ to + z \in 1 .. Len(L) /\ ~(x <= from - 1) /\ ~(x < from)
          BY <1>1, <3>2, <4>1
        <4>3. (u \o w)[x] = w[z]
          BY <2>0, <2>1, <2>2, <4>1, <4>2
        <4>4. w[z] = L[to + z]
          BY <1>3 DEF w
        <4>5. Moved(x, from, to) = to + z
          BY <4>2 DEF Moved
        <4> QED
          BY <4>2, <4>3, <4>4, <4>5
      <3>3. x < from \/ x >= from
        BY <1>1
      <3> QED
        BY <3>1, <3>2, <3>3
    <2> QED
      BY <2>1, <2>2, <2>3 DEF u, w
  <1>5. M = [x \in 1 .. n |-> IF left[x].link \in ids THEN [left[x] EXCEPT !.link = 0] ELSE left[x]]
    <2> HIDE DEF n
    <2>0. left \in Seq(S) /\ Len(left) = n
      BY <1>4
    <2> HIDE DEF left
    <2>1. DOMAIN left = 1 .. n
      BY <2>0
    <2> QED
      BY <2>1 DEF Without, left
  <1> HIDE DEF n, left
  <1>6. IsList(M) /\ Len(M) = n
    <2> DEFINE T == {IF left[x].link \in ids THEN [left[x] EXCEPT !.link = 0] ELSE left[x] : x \in 1 .. n}
    <2>1. M \in [1 .. n -> T]
      BY <1>5
    <2> HIDE DEF T
    <2>2. M \in Seq(T) /\ Len(M) = n
      BY <1>1, <2>1
    <2> QED
      BY <2>2 DEF IsList
  <1>7. ASSUME NEW x \in 1 .. n
        PROVE  Copies(M[x], L, Moved(x, from, to), from, to)
    <2>1. PICK y \in 1 .. Len(L) : y = Moved(x, from, to)
      BY <1>4
    <2>2. M[x] = IF L[y].link \in ids THEN [L[y] EXCEPT !.link = 0] ELSE L[y]
      BY <1>4, <1>5, <2>1
    <2>3. L[y].link \in ids <=> Gone(L, L[y].link, from, to)
      BY DEF Gone
    <2>4. IsPart(L[y])
      OBVIOUS
    <2> HIDE DEF ids
    <2>5. /\ IsPart(M[x]) /\ M[x].id = L[y].id /\ M[x].type = L[y].type /\ M[x].data = L[y].data
          /\ M[x].link = IF Gone(L, L[y].link, from, to) THEN 0 ELSE L[y].link
      <3>1. PICK z : z = M[x]
        OBVIOUS
      <3>2. CASE L[y].link \in ids
        <4>1. z = [L[y] EXCEPT !.link = 0]
          BY <2>2, <3>1, <3>2
        <4> QED
          <5>1. PICK t : t = L[y]
            OBVIOUS
          <5>2. PICK v : v = 0
            OBVIOUS
          <5>3. IsPart(t) /\ WithLink(z, t, v)
            BY <2>4, <4>1, <5>1, <5>2 DEF WithLink
          <5>4. IsPart(z) /\ z.link = v /\ z.id = t.id /\ z.type = t.type /\ z.data = t.data
            BY <5>3, LinkUpdated
          <5> QED
            BY <2>3, <3>1, <3>2, <5>1, <5>2, <5>4
      <3>3. CASE L[y].link \notin ids
        BY <2>2, <2>3, <2>4, <3>3
      <3> QED
        BY <3>2, <3>3
    <2> QED
      BY <2>1, <2>5 DEF Copies
  <1> QED
    BY <1>6, <1>7 DEF n

\* The tags are not changed when a text is removed.
LEMMA TextRemoved ==
  ASSUME NEW L, NEW k \in Nat, Ok(L, k), Opened(L, Len(L)),
         NEW p \in 1 .. Len(L), L[p].type = "MESSAGE"
  PROVE  LET M == Without(L, p, p) IN Ok(M, k) /\ Opened(M, Len(M))
  <1> DEFINE M == Without(L, p, p)
             g == [x \in 1 .. Len(M) |-> Moved(x, p, p)]
  <1>0. IsList(L) /\ Len(L) \in Nat /\ \A x \in 1 .. Len(L) : IsPart(L[x])
    BY DEF Ok, PartsOk, IsList
  <1>1. /\ IsList(M) /\ Len(M) = Len(L) - 1
        /\ \A x \in 1 .. Len(M) : Copies(M[x], L, Moved(x, p, p), p, p)
    <2>1. p \in 1 .. Len(L) + 1 /\ p \in p - 1 .. Len(L) /\ Len(L) - (p - p + 1) = Len(L) - 1
      BY <1>0
    <2> HIDE DEF M
    <2>2. M = Without(L, p, p)
      BY DEF M
    <2>3. /\ IsList(M) /\ Len(M) = Len(L) - (p - p + 1)
          /\ \A x \in 1 .. Len(M) : Copies(M[x], L, Moved(x, p, p), p, p)
      BY <1>0, <2>1, <2>2, WithoutIs
    <2> QED
      BY <2>1, <2>3
  <1> HIDE DEF M
  <1>2. /\ g \in [1 .. Len(M) -> 1 .. Len(L)]
        /\ \A x \in 1 .. Len(M) : g[x] = IF x < p THEN x ELSE x + 1
    BY <1>1 DEF Moved, Copies
  <1>3. \A x \in 1 .. Len(M) : g[x] = Moved(x, p, p)
    OBVIOUS
  <1> HIDE DEF g
  <1>4. \A x, y \in 1 .. Len(M) : x < y => g[x] < g[y]
    BY <1>0, <1>1, <1>2
  <1>5. \A y \in 1 .. Len(L) : y # p => \E x \in 1 .. Len(M) : g[x] = y
    <2> SUFFICES ASSUME NEW y \in 1 .. Len(L), y # p PROVE \E x \in 1 .. Len(M) : g[x] = y
      OBVIOUS
    <2>1. CASE y < p
      BY <1>0, <1>1, <1>2, <2>1
    <2>2. CASE y > p
      <3>1. y - 1 \in 1 .. Len(M) /\ ~(y - 1 < p) /\ y - 1 + 1 = y
        BY <1>0, <1>1, <2>2
      <3> QED
        BY <1>2, <3>1
    <2> QED
      BY <2>1, <2>2
  <1>6. \A y \in 1 .. Len(L) : ~Gone(L, L[y].link, p, p)
    <2> SUFFICES ASSUME NEW y \in 1 .. Len(L), L[y].link = L[p].id PROVE FALSE
      BY <1>0 DEF Gone
    <2>1. L[y].link # 0
      BY DEF Ok, PartsOk
    <2>2. PICK q \in 1 .. Len(L) : IsPair(L, y, q) \/ IsPair(L, q, y)
      BY <2>1 DEF Ok, Mutual
    <2>3. L[q].id = L[p].id /\ L[q].type # "MESSAGE"
      BY <2>2 DEF IsPair, IsOpening, IsClosing
    <2> QED
      BY <2>3 DEF Ok, PartsOk
  <1>7. ASSUME NEW x \in 1 .. Len(M)
        PROVE  /\ g[x] \in 1 .. Len(L) /\ IsPart(M[x])
               /\ M[x].id = L[g[x]].id /\ M[x].type = L[g[x]].type /\ M[x].data = L[g[x]].data
               /\ M[x].link = L[g[x]].link
    BY <1>1, <1>3, <1>6 DEF Copies
  <1>8. ASSUME NEW x \in 1 .. Len(M), NEW q \in 1 .. Len(L), IsPair(L, g[x], q) \/ IsPair(L, q, g[x])
        PROVE  \E y \in 1 .. Len(M) : g[y] = q /\ M[y].data = M[x].data
    <2>1. q # p /\ L[q].data = L[g[x]].data
      BY <1>8 DEF IsPair, IsOpening, IsClosing
    <2>2. PICK y \in 1 .. Len(M) : g[y] = q
      BY <1>5, <2>1
    <2> QED
      BY <1>7, <2>1, <2>2
  <1>9. ASSUME NEW y \in 1 .. Len(L), IsOpening(L[y]), L[y].data # <<"span">>
        PROVE  \E x \in 1 .. Len(M) : g[x] = y /\ M[x].data # <<"span">>
    <2>1. y # p
      BY <1>9 DEF IsOpening
    <2>2. PICK x \in 1 .. Len(M) : g[x] = y
      BY <1>5, <2>1
    <2> QED
      BY <1>7, <1>9, <2>2
  <1>10. \A x \in 1 .. Len(M) : M[x].type # "MESSAGE" => IsName(M[x].data)
    <2>1. \A y \in 1 .. Len(L) : L[y].type # "MESSAGE" => IsName(L[y].data)
      BY DEF Ok, PartsOk
    <2> QED
      BY <1>7, <2>1
  <1>11. Thins(M, L, g)
    BY <1>1, <1>2, <1>4, <1>7, <1>8, <1>9, <1>10 DEF Thins
  <1> QED
    BY <1>11, Thinned, OpenedThinned DEF M

\* The spans that open at p, then a text, then as many that close.
Called(L, p, n) ==
  /\ n \in Nat \ {0} /\ p \in 1 .. Len(L) /\ p + 2 * n <= Len(L)
  /\ \A x \in p .. p + n - 1 : L[x].type = "OPENING" /\ L[x].data = <<"span">>
  /\ L[p + n].type = "MESSAGE"
  /\ \A x \in p + n + 1 .. p + 2 * n : L[x].type = "CLOSING" /\ L[x].data = <<"span">>

LEMMA SpansAre ==
  ASSUME IsList(list), NEW p \in Nat \ {0}, NEW type
  PROVE  /\ Spans(p, type) \in 0 .. Len(list)
         /\ \A x \in 0 .. Spans(p, type) - 1 : IsSpan(p + x, type)
  <1> DEFINE T == {n \in 0 .. Len(list) : ~IsSpan(p + n, type)}
  <1>1. Len(list) \in Nat
    BY DEF IsList
  <1>2. Len(list) \in T
    BY <1>1 DEF IsSpan
  <1>3. T \in SUBSET Nat /\ T # {}
    BY <1>1, <1>2
  <1>4. PICK n \in T : \A y \in T : n <= y
    <2> HIDE DEF T
    <2> QED
      BY <1>3, Smallest
  <1>5. \A x \in 0 .. n - 1 : IsSpan(p + x, type)
    <2> SUFFICES ASSUME NEW x \in 0 .. n - 1, ~IsSpan(p + x, type) PROVE FALSE
      OBVIOUS
    <2>1. x \in T
      BY <1>1
    <2> QED
      BY <1>1, <1>4, <2>1
  <1>6. n \in 0 .. Len(list) /\ ~IsSpan(p + n, type)
    OBVIOUS
  <1> HIDE DEF T
  <1> QED
    BY <1>5, <1>6 DEF Spans

LEMMA Counted ==
  ASSUME IsList(list), NEW p \in Nat \ {0}, count_span_data_span(p) > 0
  PROVE  Called(list, p, count_span_data_span(p))
  <1>1. Len(list) \in Nat
    BY DEF IsList
  <1>2. PICK n : n = Spans(p, "OPENING")
    OBVIOUS
  <1>3. n \in 0 .. Len(list) /\ \A x \in 0 .. n - 1 : IsSpan(p + x, "OPENING")
    BY <1>2, SpansAre
  <1>4. PICK t \in Nat \ {0} : t = p + n + 1
    BY <1>1, <1>3
  <1>5. PICK k : k = Spans(t, "CLOSING")
    OBVIOUS
  <1>6. k \in 0 .. Len(list) /\ \A x \in 0 .. k - 1 : IsSpan(t + x, "CLOSING")
    BY <1>5, SpansAre
  <1>7. /\ count_span_data_span(p) = n /\ n > 0 /\ n <= k
        /\ p <= Len(list) /\ p + n <= Len(list) /\ list[p + n].type = "MESSAGE"
    BY <1>2, <1>3, <1>4, <1>5 DEF count_span_data_span
  <1>8. ASSUME NEW x \in p .. p + n - 1 PROVE list[x].type = "OPENING" /\ list[x].data = <<"span">>
    <2>1. x - p \in 0 .. n - 1 /\ p + (x - p) = x
      BY <1>1, <1>3
    <2> QED
      BY <1>3, <2>1 DEF IsSpan
  <1>9. ASSUME NEW x \in p + n + 1 .. p + 2 * n
        PROVE  list[x].type = "CLOSING" /\ list[x].data = <<"span">> /\ x <= Len(list)
    <2>1. x - t \in 0 .. k - 1 /\ t + (x - t) = x
      BY <1>1, <1>3, <1>4, <1>6, <1>7
    <2> QED
      BY <1>6, <2>1 DEF IsSpan
  <1>10. p + 2 * n <= Len(list) /\ n \in Nat \ {0} /\ p \in 1 .. Len(list)
    <2>1. p + 2 * n \in p + n + 1 .. p + 2 * n
      BY <1>1, <1>3, <1>7
    <2> QED
      BY <1>1, <1>3, <1>7, <1>9, <2>1
  <1> QED
    BY <1>7, <1>8, <1>9, <1>10 DEF Called

\* They are pairs, the inner ones first.
LEMMA SpansPaired ==
  ASSUME NEW L, NEW k \in Nat, Ok(L, k), Opened(L, Len(L)), NEW p, NEW n, Called(L, p, n)
  PROVE  \A x \in p .. p + n - 1 : IsPair(L, x, 2 * p + 2 * n - x)
  <1> DEFINE T == {t \in 0 .. n - 1 : ~IsPair(L, p + n - 1 - t, p + n + 1 + t)}
  <1>0. Len(L) \in Nat /\ n \in Nat \ {0} /\ p \in 1 .. Len(L) /\ p + 2 * n <= Len(L)
    BY DEF Ok, PartsOk, IsList, Called
  <1>1. T = {}
    <2> SUFFICES ASSUME T # {} PROVE FALSE
      OBVIOUS
    <2>1. T \in SUBSET Nat
      BY <1>0
    <2>2. PICK t \in T : \A y \in T : t <= y
      <3> HIDE DEF T
      <3> QED
        BY <2>1, Smallest
    <2>3. t \in 0 .. n - 1
      OBVIOUS
    <2>4. PICK u \in 1 .. Len(L) : u = p + n - 1 - t
      BY <1>0, <2>3
    <2>5. PICK w \in 1 .. Len(L) : w = p + n + 1 + t
      BY <1>0, <2>3
    <2>6. ~IsPair(L, u, w)
      BY <2>4, <2>5
    <2>7. \A y \in 0 .. t - 1 : IsPair(L, p + n - 1 - y, p + n + 1 + y)
      <3> SUFFICES ASSUME NEW y \in 0 .. t - 1, ~IsPair(L, p + n - 1 - y, p + n + 1 + y) PROVE FALSE
        OBVIOUS
      <3>1. y \in T
        BY <1>0, <2>3
      <3> QED
        BY <1>0, <2>2, <2>3, <3>1
    <2> HIDE DEF T
    <2>8. \A x \in u + 1 .. w - 1 : \/ L[x].type = "MESSAGE"
                                    \/ \E y \in u + 1 .. w - 1 : IsPair(L, x, y) \/ IsPair(L, y, x)
      <3> SUFFICES ASSUME NEW x \in u + 1 .. w - 1, x # p + n
                   PROVE  \E y \in u + 1 .. w - 1 : IsPair(L, x, y) \/ IsPair(L, y, x)
        BY DEF Called
      <3>1. CASE x < p + n
        <4>1. PICK y \in 0 .. t - 1 : y = p + n - 1 - x
          BY <1>0, <2>3, <2>4, <2>5, <3>1
        <4>2. p + n - 1 - y = x /\ p + n + 1 + y \in u + 1 .. w - 1
          BY <1>0, <2>3, <2>4, <2>5, <4>1
        <4> QED
          BY <2>7, <4>2
      <3>2. CASE x > p + n
        <4>1. PICK y \in 0 .. t - 1 : y = x - (p + n + 1)
          BY <1>0, <2>3, <2>4, <2>5, <3>2
        <4>2. p + n + 1 + y = x /\ p + n - 1 - y \in u + 1 .. w - 1
          BY <1>0, <2>3, <2>4, <2>5, <4>1
        <4> QED
          BY <2>7, <4>2
      <3>3. x < p + n \/ x > p + n
        BY <1>0, <2>4, <2>5
      <3> QED
        BY <3>1, <3>2, <3>3
    <2>9. /\ L[u].type = "OPENING" /\ L[u].data = <<"span">>
          /\ L[w].type = "CLOSING" /\ L[w].data = <<"span">>
      <3>1. u \in p .. p + n - 1 /\ w \in p + n + 1 .. p + 2 * n
        BY <1>0, <2>3, <2>4, <2>5
      <3> QED
        BY <3>1 DEF Called
    <2>10. PICK r \in 1 .. Len(L) : IsPair(L, u, r) \/ IsPair(L, r, u)
      BY <2>9 DEF Opened, IsOpening, Ok, Mutual
    <2>11. IsPair(L, u, r) /\ u < r
      BY <2>9, <2>10 DEF IsPair, IsClosing
    <2>12. r \notin u + 1 .. w - 1
      <3> SUFFICES ASSUME r \in u + 1 .. w - 1 PROVE FALSE
        OBVIOUS
      <3>1. L[r].type # "MESSAGE"
        BY <2>11 DEF IsPair, IsClosing
      <3>2. PICK y \in u + 1 .. w - 1 : IsPair(L, r, y) \/ IsPair(L, y, r)
        BY <2>8, <3>1
      <3>3. y = u
        BY <2>11, <3>2, OnlyPair DEF Ok
      <3> QED
        BY <2>4, <2>5, <3>3
    <2>13. r > w
      BY <2>4, <2>5, <2>6, <2>11, <2>12
    <2>14. CASE L[w].link = 0
      <3>1. Barred(L, u, w)
        <4>1. u < w
          BY <1>0, <2>3, <2>4, <2>5
        <4> QED
          BY <2>9, <2>11, <2>13, <2>14, <4>1 DEF Ok, Strays, IsClosing
      <3>2. PICK x \in u + 1 .. w - 1 : IsOpening(L[x]) /\ L[x].data # <<"span">>
        BY <2>9, <3>1 DEF Barred
      <3>3. x \in p .. p + n - 1 \/ x = p + n \/ x \in p + n + 1 .. p + 2 * n
        BY <1>0, <2>3, <2>4, <2>5
      <3> QED
        BY <3>2, <3>3 DEF Called, IsOpening
    <2>15. CASE L[w].link # 0
      <3>1. PICK s \in 1 .. Len(L) : IsPair(L, w, s) \/ IsPair(L, s, w)
        BY <2>15 DEF Ok, Mutual
      <3>2. IsPair(L, s, w) /\ s < w
        BY <2>9, <3>1 DEF IsPair, IsOpening
      <3>3. s # u
        BY <2>6, <3>2
      <3>4. s \notin u + 1 .. w - 1
        <4> SUFFICES ASSUME s \in u + 1 .. w - 1 PROVE FALSE
          OBVIOUS
        <4>1. L[s].type # "MESSAGE"
          BY <3>2 DEF IsPair, IsOpening
        <4>2. PICK y \in u + 1 .. w - 1 : IsPair(L, s, y) \/ IsPair(L, y, s)
          BY <2>8, <4>1
        <4>3. y = w
          BY <3>2, <4>2, OnlyPair DEF Ok
        <4> QED
          BY <2>4, <2>5, <4>3
      <3>5. s < u
        BY <2>4, <2>5, <3>2, <3>3, <3>4
      <3>6. u < w
        BY <1>0, <2>3, <2>4, <2>5
      <3>7. r < w
        BY <2>11, <3>2, <3>5, <3>6 DEF Ok, Nests
      <3> QED
        BY <2>13, <3>7
    <2> QED
      BY <2>14, <2>15
  <1>2. ASSUME NEW x \in p .. p + n - 1 PROVE IsPair(L, x, 2 * p + 2 * n - x)
    <2>1. PICK t \in 0 .. n - 1 : t = p + n - 1 - x
      BY <1>0
    <2>2. IsPair(L, p + n - 1 - t, p + n + 1 + t)
      BY <1>1
    <2>3. p + n - 1 - t = x /\ p + n + 1 + t = 2 * p + 2 * n - x
      BY <1>0, <2>1
    <2> QED
      BY <2>2, <2>3
  <1> QED
    BY <1>2

\* The spans that are removed, and what is left in their place.
Extras(x, p, n) == x \in p + 1 .. p + n - 1 \/ x \in p + n + 1 .. p + 2 * n - 1
Before(x, p, n) == IF x <= p THEN x ELSE IF x = p + 1 THEN p + n ELSE x + 2 * (n - 1)

\* A place of the list after both removals, and one that the second removes.
LEMMA MovedTwice ==
  ASSUME NEW p \in Nat \ {0}, NEW n \in Nat \ {0}, NEW x \in Nat \ {0}
  PROVE  /\ Moved(Moved(x, p + 2, p + 1 + (n - 1)), p + 1, p + (n - 1)) = Before(x, p, n)
         /\ ~Extras(Before(x, p, n), p, n)
  <1>1. CASE x <= p
    BY <1>1 DEF Moved, Before, Extras
  <1>2. CASE x = p + 1
    BY <1>2 DEF Moved, Before, Extras
  <1>3. CASE x >= p + 2
    BY <1>3 DEF Moved, Before, Extras
  <1> QED
    BY <1>1, <1>2, <1>3

LEMMA MovedExtra ==
  ASSUME NEW p \in Nat \ {0}, NEW n \in Nat \ {0}, NEW x \in p + 2 .. p + 1 + (n - 1)
  PROVE  Extras(Moved(x, p + 1, p + (n - 1)), p, n)
  BY DEF Moved, Extras

LEMMA ExtrasPaired ==
  ASSUME NEW L, NEW k \in Nat, Ok(L, k), Opened(L, Len(L)), NEW p, NEW n, Called(L, p, n),
         NEW x \in 1 .. Len(L), Extras(x, p, n), NEW q, IsPair(L, x, q) \/ IsPair(L, q, x)
  PROVE  Extras(q, p, n)
  <1>0. Len(L) \in Nat /\ n \in Nat \ {0} /\ p \in 1 .. Len(L)
    BY DEF Ok, PartsOk, IsList, Called
  <1>1. PICK y \in Nat : y = 2 * p + 2 * n - x
    BY <1>0 DEF Extras
  <1>2. IsPair(L, x, y) \/ IsPair(L, y, x)
    <2>1. CASE x \in p + 1 .. p + n - 1
      <3>1. x \in p .. p + n - 1
        BY <1>0, <2>1
      <3> QED
        BY <1>1, <3>1, SpansPaired
    <2>2. CASE x \in p + n + 1 .. p + 2 * n - 1
      <3>1. y \in p .. p + n - 1 /\ 2 * p + 2 * n - y = x
        BY <1>0, <1>1, <2>2
      <3> QED
        BY <3>1, SpansPaired
    <2> QED
      BY <2>1, <2>2 DEF Extras
  <1>3. q = y
    BY <1>2, OnlyPair DEF Ok
  <1> QED
    BY <1>0, <1>1, <1>3 DEF Extras

LEMMA LinksStay ==
  ASSUME NEW L, NEW k \in Nat, Ok(L, k), Opened(L, Len(L)), NEW p, NEW n, Called(L, p, n),
         NEW x \in 1 .. Len(L), ~Extras(x, p, n), NEW r \in 1 .. Len(L), Extras(r, p, n)
  PROVE  L[x].link # L[r].id
  <1> SUFFICES ASSUME L[x].link = L[r].id PROVE FALSE
    OBVIOUS
  <1>1. L[x].link # 0
    BY DEF Ok, PartsOk
  <1>2. PICK q \in 1 .. Len(L) : IsPair(L, x, q) \/ IsPair(L, q, x)
    BY <1>1 DEF Ok, Mutual
  <1>3. q = r
    BY <1>2 DEF Ok, PartsOk, IsPair
  <1> QED
    BY <1>2, <1>3, ExtrasPaired

\* Without the spans that are removed, the parts are those of before.
LEMMA SpansRemoved ==
  ASSUME NEW L, NEW k \in Nat, Ok(L, k), Opened(L, Len(L)), NEW p, NEW n, Called(L, p, n),
         NEW M, M = Without(Without(L, p + 1, p + (n - 1)), p + 2, p + 1 + (n - 1))
  PROVE  /\ IsList(M) /\ Len(M) = Len(L) - 2 * (n - 1)
         /\ \A x \in 1 .. Len(M) :
              LET y == Before(x, p, n)
              IN  /\ y \in 1 .. Len(L) /\ ~Extras(y, p, n) /\ IsPart(M[x])
                  /\ M[x].id = L[y].id /\ M[x].type = L[y].type /\ M[x].data = L[y].data
                  /\ M[x].link = L[y].link
  <1>0. /\ Len(L) \in Nat /\ n \in Nat \ {0} /\ p \in 1 .. Len(L) /\ p + 2 * n <= Len(L)
        /\ IsList(L) /\ \A x \in 1 .. Len(L) : IsPart(L[x])
    BY DEF Ok, PartsOk, IsList, Called
  <1>1. PICK from \in 1 .. Len(L) + 1 : from = p + 1
    BY <1>0
  <1>2. PICK to \in from - 1 .. Len(L) : to = p + (n - 1)
    BY <1>0, <1>1
  <1>3. PICK A : A = Without(L, from, to)
    OBVIOUS
  <1>4. /\ IsList(A) /\ Len(A) = Len(L) - (to - from + 1)
        /\ \A x \in 1 .. Len(A) : Copies(A[x], L, Moved(x, from, to), from, to)
    BY <1>0, <1>3, WithoutIs
  <1>5. Len(A) = Len(L) - (n - 1) /\ Len(A) \in Nat
    BY <1>0, <1>1, <1>2, <1>4
  <1>6. PICK u \in 1 .. Len(A) + 1 : u = p + 2
    BY <1>0, <1>5
  <1>7. PICK w \in u - 1 .. Len(A) : w = p + 1 + (n - 1)
    BY <1>0, <1>5, <1>6
  <1>8. M = Without(A, u, w)
    BY <1>1, <1>2, <1>3, <1>6, <1>7
  <1>9. \A x \in 1 .. Len(A) : IsPart(A[x])
    BY <1>4 DEF Copies
  <1>10. /\ IsList(M) /\ Len(M) = Len(A) - (w - u + 1)
         /\ \A x \in 1 .. Len(M) : Copies(M[x], A, Moved(x, u, w), u, w)
    BY <1>4, <1>8, <1>9, WithoutIs
  <1>11. Len(M) = Len(L) - 2 * (n - 1)
    BY <1>0, <1>5, <1>6, <1>7, <1>10
  <1>12. ASSUME NEW x \in 1 .. Len(M)
         PROVE  LET y == Before(x, p, n)
                IN  /\ y \in 1 .. Len(L) /\ ~Extras(y, p, n) /\ IsPart(M[x])
                    /\ M[x].id = L[y].id /\ M[x].type = L[y].type /\ M[x].data = L[y].data
                    /\ M[x].link = L[y].link
    <2>1. PICK z : z = Moved(x, u, w)
      OBVIOUS
    <2>2. Copies(M[x], A, z, u, w) /\ z \in 1 .. Len(A)
      BY <1>10, <2>1 DEF Copies
    <2>3. PICK y : y = Moved(z, from, to)
      OBVIOUS
    <2>4. Copies(A[z], L, y, from, to) /\ y \in 1 .. Len(L)
      BY <1>4, <2>2, <2>3 DEF Copies
    <2>5. y = Moved(Moved(x, p + 2, p + 1 + (n - 1)), p + 1, p + (n - 1))
      BY <1>1, <1>2, <1>6, <1>7, <2>1, <2>3
    <2>6. y = Before(x, p, n) /\ ~Extras(y, p, n)
      <3>1. p \in Nat \ {0}
        BY <1>0
      <3>2. x \in Nat \ {0}
        OBVIOUS
      <3> QED
        BY <1>0, <2>5, <3>1, <3>2, MovedTwice
    <2>7. ~Gone(L, L[y].link, from, to)
      <3> SUFFICES ASSUME NEW r \in from .. to, L[y].link = L[r].id PROVE FALSE
        BY DEF Gone
      <3>1. r \in 1 .. Len(L) /\ Extras(r, p, n)
        BY <1>0, <1>1, <1>2 DEF Extras
      <3> QED
        BY <2>4, <2>6, <3>1, LinksStay
    <2>8. A[z].link = L[y].link
      BY <2>4, <2>7 DEF Copies
    <2>9. ~Gone(A, L[y].link, u, w)
      <3> SUFFICES ASSUME NEW r \in u .. w, L[y].link = A[r].id PROVE FALSE
        BY DEF Gone
      <3>1. r \in 1 .. Len(A)
        BY <1>0, <1>5, <1>6, <1>7
      <3>2. PICK t : t = Moved(r, from, to)
        OBVIOUS
      <3>3. t \in 1 .. Len(L) /\ A[r].id = L[t].id
        BY <1>4, <3>1, <3>2 DEF Copies
      <3>4. Extras(t, p, n)
        <4>1. t = Moved(r, p + 1, p + (n - 1)) /\ r \in p + 2 .. p + 1 + (n - 1)
          BY <1>1, <1>2, <1>6, <1>7, <3>2
        <4>2. p \in Nat \ {0}
          BY <1>0
        <4> QED
          BY <1>0, <4>1, <4>2, MovedExtra
      <3> QED
        BY <2>4, <2>6, <3>3, <3>4, LinksStay
    <2> QED
      BY <2>2, <2>4, <2>5, <2>6, <2>8, <2>9 DEF Copies
  <1> QED
    BY <1>10, <1>11, <1>12

LEMMA BeforeGrows ==
  ASSUME NEW p \in Nat \ {0}, NEW n \in Nat \ {0}, NEW x \in Nat \ {0}, NEW y \in Nat \ {0}, x < y
  PROVE  Before(x, p, n) < Before(y, p, n)
  BY DEF Before

\* Every part but those that are removed has a place.
LEMMA BeforeReaches ==
  ASSUME NEW p \in Nat \ {0}, NEW n \in Nat \ {0}, NEW m \in Nat, p + 2 * n <= m,
         NEW y \in 1 .. m, ~Extras(y, p, n)
  PROVE  \E x \in 1 .. m - 2 * (n - 1) : Before(x, p, n) = y
  <1>1. CASE y <= p
    <2>1. y \in 1 .. m - 2 * (n - 1) /\ Before(y, p, n) = y
      BY <1>1 DEF Before
    <2> QED
      BY <2>1
  <1>2. CASE y = p + n
    <2>1. p + 1 \in 1 .. m - 2 * (n - 1) /\ Before(p + 1, p, n) = y
      BY <1>2 DEF Before
    <2> QED
      BY <2>1
  <1>3. CASE y >= p + 2 * n
    <2>1. PICK x \in Nat : x = y - 2 * (n - 1)
      BY <1>3
    <2>2. x \in 1 .. m - 2 * (n - 1) /\ x >= p + 2
      BY <1>3, <2>1
    <2>3. Before(x, p, n) = y
      BY <1>3, <2>1, <2>2 DEF Before
    <2> QED
      BY <2>2, <2>3
  <1> QED
    BY <1>1, <1>2, <1>3 DEF Extras

LEMMA NickIsName == <<"nick">> # <<"span">> /\ IsName(<<"nick">>)
  <1>1. <<"nick">>[1] = "nick" /\ <<"span">>[1] = "span" /\ "nick" # "span"
    OBVIOUS
  <1>2. "nick" \notin {AT, COMMA, DOTS}
    BY DEF AT, COMMA, DOTS
  <1>3. <<"nick">> \in Seq({"nick"}) /\ Len(<<"nick">>) = 1
    OBVIOUS
  <1>4. <<"nick">> # <<"span">>
    BY <1>1
  <1>5. \A x \in 1 .. Len(<<"nick">>) : <<"nick">>[x] \notin {AT, COMMA, DOTS}
    BY <1>1, <1>2, <1>3
  <1>6. IsList(<<"nick">>)
    BY <1>3 DEF IsList
  <1>7. IsPlain(<<"nick">>)
    BY MessageAssumption
  <1> QED
    BY <1>4, <1>5, <1>6, <1>7 DEF IsName

LEMMA Arith ==
  ASSUME NEW p \in Nat \ {0}, NEW n \in Nat \ {0}, NEW q \in Nat, NEW m \in Nat,
         p + 2 * n <= q, m = q - 2 * (n - 1)
  PROVE  p + 2 <= m
  OBVIOUS

LEMMA Shorter ==
  ASSUME NEW p \in Nat, NEW n \in Nat \ {0}, NEW q \in Nat, p + 2 * n <= q
  PROVE  q - 2 * (n - 1) \in Nat
  OBVIOUS

Renamed(M, B, p, q) == M = [B EXCEPT ![p].data = <<"nick">>, ![q].data = <<"nick">>]

LEMMA SpansNicked ==
  ASSUME NEW L, NEW k \in Nat, Ok(L, k), Opened(L, Len(L)), NEW p, NEW n, Called(L, p, n),
         NEW B, B = Without(Without(L, p + 1, p + (n - 1)), p + 2, p + 1 + (n - 1)),
         NEW e, e = p + 2,
         NEW M, Renamed(M, B, p, e)
  PROVE  /\ Ok(M, k) /\ Opened(M, Len(M)) /\ e \in 1 .. Len(M)
         /\ M[Len(M)].type = "MESSAGE" =>
              L[Len(L)].type = "MESSAGE" /\ M[Len(M)].data = L[Len(L)].data
  <1>0. Len(L) \in Nat /\ n \in Nat \ {0} /\ p \in 1 .. Len(L) /\ p + 2 * n <= Len(L)
    BY DEF Ok, PartsOk, IsList, Called
  <1>1. /\ IsList(B) /\ Len(B) = Len(L) - 2 * (n - 1)
        /\ \A x \in 1 .. Len(B) :
             LET y == Before(x, p, n)
             IN  /\ y \in 1 .. Len(L) /\ ~Extras(y, p, n) /\ IsPart(B[x])
                 /\ B[x].id = L[y].id /\ B[x].type = L[y].type /\ B[x].data = L[y].data
                 /\ B[x].link = L[y].link
    BY SpansRemoved
  <1>2. PICK m \in Nat : m = Len(B) /\ m = Len(L) - 2 * (n - 1)
    <2>1. Len(B) = Len(L) - 2 * (n - 1)
      BY <1>1
    <2>2. PICK k1 \in Nat : k1 = Len(L)
      BY <1>0
    <2>3. k1 - 2 * (n - 1) \in Nat
      BY <1>0, <2>2, Shorter
    <2> QED
      BY <2>1, <2>2, <2>3
  <1>3. p \in 1 .. m /\ e \in 1 .. m /\ p # e
    <2>1. PICK y \in Nat : y = p + 2
      BY <1>0
    <2>2. p + 2 <= m
      BY <1>0, <1>2, Arith
    <2> QED
      BY <1>0, <2>1, <2>2
  <1>4. PICK S : B \in Seq(S)
    BY <1>1 DEF IsList
  <1> DEFINE z1 == [B[p] EXCEPT !.data = <<"nick">>]
             z2 == [B[e] EXCEPT !.data = <<"nick">>]
  <1>5. M = [[B EXCEPT ![p] = z1] EXCEPT ![e] = z2]
    BY <1>2, <1>3, <1>4 DEF Renamed
  <1>6. /\ IsPart(z1) /\ z1.data = <<"nick">> /\ z1.id = B[p].id /\ z1.type = B[p].type /\ z1.link = B[p].link
        /\ IsPart(z2) /\ z2.data = <<"nick">> /\ z2.id = B[e].id /\ z2.type = B[e].type
        /\ z2.link = B[e].link
    <2>1. PICK v : v = <<"nick">>
      OBVIOUS
    <2>2. PICK t : t = B[p]
      OBVIOUS
    <2>3. PICK u : u = B[e]
      OBVIOUS
    <2>4. WithData(z1, t, v) /\ WithData(z2, u, v)
      BY <2>1, <2>2, <2>3 DEF WithData
    <2>5. IsPart(t) /\ IsPart(u)
      BY <1>1, <1>2, <1>3, <2>2, <2>3
    <2> HIDE DEF z1, z2
    <2>6. /\ IsPart(z1) /\ z1.data = v /\ z1.id = t.id /\ z1.type = t.type /\ z1.link = t.link
          /\ IsPart(z2) /\ z2.data = v /\ z2.id = u.id /\ z2.type = u.type /\ z2.link = u.link
      BY <2>4, <2>5, DataUpdated
    <2> QED
      BY <2>1, <2>2, <2>3, <2>6
  <1> HIDE DEF z1, z2
  <1>7. /\ IsList(M) /\ Len(M) = m
        /\ \A x \in 1 .. m : M[x] = IF x = p THEN z1 ELSE IF x = e THEN z2 ELSE B[x]
    <2> DEFINE T == S \cup {z1, z2}
               D == [B EXCEPT ![p] = z1]
    <2>1. B \in Seq(T) /\ z1 \in T /\ z2 \in T
      BY <1>4
    <2> HIDE DEF T
    <2>2. D \in Seq(T) /\ Len(D) = m /\ \A x \in 1 .. m : D[x] = IF x = p THEN z1 ELSE B[x]
      BY <1>2, <1>3, <2>1, ExceptSeq
    <2>3. M = [D EXCEPT ![e] = z2]
      BY <1>5
    <2> HIDE DEF D
    <2>4. M \in Seq(T) /\ Len(M) = m /\ \A x \in 1 .. m : M[x] = IF x = e THEN z2 ELSE D[x]
      <3>1. D \in Seq(T) /\ Len(D) = m /\ e \in 1 .. Len(D) /\ z2 \in T
        BY <1>3, <2>1, <2>2
      <3>2. /\ [D EXCEPT ![e] = z2] \in Seq(T) /\ Len([D EXCEPT ![e] = z2]) = Len(D)
            /\ \A x \in 1 .. Len(D) : [D EXCEPT ![e] = z2][x] = IF x = e THEN z2 ELSE D[x]
        BY <3>1, ExceptSeq
      <3> QED
        BY <2>3, <3>1, <3>2
    <2> QED
      BY <1>3, <2>2, <2>4 DEF IsList
  <1> DEFINE g == [x \in 1 .. m |-> Before(x, p, n)]
  <1>8. \A x \in 1 .. m : g[x] = Before(x, p, n) /\ g[x] \in 1 .. Len(L) /\ ~Extras(g[x], p, n)
    BY <1>1, <1>2
  <1>9. g \in [1 .. m -> 1 .. Len(L)]
    BY <1>8
  <1> HIDE DEF g
  <1>10. \A x, y \in 1 .. m : x < y => g[x] < g[y]
    <2> SUFFICES ASSUME NEW x \in 1 .. m, NEW y \in 1 .. m, x < y PROVE g[x] < g[y]
      OBVIOUS
    <2>1. x \in Nat \ {0} /\ y \in Nat \ {0} /\ p \in Nat \ {0}
      BY <1>0
    <2>2. Before(x, p, n) < Before(y, p, n)
      BY <1>0, <2>1, BeforeGrows
    <2> QED
      BY <1>8, <2>2
  <1>11. \A y \in 1 .. Len(L) : ~Extras(y, p, n) => \E x \in 1 .. m : g[x] = y
    <2> SUFFICES ASSUME NEW y \in 1 .. Len(L), ~Extras(y, p, n) PROVE \E x \in 1 .. m : g[x] = y
      OBVIOUS
    <2>1. PICK w \in Nat : w = Len(L)
      BY <1>0
    <2>2. p \in Nat \ {0} /\ n \in Nat \ {0} /\ p + 2 * n <= w /\ y \in 1 .. w
      BY <1>0, <2>1
    <2>3. \E x \in 1 .. w - 2 * (n - 1) : Before(x, p, n) = y
      BY <2>2, BeforeReaches
    <2> QED
      BY <1>2, <1>8, <2>1, <2>3
  <1>12. ASSUME NEW x \in 1 .. m
         PROVE  /\ IsPart(M[x]) /\ M[x].id = L[g[x]].id /\ M[x].type = L[g[x]].type /\ M[x].link = L[g[x]].link
                /\ M[x].data = IF x = p \/ x = e THEN <<"nick">> ELSE L[g[x]].data
    <2>1. /\ IsPart(B[x]) /\ B[x].id = L[g[x]].id /\ B[x].type = L[g[x]].type /\ B[x].data = L[g[x]].data
          /\ B[x].link = L[g[x]].link
      BY <1>1, <1>2, <1>8
    <2>2. CASE x = p
      <3>1. M[x] = z1 /\ B[p] = B[x]
        BY <1>7, <2>2
      <3> QED
        BY <1>6, <2>1, <2>2, <3>1
    <2>3. CASE x # p /\ x = e
      <3>1. M[x] = z2 /\ B[e] = B[x]
        BY <1>7, <2>3
      <3> QED
        BY <1>6, <2>1, <2>3, <3>1
    <2>4. CASE x # p /\ x # e
      BY <1>7, <2>1, <2>4
    <2> QED
      BY <2>2, <2>3, <2>4
  <1>13. PICK f \in Nat : f = p + 2 * n
    BY <1>0
  <1>14. IsPair(L, p, f)
    <2>1. p \in p .. p + n - 1 /\ 2 * p + 2 * n - p = f
      BY <1>0, <1>13
    <2> QED
      BY <2>1, SpansPaired
  <1>15. Before(p, p, n) = p /\ Before(e, p, n) = f
    BY <1>0, <1>13 DEF Before
  <1>16. g[p] = p /\ g[e] = f
    BY <1>3, <1>8, <1>15
  <1>17. \A x \in 1 .. m : (g[x] = p => x = p) /\ (g[x] = f => x = e)
    <2> SUFFICES ASSUME NEW x \in 1 .. m, NEW y \in 1 .. m, g[x] = g[y] PROVE x = y
      BY <1>3, <1>16
    <2>1. g[x] \in Nat /\ g[y] \in Nat /\ x \in Nat /\ y \in Nat
      BY <1>0, <1>8
    <2>2. ~(g[x] < g[y]) /\ ~(g[y] < g[x])
      BY <2>1
    <2>3. ~(x < y) /\ ~(y < x)
      BY <1>10, <2>2
    <2> QED
      BY <2>1, <2>3
  <1>18. ASSUME NEW x \in 1 .. m, NEW q \in 1 .. Len(L), IsPair(L, g[x], q) \/ IsPair(L, q, g[x])
         PROVE  \E y \in 1 .. m : g[y] = q /\ M[y].data = M[x].data
    <2>1. ~Extras(q, p, n)
      BY <1>8, <1>18, ExtrasPaired
    <2>2. PICK y \in 1 .. m : g[y] = q
      BY <1>11, <2>1
    <2>3. g[x] = p => q = f
      BY <1>14, <1>18, OnlyPair DEF Ok
    <2>4. g[x] = f => q = p
      BY <1>14, <1>18, OnlyPair DEF Ok
    <2>5. q = p => g[x] = f
      BY <1>14, <1>18, OnlyPair DEF Ok
    <2>6. q = f => g[x] = p
      BY <1>14, <1>18, OnlyPair DEF Ok
    <2>7. x = p \/ x = e <=> y = p \/ y = e
      BY <1>16, <1>17, <2>2, <2>3, <2>4, <2>5, <2>6
    <2>8. L[q].data = L[g[x]].data
      BY <1>18 DEF IsPair
    <2>9. M[y].data = M[x].data
      <3>1. M[x].data = IF x = p \/ x = e THEN <<"nick">> ELSE L[g[x]].data
        BY <1>12
      <3>2. M[y].data = IF y = p \/ y = e THEN <<"nick">> ELSE L[q].data
        BY <1>12, <2>2
      <3> QED
        BY <2>7, <2>8, <3>1, <3>2
    <2> QED
      BY <2>2, <2>9
  <1>19. ASSUME NEW y \in 1 .. Len(L), IsOpening(L[y]), L[y].data # <<"span">>
         PROVE  \E x \in 1 .. m : g[x] = y /\ M[x].data # <<"span">>
    <2>1. ~Extras(y, p, n)
      <3>1. Extras(y, p, n) => y \in p .. p + n - 1 \/ y \in p + n + 1 .. p + 2 * n
        BY <1>0 DEF Extras
      <3> QED
        BY <1>19, <3>1 DEF Called, IsOpening
    <2>2. PICK x \in 1 .. m : g[x] = y
      BY <1>11, <2>1
    <2>3. M[x].data = IF x = p \/ x = e THEN <<"nick">> ELSE L[y].data
      BY <1>12, <2>2
    <2> QED
      BY <1>19, <2>2, <2>3, NickIsName
  <1>20. ASSUME NEW x \in 1 .. m
         PROVE  /\ M[x].type # "MESSAGE" => IsName(M[x].data)
                /\ IsClosing(M[x]) /\ M[x].data = <<"span">> => L[g[x]].data = <<"span">>
    <2>1. M[x].type = L[g[x]].type /\ M[x].data = IF x = p \/ x = e THEN <<"nick">> ELSE L[g[x]].data
      BY <1>12
    <2>2. L[g[x]].type # "MESSAGE" => IsName(L[g[x]].data)
      BY <1>8 DEF Ok, PartsOk
    <2> QED
      BY <2>1, <2>2, NickIsName
  <1>21. Thins(M, L, g)
    <2>1. IsList(M) /\ Len(M) = m
      BY <1>7
    <2>2. \A x \in 1 .. m :
            /\ IsPart(M[x]) /\ M[x].id = L[g[x]].id /\ M[x].type = L[g[x]].type /\ M[x].link = L[g[x]].link
            /\ M[x].type # "MESSAGE" => IsName(M[x].data)
            /\ IsClosing(M[x]) /\ M[x].data = <<"span">> => L[g[x]].data = <<"span">>
            /\ \A q \in 1 .. Len(L) : IsPair(L, g[x], q) \/ IsPair(L, q, g[x]) =>
                 \E y \in 1 .. m : g[y] = q /\ M[y].data = M[x].data
      BY <1>12, <1>18, <1>20
    <2>3. g \in [1 .. m -> 1 .. Len(L)]
      BY <1>9
    <2>4. \A p1 \in 1 .. Len(L) : IsOpening(L[p1]) /\ L[p1].data # <<"span">> =>
            \E x \in 1 .. m : g[x] = p1 /\ M[x].data # <<"span">>
      BY <1>19
    <2>5. g \in [1 .. Len(M) -> 1 .. Len(L)]
      BY <2>1, <2>3
    <2>6. \A x, y \in 1 .. Len(M) : x < y => g[x] < g[y]
      BY <1>10, <2>1
    <2>7. \A x \in 1 .. Len(M) :
            /\ IsPart(M[x]) /\ M[x].id = L[g[x]].id /\ M[x].type = L[g[x]].type /\ M[x].link = L[g[x]].link
            /\ M[x].type # "MESSAGE" => IsName(M[x].data)
            /\ IsClosing(M[x]) /\ M[x].data = <<"span">> => L[g[x]].data = <<"span">>
            /\ \A q \in 1 .. Len(L) : IsPair(L, g[x], q) \/ IsPair(L, q, g[x]) =>
                 \E y \in 1 .. Len(M) : g[y] = q /\ M[y].data = M[x].data
      <3> SUFFICES ASSUME NEW x \in 1 .. Len(M)
                   PROVE  /\ IsPart(M[x]) /\ M[x].id = L[g[x]].id /\ M[x].type = L[g[x]].type /\ M[x].link = L[g[x]].link
                          /\ M[x].type # "MESSAGE" => IsName(M[x].data)
                          /\ IsClosing(M[x]) /\ M[x].data = <<"span">> => L[g[x]].data = <<"span">>
                          /\ \A q \in 1 .. Len(L) : IsPair(L, g[x], q) \/ IsPair(L, q, g[x]) =>
                               \E y \in 1 .. Len(M) : g[y] = q /\ M[y].data = M[x].data
        OBVIOUS
      <3>1. x \in 1 .. m
        BY <2>1
      <3>2. ASSUME NEW q \in 1 .. Len(L), IsPair(L, g[x], q) \/ IsPair(L, q, g[x])
            PROVE  \E y \in 1 .. Len(M) : g[y] = q /\ M[y].data = M[x].data
        <4>1. PICK y \in 1 .. m : g[y] = q /\ M[y].data = M[x].data
          BY <2>2, <3>1, <3>2
        <4> QED
          BY <2>1, <4>1
      <3> QED
        BY <2>2, <3>1, <3>2
    <2>8. \A y \in 1 .. Len(L) : IsOpening(L[y]) /\ L[y].data # <<"span">> =>
            \E x \in 1 .. Len(M) : g[x] = y /\ M[x].data # <<"span">>
      BY <2>1, <2>4
    <2> QED
      BY <2>1, <2>5, <2>6, <2>7, <2>8, Zenon DEF Thins
  <1>22. M[m].type = "MESSAGE" => L[Len(L)].type = "MESSAGE" /\ M[m].data = L[Len(L)].data
    <2> SUFFICES ASSUME M[m].type = "MESSAGE"
                 PROVE  L[Len(L)].type = "MESSAGE" /\ M[m].data = L[Len(L)].data
      OBVIOUS
    <2>1. m \in 1 .. m /\ m # 0
      BY <1>3
    <2>2. L[p].type = "OPENING" /\ L[f].type = "CLOSING"
      BY <1>14 DEF IsPair, IsOpening, IsClosing
    <2>3. M[m].type = L[g[m]].type
      BY <1>12, <2>1
    <2>4. m # p /\ m # e
      BY <1>16, <2>2, <2>3
    <2>5. g[m] = Len(L)
      <3>1. m > p /\ m # p + 1 /\ Before(m, p, n) = m + 2 * (n - 1)
        BY <1>0, <1>3, <2>4 DEF Before
      <3> QED
        BY <1>0, <1>2, <1>8, <2>1, <3>1
    <2>6. M[m].data = IF m = p \/ m = e THEN <<"nick">> ELSE L[g[m]].data
      BY <1>12, <2>1
    <2> QED
      BY <2>3, <2>4, <2>5, <2>6
  <1> QED
    BY <1>3, <1>7, <1>21, <1>22, Thinned, OpenedThinned

(* A closing tag is put after the opening at p: where the parts come from,   *)
(* and where they go.                                                        *)
From(x, p) == IF x <= p THEN x ELSE x - 1
To(y, p)   == IF y <= p THEN y ELSE y + 1

\* M is L with such a tag, numbered k.
Inserted(M, L, p, k) ==
  /\ IsList(M) /\ Len(M) = Len(L) + 1
  /\ \A x \in 1 .. Len(L) : x # p => M[To(x, p)] = L[x]
  /\ IsPart(M[p]) /\ M[p].id = L[p].id /\ M[p].type = L[p].type /\ M[p].data = L[p].data
  /\ M[p].link = k
  /\ IsPart(M[p + 1]) /\ M[p + 1].id = k /\ M[p + 1].type = "CLOSING" /\ M[p + 1].data = L[p].data
  /\ M[p + 1].link = L[p].id

LEMMA PlacesFrom ==
  ASSUME NEW m \in Nat, NEW p \in 1 .. m, NEW x \in 1 .. m + 1, x # p + 1
  PROVE  From(x, p) \in 1 .. m /\ To(From(x, p), p) = x /\ (x # p => From(x, p) # p)
  BY DEF From, To

LEMMA PlacesTo ==
  ASSUME NEW m \in Nat, NEW p \in 1 .. m, NEW y \in 1 .. m
  PROVE  To(y, p) \in 1 .. m + 1 /\ To(p, p) = p
  BY DEF To

LEMMA FromOrder ==
  ASSUME NEW m \in Nat, NEW p \in 1 .. m, NEW x \in 1 .. m + 1, NEW y \in 1 .. m + 1,
         x # p + 1, y # p + 1
  PROVE  x < y <=> From(x, p) < From(y, p)
  BY DEF From

LEMMA ToOrder ==
  ASSUME NEW m \in Nat, NEW p \in 1 .. m, NEW x \in 1 .. m, NEW y \in 1 .. m
  PROVE  x < y <=> To(x, p) < To(y, p)
  BY DEF To

LEMMA InsertedOk ==
  ASSUME NEW L, NEW k \in Nat, Ok(L, k), NEW p \in 1 .. Len(L), IsOpening(L[p]), L[p].link = 0,
         NEW M, Inserted(M, L, p, k + 1)
  PROVE  Ok(M, k + 1) /\ (Opened(L, p - 1) => Opened(M, p))
  <1>0. PICK m \in Nat : m = Len(L) /\ p \in 1 .. m
    BY DEF Ok, PartsOk, IsList
  <1>1. ASSUME NEW x \in 1 .. m + 1, x # p, x # p + 1
        PROVE  From(x, p) \in 1 .. m /\ From(x, p) # p /\ M[x] = L[From(x, p)] /\ To(From(x, p), p) = x
    <2>1. From(x, p) \in 1 .. m /\ To(From(x, p), p) = x /\ From(x, p) # p
      BY <1>0, <1>1, PlacesFrom
    <2>2. M[To(From(x, p), p)] = L[From(x, p)]
      BY <1>0, <2>1 DEF Inserted
    <2> QED
      BY <2>1, <2>2
  <1>2. PICK e \in Nat : e = p + 1 /\ e \in 1 .. m + 1 /\ p \in 1 .. m + 1 /\ p # e
    BY <1>0
  <1>3. /\ IsList(M) /\ Len(M) = m + 1
        /\ IsPart(M[p]) /\ M[p].id = L[p].id /\ M[p].type = "OPENING" /\ M[p].data = L[p].data
        /\ M[p].link = k + 1
        /\ IsPart(M[e]) /\ M[e].id = k + 1 /\ M[e].type = "CLOSING" /\ M[e].data = L[p].data
        /\ M[e].link = L[p].id
    BY <1>0, <1>2 DEF Inserted, IsOpening
  <1>4. IsPair(M, p, e)
    BY <1>0, <1>2, <1>3 DEF IsPair, IsOpening, IsClosing
  <1>5. L[p].id \in 1 .. k
    BY DEF Ok, PartsOk
  <1>6. PartsOk(M, k + 1)
    <2>1. ASSUME NEW x \in 1 .. m + 1
          PROVE  /\ IsPart(M[x]) /\ M[x].id \in 1 .. k + 1
                 /\ M[x].type \in {"OPENING", "CLOSING", "MESSAGE"}
                 /\ M[x].type = "MESSAGE" => M[x].link = 0
                 /\ M[x].type # "MESSAGE" => IsName(M[x].data)
      <3>1. CASE x # p /\ x # e
        <4>1. From(x, p) \in 1 .. Len(L) /\ M[x] = L[From(x, p)]
          BY <1>0, <1>1, <1>2, <3>1
        <4>2. L[From(x, p)].id \in 1 .. k
          BY <4>1 DEF Ok, PartsOk
        <4>3. M[x].id \in 1 .. k + 1
          BY <4>1, <4>2
        <4> QED
          BY <4>1, <4>3 DEF Ok, PartsOk
      <3>2. CASE x = p \/ x = e
        <4>1. IsName(L[p].data)
          BY DEF Ok, PartsOk, IsOpening
        <4>2. M[p].id \in 1 .. k + 1 /\ M[e].id \in 1 .. k + 1
          BY <1>3, <1>5
        <4> QED
          BY <1>3, <3>2, <4>1, <4>2
      <3> QED
        BY <3>1, <3>2
    <2>2. ASSUME NEW x \in 1 .. m + 1, NEW y \in 1 .. m + 1, M[x].id = M[y].id PROVE x = y
      <3>1. \A z \in 1 .. m + 1 : z # p /\ z # e => M[z].id # L[p].id /\ M[z].id \in 1 .. k
        BY <1>0, <1>1, <1>2 DEF Ok, PartsOk
      <3>2. L[p].id # k + 1 /\ k + 1 \notin 1 .. k
        BY <1>5
      <3>3. CASE x # p /\ x # e /\ y # p /\ y # e
        <4>1. PICK u \in 1 .. m : u = From(x, p) /\ M[x] = L[u] /\ To(u, p) = x
          BY <1>1, <1>2, <3>3
        <4>2. PICK v \in 1 .. m : v = From(y, p) /\ M[y] = L[v] /\ To(v, p) = y
          BY <1>1, <1>2, <3>3
        <4>3. u = v
          BY <1>0, <2>2, <4>1, <4>2 DEF Ok, PartsOk
        <4> QED
          BY <4>1, <4>2, <4>3
      <3> QED
        BY <1>3, <2>2, <3>1, <3>2, <3>3
    <2> QED
      BY <1>3, <2>1, <2>2 DEF PartsOk
  <1>7. ASSUME NEW x, NEW y, IsPair(M, x, y), x # p
        PROVE  /\ x \in 1 .. m + 1 /\ y \in 1 .. m + 1 /\ x # e /\ y # e /\ y # p
               /\ IsPair(L, From(x, p), From(y, p))
    <2>1. x \in 1 .. m + 1 /\ y \in 1 .. m + 1 /\ x < y
      BY <1>3, <1>7 DEF IsPair
    <2>2. x # e /\ y # p
      BY <1>3, <1>7 DEF IsPair, IsOpening, IsClosing
    <2>3. y # e
      <3>1. y = e => M[x].id = L[p].id
        BY <1>3, <1>7 DEF IsPair
      <3> QED
        BY <1>2, <1>3, <1>6, <1>7, <2>1, <3>1 DEF PartsOk
    <2>4. /\ M[x] = L[From(x, p)] /\ M[y] = L[From(y, p)]
          /\ From(x, p) \in 1 .. Len(L) /\ From(y, p) \in 1 .. Len(L)
      BY <1>0, <1>1, <1>2, <1>7, <2>1, <2>2, <2>3
    <2>5. From(x, p) < From(y, p)
      BY <1>0, <1>2, <2>1, <2>2, <2>3, FromOrder
    <2> QED
      BY <1>7, <2>1, <2>2, <2>3, <2>4, <2>5 DEF IsPair
  <1>8. Mutual(M)
    <2> SUFFICES ASSUME NEW x \in 1 .. m + 1, M[x].link # 0
                 PROVE  \E y \in 1 .. m + 1 : IsPair(M, x, y) \/ IsPair(M, y, x)
      BY <1>3 DEF Mutual
    <2>1. CASE x = p \/ x = e
      BY <1>2, <1>4, <2>1
    <2>2. CASE x # p /\ x # e
      <3>1. PICK u \in 1 .. m : u = From(x, p) /\ M[x] = L[u] /\ To(u, p) = x
        BY <1>1, <1>2, <2>2
      <3>2. PICK q \in 1 .. m : IsPair(L, u, q) \/ IsPair(L, q, u)
        BY <1>0, <3>1 DEF Ok, Mutual
      <3>3. q # p
        <4>1. L[q].link # 0
          BY <1>0, <3>1, <3>2 DEF IsPair, Ok, PartsOk
        <4> QED
          BY <4>1
      <3>4. PICK y \in 1 .. m + 1 : y = To(q, p)
        BY <1>0, PlacesTo
      <3>5. M[y] = L[q]
        BY <1>0, <3>3, <3>4 DEF Inserted
      <3>6. (u < q => x < y) /\ (q < u => y < x)
        <4>1. (u < q <=> To(u, p) < To(q, p)) /\ (q < u <=> To(q, p) < To(u, p))
          BY <1>0, ToOrder
        <4> QED
          BY <3>1, <3>4, <4>1
      <3>7. IsPair(L, u, q) => IsPair(M, x, y)
        BY <1>3, <3>1, <3>4, <3>5, <3>6 DEF IsPair
      <3>8. IsPair(L, q, u) => IsPair(M, y, x)
        BY <1>3, <3>1, <3>4, <3>5, <3>6 DEF IsPair
      <3> QED
        BY <3>2, <3>7, <3>8
    <2> QED
      BY <2>1, <2>2
  <1>9. \A y : IsPair(M, p, y) => y = e
    BY <1>4, <1>6, OnlyPair
  <1>10. Nests(M)
    <2> SUFFICES ASSUME NEW a1 \in 1 .. m + 1, NEW b1 \in 1 .. m + 1, NEW r \in 1 .. m + 1, NEW s \in 1 .. m + 1,
                        IsPair(M, a1, b1), IsPair(M, r, s), a1 < r, r < b1
                 PROVE  s < b1
      BY <1>3 DEF Nests
    <2>1. a1 # p
      BY <1>2, <1>9
    <2>2. b1 # e /\ b1 # p /\ IsPair(L, From(a1, p), From(b1, p)) /\ a1 # e
      BY <1>7, <2>1
    <2>3. CASE r = p
      BY <1>2, <1>9, <2>2, <2>3
    <2>4. CASE r # p
      <3>1. s # e /\ r # e /\ IsPair(L, From(r, p), From(s, p))
        BY <1>7, <2>4
      <3>2. From(a1, p) < From(r, p) /\ From(r, p) < From(b1, p)
        BY <1>0, <1>2, <2>2, <3>1, FromOrder
      <3>3. From(s, p) < From(b1, p)
        BY <2>2, <3>1, <3>2 DEF Ok, Nests, IsPair
      <3> QED
        BY <1>0, <1>2, <2>2, <3>1, <3>3, FromOrder
    <2> QED
      BY <2>3, <2>4
  <1>11. Strays(M)
    <2> SUFFICES ASSUME NEW a1 \in 1 .. m + 1, NEW q \in 1 .. m + 1, NEW r \in 1 .. m + 1,
                        IsPair(M, a1, r), a1 < q, q < r, IsClosing(M[q]), M[q].link = 0,
                        M[q].data = <<"span">>
                 PROVE  \E x \in a1 + 1 .. q - 1 : IsOpening(M[x]) /\ M[x].data # <<"span">>
      BY <1>3 DEF Strays, Barred
    <2>1. q # p /\ q # e
      BY <1>3, <1>5 DEF IsClosing
    <2>2. a1 # p
      BY <1>2, <1>9
    <2>3. r # e /\ r # p /\ IsPair(L, From(a1, p), From(r, p)) /\ a1 # e
      BY <1>7, <2>2
    <2>4. PICK u \in 1 .. m : u = From(a1, p) /\ To(u, p) = a1
      BY <1>1, <1>2, <2>2, <2>3
    <2>5. PICK v \in 1 .. m : v = From(q, p) /\ To(v, p) = q /\ M[q] = L[v]
      BY <1>1, <1>2, <2>1
    <2>6. u < v /\ v < From(r, p)
      <3>1. a1 < q <=> From(a1, p) < From(q, p)
        BY <1>0, <1>2, <2>1, <2>3, FromOrder
      <3>2. q < r <=> From(q, p) < From(r, p)
        BY <1>0, <1>2, <2>1, <2>3, FromOrder
      <3> QED
        BY <2>4, <2>5, <3>1, <3>2
    <2>7. Barred(L, u, v)
      <3>1. From(r, p) \in 1 .. Len(L)
        BY <2>3 DEF IsPair
      <3> QED
        BY <1>0, <2>3, <2>4, <2>5, <2>6, <3>1 DEF Ok, Strays
    <2>8. PICK x \in u + 1 .. v - 1 : IsOpening(L[x]) /\ L[x].data # <<"span">>
      BY <2>5, <2>7 DEF Barred
    <2>9. x \in 1 .. m /\ u < x /\ x < v
      BY <2>8
    <2>10. PICK t \in 1 .. m + 1 : t = To(x, p)
      BY <1>0, <2>9, PlacesTo
    <2>11. a1 < t /\ t < q
      <3>1. (u < x <=> To(u, p) < To(x, p)) /\ (x < v <=> To(x, p) < To(v, p))
        BY <1>0, <2>9, ToOrder
      <3> QED
        BY <2>4, <2>5, <2>9, <2>10, <3>1
    <2>12. IsOpening(M[t]) /\ M[t].data # <<"span">>
      <3>1. CASE x = p
        <4>1. t = p
          BY <1>0, <2>10, <3>1, PlacesTo
        <4> QED
          BY <1>3, <2>8, <3>1, <4>1 DEF IsOpening
      <3>2. CASE x # p
        <4>1. M[t] = L[x]
          BY <1>0, <2>9, <2>10, <3>2 DEF Inserted
        <4> QED
          BY <2>8, <4>1
      <3> QED
        BY <3>1, <3>2
    <2>13. t \in a1 + 1 .. q - 1
      BY <1>0, <2>11
    <2> QED
      BY <2>12, <2>13
  <1>12. ASSUME Opened(L, p - 1) PROVE Opened(M, p)
    <2> SUFFICES ASSUME NEW x \in 1 .. p, IsOpening(M[x]) PROVE M[x].link # 0
      BY DEF Opened
    <2>1. CASE x = p
      BY <1>3, <2>1
    <2>2. CASE x # p
      <3>1. x \in 1 .. p - 1 /\ x \in 1 .. m + 1 /\ x # e
        BY <1>0, <1>2, <2>2
      <3>2. From(x, p) = x
        BY <3>1 DEF From
      <3> QED
        BY <1>1, <1>2, <1>12, <2>2, <3>1, <3>2 DEF Opened
    <2> QED
      BY <2>1, <2>2
  <1> QED
    BY <1>6, <1>8, <1>10, <1>11, <1>12 DEF Ok

(* A closing tag at n takes the opening tag at t.                            *)
With(M, L, p, z) == M = [L EXCEPT ![p] = z]

LEMMA ListUpdated ==
  ASSUME NEW L, IsList(L), NEW p \in 1 .. Len(L), NEW z, NEW M, With(M, L, p, z)
  PROVE  /\ IsList(M) /\ Len(M) = Len(L)
         /\ \A x \in 1 .. Len(L) : M[x] = IF x = p THEN z ELSE L[x]
  <1>1. PICK S : L \in Seq(S)
    BY DEF IsList
  <1> DEFINE T == S \cup {z}
  <1>2. L \in Seq(T) /\ z \in T
    BY <1>1
  <1> HIDE DEF T
  <1>3. /\ [L EXCEPT ![p] = z] \in Seq(T) /\ Len([L EXCEPT ![p] = z]) = Len(L)
        /\ \A x \in 1 .. Len(L) : [L EXCEPT ![p] = z][x] = IF x = p THEN z ELSE L[x]
    BY <1>2, ExceptSeq
  <1> QED
    BY <1>3 DEF With, IsList

Coupled(M, L, t, n) ==
  /\ IsList(M) /\ Len(M) = Len(L)
  /\ \A x \in 1 .. Len(L) : x # t /\ x # n => M[x] = L[x]
  /\ IsPart(M[t]) /\ M[t].id = L[t].id /\ M[t].type = L[t].type /\ M[t].data = L[t].data
  /\ M[t].link = L[n].id
  /\ IsPart(M[n]) /\ M[n].id = L[n].id /\ M[n].type = L[n].type /\ M[n].data = L[n].data
  /\ M[n].link = L[t].id

LEMMA LinkedIs ==
  ASSUME NEW L, IsList(L), \A x \in 1 .. Len(L) : IsPart(L[x]),
         NEW n \in 1 .. Len(L), NEW t \in 1 .. Len(L), t # n, NEW M, M = Linked(L, n, t)
  PROVE  Coupled(M, L, t, n)
  <1> DEFINE z1 == [L[n] EXCEPT !.link = L[t].id]
             z2 == [L[t] EXCEPT !.link = L[n].id]
             D  == [L EXCEPT ![n] = z1]
  <1>1. DOMAIN L = 1 .. Len(L)
    BY DEF IsList
  <1>2. M = [D EXCEPT ![t] = z2]
    BY <1>1 DEF Linked
  <1>3. /\ IsPart(z1) /\ z1.link = L[t].id /\ z1.id = L[n].id /\ z1.type = L[n].type /\ z1.data = L[n].data
        /\ IsPart(z2) /\ z2.link = L[n].id /\ z2.id = L[t].id /\ z2.type = L[t].type /\ z2.data = L[t].data
    <2>1. PICK y : y = L[n]
      OBVIOUS
    <2>2. PICK w : w = L[t]
      OBVIOUS
    <2>3. PICK u : u = L[t].id
      OBVIOUS
    <2>4. PICK v : v = L[n].id
      OBVIOUS
    <2>5. WithLink(z1, y, u) /\ WithLink(z2, w, v)
      BY <2>1, <2>2, <2>3, <2>4 DEF WithLink
    <2>6. IsPart(y) /\ IsPart(w)
      BY <2>1, <2>2
    <2> HIDE DEF z1, z2
    <2>7. /\ IsPart(z1) /\ z1.link = u /\ z1.id = y.id /\ z1.type = y.type /\ z1.data = y.data
          /\ IsPart(z2) /\ z2.link = v /\ z2.id = w.id /\ z2.type = w.type /\ z2.data = w.data
      BY <2>5, <2>6, LinkUpdated
    <2> QED
      BY <2>1, <2>2, <2>3, <2>4, <2>7
  <1> HIDE DEF z1, z2
  <1>4. With(D, L, n, z1)
    BY DEF With
  <1>5. With(M, D, t, z2)
    BY <1>2 DEF With
  <1> HIDE DEF D
  <1>6. /\ IsList(D) /\ Len(D) = Len(L)
        /\ \A x \in 1 .. Len(L) : D[x] = IF x = n THEN z1 ELSE L[x]
    BY <1>4, ListUpdated
  <1>7. /\ IsList(M) /\ Len(M) = Len(L)
        /\ \A x \in 1 .. Len(L) : M[x] = IF x = t THEN z2 ELSE D[x]
    <2>1. t \in 1 .. Len(D)
      BY <1>6
    <2>2. /\ IsList(M) /\ Len(M) = Len(D)
          /\ \A x \in 1 .. Len(D) : M[x] = IF x = t THEN z2 ELSE D[x]
      BY <1>5, <1>6, <2>1, ListUpdated
    <2> QED
      BY <1>6, <2>2
  <1>8. M[t] = z2 /\ M[n] = z1 /\ \A x \in 1 .. Len(L) : x # t /\ x # n => M[x] = L[x]
    BY <1>6, <1>7
  <1> QED
    BY <1>3, <1>7, <1>8 DEF Coupled

\* Nothing that is open at t keeps a closing tag at n from it.
Free(L, t, n) ==
  /\ t \in 1 .. Len(L) /\ n \in 1 .. Len(L) /\ t < n
  /\ IsOpening(L[t]) /\ IsClosing(L[n]) /\ L[t].data = L[n].data
  /\ L[t].link = 0 /\ \A x \in n .. Len(L) : L[x].link = 0
  /\ \A x, y \in 1 .. Len(L) : IsPair(L, x, y) => ~(x < t /\ t < y)
  /\ \A x \in t + 1 .. n - 1 : IsClosing(L[x]) /\ L[x].link = 0 => Barred(L, t, x)

LEMMA JoinedPairs ==
  ASSUME NEW L, NEW k \in Nat, PartsOk(L, k), NEW t, NEW n, Free(L, t, n), NEW M, Coupled(M, L, t, n)
  PROVE  /\ IsPair(M, t, n)
         /\ \A x, y : IsPair(L, x, y) => IsPair(M, x, y) /\ x # t /\ x # n /\ y # t /\ y # n
         /\ \A x, y : IsPair(M, x, y) => IsPair(L, x, y) \/ (x = t /\ y = n)
  <1>0. Len(L) \in Nat /\ L[n].link = 0 /\ Len(M) = Len(L)
    BY DEF PartsOk, IsList, Free, Coupled
  <1>1. IsPair(M, t, n)
    BY <1>0 DEF IsPair, Free, Coupled, IsOpening, IsClosing
  <1>2. ASSUME NEW x, NEW y, IsPair(L, x, y)
        PROVE  IsPair(M, x, y) /\ x # t /\ x # n /\ y # t /\ y # n
    <2>1. x \in 1 .. Len(L) /\ y \in 1 .. Len(L) /\ L[x].link # 0 /\ L[y].link # 0
      BY <1>2 DEF IsPair, PartsOk
    <2>2. x # t /\ x # n /\ y # t /\ y # n
      BY <1>0, <2>1 DEF Free
    <2> QED
      BY <1>0, <1>2, <2>1, <2>2 DEF IsPair, Coupled
  <1>3. ASSUME NEW x, NEW y, IsPair(M, x, y), ~(x = t /\ y = n)
        PROVE  IsPair(L, x, y)
    <2>1. x \in 1 .. Len(L) /\ y \in 1 .. Len(L) /\ x # n /\ y # t
      BY <1>0, <1>3 DEF IsPair, Free, Coupled, IsOpening, IsClosing
    <2>2. x # t
      <3>1. x = t => M[y].id = L[n].id
        BY <1>3 DEF IsPair, Coupled
      <3>2. M[y].id = L[y].id
        BY <2>1 DEF Coupled
      <3> QED
        BY <1>3, <2>1, <3>1, <3>2 DEF PartsOk, Free
    <2>3. y # n
      <3>1. y = n => M[x].id = L[t].id
        BY <1>3 DEF IsPair, Coupled
      <3>2. M[x].id = L[x].id
        BY <2>1 DEF Coupled
      <3> QED
        BY <2>1, <2>2, <3>1, <3>2 DEF PartsOk, Free
    <2> QED
      BY <1>0, <1>3, <2>1, <2>2, <2>3 DEF IsPair, Coupled
  <1> QED
    BY <1>1, <1>2, <1>3

LEMMA JoinedOk ==
  ASSUME NEW L, NEW k \in Nat, Ok(L, k), NEW t, NEW n, Free(L, t, n), NEW M, Coupled(M, L, t, n)
  PROVE  Ok(M, k)
  <1>0. /\ Len(L) \in Nat /\ Len(M) = Len(L) /\ t \in 1 .. Len(L) /\ n \in 1 .. Len(L) /\ t < n
        /\ L[n].link = 0
    BY DEF Ok, PartsOk, IsList, Free, Coupled
  <1>1. /\ IsPair(M, t, n)
        /\ \A x, y : IsPair(L, x, y) => IsPair(M, x, y) /\ x # t /\ x # n /\ y # t /\ y # n
        /\ \A x, y : IsPair(M, x, y) => IsPair(L, x, y) \/ (x = t /\ y = n)
    BY JoinedPairs DEF Ok
  <1>2. ASSUME NEW x \in 1 .. Len(L)
        PROVE  /\ IsPart(M[x]) /\ M[x].id = L[x].id /\ M[x].type = L[x].type /\ M[x].data = L[x].data
               /\ x # t /\ x # n => M[x].link = L[x].link
    BY DEF Ok, PartsOk, Coupled
  <1>3. PartsOk(M, k)
    <2>1. ASSUME NEW x \in 1 .. Len(L), M[x].type = "MESSAGE" PROVE M[x].link = 0
      <3>1. x # t /\ x # n
        BY <1>2, <2>1 DEF Free, IsOpening, IsClosing
      <3> QED
        BY <1>2, <2>1, <3>1 DEF Ok, PartsOk
    <2>2. IsList(M)
      BY DEF Coupled
    <2>3. PartsOk(L, k)
      BY DEF Ok
    <2>4. \A x \in 1 .. Len(L) :
            /\ L[x].id \in 1 .. k /\ L[x].type \in {"OPENING", "CLOSING", "MESSAGE"}
            /\ L[x].type # "MESSAGE" => IsName(L[x].data)
      BY <2>3 DEF PartsOk
    <2>5. \A x \in 1 .. Len(L) :
            /\ IsPart(M[x]) /\ M[x].id \in 1 .. k
            /\ M[x].type \in {"OPENING", "CLOSING", "MESSAGE"}
            /\ M[x].type # "MESSAGE" => IsName(M[x].data)
      BY <1>2, <2>4
    <2>6. \A x, y \in 1 .. Len(L) : M[x].id = M[y].id => x = y
      <3>1. \A x, y \in 1 .. Len(L) : L[x].id = L[y].id => x = y
        BY <2>3 DEF PartsOk
      <3> QED
        BY <1>2, <3>1
    <2> QED
      BY <1>0, <2>1, <2>2, <2>5, <2>6 DEF PartsOk
  <1>4. Mutual(M)
    <2> SUFFICES ASSUME NEW x \in 1 .. Len(L), M[x].link # 0
                 PROVE  \E y \in 1 .. Len(L) : IsPair(M, x, y) \/ IsPair(M, y, x)
      BY <1>0 DEF Mutual
    <2>1. CASE x # t /\ x # n
      BY <1>1, <1>2, <2>1 DEF Ok, Mutual
    <2> QED
      BY <1>0, <1>1, <2>1
  <1>5. Nests(M)
    <2> SUFFICES ASSUME NEW p \in 1 .. Len(L), NEW q \in 1 .. Len(L), NEW r \in 1 .. Len(L),
                        NEW s \in 1 .. Len(L), IsPair(M, p, q), IsPair(M, r, s), p < r, r < q
                 PROVE  s < q
      BY <1>0 DEF Nests
    <2>1. CASE IsPair(L, p, q) /\ IsPair(L, r, s)
      BY <2>1 DEF Ok, Nests
    <2>2. CASE IsPair(L, p, q) /\ r = t
      BY <2>2 DEF Free
    <2>3. CASE p = t /\ q = n /\ IsPair(L, r, s)
      <3>1. s # n
        BY <1>1, <2>3, Zenon
      <3>2. L[s].link = L[r].id /\ L[r].id \in 1 .. k
        BY <2>3 DEF Ok, PartsOk, IsPair
      <3>3. L[s].link # 0
        BY <3>2
      <3>4. s \notin n .. Len(L)
        BY <3>3 DEF Free
      <3> QED
        BY <1>0, <2>3, <3>1, <3>4
    <2> QED
      BY <1>0, <1>1, <2>1, <2>2, <2>3
  <1>6. Strays(M)
    <2> SUFFICES ASSUME NEW p \in 1 .. Len(L), NEW q \in 1 .. Len(L), NEW r \in 1 .. Len(L),
                        IsPair(M, p, r), p < q, q < r, IsClosing(M[q]), M[q].link = 0
                 PROVE  Barred(M, p, q)
      BY <1>0 DEF Strays
    <2>1. q # t /\ q # n
      BY <1>1 DEF IsPair, IsOpening, IsClosing, Coupled, Free, Ok, PartsOk
    <2>2. IsClosing(L[q]) /\ L[q].link = 0
      BY <1>2, <2>1 DEF IsClosing
    <2>3. Barred(L, p, q)
      <3>1. CASE IsPair(L, p, r)
        BY <2>2, <3>1 DEF Ok, Strays
      <3>2. CASE p = t /\ r = n
        <4>1. q \in t + 1 .. n - 1
          BY <1>0, <3>2
        <4> QED
          BY <2>2, <3>2, <4>1 DEF Free
      <3> QED
        BY <1>1, <3>1, <3>2
    <2>4. ASSUME M[q].data = <<"span">>
          PROVE  \E x \in p + 1 .. q - 1 : IsOpening(M[x]) /\ M[x].data # <<"span">>
      <3>1. PICK x \in p + 1 .. q - 1 : IsOpening(L[x]) /\ L[x].data # <<"span">>
        BY <1>2, <2>3, <2>4 DEF Barred
      <3>2. x \in 1 .. Len(L)
        BY <1>0
      <3> QED
        BY <1>2, <3>1, <3>2 DEF IsOpening
    <2> QED
      BY <2>4 DEF Barred
  <1> QED
    BY <1>3, <1>4, <1>5, <1>6 DEF Ok

(* Openings wait on a stack for the closing tags from n on; what follows one *)
(* of them without a link does not keep its own from it.                     *)
Waiting(L, S, n) ==
  /\ n \in 1 .. Len(L) + 1 /\ S \in Seq(Nat)
  /\ \A x \in 1 .. Len(S) : S[x] \in 1 .. n - 1 /\ IsOpening(L[S[x]]) /\ L[S[x]].link = 0
  /\ \A x, y \in 1 .. Len(S) : x < y => S[x] < S[y]
  /\ \A p \in n .. Len(L) : L[p].link = 0
  /\ \A x \in 1 .. Len(S) : \A p, q \in 1 .. Len(L) : IsPair(L, p, q) => ~(p < S[x] /\ S[x] < q)
  /\ \A x \in 1 .. Len(S) : \A q \in 1 .. n - 1 :
       S[x] < q /\ IsClosing(L[q]) /\ L[q].link = 0 => Barred(L, S[x], q)

\* The same once n is passed.
Waited(L, S, n) ==
  /\ \A x \in 1 .. Len(S) : S[x] \in 1 .. n /\ IsOpening(L[S[x]]) /\ L[S[x]].link = 0
  /\ \A x, y \in 1 .. Len(S) : x < y => S[x] < S[y]
  /\ \A p \in n + 1 .. Len(L) : L[p].link = 0
  /\ \A x \in 1 .. Len(S) : \A p, q \in 1 .. Len(L) : IsPair(L, p, q) => ~(p < S[x] /\ S[x] < q)
  /\ \A x \in 1 .. Len(S) : \A q \in 1 .. n :
       S[x] < q /\ IsClosing(L[q]) /\ L[q].link = 0 => Barred(L, S[x], q)

LEMMA WaitingNext ==
  ASSUME NEW L, IsList(L), NEW n \in 1 .. Len(L), NEW S \in Seq(Nat), Waited(L, S, n)
  PROVE  Waiting(L, S, n + 1)
  <1>1. PICK m \in Nat : m = Len(L) /\ n \in 1 .. m
    BY DEF IsList
  <1>2. PICK v \in 1 .. m + 1 : v = n + 1 /\ v - 1 = n
    BY <1>1
  <1>3. Waiting(L, S, v)
    BY <1>1, <1>2 DEF Waiting, Waited
  <1> QED
    BY <1>2, <1>3

LEMMA WaitingPush ==
  ASSUME NEW L, NEW k \in Nat, Ok(L, k), NEW S, NEW n, Waiting(L, S, n), n <= Len(L),
         IsOpening(L[n]), NEW T, T = Append(S, n)
  PROVE  Waiting(L, T, n + 1)
  <1>0. n \in 1 .. Len(L) /\ Len(L) \in Nat /\ S \in Seq(Nat) /\ Len(S) \in Nat /\ n \in Nat
    BY DEF Waiting, Ok, PartsOk, IsList
  <1>1. PICK m \in Nat : m = Len(S)
    BY <1>0
  <1>2. T \in Seq(Nat) /\ Len(T) = m + 1 /\ T[m + 1] = n /\ \A x \in 1 .. m : T[x] = S[x]
    BY <1>0, <1>1, AppendProperties
  <1>3. ASSUME NEW x \in 1 .. m + 1
        PROVE  /\ T[x] \in 1 .. n /\ IsOpening(L[T[x]]) /\ L[T[x]].link = 0
               /\ \A p, q \in 1 .. Len(L) : IsPair(L, p, q) => ~(p < T[x] /\ T[x] < q)
               /\ \A q \in 1 .. n : T[x] < q /\ IsClosing(L[q]) /\ L[q].link = 0 => Barred(L, T[x], q)
    <2>1. CASE x = m + 1
      <3>1. \A p, q \in 1 .. Len(L) : IsPair(L, p, q) => q < n
        <4> SUFFICES ASSUME NEW p \in 1 .. Len(L), NEW q \in 1 .. Len(L), IsPair(L, p, q), q >= n
                     PROVE  FALSE
          BY <1>0
        <4>1. L[q].link = 0
          BY <1>0 DEF Waiting
        <4>2. L[q].link = L[p].id /\ L[p].id \in 1 .. k
          BY DEF IsPair, Ok, PartsOk
        <4> QED
          BY <4>1, <4>2
      <3>2. L[n].link = 0
        BY <1>0 DEF Waiting
      <3>3. T[x] = n
        BY <1>2, <2>1
      <3>4. \A p, q \in 1 .. Len(L) : IsPair(L, p, q) => ~(p < n /\ n < q)
        BY <1>0, <3>1
      <3>5. n \in 1 .. n /\ \A q \in 1 .. n : ~(n < q)
        BY <1>0
      <3> QED
        BY <3>2, <3>3, <3>4, <3>5
    <2>2. CASE x # m + 1
      <3>1. x \in 1 .. m /\ x \in 1 .. Len(S) /\ T[x] = S[x]
        BY <1>1, <1>2, <2>2
      <3>2. S[x] \in 1 .. n - 1 /\ IsOpening(L[S[x]]) /\ L[S[x]].link = 0
        BY <3>1 DEF Waiting
      <3>3. \A p, q \in 1 .. Len(L) : IsPair(L, p, q) => ~(p < S[x] /\ S[x] < q)
        BY <3>1 DEF Waiting
      <3>4. \A q \in 1 .. n - 1 : S[x] < q /\ IsClosing(L[q]) /\ L[q].link = 0 => Barred(L, S[x], q)
        BY <3>1 DEF Waiting
      <3>5. ~IsClosing(L[n])
        BY DEF IsOpening, IsClosing
      <3> QED
        BY <1>0, <3>1, <3>2, <3>3, <3>4, <3>5
    <2> QED
      BY <2>1, <2>2
  <1>4. ASSUME NEW x \in 1 .. m + 1, NEW y \in 1 .. m + 1, x < y PROVE T[x] < T[y]
    <2>1. x \in 1 .. m /\ x \in 1 .. Len(S) /\ T[x] = S[x] /\ S[x] \in 1 .. n - 1
      <3>1. x \in 1 .. m /\ x \in 1 .. Len(S)
        BY <1>1, <1>4
      <3> QED
        BY <1>2, <3>1 DEF Waiting
    <2>2. CASE y = m + 1
      BY <1>0, <1>2, <2>1, <2>2
    <2>3. CASE y # m + 1
      <3>1. y \in 1 .. m /\ y \in 1 .. Len(S) /\ T[y] = S[y]
        BY <1>1, <1>2, <2>3
      <3> QED
        BY <1>4, <2>1, <3>1 DEF Waiting
    <2> QED
      BY <2>2, <2>3
  <1>6. \A p \in n + 1 .. Len(L) : L[p].link = 0
    BY <1>0 DEF Waiting
  <1>7. /\ \A x \in 1 .. Len(T) : T[x] \in 1 .. n /\ IsOpening(L[T[x]]) /\ L[T[x]].link = 0
        /\ \A x \in 1 .. Len(T) : \A q \in 1 .. n :
             T[x] < q /\ IsClosing(L[q]) /\ L[q].link = 0 => Barred(L, T[x], q)
        /\ \A x \in 1 .. Len(T) : \A p, q \in 1 .. Len(L) : IsPair(L, p, q) => ~(p < T[x] /\ T[x] < q)
    BY <1>2, <1>3
  <1>8. \A x, y \in 1 .. Len(T) : x < y => T[x] < T[y]
    BY <1>2, <1>4
  <1>9. Waited(L, T, n)
    BY <1>6, <1>7, <1>8 DEF Waited
  <1>10. IsList(L)
    BY DEF Ok, PartsOk
  <1> QED
    BY <1>0, <1>2, <1>9, <1>10, WaitingNext

\* A text, or a closing tag that finds the stack empty, is passed.
LEMMA WaitingPass ==
  ASSUME NEW L, NEW k \in Nat, Ok(L, k), NEW S, NEW n, Waiting(L, S, n), n <= Len(L),
         L[n].type = "MESSAGE" \/ S = << >>
  PROVE  Waiting(L, S, n + 1)
  <1>0. n \in 1 .. Len(L) /\ Len(L) \in Nat /\ IsList(L) /\ S \in Seq(Nat)
    BY DEF Waiting, Ok, PartsOk, IsList
  <1>1. \A p \in n + 1 .. Len(L) : L[p].link = 0
    <2>1. \A p \in n + 1 .. Len(L) : p \in n .. Len(L)
      BY <1>0
    <2>2. \A p \in n .. Len(L) : L[p].link = 0
      BY DEF Waiting
    <2> QED
      BY <2>1, <2>2
  <1>2. ASSUME NEW x \in 1 .. Len(S)
        PROVE  /\ S[x] \in 1 .. n /\ IsOpening(L[S[x]]) /\ L[S[x]].link = 0
               /\ \A q \in 1 .. n : S[x] < q /\ IsClosing(L[q]) /\ L[q].link = 0 => Barred(L, S[x], q)
    <2>1. S[x] \in 1 .. n - 1 /\ IsOpening(L[S[x]]) /\ L[S[x]].link = 0
      BY DEF Waiting
    <2>2. \A q \in 1 .. n - 1 : S[x] < q /\ IsClosing(L[q]) /\ L[q].link = 0 => Barred(L, S[x], q)
      BY DEF Waiting
    <2>3. ~IsClosing(L[n])
      BY DEF IsClosing
    <2> QED
      BY <1>0, <2>1, <2>2, <2>3
  <1>3. \A x, y \in 1 .. Len(S) : x < y => S[x] < S[y]
    BY DEF Waiting
  <1>4. \A x \in 1 .. Len(S) : \A p, q \in 1 .. Len(L) : IsPair(L, p, q) => ~(p < S[x] /\ S[x] < q)
    BY DEF Waiting
  <1>5. Waited(L, S, n)
    BY <1>1, <1>2, <1>3, <1>4 DEF Waited
  <1> QED
    BY <1>0, <1>5, WaitingNext

\* The last opening is taken off the stack.
LEMMA Popped ==
  ASSUME NEW S \in Seq(Nat), S # << >>, NEW T, T = Front(S)
  PROVE  /\ T \in Seq(Nat) /\ Len(S) \in Nat \ {0} /\ Len(T) = Len(S) - 1
         /\ \A x \in 1 .. Len(T) : T[x] = S[x] /\ x \in 1 .. Len(S) /\ x < Len(S)
  <1>0. Len(S) \in Nat \ {0} /\ \A x \in 1 .. Len(S) : S[x] \in Nat
    BY EmptySeq
  <1>1. \A x \in 1 .. Len(S) - 1 : S[x] \in Nat
    BY <1>0
  <1>2. /\ T \in Seq(Nat)
        /\ Len(T) = IF 1 <= Len(S) - 1 THEN Len(S) - 1 - 1 + 1 ELSE 0
        /\ \A x \in 1 .. Len(S) - 1 - 1 + 1 : T[x] = S[1 + x - 1]
    BY <1>0, <1>1, SubSeqProperties DEF Front
  <1>3. Len(T) = Len(S) - 1
    <2>1. PICK v \in Nat \ {0} : v = Len(S)
      BY <1>0
    <2>2. (IF 1 <= v - 1 THEN v - 1 - 1 + 1 ELSE 0) = v - 1
      OBVIOUS
    <2> QED
      BY <1>2, <2>1, <2>2
  <1>4. ASSUME NEW x \in 1 .. Len(T) PROVE T[x] = S[x] /\ x \in 1 .. Len(S) /\ x < Len(S)
    <2>1. x \in 1 .. Len(S) - 1 - 1 + 1 /\ 1 + x - 1 = x /\ x \in 1 .. Len(S) /\ x < Len(S)
      BY <1>0, <1>3
    <2> QED
      BY <1>2, <2>1
  <1> QED
    BY <1>0, <1>2, <1>3, <1>4

LEMMA WaitingPop ==
  ASSUME NEW L, NEW k \in Nat, Ok(L, k), NEW S, NEW n, Waiting(L, S, n), n <= Len(L),
         IsClosing(L[n]), S # << >>, L[n].data # L[Last(S)].data, NEW T, T = Front(S)
  PROVE  Waiting(L, T, n + 1)
  <1>0. n \in 1 .. Len(L) /\ Len(L) \in Nat /\ IsList(L) /\ S \in Seq(Nat)
    BY DEF Waiting, Ok, PartsOk, IsList
  <1>1. /\ T \in Seq(Nat) /\ Len(S) \in Nat \ {0} /\ Len(T) = Len(S) - 1
        /\ \A x \in 1 .. Len(T) : T[x] = S[x] /\ x \in 1 .. Len(S) /\ x < Len(S)
    <2>1. S \in Seq(Nat)
      BY <1>0
    <2>2. T \in Seq(Nat) /\ Len(S) \in Nat \ {0} /\ Len(T) = Len(S) - 1
      BY <2>1, Popped
    <2>3. \A x \in 1 .. Len(T) : T[x] = S[x] /\ x \in 1 .. Len(S) /\ x < Len(S)
      BY SMTT(30), <2>1, Popped
    <2> QED
      BY <2>2, <2>3
  <1>2. PICK t \in 1 .. n - 1 : t = S[Len(S)] /\ IsOpening(L[t]) /\ L[n].data # L[t].data
    <2>1. Len(S) \in 1 .. Len(S)
      BY <1>1
    <2>2. S[Len(S)] \in 1 .. n - 1 /\ IsOpening(L[S[Len(S)]])
      BY <2>1 DEF Waiting
    <2> QED
      BY <2>2 DEF Last
  <1>3. \A p \in n + 1 .. Len(L) : L[p].link = 0
    BY <1>0 DEF Waiting
  <1>4. ASSUME NEW x \in 1 .. Len(T)
        PROVE  /\ T[x] \in 1 .. n /\ IsOpening(L[T[x]]) /\ L[T[x]].link = 0
               /\ \A p, q \in 1 .. Len(L) : IsPair(L, p, q) => ~(p < T[x] /\ T[x] < q)
               /\ \A q \in 1 .. n : T[x] < q /\ IsClosing(L[q]) /\ L[q].link = 0 => Barred(L, T[x], q)
    <2>1. T[x] = S[x] /\ x \in 1 .. Len(S) /\ x < Len(S)
      BY <1>1
    <2>2. S[x] \in 1 .. n - 1 /\ IsOpening(L[S[x]]) /\ L[S[x]].link = 0
      BY <2>1 DEF Waiting
    <2>3. \A p, q \in 1 .. Len(L) : IsPair(L, p, q) => ~(p < S[x] /\ S[x] < q)
      BY <2>1 DEF Waiting
    <2>4. \A q \in 1 .. n - 1 : S[x] < q /\ IsClosing(L[q]) /\ L[q].link = 0 => Barred(L, S[x], q)
      BY <2>1 DEF Waiting
    <2>5. Barred(L, S[x], n)
      <3>1. S[x] < t
        <4>1. Len(S) \in 1 .. Len(S)
          BY <1>1
        <4>2. S[x] < S[Len(S)]
          BY <2>1, <4>1 DEF Waiting
        <4> QED
          BY <1>2, <4>2
      <3>2. t \in S[x] + 1 .. n - 1
        BY <1>0, <2>2, <3>1
      <3> QED
        BY <1>2, <3>2 DEF Barred
    <2>6. S[x] \in 1 .. n
      BY <1>0, <2>2
    <2>7. \A q \in 1 .. n : q = n \/ q \in 1 .. n - 1
      BY <1>0
    <2>8. \A q \in 1 .. n : S[x] < q /\ IsClosing(L[q]) /\ L[q].link = 0 => Barred(L, S[x], q)
      BY <2>4, <2>5, <2>7
    <2> QED
      BY <2>1, <2>2, <2>3, <2>6, <2>8
  <1>5. ASSUME NEW x \in 1 .. Len(T), NEW y \in 1 .. Len(T), x < y PROVE T[x] < T[y]
    BY <1>1, <1>5 DEF Waiting
  <1>6. /\ \A x \in 1 .. Len(T) : T[x] \in 1 .. n /\ IsOpening(L[T[x]]) /\ L[T[x]].link = 0
        /\ \A x \in 1 .. Len(T) : \A q \in 1 .. n :
             T[x] < q /\ IsClosing(L[q]) /\ L[q].link = 0 => Barred(L, T[x], q)
        /\ \A x \in 1 .. Len(T) : \A p, q \in 1 .. Len(L) : IsPair(L, p, q) => ~(p < T[x] /\ T[x] < q)
    BY <1>4
  <1>7. \A x, y \in 1 .. Len(T) : x < y => T[x] < T[y]
    BY <1>5
  <1>8. Waited(L, T, n)
    BY <1>3, <1>6, <1>7 DEF Waited
  <1> QED
    BY <1>0, <1>1, <1>8, WaitingNext

LEMMA WaitingJoin ==
  ASSUME NEW L, NEW k \in Nat, Ok(L, k), NEW S, NEW n, Waiting(L, S, n), n <= Len(L),
         IsClosing(L[n]), S # << >>, L[n].data = L[Last(S)].data, NEW T, T = Front(S),
         NEW M, Coupled(M, L, Last(S), n)
  PROVE  Ok(M, k) /\ Waiting(M, T, n + 1)
  <1>0. n \in 1 .. Len(L) /\ Len(L) \in Nat /\ IsList(L) /\ S \in Seq(Nat)
    BY DEF Waiting, Ok, PartsOk, IsList
  <1>1. /\ T \in Seq(Nat) /\ Len(S) \in Nat \ {0} /\ Len(T) = Len(S) - 1
        /\ \A x \in 1 .. Len(T) : T[x] = S[x] /\ x \in 1 .. Len(S) /\ x < Len(S)
    BY <1>0, Popped, SMTT(30)
  <1>2. PICK t \in 1 .. n - 1 : t = Last(S) /\ t = S[Len(S)] /\ IsOpening(L[t]) /\ L[t].link = 0
    <2>1. Len(S) \in 1 .. Len(S)
      BY <1>1
    <2>2. S[Len(S)] \in 1 .. n - 1 /\ IsOpening(L[S[Len(S)]]) /\ L[S[Len(S)]].link = 0
      BY <2>1 DEF Waiting
    <2> QED
      BY <2>2 DEF Last
  <1>3. t \in 1 .. Len(L) /\ t < n /\ Coupled(M, L, t, n) /\ L[n].data = L[t].data
    BY <1>0, <1>2
  <1>4. Free(L, t, n)
    <2>1. \A x \in n .. Len(L) : L[x].link = 0
      BY DEF Waiting
    <2>0. PICK h \in 1 .. Len(S) : t = S[h]
      BY <1>1, <1>2
    <2>2. \A x, y \in 1 .. Len(L) : IsPair(L, x, y) => ~(x < t /\ t < y)
      <3>1. \A x, y \in 1 .. Len(L) : IsPair(L, x, y) => ~(x < S[h] /\ S[h] < y)
        BY <2>0 DEF Waiting
      <3> QED
        BY <3>1, <2>0, Zenon
    <2>3. \A x \in 1 .. n - 1 : t < x /\ IsClosing(L[x]) /\ L[x].link = 0 => Barred(L, t, x)
      <3>1. \A x \in 1 .. n - 1 :
              S[h] < x /\ IsClosing(L[x]) /\ L[x].link = 0 => Barred(L, S[h], x)
        BY <2>0, Zenon DEF Waiting
      <3> QED
        BY <3>1, <2>0, Zenon
    <2>4. \A x \in t + 1 .. n - 1 : x \in 1 .. n - 1 /\ t < x
      BY <1>0, <1>3
    <2> QED
      BY <1>0, <1>2, <1>3, <2>1, <2>2, <2>3, <2>4 DEF Free
  <1>5. Ok(M, k)
    BY <1>3, <1>4, JoinedOk
  <1>6. \A x, y : IsPair(M, x, y) => IsPair(L, x, y) \/ (x = t /\ y = n)
    BY <1>3, <1>4, JoinedPairs DEF Ok
  <1>7. /\ Len(M) = Len(L)
        /\ \A x \in 1 .. Len(L) : M[x].type = L[x].type /\ M[x].data = L[x].data
        /\ \A x \in 1 .. Len(L) : x # t /\ x # n => M[x].link = L[x].link
        /\ M[n].link # 0
    <2>1. L[t].id # 0
      BY <1>3 DEF Ok, PartsOk
    <2> QED
      BY <1>3, <2>1 DEF Coupled
  <1>8. \A p \in n + 1 .. Len(L) : M[p].link = 0
    <2> SUFFICES ASSUME NEW p \in n + 1 .. Len(L) PROVE M[p].link = 0
      OBVIOUS
    <2>1. p \in n .. Len(L) /\ p \in 1 .. Len(L) /\ p # t /\ p # n
      BY <1>0, <1>3
    <2> QED
      BY <1>7, <2>1 DEF Waiting
  <1>9. ASSUME NEW x \in 1 .. Len(T)
        PROVE  /\ T[x] \in 1 .. n /\ IsOpening(M[T[x]]) /\ M[T[x]].link = 0
               /\ \A p, q \in 1 .. Len(L) : IsPair(M, p, q) => ~(p < T[x] /\ T[x] < q)
               /\ \A q \in 1 .. n : T[x] < q /\ IsClosing(M[q]) /\ M[q].link = 0 => Barred(M, T[x], q)
    <2>1. T[x] = S[x] /\ x \in 1 .. Len(S) /\ x < Len(S)
      BY <1>1
    <2>2. PICK u \in 1 .. n - 1 : u = S[x] /\ IsOpening(L[u]) /\ L[u].link = 0
      BY <2>1 DEF Waiting
    <2>3. u < t
      <3>1. Len(S) \in 1 .. Len(S)
        BY <1>1
      <3>2. S[x] < S[Len(S)]
        BY <2>1, <3>1 DEF Waiting
      <3> QED
        BY <1>2, <2>2, <3>2
    <2>4. u \in 1 .. Len(L) /\ u \in 1 .. n /\ u # t /\ u # n
      <3>1. \A v \in 1 .. n - 1 : v \in 1 .. Len(L) /\ v \in 1 .. n /\ v # n /\ v \in Int
        BY <1>0
      <3>2. u # t
        BY <1>3, <2>2, <2>3, <3>1
      <3> QED
        BY <2>2, <3>1, <3>2
    <2>5. IsOpening(M[u]) /\ M[u].link = 0
      BY <1>7, <2>2, <2>4 DEF IsOpening
    <2>6. ASSUME NEW p \in 1 .. Len(L), NEW q \in 1 .. Len(L), IsPair(M, p, q), p < u, u < q
          PROVE  FALSE
      <3>1. IsPair(L, p, q)
        BY <1>3, <1>6, <2>3, <2>6
      <3> QED
        BY <2>1, <2>2, <2>6, <3>1 DEF Waiting
    <2>7. ASSUME NEW q \in 1 .. n, u < q, IsClosing(M[q]), M[q].link = 0
          PROVE  Barred(M, u, q)
      <3>1. q \in 1 .. n - 1 /\ q \in 1 .. Len(L) /\ q # n
        BY <1>0, <1>7, <2>7
      <3>2. q # t
        <4>1. M[t].type = L[t].type
          BY <1>3, <1>7
        <4> QED
          BY <1>2, <2>7, <4>1 DEF IsOpening, IsClosing
      <3>3. IsClosing(L[q]) /\ L[q].link = 0
        BY <1>7, <2>7, <3>1, <3>2 DEF IsClosing
      <3>4. Barred(L, u, q)
        BY <2>1, <2>2, <2>7, <3>1, <3>3 DEF Waiting
      <3>5. ASSUME M[q].data = <<"span">>
            PROVE  \E y \in u + 1 .. q - 1 : IsOpening(M[y]) /\ M[y].data # <<"span">>
        <4>1. PICK y \in u + 1 .. q - 1 : IsOpening(L[y]) /\ L[y].data # <<"span">>
          BY <1>7, <3>1, <3>4, <3>5 DEF Barred
        <4>2. y \in 1 .. Len(L)
          BY <1>0, <2>4, <3>1
        <4> QED
          BY <1>7, <4>1, <4>2 DEF IsOpening
      <3> QED
        BY <3>5 DEF Barred
    <2>8. T[x] = u
      BY <2>1, <2>2
    <2> QED
      BY <2>4, <2>5, <2>6, <2>7, <2>8
  <1>10. ASSUME NEW x \in 1 .. Len(T), NEW y \in 1 .. Len(T), x < y PROVE T[x] < T[y]
    BY <1>1, <1>10 DEF Waiting
  <1>11. Waiting(M, T, n + 1)
    <2>1. /\ \A x \in 1 .. Len(T) : T[x] \in 1 .. n /\ IsOpening(M[T[x]]) /\ M[T[x]].link = 0
          /\ \A x \in 1 .. Len(T) : \A q \in 1 .. n :
               T[x] < q /\ IsClosing(M[q]) /\ M[q].link = 0 => Barred(M, T[x], q)
          /\ \A x \in 1 .. Len(T) : \A p, q \in 1 .. Len(M) : IsPair(M, p, q) => ~(p < T[x] /\ T[x] < q)
      BY <1>7, <1>9
    <2>2. \A x, y \in 1 .. Len(T) : x < y => T[x] < T[y]
      BY <1>10
    <2>3. \A p \in n + 1 .. Len(M) : M[p].link = 0
      BY <1>7, <1>8
    <2>4. Waited(M, T, n)
      BY <2>1, <2>2, <2>3 DEF Waited
    <2>5. n \in 1 .. Len(M) /\ IsList(M)
      BY <1>0, <1>3, <1>7 DEF Coupled
    <2> QED
      BY <1>1, <2>4, <2>5, WaitingNext
  <1> QED
    BY <1>5, <1>11

LEMMA InsertAtParts ==
  ASSUME NEW L, NEW p, NEW z
  PROVE  InsertAt(L, p, z) = (SubSeq(L, 1, p - 1) \o <<z>>) \o SubSeq(L, p, Len(L))
  BY DEF InsertAt

LEMMA InsertAtIs ==
  ASSUME NEW L, IsList(L), NEW p \in 1 .. Len(L), NEW z, NEW M, M = InsertAt(L, p + 1, z)
  PROVE  /\ IsList(M) /\ Len(M) = Len(L) + 1
         /\ \A x \in 1 .. Len(L) : M[To(x, p)] = L[x]
         /\ M[p + 1] = z
  <1>1. PICK X : L \in Seq(X)
    BY DEF IsList
  <1> DEFINE S == X \cup {z}
  <1>2. L \in Seq(S) /\ z \in S
    BY <1>1
  <1> HIDE DEF S
  <1>3. PICK m \in Nat : m = Len(L)
    BY <1>2
  <1>4. p \in 1 .. m /\ p \in Nat /\ \A x \in 1 .. m : L[x] \in S
    BY <1>2, <1>3
  <1> DEFINE u == SubSeq(L, 1, p)
             v == <<z>>
             w == SubSeq(L, p + 1, m)
  <1>5. u \in Seq(S) /\ Len(u) = p /\ \A x \in 1 .. p : u[x] = L[x]
    <2>1. \A x \in 1 .. p : L[x] \in S
      BY <1>4
    <2>2. /\ SubSeq(L, 1, p) \in Seq(S)
          /\ Len(SubSeq(L, 1, p)) = IF 1 <= p THEN p - 1 + 1 ELSE 0
          /\ \A x \in 1 .. p - 1 + 1 : SubSeq(L, 1, p)[x] = L[1 + x - 1]
      BY <1>4, <2>1, SubSeqProperties
    <2> QED
      BY <1>4, <2>2
  <1>6. w \in Seq(S) /\ Len(w) = m - p /\ \A x \in 1 .. m - p : w[x] = L[p + x]
    <2>1. \A x \in p + 1 .. m : L[x] \in S
      BY <1>4
    <2>2. /\ SubSeq(L, p + 1, m) \in Seq(S)
          /\ Len(SubSeq(L, p + 1, m)) = IF p + 1 <= m THEN m - (p + 1) + 1 ELSE 0
          /\ \A x \in 1 .. m - (p + 1) + 1 : SubSeq(L, p + 1, m)[x] = L[p + 1 + x - 1]
      BY <1>3, <1>4, <2>1, SubSeqProperties
    <2> QED
      BY <1>3, <1>4, <2>2
  <1>7. v \in Seq(S) /\ Len(v) = 1 /\ v[1] = z
    BY <1>2, One
  <1>8. M = (u \o v) \o w
    <2>1. PICK q \in Nat : q = p + 1
      BY <1>4
    <2>2. InsertAt(L, q, z) = (SubSeq(L, 1, q - 1) \o <<z>>) \o SubSeq(L, q, Len(L))
      BY InsertAtParts
    <2>3. q - 1 = p
      BY <1>4, <2>1
    <2> QED
      BY <1>3, <2>1, <2>2, <2>3
  <1> HIDE DEF u, v, w
  <1> DEFINE a == u \o v
  <1>9. /\ a \in Seq(S) /\ Len(a) = Len(u) + Len(v)
        /\ \A x \in 1 .. Len(u) + Len(v) : a[x] = IF x <= Len(u) THEN u[x] ELSE v[x - Len(u)]
    BY <1>5, <1>7, ConcatProperties
  <1>10. M = a \o w
    BY <1>8
  <1> HIDE DEF a
  <1>11. /\ M \in Seq(S) /\ Len(M) = Len(a) + Len(w)
         /\ \A x \in 1 .. Len(a) + Len(w) : M[x] = IF x <= Len(a) THEN a[x] ELSE w[x - Len(a)]
    <2>1. /\ a \o w \in Seq(S) /\ Len(a \o w) = Len(a) + Len(w)
          /\ \A x \in 1 .. Len(a) + Len(w) : (a \o w)[x] = IF x <= Len(a) THEN a[x] ELSE w[x - Len(a)]
      <3>1. a \in Seq(S) /\ w \in Seq(S)
        BY <1>6, <1>9
      <3> QED
        BY <3>1, ConcatProperties
    <2> QED
      BY <1>10, <2>1, Zenon
  <1>12. PICK e \in 2 .. m + 1 : e = p + 1
    BY <1>3, <1>4
  <1>13. Len(a) = e /\ Len(a) + Len(w) = m + 1 /\ Len(u) + Len(v) = e
    BY <1>3, <1>4, <1>5, <1>6, <1>7, <1>9, <1>12
  <1>14. /\ \A x \in 1 .. e : a[x] = IF x <= p THEN u[x] ELSE v[x - p]
         /\ \A x \in 1 .. m + 1 : M[x] = IF x <= e THEN a[x] ELSE w[x - e]
    BY <1>5, <1>9, <1>11, <1>13
  <1>15. M[e] = z
    <2>1. a[e] = v[e - p] /\ e - p = 1
      BY <1>4, <1>12, <1>14
    <2>2. M[e] = a[e]
      BY <1>12, <1>14
    <2> QED
      BY <1>7, <2>1, <2>2
  <1>16. ASSUME NEW x \in 1 .. m PROVE M[To(x, p)] = L[x]
    <2>1. CASE x <= p
      <3>1. To(x, p) = x /\ x \in 1 .. p /\ x \in 1 .. e /\ x \in 1 .. m + 1 /\ x <= e
        BY <1>4, <1>12, <2>1 DEF To
      <3>2. M[x] = a[x]
        BY <1>14, <3>1
      <3>3. a[x] = u[x]
        BY <1>14, <2>1, <3>1
      <3> QED
        BY <1>5, <3>1, <3>2, <3>3
    <2>2. CASE ~(x <= p)
      <3>1. PICK y \in 1 .. m + 1 : y = x + 1
        OBVIOUS
      <3>2. To(x, p) = y /\ ~(y <= e) /\ y - e \in 1 .. m - p /\ p + (y - e) = x
        BY <1>4, <1>12, <2>2, <3>1 DEF To
      <3>3. M[y] = w[y - e]
        BY <1>14, <3>2
      <3> QED
        BY <1>6, <3>2, <3>3
    <2> QED
      BY <2>1, <2>2
  <1>17. IsList(M) /\ Len(M) = m + 1
    BY <1>11, <1>13 DEF IsList
  <1> QED
    BY <1>3, <1>12, <1>15, <1>16, <1>17

LEMMA InsertedIs ==
  ASSUME NEW L, NEW k \in Nat, PartsOk(L, k), NEW p \in 1 .. Len(L), IsOpening(L[p]),
         NEW z, IsPart(z), z.id = k + 1, z.type = "CLOSING", z.data = L[p].data, z.link = L[p].id,
         NEW M, M = [InsertAt(L, p + 1, z) EXCEPT ![p].link = z.id]
  PROVE  Inserted(M, L, p, k + 1)
  <1> DEFINE D == InsertAt(L, p + 1, z)
             y == [D[p] EXCEPT !.link = z.id]
  <1>0. IsList(L) /\ IsPart(L[p])
    BY DEF PartsOk
  <1>1. PICK m \in Nat : m = Len(L) /\ p \in 1 .. m
    BY <1>0 DEF IsList
  <1>2. /\ IsList(D) /\ Len(D) = m + 1
        /\ \A x \in 1 .. m : D[To(x, p)] = L[x]
        /\ D[p + 1] = z
    BY <1>0, <1>1, InsertAtIs
  <1>3. DOMAIN D = 1 .. m + 1
    BY <1>2 DEF IsList
  <1>4. p \in 1 .. m + 1 /\ p # p + 1 /\ p + 1 \in 1 .. m + 1
    BY <1>1
  <1>5. M = [D EXCEPT ![p] = y]
    BY <1>3, <1>4
  <1>6. D[p] = L[p]
    <2>1. To(p, p) = p
      BY DEF To
    <2> QED
      BY <1>1, <1>2, <2>1
  <1>7. IsPart(y) /\ y.link = k + 1 /\ y.id = L[p].id /\ y.type = L[p].type /\ y.data = L[p].data
    <2>1. PICK t : t = D[p]
      OBVIOUS
    <2>2. PICK v : v = z.id
      OBVIOUS
    <2>3. WithLink(y, t, v)
      BY <2>1, <2>2 DEF WithLink
    <2>4. IsPart(t)
      BY <1>0, <1>6, <2>1
    <2> HIDE DEF y, D
    <2>5. IsPart(y) /\ y.link = v /\ y.id = t.id /\ y.type = t.type /\ y.data = t.data
      BY <2>3, <2>4, LinkUpdated
    <2> QED
      BY <1>6, <2>1, <2>2, <2>5
  <1> HIDE DEF y
  <1>8. With(M, D, p, y)
    BY <1>5 DEF With
  <1> HIDE DEF D
  <1>9. /\ IsList(M) /\ Len(M) = m + 1
        /\ \A x \in 1 .. m + 1 : M[x] = IF x = p THEN y ELSE D[x]
    <2>1. p \in 1 .. Len(D)
      BY <1>2, <1>4
    <2>2. /\ IsList(M) /\ Len(M) = Len(D)
          /\ \A x \in 1 .. Len(D) : M[x] = IF x = p THEN y ELSE D[x]
      BY <1>2, <1>8, <2>1, ListUpdated
    <2> QED
      BY <1>2, <2>2
  <1>10. ASSUME NEW x \in 1 .. m, x # p PROVE M[To(x, p)] = L[x]
    <2>1. To(x, p) \in 1 .. m + 1 /\ To(x, p) # p
      BY <1>1, <1>10 DEF To
    <2> QED
      BY <1>2, <1>9, <2>1
  <1>11. M[p] = y /\ M[p + 1] = z
    BY <1>2, <1>4, <1>9
  <1> QED
    BY <1>1, <1>7, <1>9, <1>10, <1>11 DEF Inserted

-----------------------------------------------------------------------------
(* The parts that create_parts() makes.                                      *)

Unlinked(L) == \A p \in 1 .. Len(L) : L[p].link = 0

\* Parts numbered after k.
Fresh(P, k) ==
  /\ IsList(P)
  /\ \A x \in 1 .. Len(P) :
       /\ IsPart(P[x]) /\ P[x].id = k + x /\ P[x].link = 0
       /\ P[x].type \in {"OPENING", "CLOSING", "MESSAGE"}
       /\ P[x].type # "MESSAGE" => IsName(P[x].data)

LEMMA Grown ==
  ASSUME NEW L, NEW k \in Nat, PartsOk(L, k), Unlinked(L), NEW P, Fresh(P, k), NEW M, M = L \o P
  PROVE  PartsOk(M, k + Len(P)) /\ Unlinked(M)
  <1>1. PICK A : L \in Seq(A)
    BY DEF PartsOk, IsList
  <1>2. PICK B : P \in Seq(B)
    BY DEF Fresh, IsList
  <1> DEFINE S == A \cup B
  <1>3. L \in Seq(S) /\ P \in Seq(S)
    BY <1>1, <1>2
  <1> HIDE DEF S
  <1>4. PICK m \in Nat : m = Len(L)
    BY <1>3
  <1>5. PICK n \in Nat : n = Len(P)
    BY <1>3
  <1>6. /\ L \o P \in Seq(S) /\ Len(L \o P) = Len(L) + Len(P)
        /\ \A x \in 1 .. Len(L) + Len(P) : (L \o P)[x] = IF x <= Len(L) THEN L[x] ELSE P[x - Len(L)]
    BY <1>3, ConcatProperties
  <1>7. /\ IsList(M) /\ Len(M) = m + n
        /\ \A x \in 1 .. m + n : M[x] = IF x <= m THEN L[x] ELSE P[x - m]
    BY <1>4, <1>5, <1>6, Zenon DEF IsList
  <1>8. ASSUME NEW x \in 1 .. m
        PROVE  /\ IsPart(M[x]) /\ M[x] = L[x] /\ M[x].id \in 1 .. k /\ M[x].link = 0
               /\ M[x].type \in {"OPENING", "CLOSING", "MESSAGE"}
               /\ M[x].type # "MESSAGE" => IsName(M[x].data)
    <2>1. M[x] = L[x]
      BY <1>7
    <2> QED
      BY <1>4, <2>1 DEF PartsOk, Unlinked
  <1>9. ASSUME NEW x \in 1 .. m + n, ~(x <= m)
        PROVE  /\ IsPart(M[x]) /\ M[x].id = k + (x - m) /\ M[x].link = 0 /\ x - m \in 1 .. n
               /\ M[x].type \in {"OPENING", "CLOSING", "MESSAGE"}
               /\ M[x].type # "MESSAGE" => IsName(M[x].data)
    <2>1. PICK y \in 1 .. n : y = x - m
      BY <1>9
    <2>2. M[x] = P[y]
      BY <1>7, <1>9, <2>1
    <2> QED
      BY <1>5, <2>1, <2>2 DEF Fresh
  <1>10. ASSUME NEW x \in 1 .. m + n
         PROVE  /\ IsPart(M[x]) /\ M[x].id \in 1 .. k + n /\ M[x].link = 0
                /\ M[x].type \in {"OPENING", "CLOSING", "MESSAGE"}
                /\ M[x].type # "MESSAGE" => IsName(M[x].data)
    <2>1. CASE x <= m
      <3>1. x \in 1 .. m
        BY <2>1
      <3>2. M[x].id \in 1 .. k
        BY <1>8, <3>1
      <3>3. \A v \in 1 .. k : v \in 1 .. k + n
        OBVIOUS
      <3> QED
        BY <3>2, <1>8, <3>1, <3>3
    <2>2. CASE ~(x <= m)
      <3>1. M[x].id = k + (x - m) /\ x - m \in 1 .. n
        BY <1>9, <2>2
      <3>2. M[x].id \in 1 .. k + n
        BY <3>1
      <3> QED
        BY <1>9, <2>2, <3>2
    <2> QED
      BY <2>1, <2>2
  <1>11. ASSUME NEW x \in 1 .. m + n, NEW y \in 1 .. m + n, M[x].id = M[y].id PROVE x = y
    <2>1. CASE x <= m /\ y <= m
      <3>1. x \in 1 .. m /\ y \in 1 .. m
        BY <2>1
      <3>2. L[x].id = L[y].id
        BY <1>8, <1>11, <3>1
      <3> QED
        BY <1>4, <3>1, <3>2 DEF PartsOk
    <2>2. CASE ~(x <= m) /\ ~(y <= m)
      <3>1. k + (x - m) = k + (y - m)
        BY <1>9, <1>11, <2>2
      <3> QED
        BY <3>1
    <2>3. ASSUME NEW v \in 1 .. m + n, NEW w \in 1 .. m + n, v <= m, ~(w <= m)
          PROVE  M[v].id # M[w].id
      <3>1. v \in 1 .. m
        BY <2>3
      <3>2. M[v].id \in 1 .. k
        BY <1>8, <3>1
      <3>3. M[w].id = k + (w - m)
        BY <1>9, <2>3
      <3>4. k + (w - m) \notin 1 .. k
        BY <2>3
      <3> QED
        BY <3>2, <3>3, <3>4
    <2> QED
      BY <1>11, <2>1, <2>2, <2>3
  <1>12. PartsOk(M, k + n)
    BY <1>7, <1>10, <1>11 DEF PartsOk
  <1> QED
    BY <1>5, <1>7, <1>10, <1>12 DEF Unlinked

LEMMA PartIs ==
  ASSUME NEW id, NEW type, NEW data, NEW attributes, NEW x, x = Part(id, type, data, attributes)
  PROVE  /\ IsPart(x) /\ x.id = id /\ x.type = type /\ x.data = data /\ x.link = 0
  BY DEF Part, IsPart

LEMMA TagPartIs ==
  ASSUME NEW id, NEW data, NEW x, x = TagPart(id, data)
  PROVE  /\ IsPart(x) /\ x.id = id /\ x.type \in {"OPENING", "CLOSING"} /\ x.link = 0
         /\ x.data = TagPart(1, data).data
  <1> DEFINE closing == data[1] = SLASH
             fields  == Fields(IF closing THEN Tail(data) ELSE data)
             type    == IF closing THEN "CLOSING" ELSE "OPENING"
             name    == IF fields = << >> THEN << >> ELSE fields[1]
             others  == IF fields = << >> THEN << >>
                        ELSE [f \in 1 .. Len(fields) - 1 |-> AttributeOf(fields[f + 1])]
  <1>1. x = Part(id, type, name, others)
    BY DEF TagPart
  <1>2. PICK v : v = 1
    OBVIOUS
  <1>3. TagPart(v, data) = Part(v, type, name, others)
    BY DEF TagPart
  <1>4. type \in {"OPENING", "CLOSING"}
    OBVIOUS
  <1> HIDE DEF closing, fields, type, name, others
  <1>5. IsPart(x) /\ x.id = id /\ x.type = type /\ x.data = name /\ x.link = 0
    BY <1>1, PartIs
  <1>6. TagPart(v, data).data = name
    BY <1>3, PartIs
  <1> QED
    BY <1>2, <1>4, <1>5, <1>6

\* Within brackets, what was read since they were opened.
InTag ==
  bracket =>
    \E x \in 1 .. i - 1 :
      /\ message[x] = LT /\ prev_data = SubSeq(message, x + 1, i - 1)
      /\ \A z \in x + 1 .. i - 1 : message[z] # GT

IsMessage == \E b \in Beginnings, e \in Endings : message = b \o e

Making ==
  /\ IsMessage /\ i \in 1 .. Len(message) + 1 /\ bracket \in BOOLEAN /\ InTag
  /\ ptr = 1 /\ made \in Nat /\ PartsOk(list, made) /\ Unlinked(list) /\ parts_stack = << >>

LEMMA MessageIs ==
  ASSUME IsMessage
  PROVE  message \in Seq(STRING) /\ Len(message) \in Nat
  <1>1. PICK b \in Seq(STRING), e \in Seq(STRING) : message = b \o e
    BY MessageAssumption DEF IsMessage
  <1>2. b \o e \in Seq(STRING)
    BY ConcatProperties
  <1> QED
    BY <1>1, <1>2

\* The name of a tag is a name.
LEMMA TagNamed ==
  ASSUME Making, bracket, i <= Len(message), message[i] = GT, prev_data # << >>
  PROVE  IsName(TagPart(1, prev_data).data)
  <1>1. message \in Seq(STRING) /\ Len(message) \in Nat /\ i \in 1 .. Len(message)
    BY MessageIs DEF Making
  <1>2. PICK x \in 1 .. i - 1 :
          /\ message[x] = LT /\ prev_data = SubSeq(message, x + 1, i - 1)
          /\ \A z \in x + 1 .. i - 1 : message[z] # GT
    BY DEF Making, InTag
  <1>3. DOMAIN message = 1 .. Len(message) /\ x \in 1 .. Len(message)
    BY <1>1
  <1>4. x + 1 < i
    <2>1. CASE x + 1 = i
      <3>1. x + 1 \in Int /\ i - 1 \in Int /\ i - 1 < x + 1
        BY <1>1, <1>2, <2>1
      <3>2. SubSeq(message, x + 1, i - 1) = << >>
        BY <1>1, <3>1, SubSeqEmpty
      <3> QED
        BY <1>2, <3>2
    <2> QED
      BY <1>1, <1>2, <2>1
  <1>5. InBrackets(message, x, i)
    BY <1>2, <1>4 DEF InBrackets
  <1>6. PICK b \in Beginnings, e \in Endings : message = b \o e
    BY DEF Making, IsMessage
  <1>7. \A v, w \in DOMAIN message : InBrackets(message, v, w) =>
          LET name == TagPart(1, SubSeq(message, v + 1, w - 1)).data
          IN  name \in Seq(ToSet(message) \ {AT, COMMA, DOTS}) /\ IsPlain(name)
    BY <1>6, MessageAssumption
  <1>9. PICK s : s = TagPart(1, prev_data).data
    OBVIOUS
  <1>10. s \in Seq(ToSet(message) \ {AT, COMMA, DOTS}) /\ IsPlain(s)
    BY <1>1, <1>2, <1>3, <1>5, <1>7, <1>9
  <1>11. PICK A : A = ToSet(message) \ {AT, COMMA, DOTS}
    OBVIOUS
  <1>12. s \in Seq(A) /\ \A v \in A : v \notin {AT, COMMA, DOTS}
    BY <1>10, <1>11
  <1>13. IsName(s)
    BY <1>10, <1>12 DEF IsName, IsList
  <1> QED
    BY <1>9, <1>13

LEMMA OnePart ==
  ASSUME NEW k \in Nat, NEW y, IsPart(y), y.id = k + 1, y.link = 0,
         y.type \in {"OPENING", "CLOSING", "MESSAGE"}, y.type # "MESSAGE" => IsName(y.data)
  PROVE  Fresh(<<y>>, k) /\ Len(<<y>>) = 1
  <1>1. PICK P : P = <<y>>
    OBVIOUS
  <1>2. P \in Seq({y}) /\ Len(P) = 1 /\ P[1] = y
    BY <1>1, One
  <1>3. \A x \in 1 .. 1 : x = 1
    OBVIOUS
  <1> QED
    BY <1>1, <1>2, <1>3 DEF Fresh, IsList

LEMMA TwoParts ==
  ASSUME NEW k \in Nat, NEW y, IsPart(y), y.id = k + 1, y.link = 0, y.type \in {"OPENING", "CLOSING"},
         NEW z, IsPart(z), z.id = k + 2, z.link = 0, z.type \in {"OPENING", "CLOSING"},
         IsName(y.data), IsName(z.data)
  PROVE  Fresh(<<y, z>>, k) /\ Len(<<y, z>>) = 2
  <1>1. PICK P : P = <<y, z>>
    OBVIOUS
  <1>2. P \in Seq({y, z}) /\ Len(P) = 2 /\ P[1] = y /\ P[2] = z
    BY <1>1
  <1>3. \A x \in 1 .. 2 : x = 1 \/ x = 2
    OBVIOUS
  <1> QED
    BY <1>1, <1>2, <1>3 DEF Fresh, IsList

LEMMA NoPart == ASSUME NEW k \in Nat PROVE Fresh(<< >>, k)
  <1>1. << >> \in Seq({}) /\ Len(<< >>) = 0
    BY EmptySeq
  <1> QED
    BY <1>1 DEF Fresh, IsList

Made == made' \in Nat /\ PartsOk(list', made') /\ Unlinked(list')

LEMMA PartsAdded ==
  ASSUME made \in Nat, PartsOk(list, made), Unlinked(list), NEW P, Fresh(P, made), AddParts(P)
  PROVE  Made
  <1>1. Len(P) \in Nat
    BY DEF Fresh, IsList
  <1>2. list' = list \o P /\ made' = made + Len(P)
    BY DEF AddParts
  <1> QED
    <2>1. list' = list \o P
      BY <1>2
    <2>2. PartsOk(list', made + Len(P)) /\ Unlinked(list')
      BY <2>1, Grown
    <2>3. made + Len(P) \in Nat
      BY <1>1
    <2> QED
      BY <1>2, <2>2, <2>3 DEF Made

LEMMA TextAdded ==
  ASSUME made \in Nat, PartsOk(list, made), Unlinked(list),
         AddParts(IF prev_data = << >> THEN << >> ELSE <<TextPart(made + 1, prev_data)>>)
  PROVE  Made
  <1>1. CASE prev_data = << >>
    <2>1. AddParts(<< >>)
      BY <1>1
    <2> QED
      BY <2>1, NoPart, PartsAdded
  <1>2. CASE prev_data # << >>
    <2>1. PICK y : y = TextPart(made + 1, prev_data)
      OBVIOUS
    <2>2. AddParts(<<y>>)
      BY <1>2, <2>1
    <2>3. y = Part(made + 1, "MESSAGE", prev_data, << >>)
      BY <2>1 DEF TextPart
    <2>4. IsPart(y) /\ y.id = made + 1 /\ y.type = "MESSAGE" /\ y.link = 0
      BY <2>3 DEF Part, IsPart
    <2>5. Fresh(<<y>>, made)
      BY <2>4, OnePart
    <2> QED
      BY <2>2, <2>5, PartsAdded
  <1> QED
    BY <1>1, <1>2

LEMMA TagAdded ==
  ASSUME Making, i <= Len(message), EndOfTag
  PROVE  Made /\ bracket' = FALSE
  <1>0. made \in Nat /\ PartsOk(list, made) /\ Unlinked(list) /\ bracket /\ message[i] = GT /\ bracket' = FALSE
    BY DEF Making, EndOfTag
  <1>1. CASE prev_data = << >> \/ (SelfClosing /\ Len(prev_data) = 1)
    <2>1. AddParts(<< >>)
      BY <1>1 DEF EndOfTag
    <2> QED
      BY <1>0, <2>1, NoPart, PartsAdded
  <1>2. CASE ~(prev_data = << >> \/ (SelfClosing /\ Len(prev_data) = 1))
    <2>1. PICK y : y = TagPart(made + 1, prev_data)
      OBVIOUS
    <2>2. PICK z : z = CloneToClose(made + 2, y)
      OBVIOUS
    <2>3. AddParts(IF SelfClosing THEN <<y, z>> ELSE <<y>>)
      BY <1>2, <2>1, <2>2 DEF EndOfTag
    <2>4. /\ IsPart(y) /\ y.id = made + 1 /\ y.type \in {"OPENING", "CLOSING"} /\ y.link = 0
          /\ IsName(y.data)
      <3>1. /\ IsPart(y) /\ y.id = made + 1 /\ y.type \in {"OPENING", "CLOSING"} /\ y.link = 0
            /\ y.data = TagPart(1, prev_data).data
        BY <2>1, TagPartIs
      <3>2. IsName(TagPart(1, prev_data).data)
        BY <1>0, <1>2, TagNamed
      <3> QED
        BY <3>1, <3>2
    <2>5. IsPart(z) /\ z.id = made + 2 /\ z.type = "CLOSING" /\ z.link = 0 /\ z.data = y.data
      BY <2>2 DEF CloneToClose, Part, IsPart
    <2>6. CASE SelfClosing
      <3>1. AddParts(<<y, z>>)
        BY <2>3, <2>6
      <3>2. Fresh(<<y, z>>, made)
        BY <1>0, <2>4, <2>5, TwoParts
      <3> QED
        BY <1>0, <3>1, <3>2, PartsAdded
    <2>7. CASE ~SelfClosing
      <3>1. AddParts(<<y>>)
        BY <2>3, <2>7
      <3>2. Fresh(<<y>>, made)
        BY <1>0, <2>4, OnePart
      <3> QED
        BY <1>0, <3>1, <3>2, PartsAdded
    <2> QED
      BY <2>6, <2>7
  <1> QED
    BY <1>0, <1>1, <1>2

LEMMA MakingStep ==
  ASSUME Making, CreateParts
  PROVE  Making'
  <1>0. /\ message \in Seq(STRING) /\ Len(message) \in Nat /\ i \in 1 .. Len(message)
        /\ i' = i + 1 /\ message' = message /\ parts_stack' = << >> /\ ptr' = 1
        /\ IsMessage' /\ bracket \in BOOLEAN
        /\ made \in Nat /\ PartsOk(list, made) /\ Unlinked(list)
    <2>1. i' = i + 1 /\ message' = message /\ i <= Len(message) /\ parts_stack' = parts_stack /\ ptr' = ptr
      BY DEF CreateParts, given
    <2>2. message \in Seq(STRING) /\ Len(message) \in Nat
      BY MessageIs DEF Making
    <2>3. IsMessage'
      BY <2>1 DEF Making, IsMessage
    <2> QED
      BY <2>1, <2>2, <2>3 DEF Making
  <1>1. i' \in 1 .. Len(message') + 1
    BY <1>0
  <1>2. Made /\ bracket' \in BOOLEAN /\ InTag'
    <2>1. CASE EndOfText
      <3>1. Made /\ bracket' = TRUE /\ prev_data' = << >> /\ message[i] = LT
        BY <1>0, <2>1, TextAdded DEF EndOfText
      <3>2. SubSeq(message, i + 1, i + 1 - 1) = << >>
        BY <1>0, SubSeqEmpty
      <3>3. i \in 1 .. i' - 1 /\ i' - 1 = i + 1 - 1 /\ \A z \in i + 1 .. i' - 1 : message[z] # GT
        BY <1>0
      <3> QED
        BY <1>0, <3>1, <3>2, <3>3 DEF InTag
    <2>2. CASE EndOfTag
      <3>1. Made /\ bracket' = FALSE
        BY <1>0, <2>2, TagAdded
      <3> QED
        BY <3>1 DEF InTag
    <2>3. CASE WithinPart
      <3>1. prev_data' = Append(prev_data, message[i]) /\ AddParts(<< >>) /\ bracket' = bracket
        BY <2>3 DEF WithinPart
      <3>2. Made
        BY <1>0, <3>1, NoPart, PartsAdded
      <3>3. ASSUME bracket
            PROVE  \E x \in 1 .. i : /\ message[x] = LT /\ prev_data' = SubSeq(message, x + 1, i)
                                     /\ \A z \in x + 1 .. i : message[z] # GT
        <4>1. PICK x \in 1 .. i - 1 :
                /\ message[x] = LT /\ prev_data = SubSeq(message, x + 1, i - 1)
                /\ \A z \in x + 1 .. i - 1 : message[z] # GT
          BY <3>3 DEF Making, InTag
        <4>2. message[i] # GT
          BY <2>3, <3>3 DEF WithinPart
        <4>3. PICK m \in 1 .. Len(message) : m = x + 1 /\ i \in m .. Len(message) /\ m \in 1 .. i
          BY <1>0
        <4>4. SubSeq(message, m, i) = SubSeq(message, m, i - 1) \o <<message[i]>>
          BY <1>0, <4>3, SubSeqRecursiveSecond
        <4>5. prev_data \in Seq(STRING) /\ message[i] \in STRING
          <5>1. \A z \in m .. i - 1 : message[z] \in STRING
            BY <1>0, <4>3
          <5>2. m \in Int /\ i - 1 \in Int
            BY <1>0, <4>3
          <5>3. SubSeq(message, m, i - 1) \in Seq(STRING)
            BY <5>1, <5>2, SubSeqProperties
          <5> QED
            BY <1>0, <4>1, <4>3, <5>3
        <4>6. prev_data' = prev_data \o <<message[i]>>
          BY <3>1, <4>5, AppendIsConcat
        <4>7. prev_data' = SubSeq(message, x + 1, i)
          BY <4>1, <4>3, <4>4, <4>6
        <4>8. \A z \in x + 1 .. i : z = i \/ z \in x + 1 .. i - 1
          BY <1>0
        <4>9. x \in 1 .. i
          BY <1>0
        <4> QED
          BY <4>1, <4>2, <4>7, <4>8, <4>9
      <3>4. i' - 1 = i
        BY <1>0
      <3>5. InTag'
        BY <1>0, <3>1, <3>3, <3>4 DEF InTag
      <3> QED
        BY <1>0, <3>1, <3>2, <3>5
    <2> QED
      BY <2>1, <2>2, <2>3 DEF CreateParts
  <1> QED
    BY <1>0, <1>1, <1>2 DEF Making, Made

-----------------------------------------------------------------------------
(* From one pass to the next, the links are what they have to be.            *)

Linking == made \in Nat /\ Ok(list, made) /\ Waiting(list, parts_stack, ptr)

Closing == made \in Nat /\ Ok(list, made) /\ ptr \in 1 .. Len(list) + 1 /\ Opened(list, ptr - 1)

Tied == made \in Nat /\ Ok(list, made) /\ Opened(list, Len(list))

LEMMA UnlinkedOk ==
  ASSUME NEW L, NEW k \in Nat, PartsOk(L, k), Unlinked(L)
  PROVE  Ok(L, k) /\ Waiting(L, << >>, 1)
  <1>1. \A p, q : ~IsPair(L, p, q)
    <2> SUFFICES ASSUME NEW p, NEW q, IsPair(L, p, q) PROVE FALSE
      OBVIOUS
    <2>1. p \in 1 .. Len(L) /\ q \in 1 .. Len(L) /\ L[p].link = L[q].id
      BY DEF IsPair
    <2>2. L[p].link = 0 /\ L[q].id \in 1 .. k
      BY <2>1 DEF PartsOk, Unlinked
    <2> QED
      BY <2>1, <2>2
  <1>2. Ok(L, k)
    BY <1>1 DEF Ok, Mutual, Nests, Strays, Unlinked
  <1>3. << >> \in Seq(Nat) /\ Len(<< >>) = 0 /\ 1 \in 1 .. Len(L) + 1
    BY EmptySeq DEF PartsOk, IsList
  <1> QED
    BY <1>2, <1>3 DEF Waiting, Unlinked

LEMMA CreatedStep ==
  ASSUME Making, PartsCreated
  PROVE  Linking' /\ ptr' = 1
  <1>1. Made
    BY TextAdded DEF Making, PartsCreated
  <1>2. parts_stack' = << >> /\ ptr' = 1
    BY DEF Making, PartsCreated
  <1>3. Ok(list', made') /\ Waiting(list', << >>, 1)
    BY <1>1, UnlinkedOk DEF Made
  <1> QED
    BY <1>1, <1>2, <1>3 DEF Linking, Made

LEMMA LinkingStep ==
  ASSUME Linking, associate_links
  PROVE  Linking' /\ ptr' \in Nat \ {0}
  <1>0. /\ made \in Nat /\ made' = made /\ Ok(list, made) /\ Waiting(list, parts_stack, ptr)
        /\ ptr \in 1 .. Len(list) /\ ptr' = ptr + 1 /\ Len(list) \in Nat
        /\ IsList(list) /\ \A x \in 1 .. Len(list) : IsPart(list[x])
    <2>1. made' = made /\ ptr' = ptr + 1 /\ ptr <= Len(list)
      BY DEF associate_links
    <2>2. /\ made \in Nat /\ Ok(list, made) /\ Waiting(list, parts_stack, ptr)
          /\ ptr \in 1 .. Len(list) + 1
      BY DEF Linking, Waiting
    <2>3. IsList(list) /\ Len(list) \in Nat /\ \A x \in 1 .. Len(list) : IsPart(list[x])
      BY <2>2 DEF Ok, PartsOk, IsList
    <2> QED
      BY <2>1, <2>2, <2>3
  <1>1. ptr' \in Nat \ {0} /\ ptr <= Len(list)
    BY <1>0
  <1>2. CASE IsOpening(list[ptr]) /\ parts_stack' = Append(parts_stack, ptr) /\ UNCHANGED list
    <2>1. Waiting(list, parts_stack', ptr + 1)
      BY <1>0, <1>1, <1>2, WaitingPush
    <2> QED
      BY <1>0, <1>1, <1>2, <2>1 DEF Linking
  <1>3. CASE IsClosing(list[ptr]) /\ parts_stack # << >>
    <2>1. /\ parts_stack' = Front(parts_stack)
          /\ list' = IF Match(ptr, Last(parts_stack)) THEN Linked(list, ptr, Last(parts_stack)) ELSE list
      BY <1>3 DEF associate_links, IsOpening, IsClosing
    <2>2. CASE list[ptr].data = list[Last(parts_stack)].data
      <3>1. list' = Linked(list, ptr, Last(parts_stack))
        BY <2>1, <2>2 DEF Match
      <3>2. Last(parts_stack) \in 1 .. Len(list) /\ Last(parts_stack) # ptr
        <4>1. parts_stack \in Seq(Nat) /\ Len(parts_stack) \in Nat \ {0}
          BY <1>0, <1>3, EmptySeq DEF Waiting
        <4>2. Len(parts_stack) \in 1 .. Len(parts_stack)
          BY <4>1
        <4>3. parts_stack[Len(parts_stack)] \in 1 .. ptr - 1
          BY <1>0, <4>2 DEF Waiting
        <4>4. \A v \in 1 .. ptr - 1 : v \in 1 .. Len(list) /\ v # ptr
          BY <1>0
        <4> QED
          BY <4>3, <4>4 DEF Last
      <3>3. Coupled(list', list, Last(parts_stack), ptr)
        BY <1>0, <3>1, <3>2, LinkedIs
      <3>4. Ok(list', made) /\ Waiting(list', parts_stack', ptr + 1)
        BY <1>0, <1>1, <1>3, <2>1, <2>2, <3>3, WaitingJoin
      <3> QED
        BY <1>0, <1>1, <3>4 DEF Linking
    <2>3. CASE list[ptr].data # list[Last(parts_stack)].data
      <3>1. list' = list
        BY <2>1, <2>3 DEF Match
      <3>2. Waiting(list, parts_stack', ptr + 1)
        BY <1>0, <1>1, <1>3, <2>1, <2>3, WaitingPop
      <3> QED
        BY <1>0, <1>1, <3>1, <3>2 DEF Linking
    <2> QED
      BY <2>2, <2>3
  <1>4. CASE /\ list[ptr].type = "MESSAGE" \/ (IsClosing(list[ptr]) /\ parts_stack = << >>)
             /\ UNCHANGED <<parts_stack, list>>
    <2>1. Waiting(list, parts_stack, ptr + 1)
      BY <1>0, <1>1, <1>4, WaitingPass
    <2> QED
      BY <1>0, <1>1, <1>4, <2>1 DEF Linking
  <1> QED
    BY <1>2, <1>3, <1>4 DEF associate_links

\* The closing part that is made for a name has that name.
LEMMA ClosingIs ==
  ASSUME NEW id, NEW name, IsName(name), NEW y, y = ClosingPart(id, name)
  PROVE  IsPart(y) /\ y.id = id /\ y.type = "CLOSING" /\ y.data = name
  <1>1. PICK data : data = <<SLASH>> \o name
    OBVIOUS
  <1>2. data[1] = SLASH
    <2>1. PICK S : name \in Seq(S)
      BY DEF IsName, IsList
    <2>2. PICK T : T = S \cup {SLASH}
      OBVIOUS
    <2>3. <<SLASH>> \in Seq(T) /\ Len(<<SLASH>>) = 1 /\ <<SLASH>>[1] = SLASH
      BY <2>2, One
    <2>4. name \in Seq(T) /\ Len(name) \in Nat
      BY <2>1, <2>2
    <2>5. (<<SLASH>> \o name)[1] = SLASH
      BY <2>3, <2>4, ConcatProperties
    <2> QED
      BY <1>1, <2>5
  <1>3. y = TagPart(id, data) /\ TagPart(1, data).data = name
    BY <1>1 DEF ClosingPart, IsName, IsPlain
  <1>4. IsPart(y) /\ y.id = id /\ y.data = name
    BY <1>3, TagPartIs
  <1>5. y.type = "CLOSING"
    BY <1>2, <1>3 DEF TagPart, Part
  <1> QED
    BY <1>4, <1>5

LEMMA ClosingStep ==
  ASSUME Closing, force_close_tags
  PROVE  Closing' /\ ptr' \in Nat \ {0}
  <1>0. /\ made \in Nat /\ Ok(list, made) /\ PartsOk(list, made) /\ Opened(list, ptr - 1)
        /\ ptr \in 1 .. Len(list) /\ ptr' = ptr + 1 /\ Len(list) \in Nat
        /\ IsList(list)
    BY DEF Closing, force_close_tags, Ok, PartsOk, IsList
  <1>1. ptr' \in Nat \ {0} /\ ptr' - 1 = ptr
    BY <1>0
  <1>2. CASE IsOpening(list[ptr]) /\ list[ptr].link = 0
    <2>1. PICK y : y = ClosingPart(made + 1, list[ptr].data)
      OBVIOUS
    <2>2. PICK v : v = list[ptr].id
      OBVIOUS
    <2>3. PICK z : z = [y EXCEPT !.link = v]
      OBVIOUS
    <2>4. list' = [InsertAt(list, ptr + 1, z) EXCEPT ![ptr].link = z.id] /\ made' = made + 1
      BY <1>2, <2>1, <2>2, <2>3 DEF force_close_tags, Closed
    <2>5. IsPart(y) /\ y.id = made + 1 /\ y.type = "CLOSING" /\ y.data = list[ptr].data
      <3>1. IsName(list[ptr].data)
        BY <1>0, <1>2 DEF PartsOk, IsOpening
      <3> QED
        BY <2>1, <3>1, ClosingIs
    <2>6. IsPart(z) /\ z.link = v /\ z.id = y.id /\ z.type = y.type /\ z.data = y.data
      BY <2>3, <2>5, LinkUpdated DEF WithLink
    <2>7. Inserted(list', list, ptr, made + 1)
      BY <1>0, <1>2, <2>2, <2>4, <2>5, <2>6, InsertedIs
    <2>8. Ok(list', made + 1) /\ Opened(list', ptr)
      BY <1>0, <1>2, <2>7, InsertedOk
    <2>9. ptr' \in 1 .. Len(list') + 1 /\ made' \in Nat
      BY <1>0, <2>4, <2>7 DEF Inserted
    <2> QED
      BY <1>1, <2>4, <2>8, <2>9 DEF Closing
  <1>3. CASE ~(IsOpening(list[ptr]) /\ list[ptr].link = 0)
    <2>1. list' = list /\ made' = made
      BY <1>3 DEF force_close_tags
    <2>2. Opened(list, ptr)
      <3>1. \A p \in 1 .. ptr : p = ptr \/ p \in 1 .. ptr - 1
        BY <1>0
      <3> QED
        BY <1>0, <1>3, <3>1 DEF Opened
    <2>3. ptr' \in 1 .. Len(list) + 1
      BY <1>0
    <2> QED
      BY <1>0, <1>1, <2>1, <2>2, <2>3 DEF Closing
  <1> QED
    BY <1>2, <1>3

\* A name is not a text that the special rules look for.
LEMMA NotNames ==
  ASSUME NEW s, IsName(s)
  PROVE  ~EndsWithAt(s) /\ ~(s # << >> /\ s[1] = COMMA) /\ SelectInSeq(s, LAMBDA x : x = DOTS) = 0
  <1>1. PICK S : s \in Seq(S)
    BY DEF IsName, IsList
  <1>2. \A x \in 1 .. Len(s) : s[x] \notin {AT, COMMA, DOTS}
    BY DEF IsName
  <1>3. s # << >> => 1 \in 1 .. Len(s) /\ Len(s) \in 1 .. Len(s)
    BY <1>1, EmptySeq
  <1>4. ~EndsWithAt(s) /\ ~(s # << >> /\ s[1] = COMMA)
    BY <1>1, <1>2, <1>3 DEF EndsWithAt, AtPlaces
  <1>5. {x \in 1 .. Len(s) : s[x] = DOTS} = {}
    BY <1>2
  <1>6. SelectInSeq(s, LAMBDA x : x = DOTS) = 0
    BY <1>5 DEF SelectInSeq
  <1> QED
    BY <1>4, <1>6

Retold(M, L, p, v) == M = [L EXCEPT ![p].data = v]

LEMMA TextChanged ==
  ASSUME NEW L, NEW k \in Nat, Ok(L, k), Opened(L, Len(L)), NEW p \in 1 .. Len(L), L[p].type = "MESSAGE",
         NEW v, NEW M, Retold(M, L, p, v)
  PROVE  Ok(M, k) /\ Opened(M, Len(M))
  <1>0. IsList(L) /\ \A x \in 1 .. Len(L) : IsPart(L[x])
    BY DEF Ok, PartsOk
  <1>1. PICK y : y = L[p]
    OBVIOUS
  <1>2. PICK z : z = [y EXCEPT !.data = v]
    OBVIOUS
  <1>3. DOMAIN L = 1 .. Len(L)
    BY <1>0 DEF IsList
  <1>4. With(M, L, p, z)
    BY <1>1, <1>2, <1>3 DEF With, Retold
  <1>5. /\ IsList(M) /\ Len(M) = Len(L)
        /\ \A x \in 1 .. Len(L) : M[x] = IF x = p THEN z ELSE L[x]
    BY <1>0, <1>4, ListUpdated
  <1>6. IsPart(z) /\ z.id = y.id /\ z.type = y.type /\ z.link = y.link
    <2>1. IsPart(y)
      BY <1>0, <1>1
    <2>2. WithData(z, y, v)
      BY <1>2 DEF WithData
    <2> QED
      BY <2>1, <2>2, DataUpdated
  <1>7. SameTags(M, L)
    BY <1>0, <1>1, <1>5, <1>6 DEF SameTags
  <1> QED
    BY <1>7, TextsChanged

LEMMA CheckAtStep ==
  ASSUME Tied, ptr \in Nat \ {0}, CheckAt
  PROVE  Tied' /\ ptr' \in Nat \ {0}
  <1>0. /\ made \in Nat /\ made' = made /\ Ok(list, made) /\ Opened(list, Len(list))
        /\ ptr \in 1 .. Len(list)
    <2>1. made' = made /\ ptr <= Len(list)
      BY DEF CheckAt
    <2>2. made \in Nat /\ Ok(list, made) /\ Opened(list, Len(list))
      BY DEF Tied
    <2>3. Len(list) \in Nat
      BY <2>2 DEF Ok, PartsOk, IsList
    <2> QED
      BY <2>1, <2>2, <2>3
  <1>1. CASE EndsWithAt(list[ptr].data) /\ count_span_data_span(ptr + 1) > 0
    <2>1. list[ptr].type = "MESSAGE"
      BY <1>0, <1>1, NotNames DEF Ok, PartsOk
    <2>2. \/ list' = Without(list, ptr, ptr) /\ ptr' = ptr
          \/ list' = [list EXCEPT ![ptr].data = BeforeAt(@)] /\ ptr' = ptr + 1
      BY <1>1 DEF CheckAt
    <2>3. CASE list' = Without(list, ptr, ptr) /\ ptr' = ptr
      <3>1. Ok(list', made) /\ Opened(list', Len(list'))
        BY <1>0, <2>1, <2>3, TextRemoved
      <3> QED
        BY <1>0, <2>3, <3>1 DEF Tied
    <2>4. CASE list' = [list EXCEPT ![ptr].data = BeforeAt(@)] /\ ptr' = ptr + 1
      <3>1. PICK v : v = BeforeAt(list[ptr].data)
        OBVIOUS
      <3>2. Retold(list', list, ptr, v)
        BY <2>4, <3>1 DEF Retold
      <3>3. Ok(list', made) /\ Opened(list', Len(list'))
        BY <1>0, <2>1, <3>2, TextChanged
      <3> QED
        BY <1>0, <2>4, <3>3 DEF Tied
    <2> QED
      BY <2>2, <2>3, <2>4
  <1>2. CASE ~(EndsWithAt(list[ptr].data) /\ count_span_data_span(ptr + 1) > 0)
    <2>1. list' = list /\ ptr' = ptr
      BY <1>2 DEF CheckAt
    <2> QED
      BY <1>0, <2>1 DEF Tied
  <1> QED
    BY <1>1, <1>2

LEMMA CalledNickStep ==
  ASSUME Tied, ptr \in Nat \ {0}, CalledNick
  PROVE  Tied' /\ ptr' \in Nat \ {0}
  <1>0. /\ made \in Nat /\ made' = made /\ Ok(list, made) /\ Opened(list, Len(list)) /\ IsList(list)
    BY DEF Tied, CalledNick, Ok, PartsOk
  <1>1. PICK n : n = count_span_data_span(ptr)
    OBVIOUS
  <1>2. PICK M : M = Nicked(n)
    OBVIOUS
  <1>3. PICK t : t = ptr + 3
    OBVIOUS
  <1>4. PICK s : s = M[t].data
    OBVIOUS
  <1>5. n > 0 /\ Called(list, ptr, n)
    BY <1>0, <1>1, Counted DEF CalledNick
  <1>6. Ok(M, made) /\ Opened(M, Len(M))
    <2>1. PICK B : B = Without(Without(list, ptr + 1, ptr + (n - 1)), ptr + 2, ptr + 1 + (n - 1))
      OBVIOUS
    <2>2. PICK q : q = ptr + 2
      OBVIOUS
    <2>3. Renamed(M, B, ptr, q)
      BY <1>2, <2>1, <2>2 DEF Nicked, Extra, Renamed
    <2> QED
      BY <1>0, <1>5, <2>1, <2>2, <2>3, SpansNicked
  <1>7. Len(M) \in Nat /\ t \in Nat \ {0} /\ t - 1 \in Nat \ {0}
    BY <1>3, <1>6 DEF Ok, PartsOk, IsList
  <1>8. \/ list' = M /\ ptr' = t
        \/ /\ t <= Len(M) /\ s # << >> /\ s[1] = COMMA
           /\ \/ list' = [M EXCEPT ![t].data = Tail(@)] /\ ptr' = t
              \/ list' = Without(M, t, t) /\ ptr' = t - 1
    BY <1>1, <1>2, <1>3, <1>4 DEF CalledNick
  <1>9. CASE list' = M /\ ptr' = t
    BY <1>0, <1>6, <1>7, <1>9 DEF Tied
  <1>10. CASE /\ t <= Len(M) /\ s # << >> /\ s[1] = COMMA
              /\ \/ list' = [M EXCEPT ![t].data = Tail(@)] /\ ptr' = t
                 \/ list' = Without(M, t, t) /\ ptr' = t - 1
    <2>1. t \in 1 .. Len(M)
      BY <1>7, <1>10
    <2>2. M[t].type = "MESSAGE"
      BY <1>4, <1>6, <1>10, <2>1, NotNames DEF Ok, PartsOk
    <2>3. CASE list' = [M EXCEPT ![t].data = Tail(@)] /\ ptr' = t
      <3>1. PICK v : v = Tail(M[t].data)
        OBVIOUS
      <3>2. Retold(list', M, t, v)
        BY <2>3, <3>1 DEF Retold
      <3>3. Ok(list', made) /\ Opened(list', Len(list'))
        BY <1>0, <1>6, <2>1, <2>2, <3>2, TextChanged
      <3> QED
        BY <1>0, <1>7, <2>3, <3>3 DEF Tied
    <2>4. CASE list' = Without(M, t, t) /\ ptr' = t - 1
      <3>1. Ok(list', made) /\ Opened(list', Len(list'))
        BY <1>0, <1>6, <2>1, <2>2, <2>4, TextRemoved
      <3> QED
        BY <1>0, <1>7, <2>4, <3>1 DEF Tied
    <2> QED
      BY <1>10, <2>3, <2>4
  <1> QED
    BY <1>8, <1>9, <1>10

\* A name is the text of a link only when it is the link.
LEMMA NameIsLink ==
  ASSUME NEW text, IsName(text), NEW part, TRUE \in MayBeLink(text, part)
  PROVE  text = part.attributes[LinkAttribute(part)].value
  <1>1. SelectInSeq(text, LAMBDA x : x = DOTS) = 0
    BY NotNames
  <1>2. CASE text # part.attributes[LinkAttribute(part)].value
    <2>1. MayBeLink(text, part) = {FALSE}
      BY <1>1, <1>2 DEF MayBeLink
    <2> QED
      BY <2>1
  <1> QED
    BY <1>2

Swap(M, L, p, q, A, v) == M = [L EXCEPT ![p].attributes = A, ![q].data = v]

LEMMA LinkSwapped ==
  ASSUME NEW L, NEW k \in Nat, Ok(L, k), Opened(L, Len(L)),
         NEW p \in 1 .. Len(L), NEW q \in 1 .. Len(L), p # q, IsOpening(L[p]), NEW A, NEW v,
         L[q].type # "MESSAGE" => v = L[q].data, NEW M, Swap(M, L, p, q, A, v)
  PROVE  Ok(M, k) /\ Opened(M, Len(M))
  <1>0. IsList(L) /\ \A x \in 1 .. Len(L) : IsPart(L[x])
    BY DEF Ok, PartsOk
  <1>1. PICK y : y = L[p]
    OBVIOUS
  <1>2. PICK w : w = L[q]
    OBVIOUS
  <1>3. PICK z1 : z1 = [y EXCEPT !.attributes = A]
    OBVIOUS
  <1>4. PICK z2 : z2 = [w EXCEPT !.data = v]
    OBVIOUS
  <1>5. PICK D : D = [L EXCEPT ![p] = z1]
    OBVIOUS
  <1>6. DOMAIN L = 1 .. Len(L)
    BY <1>0 DEF IsList
  <1>7. M = [D EXCEPT ![q] = z2]
    BY <1>1, <1>2, <1>3, <1>4, <1>5, <1>6 DEF Swap
  <1>8. /\ IsPart(z1) /\ z1.id = y.id /\ z1.type = y.type /\ z1.link = y.link /\ z1.data = y.data
        /\ IsPart(z2) /\ z2.id = w.id /\ z2.type = w.type /\ z2.link = w.link /\ z2.data = v
    <2>1. IsPart(y) /\ IsPart(w)
      BY <1>0, <1>1, <1>2
    <2>2. WithAttributes(z1, y, A) /\ WithData(z2, w, v)
      BY <1>3, <1>4 DEF WithAttributes, WithData
    <2>3. IsPart(z1) /\ z1.id = y.id /\ z1.type = y.type /\ z1.link = y.link /\ z1.data = y.data
      BY <2>1, <2>2, AttributesUpdated
    <2>4. IsPart(z2) /\ z2.id = w.id /\ z2.type = w.type /\ z2.link = w.link /\ z2.data = v
      BY <2>1, <2>2, DataUpdated
    <2> QED
      BY <2>3, <2>4
  <1>9. /\ IsList(D) /\ Len(D) = Len(L)
        /\ \A x \in 1 .. Len(L) : D[x] = IF x = p THEN z1 ELSE L[x]
    <2>1. With(D, L, p, z1)
      BY <1>5 DEF With
    <2> QED
      BY <1>0, <2>1, ListUpdated
  <1>10. /\ IsList(M) /\ Len(M) = Len(L)
         /\ \A x \in 1 .. Len(L) : M[x] = IF x = q THEN z2 ELSE D[x]
    <2>1. With(M, D, q, z2) /\ q \in 1 .. Len(D)
      BY <1>7, <1>9 DEF With
    <2>2. /\ IsList(M) /\ Len(M) = Len(D)
          /\ \A x \in 1 .. Len(D) : M[x] = IF x = q THEN z2 ELSE D[x]
      BY <1>9, <2>1, ListUpdated
    <2> QED
      BY <1>9, <2>2
  <1>11. ASSUME NEW x \in 1 .. Len(L)
         PROVE  /\ IsPart(M[x]) /\ M[x].id = L[x].id /\ M[x].type = L[x].type /\ M[x].link = L[x].link
                /\ M[x].type # "MESSAGE" => M[x].data = L[x].data
    <2>1. CASE x = q
      <3>1. M[x] = z2
        BY <1>10, <2>1
      <3> QED
        BY <1>2, <1>8, <2>1, <3>1
    <2>2. CASE x = p /\ x # q
      <3>1. M[x] = z1
        BY <1>9, <1>10, <2>2
      <3> QED
        BY <1>1, <1>8, <2>2, <3>1
    <2>3. CASE x # p /\ x # q
      <3>1. M[x] = L[x]
        BY <1>9, <1>10, <2>3
      <3> QED
        BY <1>0, <3>1
    <2> QED
      BY <2>1, <2>2, <2>3
  <1>12. SameTags(M, L)
    BY <1>10, <1>11 DEF SameTags
  <1> QED
    BY <1>12, TextsChanged

LEMMA ReduceStep ==
  ASSUME Tied, ptr \in Nat \ {0}, CheckReduceLink
  PROVE  Tied' /\ ptr' \in Nat \ {0}
  <1>0. /\ made \in Nat /\ made' = made /\ Ok(list, made) /\ Opened(list, Len(list)) /\ Len(list) \in Nat
    BY DEF Tied, CheckReduceLink, Ok, PartsOk, IsList
  <1>1. ptr' \in Nat \ {0}
    BY DEF CheckReduceLink, Step
  <1>2. PICK swap \in IF IsLink(ptr) THEN MayBeLink(list[ptr + 1].data, list[ptr]) ELSE {FALSE} :
          list' = IF swap THEN Swapped ELSE list
    BY DEF CheckReduceLink
  <1>3. CASE ~swap
    BY <1>0, <1>1, <1>2, <1>3 DEF Tied
  <1>4. CASE swap
    <2>1. IsLink(ptr) /\ TRUE \in MayBeLink(list[ptr + 1].data, list[ptr])
      BY <1>2, <1>4
    <2>2. PICK q : q = ptr + 1
      OBVIOUS
    <2>3. ptr \in 1 .. Len(list) /\ q \in 1 .. Len(list) /\ ptr # q /\ IsOpening(list[ptr])
      BY <1>0, <2>1, <2>2 DEF IsLink
    <2>4. PICK v : v = list[ptr].attributes[LinkAttribute(list[ptr])].value
      OBVIOUS
    <2>5. list[q].type # "MESSAGE" => v = list[q].data
      <3> SUFFICES ASSUME list[q].type # "MESSAGE" PROVE v = list[q].data
        OBVIOUS
      <3>1. IsName(list[q].data)
        BY <1>0, <2>3 DEF Ok, PartsOk
      <3> QED
        BY <2>1, <2>2, <2>4, <3>1, NameIsLink
    <2>6. PICK A : A = [list[ptr].attributes EXCEPT ![LinkAttribute(list[ptr])] =
                          [name |-> <<"nohref">>, value |-> list[ptr + 1].data]]
      OBVIOUS
    <2>7. Swap(list', list, ptr, q, A, v)
      BY <1>2, <1>4, <2>2, <2>3, <2>4, <2>6 DEF Swapped, Swap
    <2>8. Ok(list', made) /\ Opened(list', Len(list'))
      BY <1>0, <2>3, <2>5, <2>7, LinkSwapped
    <2> QED
      BY <1>0, <1>1, <2>8 DEF Tied
  <1> QED
    BY <1>3, <1>4

Blank == list = << >> /\ made = 0 /\ parts_stack = << >> /\ i = 1 /\ bracket = FALSE

LinksInv ==
  /\ ptr \in Nat \ {0}
  /\ pass \in {"rules", "ready", "begun"} => Blank
  /\ pass \in {"ready", "begun"} => ptr = 1
  /\ pass = "begun" => message \in Beginnings
  /\ pass = "create" => Making
  /\ pass = "associate" => Linking
  /\ pass = "close" => Closing
  /\ pass \in {"special", "nick", "reduce", "output", "done", "crashed"} => Tied

LEMMA TiedStays == ASSUME Tied, list' = list, made' = made PROVE Tied'
  BY DEF Tied

LEMMA BegunStep ==
  ASSUME LinksInv, Continue
  PROVE  LinksInv'
  <1>1. /\ pass = "begun" /\ pass' = "create" /\ Blank /\ message \in Beginnings
        /\ ptr = 1 /\ ptr' = ptr /\ list' = list /\ made' = made /\ parts_stack' = parts_stack
        /\ i' = i /\ bracket' = bracket
    BY DEF LinksInv, Continue, scanvars
  <1>2. IsMessage'
    BY <1>1 DEF Continue, IsMessage
  <1>3. Len(message') \in Nat
    <2>1. PICK b \in Seq(STRING), e \in Seq(STRING) : message' = b \o e
      BY <1>2, MessageAssumption DEF IsMessage
    <2> QED
      BY <2>1
  <1>4. /\ list' = << >> /\ made' = 0 /\ parts_stack' = << >> /\ i' = 1 /\ bracket' = FALSE /\ ptr' = 1
    BY <1>1 DEF Blank
  <1>5. PartsOk(list', made') /\ Unlinked(list')
    <2>1. << >> \in Seq({}) /\ Len(<< >>) = 0
      BY EmptySeq
    <2> QED
      BY <1>4, <2>1 DEF PartsOk, Unlinked, IsList
  <1>6. i' \in 1 .. Len(message') + 1
    BY <1>3, <1>4
  <1>7. Making'
    BY <1>2, <1>4, <1>5, <1>6 DEF Making, InTag
  <1> QED
    BY <1>1, <1>4, <1>7 DEF LinksInv

LEMMA PassStep ==
  ASSUME LinksInv, EndOfPass
  PROVE  LinksInv'
  <1>1. /\ pass \in {"associate", "close", "special", "output"} /\ pass' = PassAfter[pass] /\ ptr' = 1
        /\ list' = list /\ made' = made /\ ptr > Len(list)
    BY DEF EndOfPass, PassAfter
  <1>2. CASE pass = "associate"
    <2>1. pass' = "close"
      BY <1>1, <1>2 DEF PassAfter
    <2>2. made \in Nat /\ Ok(list, made) /\ Len(list) \in Nat
      BY <1>2 DEF LinksInv, Linking, Ok, PartsOk, IsList
    <2>3. ptr' \in 1 .. Len(list') + 1 /\ Opened(list', ptr' - 1)
      BY <1>1, <2>2 DEF Opened
    <2>4. Closing'
      BY <1>1, <2>2, <2>3 DEF Closing
    <2> QED
      BY <1>1, <2>1, <2>4 DEF LinksInv
  <1>3. CASE pass = "close"
    <2>1. pass' = "special"
      BY <1>1, <1>3 DEF PassAfter
    <2>2. Closing /\ Len(list) \in Nat
      BY <1>3 DEF LinksInv, Closing, Ok, PartsOk, IsList
    <2>3. ptr - 1 = Len(list)
      BY <1>1, <2>2 DEF Closing
    <2>4. Tied'
      BY <1>1, <2>2, <2>3 DEF Closing, Tied
    <2> QED
      BY <1>1, <2>1, <2>4 DEF LinksInv
  <1>4. CASE pass \in {"special", "output"}
    <2>1. pass' \in {"output", "done"}
      BY <1>1, <1>4 DEF PassAfter
    <2>2. Tied'
      BY <1>1, <1>4, TiedStays DEF LinksInv
    <2> QED
      BY <1>1, <2>1, <2>2 DEF LinksInv
  <1> QED
    BY <1>1, <1>2, <1>3, <1>4

LEMMA RulesStep ==
  ASSUME LinksInv, ReadRules \/ parser_get_config \/ ConfigRead \/ Begin
  PROVE  LinksInv'
  <1>1. CASE ReadRules
    BY <1>1 DEF LinksInv, ReadRules, Blank, scanvars
  <1>2. CASE parser_get_config
    <2>1. ptr' \in Nat \ {0} /\ pass = "rules"
      BY <1>2 DEF LinksInv, parser_get_config
    <2> QED
      BY <1>2, <2>1 DEF LinksInv, parser_get_config, Blank, scanvars
  <1>3. CASE ConfigRead
    BY <1>3 DEF LinksInv, ConfigRead, Blank, scanvars
  <1>4. CASE Begin
    BY <1>4 DEF LinksInv, Begin, Blank, scanvars
  <1> QED
    BY <1>1, <1>2, <1>3, <1>4

LEMMA FormatStep ==
  ASSUME LinksInv, FormatterNext
  PROVE  LinksInv'
  <1>1. CASE ReadRules \/ parser_get_config \/ ConfigRead \/ Begin
    BY <1>1, RulesStep
  <1>2. CASE Continue
    BY <1>2, BegunStep
  <1>3. CASE CreateParts
    <2>1. pass = "create" /\ pass' = "create" /\ Making'
      BY <1>3, MakingStep DEF CreateParts, LinksInv
    <2>2. ptr' \in Nat \ {0}
      BY <1>3 DEF CreateParts, LinksInv
    <2> QED
      BY <2>1, <2>2 DEF LinksInv
  <1>4. CASE PartsCreated
    <2>1. pass' = "associate" /\ Linking' /\ ptr' = 1
      BY <1>4, CreatedStep DEF PartsCreated, LinksInv
    <2> QED
      BY <2>1 DEF LinksInv
  <1>5. CASE associate_links
    <2>1. pass' = "associate" /\ Linking' /\ ptr' \in Nat \ {0}
      BY <1>5, LinkingStep DEF associate_links, LinksInv
    <2> QED
      BY <2>1 DEF LinksInv
  <1>6. CASE force_close_tags
    <2>1. pass' = "close" /\ Closing' /\ ptr' \in Nat \ {0}
      BY <1>6, ClosingStep DEF force_close_tags, LinksInv
    <2> QED
      BY <2>1 DEF LinksInv
  <1>7. CASE EndOfPass
    BY <1>7, PassStep
  <1>8. CASE CheckAt
    <2>1. pass' \in {"nick", "reduce"} /\ Tied' /\ ptr' \in Nat \ {0}
      BY <1>8, CheckAtStep DEF CheckAt, LinksInv
    <2> QED
      BY <2>1 DEF LinksInv
  <1>9. CASE CalledNick
    <2>1. pass' \in {"nick", "crashed"} /\ Tied' /\ ptr' \in Nat \ {0}
      BY <1>9, CalledNickStep DEF CalledNick, LinksInv
    <2> QED
      BY <2>1 DEF LinksInv
  <1>10. CASE NoMoreNick
    <2>1. pass' = "reduce" /\ Tied' /\ ptr' \in Nat \ {0}
      BY <1>10, TiedStays DEF NoMoreNick, LinksInv
    <2> QED
      BY <2>1 DEF LinksInv
  <1>11. CASE CheckReduceLink
    <2>1. pass' = "special" /\ Tied' /\ ptr' \in Nat \ {0}
      BY <1>11, ReduceStep DEF CheckReduceLink, LinksInv
    <2> QED
      BY <2>1 DEF LinksInv
  <1>12. CASE parser_parse_messages
    <2>1. pass' = "output" /\ Tied' /\ ptr' \in Nat \ {0}
      BY <1>12, TiedStays DEF parser_parse_messages, LinksInv
    <2> QED
      BY <2>1 DEF LinksInv
  <1> QED
    BY <1>1, <1>2, <1>3, <1>4, <1>5, <1>6, <1>7, <1>8, <1>9, <1>10, <1>11, <1>12 DEF FormatterNext

LEMMA OkIsMutual == LinksInv => LinksAreMutual
  <1> SUFFICES ASSUME LinksInv, pass \in {"special", "reduce", "output", "done"},
                      NEW p \in DOMAIN list, list[p].link # 0
               PROVE  \E q \in DOMAIN list :
                        /\ list[q].id = list[p].link /\ list[q].link = list[p].id
                        /\ list[q].data = list[p].data
                        /\ IsOpening(list[p]) => IsClosing(list[q]) /\ p < q
    BY DEF LinksAreMutual
  <1>1. Tied /\ DOMAIN list = 1 .. Len(list)
    BY DEF LinksInv, Tied, Ok, PartsOk, IsList
  <1>2. PICK q \in 1 .. Len(list) : IsPair(list, p, q) \/ IsPair(list, q, p)
    BY <1>1 DEF Tied, Ok, Mutual
  <1> QED
    BY <1>1, <1>2 DEF IsPair, IsOpening, IsClosing

LEMMA LinksStart == Init => LinksInv
  BY DEF Init, FormatterInit, LinksInv, Blank

LEMMA LinksStep == LinksInv /\ [Next]_vars => LinksInv'
  <1> SUFFICES ASSUME LinksInv, [Next]_vars PROVE LinksInv'
    OBVIOUS
  <1>1. CASE Format
    BY <1>1, FormatStep DEF Format
  <1>2. CASE UNCHANGED fvars
    BY <1>2 DEF fvars, given, scanvars, LinksInv, Blank, Making, IsMessage, InTag, Linking, Closing, Tied
  <1> QED
    BY <1>1, <1>2 DEF Next, Configure, vars

(* Whatever the message and the rules, from the end of force_close_tags() on, *)
(* links join two parts with one name, the opening one first, whatever parts  *)
(* the special rules remove or rename (parser.c:537-599, 694-732).            *)
THEOREM LinksAlwaysMutual == Spec => []LinksAreMutual
  BY LinksStart, LinksStep, OkIsMutual, PTL DEF Spec


-----------------------------------------------------------------------------
(* The last part of a message, when it ends with a comma.                    *)

CommaEnds(s) == s # << >> /\ s[Len(s)] = COMMA

\* When a comma ends the last part, nothing that makes a part follows one in the
\* first n symbols of the message.
Ending(s, n) == IsList(s) /\ (CommaEnds(s) => CommaLast(n))

LastIsText(L) == Len(L) # 0 /\ L[Len(L)].type = "MESSAGE"
EndedBy(L, n)   == LastIsText(L) => Ending(L[Len(L)].data, n)

Read(n) == Ending(prev_data, n) /\ (prev_data = << >> => EndedBy(list, n))

Late == {"associate", "close", "special", "nick", "reduce", "output"}

LastInv ==
  /\ pass \in {"rules", "ready", "begun"} => prev_data = << >>
  /\ pass = "create" => Read(i - 1)
  /\ pass \in Late => EndedBy(list, Len(message))
  /\ CrashesAtLastComma

LEMMA CommaStays ==
  ASSUME NEW n \in Nat, NEW m \in Nat, m = n + 1, message[m] \in {LT, GT}, CommaLast(n)
  PROVE  CommaLast(m)
  <1>1. PICK p \in 1 .. n : message[p] = COMMA /\ \A q \in p + 1 .. n : message[q] \in {LT, GT}
    BY DEF CommaLast
  <1>2. p \in 1 .. m /\ \A q \in p + 1 .. m : q = m \/ q \in p + 1 .. n
    OBVIOUS
  <1>3. \A q \in p + 1 .. m : message[q] \in {LT, GT}
    BY <1>1, <1>2
  <1> QED
    BY <1>1, <1>2, <1>3 DEF CommaLast

LEMMA CommaRead ==
  ASSUME NEW n \in Nat \ {0}, message[n] = COMMA
  PROVE  CommaLast(n)
  <1>1. n \in 1 .. n /\ \A q \in n + 1 .. n : FALSE
    OBVIOUS
  <1> QED
    BY <1>1 DEF CommaLast

\* The last of a list with one or two more.
LEMMA LastOfOne ==
  ASSUME NEW L, IsList(L), NEW y, NEW M, M = L \o <<y>>
  PROVE  IsList(M) /\ Len(M) = Len(L) + 1 /\ Len(M) # 0 /\ M[Len(M)] = y
  <1>1. PICK S : L \in Seq(S)
    BY DEF IsList
  <1> DEFINE T == S \cup {y}
  <1>2. L \in Seq(T) /\ y \in T /\ Len(L) \in Nat
    BY <1>1
  <1> HIDE DEF T
  <1>3. <<y>> \in Seq(T) /\ Len(<<y>>) = 1 /\ <<y>>[1] = y
    BY <1>2, One
  <1>4. PICK P : P = <<y>>
    OBVIOUS
  <1>5. /\ L \o P \in Seq(T) /\ Len(L \o P) = Len(L) + Len(P)
        /\ \A x \in 1 .. Len(L) + Len(P) : (L \o P)[x] = IF x <= Len(L) THEN L[x] ELSE P[x - Len(L)]
    BY <1>2, <1>3, <1>4, ConcatProperties
  <1>6. PICK k \in Nat : k = Len(L)
    BY <1>2
  <1>7. M \in Seq(T) /\ Len(M) = k + 1 /\ M[k + 1] = P[k + 1 - k]
    BY <1>3, <1>4, <1>5, <1>6
  <1>8. k + 1 - k = 1 /\ k + 1 # 0
    OBVIOUS
  <1> QED
    BY <1>3, <1>4, <1>6, <1>7, <1>8 DEF IsList

LEMMA LastOfTwo ==
  ASSUME NEW L, IsList(L), NEW y, NEW z, NEW M, M = L \o <<y, z>>
  PROVE  Len(M) # 0 /\ M[Len(M)] = z
  <1>1. PICK S : L \in Seq(S)
    BY DEF IsList
  <1> DEFINE T == S \cup {y, z}
  <1>2. L \in Seq(T) /\ y \in T /\ z \in T /\ Len(L) \in Nat
    BY <1>1
  <1> HIDE DEF T
  <1>3. <<y, z>> \in Seq(T) /\ Len(<<y, z>>) = 2 /\ <<y, z>>[2] = z
    BY <1>2
  <1>4. PICK P : P = <<y, z>>
    OBVIOUS
  <1>5. /\ L \o P \in Seq(T) /\ Len(L \o P) = Len(L) + Len(P)
        /\ \A x \in 1 .. Len(L) + Len(P) : (L \o P)[x] = IF x <= Len(L) THEN L[x] ELSE P[x - Len(L)]
    BY <1>2, <1>3, <1>4, ConcatProperties
  <1>6. PICK k \in Nat : k = Len(L)
    BY <1>2
  <1>7. Len(M) = k + 2 /\ M[k + 2] = P[k + 2 - k]
    BY <1>3, <1>4, <1>5, <1>6
  <1>8. k + 2 - k = 2 /\ k + 2 # 0
    OBVIOUS
  <1> QED
    BY <1>3, <1>4, <1>6, <1>7, <1>8

LEMMA NothingAdded ==
  ASSUME NEW L, IsList(L)
  PROVE  L \o << >> = L
  <1>1. PICK S : L \in Seq(S)
    BY DEF IsList
  <1> QED
    BY <1>1, ConcatEmptySeq
\* A text at the end of the list is what was read before it.
LEMMA LastOfText ==
  ASSUME IsList(list), NEW n \in Nat, Read(n),
         AddParts(IF prev_data = << >> THEN << >> ELSE <<TextPart(made + 1, prev_data)>>)
  PROVE  EndedBy(list', n)
  <1>1. CASE prev_data = << >>
    <2>1. list' = list
      BY <1>1, NothingAdded DEF AddParts
    <2> QED
      BY <1>1, <2>1 DEF Read
  <1>2. CASE prev_data # << >>
    <2>1. PICK y : y = TextPart(made + 1, prev_data)
      OBVIOUS
    <2>2. list' = list \o <<y>>
      BY <1>2, <2>1 DEF AddParts
    <2>3. list'[Len(list')] = y
      BY <2>2, LastOfOne
    <2>4. y.data = prev_data
      BY <2>1 DEF TextPart, Part
    <2> QED
      BY <2>3, <2>4 DEF EndedBy, Read
  <1> QED
    BY <1>1, <1>2

LEMMA LastOfTag ==
  ASSUME IsList(list), EndOfTag, ~(prev_data = << >> \/ (SelfClosing /\ Len(prev_data) = 1))
  PROVE  ~LastIsText(list')
  <1>1. PICK y : y = TagPart(made + 1, prev_data)
    OBVIOUS
  <1>2. PICK z : z = CloneToClose(made + 2, y)
    OBVIOUS
  <1>3. AddParts(IF SelfClosing THEN <<y, z>> ELSE <<y>>)
    BY <1>1, <1>2 DEF EndOfTag
  <1>4. y.type # "MESSAGE" /\ z.type # "MESSAGE"
    <2>1. y.type \in {"OPENING", "CLOSING"}
      BY <1>1, TagPartIs
    <2> QED
      BY <1>2, <2>1 DEF CloneToClose, Part
  <1>5. CASE SelfClosing
    <2>1. list' = list \o <<y, z>>
      BY <1>3, <1>5 DEF AddParts
    <2>2. list'[Len(list')] = z
      BY <2>1, LastOfTwo
    <2> QED
      BY <1>4, <2>2 DEF LastIsText
  <1>6. CASE ~SelfClosing
    <2>1. list' = list \o <<y>>
      BY <1>3, <1>6 DEF AddParts
    <2>2. list'[Len(list')] = y
      BY <2>1, LastOfOne
    <2> QED
      BY <1>4, <2>2 DEF LastIsText
  <1> QED
    BY <1>5, <1>6

LEMMA LastCreated ==
  ASSUME Making, LastInv, CreateParts
  PROVE  LastInv'
  <1>0. /\ message \in Seq(STRING) /\ i \in 1 .. Len(message) /\ Len(message) \in Nat
        /\ i' = i + 1 /\ message' = message /\ pass = "create" /\ pass' = "create"
        /\ IsList(list)
    BY MessageIs DEF Making, CreateParts, given, PartsOk
  <1>1. PICK n \in Nat : n = i - 1
    BY <1>0
  <1>2. i \in Nat \ {0} /\ i = n + 1 /\ i' - 1 = i
    BY <1>0, <1>1
  <1>3. Read(n)
    BY <1>0, <1>1 DEF LastInv
  <1>4. message[i] \in {LT, GT} /\ CommaLast(n) => CommaLast(i)
    BY <1>2, CommaStays
  <1>5. SUFFICES Ending(prev_data', i) /\ (prev_data' = << >> => EndedBy(list', i))
    BY <1>0, <1>2 DEF LastInv, Read, EndedBy, LastIsText, Ending, CommaLast, CrashesAtLastComma, Late
  <1>51. Ending(<< >>, i)
    BY EmptySeq DEF Ending, IsList, CommaEnds
  <1>6. CASE EndOfText
    <2>1. prev_data' = << >> /\ message[i] = LT
      BY <1>6 DEF EndOfText
    <2>2. EndedBy(list', n)
      BY <1>0, <1>3, <1>6, LastOfText DEF EndOfText
    <2>3. EndedBy(list', i)
      BY <1>4, <2>1, <2>2 DEF EndedBy, Ending
    <2> QED
      BY <1>51, <2>1, <2>3
  <1>7. CASE EndOfTag
    <2>1. message[i] = GT
      BY <1>7 DEF EndOfTag
    <2>2. CASE prev_data = << >> \/ (SelfClosing /\ Len(prev_data) = 1)
      <3>1. list' = list /\ prev_data' = prev_data
        BY <1>0, <1>7, <2>2, NothingAdded DEF EndOfTag, AddParts
      <3> QED
        BY <1>3, <1>4, <2>1, <3>1 DEF Read, EndedBy, Ending
    <2>3. CASE ~(prev_data = << >> \/ (SelfClosing /\ Len(prev_data) = 1))
      <3>1. prev_data' = << >>
        BY <1>7, <2>3 DEF EndOfTag
      <3>2. EndedBy(list', i)
        BY <1>0, <1>7, <2>3, LastOfTag DEF EndedBy
      <3> QED
        BY <1>51, <3>1, <3>2
    <2> QED
      BY <2>2, <2>3
  <1>8. CASE WithinPart
    <2>1. PICK v : v = message[i]
      OBVIOUS
    <2>2. prev_data' = Append(prev_data, v)
      BY <1>8, <2>1 DEF WithinPart
    <2>3. PICK S : prev_data \in Seq(S)
      BY <1>3 DEF Read, Ending, IsList
    <2> DEFINE T == S \cup {v}
    <2>4. prev_data \in Seq(T) /\ v \in T
      BY <2>3
    <2> HIDE DEF T
    <2>5. /\ prev_data' \in Seq(T) /\ Len(prev_data') = Len(prev_data) + 1
          /\ prev_data'[Len(prev_data) + 1] = v /\ prev_data' # << >>
      BY <2>2, <2>4, AppendProperties
    <2>6. CommaEnds(prev_data') => message[i] = COMMA
      BY <2>1, <2>5 DEF CommaEnds
    <2>7. CommaEnds(prev_data') => CommaLast(i)
      BY <1>2, <2>6, CommaRead
    <2> QED
      BY <2>5, <2>7 DEF Ending, IsList
  <1> QED
    BY <1>6, <1>7, <1>8 DEF CreateParts

\* After the last symbol.
LEMMA LastRead ==
  ASSUME Making, LastInv, PartsCreated
  PROVE  LastInv'
  <1>0. /\ Len(message) \in Nat /\ i = Len(message) + 1
        /\ message' = message /\ pass = "create" /\ pass' = "associate"
        /\ IsList(list)
    BY MessageIs DEF Making, PartsCreated, given, scanvars, PartsOk
  <1>1. PICK n \in Nat : n = Len(message)
    BY <1>0
  <1>2. Read(n)
    <2>1. i - 1 = n
      BY <1>0, <1>1
    <2> QED
      BY <1>0, <2>1 DEF LastInv
  <1>3. EndedBy(list', n)
    BY <1>0, <1>2, LastOfText DEF PartsCreated
  <1> QED
    BY <1>0, <1>1, <1>3 DEF LastInv, Late, EndedBy, LastIsText, Ending, CommaLast, CrashesAtLastComma
\* The last part of L is the last of M, when that is a text.
SameLast(M, L) == LastIsText(M) => LastIsText(L) /\ M[Len(M)].data = L[Len(L)].data

LEMMA LastStays ==
  ASSUME LastInv, pass \in Late, pass' \in Late \cup {"done"}, message' = message,
         SameLast(list', list)
  PROVE  LastInv'
  BY DEF LastInv, Late, SameLast, EndedBy, LastIsText, Ending, CommaLast, CrashesAtLastComma

LEMMA LastLinked ==
  ASSUME Linking, LastInv, associate_links
  PROVE  LastInv'
  <1>0. /\ pass = "associate" /\ pass' = "associate" /\ message' = message
    BY DEF associate_links, given
  <1>1. /\ Ok(list, made) /\ Waiting(list, parts_stack, ptr) /\ IsList(list)
        /\ ptr \in 1 .. Len(list) /\ Len(list) \in Nat
        /\ \A x \in 1 .. Len(list) : IsPart(list[x])
    BY DEF Linking, associate_links, Ok, PartsOk, IsList, Waiting
  <1>2. SameLast(list', list)
    <2>1. CASE list' = list
      BY <2>1 DEF SameLast
    <2>2. CASE list' # list
      <3>1. IsClosing(list[ptr]) /\ parts_stack # << >> /\ list' = Linked(list, ptr, Last(parts_stack))
        BY <2>2 DEF associate_links
      <3>2. Last(parts_stack) \in 1 .. Len(list) /\ Last(parts_stack) # ptr
        <4>1. parts_stack \in Seq(Nat) /\ Len(parts_stack) \in Nat \ {0}
          BY <1>1, <3>1, EmptySeq DEF Waiting
        <4>2. Len(parts_stack) \in 1 .. Len(parts_stack)
          BY <4>1
        <4>3. parts_stack[Len(parts_stack)] \in 1 .. ptr - 1
          BY <1>1, <4>2 DEF Waiting
        <4>4. \A v \in 1 .. ptr - 1 : v \in 1 .. Len(list) /\ v # ptr
          BY <1>1
        <4> QED
          BY <4>3, <4>4 DEF Last
      <3>3. Coupled(list', list, Last(parts_stack), ptr)
        BY <1>1, <3>1, <3>2, LinkedIs
      <3>4. Len(list') = Len(list) /\ Len(list) \in 1 .. Len(list)
        BY <1>1, <3>3 DEF Coupled
      <3>5. \A x \in 1 .. Len(list) : list'[x].type = list[x].type /\ list'[x].data = list[x].data
        BY <3>3 DEF Coupled
      <3> QED
        BY <3>4, <3>5 DEF SameLast, LastIsText
    <2> QED
      BY <2>1, <2>2
  <1> QED
    BY <1>0, <1>2, LastStays DEF Late

LEMMA LastClosed ==
  ASSUME Closing, LastInv, force_close_tags
  PROVE  LastInv'
  <1>0. /\ pass = "close" /\ pass' = "close" /\ message' = message
    BY DEF force_close_tags, given
  <1>1. /\ Ok(list, made) /\ PartsOk(list, made) /\ made \in Nat /\ IsList(list) /\ Len(list) \in Nat
        /\ ptr \in 1 .. Len(list)
    BY DEF Closing, force_close_tags, Ok, PartsOk, IsList
  <1>2. CASE IsOpening(list[ptr]) /\ list[ptr].link = 0
    <2>1. PICK y : y = ClosingPart(made + 1, list[ptr].data)
      OBVIOUS
    <2>2. PICK v : v = list[ptr].id
      OBVIOUS
    <2>3. PICK z : z = [y EXCEPT !.link = v]
      OBVIOUS
    <2>4. list' = [InsertAt(list, ptr + 1, z) EXCEPT ![ptr].link = z.id]
      BY <1>2, <2>1, <2>2, <2>3 DEF force_close_tags, Closed
    <2>5. IsPart(y) /\ y.id = made + 1 /\ y.type = "CLOSING" /\ y.data = list[ptr].data
      <3>1. IsName(list[ptr].data)
        BY <1>1, <1>2 DEF PartsOk, IsOpening
      <3> QED
        BY <2>1, <3>1, ClosingIs
    <2>6. IsPart(z) /\ z.link = v /\ z.id = y.id /\ z.type = y.type /\ z.data = y.data
      BY <2>3, <2>5, LinkUpdated DEF WithLink
    <2>7. Inserted(list', list, ptr, made + 1)
      BY <1>1, <1>2, <2>2, <2>4, <2>5, <2>6, InsertedIs
    <2>8. SameLast(list', list)
      <3>1. PICK w \in Nat : w = Len(list)
        BY <1>1
      <3>2. w \in 1 .. w /\ Len(list') = w + 1
        BY <1>1, <2>7, <3>1 DEF Inserted
      <3>3. CASE ptr = w
        <4>1. list'[w + 1].type = "CLOSING"
          BY <2>7, <3>3 DEF Inserted
        <4> QED
          BY <3>2, <4>1 DEF SameLast, LastIsText
      <3>4. CASE ptr # w
        <4>1. To(w, ptr) = w + 1
          BY <1>1, <3>1, <3>4 DEF To
        <4>2. list'[w + 1] = list[w]
          BY <2>7, <3>1, <3>2, <3>4, <4>1 DEF Inserted
        <4> QED
          BY <3>1, <3>2, <4>2 DEF SameLast, LastIsText
      <3> QED
        BY <3>3, <3>4
    <2> QED
      BY <1>0, <2>8, LastStays DEF Late
  <1>3. CASE ~(IsOpening(list[ptr]) /\ list[ptr].link = 0)
    <2>1. list' = list
      BY <1>3 DEF force_close_tags
    <2> QED
      BY <1>0, <2>1, LastStays DEF Late, SameLast
  <1> QED
    BY <1>2, <1>3

\* A text is removed before the last part,
LEMMA LastAfter ==
  ASSUME NEW L, NEW k \in Nat, Ok(L, k), NEW p \in 1 .. Len(L), p # Len(L),
         NEW M, M = Without(L, p, p)
  PROVE  SameLast(M, L)
  <1>1. IsList(L) /\ Len(L) \in Nat /\ \A x \in 1 .. Len(L) : IsPart(L[x])
    BY DEF Ok, PartsOk, IsList
  <1>2. PICK m \in Nat : m = Len(L)
    BY <1>1
  <1>3. /\ IsList(M) /\ Len(M) = Len(L) - (p - p + 1)
        /\ \A x \in 1 .. Len(M) : Copies(M[x], L, Moved(x, p, p), p, p)
    <2>1. p \in 1 .. Len(L) + 1 /\ p \in p - 1 .. Len(L)
      BY <1>1
    <2> QED
      BY <1>1, <2>1, WithoutIs
  <1>4. Len(M) = m - 1 /\ m - 1 \in 1 .. m - 1 /\ Moved(m - 1, p, p) = m
    BY <1>2, <1>3 DEF Moved
  <1>5. M[m - 1].type = L[m].type /\ M[m - 1].data = L[m].data
    BY <1>3, <1>4 DEF Copies
  <1> QED
    BY <1>2, <1>4, <1>5 DEF SameLast, LastIsText

\* or another part changed.
LEMMA LastBefore ==
  ASSUME NEW L, IsList(L), NEW p \in 1 .. Len(L), p # Len(L), NEW v, NEW M, Retold(M, L, p, v)
  PROVE  SameLast(M, L)
  <1>1. PICK z : z = [L[p] EXCEPT !.data = v]
    OBVIOUS
  <1>2. DOMAIN L = 1 .. Len(L) /\ Len(L) \in Nat
    BY DEF IsList
  <1>3. With(M, L, p, z)
    BY <1>1, <1>2 DEF With, Retold
  <1>4. /\ IsList(M) /\ Len(M) = Len(L)
        /\ \A x \in 1 .. Len(L) : M[x] = IF x = p THEN z ELSE L[x]
    BY <1>3, ListUpdated
  <1>5. PICK m \in Nat : m = Len(L) /\ m \in 1 .. m
    <2>1. p \in 1 .. Len(L) /\ Len(L) \in Nat
      BY <1>2
    <2> QED
      BY <2>1
  <1>6. M[m] = L[m]
    BY <1>4, <1>5
  <1> QED
    BY <1>4, <1>5, <1>6 DEF SameLast, LastIsText

\* A text without its first symbol, which is not the only one.
LEMMA EndingTail ==
  ASSUME NEW s, NEW n, Ending(s, n), s # << >>, Len(s) # 1, NEW t, t = Tail(s)
  PROVE  Ending(t, n)
  <1>1. PICK S : s \in Seq(S)
    BY DEF Ending, IsList
  <1>2. Len(s) \in Nat /\ Len(s) # 0
    BY <1>1, EmptySeq
  <1>3. t \in Seq(S) /\ Len(t) = Len(s) - 1 /\ \A x \in 1 .. Len(s) - 1 : t[x] = s[x + 1]
    BY <1>1, <1>2
  <1>4. t[Len(t)] = s[Len(s)]
    <2>1. PICK m \in Nat : m = Len(s)
      BY <1>2
    <2>2. m # 0 /\ m # 1
      BY <1>2, <2>1
    <2>3. m - 1 \in 1 .. m - 1 /\ m - 1 + 1 = m
      BY <2>2
    <2> QED
      BY <1>3, <2>1, <2>3
  <1> QED
    BY <1>1, <1>3, <1>4 DEF Ending, IsList, CommaEnds

LEMMA LastTail ==
  ASSUME NEW L, IsList(L), NEW p \in 1 .. Len(L), IsPart(L[p]), L[p].type = "MESSAGE",
         NEW n, EndedBy(L, n), L[p].data # << >>, Len(L[p].data) # 1,
         NEW v, v = Tail(L[p].data), NEW M, Retold(M, L, p, v)
  PROVE  EndedBy(M, n)
  <1>1. CASE p # Len(L)
    BY <1>1, LastBefore DEF SameLast, EndedBy
  <1>2. CASE p = Len(L)
    <2>1. Len(L) # 0 /\ DOMAIN L = 1 .. Len(L)
      BY <1>2 DEF IsList
    <2>2. Ending(L[p].data, n)
      BY <1>2, <2>1 DEF EndedBy, LastIsText
    <2>3. Ending(v, n)
      BY <2>2, EndingTail
    <2>4. PICK y : y = L[p]
      OBVIOUS
    <2>5. PICK z : z = [y EXCEPT !.data = v]
      OBVIOUS
    <2>6. With(M, L, p, z)
      BY <2>1, <2>4, <2>5 DEF With, Retold
    <2>7. Len(M) = Len(L) /\ M[p] = z
      BY <2>6, ListUpdated
    <2>8. WithData(z, y, v) /\ IsPart(y)
      BY <2>4, <2>5 DEF WithData
    <2>9. z.data = v
      BY <2>8, DataUpdated
    <2> QED
      BY <1>2, <2>3, <2>7, <2>9 DEF EndedBy
  <1> QED
    BY <1>1, <1>2
LEMMA LastChecked ==
  ASSUME Tied, ptr \in Nat \ {0}, LastInv, CheckAt
  PROVE  LastInv'
  <1>0. pass = "special" /\ pass' \in {"nick", "reduce"} /\ message' = message
    BY DEF CheckAt, given
  <1>1. /\ Ok(list, made) /\ IsList(list) /\ Len(list) \in Nat /\ made \in Nat /\ ptr \in 1 .. Len(list)
    BY DEF Tied, CheckAt, Ok, PartsOk, IsList
  <1>2. CASE EndsWithAt(list[ptr].data) /\ count_span_data_span(ptr + 1) > 0
    <2>1. PICK p \in Nat \ {0} : p = ptr + 1
      BY <1>1
    <2>2. PICK n : n = count_span_data_span(p)
      OBVIOUS
    <2>3. n > 0
      BY <1>2, <2>1, <2>2
    <2>4. Called(list, p, n)
      BY <1>1, <2>2, <2>3, Counted
    <2>5. ptr # Len(list)
      BY <1>1, <2>1, <2>4 DEF Called
    <2>6. \/ list' = Without(list, ptr, ptr)
          \/ list' = [list EXCEPT ![ptr].data = BeforeAt(@)]
      BY <1>2 DEF CheckAt
    <2>7. CASE list' = Without(list, ptr, ptr)
      <3>1. SameLast(list', list)
        BY <1>1, <2>5, <2>7, LastAfter
      <3> QED
        BY <1>0, <3>1, LastStays DEF Late
    <2>8. CASE list' = [list EXCEPT ![ptr].data = BeforeAt(@)]
      <3>1. PICK v : v = BeforeAt(list[ptr].data)
        OBVIOUS
      <3>2. Retold(list', list, ptr, v)
        BY <2>8, <3>1 DEF Retold
      <3>3. SameLast(list', list)
        BY <1>1, <2>5, <3>2, LastBefore
      <3> QED
        BY <1>0, <3>3, LastStays DEF Late
    <2> QED
      BY <2>6, <2>7, <2>8
  <1>3. CASE ~(EndsWithAt(list[ptr].data) /\ count_span_data_span(ptr + 1) > 0)
    <2>1. list' = list
      BY <1>3 DEF CheckAt
    <2> QED
      BY <1>0, <2>1, LastStays DEF Late, SameLast
  <1> QED
    BY <1>2, <1>3

\* The null pointer is read when the comma was the last part.
LEMMA LastCalled ==
  ASSUME Tied, ptr \in Nat \ {0}, LastInv, CalledNick
  PROVE  LastInv'
  <1>0. /\ pass = "nick" /\ message' = message
        /\ made \in Nat /\ Ok(list, made) /\ Opened(list, Len(list)) /\ IsList(list)
    BY DEF Tied, CalledNick, Ok, PartsOk, given
  <1>1. PICK n : n = count_span_data_span(ptr)
    OBVIOUS
  <1>2. PICK M : M = Nicked(n)
    OBVIOUS
  <1>3. PICK t : t = ptr + 3
    OBVIOUS
  <1>4. PICK s : s = M[t].data
    OBVIOUS
  <1>5. PICK w : w = Len(message)
    OBVIOUS
  <1>6. n > 0 /\ Called(list, ptr, n)
    BY <1>0, <1>1, Counted DEF CalledNick
  <1>7. /\ Ok(M, made)
        /\ M[Len(M)].type = "MESSAGE" =>
             list[Len(list)].type = "MESSAGE" /\ M[Len(M)].data = list[Len(list)].data
    <2>1. PICK B : B = Without(Without(list, ptr + 1, ptr + (n - 1)), ptr + 2, ptr + 1 + (n - 1))
      OBVIOUS
    <2>2. PICK q : q = ptr + 2
      OBVIOUS
    <2>3. Renamed(M, B, ptr, q)
      BY <1>2, <2>1, <2>2 DEF Nicked, Extra, Renamed
    <2> QED
      BY <1>0, <1>6, <2>1, <2>2, <2>3, SpansNicked
  <1>8. EndedBy(M, w)
    <2>1. Len(list) # 0
      BY <1>0, <1>6 DEF Called, IsList
    <2>2. EndedBy(list, w)
      BY <1>0, <1>5 DEF LastInv, Late
    <2> QED
      BY <1>7, <2>1, <2>2 DEF EndedBy, LastIsText
  <1>9. IsList(M) /\ Len(M) \in Nat /\ t \in Nat \ {0}
    BY <1>3, <1>7 DEF Ok, PartsOk, IsList
  <1>10. \/ list' = M /\ pass' = pass
         \/ /\ t <= Len(M) /\ s # << >> /\ s[1] = COMMA
            /\ \/ list' = [M EXCEPT ![t].data = Tail(@)] /\ pass' = pass /\ Len(s) # 1
               \/ /\ list' = Without(M, t, t) /\ Len(s) = 1
                  /\ pass' = IF t = Len(M) THEN "crashed" ELSE pass
    BY <1>1, <1>2, <1>3, <1>4 DEF CalledNick, Alone
  <1>11. ASSUME EndedBy(list', w), pass' = pass PROVE LastInv'
    BY <1>0, <1>5, <1>11 DEF LastInv, Late, EndedBy, LastIsText, Ending, CommaLast, CrashesAtLastComma
  <1>12. CASE list' = M /\ pass' = pass
    BY <1>8, <1>11, <1>12
  <1>13. CASE /\ t <= Len(M) /\ s # << >> /\ s[1] = COMMA
              /\ \/ list' = [M EXCEPT ![t].data = Tail(@)] /\ pass' = pass /\ Len(s) # 1
                 \/ /\ list' = Without(M, t, t) /\ Len(s) = 1
                    /\ pass' = IF t = Len(M) THEN "crashed" ELSE pass
    <2>1. t \in 1 .. Len(M)
      BY <1>9, <1>13
    <2>2. M[t].type = "MESSAGE" /\ IsPart(M[t])
      BY <1>4, <1>7, <1>13, <2>1, NotNames DEF Ok, PartsOk
    <2>3. CASE list' = [M EXCEPT ![t].data = Tail(@)] /\ pass' = pass /\ Len(s) # 1
      <3>1. PICK v : v = Tail(M[t].data)
        OBVIOUS
      <3>2. Retold(list', M, t, v)
        BY <2>3, <3>1 DEF Retold
      <3>3. EndedBy(list', w)
        BY <1>4, <1>8, <1>9, <1>13, <2>1, <2>2, <2>3, <3>1, <3>2, LastTail
      <3> QED
        BY <1>11, <2>3, <3>3
    <2>4. CASE list' = Without(M, t, t) /\ t # Len(M) /\ pass' = pass
      <3>1. SameLast(list', M)
        BY <1>0, <1>7, <2>1, <2>4, LastAfter
      <3>2. EndedBy(list', w)
        BY <1>8, <3>1 DEF SameLast, EndedBy
      <3> QED
        BY <1>11, <2>4, <3>2
    <2>5. CASE t = Len(M) /\ Len(s) = 1 /\ pass' = "crashed"
      <3>1. Ending(s, w)
        BY <1>4, <1>8, <1>9, <2>1, <2>2, <2>5 DEF EndedBy, LastIsText
      <3>2. CommaLast(w)
        BY <1>13, <2>5, <3>1 DEF Ending, CommaEnds
      <3> QED
        BY <1>0, <1>5, <2>5, <3>2 DEF LastInv, Late, CommaLast, CrashesAtLastComma
    <2> QED
      BY <1>13, <2>3, <2>4, <2>5
  <1> QED
    BY <1>10, <1>12, <1>13

\* A link that is swapped with its text is closed after it.
LEMMA LastReduced ==
  ASSUME Tied, ptr \in Nat \ {0}, LastInv, CheckReduceLink
  PROVE  LastInv'
  <1>0. /\ pass = "reduce" /\ pass' = "special" /\ message' = message
        /\ Ok(list, made) /\ Opened(list, Len(list)) /\ IsList(list) /\ Len(list) \in Nat
    BY DEF Tied, CheckReduceLink, Ok, PartsOk, IsList, given
  <1>1. CASE list' = list
    BY <1>0, <1>1, LastStays DEF Late, SameLast
  <1>2. CASE IsLink(ptr) /\ list' = Swapped
    <2>1. PICK q : q = ptr + 1
      OBVIOUS
    <2>2. ptr \in 1 .. Len(list) /\ q \in 1 .. Len(list) /\ ptr # q /\ IsOpening(list[ptr])
      BY <1>0, <1>2, <2>1 DEF IsLink
    <2>3. PICK v : v = list[ptr].attributes[LinkAttribute(list[ptr])].value
      OBVIOUS
    <2>4. PICK A : A = [list[ptr].attributes EXCEPT ![LinkAttribute(list[ptr])] =
                          [name |-> <<"nohref">>, value |-> list[ptr + 1].data]]
      OBVIOUS
    <2>5. PICK y : y = [list[ptr] EXCEPT !.attributes = A]
      OBVIOUS
    <2>6. PICK z : z = [list[q] EXCEPT !.data = v]
      OBVIOUS
    <2>7. PICK D : D = [list EXCEPT ![ptr] = y]
      OBVIOUS
    <2>8. DOMAIN list = 1 .. Len(list)
      BY <1>0 DEF IsList
    <2>9. list' = [D EXCEPT ![q] = z]
      BY <1>2, <2>1, <2>2, <2>3, <2>4, <2>5, <2>6, <2>7, <2>8 DEF Swapped
    <2>10. With(D, list, ptr, y)
      BY <2>7 DEF With
    <2>11. /\ IsList(D) /\ Len(D) = Len(list)
           /\ \A x \in 1 .. Len(list) : D[x] = IF x = ptr THEN y ELSE list[x]
      BY <1>0, <2>2, <2>10, ListUpdated
    <2>12. With(list', D, q, z) /\ q \in 1 .. Len(D)
      BY <2>2, <2>9, <2>11 DEF With
    <2>13. /\ Len(list') = Len(list)
           /\ \A x \in 1 .. Len(list) : list'[x] = IF x = q THEN z ELSE D[x]
      BY <2>11, <2>12, ListUpdated
    <2>14. IsPart(list[ptr]) /\ IsPart(list[q]) /\ list[ptr].link # 0
      BY <1>0, <2>2 DEF Ok, PartsOk, Opened
    <2>15. y.type = list[ptr].type /\ z.type = list[q].type
      <3>1. PICK a : a = list[ptr]
        OBVIOUS
      <3>2. PICK b : b = list[q]
        OBVIOUS
      <3>3. WithAttributes(y, a, A) /\ WithData(z, b, v)
        BY <2>5, <2>6, <3>1, <3>2 DEF WithAttributes, WithData
      <3> QED
        BY <2>14, <3>1, <3>2, <3>3, AttributesUpdated, DataUpdated
    <2>16. PICK r \in 1 .. Len(list) : ptr < r /\ IsClosing(list[r])
      <3>1. PICK r \in 1 .. Len(list) : IsPair(list, ptr, r) \/ IsPair(list, r, ptr)
        BY <1>0, <2>2, <2>14 DEF Ok, Mutual
      <3> QED
        BY <2>2, <3>1 DEF IsPair, IsOpening, IsClosing
    <2>17. PICK m \in Nat : m = Len(list) /\ m \in 1 .. m
      BY <1>0, <2>2
    <2>18. CASE m = q
      <3>1. r = q
        BY <2>1, <2>2, <2>16, <2>17, <2>18
      <3>2. list'[m].type = "CLOSING"
        BY <2>13, <2>15, <2>16, <2>18, <3>1 DEF IsClosing
      <3> QED
        BY <1>0, <2>13, <2>17, <3>2, LastStays DEF Late, SameLast, LastIsText
    <2>19. CASE m # q
      <3>1. m # ptr
        BY <2>1, <2>2, <2>17
      <3>2. list'[m] = list[m]
        BY <2>11, <2>13, <2>17, <2>19, <3>1
      <3> QED
        BY <1>0, <2>13, <2>17, <3>2, LastStays DEF Late, SameLast, LastIsText
    <2> QED
      BY <2>18, <2>19
  <1> QED
    BY <1>1, <1>2 DEF CheckReduceLink
LEMMA LastBegun ==
  ASSUME LinksInv, LastInv, ReadRules \/ parser_get_config \/ ConfigRead \/ Begin \/ Continue
  PROVE  LastInv'
  <1>1. /\ pass \in {"rules", "ready", "begun"} /\ prev_data = << >> /\ prev_data' = prev_data
        /\ list = << >> /\ list' = list /\ i = 1 /\ i' = i
        /\ pass' \in {"rules", "ready", "begun", "create"}
    BY DEF LinksInv, LastInv, Blank, ReadRules, parser_get_config, ConfigRead, Begin, Continue, scanvars
  <1>3. ~LastIsText(<< >>)
    BY EmptySeq DEF LastIsText
  <1>4. Read(i - 1)'
    BY <1>1, <1>3, EmptySeq DEF Read, EndedBy, Ending, IsList, CommaEnds
  <1> QED
    BY <1>1, <1>4 DEF LastInv, Late, CrashesAtLastComma

LEMMA LastFormat ==
  ASSUME LinksInv, LastInv, FormatterNext
  PROVE  LastInv'
  <1>0. ptr \in Nat \ {0}
    BY DEF LinksInv
  <1>1. CASE ReadRules \/ parser_get_config \/ ConfigRead \/ Begin \/ Continue
    BY <1>1, LastBegun
  <1>2. CASE CreateParts
    BY <1>2, LastCreated DEF LinksInv, CreateParts
  <1>3. CASE PartsCreated
    BY <1>3, LastRead DEF LinksInv, PartsCreated
  <1>4. CASE associate_links
    BY <1>4, LastLinked DEF LinksInv, associate_links
  <1>5. CASE force_close_tags
    BY <1>5, LastClosed DEF LinksInv, force_close_tags
  <1>6. CASE EndOfPass \/ NoMoreNick \/ parser_parse_messages
    <2>1. /\ pass \in Late /\ pass' \in Late \cup {"done"} /\ message' = message /\ list' = list
      BY <1>6 DEF EndOfPass, PassAfter, NoMoreNick, parser_parse_messages, given, Late
    <2> QED
      BY <2>1, LastStays DEF SameLast
  <1>7. CASE CheckAt
    BY <1>0, <1>7, LastChecked DEF LinksInv, CheckAt
  <1>8. CASE CalledNick
    BY <1>0, <1>8, LastCalled DEF LinksInv, CalledNick
  <1>9. CASE CheckReduceLink
    BY <1>0, <1>9, LastReduced DEF LinksInv, CheckReduceLink
  <1> QED
    BY <1>1, <1>2, <1>3, <1>4, <1>5, <1>6, <1>7, <1>8, <1>9 DEF FormatterNext

LEMMA LastStart == Init => LastInv
  BY DEF Init, FormatterInit, LastInv, Late, CrashesAtLastComma

LEMMA LastStep == LinksInv /\ LastInv /\ [Next]_vars => LastInv'
  <1> SUFFICES ASSUME LinksInv, LastInv, [Next]_vars PROVE LastInv'
    OBVIOUS
  <1>1. CASE Format
    BY <1>1, LastFormat DEF Format
  <1>2. CASE UNCHANGED fvars
    BY <1>2 DEF fvars, given, scanvars, LastInv, Late, Read, EndedBy, LastIsText, Ending, CommaLast,
                CrashesAtLastComma
  <1> QED
    BY <1>1, <1>2 DEF Next, Configure, vars

(* Whatever the message, a null pointer is only read for a name followed by a *)
(* comma and by nothing else that makes a part (parser.c:499-523, 742-746).   *)
THEOREM AlwaysCrashesAtLastComma == Spec => []CrashesAtLastComma
  <1>1. LastInv => CrashesAtLastComma
    BY DEF LastInv
  <1> QED
    BY <1>1, LinksStart, LinksStep, LastStart, LastStep, PTL DEF Spec


-----------------------------------------------------------------------------
(* What the rules put around the parts: each start is followed by its stop.  *)

\* Sequences grow and shrink at their end.
Pushes(T, S, v) == T = Append(S, v)

LEMMA Pushed ==
  ASSUME NEW S, IsList(S), NEW v, NEW T, Pushes(T, S, v)
  PROVE  /\ IsList(T) /\ Len(T) = Len(S) + 1 /\ T[Len(S) + 1] = v
         /\ \A x \in 1 .. Len(S) : T[x] = S[x]
  <1>1. PICK A : S \in Seq(A)
    BY DEF IsList
  <1> DEFINE B == A \cup {v}
  <1>2. S \in Seq(B) /\ v \in B
    BY <1>1
  <1> HIDE DEF B
  <1>3. /\ T \in Seq(B) /\ Len(T) = Len(S) + 1 /\ T[Len(S) + 1] = v
        /\ \A x \in 1 .. Len(S) : T[x] = S[x]
    BY <1>2, AppendProperties DEF Pushes
  <1> QED
    BY <1>3 DEF IsList

LEMMA Shortened ==
  ASSUME NEW S, IsList(S), S # << >>, NEW T, T = Front(S)
  PROVE  /\ IsList(T) /\ Len(S) \in Nat \ {0} /\ Len(T) = Len(S) - 1
         /\ \A x \in 1 .. Len(S) - 1 : T[x] = S[x]
  <1>1. PICK A : S \in Seq(A)
    BY DEF IsList
  <1>2. PICK n \in Nat : n = Len(S)
    BY <1>1
  <1>3. n # 0
    BY <1>1, <1>2, EmptySeq
  <1>4. \A x \in 1 .. n - 1 : S[x] \in A
    BY <1>1, <1>2
  <1>5. n - 1 \in Int /\ 1 \in Int /\ 1 <= n
    BY <1>3
  <1>6. T = SubSeq(S, 1, n - 1)
    BY <1>2 DEF Front
  <1>7. PICK m \in Nat : m = n - 1
    BY <1>3
  <1>8. /\ SubSeq(S, 1, m) \in Seq(A) /\ Len(SubSeq(S, 1, m)) = IF 1 <= m THEN m - 1 + 1 ELSE 0
        /\ \A x \in 1 .. m - 1 + 1 : SubSeq(S, 1, m)[x] = S[1 + x - 1]
    BY <1>4, <1>7, SubSeqProperties
  <1>9. T \in Seq(A) /\ Len(T) = m /\ \A x \in 1 .. m : T[x] = S[x]
    BY <1>6, <1>7, <1>8
  <1> QED
    BY <1>2, <1>3, <1>7, <1>9 DEF IsList

LEMMA SameStart ==
  ASSUME NEW S, IsList(S), NEW T, IsList(T), NEW n \in Nat, n <= Len(S), n <= Len(T),
         \A x \in 1 .. n : S[x] = T[x]
  PROVE  SubSeq(S, 1, n) = SubSeq(T, 1, n)
  <1>1. PICK A : S \in Seq(A)
    BY DEF IsList
  <1>2. PICK B : T \in Seq(B)
    BY DEF IsList
  <1> DEFINE C == A \cup B
  <1>3. S \in Seq(C) /\ T \in Seq(C)
    BY <1>1, <1>2
  <1> HIDE DEF C
  <1>4. \A x \in 1 .. n : S[x] \in C /\ T[x] \in C
    BY <1>3
  <1>5. /\ SubSeq(S, 1, n) \in Seq(C) /\ Len(SubSeq(S, 1, n)) = n
        /\ \A x \in 1 .. n : SubSeq(S, 1, n)[x] = S[x]
    <2>1. /\ SubSeq(S, 1, n) \in Seq(C) /\ Len(SubSeq(S, 1, n)) = IF 1 <= n THEN n - 1 + 1 ELSE 0
          /\ \A x \in 1 .. n - 1 + 1 : SubSeq(S, 1, n)[x] = S[1 + x - 1]
      BY <1>4, SubSeqProperties
    <2> QED
      BY <2>1
  <1>6. /\ SubSeq(T, 1, n) \in Seq(C) /\ Len(SubSeq(T, 1, n)) = n
        /\ \A x \in 1 .. n : SubSeq(T, 1, n)[x] = T[x]
    <2>1. /\ SubSeq(T, 1, n) \in Seq(C) /\ Len(SubSeq(T, 1, n)) = IF 1 <= n THEN n - 1 + 1 ELSE 0
          /\ \A x \in 1 .. n - 1 + 1 : SubSeq(T, 1, n)[x] = T[1 + x - 1]
      BY <1>4, SubSeqProperties
    <2> QED
      BY <2>1
  <1>7. PICK s : s = SubSeq(S, 1, n)
    OBVIOUS
  <1>8. PICK t : t = SubSeq(T, 1, n)
    OBVIOUS
  <1>9. s \in Seq(C) /\ t \in Seq(C) /\ Len(s) = Len(t) /\ \A x \in 1 .. Len(s) : s[x] = t[x]
    BY <1>5, <1>6, <1>7, <1>8
  <1>10. s = t
    BY <1>9, SeqEqual
  <1> QED
    BY <1>7, <1>8, <1>10

LEMMA WholeList ==
  ASSUME NEW S, IsList(S)
  PROVE  SubSeq(S, 1, Len(S)) = S
  <1>1. PICK A : S \in Seq(A)
    BY DEF IsList
  <1> QED
    BY <1>1, SubSeqFull
\* The rule for attributes in a context.
RuleIn(rules, own, contexts) ==
  LET applies(rule) ==
        \/ rule.tag = NoText
        \/ \E a \in ToSet(own) : rule.tag = a.name /\ (rule.value = NoText \/ rule.value = a.value)
      hits == UNION {{<<x, y>> : y \in {z \in DOMAIN rules[x].rules : applies(rules[x].rules[z])}} :
                       x \in {z \in DOMAIN rules : InContext(rules[z], contexts)}}
  IN  IF hits = {} THEN NoRule
      ELSE CHOOSE x \in hits : \A y \in hits : x[1] < y[1] \/ (x[1] = y[1] /\ x[2] <= y[2])

LEMMA RuleIs ==
  ASSUME NEW part, NEW contexts
  PROVE  RuleFor(part, contexts) = RuleIn(config, AttributesOf(part), contexts)
  BY DEF RuleFor, RuleIn, Applies

\* A closing tag is looked for with the attributes of the opening one.
LEMMA OwnAttributes ==
  ASSUME NEW part, ~IsClosing(part)
  PROVE  AttributesOf(part) = part.attributes
  BY DEF AttributesOf

LEMMA LinkedAttributes ==
  ASSUME NEW k, PartsOk(list, k), NEW p, NEW q, IsPair(list, p, q)
  PROVE  AttributesOf(list[q]) = list[p].attributes
  <1>1. /\ p \in DOMAIN list /\ list[p].id = list[q].link /\ IsClosing(list[q])
        /\ \A r \in DOMAIN list : list[r].id = list[q].link => r = p
    <2>1. DOMAIN list = 1 .. Len(list)
      BY DEF PartsOk, IsList
    <2> QED
      BY <2>1 DEF PartsOk, IsPair
  <1>2. PICK v : v = list[q].link
    OBVIOUS
  <1>3. (CHOOSE r \in DOMAIN list : list[r].id = v) = p
    BY <1>1, <1>2
  <1> QED
    BY <1>1, <1>2, <1>3 DEF AttributesOf

-----------------------------------------------------------------------------
(* Marks: the starts that were written for the rules R of the open tags.     *)

Marked(m, R, h) ==
  /\ IsList(m) /\ IsList(R)
  /\ \A k \in 1 .. Len(m) :
       h[k] \in 1 .. Len(R) /\ m[k] = <<"OPENING", R[h[k]]>> /\ R[h[k]] # NoRule
  /\ \A k, l \in 1 .. Len(m) : k < l => h[k] < h[l]
  /\ \A x \in 1 .. Len(R) : R[x] # NoRule => \E k \in 1 .. Len(m) : h[k] = x

LEMMA MarkNone == Marked(<< >>, << >>, << >>)
  <1>1. IsList(<< >>) /\ Len(<< >>) = 0
    BY EmptySeq DEF IsList
  <1> QED
    BY <1>1 DEF Marked

LEMMA NoMarkPushed ==
  ASSUME NEW m, NEW R, NEW h, Marked(m, R, h), NEW Q, Pushes(Q, R, NoRule)
  PROVE  Marked(m, Q, h)
  <1>1. /\ IsList(Q) /\ Len(Q) = Len(R) + 1 /\ Q[Len(R) + 1] = NoRule
        /\ \A x \in 1 .. Len(R) : Q[x] = R[x]
    <2>1. IsList(R)
      BY DEF Marked
    <2> QED
      BY <2>1, Pushed
  <1>2. PICK n \in Nat : n = Len(R)
    BY DEF Marked, IsList
  <1>3. \A x \in 1 .. n + 1 : x = n + 1 \/ x \in 1 .. n
    OBVIOUS
  <1>4. \A x \in 1 .. n : x \in 1 .. n + 1
    OBVIOUS
  <1>5. \A k \in 1 .. Len(m) : h[k] \in 1 .. n /\ m[k] = <<"OPENING", R[h[k]]>> /\ R[h[k]] # NoRule
    BY <1>2 DEF Marked
  <1>6. \A k \in 1 .. Len(m) : h[k] \in 1 .. Len(Q) /\ m[k] = <<"OPENING", Q[h[k]]>> /\ Q[h[k]] # NoRule
    BY <1>1, <1>2, <1>4, <1>5
  <1>7. \A x \in 1 .. Len(Q) : Q[x] # NoRule => \E k \in 1 .. Len(m) : h[k] = x
    BY <1>1, <1>2, <1>3 DEF Marked
  <1> QED
    BY <1>1, <1>6, <1>7 DEF Marked

LEMMA MarkPushed ==
  ASSUME NEW m, NEW R, NEW h, Marked(m, R, h), NEW r, r # NoRule, NEW Q, Pushes(Q, R, r),
         NEW v, v = <<"OPENING", r>>, NEW l, Pushes(l, m, v)
  PROVE  \E g : Marked(l, Q, g)
  <1>1. /\ IsList(Q) /\ Len(Q) = Len(R) + 1 /\ Q[Len(R) + 1] = r
        /\ \A x \in 1 .. Len(R) : Q[x] = R[x]
    <2>1. IsList(R)
      BY DEF Marked
    <2> QED
      BY <2>1, Pushed
  <1>2. /\ IsList(l) /\ Len(l) = Len(m) + 1 /\ l[Len(m) + 1] = v
        /\ \A x \in 1 .. Len(m) : l[x] = m[x]
    <2>1. IsList(m)
      BY DEF Marked
    <2> QED
      BY <2>1, Pushed
  <1>3. PICK n \in Nat : n = Len(R)
    BY DEF Marked, IsList
  <1>4. PICK j \in Nat : j = Len(m)
    BY DEF Marked, IsList
  <1>5. PICK n1 \in Nat : n1 = n + 1
    OBVIOUS
  <1>6. PICK j1 \in Nat : j1 = j + 1
    OBVIOUS
  <1> DEFINE g == [k \in 1 .. j1 |-> IF k = j1 THEN n1 ELSE h[k]]
  <1>7. \A k \in 1 .. j1 : g[k] = IF k = j1 THEN n1 ELSE h[k]
    OBVIOUS
  <1> HIDE DEF g
  <1>8. /\ \A k \in 1 .. j1 : k # j1 => k \in 1 .. j
        /\ \A k \in 1 .. j : k \in 1 .. j1 /\ k # j1
        /\ \A x \in 1 .. n1 : x # n1 => x \in 1 .. n
        /\ \A x \in 1 .. n : x \in 1 .. n1 /\ x < n1
        /\ n1 \in 1 .. n1 /\ j1 \in 1 .. j1
    BY <1>5, <1>6
  <1>9. \A k \in 1 .. j : h[k] \in 1 .. n /\ m[k] = <<"OPENING", R[h[k]]>> /\ R[h[k]] # NoRule
    BY <1>3, <1>4 DEF Marked
  <1>10. ASSUME NEW k \in 1 .. j1
         PROVE  g[k] \in 1 .. n1 /\ l[k] = <<"OPENING", Q[g[k]]>> /\ Q[g[k]] # NoRule
    <2>1. CASE k = j1
      <3>1. g[k] = n1 /\ l[k] = v /\ Q[n1] = r
        BY <1>1, <1>2, <1>3, <1>4, <1>5, <1>6, <1>7, <2>1
      <3> QED
        BY <1>8, <3>1
    <2>2. CASE k # j1
      <3>1. k \in 1 .. j
        BY <1>8, <2>2
      <3>2. g[k] = h[k] /\ l[k] = m[k]
        BY <1>2, <1>4, <1>7, <2>2, <3>1
      <3>3. h[k] \in 1 .. n /\ m[k] = <<"OPENING", R[h[k]]>> /\ R[h[k]] # NoRule
        BY <1>9, <3>1
      <3>4. Q[h[k]] = R[h[k]]
        BY <1>1, <1>3, <3>3
      <3> QED
        BY <1>8, <3>2, <3>3, <3>4
    <2> QED
      BY <2>1, <2>2
  <1>11. ASSUME NEW k \in 1 .. j1, NEW w \in 1 .. j1, k < w
         PROVE  g[k] < g[w]
    <2>1. k \in 1 .. j /\ g[k] = h[k]
      BY <1>6, <1>7, <1>11
    <2>2. CASE w = j1
      <3>1. g[w] = n1 /\ h[k] \in 1 .. n
        BY <1>7, <1>9, <2>1, <2>2
      <3> QED
        BY <1>8, <2>1, <3>1
    <2>3. CASE w # j1
      <3>1. w \in 1 .. j /\ g[w] = h[w]
        BY <1>7, <1>8, <2>3
      <3> QED
        BY <1>4, <1>11, <2>1, <3>1 DEF Marked
    <2> QED
      BY <2>2, <2>3
  <1>12. ASSUME NEW x \in 1 .. n1, Q[x] # NoRule
         PROVE  \E k \in 1 .. j1 : g[k] = x
    <2>1. CASE x = n1
      BY <1>7, <1>8, <2>1
    <2>2. CASE x # n1
      <3>1. x \in 1 .. n /\ Q[x] = R[x]
        BY <1>1, <1>3, <1>8, <2>2
      <3>2. PICK k \in 1 .. j : h[k] = x
        BY <1>3, <1>4, <1>12, <3>1 DEF Marked
      <3>3. g[k] = x /\ k \in 1 .. j1
        BY <1>7, <1>8, <3>2
      <3> QED
        BY <3>3
    <2> QED
      BY <2>1, <2>2
  <1>13. Len(Q) = n1 /\ Len(l) = j1
    BY <1>1, <1>2, <1>3, <1>4, <1>5, <1>6
  <1>14. Marked(l, Q, g)
    BY <1>1, <1>2, <1>10, <1>11, <1>12, <1>13 DEF Marked
  <1> QED
    BY <1>14
Pops(T, S) == T = Front(S)

LEMMA Popping ==
  ASSUME NEW S, IsList(S), S # << >>, NEW T, Pops(T, S)
  PROVE  /\ IsList(T) /\ Len(S) \in Nat \ {0} /\ Len(T) = Len(S) - 1
         /\ \A x \in 1 .. Len(S) - 1 : T[x] = S[x]
  BY Shortened DEF Pops

LEMMA NoMarkPopped ==
  ASSUME NEW m, NEW R, NEW h, Marked(m, R, h), R # << >>, R[Len(R)] = NoRule, NEW Q, Pops(Q, R)
  PROVE  Marked(m, Q, h)
  <1>1. /\ IsList(Q) /\ Len(R) \in Nat \ {0} /\ Len(Q) = Len(R) - 1
        /\ \A x \in 1 .. Len(R) - 1 : Q[x] = R[x]
    <2>1. IsList(R)
      BY DEF Marked
    <2> QED
      BY <2>1, Popping
  <1>2. PICK n \in Nat \ {0} : n = Len(R)
    BY <1>1
  <1>3. PICK n0 \in Nat : n0 = n - 1
    OBVIOUS
  <1>4. /\ \A x \in 1 .. n : x # n => x \in 1 .. n0
        /\ \A x \in 1 .. n0 : x \in 1 .. n
    BY <1>3
  <1>5. \A k \in 1 .. Len(m) : h[k] \in 1 .. n /\ m[k] = <<"OPENING", R[h[k]]>> /\ R[h[k]] # NoRule
    BY <1>2 DEF Marked
  <1>6. \A x \in 1 .. n0 : Q[x] = R[x]
    BY <1>1, <1>2, <1>3
  <1>7. \A k \in 1 .. Len(m) : h[k] \in 1 .. n0 /\ m[k] = <<"OPENING", Q[h[k]]>> /\ Q[h[k]] # NoRule
    <2> SUFFICES ASSUME NEW k \in 1 .. Len(m)
                 PROVE  h[k] \in 1 .. n0 /\ m[k] = <<"OPENING", Q[h[k]]>> /\ Q[h[k]] # NoRule
      OBVIOUS
    <2>1. h[k] \in 1 .. n /\ m[k] = <<"OPENING", R[h[k]]>> /\ R[h[k]] # NoRule
      BY <1>5
    <2>2. h[k] # n
      BY <1>2, <2>1
    <2>3. h[k] \in 1 .. n0
      BY <1>4, <2>1, <2>2
    <2> QED
      BY <1>6, <2>1, <2>3
  <1>8. \A x \in 1 .. n0 : Q[x] # NoRule => \E k \in 1 .. Len(m) : h[k] = x
    BY <1>2, <1>4, <1>6 DEF Marked
  <1>9. Len(Q) = n0 /\ IsList(m)
    BY <1>1, <1>2, <1>3 DEF Marked
  <1> QED
    BY <1>1, <1>7, <1>8, <1>9 DEF Marked

LEMMA MarkPopped ==
  ASSUME NEW m, NEW R, NEW h, Marked(m, R, h), R # << >>, R[Len(R)] # NoRule, NEW Q, Pops(Q, R),
         NEW l, Pops(l, m)
  PROVE  m # << >> /\ m[Len(m)] = <<"OPENING", R[Len(R)]>> /\ Marked(l, Q, h)
  <1>1. /\ IsList(Q) /\ Len(R) \in Nat \ {0} /\ Len(Q) = Len(R) - 1
        /\ \A x \in 1 .. Len(R) - 1 : Q[x] = R[x]
    <2>1. IsList(R)
      BY DEF Marked
    <2> QED
      BY <2>1, Popping
  <1>2. PICK n \in Nat \ {0} : n = Len(R)
    BY <1>1
  <1>3. PICK n0 \in Nat : n0 = n - 1
    OBVIOUS
  <1>4. /\ \A x \in 1 .. n : x < n => x \in 1 .. n0
        /\ \A x \in 1 .. n0 : x \in 1 .. n /\ x # n
        /\ n \in 1 .. n /\ \A x \in 1 .. n : ~(n < x)
    BY <1>3
  <1>5. PICK j \in Nat : j = Len(m)
    BY DEF Marked, IsList
  <1>6. \A k \in 1 .. j : h[k] \in 1 .. n /\ m[k] = <<"OPENING", R[h[k]]>> /\ R[h[k]] # NoRule
    BY <1>2, <1>5 DEF Marked
  <1>7. \A x \in 1 .. n0 : Q[x] = R[x]
    BY <1>1, <1>2, <1>3
  <1>8. PICK k0 \in 1 .. j : h[k0] = n
    BY <1>2, <1>4, <1>5 DEF Marked
  <1>9. k0 = j
    <2>1. CASE k0 < j
      <3>1. j \in 1 .. j
        BY <1>8
      <3>2. n < h[j]
        BY <1>5, <1>8, <2>1, <3>1 DEF Marked
      <3> QED
        BY <1>4, <1>6, <3>1, <3>2
    <2> QED
      BY <2>1
  <1>10. m # << >> /\ m[j] = <<"OPENING", R[n]>> /\ j \in 1 .. j
    <2>1. j \in 1 .. j
      BY <1>9
    <2>2. m # << >>
      BY <1>5, <2>1, EmptySeq
    <2> QED
      BY <1>6, <1>8, <1>9, <2>1, <2>2
  <1>11. /\ IsList(l) /\ Len(l) = j - 1
         /\ \A x \in 1 .. j - 1 : l[x] = m[x]
    <2>1. IsList(m)
      BY DEF Marked
    <2> QED
      BY <1>5, <1>10, <2>1, Popping
  <1>12. PICK j0 \in Nat : j0 = j - 1
    BY <1>10
  <1>13. \A k \in 1 .. j0 : k \in 1 .. j /\ k < j
    BY <1>12
  <1>14. ASSUME NEW k \in 1 .. j0
         PROVE  h[k] \in 1 .. n0 /\ l[k] = <<"OPENING", Q[h[k]]>> /\ Q[h[k]] # NoRule
    <2>1. h[k] \in 1 .. n /\ m[k] = <<"OPENING", R[h[k]]>> /\ R[h[k]] # NoRule
      BY <1>6, <1>13
    <2>2. h[k] < n
      BY <1>5, <1>8, <1>9, <1>13 DEF Marked
    <2>3. h[k] \in 1 .. n0
      BY <1>4, <2>1, <2>2
    <2>4. l[k] = m[k]
      BY <1>11, <1>12
    <2> QED
      BY <1>7, <2>1, <2>3, <2>4
  <1>15. \A k, w \in 1 .. j0 : k < w => h[k] < h[w]
    BY <1>5, <1>13 DEF Marked
  <1>16. ASSUME NEW x \in 1 .. n0, Q[x] # NoRule
         PROVE  \E k \in 1 .. j0 : h[k] = x
    <2>1. x \in 1 .. n /\ x # n /\ R[x] # NoRule
      BY <1>4, <1>7, <1>16
    <2>2. PICK k \in 1 .. j : h[k] = x
      BY <1>2, <1>5, <2>1 DEF Marked
    <2>3. k # j
      BY <1>8, <1>9, <2>1, <2>2
    <2>4. k \in 1 .. j0
      BY <1>12, <2>3
    <2> QED
      BY <2>2, <2>4
  <1>17. Len(Q) = n0 /\ Len(l) = j0
    BY <1>1, <1>2, <1>3, <1>11, <1>12
  <1>18. Marked(l, Q, h)
    BY <1>1, <1>11, <1>14, <1>15, <1>16, <1>17 DEF Marked
  <1> QED
    BY <1>2, <1>5, <1>10, <1>18

LEMMA NoMarkLeft ==
  ASSUME NEW m, NEW R, NEW h, Marked(m, R, h), Len(R) = 0
  PROVE  m = << >>
  <1>1. PICK j \in Nat : j = Len(m)
    BY DEF Marked, IsList
  <1>2. \A k \in 1 .. j : FALSE
    BY <1>1 DEF Marked
  <1>3. j = 0
    <2>1. 1 \in 1 .. j => FALSE
      BY <1>2
    <2> QED
      BY <2>1
  <1> QED
    BY <1>1, <1>3, EmptySeq DEF Marked, IsList
-----------------------------------------------------------------------------
(* O has the places of the openings before n that are closed at n or later.   *)

OpenAt(L, n, O) ==
  /\ IsList(O)
  /\ \A x \in 1 .. Len(O) : O[x] \in 1 .. n - 1 /\ \E q \in n .. Len(L) : IsPair(L, O[x], q)
  /\ \A x, y \in 1 .. Len(O) : x < y => O[x] < O[y]
  /\ \A p \in 1 .. n - 1, q \in n .. Len(L) : IsPair(L, p, q) => \E x \in 1 .. Len(O) : O[x] = p

LEMMA NoneOpen == ASSUME NEW L PROVE OpenAt(L, 1, << >>)
  <1>1. IsList(<< >>) /\ Len(<< >>) = 0
    BY EmptySeq DEF IsList
  <1> QED
    BY <1>1 DEF OpenAt

LEMMA AllClosed ==
  ASSUME NEW L, IsList(L), NEW n \in Nat, n > Len(L), NEW O, OpenAt(L, n, O)
  PROVE  Len(O) = 0
  <1>1. PICK j \in Nat : j = Len(O)
    BY DEF OpenAt, IsList
  <1>2. Len(L) \in Nat /\ \A q \in n .. Len(L) : FALSE
    BY DEF IsList
  <1>3. \A x \in 1 .. j : FALSE
    BY <1>1, <1>2 DEF OpenAt
  <1>4. 1 \in 1 .. j => FALSE
    BY <1>3
  <1> QED
    BY <1>1, <1>4

\* What is at n is not the end of a pair that is open there.
LEMMA OpenText ==
  ASSUME NEW L, NEW n \in 1 .. Len(L), Len(L) \in Nat, L[n].type = "MESSAGE", NEW O, OpenAt(L, n, O)
  PROVE  OpenAt(L, n + 1, O)
  <1>1. PICK l \in Nat : l = Len(L)
    OBVIOUS
  <1>2. PICK m \in Nat : m = n + 1
    BY <1>1
  <1>3. /\ \A q \in n .. l : q # n => q \in m .. l
        /\ \A q \in m .. l : q \in n .. l
        /\ \A p \in 1 .. m - 1 : p # n => p \in 1 .. n - 1
        /\ \A p \in 1 .. n - 1 : p \in 1 .. m - 1
    BY <1>1, <1>2
  <1>4. \A p : ~IsPair(L, n, p) /\ ~IsPair(L, p, n)
    BY DEF IsPair, IsOpening, IsClosing
  <1>5. \A x \in 1 .. Len(O) : O[x] \in 1 .. n - 1 /\ \E q \in n .. l : IsPair(L, O[x], q)
    BY <1>1 DEF OpenAt
  <1>6. \A x \in 1 .. Len(O) : O[x] \in 1 .. m - 1 /\ \E q \in m .. l : IsPair(L, O[x], q)
    BY <1>3, <1>4, <1>5
  <1>7. \A p \in 1 .. m - 1, q \in m .. l : IsPair(L, p, q) => \E x \in 1 .. Len(O) : O[x] = p
    BY <1>1, <1>3, <1>4 DEF OpenAt
  <1>8. OpenAt(L, m, O)
    BY <1>1, <1>6, <1>7 DEF OpenAt
  <1> QED
    BY <1>2, <1>8

LEMMA OpenPushed ==
  ASSUME NEW L, NEW n \in 1 .. Len(L), Len(L) \in Nat, NEW r, IsPair(L, n, r),
         NEW O, OpenAt(L, n, O), NEW Q, Pushes(Q, O, n)
  PROVE  OpenAt(L, n + 1, Q)
  <1>1. PICK l \in Nat : l = Len(L)
    OBVIOUS
  <1>2. PICK m \in Nat : m = n + 1
    BY <1>1
  <1>3. /\ \A q \in n .. l : q # n => q \in m .. l
        /\ \A q \in m .. l : q \in n .. l
        /\ \A p \in 1 .. m - 1 : p # n => p \in 1 .. n - 1
        /\ \A p \in 1 .. n - 1 : p \in 1 .. m - 1 /\ p < n
        /\ n \in 1 .. m - 1
    BY <1>1, <1>2
  <1>4. /\ \A p : ~IsPair(L, p, n)
        /\ r \in m .. l
    BY <1>1, <1>2 DEF IsPair, IsOpening, IsClosing
  <1>5. PICK j \in Nat : j = Len(O)
    BY DEF OpenAt, IsList
  <1>6. PICK k \in Nat : k = j + 1
    OBVIOUS
  <1>7. IsList(Q) /\ Len(Q) = k /\ Q[k] = n /\ \A x \in 1 .. j : Q[x] = O[x]
    <2>1. IsList(O)
      BY DEF OpenAt
    <2>2. IsList(Q) /\ Len(Q) = Len(O) + 1 /\ Q[Len(O) + 1] = n /\ \A x \in 1 .. Len(O) : Q[x] = O[x]
      BY <2>1, Pushed
    <2> QED
      BY <1>5, <1>6, <2>2
  <1>8. /\ \A x \in 1 .. k : x # k => x \in 1 .. j
        /\ \A x \in 1 .. j : x \in 1 .. k
        /\ \A x, y \in 1 .. k : x < y => x \in 1 .. j
        /\ k \in 1 .. k
    BY <1>6
  <1>9. \A x \in 1 .. j : O[x] \in 1 .. n - 1 /\ \E q \in n .. l : IsPair(L, O[x], q)
    BY <1>1, <1>5 DEF OpenAt
  <1>10. ASSUME NEW x \in 1 .. k
         PROVE  Q[x] \in 1 .. m - 1 /\ \E q \in m .. l : IsPair(L, Q[x], q)
    <2>1. CASE x = k
      BY <1>3, <1>4, <1>7, <2>1
    <2>2. CASE x # k
      <3>1. x \in 1 .. j /\ Q[x] = O[x]
        BY <1>7, <1>8, <2>2
      <3>2. PICK q \in n .. l : IsPair(L, O[x], q)
        BY <1>9, <3>1
      <3> QED
        BY <1>3, <1>4, <1>9, <3>1, <3>2
    <2> QED
      BY <2>1, <2>2
  <1>11. ASSUME NEW x \in 1 .. k, NEW y \in 1 .. k, x < y
         PROVE  Q[x] < Q[y]
    <2>1. x \in 1 .. j /\ Q[x] = O[x]
      BY <1>7, <1>8, <1>11
    <2>2. CASE y = k
      BY <1>3, <1>7, <1>9, <2>1, <2>2
    <2>3. CASE y # k
      <3>1. y \in 1 .. j /\ Q[y] = O[y]
        BY <1>7, <1>8, <2>3
      <3> QED
        BY <1>5, <1>11, <2>1, <3>1 DEF OpenAt
    <2> QED
      BY <2>2, <2>3
  <1>12. ASSUME NEW p \in 1 .. m - 1, NEW q \in m .. l, IsPair(L, p, q)
         PROVE  \E x \in 1 .. k : Q[x] = p
    <2>1. CASE p = n
      BY <1>7, <1>8, <2>1
    <2>2. CASE p # n
      <3>1. p \in 1 .. n - 1 /\ q \in n .. l
        BY <1>3, <2>2
      <3>2. PICK x \in 1 .. j : O[x] = p
        BY <1>1, <1>5, <1>12, <3>1 DEF OpenAt
      <3> QED
        BY <1>7, <1>8, <3>2
    <2> QED
      BY <2>1, <2>2
  <1>13. OpenAt(L, m, Q)
    BY <1>1, <1>7, <1>10, <1>11, <1>12 DEF OpenAt
  <1> QED
    BY <1>2, <1>13

\* The last to be opened is the one that is closed.
LEMMA OpenLast ==
  ASSUME NEW L, NEW k \in Nat, Ok(L, k), NEW n \in 1 .. Len(L), NEW r, IsPair(L, r, n),
         NEW O, OpenAt(L, n, O)
  PROVE  O # << >> /\ Len(O) \in 1 .. Len(O) /\ O[Len(O)] = r
  <1>1. PICK l \in Nat : l = Len(L)
    BY DEF Ok, PartsOk, IsList
  <1>2. r \in 1 .. n - 1 /\ n \in n .. l /\ n \in Nat
    BY <1>1 DEF IsPair
  <1>3. PICK j \in Nat : j = Len(O)
    BY DEF OpenAt, IsList
  <1>4. PICK x \in 1 .. j : O[x] = r
    BY <1>1, <1>2, <1>3 DEF OpenAt
  <1>5. j \in 1 .. j
    BY <1>4
  <1>6. CASE x = j
    <2>1. O # << >>
      BY <1>3, <1>5, EmptySeq
    <2> QED
      BY <1>3, <1>4, <1>5, <1>6, <2>1
  <1>7. CASE x # j
    <2>1. r < O[j]
      <3>1. x < j
        BY <1>7
      <3> QED
        BY <1>3, <1>4, <1>5, <3>1 DEF OpenAt
    <2>2. PICK p : p = O[j]
      OBVIOUS
    <2>3. PICK q \in n .. l : p \in 1 .. n - 1 /\ IsPair(L, p, q)
      BY <1>1, <1>3, <1>5, <2>2 DEF OpenAt
    <2>4. q # n
      <3>1. q = n => p = r
        BY <2>3, OnlyPair DEF Ok
      <3> QED
        BY <1>2, <2>1, <2>2, <2>3, <3>1
    <2>5. \A a, b, c1, d \in 1 .. Len(L) : IsPair(L, a, b) /\ IsPair(L, c1, d) /\ a < c1 /\ c1 < b => d < b
      BY DEF Ok, Nests
    <2>6. r \in 1 .. Len(L) /\ p \in 1 .. Len(L) /\ q \in 1 .. Len(L) /\ p < n
      BY <1>1, <1>2, <2>3
    <2>7. q < n
      BY <2>1, <2>2, <2>3, <2>5, <2>6
    <2> QED
      BY <1>2, <2>3, <2>4, <2>7
  <1> QED
    BY <1>6, <1>7

LEMMA OpenPopped ==
  ASSUME NEW L, NEW k \in Nat, Ok(L, k), NEW n \in 1 .. Len(L), NEW r, IsPair(L, r, n),
         NEW O, OpenAt(L, n, O), NEW Q, Pops(Q, O)
  PROVE  OpenAt(L, n + 1, Q)
  <1>1. PICK l \in Nat : l = Len(L)
    BY DEF Ok, PartsOk, IsList
  <1>2. PICK m \in Nat : m = n + 1
    BY <1>1
  <1>3. /\ \A q \in n .. l : q # n => q \in m .. l
        /\ \A q \in m .. l : q \in n .. l /\ q # n
        /\ \A p \in 1 .. m - 1 : p # n => p \in 1 .. n - 1
        /\ \A p \in 1 .. n - 1 : p \in 1 .. m - 1
    BY <1>1, <1>2
  <1>4. PICK j \in Nat : j = Len(O) /\ j \in 1 .. j /\ O[j] = r /\ O # << >>
    <2>1. O # << >> /\ Len(O) \in 1 .. Len(O) /\ O[Len(O)] = r
      BY OpenLast
    <2>2. Len(O) \in Nat
      BY DEF OpenAt, IsList
    <2> QED
      BY <2>1, <2>2
  <1>5. PICK i0 \in Nat : i0 = j - 1
    BY <1>4
  <1>6. IsList(Q) /\ Len(Q) = i0 /\ \A x \in 1 .. i0 : Q[x] = O[x]
    <2>1. IsList(O)
      BY DEF OpenAt
    <2>2. IsList(Q) /\ Len(Q) = Len(O) - 1 /\ \A x \in 1 .. Len(O) - 1 : Q[x] = O[x]
      BY <1>4, <2>1, Popping
    <2> QED
      BY <1>4, <1>5, <2>2
  <1>7. /\ \A x \in 1 .. i0 : x \in 1 .. j /\ x < j
        /\ \A x \in 1 .. j : x # j => x \in 1 .. i0
    BY <1>5
  <1>8. ASSUME NEW x \in 1 .. i0
        PROVE  Q[x] \in 1 .. m - 1 /\ \E q \in m .. l : IsPair(L, Q[x], q)
    <2>1. PICK p : p = O[x]
      OBVIOUS
    <2>2. p \in 1 .. n - 1 /\ p < r
      BY <1>4, <1>7, <2>1 DEF OpenAt
    <2>3. PICK q \in n .. l : IsPair(L, p, q)
      BY <1>1, <1>4, <1>7, <2>1 DEF OpenAt
    <2>4. q # n
      <3>1. q = n => p = r
        BY <2>3, OnlyPair DEF Ok
      <3> QED
        BY <2>2, <3>1
    <2> QED
      BY <1>3, <1>6, <2>1, <2>2, <2>3, <2>4
  <1>9. ASSUME NEW p \in 1 .. m - 1, NEW q \in m .. l, IsPair(L, p, q)
        PROVE  \E x \in 1 .. i0 : Q[x] = p
    <2>1. p # n
      BY <1>9 DEF IsPair, IsOpening, IsClosing
    <2>2. p # r
      <3>1. p = r => q = n
        BY <1>9, OnlyPair DEF Ok
      <3> QED
        BY <1>3, <3>1
    <2>3. PICK x \in 1 .. j : O[x] = p
      BY <1>1, <1>3, <1>4, <1>9, <2>1 DEF OpenAt
    <2>4. x \in 1 .. i0
      BY <1>4, <1>7, <2>2, <2>3
    <2> QED
      BY <1>6, <2>3, <2>4
  <1>10. \A x, y \in 1 .. i0 : x < y => Q[x] < Q[y]
    BY <1>4, <1>6, <1>7 DEF OpenAt
  <1>11. OpenAt(L, m, Q)
    BY <1>1, <1>6, <1>8, <1>9, <1>10 DEF OpenAt
  <1> QED
    BY <1>2, <1>11
-----------------------------------------------------------------------------
(* The contexts that are open, and the rules their tags were given.          *)

\* The contexts cs are the names of the tags at the places O, whose rules are R.
Stacked(L, rules, O, cs, R) ==
  /\ IsList(O) /\ IsList(cs) /\ IsList(R) /\ Len(cs) = Len(O) /\ Len(R) = Len(O)
  /\ \A x \in 1 .. Len(O) :
       cs[x] = L[O[x]].data /\ R[x] = RuleIn(rules, L[O[x]].attributes, SubSeq(cs, 1, x))

LEMMA NoneStacked == ASSUME NEW L, NEW rules PROVE Stacked(L, rules, << >>, << >>, << >>)
  <1>1. IsList(<< >>) /\ Len(<< >>) = 0
    BY EmptySeq DEF IsList
  <1> QED
    BY <1>1 DEF Stacked

LEMMA StackPushed ==
  ASSUME NEW L, NEW rules, NEW O, NEW cs, NEW R, Stacked(L, rules, O, cs, R),
         NEW n, NEW Q, Pushes(Q, O, n),
         NEW v, v = L[n].data, NEW D, Pushes(D, cs, v),
         NEW r, r = RuleIn(rules, L[n].attributes, D), NEW S, Pushes(S, R, r)
  PROVE  Stacked(L, rules, Q, D, S)
  <1>0. IsList(O) /\ IsList(cs) /\ IsList(R) /\ Len(cs) = Len(O) /\ Len(R) = Len(O)
    BY DEF Stacked
  <1>1. PICK j \in Nat : j = Len(O)
    BY <1>0 DEF IsList
  <1>2. PICK k \in Nat : k = j + 1
    OBVIOUS
  <1>3. IsList(Q) /\ Len(Q) = k /\ Q[k] = n /\ \A x \in 1 .. j : Q[x] = O[x]
    <2>1. IsList(Q) /\ Len(Q) = Len(O) + 1 /\ Q[Len(O) + 1] = n /\ \A x \in 1 .. Len(O) : Q[x] = O[x]
      BY <1>0, Pushed
    <2> QED
      BY <1>1, <1>2, <2>1
  <1>4. IsList(D) /\ Len(D) = k /\ D[k] = v /\ \A x \in 1 .. j : D[x] = cs[x]
    <2>1. IsList(D) /\ Len(D) = Len(cs) + 1 /\ D[Len(cs) + 1] = v /\ \A x \in 1 .. Len(cs) : D[x] = cs[x]
      BY <1>0, Pushed
    <2> QED
      BY <1>0, <1>1, <1>2, <2>1
  <1>5. IsList(S) /\ Len(S) = k /\ S[k] = r /\ \A x \in 1 .. j : S[x] = R[x]
    <2>1. IsList(S) /\ Len(S) = Len(R) + 1 /\ S[Len(R) + 1] = r /\ \A x \in 1 .. Len(R) : S[x] = R[x]
      BY <1>0, Pushed
    <2> QED
      BY <1>0, <1>1, <1>2, <2>1
  <1>6. ASSUME NEW x \in 1 .. k
        PROVE  D[x] = L[Q[x]].data /\ S[x] = RuleIn(rules, L[Q[x]].attributes, SubSeq(D, 1, x))
    <2>1. CASE x = k
      <3>1. SubSeq(D, 1, x) = D
        BY <1>4, <2>1, WholeList
      <3> QED
        BY <1>3, <1>4, <1>5, <2>1, <3>1
    <2>2. CASE x # k
      <3>1. x \in 1 .. j /\ x \in Nat /\ x <= j /\ x <= k /\ \A y \in 1 .. x : y \in 1 .. j
        BY <1>2, <2>2
      <3>2. /\ IsList(D) /\ IsList(cs) /\ x <= Len(D) /\ x <= Len(cs)
            /\ \A y \in 1 .. x : D[y] = cs[y]
        BY <1>0, <1>1, <1>4, <3>1
      <3>3. SubSeq(D, 1, x) = SubSeq(cs, 1, x)
        BY <3>1, <3>2, SameStart
      <3>4. cs[x] = L[O[x]].data /\ R[x] = RuleIn(rules, L[O[x]].attributes, SubSeq(cs, 1, x))
        BY <1>1, <3>1 DEF Stacked
      <3>5. D[x] = cs[x] /\ S[x] = R[x] /\ Q[x] = O[x]
        BY <1>3, <1>4, <1>5, <3>1
      <3> QED
        BY <3>3, <3>4, <3>5
    <2> QED
      BY <2>1, <2>2
  <1> QED
    BY <1>3, <1>4, <1>5, <1>6 DEF Stacked

LEMMA StackPopped ==
  ASSUME NEW L, NEW rules, NEW O, NEW cs, NEW R, Stacked(L, rules, O, cs, R), O # << >>,
         NEW Q, Pops(Q, O), NEW D, Pops(D, cs), NEW S, Pops(S, R)
  PROVE  Stacked(L, rules, Q, D, S)
  <1>0. IsList(O) /\ IsList(cs) /\ IsList(R) /\ Len(cs) = Len(O) /\ Len(R) = Len(O)
    BY DEF Stacked
  <1>1. IsList(Q) /\ Len(O) \in Nat \ {0} /\ Len(Q) = Len(O) - 1 /\ \A x \in 1 .. Len(O) - 1 : Q[x] = O[x]
    BY <1>0, Popping
  <1>2. PICK j \in Nat : j = Len(O) - 1
    BY <1>1
  <1>3. cs # << >> /\ R # << >>
    BY <1>0, <1>1, EmptySeq
  <1>4. IsList(D) /\ Len(D) = j /\ \A x \in 1 .. j : D[x] = cs[x]
    <2>1. IsList(D) /\ Len(D) = Len(cs) - 1 /\ \A x \in 1 .. Len(cs) - 1 : D[x] = cs[x]
      BY <1>0, <1>3, Popping
    <2> QED
      BY <1>0, <1>2, <2>1
  <1>5. IsList(S) /\ Len(S) = j /\ \A x \in 1 .. j : S[x] = R[x]
    <2>1. IsList(S) /\ Len(S) = Len(R) - 1 /\ \A x \in 1 .. Len(R) - 1 : S[x] = R[x]
      BY <1>0, <1>3, Popping
    <2> QED
      BY <1>0, <1>2, <2>1
  <1>6. ASSUME NEW x \in 1 .. j
        PROVE  D[x] = L[Q[x]].data /\ S[x] = RuleIn(rules, L[Q[x]].attributes, SubSeq(D, 1, x))
    <2>1. /\ x \in Nat /\ x <= j /\ \A y \in 1 .. x : y \in 1 .. j
      OBVIOUS
    <2>2. x \in 1 .. Len(O) /\ x <= Len(cs)
      BY <1>0, <1>1, <1>2
    <2>3. SubSeq(D, 1, x) = SubSeq(cs, 1, x)
      <3>1. /\ IsList(D) /\ IsList(cs) /\ x <= Len(D) /\ x <= Len(cs)
            /\ \A y \in 1 .. x : D[y] = cs[y]
        BY <1>0, <1>4, <2>1, <2>2
      <3> QED
        BY <2>1, <3>1, SameStart
    <2>4. cs[x] = L[O[x]].data /\ R[x] = RuleIn(rules, L[O[x]].attributes, SubSeq(cs, 1, x))
      BY <2>2 DEF Stacked
    <2>5. D[x] = cs[x] /\ S[x] = R[x] /\ Q[x] = O[x]
      BY <1>1, <1>2, <1>4, <1>5
    <2> QED
      BY <2>3, <2>4, <2>5
  <1>7. Len(Q) = j /\ IsList(Q)
    BY <1>1, <1>2
  <1> QED
    BY <1>4, <1>5, <1>6, <1>7 DEF Stacked
\* What parser_parse_messages() has done of the parts before n.
Output(n, cs, m) ==
  \E O, R, h : OpenAt(list, n, O) /\ Stacked(list, config, O, cs, R) /\ Marked(m, R, h)

NoStray == \A p \in DOMAIN list : IsClosing(list[p]) => list[p].link # 0

MarksInv ==
  /\ pass \notin {"output", "done"} => context_stack = << >> /\ marks = << >>
  /\ pass = "output" /\ NoStray => Output(ptr, context_stack, marks)
  /\ MarksArePaired

LEMMA OutputOpening ==
  ASSUME Tied, NoStray, NEW n \in 1 .. Len(list), IsOpening(list[n]),
         Output(n, context_stack, marks),
         context_stack' = Append(context_stack, list[n].data), ProcessTag(list[n], context_stack')
  PROVE  Output(n + 1, context_stack', marks')
  <1>1. PICK O, R, h : OpenAt(list, n, O) /\ Stacked(list, config, O, context_stack, R) /\ Marked(marks, R, h)
    BY DEF Output
  <1>2. Ok(list, made) /\ Len(list) \in Nat
    BY DEF Tied, Ok, PartsOk, IsList
  <1>3. PICK q : IsPair(list, n, q)
    <2>1. list[n].link # 0
      BY DEF Tied, Opened
    <2>2. PICK q : IsPair(list, n, q) \/ IsPair(list, q, n)
      BY <1>2, <2>1 DEF Ok, Mutual
    <2> QED
      BY <2>2 DEF IsPair, IsOpening, IsClosing
  <1>4. PICK Q : Pushes(Q, O, n)
    BY DEF Pushes
  <1>5. OpenAt(list, n + 1, Q)
    BY <1>1, <1>2, <1>3, <1>4, OpenPushed
  <1>6. PICK v : v = list[n].data
    OBVIOUS
  <1>7. PICK D : D = context_stack'
    OBVIOUS
  <1>8. Pushes(D, context_stack, v)
    BY <1>6, <1>7 DEF Pushes
  <1>9. PICK r : r = RuleIn(config, list[n].attributes, D)
    OBVIOUS
  <1>10. PICK S : Pushes(S, R, r)
    BY DEF Pushes
  <1>11. Stacked(list, config, Q, D, S)
    BY <1>1, <1>4, <1>6, <1>8, <1>9, <1>10, StackPushed
  <1>12. ~IsClosing(list[n]) /\ list[n].type = "OPENING"
    BY DEF IsOpening, IsClosing
  <1>13. RuleFor(list[n], D) = r
    BY <1>9, <1>12, RuleIs, OwnAttributes
  <1>14. \E g : Marked(marks', S, g)
    <2>1. CASE r = NoRule
      <3>1. marks' = marks
        BY <1>7, <1>13, <2>1 DEF ProcessTag
      <3>2. Pushes(S, R, NoRule)
        BY <1>10, <2>1
      <3>3. Marked(marks, S, h)
        BY <1>1, <3>2, NoMarkPushed
      <3> QED
        BY <3>1, <3>3
    <2>2. CASE r # NoRule
      <3>1. PICK w : w = <<"OPENING", r>>
        OBVIOUS
      <3>2. PICK l : l = marks'
        OBVIOUS
      <3>3. marks' = Append(marks, <<list[n].type, r>>)
        BY <1>7, <1>12, <1>13, <2>2 DEF ProcessTag
      <3>4. Pushes(l, marks, w)
        BY <1>12, <3>1, <3>2, <3>3 DEF Pushes
      <3>5. \E g : Marked(l, S, g)
        BY <1>1, <1>10, <2>2, <3>1, <3>4, MarkPushed
      <3> QED
        BY <3>2, <3>5
    <2> QED
      BY <2>1, <2>2
  <1> QED
    BY <1>5, <1>7, <1>11, <1>14 DEF Output

LEMMA OutputClosing ==
  ASSUME Tied, NoStray, NEW n \in 1 .. Len(list), IsClosing(list[n]),
         Output(n, context_stack, marks),
         ClosesLast(list[n]) => /\ ProcessTag(list[n], context_stack)
                                /\ context_stack' = Front(context_stack),
         ~ClosesLast(list[n]) => UNCHANGED outvars
  PROVE  Output(n + 1, context_stack', marks')
  <1>1. PICK O, R, h : OpenAt(list, n, O) /\ Stacked(list, config, O, context_stack, R) /\ Marked(marks, R, h)
    BY DEF Output
  <1>2. Ok(list, made) /\ PartsOk(list, made) /\ made \in Nat /\ Len(list) \in Nat /\ DOMAIN list = 1 .. Len(list)
    BY DEF Tied, Ok, PartsOk, IsList
  <1>3. PICK p : IsPair(list, p, n)
    <2>1. list[n].link # 0
      BY <1>2 DEF NoStray
    <2>2. PICK q : IsPair(list, n, q) \/ IsPair(list, q, n)
      BY <1>2, <2>1 DEF Ok, Mutual
    <2> QED
      BY <2>2 DEF IsPair, IsOpening, IsClosing
  <1>4. O # << >> /\ Len(O) \in 1 .. Len(O) /\ O[Len(O)] = p
    BY <1>1, <1>2, <1>3, OpenLast
  <1>5. PICK j \in Nat : j = Len(O)
    BY <1>1 DEF OpenAt, IsList
  <1>6. /\ IsList(context_stack) /\ IsList(R) /\ Len(context_stack) = j /\ Len(R) = j
        /\ context_stack[j] = list[p].data
        /\ R[j] = RuleIn(config, list[p].attributes, SubSeq(context_stack, 1, j))
    BY <1>1, <1>4, <1>5 DEF Stacked
  <1>7. context_stack # << >> /\ R # << >>
    BY <1>4, <1>5, <1>6, EmptySeq
  <1>8. ClosesLast(list[n])
    <2>1. list[p].data = list[n].data
      BY <1>3 DEF IsPair
    <2> QED
      BY <1>6, <1>7, <2>1 DEF ClosesLast, Last
  <1>9. RuleFor(list[n], context_stack) = R[j]
    <2>1. SubSeq(context_stack, 1, j) = context_stack
      BY <1>6, WholeList
    <2>2. AttributesOf(list[n]) = list[p].attributes
      BY <1>2, <1>3, LinkedAttributes
    <2> QED
      BY <1>6, <2>1, <2>2, RuleIs
  <1>10. PICK Q : Pops(Q, O)
    BY DEF Pops
  <1>11. PICK D : D = context_stack' /\ Pops(D, context_stack)
    BY <1>8 DEF Pops
  <1>12. PICK S : Pops(S, R)
    BY DEF Pops
  <1>13. OpenAt(list, n + 1, Q)
    BY <1>1, <1>2, <1>3, <1>10, OpenPopped
  <1>14. Stacked(list, config, Q, D, S)
    BY <1>1, <1>4, <1>10, <1>11, <1>12, StackPopped
  <1>15. Marked(marks', S, h)
    <2>1. CASE R[j] = NoRule
      <3>1. marks' = marks
        BY <1>8, <1>9, <2>1 DEF ProcessTag
      <3>2. Marked(marks, S, h)
        BY <1>1, <1>6, <1>7, <1>12, <2>1, NoMarkPopped
      <3> QED
        BY <3>1, <3>2
    <2>2. CASE R[j] # NoRule
      <3>1. PICK l : Pops(l, marks)
        BY DEF Pops
      <3>2. marks # << >> /\ marks[Len(marks)] = <<"OPENING", R[j]>> /\ Marked(l, S, h)
        BY <1>1, <1>6, <1>7, <1>12, <2>2, <3>1, MarkPopped
      <3>3. marks' = Front(marks)
        BY <1>8, <1>9, <2>2, <3>2 DEF ProcessTag, Last
      <3> QED
        BY <3>1, <3>2, <3>3 DEF Pops
    <2> QED
      BY <2>1, <2>2
  <1> QED
    BY <1>11, <1>13, <1>14, <1>15 DEF Output

LEMMA MarksParsed ==
  ASSUME Tied, MarksInv, ptr \in Nat \ {0}, parser_parse_messages
  PROVE  MarksInv'
  <1>0. /\ pass = "output" /\ pass' = "output" /\ list' = list /\ config' = config /\ ptr' = ptr + 1
        /\ ptr \in 1 .. Len(list) /\ IsList(list) /\ Len(list) \in Nat
    BY DEF parser_parse_messages, given, Tied, Ok, PartsOk, IsList
  <1> SUFFICES ASSUME NoStray PROVE Output(ptr + 1, context_stack', marks')
    BY <1>0 DEF MarksInv, MarksArePaired, Output, NoStray
  <1>1. Output(ptr, context_stack, marks)
    BY <1>0 DEF MarksInv
  <1>2. CASE IsOpening(list[ptr])
    <2>1. /\ context_stack' = Append(context_stack, list[ptr].data)
          /\ ProcessTag(list[ptr], context_stack')
      BY <1>2 DEF parser_parse_messages, IsOpening, IsClosing, ClosesLast
    <2> QED
      BY <1>0, <1>1, <1>2, <2>1, OutputOpening
  <1>3. CASE IsClosing(list[ptr])
    <2>1. ClosesLast(list[ptr]) => /\ ProcessTag(list[ptr], context_stack)
                                   /\ context_stack' = Front(context_stack)
      BY <1>3 DEF parser_parse_messages, IsOpening, IsClosing
    <2>2. ~ClosesLast(list[ptr]) => UNCHANGED outvars
      BY <1>3 DEF parser_parse_messages, IsOpening, IsClosing
    <2> QED
      BY <1>0, <1>1, <1>3, <2>1, <2>2, OutputClosing
  <1>4. CASE list[ptr].type = "MESSAGE"
    <2>1. context_stack' = context_stack /\ marks' = marks
      BY <1>4 DEF parser_parse_messages, IsOpening, IsClosing, ClosesLast
    <2>2. PICK O, R, h : /\ OpenAt(list, ptr, O) /\ Stacked(list, config, O, context_stack, R)
                         /\ Marked(marks, R, h)
      BY <1>1 DEF Output
    <2>3. OpenAt(list, ptr + 1, O)
      BY <1>0, <1>4, <2>2, OpenText
    <2> QED
      BY <2>1, <2>2, <2>3 DEF Output
  <1> QED
    BY <1>0, <1>2, <1>3, <1>4 DEF Tied, Ok, PartsOk, IsOpening, IsClosing

LEMMA MarksEnd ==
  ASSUME LinksInv, MarksInv, EndOfPass
  PROVE  MarksInv'
  <1>0. /\ pass \in {"associate", "close", "special", "output"} /\ pass' = PassAfter[pass] /\ ptr' = 1
        /\ list' = list /\ config' = config /\ ptr > Len(list) /\ ptr \in Nat
        /\ context_stack' = context_stack /\ marks' = marks
    BY DEF EndOfPass, PassAfter, LinksInv, given, outvars
  <1>1. CASE pass \in {"associate", "close"}
    <2>1. pass' \in {"close", "special"}
      BY <1>0, <1>1 DEF PassAfter
    <2> QED
      BY <1>0, <1>1, <2>1 DEF MarksInv, MarksArePaired
  <1>2. CASE pass = "special"
    <2>1. pass' = "output"
      BY <1>0, <1>2 DEF PassAfter
    <2>2. Output(1, << >>, << >>)
      BY NoneOpen, NoneStacked, MarkNone DEF Output
    <2>3. context_stack = << >> /\ marks = << >>
      BY <1>2 DEF MarksInv
    <2> QED
      BY <1>0, <2>1, <2>2, <2>3 DEF MarksInv, MarksArePaired, Output
  <1>3. CASE pass = "output"
    <2>1. pass' = "done"
      BY <1>0, <1>3 DEF PassAfter
    <2>2. NoStray => marks = << >>
      <3> SUFFICES ASSUME NoStray PROVE marks = << >>
        OBVIOUS
      <3>1. PICK O, R, h : /\ OpenAt(list, ptr, O) /\ Stacked(list, config, O, context_stack, R)
                           /\ Marked(marks, R, h)
        BY <1>3 DEF MarksInv, Output
      <3>2. IsList(list)
        BY <1>3 DEF LinksInv, Tied, Ok, PartsOk
      <3>3. Len(O) = 0
        BY <1>0, <3>1, <3>2, AllClosed
      <3>4. Len(R) = 0
        BY <3>1, <3>3 DEF Stacked
      <3> QED
        BY <3>1, <3>4, NoMarkLeft
    <2> QED
      BY <1>0, <2>1, <2>2 DEF MarksInv, MarksArePaired, NoStray
  <1> QED
    BY <1>0, <1>1, <1>2, <1>3

LEMMA MarksFormat ==
  ASSUME LinksInv, MarksInv, FormatterNext
  PROVE  MarksInv'
  <1>1. CASE ReadRules \/ parser_get_config \/ ConfigRead \/ Begin \/ Continue \/ CreateParts \/ PartsCreated
    BY <1>1 DEF ReadRules, parser_get_config, ConfigRead, Begin, Continue, CreateParts, PartsCreated,
                outvars, MarksInv, MarksArePaired
  <1>2. CASE associate_links \/ force_close_tags \/ CheckAt \/ CalledNick \/ NoMoreNick \/ CheckReduceLink
    <2>1. /\ pass \notin {"output", "done"} /\ pass' \notin {"output", "done"}
          /\ context_stack' = context_stack /\ marks' = marks
      BY <1>2 DEF associate_links, force_close_tags, CheckAt, CalledNick, NoMoreNick, CheckReduceLink, outvars
    <2> QED
      BY <2>1 DEF MarksInv, MarksArePaired
  <1>3. CASE EndOfPass
    BY <1>3, MarksEnd
  <1>4. CASE parser_parse_messages
    BY <1>4, MarksParsed DEF LinksInv, parser_parse_messages
  <1> QED
    BY <1>1, <1>2, <1>3, <1>4 DEF FormatterNext

(* Whatever the message and the rules, when no closing tag is stray, each     *)
(* start of a rule is followed by its stop, whatever tags were left open      *)
(* (parser.c:342-347, 571-599, 856-861).                                      *)
THEOREM MarksAlwaysPaired == Spec => []MarksArePaired
  <1>1. Init => MarksInv
    BY DEF Init, FormatterInit, MarksInv, MarksArePaired
  <1>2. LinksInv /\ MarksInv /\ [Next]_vars => MarksInv'
    <2> SUFFICES ASSUME LinksInv, MarksInv, [Next]_vars PROVE MarksInv'
      OBVIOUS
    <2>1. CASE Format
      BY <2>1, MarksFormat DEF Format
    <2>2. CASE UNCHANGED fvars
      BY <2>2 DEF fvars, given, outvars, MarksInv, MarksArePaired, Output, NoStray
    <2> QED
      BY <2>1, <2>2 DEF Next, Configure, vars
  <1>3. MarksInv => MarksArePaired
    BY DEF MarksInv
  <1> QED
    BY <1>1, <1>2, <1>3, LinksStart, LinksStep, PTL DEF Spec
=============================================================================
