---------------------------- MODULE InputsProofs ----------------------------
(***************************************************************************)
(* Inputs, for any buffer and any number of lines and characters: what is  *)
(* put together from the pieces that recv() and the terminal bring.        *)
(***************************************************************************)
EXTENDS Inputs, SequenceTheorems, TLAPS

USE InputAssumption

Cells == Nat \X Nat
Lines == [kind : {"JOIN", "PRIVMSG"}, len : 1 .. Prefix + MaxText]

\* A cell of a line that was written, or its end.
IsCell(c) == c[1] \in DOMAIN lines /\ c[2] \in 0 .. lines[c[1]].len

\* What a client writes after a cell.
Follows(c, d) ==
  IF c[2] = 0 THEN d[2] = 1
  ELSE d[1] = c[1] /\ d[2] = IF c[2] = lines[c[1]].len THEN 0 ELSE c[2] + 1

\* What irc_driver() has yet to look at.
Rest == input \o chan

InputTypes ==
  /\ lines \in Seq(Lines)
  /\ chan \in Seq(Cells) /\ input \in Seq(Cells)
  /\ linebuffer \in [0 .. Size - 1 -> Cells] /\ o \in 0 .. Size - 1

\* It is whole lines, but for the beginning of the first,
Stream ==
  /\ \A x \in 1 .. Len(Rest) : IsCell(Rest[x])
  /\ \A x \in 1 .. Len(Rest) - 1 : Follows(Rest[x], Rest[x + 1])
  /\ Rest = << >> => o = 0
  /\ Rest # << >> => Rest[Len(Rest)][2] = 0

\* which is what the buffer has, up to its place o.
Begun(c) ==
  /\ o = (IF c[2] = 0 THEN lines[c[1]].len ELSE c[2] - 1)
  /\ \A x \in 0 .. o - 1 : linebuffer[x] = <<c[1], x + 1>>

Buffer == Rest # << >> => Begun(Rest[1])

LineInv ==
  /\ InputTypes /\ Stream /\ Buffer
  /\ turn = "main" => input = << >>
  /\ garbled = FALSE
-----------------------------------------------------------------------------
\* The first cell of the rest, when there is input.
LEMMA RestHead ==
  ASSUME InputTypes, input # << >>
  PROVE  /\ Rest \in Seq(Cells) /\ Rest # << >> /\ Len(Rest) \in Nat \ {0}
         /\ Rest[1] = Head(input) /\ Head(input) = input[1]
         /\ Tail(input) \in Seq(Cells) /\ Tail(input) \o chan = Tail(Rest)
<1>1. input \in Seq(Cells) /\ chan \in Seq(Cells) /\ Len(input) \in Nat \ {0}
  BY EmptySeq DEF InputTypes
<1>2. /\ Rest \in Seq(Cells) /\ Len(Rest) = Len(input) + Len(chan)
      /\ \A x \in 1 .. Len(input) + Len(chan) :
           Rest[x] = IF x <= Len(input) THEN input[x] ELSE chan[x - Len(input)]
  BY <1>1, ConcatProperties DEF Rest
<1>3. Len(chan) \in Nat
  BY <1>1, LenProperties
<1>4. Len(Rest) \in Nat \ {0} /\ Rest # << >>
  BY <1>1, <1>2, <1>3, EmptySeq
<1>5. Head(input) = input[1]
  BY <1>1
<1>6. Rest[1] = input[1]
  BY <1>1, <1>2, <1>3
<1>7. /\ Tail(input) \in Seq(Cells) /\ Len(Tail(input)) = Len(input) - 1
      /\ \A x \in 1 .. Len(Tail(input)) : Tail(input)[x] = input[x + 1]
  BY <1>1, HeadTailProperties
<1>8. /\ Tail(Rest) \in Seq(Cells) /\ Len(Tail(Rest)) = Len(Rest) - 1
      /\ \A x \in 1 .. Len(Tail(Rest)) : Tail(Rest)[x] = Rest[x + 1]
  BY <1>2, <1>4, HeadTailProperties
<1>9. /\ Tail(input) \o chan \in Seq(Cells)
      /\ Len(Tail(input) \o chan) = Len(Tail(input)) + Len(chan)
      /\ \A x \in 1 .. Len(Tail(input)) + Len(chan) :
           (Tail(input) \o chan)[x] =
             IF x <= Len(Tail(input)) THEN Tail(input)[x] ELSE chan[x - Len(Tail(input))]
  BY <1>1, <1>7, ConcatProperties
<1>10. Len(Tail(input) \o chan) = Len(Tail(Rest))
  BY <1>1, <1>2, <1>7, <1>8, <1>9
<1>11. ASSUME NEW x \in 1 .. Len(Tail(Rest)) PROVE (Tail(input) \o chan)[x] = Tail(Rest)[x]
  <2>1. x \in 1 .. Len(input) - 1 + Len(chan) /\ x + 1 \in 1 .. Len(input) + Len(chan)
    BY <1>1, <1>2, <1>3, <1>8
  <2>2. Tail(Rest)[x] = Rest[x + 1]
    BY <1>8
  <2>3. CASE x <= Len(input) - 1
    BY <1>1, <1>2, <1>3, <1>7, <1>9, <2>1, <2>2, <2>3
  <2>4. CASE x > Len(input) - 1
    <3>1. Tail(Rest)[x] = chan[x + 1 - Len(input)]
      BY <1>1, <1>2, <1>3, <2>1, <2>2, <2>4
    <3>2. (Tail(input) \o chan)[x] = chan[x - (Len(input) - 1)]
      BY <1>1, <1>3, <1>7, <1>9, <2>1, <2>4
    <3>3. x + 1 - Len(input) = x - (Len(input) - 1)
      BY <1>1, <2>1
    <3> QED BY <3>1, <3>2, <3>3
  <2> QED BY <1>1, <2>1, <2>3, <2>4
<1>12. Tail(input) \o chan = Tail(Rest)
  BY <1>8, <1>9, <1>10, <1>11, SeqEqual
<1> QED
  BY <1>2, <1>4, <1>5, <1>6, <1>7, <1>12
-----------------------------------------------------------------------------
(* Lines, from the client to parse_buffer().                               *)

\* A step that moves nothing, or brings what was on its way.
LEMMA SameStream ==
  ASSUME LineInv, InputTypes', UNCHANGED <<lines, o, linebuffer, garbled>>, Rest' = Rest,
         turn' = "main" => input' = << >>
  PROVE  LineInv'
<1>1. Stream'
  BY DEF LineInv, Stream, IsCell, Follows
<1>2. Buffer'
  BY DEF LineInv, Buffer, Begun
<1> QED
  BY <1>1, <1>2 DEF LineInv

\* recv() brings the first cells of the client's, the others stay on their way.
LEMMA LineReceived == ASSUME LineInv, NEW n \in 1 .. MaxInput, Received(n) PROVE LineInv'
<1>1. /\ input = << >> /\ chan \in Seq(Cells) /\ n \in 1 .. Len(chan) /\ turn' = "driver"
      /\ input' = SubSeq(chan, 1, n) /\ chan' = SubSeq(chan, n + 1, Len(chan))
      /\ UNCHANGED <<lines, o, linebuffer, garbled>>
  BY DEF LineInv, InputTypes, Received, Listening
<1>2. Len(chan) \in Nat /\ \A x \in 1 .. Len(chan) : chan[x] \in Cells
  BY <1>1, LenProperties, ElementOfSeq
<1>3. input' \in Seq(Cells) /\ chan' \in Seq(Cells)
  BY <1>1, <1>2, SubSeqProperties
<1>4. input' \o chan' = SubSeq(chan, 1, Len(chan))
  BY <1>1, <1>2, ConcatAdjacentSubSeq
<1>5. input' \o chan' = chan /\ input \o chan = chan
  BY <1>1, <1>4, SubSeqFull, ConcatEmptySeq
<1>6. InputTypes'
  BY <1>1, <1>3 DEF LineInv, InputTypes
<1>7. Rest' = Rest
  BY <1>5 DEF Rest
<1> QED
  BY <1>1, <1>6, <1>7, SameStream

\* A byte goes where the rest of its line is awaited.
LEMMA LineByte == ASSUME LineInv, PutByte PROVE LineInv'
<1> DEFINE c == Rest[1]
<1>1. /\ InputTypes /\ turn = "driver" /\ input # << >> /\ c = Head(input) /\ c[2] # 0
      /\ UNCHANGED <<lines, chan, garbled, turn>> /\ input' = Tail(input)
  BY RestHead DEF LineInv, PutByte, wire, history
<1>2. /\ Rest \in Seq(Cells) /\ Rest # << >> /\ Len(Rest) \in Nat \ {0}
      /\ Rest' = Tail(Rest) /\ input' \in Seq(Cells)
  BY <1>1, RestHead DEF Rest
<1>3. /\ Len(Rest') = Len(Rest) - 1
      /\ \A x \in 1 .. Len(Rest') : Rest'[x] = Rest[x + 1]
  BY <1>2, HeadTailProperties
<1>4. /\ c \in Cells /\ IsCell(c) /\ o = c[2] - 1
      /\ \A x \in 0 .. o - 1 : linebuffer[x] = <<c[1], x + 1>>
  BY <1>1, <1>2, ElementOfSeq DEF LineInv, Stream, Buffer, Begun
<1>5. /\ lines[c[1]].len \in 1 .. Prefix + MaxText /\ c[2] \in 1 .. lines[c[1]].len
  <2>1. lines[c[1]] \in Lines
    BY <1>1, <1>4, ElementOfSeq, LenProperties DEF InputTypes, IsCell
  <2> QED
    BY <1>1, <1>4, <2>1 DEF IsCell, Lines, Cells
<1>6. o < Size /\ o' = c[2] /\ o' \in 0 .. Size - 1
      /\ linebuffer' = [linebuffer EXCEPT ![o] = c]
  <2>1. o < Size /\ o + 1 = c[2] /\ c[2] \in 0 .. Size - 1
    BY <1>4, <1>5
  <2> HIDE DEF c
  <2>2. linebuffer' = [linebuffer EXCEPT ![o] = c] /\ o' = o + 1
    BY <1>1, <2>1 DEF PutByte
  <2> QED
    BY <2>1, <2>2
<1>7. linebuffer' \in [0 .. Size - 1 -> Cells]
  BY <1>1, <1>4, <1>6 DEF InputTypes
<1>8. InputTypes'
  BY <1>1, <1>2, <1>6, <1>7 DEF InputTypes
<1>9. c = <<c[1], c[2]>>
  BY <1>4 DEF Cells
<1>10. \A x \in 0 .. o' - 1 : linebuffer'[x] = <<c[1], x + 1>>
  <2>1. linebuffer \in [0 .. Size - 1 -> Cells] /\ o \in 0 .. Size - 1 /\ o' = o + 1
    BY <1>1, <1>4, <1>5, <1>6 DEF InputTypes
  <2>2. linebuffer'[o] = <<c[1], o + 1>>
    BY <1>4, <1>5, <1>6, <1>9, <2>1
  <2>3. ASSUME NEW x \in 0 .. o - 1 PROVE linebuffer'[x] = <<c[1], x + 1>>
    <3>1. x \in 0 .. Size - 1 /\ x # o
      BY <2>1
    <3> QED
      BY <1>4, <1>6, <2>1, <3>1
  <2> QED
    BY <2>1, <2>2, <2>3
<1>11. Rest' # << >>
  <2>1. Rest[Len(Rest)][2] = 0
    BY <1>2 DEF LineInv, Stream
  <2>2. Len(Rest) > 1
    BY <1>1, <1>2, <2>1
  <2>3. Len(Rest') > 0
    BY <1>2, <1>3, <2>2
  <2> QED
    BY <2>3, EmptySeq
<1>12. Len(Rest') > 0 /\ Rest' \in Seq(Cells)
  BY <1>2, <1>11, EmptySeq, HeadTailProperties
<1>13. Stream'
  BY <1>1, <1>2, <1>3, <1>11, <1>12 DEF LineInv, Stream, IsCell, Follows
<1>14. Follows(c, Rest'[1])
  BY <1>2, <1>3, <1>12 DEF LineInv, Stream
<1>15. Begun(Rest[1])'
  BY <1>1, <1>5, <1>6, <1>10, <1>14 DEF Begun, Follows
<1> QED
  BY <1>1, <1>8, <1>13, <1>15 DEF LineInv, Buffer

\* The buffer of a line that ends is that line, from any of its cells on.
LEMMA LineEnds ==
  ASSUME LineInv, turn = "driver", input # << >>, Head(input)[2] = 0,
         NEW b, b = [linebuffer EXCEPT ![o] = NUL], NEW l, l = Head(input)[1]
  PROVE  /\ l \in DOMAIN lines /\ lines[l] \in Lines /\ o = lines[l].len
         /\ b \in [0 .. Size - 1 -> Cells]
         /\ StringAt(b, 0) = LineOf(l)
         /\ Prefix < o => StringAt(b, Prefix) = TextOf(l)
<1>1. /\ Rest[1] = Head(input) /\ Rest # << >> /\ Rest \in Seq(Cells) /\ 1 \in 1 .. Len(Rest)
      /\ InputTypes
  BY RestHead DEF LineInv
<1>2. /\ IsCell(Rest[1]) /\ o = lines[l].len
      /\ \A x \in 0 .. o - 1 : linebuffer[x] = <<l, x + 1>>
  BY <1>1 DEF LineInv, Stream, Buffer, Begun
<1>3. l \in DOMAIN lines /\ lines[l] \in Lines
  BY <1>1, <1>2, ElementOfSeq, LenProperties DEF InputTypes, IsCell
<1>4. o \in 1 .. Size - 1
  BY <1>2, <1>3 DEF Lines
<1>5. linebuffer \in [0 .. Size - 1 -> Cells]
  BY <1>1 DEF InputTypes
<1>6. b \in [0 .. Size - 1 -> Cells] /\ b[o] = NUL
      /\ \A x \in 0 .. o - 1 : b[x] = <<l, x + 1>>
  <2>1. NUL \in Cells /\ o \in 0 .. Size - 1
    BY <1>4 DEF NUL, Cells
  <2>2. b \in [0 .. Size - 1 -> Cells] /\ b[o] = NUL
    BY <1>5, <2>1
  <2>3. ASSUME NEW x \in 0 .. o - 1 PROVE b[x] = <<l, x + 1>>
    <3>1. x # o /\ x \in 0 .. Size - 1
      BY <1>4
    <3>2. b[x] = linebuffer[x]
      BY <1>5, <3>1
    <3> QED
      BY <1>2, <3>2
  <2> QED
    BY <2>2, <2>3
<1>7. ASSUME NEW p \in 0 .. o
      PROVE  /\ StringAt(b, p) \in Seq(Cells) /\ Len(StringAt(b, p)) = o - p
             /\ \A x \in 1 .. o - p : StringAt(b, p)[x] = <<l, p + x>>
  <2>1. \A x \in p .. o - 1 : b[x] # NUL
    BY <1>6 DEF NUL
  <2>2. StringAt(b, p) = [x \in 1 .. o - p |-> b[p + x - 1]]
    <3> DEFINE Ends(e) == (e = Size \/ b[e] = NUL) /\ \A x \in p .. e - 1 : b[x] # NUL
               end == CHOOSE e \in p .. Size : (e = Size \/ b[e] = NUL)
                                               /\ \A x \in p .. e - 1 : b[x] # NUL
    <3>1. o \in p .. Size /\ Ends(o)
      BY <1>4, <1>6, <2>1
    <3>2. end \in p .. Size /\ Ends(end)
      BY <3>1
    <3>3. end = o
      <4>1. ~(end < o)
        BY <2>1, <3>1, <3>2
      <4>2. ~(o < end)
        BY <1>6, <3>1, <3>2
      <4> QED
        BY <3>1, <3>2, <4>1, <4>2
    <3>4. StringAt(b, p) = [x \in 1 .. end - p |-> b[p + x - 1]]
      BY DEF StringAt
    <3> HIDE DEF end
    <3> QED
      BY <3>3, <3>4
  <2>3. \A x \in 1 .. o - p : b[p + x - 1] = <<l, p + x>> /\ b[p + x - 1] \in Cells
    <3> SUFFICES ASSUME NEW x \in 1 .. o - p
                 PROVE  b[p + x - 1] = <<l, p + x>> /\ b[p + x - 1] \in Cells
      OBVIOUS
    <3>1. p + x - 1 \in 0 .. o - 1 /\ p + x - 1 \in 0 .. Size - 1 /\ p + x - 1 + 1 = p + x
      BY <1>4
    <3> QED
      BY <1>6, <3>1
  <2> DEFINE n == o - p
             str == StringAt(b, p)
  <2>4. n \in Nat
    BY <1>4
  <2>5. str = [x \in 1 .. n |-> b[p + x - 1]] /\ \A x \in 1 .. n : b[p + x - 1] \in Cells
    BY <2>2, <2>3
  <2> HIDE DEF n, str
  <2>6. str \in [1 .. n -> Cells] /\ \A x \in 1 .. n : str[x] = b[p + x - 1]
    BY <2>5
  <2>7. str \in Seq(Cells) /\ Len(str) = n
    BY <2>4, <2>6
  <2>8. \A x \in 1 .. n : str[x] = <<l, p + x>>
    BY <2>3, <2>6 DEF n
  <2> QED
    BY <2>7, <2>8 DEF n, str
<1>8. /\ LineOf(l) \in Seq(Cells) /\ Len(LineOf(l)) = o
      /\ \A x \in 1 .. o : LineOf(l)[x] = <<l, x>>
  <2>1. LineOf(l) = [x \in 1 .. o |-> <<l, x>>]
    BY <1>2 DEF LineOf
  <2>2. o \in Nat /\ l \in Nat
    BY <1>1, <1>3, <1>4, LenProperties DEF InputTypes
  <2>3. \A x \in 1 .. o : <<l, x>> \in Cells
    BY <2>2 DEF Cells
  <2> QED
    BY <2>1, <2>2, <2>3
<1>9. StringAt(b, 0) = LineOf(l)
  <2> DEFINE z == 0
             str == StringAt(b, z)
             line == LineOf(l)
  <2>1. z \in 0 .. o /\ o - z = o /\ \A x \in 1 .. o : z + x = x
    BY <1>4
  <2> HIDE DEF z
  <2>2. str \in Seq(Cells) /\ Len(str) = o /\ \A x \in 1 .. o : str[x] = <<l, x>>
    <3>1. /\ str \in Seq(Cells) /\ Len(str) = o - z
          /\ \A x \in 1 .. o - z : str[x] = <<l, z + x>>
      BY <1>7, <2>1, Zenon
    <3>2. Len(str) = o /\ \A x \in 1 .. o : str[x] = <<l, z + x>>
      BY <2>1, <3>1, Zenon
    <3>3. \A x \in 1 .. o : str[x] = <<l, x>>
      BY <2>1, <3>2, Zenon
    <3> QED
      BY <3>1, <3>2, <3>3, Zenon
  <2>3. line \in Seq(Cells) /\ Len(line) = o /\ \A x \in 1 .. o : line[x] = <<l, x>>
    BY <1>8
  <2> HIDE DEF str, line
  <2>4. str = line
    BY <2>2, <2>3, SeqEqual
  <2> QED
    BY <2>4 DEF z, str, line
<1>10. ASSUME Prefix < o PROVE StringAt(b, Prefix) = TextOf(l)
  <2> DEFINE str == StringAt(b, Prefix)
             text == TextOf(l)
  <2>1. Prefix \in 0 .. o /\ o - Prefix \in Nat
    BY <1>4, <1>10
  <2>2. /\ StringAt(b, Prefix) \in Seq(Cells) /\ Len(StringAt(b, Prefix)) = o - Prefix
        /\ \A x \in 1 .. o - Prefix : StringAt(b, Prefix)[x] = <<l, Prefix + x>>
    BY <1>7, <2>1
  <2>3. TextOf(l) = SubSeq(LineOf(l), Prefix + 1, o)
    BY <1>2 DEF TextOf
  <2>4. \A x \in Prefix + 1 .. o : LineOf(l)[x] \in Cells
    BY <1>8, ElementOfSeq
  <2>5. /\ TextOf(l) \in Seq(Cells) /\ Len(TextOf(l)) = o - Prefix
        /\ \A x \in 1 .. o - Prefix : TextOf(l)[x] = LineOf(l)[Prefix + x]
    <3>1. Prefix + 1 \in Int /\ o \in Int /\ Prefix + 1 <= o
      BY <1>4, <1>10
    <3>2. /\ TextOf(l) \in Seq(Cells) /\ Len(TextOf(l)) = o - (Prefix + 1) + 1
          /\ \A x \in 1 .. o - (Prefix + 1) + 1 : TextOf(l)[x] = LineOf(l)[Prefix + 1 + x - 1]
      BY <2>3, <2>4, <3>1, SubSeqProperties
    <3>3. o - (Prefix + 1) + 1 = o - Prefix /\ \A x \in 1 .. o - Prefix : Prefix + 1 + x - 1 = Prefix + x
      BY <1>4
    <3> QED
      BY <3>2, <3>3
  <2>6. \A x \in 1 .. o - Prefix : LineOf(l)[Prefix + x] = <<l, Prefix + x>>
    BY <1>4, <1>8
  <2>7. /\ str \in Seq(Cells) /\ text \in Seq(Cells) /\ Len(str) = Len(text)
        /\ \A x \in 1 .. Len(str) : str[x] = text[x]
    <3>1. \A x \in 1 .. o - Prefix : str[x] = text[x]
      BY <2>2, <2>5, <2>6, Zenon
    <3> QED
      BY <2>2, <2>5, <3>1, Zenon
  <2> HIDE DEF str, text
  <2>8. str = text
    BY <2>7, SeqEqual
  <2> QED
    BY <2>8 DEF str, text
<1> QED
  BY <1>2, <1>3, <1>6, <1>9, <1>10

\* A line that ends is parsed as it was written, and the next starts over.
LEMMA LineEnd == ASSUME LineInv, EndOfLine PROVE LineInv'
<1> DEFINE b == [linebuffer EXCEPT ![o] = NUL]
           l == Head(input)[1]
<1>1. /\ turn = "driver" /\ input # << >> /\ Head(input)[2] = 0
      /\ linebuffer' = b /\ o' = 0 /\ input' = Tail(input)
      /\ garbled' = (garbled \/ StringAt(b, 0) # LineOf(l))
      /\ UNCHANGED <<lines, chan, turn>>
  BY DEF EndOfLine, NextLine, wire
<1>2. /\ l \in DOMAIN lines /\ o = lines[l].len /\ lines[l] \in Lines
      /\ b \in [0 .. Size - 1 -> Cells]
      /\ StringAt(b, 0) = LineOf(l)
  BY <1>1, LineEnds
<1>4. garbled' = FALSE
  BY <1>1, <1>2 DEF LineInv
<1>5. /\ Rest \in Seq(Cells) /\ Rest # << >> /\ Len(Rest) \in Nat \ {0} /\ Rest[1] = Head(input)
      /\ Rest' = Tail(Rest) /\ input' \in Seq(Cells)
  BY <1>1, RestHead DEF Rest, LineInv
<1>6. /\ Rest' \in Seq(Cells) /\ Len(Rest') = Len(Rest) - 1
      /\ \A x \in 1 .. Len(Rest') : Rest'[x] = Rest[x + 1]
  BY <1>5, HeadTailProperties
<1>7. InputTypes'
  BY <1>1, <1>2, <1>5 DEF LineInv, InputTypes
<1>8. Rest' # << >> => Len(Rest') \in Nat \ {0}
  BY <1>6, EmptySeq
<1>9. Stream'
  BY <1>1, <1>5, <1>6, <1>8 DEF LineInv, Stream, IsCell, Follows
<1>10. ASSUME Rest' # << >> PROVE Begun(Rest[1])'
  <2>1. Follows(Rest[1], Rest'[1])
    BY <1>5, <1>6, <1>8, <1>10 DEF LineInv, Stream
  <2>2. Rest'[1][2] = 1
    BY <1>1, <1>5, <2>1 DEF Follows
  <2> QED
    BY <1>1, <2>2 DEF Begun
<1> QED
  BY <1>1, <1>4, <1>7, <1>9, <1>10 DEF LineInv, Buffer

\* A client in the place of another starts with nothing on its way.
LEMMA LineAccept == ASSUME LineInv, Accept PROVE LineInv'
<1>1. /\ InputTypes /\ input = << >> /\ input' = << >> /\ chan' = << >> /\ o' = 0
      /\ UNCHANGED <<lines, linebuffer, garbled>>
  BY DEF LineInv, Accept, Listening, LineStart, history
<1>2. Rest' = << >>
  BY <1>1, ConcatEmptySeq, EmptySeq DEF Rest
<1>3. InputTypes'
  BY <1>1, EmptySeq DEF InputTypes
<1>4. Stream' /\ Buffer'
  BY <1>1, <1>2, EmptySeq DEF Stream, Buffer
<1> QED
  BY <1>1, <1>3, <1>4 DEF LineInv

\* A line that is written comes whole after all that was written before.
LEMMA LineWritten ==
  ASSUME LineInv, NEW kind \in {"JOIN", "PRIVMSG"}, NEW len \in 1 .. Prefix + MaxText,
         Write(kind, len)
  PROVE  LineInv'
<1> DEFINE l == Len(lines')
           W == Append([i \in 1 .. len |-> <<l, i>>], <<l, 0>>)
<1>1. /\ InputTypes /\ lines' = Append(lines, [kind |-> kind, len |-> len])
      /\ chan' = chan \o W
      /\ UNCHANGED <<input, turn, linebuffer, o, garbled>>
  BY DEF LineInv, Write, history
<1>2. /\ lines' \in Seq(Lines) /\ l = Len(lines) + 1 /\ Len(lines) \in Nat
      /\ DOMAIN lines = 1 .. Len(lines) /\ DOMAIN lines' = 1 .. l
      /\ \A x \in 1 .. Len(lines) : lines'[x] = lines[x]
      /\ lines'[l].len = len
  <2>1. [kind |-> kind, len |-> len] \in Lines
    BY DEF Lines
  <2>2. lines \in Seq(Lines) /\ Len(lines) \in Nat
    BY <1>1, LenProperties DEF InputTypes
  <2> QED
    BY <1>1, <2>1, <2>2, AppendProperties, LenProperties
<1>3. /\ W \in Seq(Cells) /\ Len(W) = len + 1 /\ W[len + 1] = <<l, 0>>
      /\ \A x \in 1 .. len : W[x] = <<l, x>>
  <2>1. <<l, 0>> \in Cells /\ \A x \in 1 .. len : <<l, x>> \in Cells
    BY <1>2 DEF Cells
  <2>2. [i \in 1 .. len |-> <<l, i>>] \in Seq(Cells) /\ Len([i \in 1 .. len |-> <<l, i>>]) = len
    BY <2>1
  <2> HIDE DEF l
  <2> QED
    BY <2>1, <2>2, AppendProperties
<1> HIDE DEF W
<1>4. /\ Rest \in Seq(Cells) /\ Len(Rest) \in Nat /\ Rest' = Rest \o W /\ chan' \in Seq(Cells)
  <2>1. input \in Seq(Cells) /\ chan \in Seq(Cells)
    BY <1>1 DEF InputTypes
  <2> QED
    <3>0. input \o chan \in Seq(Cells) /\ chan \o W \in Seq(Cells)
      BY <1>3, <2>1, ConcatProperties
    <3>1. Rest \in Seq(Cells) /\ chan' \in Seq(Cells)
      BY <1>1, <3>0 DEF Rest
    <3>2. input \o (chan \o W) = (input \o chan) \o W
      BY <1>3, <2>1, ConcatAssociative
    <3> QED
      BY <1>1, <3>1, <3>2, LenProperties DEF Rest
<1>5. /\ Len(Rest') = Len(Rest) + len + 1
      /\ \A x \in 1 .. Len(Rest) : Rest'[x] = Rest[x]
      /\ \A x \in 1 .. len : Rest'[Len(Rest) + x] = <<l, x>>
      /\ Rest'[Len(Rest) + len + 1] = <<l, 0>>
  <2>1. /\ Len(Rest \o W) = Len(Rest) + Len(W)
        /\ \A x \in 1 .. Len(Rest) + Len(W) :
             (Rest \o W)[x] = IF x <= Len(Rest) THEN Rest[x] ELSE W[x - Len(Rest)]
    BY <1>3, <1>4, ConcatProperties
  <2>2. \A x \in 1 .. len + 1 : Rest'[Len(Rest) + x] = W[x]
    BY <1>3, <1>4, <2>1
  <2> QED
    BY <1>3, <1>4, <2>1, <2>2
<1>6. PICK n \in Nat : n = Len(Rest)
  BY <1>4
<1>7. /\ Len(Rest') = n + len + 1
      /\ \A x \in 1 .. n : Rest'[x] = Rest[x]
      /\ \A x \in 1 .. len : Rest'[n + x] = <<l, x>>
      /\ Rest'[n + len + 1] = <<l, 0>>
  BY <1>5, <1>6
<1>8. InputTypes'
  BY <1>1, <1>2, <1>4 DEF InputTypes
<1>9. ASSUME NEW c, IsCell(c) PROVE IsCell(c)' /\ lines'[c[1]] = lines[c[1]]
  BY <1>2, <1>9 DEF IsCell
<1> HIDE DEF l
<1>10. \A x \in 1 .. Len(Rest') : IsCell(Rest[x])'
  <2> SUFFICES ASSUME NEW x \in 1 .. Len(Rest') PROVE IsCell(Rest[x])'
    OBVIOUS
  <2>1. CASE x \in 1 .. n
    BY <1>6, <1>7, <1>9, <2>1 DEF LineInv, Stream
  <2>2. CASE x \in n + 1 .. n + len
    <3>1. PICK y \in 1 .. len : x = n + y
      <4>1. x - n \in 1 .. len /\ x = n + (x - n)
        BY <1>6, <2>2
      <4> QED BY <4>1
    <3> QED
      BY <1>2, <1>7, <3>1 DEF IsCell
  <2>3. CASE x = n + len + 1
    BY <1>2, <1>7, <2>3 DEF IsCell
  <2> QED
    BY <1>6, <1>7, <2>1, <2>2, <2>3
<1>11. \A x \in 1 .. Len(Rest') - 1 : Follows(Rest[x], Rest[x + 1])'
  <2> SUFFICES ASSUME NEW x \in 1 .. Len(Rest') - 1 PROVE Follows(Rest[x], Rest[x + 1])'
    OBVIOUS
  <2>1. CASE x \in 1 .. n - 1
    <3>0. x \in 1 .. n /\ x + 1 \in 1 .. n
      BY <1>6, <2>1
    <3>1. Rest'[x] = Rest[x] /\ Rest'[x + 1] = Rest[x + 1] /\ IsCell(Rest[x])
      BY <1>6, <1>7, <3>0 DEF LineInv, Stream
    <3>2. Follows(Rest[x], Rest[x + 1])
      BY <1>6, <2>1 DEF LineInv, Stream
    <3> QED
      BY <1>9, <3>1, <3>2 DEF Follows
  <2>2. CASE x = n
    <3>1. Rest'[x] = Rest[x] /\ Rest'[x + 1] = <<l, 1>> /\ Rest # << >>
      BY <1>6, <1>7, <2>2, EmptySeq
    <3>2. Rest[x][2] = 0
      BY <1>6, <2>2, <3>1 DEF LineInv, Stream
    <3> QED
      BY <3>1, <3>2 DEF Follows
  <2>3. CASE x \in n + 1 .. n + len
    <3>1. PICK y \in 1 .. len : x = n + y
      <4>1. x - n \in 1 .. len /\ x = n + (x - n)
        BY <1>6, <2>3
      <4> QED BY <4>1
    <3>2. CASE y = len
      <4>1. Rest'[x] = <<l, len>> /\ Rest'[x + 1] = <<l, 0>>
        BY <1>7, <3>1, <3>2
      <4> QED BY <1>2, <4>1 DEF Follows
    <3>3. CASE y # len
      <4>1. y + 1 \in 1 .. len /\ x + 1 = n + (y + 1)
        BY <1>6, <3>1, <3>3
      <4> QED
        <5>1. Rest'[x] = <<l, y>> /\ Rest'[x + 1] = <<l, y + 1>>
          BY <1>7, <3>1, <4>1
        <5> QED BY <1>2, <3>3, <5>1 DEF Follows
    <3> QED
      BY <3>2, <3>3
  <2> QED
    BY <1>6, <1>7, <2>1, <2>2, <2>3
<1>12. Rest' # << >> /\ Rest'[Len(Rest')][2] = 0
  BY <1>6, <1>7, EmptySeq
<1>13. Begun(Rest[1])'
  <2>1. CASE Rest = << >>
    <3>1. o = 0 /\ Rest'[1] = <<l, 1>>
      BY <1>6, <1>7, <2>1, EmptySeq DEF LineInv, Stream
    <3> QED
      BY <1>1, <3>1 DEF Begun
  <2>2. CASE Rest # << >>
    <3>1. Rest'[1] = Rest[1] /\ IsCell(Rest[1]) /\ Begun(Rest[1])
      BY <1>6, <1>7, <2>2, EmptySeq DEF LineInv, Stream, Buffer
    <3> QED
      BY <1>1, <1>9, <3>1 DEF Begun
  <2> QED
    BY <2>1, <2>2
<1> QED
  BY <1>1, <1>8, <1>10, <1>11, <1>12, <1>13 DEF LineInv, Stream, Buffer

\* Nobody has written anything at first.
LEMMA InitLines == Init => LineInv
<1> SUFFICES ASSUME Init PROVE LineInv
  OBVIOUS
<1>1. /\ lines = << >> /\ chan = << >> /\ input = << >> /\ o = 0 /\ garbled = FALSE
      /\ linebuffer = [i \in 0 .. Size - 1 |-> NUL]
  BY DEF Init, IrcInit
<1>2. Rest = << >>
  BY <1>1, ConcatEmptySeq, EmptySeq DEF Rest
<1>3. linebuffer \in [0 .. Size - 1 -> Cells] /\ o \in 0 .. Size - 1
  BY <1>1 DEF NUL, Cells
<1>4. InputTypes
  BY <1>1, <1>3, EmptySeq DEF InputTypes
<1>5. Stream /\ Buffer
  BY <1>1, <1>2, EmptySeq DEF Stream, Buffer
<1> QED
  BY <1>1, <1>4, <1>5 DEF LineInv

\* The other steps move nothing.
LEMMA LineOthers ==
  ASSUME LineInv, Closed \/ Returned \/ Settled \/ ReturnLine \/ UNCHANGED ircvars
  PROVE  LineInv'
<1>1. /\ UNCHANGED <<lines, chan, input, linebuffer, o, garbled>>
      /\ turn' = "main" => input' = << >>
  BY DEF LineInv, Closed, Returned, Settled, ReturnLine, ircvars, wire, history
<1>2. InputTypes' /\ Rest' = Rest
  BY <1>1 DEF LineInv, InputTypes, Rest
<1> QED
  BY <1>1, <1>2, SameStream

\* Every step of the program keeps the lines in order.
LEMMA LineStep == LineInv /\ [Next]_vars => LineInv'
<1> SUFFICES ASSUME LineInv, [Next]_vars PROVE LineInv'
  OBVIOUS
<1>1. CASE ClientNext
  <2>1. CASE Write("JOIN", 1)
    BY <2>1, LineWritten
  <2>2. ASSUME NEW n \in 1 .. MaxText, Write("PRIVMSG", Prefix + n) PROVE LineInv'
    <3>1. Prefix + n \in 1 .. Prefix + MaxText
      OBVIOUS
    <3> QED
      BY <2>2, <3>1, LineWritten
  <2> QED
    BY <1>1, <2>1, <2>2 DEF ClientNext
<1>2. CASE DriverNext
  BY <1>2, LineAccept, LineReceived, LineByte, LineEnd, LineOthers DEF DriverNext
<1>3. CASE Call \/ Key \/ ReturnLine \/ ReturnNothing \/ Settled \/ UNCHANGED vars
  BY <1>3, LineOthers DEF Call, Key, ReturnNothing, vars
<1> QED
  BY <1>1, <1>2, <1>3 DEF Next, Irc

\* For any size of the buffer and of the pieces recv() brings, and any number of
\* lines and clients: parse_buffer() only gets lines as they were written
\* (ircserver.c:588, 602-614).
THEOREM LinesAlwaysWhole == Spec => []LinesAreWhole
<1>1. LineInv => LinesAreWhole
  BY DEF LineInv, LinesAreWhole
<1> QED
  BY <1>1, InitLines, LineStep, PTL DEF Spec
-----------------------------------------------------------------------------
(* Messages, from the lines to main().                                     *)

\* What was heard and neither sent nor followed by another line is what the call
\* of irc_driver() returns, and then what is pending.
Accounted ==
  /\ turn \in {"main", "driver"}
  /\ ret \in {NULL, Prefix} /\ outgoingmsg \in {NULL, Typed, Prefix}
  /\ turn = "driver" => /\ outgoingmsg = NULL
                        /\ heard \ (settled \cup overtaken) \subseteq burst
                        /\ ret = NULL => burst = {}
  /\ turn = "main" =>
       IF outgoingmsg = Prefix THEN heard \ (settled \cup overtaken) \subseteq burst
                               ELSE heard \subseteq settled \cup overtaken
  /\ typing => turn = "main" /\ outgoingmsg = NULL

\* Nothing is heard at first.
LEMMA InitAccounts == Init => Accounted
  BY DEF Init, IrcInit, Accounted, NULL

\* A call of irc_driver() starts when nothing is pending, and accounts for every
\* line until it returns.
LEMMA AccountDriver == ASSUME Accounted, DriverNext, typing' = typing, ~typing PROVE Accounted'
<1> USE DEF NULL, Typed
<1>1. CASE Accept \/ Closed
  BY <1>1 DEF Accounted, Accept, Closed, Listening, history
<1>2. ASSUME NEW n \in 1 .. MaxInput, Received(n) PROVE Accounted'
  BY <1>2 DEF Accounted, Received, Listening
<1>3. CASE PutByte
  BY <1>3 DEF Accounted, PutByte, history
<1>4. CASE EndOfLine
  <2>1. /\ turn = "driver" /\ turn' = turn /\ outgoingmsg' = outgoingmsg /\ settled' = settled
        /\ ret' \in {NULL, Prefix}
        /\ overtaken' = overtaken \cup burst /\ heard' = heard \cup burst'
        /\ ret' = NULL => burst' = {}
    BY <1>4 DEF EndOfLine, ParseBuffer
  <2> QED
    BY <2>1 DEF Accounted
<1>5. CASE Returned
  BY <1>5 DEF Accounted, Returned, history
<1> QED
  BY <1>1, <1>2, <1>3, <1>4, <1>5 DEF DriverNext

\* The keyboard and the clients settle nothing; main() settles what is pending.
LEMMA AccountStep == Accounted /\ [Next]_vars => Accounted'
<1> SUFFICES ASSUME Accounted, [Next]_vars PROVE Accounted'
  OBVIOUS
<1> USE DEF NULL, Typed
<1>1. CASE Irc
  <2>1. CASE Settled
    BY <1>1, <2>1 DEF Irc, Accounted, Settled
  <2> QED
    BY <1>1, <2>1, AccountDriver DEF Irc
<1>2. CASE ReturnLine
  BY <1>2 DEF Accounted, ReturnLine, history
<1>3. CASE Call
  BY <1>3 DEF Accounted, Call, Listening, ircvars, history
<1>4. CASE Key \/ ReturnNothing \/ UNCHANGED vars
  BY <1>4 DEF Accounted, Key, ReturnNothing, vars, ircvars, history
<1>5. CASE ClientNext /\ UNCHANGED <<typing, typedvars>>
  BY <1>5 DEF Accounted, ClientNext, Write, history
<1> QED
  BY <1>1, <1>2, <1>3, <1>4, <1>5 DEF Next

\* For any number of lines and clients: a text heard in the channel is sent or
\* still pending, unless another line came after it in the same recv()
\* (ircserver.c:606, main.c:740).
THEOREM LostAlwaysInBurst == Spec => []LostOnlyInBurst
<1>1. Accounted => LostOnlyInBurst
  BY DEF Accounted, LostOnlyInBurst, NULL
<1> QED
  BY <1>1, InitAccounts, AccountStep, PTL DEF Spec
-----------------------------------------------------------------------------
(* What main() keeps a pointer to, when no recv() brings a line and the    *)
(* beginning of another.                                                   *)

\* The text of a line is in the buffer, where irc_driver() says it is.
Kept == \E l \in Texts : StringAt(linebuffer, Prefix) = TextOf(l)

\* What is left of a recv() ends with a line, or has no end of a line.
Untrailed == input # << >> => input[Len(input)][2] = 0 \/ ~HasEnd(input)

\* A text is in the buffer until the rest of its recv(), with a line at its end, is
\* written over it, and from the return of irc_driver() until it is settled.
Held ==
  /\ turn = "driver" /\ ret # NULL =>
       IF input = << >> THEN Kept ELSE input[Len(input)][2] = 0
  /\ turn = "main" /\ outgoingmsg = Prefix => Kept

HeldInv == LineInv /\ Accounted /\ Untrailed /\ Held

\* What follows the first cell ends as the whole does.
LEMMA TailTrail ==
  ASSUME NEW s \in Seq(Cells), s # << >>
  PROVE  /\ Len(s) \in Nat \ {0} /\ Head(s) = s[1]
         /\ HasEnd(Tail(s)) => HasEnd(s)
         /\ Tail(s) # << >> => Tail(s)[Len(Tail(s))] = s[Len(s)]
         /\ Tail(s) = << >> => Len(s) = 1
<1> DEFINE t == Tail(s)
<1>1. Len(s) \in Nat \ {0} /\ Head(s) = s[1]
  BY EmptySeq
<1>2. /\ t \in Seq(Cells) /\ Len(t) = Len(s) - 1
      /\ \A x \in 1 .. Len(t) : t[x] = s[x + 1]
  BY HeadTailProperties
<1> HIDE DEF t
<1>3. HasEnd(t) => HasEnd(s)
  <2> SUFFICES ASSUME NEW x \in 1 .. Len(t), t[x][2] = 0 PROVE HasEnd(s)
    BY DEF HasEnd
  <2>1. x + 1 \in 1 .. Len(s) /\ s[x + 1][2] = 0
    BY <1>1, <1>2
  <2> QED
    BY <2>1 DEF HasEnd
<1>4. ASSUME t # << >> PROVE t[Len(t)] = s[Len(s)]
  <2>1. Len(t) \in Nat \ {0}
    BY <1>2, <1>4, EmptySeq
  <2>2. Len(t) \in 1 .. Len(t) /\ Len(t) + 1 = Len(s)
    BY <1>1, <1>2, <2>1
  <2> QED
    BY <1>2, <2>2
<1>5. t = << >> => Len(s) = 1
  BY <1>1, <1>2, EmptySeq
<1> QED
  BY <1>1, <1>3, <1>4, <1>5 DEF t

\* A text stays in the buffer as long as nothing is written there, whatever the
\* clients write.
LEMMA KeptStays ==
  ASSUME LineInv, Kept, linebuffer' = linebuffer,
         \/ lines' = lines
         \/ \E line : lines' = Append(lines, line)
  PROVE  Kept'
<1>1. PICK l \in Texts : StringAt(linebuffer, Prefix) = TextOf(l)
  BY DEF Kept
<1>2. l \in DOMAIN lines' /\ lines'[l] = lines[l]
  <2>1. lines \in Seq(Lines) /\ l \in 1 .. Len(lines) /\ DOMAIN lines = 1 .. Len(lines)
    BY <1>1, LenProperties DEF LineInv, InputTypes, Texts
  <2> QED
    BY <2>1
<1>3. l \in Texts' /\ TextOf(l)' = TextOf(l)
  BY <1>1, <1>2 DEF Texts, TextOf, LineOf
<1>4. StringAt(linebuffer, Prefix)' = StringAt(linebuffer, Prefix)
  BY DEF StringAt
<1> QED
  BY <1>1, <1>3, <1>4 DEF Kept

\* The text of a line, where the line is in the buffer.
LEMMA TextInBuffer ==
  ASSUME LineInv, EndOfLine, ret' # NULL,
         NEW b, b = [linebuffer EXCEPT ![o] = NUL], NEW l, l = Head(input)[1]
  PROVE  Kept'
<1>0. turn = "driver" /\ input # << >> /\ Head(input)[2] = 0
  BY DEF EndOfLine
<1>1. linebuffer' = b /\ lines' = lines /\ ret' = ParseBuffer(StringAt(b, 0))
  BY DEF EndOfLine, wire
<1>2. /\ l \in DOMAIN lines /\ o = lines[l].len /\ lines[l] \in Lines
      /\ StringAt(b, 0) = LineOf(l)
      /\ Prefix < o => StringAt(b, Prefix) = TextOf(l)
  BY <1>0, LineEnds
<1>3. Len(LineOf(l)) = o /\ LineOf(l)[1] = <<l, 1>>
  BY <1>2 DEF LineOf, Lines
<1>4. IsSaid(LineOf(l))
  BY <1>1, <1>2 DEF ParseBuffer
<1>5. Prefix < o /\ lines[l].kind = "PRIVMSG"
  <2>1. /\ Len(LineOf(l)) > Prefix
        /\ lines[LineOf(l)[1][1]].kind = "PRIVMSG"
    BY <1>4 DEF IsSaid
  <2> QED
    BY <1>3, <2>1
<1>6. l \in Texts'
  BY <1>1, <1>2, <1>5 DEF Texts
<1>7. TextOf(l)' = TextOf(l)
  BY <1>1 DEF TextOf, LineOf
<1>8. StringAt(linebuffer, Prefix)' = StringAt(b, Prefix)
  BY <1>1 DEF StringAt
<1> QED
  BY <1>2, <1>5, <1>6, <1>7, <1>8 DEF Kept

\* The steps of irc_driver().
LEMMA HeldDriver == ASSUME MayTrail = FALSE, HeldInv, DriverNext PROVE Untrailed' /\ Held'
<1> USE DEF HeldInv
<1>0. input \in Seq(Cells) /\ chan \in Seq(Cells)
  BY DEF LineInv, InputTypes
<1>1. CASE Accept \/ Closed
  <2>1. /\ turn = "main" /\ turn' = "main" /\ outgoingmsg = NULL /\ outgoingmsg' = NULL
        /\ input' = input
    BY <1>1 DEF Accept, Closed, Listening
  <2> QED
    BY <2>1 DEF Untrailed, Held, NULL
<1>2. ASSUME NEW n \in 1 .. MaxInput, Received(n) PROVE Untrailed' /\ Held'
  <2>1. /\ turn' = "driver" /\ ret' = NULL /\ n \in 1 .. Len(chan) /\ input' = SubSeq(chan, 1, n)
        /\ chan[n][2] = 0 \/ ~HasEnd(SubSeq(chan, 1, n))
    BY <1>2 DEF Received
  <2>2. Len(chan) \in Nat /\ \A x \in 1 .. Len(chan) : chan[x] \in Cells
    BY <1>0, LenProperties, ElementOfSeq
  <2>3. Len(input') = n /\ input'[n] = chan[n]
    BY <2>1, <2>2, SubSeqProperties
  <2>4. HasEnd(input)' <=> HasEnd(SubSeq(chan, 1, n))
    BY <2>1 DEF HasEnd
  <2> QED
    BY <2>1, <2>3, <2>4 DEF Untrailed, Held
<1>3. CASE PutByte
  <2>1. /\ turn = "driver" /\ turn' = turn /\ input # << >> /\ Head(input)[2] # 0
        /\ input' = Tail(input) /\ ret' = ret
    BY <1>3 DEF PutByte
  <2>2. HasEnd(input)' <=> HasEnd(Tail(input))
    BY <2>1 DEF HasEnd
  <2>3. Untrailed'
    BY <1>0, <2>1, <2>2, TailTrail DEF Untrailed
  <2>4. ASSUME ret # NULL PROVE input' # << >> /\ input'[Len(input')][2] = 0
    <3>1. input[Len(input)][2] = 0
      BY <2>1, <2>4 DEF Held
    <3>2. input' # << >>
      BY <1>0, <2>1, <3>1, TailTrail
    <3> QED
      BY <1>0, <2>1, <3>1, <3>2, TailTrail
  <2> QED
    BY <2>1, <2>3, <2>4 DEF Held
<1>4. CASE EndOfLine
  <2>1. /\ turn = "driver" /\ turn' = turn /\ input # << >> /\ Head(input)[2] = 0
        /\ input' = Tail(input)
    BY <1>4 DEF EndOfLine
  <2>2. HasEnd(input)' <=> HasEnd(Tail(input))
    BY <2>1 DEF HasEnd
  <2>3. Untrailed'
    BY <1>0, <2>1, <2>2, TailTrail DEF Untrailed
  <2>4. HasEnd(input)
    <3>1. 1 \in 1 .. Len(input) /\ input[1][2] = 0
      BY <1>0, <2>1, TailTrail
    <3> QED
      BY <3>1 DEF HasEnd
  <2>5. input' # << >> => input'[Len(input')][2] = 0
    BY <1>0, <2>1, <2>4, TailTrail DEF Untrailed
  <2>6. ret' # NULL => Kept'
    BY <1>4, TextInBuffer
  <2> QED
    BY <2>1, <2>3, <2>5, <2>6 DEF Held
<1>5. CASE Returned
  <2>1. /\ turn = "driver" /\ input = << >> /\ turn' = "main" /\ outgoingmsg' = ret
        /\ UNCHANGED <<input, linebuffer, lines>>
    BY <1>5 DEF Returned, wire
  <2>2. outgoingmsg' = Prefix => Kept'
    BY <2>1, KeptStays DEF Held, NULL
  <2> QED
    BY <2>1, <2>2 DEF Untrailed, Held
<1> QED
  BY <1>1, <1>2, <1>3, <1>4, <1>5 DEF DriverNext

\* Only irc_driver() writes in the buffer, and it runs when nothing is pending.
LEMMA HeldStep == ASSUME MayTrail = FALSE, HeldInv, [Next]_vars PROVE HeldInv'
<1>1. LineInv' /\ Accounted'
  BY LineStep, AccountStep DEF HeldInv
<1>2. CASE DriverNext
  BY <1>1, <1>2, HeldDriver DEF HeldInv
<1>3. CASE ClientNext \/ UNCHANGED ircvars
  <2>1. /\ UNCHANGED <<turn, input, linebuffer, ret, outgoingmsg>>
        /\ lines' = lines \/ \E line : lines' = Append(lines, line)
    BY <1>3 DEF ClientNext, Write, ircvars, wire
  <2>2. Kept => Kept'
    BY <2>1, KeptStays DEF HeldInv
  <2>3. HasEnd(input)' <=> HasEnd(input)
    BY <2>1 DEF HasEnd
  <2> QED
    BY <1>1, <2>1, <2>2, <2>3 DEF HeldInv, Untrailed, Held
<1>4. CASE Settled \/ ReturnLine
  <2>1. UNCHANGED <<turn, input>> /\ turn = "main" /\ outgoingmsg' \in {NULL, Typed}
    BY <1>4 DEF Settled, ReturnLine, HeldInv, Accounted
  <2>2. HasEnd(input)' <=> HasEnd(input)
    BY <2>1 DEF HasEnd
  <2> QED
    BY <1>1, <2>1, <2>2 DEF HeldInv, Untrailed, Held, NULL, Typed
<1> QED
  BY <1>2, <1>3, <1>4 DEF Next, Irc, Call, Key, ReturnNothing, vars
-----------------------------------------------------------------------------
(* The line that is typed.                                                 *)

USE TypingAssumption

Bytes   == Chars \X Nat
Entries == [ch : Chars, from : Nat]
Last    == entered[Len(entered)]

\* n bytes of a character, after its m first ones.
Piece(s, ch, m, n) ==
  s \in Seq(Bytes) /\ Len(s) = n /\ \A k \in 1 .. n : s[k] = <<ch, m + k>>

TypedTypes ==
  /\ buf \in Seq(Bytes) /\ coming \in Seq(Bytes) /\ entered \in Seq(Entries)
  /\ nbrofbytes \in {0, Len(buf)} /\ typing \in BOOLEAN

\* The characters entered follow each other in the buffer, with all their bytes but
\* for the last.
Tiled ==
  /\ buf = << >> <=> entered = << >>
  /\ entered # << >> => entered[1].from = 0
  /\ \A x \in 1 .. Len(entered) :
       /\ BytesOf(x, buf) \in 1 .. Width[entered[x].ch]
       /\ x # Len(entered) => BytesOf(x, buf) = Width[entered[x].ch]
       /\ \A k \in 1 .. BytesOf(x, buf) : buf[entered[x].from + k] = <<entered[x].ch, k>>
  /\ \A x, y \in 1 .. Len(entered) :
       x < y => entered[x].from + Width[entered[x].ch] <= entered[y].from

\* The bytes that are still to come are those the last character lacks, unless the
\* buffer is full.
Lacking ==
  /\ typing \/ coming # << >> => nbrofbytes = Len(buf)
  /\ coming # << >> => buf # << >>
  /\ buf # << >> /\ Len(buf) # Full /\ (coming = << >> \/ Len(buf) > Full) =>
       BytesOf(Len(entered), buf) = Width[Last.ch]
  /\ coming # << >> /\ Len(buf) < Full =>
       /\ Len(coming) = Width[Last.ch] - BytesOf(Len(entered), buf)
       /\ \A k \in 1 .. Len(coming) : coming[k] = <<Last.ch, BytesOf(Len(entered), buf) + k>>

TypedInv ==
  /\ TypedTypes /\ Tiled /\ Lacking
  /\ outgoingmsg = Typed => coming = << >>

\* A character of the line: its first byte, and how many there are of it.
LEMMA Entered ==
  ASSUME TypedTypes, Tiled, NEW x \in 1 .. Len(entered)
  PROVE  /\ Len(entered) \in Nat /\ Len(buf) \in Nat
         /\ entered[x] \in Entries /\ entered[x].from \in Nat
         /\ Width[entered[x].ch] \in 1 .. 3
         /\ BytesOf(x, buf) \in 1 .. Width[entered[x].ch]
         /\ entered[x].from + BytesOf(x, buf) <= Len(buf)
<1>1. Len(entered) \in Nat /\ Len(buf) \in Nat
  BY LenProperties DEF TypedTypes
<1>2. \A y \in 1 .. Len(entered) : /\ entered[y] \in Entries /\ entered[y].from \in Nat
                                   /\ Width[entered[y].ch] \in 1 .. 3
  <2> SUFFICES ASSUME NEW y \in 1 .. Len(entered)
               PROVE  /\ entered[y] \in Entries /\ entered[y].from \in Nat
                      /\ Width[entered[y].ch] \in 1 .. 3
    OBVIOUS
  <2>1. entered[y] \in Entries
    BY ElementOfSeq DEF TypedTypes
  <2>2. entered[y].from \in Nat /\ entered[y].ch \in Chars
    BY <2>1 DEF Entries
  <2> QED
    BY <2>1, <2>2
<1>3. BytesOf(x, buf) \in 1 .. Width[entered[x].ch]
  BY DEF Tiled
<1>4. Len(entered) \in 1 .. Len(entered)
  BY <1>1
<1>5. Last.from + BytesOf(Len(entered), buf) = Len(buf)
  BY <1>1, <1>2, <1>4 DEF BytesOf, Last
<1>6. CASE x = Len(entered)
  BY <1>1, <1>2, <1>3, <1>5, <1>6 DEF Last
<1>7. CASE x # Len(entered)
  <2>1. BytesOf(x, buf) = Width[entered[x].ch] /\ BytesOf(Len(entered), buf) \in Nat
    BY <1>1, <1>2, <1>4, <1>7 DEF Tiled
  <2>2. entered[x].from + Width[entered[x].ch] <= Last.from
    BY <1>1, <1>4, <1>7 DEF Tiled, Last
  <2> QED
    BY <1>1, <1>2, <1>3, <1>4, <1>5, <2>1, <2>2 DEF Last
<1> QED
  BY <1>1, <1>2, <1>3, <1>6, <1>7

\* The last one ends with the buffer.
LEMMA LastEntered ==
  ASSUME TypedTypes, Tiled, buf # << >>
  PROVE  /\ Len(entered) \in 1 .. Len(entered) /\ Len(entered) \in Nat /\ Len(buf) \in Nat \ {0}
         /\ Last \in Entries /\ Last.from \in Nat /\ Width[Last.ch] \in 1 .. 3
         /\ BytesOf(Len(entered), buf) \in 1 .. Width[Last.ch]
         /\ Last.from + BytesOf(Len(entered), buf) = Len(buf)
         /\ \A k \in 1 .. BytesOf(Len(entered), buf) : buf[Last.from + k] = <<Last.ch, k>>
<1>1. Len(entered) \in Nat \ {0} /\ Len(buf) \in Nat \ {0}
  BY EmptySeq, LenProperties DEF TypedTypes, Tiled
<1>2. Len(entered) \in 1 .. Len(entered)
  BY <1>1
<1>3. /\ Last \in Entries /\ Last.from \in Nat /\ Width[Last.ch] \in 1 .. 3
      /\ BytesOf(Len(entered), buf) \in 1 .. Width[Last.ch]
  BY <1>2, Entered DEF Last
<1>4. Last.from + BytesOf(Len(entered), buf) = Len(buf)
  BY <1>1, <1>3 DEF BytesOf, Last
<1>5. \A k \in 1 .. BytesOf(Len(entered), buf) : buf[Last.from + k] = <<Last.ch, k>>
  BY <1>2 DEF Tiled, Last
<1> QED
  BY <1>1, <1>2, <1>3, <1>4, <1>5

\* Backspace finds where the last character starts.
LEMMA ErasedLast ==
  ASSUME TypedTypes, Tiled, buf # << >>, nbrofbytes = Len(buf)
  PROVE  Erased = Last.from
<1> DEFINE f == Last.from
           n == BytesOf(Len(entered), buf)
           w == Width[Last.ch]
<1>1. /\ f \in Nat /\ n \in 1 .. w /\ w \in 1 .. 3 /\ nbrofbytes = f + n
      /\ \A k \in 1 .. n : buf[f + k] = <<Last.ch, k>>
  BY LastEntered
<1> HIDE DEF f, n
<1>2. \A k \in 1 .. n : /\ IsHigh(buf[f + k]) <=> w > 1
                        /\ IsLead(buf[f + k]) <=> w > 1 /\ k = 1
  <2> SUFFICES ASSUME NEW k \in 1 .. n
               PROVE  /\ IsHigh(buf[f + k]) <=> w > 1
                      /\ IsLead(buf[f + k]) <=> w > 1 /\ k = 1
    OBVIOUS
  <2>1. buf[f + k][1] = Last.ch /\ buf[f + k][2] = k
    BY <1>1
  <2> QED
    BY <2>1 DEF IsHigh, IsLead
<1> HIDE DEF w
<1>3. CASE w = 1
  <2>1. n = 1 /\ ~IsHigh(buf[nbrofbytes])
    BY <1>1, <1>2, <1>3
  <2> QED
    BY <1>1, <2>1 DEF Erased, f
<1>4. CASE w > 1
  <2> DEFINE Leads(x) == /\ x = 0 \/ IsLead(buf[x + 1])
                         /\ \A y \in x + 1 .. nbrofbytes - 1 : ~IsLead(buf[y + 1])
             e == CHOOSE x \in 0 .. nbrofbytes - 1 :
                    /\ x = 0 \/ IsLead(buf[x + 1])
                    /\ \A y \in x + 1 .. nbrofbytes - 1 : ~IsLead(buf[y + 1])
  <2>1. f \in 0 .. nbrofbytes - 1 /\ IsLead(buf[f + 1])
    BY <1>1, <1>2, <1>4
  <2>2. ASSUME NEW y \in f + 1 .. nbrofbytes - 1 PROVE ~IsLead(buf[y + 1])
    <3>1. y + 1 - f \in 1 .. n /\ y + 1 - f # 1 /\ f + (y + 1 - f) = y + 1
      BY <1>1
    <3> QED
      BY <1>2, <3>1
  <2>3. Leads(f)
    BY <2>1, <2>2
  <2>4. e \in 0 .. nbrofbytes - 1 /\ Leads(e)
    BY <2>1, <2>3
  <2>5. Erased = e
    <3>1. n \in 1 .. n /\ IsHigh(buf[nbrofbytes])
      BY <1>1, <1>2, <1>4
    <3> QED
      BY <3>1 DEF Erased
  <2> HIDE DEF e
  <2>6. ~(e < f)
    BY <1>1, <2>1, <2>4
  <2>7. ~(e > f)
    BY <1>1, <2>1, <2>2, <2>4
  <2>8. e = f
    BY <1>1, <2>4, <2>6, <2>7
  <2> QED
    BY <2>5, <2>8 DEF f
<1> QED
  BY <1>1, <1>3, <1>4

\* A character is entered with some of its bytes, after a line that lacks nothing.
LEMMA CharacterEntered ==
  ASSUME TypedTypes, Tiled, Lacking, nbrofbytes = Len(buf), coming = << >>, Len(buf) < Full,
         NEW ch \in Chars, NEW m \in {1, Width[ch]}, NEW bytes, Piece(bytes, ch, 0, m),
         Piece(coming', ch, m, Width[ch] - m), buf' = buf \o bytes, nbrofbytes' = nbrofbytes + Len(bytes),
         entered' = Append(entered, [ch |-> ch, from |-> nbrofbytes]), typing' \in BOOLEAN
  PROVE  TypedTypes' /\ Tiled' /\ Lacking'
<1>1. PICK L \in Nat, N \in Nat : L = Len(buf) /\ N = Len(entered)
  BY LenProperties DEF TypedTypes
<1>2. Width[ch] \in 1 .. 3 /\ m \in 1 .. Width[ch]
  OBVIOUS
<1>3. /\ buf' \in Seq(Bytes) /\ Len(buf') = L + m /\ buf' # << >>
      /\ \A x \in 1 .. L : buf'[x] = buf[x]
      /\ \A k \in 1 .. m : buf'[L + k] = <<ch, k>>
  <2>1. /\ buf' \in Seq(Bytes) /\ Len(buf') = L + m
        /\ \A x \in 1 .. L + m : buf'[x] = IF x <= L THEN buf[x] ELSE bytes[x - L]
    <3>1. buf \in Seq(Bytes) /\ bytes \in Seq(Bytes) /\ Len(bytes) = m
      BY DEF TypedTypes, Piece
    <3>2. /\ buf \o bytes \in Seq(Bytes) /\ Len(buf \o bytes) = Len(buf) + Len(bytes)
          /\ \A x \in 1 .. Len(buf) + Len(bytes) :
               (buf \o bytes)[x] = IF x <= Len(buf) THEN buf[x] ELSE bytes[x - Len(buf)]
      BY <3>1, ConcatProperties
    <3> QED
      BY <1>1, <3>1, <3>2, Zenon
  <2>2. ASSUME NEW k \in 1 .. m PROVE buf'[L + k] = <<ch, k>>
    <3> DEFINE x == L + k
    <3>1. x \in 1 .. L + m /\ ~(x <= L) /\ x - L = k
      BY <1>1, <1>2
    <3>2. bytes[k] = <<ch, 0 + k>> /\ 0 + k = k
      BY <1>2 DEF Piece
    <3> HIDE DEF x
    <3>3. buf'[x] = bytes[k]
      BY <2>1, <3>1, Zenon
    <3> QED
      BY <3>2, <3>3 DEF x
  <2>3. ASSUME NEW x \in 1 .. L PROVE buf'[x] = buf[x]
    BY <1>1, <1>2, <2>1
  <2>4. buf' # << >>
    BY <1>1, <1>2, <2>1, EmptySeq
  <2> QED
    BY <2>1, <2>2, <2>3, <2>4
<1>4. /\ entered' \in Seq(Entries) /\ Len(entered') = N + 1 /\ entered' # << >>
      /\ \A x \in 1 .. N : entered'[x] = entered[x]
      /\ entered'[N + 1].ch = ch /\ entered'[N + 1].from = L
  <2>1. [ch |-> ch, from |-> nbrofbytes] \in Entries
    BY <1>1 DEF Entries
  <2>2. /\ entered' \in Seq(Entries) /\ Len(entered') = N + 1
        /\ \A x \in 1 .. N : entered'[x] = entered[x]
        /\ entered'[N + 1] = [ch |-> ch, from |-> nbrofbytes]
    <3>1. entered \in Seq(Entries)
      BY DEF TypedTypes
    <3> QED
      BY <1>1, <2>1, <3>1, AppendProperties
  <2>3. entered' # << >>
    BY <1>1, <2>2, EmptySeq
  <2> QED
    BY <1>1, <2>2, <2>3
<1>5. TypedTypes'
  <2>1. nbrofbytes' = Len(buf') /\ coming' \in Seq(Bytes)
    BY <1>1, <1>3 DEF Piece
  <2> QED
    BY <1>3, <1>4, <2>1 DEF TypedTypes
<1>6. ASSUME NEW x \in 1 .. N
      PROVE  /\ BytesOf(x, buf)' = BytesOf(x, buf) /\ BytesOf(x, buf) = Width[entered[x].ch]
             /\ entered[x].from \in Nat /\ Width[entered[x].ch] \in 1 .. 3
             /\ entered[x].from + Width[entered[x].ch] <= L
  <2>1. BytesOf(x, buf)' = BytesOf(x, buf)
    BY <1>1, <1>4 DEF BytesOf
  <2>2. BytesOf(x, buf) = Width[entered[x].ch]
    <3>1. CASE x # N
      BY <1>1, <3>1 DEF Tiled
    <3>2. CASE x = N
      <4>1. buf # << >>
        BY <1>1, <3>2, EmptySeq DEF Tiled
      <4> QED
        BY <1>1, <3>2, <4>1 DEF Lacking, Last
    <3> QED
      BY <3>1, <3>2
  <2>3. /\ entered[x].from \in Nat /\ Width[entered[x].ch] \in 1 .. 3
        /\ entered[x].from + BytesOf(x, buf) <= L
    BY <1>1, Entered
  <2> QED
    BY <2>1, <2>2, <2>3
<1>7. BytesOf(N + 1, buf)' = m
  BY <1>1, <1>2, <1>3, <1>4 DEF BytesOf
<1>8. entered'[1].from = 0
  <2>1. CASE N = 0
    BY <1>1, <1>4, <2>1, EmptySeq DEF Tiled, TypedTypes
  <2>2. CASE N # 0
    <3>1. entered # << >> /\ 1 \in 1 .. N
      BY <1>1, <2>2, EmptySeq
    <3> QED
      BY <1>4, <3>1 DEF Tiled
  <2> QED
    BY <2>1, <2>2
<1>9. ASSUME NEW x \in 1 .. N + 1
      PROVE  /\ BytesOf(x, buf)' \in 1 .. Width[entered'[x].ch]
             /\ x # N + 1 => BytesOf(x, buf)' = Width[entered'[x].ch]
             /\ \A k \in 1 .. BytesOf(x, buf)' : buf'[entered'[x].from + k] = <<entered'[x].ch, k>>
  <2>1. CASE x = N + 1
    <3>1. entered'[x].ch = ch /\ entered'[x].from = L /\ BytesOf(x, buf)' = m
      BY <1>4, <1>7, <2>1
    <3> QED
      BY <1>2, <1>3, <2>1, <3>1
  <2>2. CASE x \in 1 .. N
    <3>1. entered'[x] = entered[x]
      BY <1>4, <2>2
    <3>2. ASSUME NEW k \in 1 .. BytesOf(x, buf)
          PROVE  buf'[entered[x].from + k] = <<entered[x].ch, k>>
      <4>1. entered[x].from + k \in 1 .. L
        <5> DEFINE f == entered[x].from
                   w == Width[entered[x].ch]
        <5>1. f \in Nat /\ w \in 1 .. 3 /\ f + w <= L /\ k \in 1 .. w
          BY <1>6, <2>2
        <5> HIDE DEF f, w
        <5>2. ASSUME NEW i \in Nat, i = f, NEW j \in Nat, j = w, NEW h \in 1 .. j, i + j <= L
              PROVE  i + h \in 1 .. L
          BY <1>1, <5>2
        <5>3. f + k \in 1 .. L
          <6>1. w \in Nat
            BY <5>1
          <6> QED
            BY <5>1, <5>2, <6>1
        <5> QED
          BY <5>3 DEF f
      <4>2. buf[entered[x].from + k] = <<entered[x].ch, k>>
        BY <1>1, <2>2 DEF Tiled
      <4> QED
        BY <1>3, <4>1, <4>2
    <3>3. /\ BytesOf(x, buf)' = BytesOf(x, buf) /\ BytesOf(x, buf) = Width[entered[x].ch]
          /\ Width[entered[x].ch] \in 1 .. 3
      BY <1>6, <2>2
    <3>4. BytesOf(x, buf) \in 1 .. Width[entered[x].ch]
      BY <1>1, <2>2 DEF Tiled
    <3> QED
      BY <3>1, <3>2, <3>3, <3>4, Zenon
  <2>3. x = N + 1 \/ x \in 1 .. N
    BY <1>1
  <2> QED
    BY <2>1, <2>2, <2>3, Zenon
<1>10. ASSUME NEW x \in 1 .. N + 1, NEW y \in 1 .. N + 1, x < y
       PROVE  entered'[x].from + Width[entered'[x].ch] <= entered'[y].from
  <2>1. x \in 1 .. N
    BY <1>1, <1>10
  <2>2. CASE y = N + 1
    BY <1>4, <1>6, <2>1, <2>2
  <2>3. CASE y \in 1 .. N
    BY <1>1, <1>4, <1>10, <2>1, <2>3 DEF Tiled
  <2> QED
    BY <1>1, <2>2, <2>3
<1>11. Tiled'
  <2>1. /\ buf' = << >> <=> entered' = << >>
        /\ entered' # << >> => entered'[1].from = 0
    BY <1>3, <1>4, <1>8
  <2>2. \A x \in 1 .. Len(entered') :
          /\ BytesOf(x, buf)' \in 1 .. Width[entered'[x].ch]
          /\ x # Len(entered') => BytesOf(x, buf)' = Width[entered'[x].ch]
          /\ \A k \in 1 .. BytesOf(x, buf)' : buf'[entered'[x].from + k] = <<entered'[x].ch, k>>
    BY <1>4, <1>9, Zenon
  <2>3. \A x, y \in 1 .. Len(entered') :
          x < y => entered'[x].from + Width[entered'[x].ch] <= entered'[y].from
    BY <1>4, <1>10, Zenon
  <2> QED
    BY <2>1, <2>2, <2>3, Zenon DEF Tiled
<1>12. /\ nbrofbytes' = Len(buf') /\ Last'.ch = ch /\ BytesOf(Len(entered), buf)' = m
       /\ Len(coming') = Width[ch] - m
       /\ \A k \in 1 .. Len(coming') : coming'[k] = <<ch, m + k>>
  BY <1>1, <1>2, <1>3, <1>4, <1>7 DEF Last, Piece
<1>13. m # Width[ch] => coming' # << >> /\ Len(buf') <= Full
  BY <1>1, <1>2, <1>3, <1>12, EmptySeq
<1>14. Lacking'
  <2>1. Len(buf') # Full /\ (coming' = << >> \/ Len(buf') > Full) => m = Width[ch]
    BY <1>1, <1>3, <1>13
  <2>2. Last.ch' = ch
    BY <1>12
  <2> QED
    BY <1>3, <1>12, <2>1, <2>2, Zenon DEF Lacking
<1> QED
  BY <1>5, <1>11, <1>14

\* A byte that was still to come is added to its character, if there is room.
LEMMA ByteEntered ==
  ASSUME TypedTypes, Tiled, Lacking, coming # << >>, Put(<<Head(coming)>>),
         coming' = Tail(coming), entered' = entered, typing' \in BOOLEAN
  PROVE  TypedTypes' /\ Tiled' /\ Lacking'
<1> DEFINE n == BytesOf(Len(entered), buf)
           w == Width[Last.ch]
           t == Tail(coming)
<1>1. /\ nbrofbytes = Len(buf) /\ buf # << >> /\ Len(buf) \in Nat \ {0}
      /\ Len(entered) \in Nat \ {0} /\ Len(entered) \in 1 .. Len(entered)
      /\ Last.from \in Nat /\ w \in 1 .. 3 /\ n \in 1 .. w /\ Last.from + n = Len(buf)
      /\ \A k \in 1 .. n : buf[Last.from + k] = <<Last.ch, k>>
  <2>1. nbrofbytes = Len(buf) /\ buf # << >>
    BY DEF Lacking
  <2> QED
    BY <2>1, LastEntered
<1>2. /\ Len(coming) \in Nat \ {0} /\ Head(coming) = coming[1] /\ Head(coming) \in Bytes
      /\ t \in Seq(Bytes) /\ Len(t) = Len(coming) - 1
      /\ \A k \in 1 .. Len(t) : t[k] = coming[k + 1]
  BY EmptySeq, HeadTailProperties DEF TypedTypes
<1> HIDE DEF n, w, t
<1>3. CASE Len(buf) >= Full
  <2>1. UNCHANGED <<buf, nbrofbytes, entered>> /\ coming' = t
    BY <1>1, <1>3 DEF Put, t
  <2>2. TypedTypes'
    BY <1>2, <2>1 DEF TypedTypes
  <2>3. BytesOf(Len(entered), buf)' = BytesOf(Len(entered), buf) /\ Last' = Last
    BY <2>1 DEF BytesOf, Last
  <2>4. Tiled'
    BY <2>1 DEF Tiled, BytesOf
  <2>5. Lacking'
    <3>1. Len(buf) # Full => BytesOf(Len(entered), buf) = Width[Last.ch]
      BY <1>1, <1>3 DEF Lacking
    <3> QED
      BY <1>1, <1>3, <2>1, <2>3, <3>1 DEF Lacking
  <2> QED
    BY <2>2, <2>4, <2>5
<1>4. CASE Len(buf) < Full
  <2>1. /\ buf' = Line \o <<Head(coming)>> /\ nbrofbytes' = nbrofbytes + 1 /\ coming' = t
    <3>1. ~(nbrofbytes >= Full)
      BY <1>1, <1>4
    <3>2. buf' = Line \o <<Head(coming)>> /\ nbrofbytes' = nbrofbytes + Len(<<Head(coming)>>)
      BY <3>1 DEF Put
    <3> QED
      BY <3>2 DEF t
  <2>2. Line = buf
    BY <1>1, SubSeqFull DEF Line, TypedTypes
  <2>3. /\ buf' \in Seq(Bytes) /\ Len(buf') = Len(buf) + 1 /\ buf' # << >>
        /\ \A x \in 1 .. Len(buf) : buf'[x] = buf[x]
        /\ buf'[Len(buf) + 1] = Head(coming)
    <3>1. buf' = Append(buf, Head(coming))
      BY <1>1, <1>2, <2>1, <2>2, AppendIsConcat DEF TypedTypes
    <3> QED
      BY <1>1, <1>2, <3>1, AppendProperties, EmptySeq DEF TypedTypes
  <2>4. /\ Len(coming) = w - n /\ Head(coming) = <<Last.ch, n + 1>>
        /\ \A k \in 1 .. Len(coming) : coming[k] = <<Last.ch, n + k>>
    <3>1. /\ Len(coming) = w - n
          /\ \A k \in 1 .. Len(coming) : coming[k] = <<Last.ch, n + k>>
      BY <1>4 DEF Lacking, n, w
    <3> QED
      BY <1>2, <3>1
  <2>5. n + 1 \in 1 .. w
    BY <1>1, <1>2, <2>4
  <2>6. TypedTypes'
    BY <1>1, <1>2, <2>1, <2>3 DEF TypedTypes
  <2>7. BytesOf(Len(entered), buf)' = n + 1 /\ Last' = Last
    <3>1. Last' = Last
      BY DEF Last
    <3>2. BytesOf(Len(entered), buf)' = Len(buf') - Last.from
      BY <3>1 DEF BytesOf, Last
    <3> QED
      BY <1>1, <2>3, <3>1, <3>2
  <2>8. ASSUME NEW x \in 1 .. Len(entered), x # Len(entered)
        PROVE  BytesOf(x, buf)' = BytesOf(x, buf) /\ BytesOf(x, buf) = Width[entered[x].ch]
    BY <2>8 DEF BytesOf, Tiled
  <2>9. ASSUME NEW x \in 1 .. Len(entered)
        PROVE  /\ BytesOf(x, buf)' \in 1 .. Width[entered[x].ch]
               /\ x # Len(entered) => BytesOf(x, buf)' = Width[entered[x].ch]
               /\ \A k \in 1 .. BytesOf(x, buf)' : buf'[entered[x].from + k] = <<entered[x].ch, k>>
    <3>1. CASE x = Len(entered)
      <4>1. entered[x] = Last
        BY <3>1 DEF Last
      <4>2. ASSUME NEW k \in 1 .. n + 1 PROVE buf'[Last.from + k] = <<Last.ch, k>>
        <5>1. CASE k \in 1 .. n
          <6>1. Last.from + k \in 1 .. Len(buf)
            BY <1>1, <5>1
          <6> QED
            BY <1>1, <2>3, <5>1, <6>1
        <5>2. CASE k = n + 1
          <6>1. Last.from + k = Len(buf) + 1
            BY <1>1, <5>2
          <6> QED
            BY <2>3, <2>4, <5>2, <6>1
        <5> QED
          BY <1>1, <5>1, <5>2
      <4> QED
        BY <2>5, <2>7, <3>1, <4>1, <4>2, Zenon DEF w
    <3>2. CASE x # Len(entered)
      <4>1. BytesOf(x, buf)' = BytesOf(x, buf) /\ BytesOf(x, buf) = Width[entered[x].ch]
        BY <2>8, <3>2
      <4>2. /\ entered[x].from \in Nat /\ BytesOf(x, buf) \in 1 .. Width[entered[x].ch]
            /\ Width[entered[x].ch] \in 1 .. 3
            /\ entered[x].from + BytesOf(x, buf) <= Len(buf)
        BY Entered
      <4>3. ASSUME NEW k \in 1 .. BytesOf(x, buf)
            PROVE  buf'[entered[x].from + k] = <<entered[x].ch, k>>
        <5>1. entered[x].from + k \in 1 .. Len(buf)
          <6> DEFINE g == entered[x].from
                     b == BytesOf(x, buf)
          <6>1. g \in Nat /\ b \in Nat /\ k \in 1 .. b /\ g + b <= Len(buf)
            BY <4>2
          <6> HIDE DEF g, b
          <6>2. g + k \in 1 .. Len(buf)
            BY <1>1, <6>1
          <6> QED
            BY <6>2 DEF g
        <5>2. buf[entered[x].from + k] = <<entered[x].ch, k>>
          BY DEF Tiled
        <5> QED
          BY <2>3, <5>1, <5>2
      <4> QED
        BY <4>1, <4>2, <4>3, Zenon
    <3> QED
      BY <3>1, <3>2
  <2>10. Tiled'
    <3>1. /\ buf' = << >> <=> entered' = << >>
          /\ entered' # << >> => entered'[1].from = 0
      BY <1>1, <2>3 DEF Tiled
    <3>2. \A x, y \in 1 .. Len(entered') :
            x < y => entered'[x].from + Width[entered'[x].ch] <= entered'[y].from
      BY DEF Tiled
    <3> QED
      BY <2>9, <3>1, <3>2, Zenon DEF Tiled
  <2>11. Lacking'
    <3>1. Len(coming') = w - (n + 1) /\ \A k \in 1 .. Len(coming') : coming'[k] = <<Last.ch, n + 1 + k>>
      <4>1. Len(t) = w - (n + 1)
        BY <1>1, <1>2, <2>4
      <4>2. ASSUME NEW k \in 1 .. Len(t) PROVE t[k] = <<Last.ch, n + 1 + k>>
        <5>1. k + 1 \in 1 .. Len(coming) /\ n + (k + 1) = n + 1 + k
          BY <1>1, <1>2
        <5> QED
          BY <1>2, <2>4, <5>1
      <4> QED
        BY <2>1, <4>1, <4>2
    <3>2. coming' = << >> => n + 1 = w
      BY <1>1, <3>1, EmptySeq
    <3>3. nbrofbytes' = Len(buf') /\ Len(buf') <= Full
      BY <1>1, <1>4, <2>1, <2>3
    <3>4. Len(buf') # Full /\ (coming' = << >> \/ Len(buf') > Full) => n + 1 = w
      BY <1>1, <2>3, <3>2, <3>3
    <3>5. Width[Last.ch]' = w
      BY <2>7 DEF w
    <3> QED
      BY <2>3, <2>7, <3>1, <3>3, <3>4, <3>5, Zenon DEF Lacking
  <2> QED
    BY <2>6, <2>10, <2>11
<1> QED
  BY <1>1, <1>3, <1>4

\* Backspace takes the last character away, whole or not.
LEMMA CharacterErased ==
  ASSUME TypedTypes, Tiled, Lacking, typing, Backspace, typing' \in BOOLEAN
  PROVE  TypedTypes' /\ Tiled' /\ Lacking'
<1> DEFINE f == Last.from
           N == Len(entered)
<1>1. /\ coming = << >> /\ nbrofbytes > 0 /\ nbrofbytes' = Erased
      /\ buf' = SubSeq(buf, 1, nbrofbytes') /\ coming' = coming
      /\ entered' = IF entered = << >> THEN entered ELSE SubSeq(entered, 1, N - 1)
  BY DEF Backspace
<1>2. nbrofbytes = Len(buf) /\ buf # << >>
  BY <1>1, EmptySeq DEF Lacking, TypedTypes
<1>3. /\ Len(buf) \in Nat \ {0} /\ N \in Nat \ {0} /\ N \in 1 .. N /\ f \in Nat /\ f <= Len(buf)
      /\ nbrofbytes' = f /\ entered # << >> /\ f = entered[N].from
  <2>1. /\ Len(buf) \in Nat \ {0} /\ N \in Nat /\ N \in 1 .. N /\ f \in Nat
        /\ BytesOf(N, buf) \in 1 .. Width[Last.ch] /\ Width[Last.ch] \in 1 .. 3
        /\ f + BytesOf(N, buf) = Len(buf)
    BY <1>2, LastEntered
  <2>2. nbrofbytes' = f
    BY <1>1, <1>2, ErasedLast
  <2>3. entered # << >>
    BY <1>2 DEF Tiled
  <2>4. f <= Len(buf)
    BY <2>1
  <2> QED
    BY <2>1, <2>2, <2>3, <2>4 DEF Last
<1> HIDE DEF f, N
<1>4. /\ buf' \in Seq(Bytes) /\ Len(buf') = f /\ \A x \in 1 .. f : buf'[x] = buf[x]
  <2>1. buf' = SubSeq(buf, 1, f) /\ \A x \in 1 .. f : buf[x] \in Bytes
    BY <1>1, <1>3, ElementOfSeq DEF TypedTypes
  <2> QED
    BY <1>3, <2>1, SubSeqProperties
<1>5. /\ entered' \in Seq(Entries) /\ Len(entered') = N - 1
      /\ \A x \in 1 .. N - 1 : entered'[x] = entered[x]
  <2>1. entered' = SubSeq(entered, 1, N - 1) /\ \A x \in 1 .. N - 1 : entered[x] \in Entries
    BY <1>1, <1>3, ElementOfSeq DEF TypedTypes, N
  <2>2. N - 1 \in Int /\ (1 <= N - 1 => N - 1 - 1 + 1 = N - 1) /\ (~(1 <= N - 1) => N - 1 = 0)
    BY <1>3
  <2> QED
    BY <2>1, <2>2, SubSeqProperties
<1>6. TypedTypes'
  BY <1>1, <1>3, <1>4, <1>5 DEF TypedTypes
<1>7. ASSUME NEW x \in 1 .. N - 1
      PROVE  /\ x \in 1 .. N /\ x # N
             /\ BytesOf(x, buf)' = BytesOf(x, buf) /\ BytesOf(x, buf) = Width[entered[x].ch]
             /\ entered[x].from \in Nat /\ Width[entered[x].ch] \in 1 .. 3
             /\ entered[x].from + Width[entered[x].ch] <= f
  <2>1. x \in 1 .. N /\ x # N /\ x < N /\ N = Len(entered)
    BY <1>3 DEF N
  <2>2. BytesOf(x, buf) = Width[entered[x].ch]
    BY <2>1 DEF Tiled
  <2>3. entered[x].from \in Nat /\ Width[entered[x].ch] \in 1 .. 3
    BY <2>1, Entered
  <2>4. entered[x].from + Width[entered[x].ch] <= f
    BY <1>3, <2>1 DEF Tiled
  <2>5. BytesOf(x, buf) = entered[x + 1].from - entered[x].from
    BY <2>1 DEF BytesOf
  <2>6. BytesOf(x, buf)' = entered[x + 1].from - entered[x].from
    <3>1. CASE x = N - 1
      <4>1. BytesOf(x, buf)' = f - entered[x].from
        BY <1>4, <1>5, <3>1 DEF BytesOf
      <4>2. x + 1 = N
        BY <1>3, <3>1
      <4> QED
        BY <1>3, <4>1, <4>2
    <3>2. CASE x # N - 1
      <4>1. x + 1 \in 1 .. N - 1
        BY <1>3, <3>2
      <4> QED
        BY <1>5, <3>2, <4>1 DEF BytesOf
    <3> QED
      BY <3>1, <3>2
  <2> QED
    BY <2>1, <2>2, <2>3, <2>4, <2>5, <2>6
<1>8. /\ buf' = << >> <=> N = 1
      /\ entered' = << >> <=> N = 1
      /\ entered' # << >> => entered'[1].from = 0
  <2>1. entered' = << >> <=> N = 1
    BY <1>3, <1>5, EmptySeq
  <2>2. entered[1].from = 0
    BY <1>3 DEF Tiled
  <2>3. CASE N = 1
    <3>1. f = 0
      BY <1>3, <2>2, <2>3
    <3> QED
      BY <1>4, <2>1, <2>3, <3>1, EmptySeq
  <2>4. CASE N # 1
    <3>1. 1 \in 1 .. N - 1
      BY <1>3, <2>4
    <3>2. f > 0
      <4>1. /\ entered[1].from \in Nat /\ Width[entered[1].ch] \in 1 .. 3
            /\ entered[1].from + Width[entered[1].ch] <= f
        BY <1>7, <3>1
      <4> QED
        BY <1>3, <4>1
    <3>3. buf' # << >> /\ entered'[1] = entered[1]
      BY <1>4, <1>5, <3>1, <3>2, EmptySeq
    <3> QED
      BY <2>1, <2>2, <2>4, <3>3
  <2> QED
    BY <2>3, <2>4
<1>9. ASSUME NEW x \in 1 .. N - 1
      PROVE  /\ BytesOf(x, buf)' = Width[entered'[x].ch]
             /\ BytesOf(x, buf)' \in 1 .. Width[entered'[x].ch]
             /\ \A k \in 1 .. BytesOf(x, buf)' : buf'[entered'[x].from + k] = <<entered'[x].ch, k>>
  <2>1. ASSUME NEW k \in 1 .. BytesOf(x, buf)
        PROVE  buf'[entered[x].from + k] = <<entered[x].ch, k>>
    <3>1. entered[x].from + k \in 1 .. f
      <4> DEFINE g == entered[x].from
                 w == Width[entered[x].ch]
      <4>1. g \in Nat /\ w \in 1 .. 3 /\ g + w <= f /\ k \in 1 .. w
        BY <1>7
      <4> HIDE DEF g, w
      <4>2. g + k \in 1 .. f
        BY <1>3, <4>1
      <4> QED
        BY <4>2 DEF g
    <3>2. buf[entered[x].from + k] = <<entered[x].ch, k>>
      BY <1>7 DEF Tiled, N
    <3> QED
      BY <1>4, <3>1, <3>2
  <2>2. /\ entered'[x] = entered[x] /\ BytesOf(x, buf)' = BytesOf(x, buf)
        /\ BytesOf(x, buf) = Width[entered[x].ch] /\ Width[entered[x].ch] \in 1 .. 3
    BY <1>5, <1>7
  <2>3. BytesOf(x, buf) \in 1 .. Width[entered[x].ch]
    BY <2>2
  <2> QED
    BY <2>1, <2>2, <2>3, Zenon
<1>10. Tiled'
  <2>1. /\ buf' = << >> <=> entered' = << >>
        /\ entered' # << >> => entered'[1].from = 0
    BY <1>8
  <2>2. \A x \in 1 .. Len(entered') :
          /\ BytesOf(x, buf)' \in 1 .. Width[entered'[x].ch]
          /\ x # Len(entered') => BytesOf(x, buf)' = Width[entered'[x].ch]
          /\ \A k \in 1 .. BytesOf(x, buf)' : buf'[entered'[x].from + k] = <<entered'[x].ch, k>>
    BY <1>5, <1>9, Zenon
  <2>3. ASSUME NEW x \in 1 .. N - 1, NEW y \in 1 .. N - 1, x < y
        PROVE  entered'[x].from + Width[entered'[x].ch] <= entered'[y].from
    BY <1>5, <1>7, <2>3 DEF Tiled, N
  <2> QED
    BY <1>5, <2>1, <2>2, <2>3, Zenon DEF Tiled
<1>11. Lacking'
  <2>1. ASSUME buf' # << >> PROVE BytesOf(Len(entered), buf)' = Width[Last.ch]'
    <3>1. N - 1 \in 1 .. N - 1
      BY <1>3, <1>8, <2>1
    <3> QED
      BY <1>5, <1>9, <3>1 DEF Last
  <2> QED
    BY <1>1, <1>3, <1>4, <2>1 DEF Lacking
<1> QED
  BY <1>6, <1>10, <1>11

\* A call frees the line that was returned before.
LEMMA LineFreed ==
  ASSUME TypedTypes, Tiled, Lacking, TypingStarts, typing' \in BOOLEAN
  PROVE  TypedTypes' /\ Tiled' /\ Lacking'
<1>1. CASE nbrofbytes = 0
  <2>1. /\ buf' = << >> /\ entered' = << >> /\ nbrofbytes' = 0 /\ coming' = coming
    BY <1>1 DEF TypingStarts
  <2>2. coming = << >>
    BY <1>1, EmptySeq DEF TypedTypes, Lacking
  <2>3. Len(buf') = 0 /\ Len(entered') = 0
    BY <2>1, EmptySeq
  <2>4. TypedTypes' /\ Lacking'
    BY <2>1, <2>2, <2>3, EmptySeq DEF TypedTypes, Lacking
  <2>5. Tiled'
    BY <2>1, <2>3 DEF Tiled
  <2> QED
    BY <2>4, <2>5
<1>2. CASE nbrofbytes # 0
  <2>1. UNCHANGED <<buf, entered, nbrofbytes, coming>> /\ nbrofbytes = Len(buf)
    BY <1>2 DEF TypingStarts, TypedTypes
  <2>2. TypedTypes' /\ Tiled' /\ Lacking'
    BY <2>1 DEF TypedTypes, Tiled, Lacking, BytesOf, Last
  <2> QED
    BY <2>2
<1> QED
  BY <1>1, <1>2

\* The bytes of a character, and what is left of them after the first or the last.
LEMMA BytesOfCharacter ==
  ASSUME NEW ch \in Chars, NEW m \in {1, Width[ch]}
  PROVE  /\ Piece(SubSeq(Utf8(ch), 1, m), ch, 0, m)
         /\ Piece(SubSeq(Utf8(ch), m + 1, Width[ch]), ch, m, Width[ch] - m)
<1> DEFINE w == Width[ch]
           u == Utf8(ch)
<1>1. w \in 1 .. 3 /\ m \in 1 .. w
  OBVIOUS
<1>2. \A k \in 1 .. w : u[k] = <<ch, k>> /\ u[k] \in Bytes
  BY DEF Utf8, Bytes
<1> HIDE DEF w, u
<1>3. /\ SubSeq(u, 1, m) \in Seq(Bytes) /\ Len(SubSeq(u, 1, m)) = m
      /\ \A k \in 1 .. m : SubSeq(u, 1, m)[k] = <<ch, k>>
  <2>1. /\ SubSeq(u, 1, m) \in Seq(Bytes)
        /\ Len(SubSeq(u, 1, m)) = IF 1 <= m THEN m - 1 + 1 ELSE 0
        /\ \A k \in 1 .. m - 1 + 1 : SubSeq(u, 1, m)[k] = u[1 + k - 1]
    BY <1>1, <1>2, SubSeqProperties
  <2> QED
    BY <1>1, <1>2, <2>1
<1>4. /\ SubSeq(u, m + 1, w) \in Seq(Bytes) /\ Len(SubSeq(u, m + 1, w)) = w - m
      /\ \A k \in 1 .. w - m : SubSeq(u, m + 1, w)[k] = <<ch, m + k>>
  <2>1. /\ SubSeq(u, m + 1, w) \in Seq(Bytes)
        /\ Len(SubSeq(u, m + 1, w)) = IF m + 1 <= w THEN w - (m + 1) + 1 ELSE 0
        /\ \A k \in 1 .. w - (m + 1) + 1 : SubSeq(u, m + 1, w)[k] = u[m + 1 + k - 1]
    <3>1. m + 1 \in Int /\ w \in Int /\ \A k \in m + 1 .. w : u[k] \in Bytes
      BY <1>1, <1>2
    <3> QED
      BY <3>1, SubSeqProperties
  <2>2. ASSUME NEW k \in 1 .. w - m PROVE SubSeq(u, m + 1, w)[k] = <<ch, m + k>>
    <3>1. m + 1 + k - 1 = m + k /\ m + k \in 1 .. w /\ k \in 1 .. w - (m + 1) + 1
      BY <1>1
    <3> QED
      BY <1>2, <2>1, <3>1
  <2>3. Len(SubSeq(u, m + 1, w)) = w - m
    BY <1>1, <2>1
  <2> QED
    BY <2>1, <2>2, <2>3
<1>5. Piece(SubSeq(u, 1, m), ch, 0, m)
  <2>1. \A k \in 1 .. m : 0 + k = k
    BY <1>1
  <2> QED
    BY <1>3, <2>1 DEF Piece
<1>6. Piece(SubSeq(u, m + 1, w), ch, m, w - m)
  BY <1>4 DEF Piece
<1> QED
  BY <1>5, <1>6 DEF u, w

\* The first key of a character.
LEMMA TypedCharacter ==
  ASSUME TypedTypes, Tiled, Lacking, typing, Character, typing' \in BOOLEAN
  PROVE  TypedTypes' /\ Tiled' /\ Lacking'
<1>1. coming = << >> /\ nbrofbytes = Len(buf) /\ Len(buf) \in Nat
  BY LenProperties DEF Character, Lacking, TypedTypes
<1>2. PICK ch \in Chars :
        LET bytes == IF transliterating = "NATIVE_UTF8" THEN SubSeq(Utf8(ch), 1, 1) ELSE Utf8(ch)
        IN  /\ Put(bytes)
            /\ coming' = SubSeq(Utf8(ch), Len(bytes) + 1, Width[ch])
            /\ entered' = IF nbrofbytes >= Full THEN entered
                          ELSE Append(entered, [ch |-> ch, from |-> nbrofbytes])
  BY DEF Character
<1>3. SubSeq(Utf8(ch), 1, Width[ch]) = Utf8(ch)
  <2>1. Utf8(ch) \in Seq(Bytes) /\ Len(Utf8(ch)) = Width[ch]
    <3>1. Width[ch] \in Nat /\ \A k \in 1 .. Width[ch] : <<ch, k>> \in Bytes
      BY DEF Bytes
    <3> QED
      BY <3>1 DEF Utf8
  <2> QED
    BY <2>1, SubSeqFull
<1>4. PICK m \in {1, Width[ch]} :
        /\ Put(SubSeq(Utf8(ch), 1, m))
        /\ coming' = SubSeq(Utf8(ch), Len(SubSeq(Utf8(ch), 1, m)) + 1, Width[ch])
  BY <1>2, <1>3, Zenon
<1> DEFINE bytes == SubSeq(Utf8(ch), 1, m)
           rest  == SubSeq(Utf8(ch), m + 1, Width[ch])
<1>5. Piece(bytes, ch, 0, m) /\ Piece(rest, ch, m, Width[ch] - m) /\ Len(bytes) = m
  <2>1. Piece(bytes, ch, 0, m) /\ Piece(rest, ch, m, Width[ch] - m)
    BY BytesOfCharacter
  <2> QED
    BY <2>1 DEF Piece
<1>6. Put(bytes) /\ coming' = rest
  BY <1>4, <1>5, Zenon
<1> HIDE DEF bytes, rest
<1>7. CASE Len(buf) < Full
  <2>1. ~(nbrofbytes >= Full)
    BY <1>1, <1>7
  <2>2. Line = buf
    BY <1>1, SubSeqFull DEF Line, TypedTypes
  <2>3. buf' = buf \o bytes /\ nbrofbytes' = nbrofbytes + Len(bytes)
    BY <1>6, <2>1, <2>2 DEF Put
  <2>4. entered' = Append(entered, [ch |-> ch, from |-> nbrofbytes])
    BY <1>2, <2>1
  <2> QED
    BY <1>1, <1>5, <1>6, <1>7, <2>3, <2>4, CharacterEntered
<1>8. CASE ~(Len(buf) < Full)
  <2>1. nbrofbytes >= Full /\ buf # << >>
    BY <1>1, <1>8, EmptySeq DEF TypedTypes
  <2>2. UNCHANGED <<buf, nbrofbytes, entered>>
    BY <1>2, <1>6, <2>1 DEF Put
  <2>3. TypedTypes'
    BY <1>5, <1>6, <2>2 DEF TypedTypes, Piece
  <2>4. Tiled'
    BY <2>2 DEF Tiled, BytesOf
  <2>5. Lacking'
    <3>1. /\ BytesOf(Len(entered), buf)' = BytesOf(Len(entered), buf) /\ Last' = Last
      BY <2>2 DEF BytesOf, Last
    <3> QED
      BY <1>1, <1>8, <2>1, <2>2, <3>1 DEF Lacking
  <2> QED
    BY <2>3, <2>4, <2>5
<1> QED
  BY <1>7, <1>8

\* Nothing is typed at first.
LEMMA InitTyped == Init => TypedInv
<1> SUFFICES ASSUME Init PROVE TypedInv
  OBVIOUS
<1>1. /\ buf = << >> /\ nbrofbytes = 0 /\ coming = << >> /\ entered = << >> /\ typing = FALSE
      /\ outgoingmsg = NULL
  BY DEF Init, TypingInit, IrcInit
<1>2. Len(buf) = 0 /\ Len(entered) = 0
  BY <1>1, EmptySeq
<1>3. TypedTypes
  BY <1>1, <1>2, EmptySeq DEF TypedTypes
<1>4. Tiled
  BY <1>1, <1>2 DEF Tiled
<1>5. Lacking
  BY <1>1, <1>2 DEF Lacking
<1> QED
  BY <1>1, <1>3, <1>4, <1>5 DEF TypedInv

\* The keyboard is read while nothing is pending, and a line is returned when no
\* byte of it is to come.
LEMMA TypedStep == ASSUME Accounted, TypedInv, [Next]_vars PROVE TypedInv'
<1>1. /\ TypedTypes /\ Tiled /\ Lacking /\ (outgoingmsg = Typed => coming = << >>)
      /\ typing => outgoingmsg = NULL
  BY DEF TypedInv, Accounted
<1>2. NULL # Typed
  BY DEF NULL, Typed
<1>3. CASE Call
  <2>1. TypingStarts /\ typing' = TRUE /\ outgoingmsg' = outgoingmsg /\ outgoingmsg = NULL
    BY <1>3 DEF Call, Listening, ircvars
  <2> QED
    BY <1>1, <1>2, <2>1, LineFreed DEF TypedInv
<1>4. CASE Key
  <2>1. /\ typing /\ typing' = typing /\ outgoingmsg' = outgoingmsg
        /\ Character \/ NextByte \/ Backspace
    BY <1>4 DEF Key, ircvars
  <2>2. TypedTypes' /\ Tiled' /\ Lacking'
    <3>1. typing' \in BOOLEAN
      BY <2>1
    <3>2. CASE Character
      BY <1>1, <2>1, <3>1, <3>2, TypedCharacter
    <3>3. CASE NextByte
      BY <1>1, <3>1, <3>3, ByteEntered DEF NextByte
    <3>4. CASE Backspace
      BY <1>1, <2>1, <3>1, <3>4, CharacterErased
    <3> QED
      BY <2>1, <3>2, <3>3, <3>4
  <2> QED
    BY <1>1, <1>2, <2>1, <2>2 DEF TypedInv
<1>5. CASE ReturnLine
  <2>1. /\ coming = << >> /\ nbrofbytes' = 0 /\ typing' = FALSE
        /\ UNCHANGED <<buf, coming, entered>>
    BY <1>5 DEF ReturnLine, Enter
  <2>2. TypedTypes'
    BY <1>1, <2>1 DEF TypedTypes
  <2>3. Tiled'
    BY <1>1, <2>1 DEF Tiled, BytesOf
  <2>4. Lacking'
    BY <1>1, <2>1 DEF Lacking, BytesOf, Last
  <2> QED
    BY <2>1, <2>2, <2>3, <2>4 DEF TypedInv
<1>6. CASE /\ UNCHANGED typedvars /\ typing' \in {FALSE, typing}
           /\ outgoingmsg' \in {outgoingmsg, NULL, ret}
  <2>1. UNCHANGED <<buf, coming, entered, nbrofbytes>> /\ (outgoingmsg' = Typed => coming = << >>)
    BY <1>1, <1>2, <1>6 DEF typedvars, Accounted, NULL, Typed
  <2>2. TypedTypes'
    BY <1>1, <1>6, <2>1 DEF TypedTypes
  <2>3. Tiled'
    BY <1>1, <2>1 DEF Tiled, BytesOf
  <2>4. Lacking'
    <3>1. typing' => typing
      BY <1>6, Zenon
    <3>2. /\ BytesOf(Len(entered), buf)' = BytesOf(Len(entered), buf) /\ Last' = Last
          /\ nbrofbytes' = nbrofbytes /\ buf' = buf /\ coming' = coming
      BY <2>1 DEF BytesOf, Last
    <3> QED
      BY <1>1, <3>1, <3>2, Zenon DEF Lacking
  <2> QED
    BY <2>1, <2>2, <2>3, <2>4 DEF TypedInv
<1>7. ASSUME Irc \/ ReturnNothing \/ (ClientNext /\ UNCHANGED <<typing, typedvars>>) \/ UNCHANGED vars
      PROVE  /\ UNCHANGED typedvars /\ typing' \in {FALSE, typing}
             /\ outgoingmsg' \in {outgoingmsg, NULL, ret}
  BY <1>7 DEF Irc, ReturnNothing, ClientNext, Write, DriverNext, Accept, Closed, Received, PutByte,
              EndOfLine, Returned, Settled, vars, ircvars
<1> QED
  BY <1>3, <1>4, <1>5, <1>6, <1>7 DEF Next

\* A line that was returned is the characters that were entered.
LEMMA TypedIsWhole == ASSUME TypedInv, outgoingmsg = Typed PROVE IsTyped(buf)
<1>1. TypedTypes /\ Tiled /\ Lacking /\ coming = << >>
  BY DEF TypedInv
<1>2. buf # << >> => entered # << >> /\ entered[1].from = 0
  BY <1>1 DEF Tiled
<1>3. ASSUME NEW x \in 1 .. Len(entered)
      PROVE  /\ \/ BytesOf(x, buf) = Width[entered[x].ch]
                \/ /\ x = Len(entered) /\ Len(buf) = Full
                   /\ BytesOf(x, buf) \in 1 .. Width[entered[x].ch]
             /\ \A k \in 1 .. BytesOf(x, buf) : buf[entered[x].from + k] = <<entered[x].ch, k>>
  <2>1. buf # << >>
    <3>1. entered # << >>
      BY <1>1, EmptySeq DEF TypedTypes
    <3> QED
      BY <1>1, <3>1 DEF Tiled
  <2> QED
    BY <1>1, <2>1 DEF Tiled, Lacking, Last
<1>4. DOMAIN entered = 1 .. Len(entered)
  BY <1>1, LenProperties DEF TypedTypes
<1> QED
  BY <1>2, <1>3, <1>4, Zenon DEF IsTyped

\* When no recv() brings a line and the beginning of the next, and for any sizes,
\* lines, clients and keys: a message is, for as long as main() keeps the pointer, a
\* text that was said on IRC, or the characters that were typed and not erased
\* (main.c:690, 736-740; ircserver.c:602-614; gotcurses.c:353-395).
THEOREM PostedAlwaysSaid == ASSUME MayTrail = FALSE PROVE Spec => []PostedIsSaid
<1> DEFINE Inv == HeldInv /\ TypedInv
<1>1. Init => Inv
  <2>1. Init => Untrailed /\ Held
    BY DEF Init, IrcInit, Untrailed, Held, NULL
  <2> QED
    BY <2>1, InitLines, InitAccounts, InitTyped DEF HeldInv
<1>2. Inv /\ [Next]_vars => Inv'
  BY HeldStep, TypedStep DEF HeldInv
<1>3. Inv => PostedIsSaid
  <2> SUFFICES ASSUME Inv PROVE PostedIsSaid
    OBVIOUS
  <2>1. outgoingmsg = NULL \/ outgoingmsg = Typed \/ (outgoingmsg = Prefix /\ Kept)
    BY DEF HeldInv, Accounted, Held, Typed, NULL
  <2>2. NULL # Typed /\ Prefix # NULL /\ Prefix # Typed
    BY DEF NULL, Typed
  <2>3. CASE outgoingmsg = Typed
    BY <2>2, <2>3, TypedIsWhole DEF PostedIsSaid
  <2>4. CASE outgoingmsg = Prefix /\ Kept
    BY <2>2, <2>4 DEF PostedIsSaid, Kept
  <2>5. CASE outgoingmsg = NULL
    BY <2>2, <2>5 DEF PostedIsSaid
  <2> QED
    BY <2>1, <2>3, <2>4, <2>5
<1> QED
  BY <1>1, <1>2, <1>3, PTL DEF Spec
=============================================================================
