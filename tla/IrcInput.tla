------------------------------ MODULE IrcInput ------------------------------
(***************************************************************************)
(* How what is said on IRC becomes the message main() posts.  irc_driver() *)
(* puts lines together from what each recv() brings, in one static buffer; *)
(* parse_buffer() returns a pointer into it, which main() keeps until the  *)
(* message is settled.  Bytes are abstracted to cells, numbered within the *)
(* line the client wrote; a line ends with its cell 0.  The other commands *)
(* and the timer of IrcServer are reduced to one line, JOIN.  Module       *)
(* Inputs adds the keyboard.                                               *)
(***************************************************************************)
EXTENDS Integers, Sequences

CONSTANTS
  Prefix,        \* cells of "PRIVMSG #channel :", before the text
  MaxText,       \* bound: cells of a text
  Size,          \* of linebuffer (2000)
  MaxInput,      \* cells one recv() may bring (sizeof inputbuf, 500)
  MaxLines,      \* bound: lines written by the clients
  MayTrail       \* whether a whole line and the start of the next may come
                 \*   in one recv()

\* Lines are shorter than the buffer, as those of the IRC protocol are.
ASSUME InputAssumption ==
  /\ Prefix \in Nat \ {0} /\ MaxText \in Nat \ {0}
  /\ Size \in Nat /\ Prefix + MaxText < Size
  /\ MaxInput \in Nat \ {0} /\ MaxLines \in Nat
  /\ MayTrail \in BOOLEAN

NULL  == -1
Typed == -2                      \* the keyboard's buffer
NUL  == <<0, 0>>                 \* the byte that ends a C string
Ids  == 1 .. MaxLines
Cell == Ids \X (0 .. Prefix + MaxText)

VARIABLES           \* the clients and the network
  connected,        \* cfd: whether there is a client
  lines,            \* what the clients wrote so far
  chan              \* cells written on this connection and not received

VARIABLES           \* irc_driver() and main()
  inchannel,        \* clientstate = INCHANNEL
  input,            \* what recv() brought and is not looked at
  turn,             \* "main", or "driver" while irc_driver() runs
  linebuffer, o, ret,
  last_thing_i_said,
  outgoingmsg       \* a pointer: an index of linebuffer, or NULL

VARIABLES           \* history
  burst,            \* texts read in this call of irc_driver()
  overtaken,        \* texts followed by another line in the same recv()
  heard, settled,   \* texts read from a client in the channel, and sent
  garbled           \* whether parse_buffer() was given anything but a line

wire    == <<connected, lines, chan>>
history == <<burst, overtaken, heard, settled, garbled>>
ircvars == <<wire, inchannel, input, turn, linebuffer, o, ret,
             last_thing_i_said, outgoingmsg, history>>

IrcInit ==
  /\ connected = FALSE /\ lines = << >> /\ chan = << >>
  /\ inchannel = FALSE /\ input = << >> /\ turn = "main"
  /\ linebuffer = [i \in 0 .. Size - 1 |-> NUL] /\ o = 0 /\ ret = NULL
  /\ last_thing_i_said = << >> /\ outgoingmsg = NULL
  /\ burst = {} /\ overtaken = {} /\ heard = {} /\ settled = {}
  /\ garbled = FALSE
-----------------------------------------------------------------------------
\* The cells of line l, and those of its text.
LineOf(l) == [i \in 1 .. lines[l].len |-> <<l, i>>]
TextOf(l) == SubSeq(LineOf(l), Prefix + 1, lines[l].len)
Texts     == {l \in DOMAIN lines : lines[l].kind = "PRIVMSG"}

\* The C string at index p of the buffer buf.
StringAt(buf, p) ==
  LET end == CHOOSE e \in p .. Size :
               /\ e = Size \/ buf[e] = NUL
               /\ \A i \in p .. e - 1 : buf[i] # NUL
  IN [i \in 1 .. end - p |-> buf[p + i - 1]]

\* The client writes a line.
Write(kind, len) ==
  /\ connected /\ Len(lines) < MaxLines
  /\ lines' = Append(lines, [kind |-> kind, len |-> len])
  /\ LET l == Len(lines')
     IN chan' = chan \o Append([i \in 1 .. len |-> <<l, i>>], <<l, 0>>)
  /\ UNCHANGED <<connected, inchannel, input, turn, linebuffer, o, ret,
                 last_thing_i_said, outgoingmsg, history>>
-----------------------------------------------------------------------------
(* A call of irc_driver(), which main() makes while nothing is pending.    *)

\* Mutant: the client is listened to whatever is pending.
ListeningBug == turn = "main"

Listening == turn = "main" /\ outgoingmsg = NULL

\* Mutant: the start of a line of the previous client is kept.
LineStartBug == o

\* Where the first line of a new client is put.
LineStart == 0

\* A new client takes the place of the one there may be.
Accept ==
  /\ Listening
  /\ connected' = TRUE /\ chan' = << >>
  /\ inchannel' = FALSE
  /\ o' = LineStart
  /\ UNCHANGED <<lines, input, turn, linebuffer, ret, last_thing_i_said,
                 outgoingmsg, history>>

\* recv() returns 0: the client closed its end.
Closed ==
  /\ Listening /\ connected /\ chan = << >>
  /\ connected' = FALSE /\ inchannel' = FALSE
  /\ UNCHANGED <<lines, chan, input, turn, linebuffer, o, ret,
                 last_thing_i_said, outgoingmsg, history>>

HasEnd(cells) == \E i \in 1 .. Len(cells) : cells[i][2] = 0

\* recv() brings the n first cells.
Received(n) ==
  /\ Listening /\ connected
  /\ n <= Len(chan)
  /\ MayTrail \/ chan[n][2] = 0 \/ ~HasEnd(SubSeq(chan, 1, n))
  /\ input' = SubSeq(chan, 1, n) /\ chan' = SubSeq(chan, n + 1, Len(chan))
  /\ turn' = "driver" /\ ret' = NULL /\ burst' = {}
  /\ UNCHANGED <<connected, lines, inchannel, linebuffer, o,
                 last_thing_i_said, outgoingmsg, overtaken, heard, settled,
                 garbled>>

\* A byte is put in the buffer while there is room.
PutByte ==
  /\ turn = "driver" /\ input # << >> /\ Head(input)[2] # 0
  /\ IF o < Size
       THEN linebuffer' = [linebuffer EXCEPT ![o] = Head(input)] /\ o' = o + 1
       ELSE UNCHANGED <<linebuffer, o>>
  /\ input' = Tail(input)
  /\ UNCHANGED <<wire, inchannel, turn, ret, last_thing_i_said, outgoingmsg, history>>

\* parse_buffer(): the text of a PRIVMSG of a client in the channel.
IsSaid(string) ==
  /\ inchannel /\ Len(string) > Prefix
  /\ lines[string[1][1]].kind = "PRIVMSG"
  /\ \A i \in 1 .. Prefix : string[i] = <<string[1][1], i>>

ParseBuffer(string) == IF IsSaid(string) THEN Prefix ELSE NULL

IsJoin(string) == Len(string) = 1 /\ lines[string[1][1]].kind = "JOIN"

\* Where the next line is put.
NextLine == 0

\* COPY(irc.last_thing_i_said, ret)
Remembered(string) == string

\* The end of a line: it is parsed, and its text, or NULL, is what the call
\* returns unless another line ends after it.
EndOfLine ==
  LET buf    == [linebuffer EXCEPT ![o] = NUL]
      string == StringAt(buf, 0)
      l      == Head(input)[1]
  IN  /\ turn = "driver" /\ input # << >> /\ Head(input)[2] = 0
      /\ linebuffer' = buf /\ o' = NextLine
      /\ ret' = ParseBuffer(string)
      /\ last_thing_i_said' = IF ret' = NULL THEN last_thing_i_said
                              ELSE Remembered(StringAt(buf, ret'))
      /\ inchannel' = (inchannel \/ IsJoin(string))
      /\ input' = Tail(input)
      /\ overtaken' = overtaken \cup burst
      /\ burst' = IF ret' = NULL THEN {} ELSE {l}
      /\ heard' = heard \cup burst'
      /\ garbled' = (garbled \/ string # LineOf(l))
      /\ UNCHANGED <<wire, turn, outgoingmsg, settled>>

\* The call returns, and main() has a message or not.
Returned ==
  /\ turn = "driver" /\ input = << >>
  /\ outgoingmsg' = ret
  /\ turn' = "main"
  /\ UNCHANGED <<wire, inchannel, input, linebuffer, o, ret, last_thing_i_said, history>>
-----------------------------------------------------------------------------
\* main() posts what the pointer points to, and is done with it.
Settled ==
  /\ turn = "main" /\ outgoingmsg # NULL
  /\ outgoingmsg' = NULL
  /\ settled' = settled \cup burst
  /\ UNCHANGED <<wire, inchannel, input, turn, linebuffer, o, ret,
                 last_thing_i_said, burst, overtaken, heard, garbled>>

ClientNext == Write("JOIN", 1) \/ \E n \in 1 .. MaxText : Write("PRIVMSG", Prefix + n)

DriverNext ==
  \/ Accept \/ Closed \/ \E n \in 1 .. MaxInput : Received(n)
  \/ PutByte \/ EndOfLine \/ Returned
-----------------------------------------------------------------------------
\* However the network cuts the clients' bytes, and whichever client comes in
\* place of another, parse_buffer() only gets lines as they were written
\* (ircserver.c:588, 602-614).
LinesAreWhole == ~garbled

\* A text heard in the channel is sent or still pending, unless another line
\* came after it in the same recv() (ircserver.c:606, main.c:740).
LostOnlyInBurst ==
  turn = "main" =>
    \A l \in heard \ (settled \cup overtaken) : outgoingmsg # NULL /\ l \in burst
=============================================================================
