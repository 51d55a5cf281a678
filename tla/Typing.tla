------------------------------- MODULE Typing -------------------------------
(***************************************************************************)
(* gotcurses.c: the line being typed.  display_driver() reads the keys     *)
(* there are into a buffer of bytes, and returns that buffer at the end of *)
(* the line; the next call frees it.  A terminal in UTF-8 sends the bytes  *)
(* of a character one by one, as keys; others (Latin-1, DOS) send one key, *)
(* of which the program makes those bytes.                                 *)
(***************************************************************************)
EXTENDS Integers, Sequences

CONSTANTS
  Chars,            \* characters on the keyboard
  Width,            \* the bytes of each in UTF-8
  Full              \* bytes after which keys are ignored: 1000 in the code

ASSUME TypingAssumption == Width \in [Chars -> 1 .. 3] /\ Full \in Nat \ {0}

VARIABLES
  transliterating,  \* NATIVE_UTF8, or ISO8859_1 for the others also
  allocated,        \* whether there is a buffer
  buf, nbrofbytes,  \* its bytes, up to the end of the line that was returned;
                    \* those of the line being typed
  coming            \* bytes of the last character that are still to come

VARIABLE entered    \* history: the characters of the line, and how many bytes of
                    \* it came before each

typedvars == <<transliterating, allocated, buf, nbrofbytes, coming, entered>>

TypingInit ==
  /\ transliterating \in {"NATIVE_UTF8", "ISO8859_1"}
  /\ allocated = FALSE /\ buf = << >> /\ nbrofbytes = 0
  /\ coming = << >> /\ entered = << >>

\* utf8_character_from_ucs_codepoint(): a byte is known by its character and its
\* place in it.  Those of a character of several bytes have their high bit set,
\* and only the first has the next one too.
Utf8(ch)  == [k \in 1 .. Width[ch] |-> <<ch, k>>]
IsHigh(b) == Width[b[1]] > 1
IsLead(b) == IsHigh(b) /\ b[2] = 1

Line == SubSeq(buf, 1, nbrofbytes)

\* A call of display_driver() starts: a line that was returned is freed.
TypingStarts ==
  /\ IF nbrofbytes = 0 THEN allocated' = FALSE /\ buf' = << >> /\ entered' = << >>
                       ELSE UNCHANGED <<allocated, buf, entered>>
  /\ UNCHANGED <<transliterating, nbrofbytes, coming>>

\* The bytes of a key are put in the buffer, unless it is full.
Put(bytes) ==
  /\ allocated' = TRUE
  /\ IF nbrofbytes >= Full THEN UNCHANGED <<buf, nbrofbytes>>
     ELSE buf' = Line \o bytes /\ nbrofbytes' = nbrofbytes + Len(bytes)

Character ==
  /\ coming = << >>
  /\ \E ch \in Chars :
       LET bytes == IF transliterating = "NATIVE_UTF8" THEN SubSeq(Utf8(ch), 1, 1) ELSE Utf8(ch)
       IN  /\ Put(bytes)
           /\ coming' = SubSeq(Utf8(ch), Len(bytes) + 1, Width[ch])
           /\ entered' = IF nbrofbytes >= Full THEN entered
                          ELSE Append(entered, [ch |-> ch, from |-> nbrofbytes])
  /\ UNCHANGED transliterating

NextByte ==
  /\ coming # << >>
  /\ Put(<<Head(coming)>>) /\ coming' = Tail(coming)
  /\ UNCHANGED <<transliterating, entered>>

\* Mutant: a character is taken for one byte.
ErasedBug == nbrofbytes - 1

\* What backspace leaves: the last character goes with all its bytes.
Erased ==
  IF ~IsHigh(buf[nbrofbytes]) THEN nbrofbytes - 1
  ELSE CHOOSE x \in 0 .. nbrofbytes - 1 :
         /\ x = 0 \/ IsLead(buf[x + 1])
         /\ \A y \in x + 1 .. nbrofbytes - 1 : ~IsLead(buf[y + 1])

Backspace ==
  /\ coming = << >> /\ allocated /\ nbrofbytes > 0
  /\ nbrofbytes' = Erased
  /\ allocated' = (nbrofbytes' > 0)
  /\ buf' = SubSeq(buf, 1, nbrofbytes')
  /\ entered' = IF entered = << >> THEN entered ELSE SubSeq(entered, 1, Len(entered) - 1)
  /\ UNCHANGED <<transliterating, coming>>

\* The line ends; its bytes stay in the buffer.
Enter ==
  /\ coming = << >> /\ allocated
  /\ nbrofbytes' = 0
  /\ UNCHANGED <<transliterating, allocated, buf, coming, entered>>
=============================================================================
