-------------------------------- MODULE Ini --------------------------------
(***************************************************************************)
(* CUtils/ini.c: the names and values of a file, read by pieces with       *)
(* fgets().  A file is a sequence of symbols.  The filter of its caller,   *)
(* parser.c, is part of the module.                                        *)
(***************************************************************************)
EXTENDS Integers, FiniteSets, SequencesExt

CONSTANTS
  IniFiles,         \* files of rules
  Chunk             \* 79 in the code: what fgets() reads at most

ASSUME IniAssumption == Chunk \in Nat \ {0} /\ IniFiles \subseteq Seq(STRING)

VARIABLES
  file, pos,        \* the file, and the place of the next symbol
  eof,              \* feof()
  buffer,           \* the last piece
  string,           \* the pieces of a line that is too long for the buffer
  atts, reading     \* what was read; what comes next

inivars == <<file, pos, eof, buffer, string, atts, reading>>

LF    == "\n"
CR    == "\r"
SPACE == " "
EQUAL == "="
HASH  == "#"

Names == {<<"context">>, <<"tag">>, <<"value">>, <<"start">>, <<"stop">>}

IniInit ==
  /\ file = << >> /\ pos = 1 /\ eof = FALSE
  /\ buffer = << >> /\ string = << >> /\ atts = << >> /\ reading = "closed"

\* Its caller opens the file.
OpenFile ==
  /\ reading = "closed"
  /\ file' \in IniFiles /\ reading' = "line"
  /\ UNCHANGED <<pos, eof, buffer, string, atts>>
-----------------------------------------------------------------------------
(* fgets(): up to the end of a line, of the buffer or of the file.  At the *)
(* end of the file the buffer is left as it was.                           *)

Rest  == SubSeq(file, pos, Len(file))
Ended == Len(Rest) < Chunk /\ LF \notin ToSet(Rest)
Piece ==
  LET newline == SelectInSeq(Rest, LAMBDA c : c = LF)
  IN  IF newline # 0 /\ newline <= Chunk THEN SubSeq(Rest, 1, newline)
      ELSE SubSeq(Rest, 1, IF Len(Rest) < Chunk THEN Len(Rest) ELSE Chunk)

Fgets(old) ==
  /\ buffer' = IF Rest = << >> THEN old ELSE Piece
  /\ pos' = pos + Len(Piece)
  /\ eof' = Ended

IsFull(piece) == Ended \/ piece = << >> \/ Last(piece) = LF

remove_crlf(s) ==
  IF s = << >> \/ Last(s) # LF THEN s
  ELSE IF Len(s) > 1 /\ s[Len(s) - 1] = CR THEN SubSeq(s, 1, Len(s) - 2) ELSE Front(s)

\* cstring_trimc().
Trim(s) ==
  LET inner == {p \in DOMAIN s : s[p] # SPACE}
  IN  IF inner = {} THEN << >> ELSE SubSeq(s, Min(inner), Max(inner))

\* get_attribute(): without an equal sign there is no value.
get_attribute(s) ==
  LET equal == SelectInSeq(s, LAMBDA c : c = EQUAL)
  IN  IF equal = 0 THEN [name |-> Trim(s), value |-> << >>]
      ELSE [name |-> Trim(SubSeq(s, 1, equal - 1)), value |-> SubSeq(s, equal + 1, Len(s))]

\* Those that the caller's filter keeps, comments aside.
Kept(a) == a.name # << >> /\ a.name[1] # HASH /\ a.name \in Names

AddAttribute(s) ==
  atts' = IF s # << >> /\ Kept(get_attribute(s)) THEN Append(atts, get_attribute(s)) ELSE atts

\* ini_get_select(): the first piece of a line.
ReadLine ==
  /\ reading = "line" /\ ~eof
  /\ Fgets(<< >>)
  /\ IF IsFull(buffer')
       THEN AddAttribute(remove_crlf(buffer')) /\ UNCHANGED <<string, reading>>
       ELSE string' = buffer' /\ reading' = "more" /\ UNCHANGED atts
  /\ UNCHANGED file

\* Mutant: the last piece replaces the others.
JoinedBug(piece) == piece

Joined(piece) == string \o piece

\* The next pieces of a long line.
ReadMore ==
  /\ reading = "more"
  /\ Fgets(buffer)
  /\ string' = Joined(remove_crlf(buffer'))
  /\ IF IsFull(buffer') THEN AddAttribute(string') /\ reading' = "line"
                        ELSE UNCHANGED <<atts, reading>>
  /\ UNCHANGED file

EndOfFile ==
  /\ reading = "line" /\ eof
  /\ reading' = "done"
  /\ UNCHANGED <<file, pos, eof, buffer, string, atts>>

IniNext == OpenFile \/ ReadLine \/ ReadMore \/ EndOfFile
-----------------------------------------------------------------------------
\* What a line says.
Said(line) ==
  LET a == get_attribute(remove_crlf(line))
  IN  IF remove_crlf(line) # << >> /\ Kept(a) THEN <<a>> ELSE << >>
\* A line that comes out of its pieces changed: its CR ends one, or it ends the
\* file and fills the last.
IsTorn(line) ==
  IF line # << >> /\ Last(line) = LF
    THEN Len(line) > 1 /\ line[Len(line) - 1] = CR /\ (Len(line) - 1) % Chunk = 0
    ELSE line # << >> /\ Len(line) % Chunk = 0
\* The line that ends before a place.
LineBefore(p) ==
  SubSeq(file, Max({0} \cup {q \in 1 .. p - 2 : file[q] = LF}) + 1, p - 1)
\* Whatever the length of a line, what is read of it is what it says, unless it
\* is torn (ini.c:112-169).
LineIsRead ==
  reading \in {"line", "more"} /\ reading' = "line" /\ pos' # pos =>
    LET line == LineBefore(pos')
    IN  IsTorn(line) \/ atts' = atts \o Said(line)
LinesAreRead == [][LineIsRead]_inivars
=============================================================================
