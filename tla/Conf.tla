-------------------------------- MODULE Conf --------------------------------
(***************************************************************************)
(* conf.c: the configuration file, which stays open between the reads.     *)
(* read_conf_string() looks for a key from the place where the last read   *)
(* stopped, and once more from the start of the file.                      *)
(***************************************************************************)
EXTENDS Integers, SequencesExt

CONSTANTS
  ConfFiles,        \* configuration files: sequences of characters
  Asked,            \* the keys that are read, in order
  BufSize           \* KEY_VALUE_BUFFER_SIZE: 200 in the code

ASSUME BufSizeAssumption == BufSize \in Nat \ {0, 1}

VARIABLES
  conf, cpos,       \* the file, and the place of the next character
  fd,               \* whether it is open
  asking,           \* which key is being read; 0 between two reads
  asked,            \* keys read so far
  state, matched, buf, lastpass,
  answer            \* what the last read returned: << >> for NULL

confvars == <<conf, cpos, fd, asking, asked, state, matched, buf, lastpass, answer>>

NEWLINE == {"\n", "\r"}
BLANK   == {" ", "\t"}
SEPARATOR == BLANK \cup {"="}
COMMENT == {"#", ";"}

key == Asked[asking]

ConfInit ==
  /\ conf \in ConfFiles /\ cpos = 1 /\ fd = FALSE
  /\ asking = 0 /\ asked = 0
  /\ state = "END" /\ matched = 0 /\ buf = << >> /\ lastpass = FALSE /\ answer = << >>

\* The files are characters, and so are the keys, which no separator nor end of a
\* line is in and no comment begins.
ASSUME ConfAssumption ==
  /\ ConfFiles \subseteq Seq(STRING) /\ Asked \in Seq(Seq(STRING) \ {<< >>})
  /\ \A k \in DOMAIN Asked : Asked[k][1] \notin COMMENT /\ ToSet(Asked[k]) \cap (NEWLINE \cup SEPARATOR) = {}

\* Mutant: a file that was open is looked at to its end only.
LastPassBug == TRUE

\* A file that was just opened is looked at once.
LastPass == ~fd

\* read_conf_string() begins.
read_conf_string ==
  /\ asking = 0 /\ asked < Len(Asked)
  /\ asking' = asked + 1 /\ asked' = asked + 1
  /\ fd' = TRUE /\ lastpass' = LastPass
  /\ state' = "VRFY_KEY" /\ matched' = 0 /\ buf' = << >> /\ answer' = << >>
  /\ UNCHANGED <<conf, cpos>>

\* The file cannot be opened.
CannotOpen ==
  /\ asking = 0 /\ asked < Len(Asked) /\ ~fd
  /\ asked' = asked + 1 /\ answer' = << >>
  /\ UNCHANGED <<conf, cpos, fd, asking, state, matched, buf, lastpass>>

Reading == asking # 0 /\ state # "END"
c       == conf[cpos]
AtEnd   == cpos > Len(conf)

\* The end of the file, which a value may end at.
LastChar ==
  /\ Reading /\ AtEnd /\ (lastpass \/ state = "IN_VALUE")
  /\ state' = "END"
  /\ UNCHANGED <<conf, cpos, fd, asking, asked, matched, buf, lastpass, answer>>

\* Back to the start.  The EOF itself is looked at as the first character of a
\* line, which is not the key's: the first line is not looked at.
Rewound ==
  /\ Reading /\ AtEnd /\ ~lastpass /\ state # "IN_VALUE"
  /\ cpos' = 1 /\ lastpass' = TRUE
  /\ state' = "WF_NEWLINE" /\ matched' = 0
  /\ UNCHANGED <<conf, fd, asking, asked, buf, answer>>

\* Mutant: the key's end is not looked at.
EndOfKeyBug == "WF_VALUE"

\* After a separator: a value, if the whole key was read.
EndOfKey == IF matched = Len(key) THEN "WF_VALUE" ELSE "WF_NEWLINE"

VerifyKey ==
  /\ state = "VRFY_KEY" /\ UNCHANGED buf
  /\ \/ /\ matched = 0 /\ c \in COMMENT
        /\ state' = "WF_NEWLINE" /\ UNCHANGED matched
     \/ c \in NEWLINE /\ matched' = 0 /\ UNCHANGED state
     \/ /\ c \in SEPARATOR
        /\ state' = (IF matched = 0 THEN state ELSE EndOfKey) /\ UNCHANGED matched
     \/ /\ ~(matched = 0 /\ c \in COMMENT) /\ c \notin NEWLINE \cup SEPARATOR
        /\ IF matched < Len(key) /\ c = key[matched + 1]
             THEN matched' = matched + 1 /\ UNCHANGED state
             ELSE state' = "WF_NEWLINE" /\ UNCHANGED matched

WaitForValue ==
  /\ state = "WF_VALUE"
  /\ \/ c \in NEWLINE /\ state' = "VRFY_KEY" /\ matched' = 0 /\ UNCHANGED buf
     \/ c \in BLANK /\ UNCHANGED <<state, matched, buf>>
     \/ /\ c \notin NEWLINE \cup BLANK
        /\ state' = "IN_VALUE" /\ buf' = <<c>> /\ UNCHANGED matched

WaitForNewline ==
  /\ state = "WF_NEWLINE" /\ UNCHANGED buf
  /\ IF c \in NEWLINE THEN state' = "VRFY_KEY" /\ matched' = 0 ELSE UNCHANGED <<state, matched>>

\* A value that fills the buffer ends there, and its terminator is written past it.
InValue ==
  /\ state = "IN_VALUE" /\ UNCHANGED matched
  /\ IF c \in NEWLINE \cup {"\t"} THEN state' = "END" /\ UNCHANGED buf
     ELSE buf' = Append(buf, c) /\ state' = IF Len(buf') >= BufSize THEN "END" ELSE state

NextChar ==
  /\ Reading /\ ~AtEnd
  /\ cpos' = cpos + 1
  /\ VerifyKey \/ WaitForValue \/ WaitForNewline \/ InValue
  /\ UNCHANGED <<conf, fd, asking, asked, lastpass, answer>>

\* The value is copied.
Answered ==
  /\ asking # 0 /\ state = "END"
  /\ asking' = 0 /\ answer' = buf
  /\ UNCHANGED <<conf, cpos, fd, asked, state, matched, buf, lastpass>>

ConfNext == read_conf_string \/ CannotOpen \/ LastChar \/ Rewound \/ NextChar \/ Answered
-----------------------------------------------------------------------------
\* Where a line begins, and where a read that stopped at a tab or with a full
\* buffer makes the next one begin.
StartOfLine(p) == p = 1 \/ conf[p - 1] \in NEWLINE
StartOfRead(p) ==
  StartOfLine(p) \/ conf[p - 1] = "\t" \/ (p > BufSize /\ \A x \in p - BufSize .. p - 1 : conf[x] \notin NEWLINE)
\* From p on the text has separators, k at a, and separators up to v,
KeyAt(p, k, a, v) ==
  /\ p <= a /\ a + Len(k) < v
  /\ \A x \in p .. a - 1 : conf[x] \in SEPARATOR
  /\ \A x \in 1 .. Len(k) : conf[a + x - 1] = k[x]
  /\ conf[a + Len(k)] \in SEPARATOR
  /\ \A x \in a + Len(k) + 1 .. v - 1 : conf[x] \in BLANK
\* where its value begins.
GivenAt(p, k, a, v) == KeyAt(p, k, a, v) /\ conf[v] \notin NEWLINE \cup BLANK
\* A value goes on to the end of the line, or as far as the buffer.
Value(v, w) ==
  /\ w < v + BufSize
  /\ \A x \in v .. w : conf[x] \notin NEWLINE \cup {"\t"}
  /\ w = Len(conf) \/ w = v + BufSize - 1 \/ conf[w + 1] \in NEWLINE \cup {"\t"}
\* A key that has a value on any line but the first is found, wherever the last
\* read stopped in the file (conf.c:71-83).
KeysAreFound ==
  asking = 0 /\ fd /\ answer = << >> =>
    \A p \in 2 .. Len(conf) : StartOfLine(p) =>
      \A a, v \in p .. Len(conf) : ~GivenAt(p, Asked[asked], a, v)
\* The value of a key is one that the file gives to that very key, where a line
\* begins or where the last read stopped (conf.c:86-151).
ValuesAreTheirs ==
  asking = 0 /\ answer # << >> =>
    \E p \in DOMAIN conf : StartOfRead(p) /\
      \E a, v, w \in p .. Len(conf) :
        GivenAt(p, Asked[asked], a, v) /\ Value(v, w) /\ answer = SubSeq(conf, v, w)
=============================================================================
