------------------------------- MODULE Inputs -------------------------------
(***************************************************************************)
(* A tick of main() takes a message from the keyboard or, if there is none *)
(* and none is pending, from IRC.  Either way it gets a pointer into a     *)
(* buffer the next messages are written over.                              *)
(***************************************************************************)
EXTENDS IrcInput, Typing

VARIABLE typing     \* whether display_driver() runs

vars == <<ircvars, typedvars, typing>>

Init == IrcInit /\ TypingInit /\ typing = FALSE

\* main() calls display_driver() while nothing is pending.
Call ==
  /\ ~typing /\ Listening
  /\ TypingStarts
  /\ typing' = TRUE /\ UNCHANGED ircvars

Key ==
  /\ typing /\ (Character \/ NextByte \/ Backspace)
  /\ UNCHANGED <<typing, ircvars>>

\* It returns the line that was typed,
ReturnLine ==
  /\ typing /\ Enter
  /\ outgoingmsg' = Typed /\ typing' = FALSE
  /\ UNCHANGED <<wire, inchannel, input, turn, linebuffer, o, ret, last_thing_i_said, history>>

\* or nothing, when no key comes.
ReturnNothing ==
  /\ typing /\ typing' = FALSE
  /\ UNCHANGED <<ircvars, typedvars>>

Irc == ~typing /\ (DriverNext \/ Settled) /\ UNCHANGED <<typing, typedvars>>

Next ==
  \/ Call \/ Key \/ ReturnLine \/ ReturnNothing
  \/ Irc
  \/ ClientNext /\ UNCHANGED <<typing, typedvars>>

Spec == Init /\ [][Next]_vars
-----------------------------------------------------------------------------
\* The bytes of the characters entered, each after those of the one before and
\* whole, but for the last of a line that filled the buffer.
BytesOf(x, bytes) ==
  (IF x = Len(entered) THEN Len(bytes) ELSE entered[x + 1].from) - entered[x].from

IsTyped(bytes) ==
  /\ bytes # << >> => entered # << >> /\ entered[1].from = 0
  /\ \A x \in DOMAIN entered :
       LET n == BytesOf(x, bytes)
           w == Width[entered[x].ch]
       IN  /\ n = w \/ (x = Len(entered) /\ Len(bytes) = Full /\ n \in 1 .. w)
           /\ \A k \in 1 .. n : bytes[entered[x].from + k] = <<entered[x].ch, k>>

\* A message is, for as long as main() keeps the pointer, a text that was said on
\* IRC, or the characters that were typed and not erased, which nothing is written
\* over (main.c:690, 736-740; ircserver.c:602-614; gotcurses.c:353-395).
PostedIsSaid ==
  CASE outgoingmsg = NULL  -> TRUE
    [] outgoingmsg = Typed -> IsTyped(buf)
    [] OTHER -> \E l \in Texts : StringAt(linebuffer, outgoingmsg) = TextOf(l)
=============================================================================
