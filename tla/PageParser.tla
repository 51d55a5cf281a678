----------------------------- MODULE PageParser -----------------------------
(***************************************************************************)
(* parse_minichat_mess(): the automaton that finds messages, people, topic *)
(* and form values in what recv() brings, one symbol at a time.  Its       *)
(* variables are static: they outlive a call, and a page that was cut      *)
(* leaves them as they are until the first piece of the next page.         *)
(***************************************************************************)
EXTENDS Html

CONSTANTS
  BufSize,          \* symbols the buffer of a field holds
  IdSize            \* digits of an identifier before they are overwritten

IdBack == 5         \* places it then goes back

ASSUME ParserAssumption ==
  BufSize \in Nat /\ BufSize > 2 /\ IdSize \in Nat /\ IdSize > IdBack

VARIABLES
  pstate, oldstate, \* state, and the state the counters below were reset for
  j, l, m, n,       \* places in what is watched for
  buffer,           \* buffer[0 .. o-1]
  msg, url,         \* the message and the person's URL being filled
  nbmessages,       \* names of authors seen in this page
  called            \* the calls the last symbol made the parser do

counters   == <<j, l, m, n>>
fields     == <<buffer, msg, url, nbmessages>>
parservars == <<pstate, oldstate, counters, fields, called>>

NUL  == "nul"
Unset == << >>      \* a pointer that was freed
Garbage == <<"garbage">>

NoMessage ==
  [username |-> Unset, message |-> Unset, usericonurl |-> Unset, userprofileurl |-> Unset]

ParserInit ==
  /\ pstate = "READY" /\ oldstate = "READY"
  /\ j = 0 /\ l = 0 /\ m = 0 /\ n = 0
  /\ buffer = << >> /\ url = Unset /\ nbmessages = 0
  /\ msg = NoMessage @@ [msgid |-> << >>]
  /\ called = << >>

\* Mutant: the whole message is cleared, its identifier too.
KeptBug == [msgid |-> << >>]

Kept == [msgid |-> msg.msgid]

\* The first piece of an answer: all but m, n, oldstate and the identifier.
Reset ==
  /\ pstate' = "READY" /\ j' = 0 /\ l' = 0
  /\ buffer' = << >> /\ url' = Unset /\ nbmessages' = 0
  /\ msg' = NoMessage @@ Kept
  /\ called' = << >>
  /\ UNCHANGED <<oldstate, m, n>>
-----------------------------------------------------------------------------
\* watchfor(): whether c ends the string, and the place it leaves.  What does
\* not match is not tried again as a beginning.
Found(string, c, at) == c = string[at + 1] /\ at + 1 = Len(string)
Place(string, c, at) == IF c # string[at + 1] \/ Found(string, c, at) THEN 0 ELSE at + 1

\* watchfor2(), for strings of one length.
Place2(s1, s2, c, at) == IF c = s1[at + 1] THEN Place(s1, c, at) ELSE Place(s2, c, at)
Found2(s1, s2, c, at) == Found(s1, c, at) \/ Found(s2, c, at)

\* The places once a change of state has reset them.
J == IF pstate = oldstate THEN j ELSE 0
L == IF pstate = oldstate THEN l ELSE 0

\* The string the identifier's bytes make; the array was zeroed at first.
StringOf(bytes) ==
  SubSeq(bytes, 1, CHOOSE e \in 0 .. Len(bytes) :
           /\ e = Len(bytes) \/ bytes[e + 1] = NUL
           /\ \A i \in 1 .. e : bytes[i] # NUL)

PutAt(bytes, at, c) ==
  IF at < Len(bytes) THEN [bytes EXCEPT ![at + 1] = c] ELSE Append(bytes, c)

\* html_strip_tags()
StripTags(s) ==
  FoldLeft(LAMBDA r, c :
             IF r.in THEN [r EXCEPT !.in = c \notin TagEnd]
             ELSE IF c = "<" THEN [r EXCEPT !.in = TRUE]
             ELSE [r EXCEPT !.out = Append(@, c)],
           [in |-> FALSE, out |-> << >>], s).out

\* A field that fills the buffer starts again at its beginning.
Room(b) == IF Len(b) >= BufSize THEN << >> ELSE b

\* A field without the </div> that ends it; when the buffer was filled in the
\* middle of that, what is read lies outside of it.
WithoutEndDiv(b) ==
  IF Len(b) < Len(EndDiv) THEN Garbage ELSE SubSeq(b, 1, Len(b) - Len(EndDiv))
-----------------------------------------------------------------------------
(* The states.  Each is given a symbol c that is no end of line.           *)

Ready(c) ==
  /\ pstate = "READY"
  /\ j' = Place(DivMess, c, J)
  /\ l' = Place2(StatsIdCl, StatsClId, c, L)
  /\ m' = Place(CreationKey, c, m)
  /\ n' = Place(TokenKey, c, n)
  /\ pstate' = CASE Found(TokenKey, c, n) -> "IN_FORM_TOKEN"
                 [] Found(CreationKey, c, m) -> "IN_CREATION_TIME"
                 [] Found2(StatsIdCl, StatsClId, c, L) -> "LOOKING_FOR_STATS"
                 [] Found(DivMess, c, J) -> "IN_MSG_ID"
                 [] OTHER -> "READY"
  /\ buffer' = IF pstate' = "READY" THEN buffer ELSE << >>
  /\ called' = << >> /\ UNCHANGED <<msg, url, nbmessages>>

InHidden(c) ==
  /\ pstate \in {"IN_CREATION_TIME", "IN_FORM_TOKEN"}
  /\ IF c = QUOTE
       THEN /\ called' = <<<<IF pstate = "IN_CREATION_TIME" THEN "set_creation_time"
                             ELSE "set_form_token", buffer>>>>
            /\ pstate' = "READY" /\ UNCHANGED buffer
       ELSE buffer' = Room(Append(buffer, c)) /\ called' = << >> /\ UNCHANGED pstate
  /\ j' = J /\ l' = L /\ UNCHANGED <<m, n, msg, url, nbmessages>>

\* The place of the next digit, which goes back when there are too many.
DigitPlace == IF J >= IdSize THEN J - IdBack ELSE J

InMsgId(c) ==
  /\ pstate = "IN_MSG_ID"
  /\ IF c = QUOTE
       THEN /\ msg' = [msg EXCEPT !.msgid = PutAt(@, J, NUL)]
            /\ pstate' = "LOOKING_FOR_USERICON_URL" /\ j' = J
       ELSE /\ msg' = [msg EXCEPT !.msgid = PutAt(@, DigitPlace, c)]
            /\ j' = DigitPlace + 1 /\ UNCHANGED pstate
  /\ l' = L /\ called' = << >> /\ UNCHANGED <<m, n, buffer, url, nbmessages>>

\* The states that only watch for a string before a field, whose first symbols
\* are kept.
LookFor(state, string, field, first, c) ==
  /\ pstate = state
  /\ j' = Place(string, c, J) /\ l' = L
  /\ IF Found(string, c, J)
       THEN pstate' = field /\ buffer' = first
       ELSE UNCHANGED <<pstate, buffer>>
  /\ called' = << >> /\ UNCHANGED <<m, n, msg, url, nbmessages>>

LookForIcon(c)    == LookFor("LOOKING_FOR_USERICON_URL", ImgSrc, "IN_USERICON_URL", << >>, c)
LookForProfile(c) == LookFor("LOOKING_FOR_PROFILE_URL", ProfileHref, "IN_PROFILE_URL", <<".">>, c)
LookForName(c)    == LookFor("LOOKING_FOR_USERNAME", <<">">>, "IN_USERNAME", << >>, c)
LookForMessage(c) == LookFor("LOOKING_FOR_MESSAGE", MessageDiv, "IN_MESSAGE", << >>, c)

\* The fields of a message that end with one character.
Field(state, name, end, next, c) ==
  /\ pstate = state
  /\ IF c = end
       THEN /\ msg' = [msg EXCEPT ![name] = buffer]
            /\ nbmessages' = IF name = "username" THEN nbmessages + 1 ELSE nbmessages
            /\ pstate' = next /\ UNCHANGED buffer
       ELSE buffer' = Room(Append(buffer, c)) /\ UNCHANGED <<pstate, msg, nbmessages>>
  /\ j' = J /\ l' = L /\ called' = << >> /\ UNCHANGED <<m, n, url>>

InIcon(c)     == Field("IN_USERICON_URL", "usericonurl", QUOTE, "LOOKING_FOR_PROFILE_URL", c)
InProfile(c)  == Field("IN_PROFILE_URL", "userprofileurl", QUOTE, "LOOKING_FOR_USERNAME", c)
InUsername(c) == Field("IN_USERNAME", "username", "<", "LOOKING_FOR_MESSAGE", c)

\* Within a div of the message, the next end of a div is its own.
InInnerDiv(c) ==
  /\ pstate = "IN_MESSAGE_AND_IN_DIV"
  /\ buffer' = Room(Append(buffer, c))
  /\ j' = Place(EndDiv, c, J) /\ l' = L
  /\ pstate' = IF Found(EndDiv, c, J) THEN "IN_MESSAGE" ELSE pstate
  /\ called' = << >> /\ UNCHANGED <<m, n, msg, url, nbmessages>>

\* Mutant: divs within a message are not looked for.
OpensDivBug(c) == FALSE

OpensDiv(c) == Found2(Div, DivSpace, c, L)

InMessage(c) ==
  /\ pstate = "IN_MESSAGE"
  /\ j' = Place(EndDiv, c, J) /\ l' = Place2(Div, DivSpace, c, L)
  /\ LET all  == Append(buffer, c)
         done == [msg EXCEPT !.message = WithoutEndDiv(all)]
     IN IF Found(EndDiv, c, J)
          THEN /\ msg' = done
               /\ called' = <<<<"minichat_message", StringOf(done.msgid), done.username,
                                done.usericonurl, done.userprofileurl, done.message>>>>
               /\ pstate' = "READY" /\ buffer' = done.message
          ELSE /\ pstate' = IF OpensDiv(c) THEN "IN_MESSAGE_AND_IN_DIV" ELSE pstate
               /\ buffer' = Room(all) /\ called' = << >> /\ UNCHANGED msg
  /\ UNCHANGED <<m, n, url, nbmessages>>

\* The line of the topic ends before the first of the people, or with the div
\* when there is nobody.
LookForStats(c) ==
  LET all   == Append(buffer, c)
      topic == IF Found(Br, c, L) THEN all ELSE WithoutEndDiv(all)
  IN  /\ pstate = "LOOKING_FOR_STATS"
      /\ j' = Place(EndDiv, c, J) /\ l' = Place(Br, c, L)
      /\ IF Found(Br, c, L) \/ Found(EndDiv, c, J)
           THEN /\ called' = <<<<"nicklist_topic", StripTags(topic)>>,
                               <<"nicklist_recup_start">>>>
                     \o (IF Found(Br, c, L) THEN << >> ELSE <<<<"nicklist_recup_end">>>>)
                /\ pstate' = IF Found(Br, c, L) THEN "LOOKING_FOR_USERS" ELSE "READY"
                /\ buffer' = << >>
           ELSE called' = << >> /\ buffer' = Room(all) /\ UNCHANGED pstate
      /\ UNCHANGED <<m, n, msg, url, nbmessages>>

LookForUsers(c) ==
  /\ pstate = "LOOKING_FOR_USERS"
  /\ j' = Place(EndDiv, c, J) /\ l' = Place(ALink, c, L)
  /\ \/ /\ Found(EndDiv, c, J)
        /\ called' = <<<<"nicklist_recup_end">>>>
        /\ pstate' = "READY" /\ UNCHANGED buffer
     \/ /\ Found(ALink, c, L)
        /\ pstate' = "LOOKING_FOR_USERS_IN_A" /\ buffer' = << >> /\ called' = << >>
     \/ /\ ~Found(EndDiv, c, J) /\ ~Found(ALink, c, L)
        /\ called' = << >> /\ UNCHANGED <<pstate, buffer>>
  /\ UNCHANGED <<m, n, msg, url, nbmessages>>

InUserLink(c) ==
  /\ pstate = "LOOKING_FOR_USERS_IN_A"
  /\ l' = Place(Href, c, L) /\ j' = J
  /\ pstate' = CASE Found(Href, c, L) -> "LOOKING_FOR_USERS_IN_A_HREF"
                 [] c = ">" -> "LOOKING_FOR_USERS_IN_USERNAME"
                 [] OTHER -> pstate
  /\ buffer' = IF pstate' = pstate THEN buffer ELSE << >>
  /\ called' = << >> /\ UNCHANGED <<m, n, msg, url, nbmessages>>

InUserHref(c) ==
  /\ pstate = "LOOKING_FOR_USERS_IN_A_HREF"
  /\ IF c = QUOTE
       THEN url' = buffer /\ buffer' = << >> /\ pstate' = "LOOKING_FOR_USERS_IN_A"
       ELSE buffer' = Room(Append(buffer, c)) /\ UNCHANGED <<url, pstate>>
  /\ j' = J /\ l' = L /\ called' = << >> /\ UNCHANGED <<m, n, msg, nbmessages>>

InUserName(c) ==
  /\ pstate = "LOOKING_FOR_USERS_IN_USERNAME"
  /\ IF c = "<"
       THEN /\ called' = <<<<"nicklist_recup_name", buffer, url>>>>
            /\ url' = Unset /\ pstate' = "LOOKING_FOR_USERS" /\ UNCHANGED buffer
       ELSE buffer' = Room(Append(buffer, c)) /\ called' = << >> /\ UNCHANGED <<url, pstate>>
  /\ j' = J /\ l' = L /\ UNCHANGED <<m, n, msg, nbmessages>>

\* The ends of lines are passed over.
EndOfLine(c) ==
  /\ j' = J /\ l' = L /\ called' = << >>
  /\ UNCHANGED <<pstate, m, n, fields>>

Eat(c) ==
  /\ oldstate' = pstate
  /\ IF c \in {"\r", "\n"}
       THEN EndOfLine(c)
       ELSE \/ Ready(c) \/ InHidden(c) \/ InMsgId(c)
            \/ LookForIcon(c) \/ InIcon(c) \/ LookForProfile(c) \/ InProfile(c)
            \/ LookForName(c) \/ InUsername(c) \/ LookForMessage(c)
            \/ InMessage(c) \/ InInnerDiv(c)
            \/ LookForStats(c) \/ LookForUsers(c)
            \/ InUserLink(c) \/ InUserHref(c) \/ InUserName(c)
=============================================================================
