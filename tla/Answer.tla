------------------------------- MODULE Answer -------------------------------
(***************************************************************************)
(* The answers of the forum, from the socket to the log: the loops of      *)
(* main() around network_recv(), which give each piece to the automaton of *)
(* the cookies (the first piece only) and to the parser of pages, and what *)
(* the parser calls.  An answer is a line of status, headers and a page;   *)
(* the network gives it in pieces and may lose the rest.  Between answers  *)
(* the forum gets messages.  The waits, retries and signals of PollLoop    *)
(* are shortened to a choice of the next request.                          *)
(***************************************************************************)
EXTENDS Cookies, PageParser, FiniteSets

CONSTANTS
  Window,           \* messages of the forum's whole page
  MaxMsg,           \* bound: messages posted
  MaxLogin,         \* bound: logins that get the whole page
  MaxRefused,       \* bound: requests refused
  Apart,            \* bound: whether cookies come only to a forum with no message,
                    \* and messages only while the jar is empty
  CookieSets(_),    \* the cookies an answer may set, by request: sequences of records
  Presences,        \* the people who may be there: sequences of records
  First,            \* the first message's identifier is First + 1
  ContentOf(_),     \* a message's text, a sequence of symbols
  Symbols           \* what cookies, messages and the names of people are made of

ASSUME AnswerAssumption ==
  Window \in Nat /\ MaxMsg \in Nat /\ MaxLogin \in 0 .. 8 /\ MaxRefused \in Nat /\ First \in Nat
  /\ Apart \in BOOLEAN
  /\ First + MaxMsg < 100      \* identifiers have one or two digits

Requests ==
  {"LOADING_LOGIN_PAGE", "GET_THE_BACKLOG", "WATCHING_NEW_MESSAGES",
   "RETRIEVING_THE_LIST_OF_USERS", "POSTING_A_MESSAGE"}

\* Cookies as a server may write them: names and values without what ends
\* them, maybe attributes; the page begins at the first "<".
CookieRecords ==
  [name  : Seq(Symbols \ {CR, LF, ";", "=", "<"}), equal : BOOLEAN,
   value : Seq(Symbols \ {CR, LF, ";", "<"}), rest : Seq(Symbols \ {LF, "<"})]

IsCookie(c) ==
  /\ c \in CookieRecords
  /\ c.name # << >> /\ c.name[1] \notin {" ", "-"}
  /\ c.equal \/ c.value = << >>
  /\ c.rest = << >> \/ c.rest[1] = ";"

ASSUME CookieSetsAssumption ==
  \A request \in Requests : \A cs \in CookieSets(request) :
    cs \in Seq(CookieRecords) /\ \A i \in DOMAIN cs : IsCookie(cs[i])

\* What names the values of a form; nothing else in a page does.
FormKeys == {"creation_time", "form_token"}
Plain == Symbols \ FormKeys

ASSUME ContentAssumption == \A mess \in 1 .. MaxMsg : ContentOf(mess) \in Seq(Plain)

ASSUME PresencesAssumption == Presences \subseteq Seq([username : Plain, profile : Plain])

VARIABLES           \* main()
  head,             \* messages posted on the forum
  state,            \* the request being made, or the next one
  turn,             \* "ask", "recv" before the first piece, "read" after
  text,             \* the answer: the lines of its headers, the parts of its page
  line, at, k,      \* the next symbol; whether it is in the first piece
  response,
  know_msgid, log   \* of minichat_message()

VARIABLES           \* history
  code,             \* the status of the answer
  page, sets,       \* its parts, and the cookies it sets
  next, upto,       \* its messages that are still to come
  calls,            \* calls made for it so far
  told,             \* cookies whose header came whole in a first piece
  held,             \* what msg.msgid was before the current message
  shown, gone, torn, again, logins, refusals,
  formcut           \* the last page with a form was cut

mainvars == <<state, turn, text, line, at, k, response>>
logvars  == <<know_msgid, log, shown>>
pagevars == <<code, page, sets, next, upto>>
past     == <<told, held, gone, torn, again, logins, refusals, formcut>>

vars == <<head, mainvars, logvars, pagevars, calls, past, cookievars, parservars>>

Init ==
  /\ head = 0
  /\ state = "LOADING_LOGIN_PAGE" /\ turn = "ask" /\ text = << >> /\ line = 1 /\ at = 1 /\ k = FALSE
  /\ response = 0 /\ know_msgid = 0 /\ log = << >>
  /\ code = 200 /\ page = << >> /\ sets = << >> /\ next = 1 /\ upto = 0
  /\ calls = << >> /\ told = {} /\ held = << >>
  /\ shown = {} /\ gone = {} /\ torn = {} /\ again = {}
  /\ logins = 0 /\ refusals = 0 /\ formcut = FALSE
  /\ CookiesInit /\ ParserInit
-----------------------------------------------------------------------------
(* Identifiers.                                                            *)

Digits == <<"0", "1", "2", "3", "4", "5", "6", "7", "8", "9">>

Decimal(mess) ==
  LET v == First + mess IN IF v < 10 THEN <<v>> ELSE <<v \div 10, v % 10>>

IdOf(mess) == [i \in DOMAIN Decimal(mess) |-> Digits[Decimal(mess)[i] + 1]]

\* An identifier's digits as numbers.
DigitsOf(id) == [i \in DOMAIN id |-> CHOOSE x \in 0 .. 9 : Digits[x + 1] = id[i]]

\* The message that digits stand for, if there were that many.
ValueOf(digits) == FoldLeft(LAMBDA v, d : 10 * v + d, 0, digits) - First
MessageOf(id)   == ValueOf(DigitsOf(id))

\* The answers that are given to the parser.
Parsed == state \in {"GET_THE_BACKLOG", "WATCHING_NEW_MESSAGES", "RETRIEVING_THE_LIST_OF_USERS"}

InMessagePart ==
  turn = "read" /\ Parsed /\ pstate \in {"IN_MSG_ID", "LOOKING_FOR_USERICON_URL", "IN_USERICON_URL",
              "LOOKING_FOR_PROFILE_URL", "IN_PROFILE_URL", "LOOKING_FOR_USERNAME",
              "IN_USERNAME", "LOOKING_FOR_MESSAGE", "IN_MESSAGE", "IN_MESSAGE_AND_IN_DIV"}

\* The same system as Delivery sees it: a request that was refused is not made
\* and an identifier counts from the end of its message.
DState ==
  CASE turn # "ask" /\ code # 403 /\ state = "GET_THE_BACKLOG" -> state
    [] turn # "ask" /\ code # 403 /\ state = "WATCHING_NEW_MESSAGES" -> state
    [] ~(turn # "ask" /\ code # 403) /\ state = "GET_THE_BACKLOG" -> "LOGIN"
    [] state = "LOADING_LOGIN_PAGE" -> "LOGIN"
    [] OTHER -> "WATCH"

DMsgid == IF InMessagePart THEN held ELSE DigitsOf(StringOf(msg.msgid))

D == INSTANCE Delivery WITH
       state <- DState, msgid <- DMsgid, MayCut <- TRUE, MayTear <- TRUE,
       Digit <- 0 .. 9, Width <- 2, Text <- Decimal, Value <- ValueOf

\* The message whose identifier the next request gives.
LastId == MessageOf(StringOf(msg.msgid))
-----------------------------------------------------------------------------
(* The forum.                                                              *)

Post ==
  /\ turn = "ask" /\ head < MaxMsg
  /\ Apart => told = {} /\ state # "POSTING_A_MESSAGE"
  /\ head' = head + 1
  /\ UNCHANGED <<mainvars, logvars, pagevars, calls, past, cookievars, parservars>>

MessagePart(mess) ==
  [kind |-> "message", id |-> IdOf(mess), icon |-> "icon", profile |-> "profile",
   username |-> "author", text |-> ContentOf(mess)]

\* Both values of a form are written as the number of its page.
FormPart == [kind |-> "form", creation_time |-> Digits[logins + 1],
             form_token |-> Digits[logins + 1]]

StatsPart(people) == [kind |-> "stats", topic |-> "topic", people |-> people]

\* The first message after the identifier the request gives.
AskedFrom == IF LastId \in Nat THEN LastId + 1 ELSE 1

MessageParts(from) ==
  IF from > head THEN << >> ELSE [i \in 1 .. head - from + 1 |-> MessagePart(from + i - 1)]

Oldest == IF head > Window THEN head - Window + 1 ELSE 1

\* The whole page, the newer messages, the people; no page otherwise.
Parts(people) ==
  CASE state = "GET_THE_BACKLOG" -> <<FormPart>> \o MessageParts(Oldest) \o <<StatsPart(people)>>
    [] state = "WATCHING_NEW_MESSAGES" -> MessageParts(AskedFrom)
    [] state = "RETRIEVING_THE_LIST_OF_USERS" -> <<StatsPart(people)>>
    [] OTHER -> << >>

CookiePair(c) ==
  SetCookie \o <<" ">> \o c.name \o (IF c.equal THEN <<"=">> ELSE << >>) \o c.value

FirstLines == <<<<"HTTP/1.1", CR, LF>>, <<"Server", CR, LF>>>>

CookieLines(cs) == [i \in 1 .. Len(cs) |-> CookiePair(cs[i]) \o cs[i].rest \o EOL]

Headers(cs) == FirstLines \o CookieLines(cs) \o <<EOL>>

\* The cookie of the line being read.
Current == sets[line - Len(FirstLines)]

\* Its pair ended with the symbol before.
PairIsRead ==
  /\ line - Len(FirstLines) \in 1 .. Len(sets)
  /\ at = Len(CookiePair(Current)) + 1

\* A name or a value that is too long is ignored with its cookie.
Fits(c) == Len(c.name) <= MAXBUFNAME /\ Len(c.value) <= MAXBUFVALUE

Tell(known, name, value) == {c \in known : c[1] # name} \cup {<<name, value>>}
-----------------------------------------------------------------------------
(* The program's requests, and the answers they get.                       *)

Ask(status, people, cs) ==
  /\ turn = "ask"
  /\ status = 403 => /\ state \in {"GET_THE_BACKLOG", "WATCHING_NEW_MESSAGES"}
                     /\ refusals < MaxRefused
  /\ state = "GET_THE_BACKLOG" \/ status = 403 => logins < MaxLogin
  /\ Apart /\ head > 0 => cs = << >>
  /\ turn' = "recv"
  /\ code' = status /\ sets' = cs
  /\ page' = IF status = 403 THEN << >> ELSE Parts(people)
  /\ text' = Headers(cs) \o WritePage(page') /\ line' = 1 /\ at' = 1
  /\ calls' = << >>
  /\ refusals' = IF status = 403 THEN refusals + 1 ELSE refusals
  /\ response' = IF state = "GET_THE_BACKLOG" THEN 0 ELSE response
  /\ cookies' = IF state = "POSTING_A_MESSAGE"
                  THEN storecookie(cookies, <<"mChatShowUserList">>, <<"yes">>) ELSE cookies
  /\ told' = IF state = "POSTING_A_MESSAGE"
               THEN Tell(told, <<"mChatShowUserList">>, <<"yes">>) ELSE told
  /\ CASE state = "GET_THE_BACKLOG" /\ status = 200 ->
            /\ next' = Oldest /\ upto' = head /\ logins' = logins + 1
            /\ gone' = gone \cup 1 .. (head - Window)
       [] state = "WATCHING_NEW_MESSAGES" /\ status = 200 ->
            next' = AskedFrom /\ upto' = head /\ UNCHANGED <<logins, gone>>
       [] OTHER -> UNCHANGED <<next, upto, logins, gone>>
  /\ UNCHANGED <<head, state, k, logvars, held, torn, again, formcut, hvars,
                 tokens, parservars>>

\* The status of a list of people is not kept.
KeepsStatus == state # "RETRIEVING_THE_LIST_OF_USERS"

\* network_recv() gives the first piece.
FirstPiece ==
  /\ turn = "recv"
  /\ turn' = "read" /\ k' = TRUE
  /\ response' = IF KeepsStatus THEN -1 ELSE response
  /\ StartHeaders
  /\ IF Parsed THEN Reset ELSE UNCHANGED parservars
  /\ UNCHANGED <<head, state, text, line, at, logvars, pagevars, calls, past, cookies, tokens>>

\* check_http_response() reads the first line, if the first piece has it whole.
check_http_response(c) ==
  response' = IF k /\ KeepsStatus /\ c = CR /\ response = -1 THEN code ELSE response

\* Mutant: a value of the form is not replaced by that of another page.
SetByBug(made, setter, value) ==
  IF made # << >> /\ made[1][1] = setter /\ value = << >> THEN made[1][2] ELSE value

\* A value of the form after the call.
SetBy(made, setter, value) ==
  IF made # << >> /\ made[1][1] = setter THEN made[1][2] ELSE value

\* What the call made for this symbol does.
Perform(made) ==
  /\ IF made # << >> /\ made[1][1] = "minichat_message"
       THEN /\ D!minichat_message(MessageOf(made[1][2]))
            /\ next' = next + 1
       ELSE UNCHANGED <<logvars, next>>
  /\ creation_time' = SetBy(made, "set_creation_time", creation_time)
  /\ form_token' = SetBy(made, "set_form_token", form_token)

AllRead == line > Len(text)

\* The place of the next symbol.
Advance ==
  IF at < Len(text[line]) THEN at' = at + 1 /\ UNCHANGED line
                          ELSE line' = line + 1 /\ at' = 1

\* A symbol, and whether it ends the first piece: after the headers, no matter.
Symbol ==
  /\ turn = "read" /\ ~AllRead
  /\ LET c == text[line][at]
     IN /\ IF k THEN ParseHeader(c) ELSE UNCHANGED <<cookies, hvars>>
        /\ k' \in (IF k /\ hstate' # "ENDOFHTTPHEADERS" THEN BOOLEAN ELSE {FALSE})
        /\ check_http_response(c)
        /\ told' = IF k /\ PairIsRead /\ Fits(Current)
                     THEN Tell(told, Current.name, Current.value) ELSE told
        /\ IF Parsed THEN Eat(c) ELSE UNCHANGED parservars
        /\ IF Parsed THEN Perform(called') ELSE Perform(<< >>)
  /\ calls' = IF Parsed THEN calls \o called' ELSE calls
  /\ held' = IF pstate # "IN_MSG_ID" /\ pstate' = "IN_MSG_ID" THEN DigitsOf(StringOf(msg.msgid)) ELSE held
  /\ Advance
  /\ UNCHANGED <<head, state, turn, text, code, page, sets, upto, gone, torn, again, logins,
                 refusals, formcut>>

\* The request that follows, a wait later.
NextState ==
  CASE state = "LOADING_LOGIN_PAGE" -> {"GET_THE_BACKLOG"}
    [] state \in {"GET_THE_BACKLOG", "WATCHING_NEW_MESSAGES"} /\ response = 403 ->
         {"LOADING_LOGIN_PAGE"}
    [] state = "GET_THE_BACKLOG" /\ response # 403 -> {"WATCHING_NEW_MESSAGES"}
    [] state = "WATCHING_NEW_MESSAGES" /\ response # 403 ->
         {"WATCHING_NEW_MESSAGES", "RETRIEVING_THE_LIST_OF_USERS"}
           \cup (IF Apart /\ head > 0 THEN {} ELSE {"POSTING_A_MESSAGE"})
    [] state = "RETRIEVING_THE_LIST_OF_USERS" -> {"WATCHING_NEW_MESSAGES"}
    [] state = "POSTING_A_MESSAGE" -> {IF turn = "recv" THEN state ELSE "WATCHING_NEW_MESSAGES"}

IsOver ==
  /\ turn' = "ask" /\ state' \in NextState
  /\ text' = << >> /\ line' = 1 /\ at' = 1 /\ k' = FALSE
  /\ code' = 200 /\ page' = << >> /\ sets' = << >> /\ calls' = << >>
  /\ formcut' = IF FormPart.kind \in {page[i].kind : i \in DOMAIN page}
                  THEN ~(\E i \in DOMAIN calls : calls[i][1] = "set_form_token")
                  ELSE formcut
  /\ UNCHANGED <<head, response, logvars, next, upto, told, held, gone,
                 logins, refusals, cookievars, parservars>>

Over == turn = "read" /\ AllRead /\ IsOver /\ UNCHANGED <<torn, again>>

\* The digits received of the message that is being read.
Received ==
  LET passed == at - 1 - Len(DivMess)
  IN  IF passed < Len(Decimal(next)) THEN passed ELSE Len(Decimal(next))

\* The connection closes too early, maybe with nothing received.
Lost ==
  /\ turn \in {"recv", "read"} /\ ~AllRead
  /\ IsOver
  /\ torn' = IF InMessagePart /\ Received > 0 THEN torn \cup D!Passed(next, Received) ELSE torn
  /\ again' = IF next <= upto THEN again \cup D!LeftAgain ELSE again

Next ==
  \/ Post
  \/ \E status \in {200, 403}, people \in Presences, cs \in CookieSets(state) : Ask(status, people, cs)
  \/ FirstPiece \/ Symbol \/ Over \/ Lost

Spec == Init /\ [][Next]_vars
-----------------------------------------------------------------------------
\* Divs within divs of a message, how deep at most.
Depth(t) ==
  FoldLeft(LAMBDA r, i :
             LET in == IF t[i] \in {"div>", "div "} THEN r.in + 1
                       ELSE IF t[i] = "/div>" THEN r.in - 1 ELSE r.in
             IN [in |-> in, most |-> IF in > r.most THEN in ELSE r.most],
           [in |-> 0, most |-> 0], [i \in 1 .. Len(t) |-> i]).most

\* A message is given as it was written; of one whose divs are nested deeper
\* than the parser counts, the beginning is.
SameCall(made, due) ==
  \/ made = due
  \/ /\ made[1] = "minichat_message" /\ due[1] = made[1]
     /\ Depth(due[6]) > 1 /\ IsPrefix(made[6], due[6])
     /\ \A f \in 2 .. 5 : made[f] = due[f]

\* Wherever the answer is cut, and whatever a page that was cut before left in
\* the parser's static variables, the calls made are those the page means, in
\* order, and all of them when it comes whole (parsehtml.c:91-397).
PageIsRead ==
  LET due == CallsOfPage(page)
  IN  /\ Len(calls) <= Len(due)
      /\ \A i \in DOMAIN calls : SameCall(calls[i], due[i])
      /\ turn = "read" /\ Parsed /\ AllRead => Len(calls) = Len(due)

\* Reading symbol by symbol, with headers, forms and people around them, the
\* program treats messages as Delivery says, identifiers that are cut and
\* what is left of them included: what Delivery promises holds of it
\* (main.c:134-166, 497-587, parsehtml.c:174-183).
ImplementsDelivery == D!Init /\ [][D!Next]_(D!vars)

\* The two hidden values are those of one page, unless the last page with a
\* form was cut before the second (parsehtml.c:149-172, main.c:640).
TokensArePaired ==
  ~formcut /\ turn = "ask" => form_token = creation_time

\* The jar holds the last value of every cookie that came whole in the first
\* piece of its answer and was not too long, and nothing else; only a name that
\* is new to a full jar is missing (cookies.c:21-63, 139-236, main.c:510).
JarIsTold ==
  /\ Sent \subseteq told
  /\ \A c \in told \ Sent :
       /\ \A i \in Slots : cookies[i] # FREE
       /\ c[1] \notin {d[1] : d \in Sent}

\* The jar never forgets a name, nor keeps two values of one.
CS == INSTANCE CookieStore WITH store <- Sent, Capacity <- MAXCOOKIES
JarIsStore == CS!SSpec
=============================================================================
