# Verification of minichatclient

minichatclient polls the mChat page of a phpBB forum over HTTP, shows the chat
in a terminal, logs it, and gives it to an IRC client through a small IRC
server of its own. It is one process with one thread. What makes it hard to
test is not data but order: a main loop whose state machine mixes login,
polling, posting, retries and outages; pages and lines that the network cuts
anywhere; signals between any two steps; one IRC client that comes and goes;
and several static buffers and variables that outlive the event they were
written for.

This directory holds TLA+ modules translated from the code, TLC
configurations that check them on small instances, and TLAPS proofs of their
main safety properties for every value of the constants. `PROJECT.json` maps
every definition to the lines it stands for, and lists runs, hazards, findings
and theorems.

    tlc -workers 2 -config PollHistory.cfg MCPollHistory    # a run
    tlapm PollProofs.tla                                     # its proofs

## Inventory

| component | state | operations | talks to |
|---|---|---|---|
| main loop, `main.c` | `state`, `oldstate`, ticks `t` and `wait_time`, `nberr`, `u`, `outgoingmsg`, `outgoingmsgretry`, `response`, `poll_requested`, `exit_requested` | one turn: connect and make the request of the state, or one tick of a wait; signal handlers | calls everything below |
| message delivery, `minichat_message()` in `main.c`, `parsehtml.c` | `know_msgid`, `msg.msgid`, the log file | a message of a page is displayed, logged, sent to IRC; the next poll gives `msg.msgid` | called by the page parser |
| page parser, `parsehtml.c` | automaton `state`, watch counters, a 2000-byte buffer | eats what each `recv()` brings | calls delivery, nicklist, form tokens |
| nicklist, `nicklist.c` | linked list of people with `lastseen`, `invisible` | speak, be listed, expire at the end of a list | calls `irc_join()`, `irc_part()` |
| IRC server, `ircserver.c` | `clientstate`, `cfd`, nickname and ident given, `autorejoin`, topic and `topic_changed`, `linebuffer`, `last_thing_i_said` | `irc_driver()` at each tick: accept, receive, parse lines, automatic JOIN; callbacks from delivery and nicklist | returns a line to post |
| cookies and form tokens, `cookies.c` | a jar of MAXCOOKIES slots, the state of the header automaton, two hidden form values | parse headers, list for a request | main loop, parser |
| configuration, `conf.c` | open file and its position | find a key | everyone |
| network, `network.c` | one TLS object | connect, send, receive | main loop |
| display, `gotcurses.c`, `gottext.c`, `gotnull.c` | typing buffer, windows | a tick that may return a line | main loop |
| message formatter, `parser.c` | the rules; a message's list of parts, two stacks of openings | cut, link, close, rewrite, apply rules | page parser; reads its rules with `CUtils/ini.c` |
| text: `strfunctions.c`, `entities.c` | none | rewrite strings | delivery, display |
| `CUtils/` | (library) | lists, strings, ini files, HTML nodes | formatter, `gottext.c`, former code |
| former IRC code, `oldcode/` | connections, their users, the channel's copies of them, the plugin's pending join and buffer | serve clients, relay messages | its callbacks call the server again |

Not part of the running program: `oldcode/` (the IRC code `ircserver.c`
replaced, kept in the repository and modelled as it stands), `queue.h` (third
party), the test programs and the build files.

### What makes each component correct

* **Main loop.** A message once taken is posted or given up in bounded tries,
  posted again only if the server may not have it, and never left behind by a
  login; the server is never flooded; the chat is used only after a whole
  login and left only for a reason; reading goes on for ever.
* **Delivery.** The log and IRC get every message once and in order although
  each login reads the backlog again; what a request asks past was received.
* **Nicklist and IRC session.** A client in the channel knows who is there,
  through any mix of page, message, JOIN, PART, NAMES and reconnection; it is
  welcomed on its own words and joined after its delay; people who leave leave.
* **Line assembly.** Lines reach the parser as written, and the text kept by
  the main loop stays that text until it is settled.
* **Echo.** The user's own message is displayed exactly once by the IRC client.
* **Typing.** What is posted is what was typed and not erased, in whole characters.
* **Cookies.** The jar holds the latest value of each name that was received
  whole, no name twice, and a new name is missed only when the jar is full.
* **Page parser.** The calls it makes are those the page means, in order,
  however `recv()` cuts the page and whatever a cut page left before.
* **Configuration.** A key of the file is found from any position, with its value.
* **Formatter.** Lines of rules are read whole; openings and closings are linked
  in pairs, marked in pairs, and no text is lost but what a rule takes out.
* **Former IRC code.** What is said is posted and not echoed, whoever is gone
  leaves the channel, whoever is welcomed joins it.

### Hard behaviours

Concurrency is that of events in one thread: signals (SIGUSR1, SIGINT, resize)
between any two statements, the user's typing and the IRC client at each tick,
the server's answer, or its absence, at each request. Failures are refused
connections, refusals (403), complaints (400 and others), connections closed
with no answer or in the middle of one, and an IRC client that is replaced.
Nothing is persisted but the log, so there is no recovery to model. Text is hard
where it comes in pieces (answers, lines, keys, files read by 79 bytes) and
where the formatter walks a list it is changing. The full
list, line by line, is under `hazards` in `PROJECT.json`.

## Modules

    PollLoop --- PollHistory --- MCPollHistory        MCPollLive
                      \
                       PollProofs

    Nicklist --\
                Channel --- MCChannel      Delivery --(refines)--> Journal
    IrcServer -/   \                          |    \
                ChannelProofs            MCDelivery  DeliveryProofs

    IrcInput --\                       Cookies ----\
                Inputs --- MCInputs                 \   (refines) CookieStore
    Typing ----/   \                   Html          Answer --- MCAnswer
                InputsProofs             \          /  |   (refines) Delivery
                                          PageParser   AnswerProofs
    OwnEcho --- MCOwnEcho
         \
          OwnEchoProofs
                                       FormerServer --- FormerRoom --- MCFormer
    Conf -----------\                                       \
                     Text --- MCText                         FormerProofs
    Ini --- Formatter    \
                          TextProofs

**PollLoop** is `main()`. `state` takes the values of the enumeration `tstate`
as numbers, because the code computes with them (`state--`, `state++`). A turn
of the loop is one connection step (`ConnectFails`, `ConnectSucceeds`) and one
request with its answer (`LoadLoginPage` ... `Post`), or one `Wait`, which is
the whole tick: timer, forced poll, keyboard, IRC, and the change of state for
a message. When the connection fails the same turn falls into the tick of the
waiting twin, hence the value `"failed"` of `s`. An answer is a status code, 0
for a line without one, or `NoAnswer`. `response` is a local that a poll
without data does not assign: its first value is `Uninit`, which the test of
403 may read as anything. Error messages are left out, and so is the content of
requests.

**PollHistory** adds variables the loop never reads: requests since the last
wait, answered tries and stored copies of the pending message, progress of the
login, refusals, and two flags for what excuses a promise: `skipped` (a poll
forced during the login cut it short) and `unanswered` (a post got no answer).
`HistoryRefines` proves that it does not restrict PollLoop.

**Nicklist**, **IrcServer** and **Channel** are `nicklist.c`, the session side of
`ircserver.c`, and the two interleaved with the pages of the server. The IRC
client's socket is reliable and ordered, so the messages it is sent are kept
as its own knowledge: `view` (people) and `topic`. `turn` says where the
program is (between requests, in a list of people, in `irc_driver()`), since a
page is received in pieces with time passing, while `irc_driver()` only runs
between requests. A connection cut in the list is `CutPage`.

**Delivery** follows messages, numbered as the forum does, from its pages to the
log: `know_msgid` (the static of `minichat_message()`), `msgid` (the parser's
`msg.msgid`, written when a message's identifier is read, before the message
is), the choice between the whole page after a login and the newer messages
otherwise. `msgid` is a sequence of digits, and a page may be cut between two
messages, after an identifier, or after any of its digits: `parsehtml.c:177` writes
them over those of the identifier before (`Overwrite`) and ends the string at the
quote only, so that a cut one leaves a mix of both. `Asked` is the message such a text
stands for, were there that many; `torn` has the messages asked past because of a cut
(`Passed`), `again` those asked for again because of one. Identifiers are compared as
strings, as `strncmp()` does. **Journal** is what the log promises, and `LogIsJournal`
says Delivery implements it.

**IrcInput** is the line assembly of `irc_driver()`: one static buffer, cells
instead of bytes, `recv()` cutting anywhere, clients replacing each other, and
the pointer into that buffer which `main()` keeps while it posts. **Typing** is the
buffer of the keyboard, in bytes, for terminals that send characters whole or
byte by byte; `entered` says which characters were typed and not erased, and where
their bytes begin. **Inputs** is the two as `main()` asks them, the keyboard first,
while nothing is pending.

**OwnEcho** is the route of what the user says, at the keyboard or on IRC, to
the forum and back to `irc_message()`, which keeps back one message equal to
`last_thing_i_said`. A line is remembered as soon as `parse_buffer()` gives it back, but
another line of the same `recv()` may decide that nothing is sent: `LineOvertaken`,
counted by text in `overtaken`. It has its own short form of the main loop.

**Cookies**, **PageParser** and **Answer** read the forum's answers symbol by symbol.
A symbol is a run of characters that no pattern of the code cuts anywhere else
(`<`, `div `, `id=m`...) or a value; **Html** writes pages with them and says which
calls a page means. Cookies is the jar and the automaton over headers, PageParser
the automaton of `parse_minichat_mess()` with its counters, which are static in the
code: they outlive a call and a page, and are cleared at a change of state only.
Answer is the loops of `main()` around `network_recv()`: the first piece of an answer
goes to the cookies also, any piece may be the last. Its messages are Delivery's,
which it is shown to implement, step by step and wherever a page is cut
(`ImplementsDelivery`: an identifier counts from the end of its message, or from the
cut, with the digits it then has), and its jar is a **CookieStore** (`JarIsStore`).

**Conf** is `read_conf_string()` character by character, with the file left open at
the place where the last key was found. **Ini** is `ini_get_select()` with the filter
of its caller. **Formatter** is `parser.c`: the passes of `parse_html_in_message()`
over a message's list of parts. A position in the list stands for a pointer to a
node; an opening and a closing part name each other by number, as `link` does. `Size` is
how many bytes a symbol has, which `check_at_rule()` counts from the end of a text. A
null pointer that is followed is a stop (`pass = "crashed"`). **Text** is the three in
the order of `main()`: configuration, rules, messages.

**FormerServer** and **FormerRoom** are `oldcode/`. `irc_server_do_work()` calls the
program back for a registration, and the program pings everybody, which calls
`irc_server_do_work()` again; hence `stack`, the calls under way, each with its node of
the list of clients, and `callback`, what the program must do before the last one
goes on. A write fails at any moment, which is all the server ever notices of a
client that left. `crashed` is a null or freed pointer that is used.

Operators named `...Bug`, with the comment *Mutant*, are deliberately wrong
variants of the definition that follows them. No specification uses them; they
say which mistake in the code each property would catch.

## Runs

| run | what it checks | states | shows |
|---|---|---|---|
| `poll` | `PendingIsOnItsWay`, `TriesBounded`, `Polite`, `NoRepost`, `LoginIsComplete`, `RelogIsJustified` | 8.0 M | the safety of the main loop under every failure and forced poll |
| `poll_live` | `MessageSettled`, `KeepsReading` | 306 k | every message is settled, the chat is read for ever |
| `poll_flood` | `NeverFloods` (violated) | | finding 1 |
| `channel` | `ViewIsList`, `RegisteredByItself`, `TopicFollowed`, `NotRushed`, `GoneIsParted`, `WelcomedEnters` | 275 k | what the IRC client knows and when it is let in; people leave the list, clients enter the channel |
| `delivery_whole` | `LogIsJournal`, `EverythingLogged` | 1 k | order, no duplicate, no loss with whole pages |
| `delivery_torn` | `OnlyTornIsLost`, `LoggedOnce` | 3.2 M | what cuts can cost |
| `page` | `PageIsRead`, `TokensArePaired`, `JarIsTold`, `ImplementsDelivery`, `JarIsStore` | 1.3 M | what is read of answers cut anywhere; the program implements Delivery |
| `echo` | `EchoOnce`, `TextIsSeen` | 3.2 M | the user's own messages are displayed |
| `inputs` | `LinesAreWhole`, `PostedIsSaid`, `LostOnlyInBurst` | 2.9 M | the text posted is a text said or typed |
| `inputs_trail` | `PostedIsSaid` (violated) | | finding 2 |
| `text` | `KeysAreFound`, `ValuesAreTheirs`, `LinesAreRead`, `LinksAreMutual`, `TextIsKept`, `MarksArePaired`, `CrashesAtLastComma`, `Ends` | 194 k | configuration, rules and about three thousand messages |
| `former` | `SaidIsPosted`, `EchoOnce`, `NobodyStays`, `WelcomedJoins` | 1.5 M | the former plugin under nested calls and failed writes |

`CHECK_DEADLOCK FALSE` appears in `poll` and `poll_live`, where the user may end the
program, in `page`, whose forum stops posting and refusing at its bounds, in `text`,
which is done with its message, and in `former`, where a crash is a stop.

### Bounds, and why they are enough

* *Main loop*: a tick lasts a second and waits are at most two seconds, or the
  lengths written in the code, so that the wait grows, shrinks and meets both
  clamps; two failed connections stand for the thirty after which the loop logs
  in again, enough for an outage that ends before and one that ends after; the
  codes 200, 400, 403, 501 and "none" are one for each reaction; history
  counters stop one above what is promised. Retries need no bound: the code's
  own limit closes them.
* *Channel*: the user and another person, two topics, delays of one and two: a
  person may expire visible, stay invisible, be dropped and come back, with the
  client anywhere between. People do not depend on each other, and the proofs hold for
  any number of them. Time is counted up to one past each limit.
* *Delivery*: six messages, five where pages are cut, three logins and pages of three,
  so that messages leave the page between logins and a backlog overlaps what is known on
  both sides. Identifiers are the numbers from 8 on in four binary digits, so that few
  messages have all the carries: 1011 cut after 110 of 1100 leaves 1101, one past
  the message that was cut.
* *Echo*: three messages of two texts and two copies: two messages may be
  equal, and a third come between them. One line with each text may be overtaken.
* *Inputs*: four lines of IRC, texts of two cells, a buffer of four, any cut; at
  the keyboard three characters, of one, two and three bytes, a buffer full at
  three, and any number of lines and erasures: a character may fill the buffer,
  pass its end or be cut by it.
* *Page*: two messages, one with a div and one with a div within a div, two
  logins, one refusal, a jar of two slots, names of at most two symbols and values
  of one: a name may be the beginning of another, too long, or one too many. The
  constant `Apart` keeps cookies to a forum without messages, as the two meet
  in the first piece only and their product is too large. Identifiers are 19 and 20,
  so that a cut one mixes with the digits of the other. `BufSize` and `IdSize`
  are never reached. `Symbols` is what these cookies and messages are made of.
* *Text*: configuration files of up to three lines out of seven odd ones (no end,
  a carriage return, a comment, a key that begins another, `=`), files of rules of up
  to four lines out of seven with pieces of four symbols, so that lines end before,
  on and after the edge of a piece; messages begin with one piece out of nine, up to
  two openings out of four (a link, a bold tag, a bold span, a word) or a name called in
  one to three spans, the `@` being followed by a non-breaking space, by one or two
  letters, by a longer word or by nothing, and end with one piece, up to two closings, what follows a
  called name, or a link's address whole, cut or foreign. One set of rules formats: a
  link, a bold with start and stop, a span chosen by an attribute, and a rule for
  called names.
* *Former*: two clients, four lines in all, one failed write, two events of the forum,
  a join forced after two checks: a client may register twice, within the
  registration of the other, be gone when its join comes, and say two things at once.

### Fairness

Safety runs assume none. `PollLoop!FairSpec`: the loop takes its turns (weak,
it never blocks but in calls that end), a connection that is tried for ever
succeeds at times, the backlog is not refused for ever and posts are not left
unanswered for ever (strong: each is asked anew after every failure). The
liveness properties are about behaviours that settle (`Settling`): outages long
enough to restart the login end, as one per post could undo every retry, and
the user stops forcing polls, as TLC found that each may skip the very wait in
which the server came back. `Channel!FairSpec`: time passes and `irc_driver()` is called
again (the main loop comes back to its waits, which is `KeepsReading`), pages
start and end at times, and one `recv()` brings finitely many lines.
`Delivery!FairSpec`: pages end and the program goes back to reading, the number
of logins being bounded. `Text!FairSpec` and `FormerRoom!FairSpec`: the program, which
waits for nothing there, takes its next step.

## Proofs

TLAPS checks these for every value of the constants; the only assumptions are
the named ASSUMEs of the modules (settings are natural numbers, a tick is at
most a second...), which TLC evaluates in the runs, and `SameWidth` below.

* `PollProofs`, of the loop: `TypeCorrect`, `PendingAlwaysOnItsWay`, `WaitAlwaysBounded`.
  The pending-message invariant is inductive with the types; the wait's needs
  lemmas on integer division (`QuotientMonotone`, `NextWaitBounds`). Of its history, each
  from an invariant stronger than the property:
  `AlwaysPolite` from `Spaced` (which requests may follow another with no wait,
  and how many went before); `NeverReposted` from `OnlyUnanswered` (only a
  pending message has copies, and only after an unanswered post);
  `LoginAlwaysComplete` from `LoginProgress` (the steps done in every state,
  login states included); `RelogAlwaysJustified` from `RefusalKnown` (past the
  login `response` is assigned, and says 403 only after a refusal);
  `TriesAlwaysBounded` and `HistoryRefines` directly.
* `ChannelProofs`: `ViewAlwaysTheList` from `ListInv`; `AlwaysRegisteredByItself`,
  `NeverRushed` and `TopicAlwaysFollowed` from `SessionInv`, which ties what the
  client said to what the server holds, the timer to the time since *this*
  client's welcome, and the client's topic to the last one known.
* `DeliveryProofs`: `TypeCorrect`; `OnlyTornLost` from `CoverInv` (all that lies behind
  either identifier, or behind the page being read, is logged, gone or torn);
  `AlwaysLoggedOnce` from `OnceInv` (nothing logged is newer than what is known, and what
  will be asked for again of it is in `again`); `DeliveryIsJournal`, by `OrderInv` and one
  lemma that maps every step to a step of Journal or to a stutter, when pages are whole.
  But for the types, they assume `SameWidth`: identifiers that are written out have one
  width, and `strncmp()` orders them as their numbers; `MCDelivery` has TLC evaluate it.
  What a cut leaves lies between two identifiers in that order (`Between`): if digits
  written over an identifier make it later than the one they come from, all that is
  between begins with them (`MixUp`).
* `OwnEchoProofs`: `TypeCorrect`, and `EchoAlwaysOnce` from `EchoInv`: until something is
  refused for good or a poll is missed, at most one message is on its way (`Place`),
  its copies are read or all that is unread (`Copies`), and what is remembered is that
  message, before it is read and if it was said on IRC, the text of a line that was
  overtaken (`Stale`), or nothing (`Memory`).
  `EchoOnce` alone is not inductive: it says nothing of a message not read yet.
  `TextAlwaysSeen` holds with no such excuse, from `BalanceInv`: of each text, what was
  displayed is what was read back or more, and one more for the text that is
  remembered; so whatever is kept back had been displayed.
* `InputsProofs`, for a buffer of any size, any lines and characters and any cut of
  `recv()`: `LinesAlwaysWhole` from `LineInv` (what is still to be looked at is whole lines
  but for the beginning of the first, which is what the buffer has up to `o`);
  `LostAlwaysInBurst` from `Accounted` (what was heard is settled, overtaken, or of the
  burst that is pending); `PostedAlwaysSaid` from `HeldInv` (a text that is pending is in
  the buffer, and nothing of its reception follows it) and `TypedInv`: the characters
  tile the buffer, each with all its bytes but for the last (`Tiled`), and the bytes still
  to come are those that one lacks, unless the buffer is full (`Lacking`).
  `PostedIsSaid` alone is not inductive: it says nothing of a line or a character
  still being received.
  The hypothesis `MayTrail = FALSE` is that no line follows, in the same reception, one
  that is kept to be posted: without it the property is false (`inputs_trail`).
* `AnswerProofs`: `JarAlwaysStore`, that the jar of the whole program implements
  CookieStore, from `JarOrdered`: slots fill from the first on and hold a name once. Without the
  order, a slot before that of a name could be free and the name be stored twice.

  The two others rest on `Sending`: while an answer is read, its text is the headers of
  well-formed cookies and a page whose form, if it has one, is its first part
  (`IsPage`), and the place in it is one of its symbols or its end. `TokensAlwaysPaired` adds
  `TokensInv`: the two values are equal, or the last form was cut, but while a form is
  read; then `Placed` says where. In the headers nothing begins a mark, and what a page
  that was cut left of one (`m` and `n`) is gone with their first symbol; in the form
  (`InForm`) each of its 16 symbols has its state, its places in both keys and its
  buffer; after it, no symbol sets a value again. `TokensArePaired` alone says nothing
  between requests and needs the place in the form to follow a cut. `JarAlwaysTold` adds
  `JarOrdered` and `HeaderPlace`: as long as the first piece lasts, the automaton is where
  the line of headers calls for (`InHeaders`), and in a cookie's line its buffers hold the
  beginning of the name or of the value, if they fit (`InCookie`), so that what it stores
  at the end of a pair is what was told. Of the constants they assume that cookies are
  written as servers do (`IsCookie`: no name begins below `0` in ASCII), that headers hold
  no `<`, that only a form names its two values (`FormKeys`: the parser looks for
  `name="creation_time" value="` in a tag, and the forum escapes what people write), and
  that identifiers have one or two digits, as `Decimal` writes them.
* `FormerProofs`: `CallsNest`, that `CallInv` holds: the calls of `irc_server_do_work()`
  are a check or a forced join, then one ping in another (`Nested`), the callback to
  come is the last call's (`Answers`), and that call is at a connection on the list,
  but between the end of a ping and what follows it (`AtClient`). It holds up the
  others. `NobodyEverStays` adds that a name which is changed goes to the ghosts and that
  removing a client leaves the rest of the list (`Removal`). `SaidAlwaysPosted` comes
  from `Heard` (what was said is posted, excused, or in the list of this check, whose
  last is in the buffer), `ShownOnce` from `Alone` besides (a message that no other
  crossed is the only one waiting, and is remembered).

* `TextProofs`, for any file, any keys read in any order and a buffer of any size:
  `ValuesAlwaysTheirs` from `ValueInv`, which says in each state of the automaton what it has
  gone by: the beginning of the key (`Matching`), the key and a separator (`Awaited`), and
  of the value what is in the buffer (`Copied`); and between two reads, that the place where
  the next one starts is the beginning of a line, or follows a tab or a full buffer
  (`Stopped`). `KeysAlwaysFound` from `FoundInv`: along a line that gives a value to the key,
  once it is begun in the last pass, the state is the one its character calls for
  (`Followed`), so that the search cannot be at the end and have passed by one. The
  properties alone say nothing of a read under way. Of the keys it is assumed that they have
  no separator, no end of a line and no comment sign in front (`ConfAssumption`; they are
  literals, in `main.c:329-366`): a key `#h` would never be found. `LinesAlwaysRead`, for
  files of rules made of any symbols and pieces of any length, from `IniInv`: the reader is
  at the beginning of a line, or after some whole pieces of one, which it has put together
  (`InLine`). What `fgets()` reads is a part of the file that holds no end of a line but as
  its last symbol (`PieceIs`), so that pieces add up to lines.

  `LinksAlwaysMutual`, for any messages and any rules, from `LinksInv`, which has a part for
  each pass: while parts are made (`Making`) none is linked and what is in a tag is between
  brackets; while they are linked (`Linking`) the stack holds openings that wait, in
  order (`Waiting`); while they are closed (`Closing`) no opening before `ptr` is left
  alone (`Opened`); then (`Tied`) all of them have links. Throughout (`Ok`), identifiers
  are distinct, pairs are mutual and have one name, they nest, and a closing tag that was
  left alone stands behind an opening it could not match. `LinksAreMutual` alone is not
  inductive: a run of opening spans before a name is renamed and shortened together with
  the run of closing spans after it, and only nesting makes the two runs the same pairs
  (`SpansPaired`); removing one part of a pair breaks the link of the other, and changing one
  name would leave two. It rests on `MessageAssumption`: what the special rules look for in
  texts (`@`, `", "`) is in no tag's name, and `create_part()` makes of a slash and a name
  a closing part with that name. It cuts names at spaces, the quoted ones apart, and
  HTML's names have no quotes, no spaces and no `@`; the code does not look at the type of
  what it cuts.

  `AlwaysCrashesAtLastComma` adds `LastInv`: when the last part is a text that ends with a
  comma, so does the message, but for brackets (`EndedBy`); while parts are made, this is so
  of what was read and not yet put in one (`Read`), and no later pass makes a last text of
  anything else (`SameLast`). A first form of the property, in which the comma ends the
  message, was false: `<` or `<>` may follow it and make no part.

  `MarksAlwaysPaired`, from `LinksInv` and `MarksInv`: if no closing tag is stray, the
  output goes with the places of the openings that are closed later (`OpenAt`, in order,
  since pairs nest), the stack of contexts has their names and gave each its rule
  (`Stacked`), and the marks are the starts of these rules (`Marked`). A closing tag then
  closes the last of them (`OpenLast`), and finds the same rule, because it is looked for
  with the attributes of the opening one and under the same contexts (`LinkedAttributes`,
  `RuleIs`).

`WaitAlwaysBounded` has no run: it is about every setting of the waits. `OnlyTornLost`
and `AlwaysLoggedOnce` are about Delivery; `ImplementsDelivery` carries them to the
program that reads symbol by symbol, cut identifiers included, on the instance of
`page`.

Only model-checked: all liveness (`MessageSettled`, `KeepsReading`, `GoneIsParted`,
`WelcomedEnters`, `EverythingLogged`, `Ends`, `WelcomedJoins`), as fairness is out of the
prover's reach; that the calls are those the page means (`PageIsRead`), that the program
implements Delivery (`ImplementsDelivery`), and that Formatter keeps the words of a
message (`TextIsKept`).
What a page means, what an identifier written in digits stands for and what a filter
keeps of a list are defined by folds, that is by recursion, and the library's induction
theorems have operators for parameters, which no installed prover instantiates. Where a
proof needs an induction it takes the smallest number of a set instead (`Smallest` of
TextProofs, `LeastNumber` of AnswerProofs), which has carried no recursive definition so
far. `NeverFloods`, and `PostedIsSaid` with a line that follows, do not hold.

## Findings

1. **A post without an answer is repeated at once, for ever** (`poll_flood`,
   `main.c:649`): no wait and no retry is counted, against `main.c:614` and 710.
2. **A text being posted is overwritten by the next line** (`inputs_trail`,
   `ircserver.c:612`), against the promise of `main.c:690`.

Met while modelling, without a run of their own; the properties of the runs excuse
exactly these.

* *Main loop.* A poll forced during the login lets a message be posted with no
  login and no form tokens (`main.c:728`; `LoginIsComplete` excuses it by `skipped`).
  The retry counter charges the next message for errors of the last (`main.c:659`).
* *Delivery.* An identifier is recorded before its message, digit by digit, over the one
  before (`parsehtml.c:177`): a message cut after it is never read, and one cut within it
  may cost more. If 1309 is the last identifier and 1310 is cut after `131`, `msg.msgid`
  is 1319, and the next poll asks past ten messages, those not yet posted among them,
  until a login reads the whole page again. The comment of `main.c:536` promises "the id
  of the last message received". `OnlyTornIsLost` says that only messages whose
  identifiers begin with the digits received are asked past, and only by a cut. A
  backlog that is cut has known messages logged and sent to IRC again (`LoggedOnce`). String
  comparison stops logging the backlog when the identifiers' width grows
  (`main.c:136`).
* *Page.* A div within a div ends its message early
  (`parsehtml.c:253`; `SameCall`). A page with a form cut between its values leaves
  the new time with the old token (`formcut`).
* *Echo.* What is typed may be taken for what was said on IRC and kept back: they
  are compared by text only, and what was said is not forgotten when its post is
  given up (`ircserver.c:514`), against `main.c:156`. Nor is it when it was never sent,
  because a `PING` say came in the same `recv()` (`ircserver.c:606`). `EchoOnce` excuses
  these.
* *Channel.* In topic mode 3 a change is lost with a page cut before the end of its
  list (`ircserver.c:533`).
* *Typing.* A full line keeps a part of its last character in UTF-8; in other
  character sets a key of three bytes on the 999th has the end of the string written
  past the buffer (`gotcurses.c:441`, 351). Without curses, a last line with no end is posted
  for ever (`gottext.c:23`).
* *Configuration.* After the rewind the end-of-file character is still looked at, so
  the first line is skipped (`conf.c:71-83`). A tab in a value takes the rest of the line
  for another key's, and `key = v` gives `= v`.
* *Rules.* A last line without an end whose length is a multiple of 79 doubles its last
  piece; a carriage return on the edge of a piece is kept (`ini.c:140`).
* *Formatter.* `", "` as the last part after a called name follows a null pointer
  (`parser.c:742-746`; `CrashesAtLastComma` says it is the only one). A closing tag with no
  opening of its own takes another's place (`parser.c:554-560`). An `@` before a called
  name is removed with the one or two bytes that follow it, whatever they are
  (`parser.c:666-676`): of `x@ab<span>bob</span>` the `ab` is lost, against the comment of
  `parser.c:648`, which names a non-breaking space (`TextIsKept` allows for no other loss).
  A lone `<` takes the text that follows for a tag. The data of a part is kept after `</>`
  (`parser.c:508`), and `cstring_ends_with()` wraps on a string shorter than its end
  (`cstring.c:265-271`).
* *Former code.* A connection without a name yet is compared through a null pointer
  (`irc_server.c:467-471`), and a registrant may be freed while everybody is pinged
  (`mccirc.c:403-412`). Of several messages in one check the last is posted
  (`excused`). A join forced for a client that is gone, or a name that was changed,
  leaves a ghost (`ghosts`); the end of a join forgets whoever registered meanwhile
  (`robbed`). The user's message from elsewhere makes the next one of the web page be
  swallowed (`crossed`), against the comment of `mccirc.c:217-218`.

## Assumptions of the models

The forum lists messages by increasing identifier, gives all newer ones in
`read` mode, whatever identifier it is asked from, and returns texts unaltered as far as `irc_message()` compares
them. Its pages are those `Html` writes: whole tags, in the forum's order. Identifiers
that follow each other differ by one digit in width at most, so that what is written over
one cannot reach past the end of its string. Names of tags have no quotes and no `@`. IRC
lines are shorter than `linebuffer`. In OwnEcho the IRC client stays in the
channel. A person has one name. Memory allocation succeeds. In the former server
lines come whole, names need no clean-up, nobody is called "NULL" (the models' null
pointer) and there is one channel.

## Plan

Done, in this order: PollLoop and PollHistory with their proofs; Nicklist,
IrcServer, Channel and theirs; Delivery, Journal and theirs; OwnEcho; Inputs; the
answers of the forum (Cookies, PageParser, Answer), with the refinements of Delivery and
CookieStore; Conf, Ini and Formatter; the former server; the proofs of OwnEcho, of the
jar, of Inputs, of the former server, of the configuration, of the lines of rules, of
the links, the last part and the marks of a message, and of what the jar and the form
keep of the answers.

Next:

1. What Answer reads: `PageIsRead`, part by part, as `TokensAlwaysPaired` does for the form; then
   `ImplementsDelivery`, which needs identifiers read back, digit by digit, as written.
2. An abstract **Room** that Channel implements: what a client in the channel may
   be told of people and topics.
3. The display without curses (`gottext.c` over `cstring_readline()`) as another source
   of Inputs.

## Not modelled

Text: `strfunctions.c` (but the bytes of a character), `entities.c` and the wording of
what is sent to the server, the log and the IRC client. Input and output:
`network.c`, the windows and the TLS object. Replies of the IRC server that change
nothing (PING, WHOIS, AWAY, ISON, LIST, errors), idents and the formatting of the list
of people. Memory management, but for the pointers the properties name. The
operations of `CUtils` that the modelled code does not use. Third party code.
