---------------------------- MODULE FormerServer ----------------------------
(***************************************************************************)
(* oldcode/CIrc: the IRC server of the program's former plugin, a library  *)
(* that runs inside irc_server_do_work().  A callback of the program may   *)
(* call that function again while it runs: the calls under way are a       *)
(* stack.  The program's side of the callbacks is module FormerRoom.       *)
(* Connections are numbered in the order they come.  Texts are left out.   *)
(***************************************************************************)
EXTENDS Integers, FiniteSets, SequencesExt

CONSTANTS
  Connections,      \* bound: how many clients ever connect
  MaxLines,         \* bound: the lines they send
  MaxFails,         \* bound: writes that fail
  IrcNicks,         \* the names clients take
  Channel           \* the name of the only channel

ASSUME BoundsAssumption == {Connections, MaxLines, MaxFails} \subseteq Nat

VARIABLES
  accepted,         \* connections so far
  clients,          \* self->clients
  nick,             \* each connection's user->nick
  handled,          \* connections with an irc_client
  dead,             \* those whose client was stopped by a write that failed
  fails,            \* writes that may still fail
  lines,            \* lines sent so far
  room,             \* chan->users: their names
  stack,            \* the calls of irc_server_do_work() under way
  callback,         \* what the program has to do before the last goes on
  crashed           \* a NULL or freed pointer was used

conns   == <<accepted, clients, nick, handled, lines>>
writes  == <<dead, fails, crashed>>
server  == <<conns, writes, room, stack, callback>>

Ids    == 1 .. Connections
NULL   == "NULL"
NoCon  == 0
Nothing == [what |-> "nothing", con |-> NoCon, nick |-> NULL]
Calls(what, c, n) == [what |-> what, con |-> c, nick |-> n]

ServerInit ==
  /\ accepted = 0 /\ clients = << >> /\ nick = [c \in Ids |-> NULL]
  /\ handled = {} /\ dead = {} /\ fails = MaxFails /\ lines = 0
  /\ room = {} /\ stack = << >> /\ callback = Nothing /\ crashed = FALSE

Work  == stack[Len(stack)]
Ready == ~crashed /\ callback = Nothing /\ stack # << >>
-----------------------------------------------------------------------------
(* What handlers are made of.                                              *)

\* irc_client_raw(): a write that fails stops the client.
Write(cons) ==
  /\ \E failed \in SUBSET (cons \ dead) :
       Cardinality(failed) <= fails /\ dead' = dead \cup failed /\ fails' = fails - Cardinality(failed)
  /\ UNCHANGED crashed

NoWrite == UNCHANGED writes
Crash   == crashed' = TRUE /\ UNCHANGED <<dead, fails>>

\* irc_server_get_connection(): the first with that name.  A connection before it
\* that has no name yet is compared through a null pointer.
Matches(n) == {x \in DOMAIN clients : nick[clients[x]] = n}
get_connection(n) == IF Matches(n) = {} THEN {} ELSE {clients[Min(Matches(n))]}
CrashesOn(n) ==
  \E x \in DOMAIN clients : nick[clients[x]] = NULL /\ \A y \in Matches(n) : x < y

\* Each of these people is told something, if connected; some names are only
\* looked for.
TellAmong(names, told) ==
  IF \E n \in names : CrashesOn(n) THEN Crash
  ELSE Write(UNION {get_connection(n) : n \in told})
Tell(names) == TellAmong(names, names)

\* irc_chan_add_user(): a copy of the user, known by its name.
Added(n) == room \cup {n}

\* irc_server_join(): one who is there already is answered again.
irc_server_join(n) ==
  /\ room' = Added(n)
  /\ Tell(IF n \in room THEN {n} ELSE room')

\* irc_server_part() tells it, and nobody is removed.
irc_server_part(n) == Tell(room \cup {n}) /\ UNCHANGED room

irc_server_topic == Tell(room) /\ UNCHANGED room

\* irc_server_privmsg_int(): to a person, or to all who are in the channel.
irc_server_privmsg_int(target, n, notify) ==
  LET whom == IF get_connection(target) # {} THEN {target} ELSE room
  IN  TellAmong({target} \cup whom, IF notify THEN whom ELSE whom \ {n})

\* irc_server_rpl_register(): the welcome, then the program's callback.
irc_server_rpl_register(c) ==
  Write({c}) /\ callback' = Calls("register", c, NULL)

\* irc_server_ping_all(), before it works: a connection that was never visited
\* has no client.
PingAll ==
  IF ToSet(clients) \subseteq handled THEN Write(ToSet(clients)) ELSE Crash

\* A call of irc_server_do_work(), and what the program does after it.
Call(then, c, n) ==
  Append(stack, [step |-> "accept", con |-> NoCon, left |-> 0, work |-> FALSE,
                 then |-> Calls(then, c, n)])
-----------------------------------------------------------------------------
(* irc_server_on_all_do(): a line.  Clients send NICK or USER first.       *)

Unnamed(c) == nick[c] = NULL

\* irc_user_set_hostmask(): the name is what comes before the "!".
Named(c, n) == [nick EXCEPT ![c] = n]

\* The second of NICK and USER registers, and each one after it.
Nick(c, n) ==
  /\ nick' = Named(c, n)
  /\ IF Unnamed(c) THEN NoWrite /\ UNCHANGED callback ELSE irc_server_rpl_register(c)
  /\ UNCHANGED room

\* The name after USER: the one it has, or the empty one.
UserName(n) == IF n = NULL THEN "" ELSE n

User(c) ==
  /\ nick' = Named(c, UserName(nick[c]))
  /\ IF Unnamed(c) THEN NoWrite /\ UNCHANGED callback ELSE irc_server_rpl_register(c)
  /\ UNCHANGED room

Join(c)  == irc_server_join(nick[c]) /\ UNCHANGED <<nick, callback>>
Part(c)  == irc_server_part(nick[c]) /\ UNCHANGED <<nick, callback>>
Topic(c) == irc_server_topic /\ UNCHANGED <<nick, callback>>

\* PING, NAMES, WHO, and TOPIC without a text.
Ask(c)   == Write({c}) /\ UNCHANGED <<nick, callback, room>>

Privmsg(c, target) ==
  /\ irc_server_privmsg_int(target, nick[c], FALSE)
  /\ callback' = Calls("message", c, nick[c])
  /\ UNCHANGED <<nick, room>>

OnLine(c) ==
  \/ \E n \in IrcNicks : Nick(c, n)
  \/ User(c)
  \/ /\ ~Unnamed(c)
     /\ \/ Join(c) \/ Part(c) \/ Topic(c) \/ Ask(c)
        \/ \E target \in IrcNicks \cup {Channel} : Privmsg(c, target)
-----------------------------------------------------------------------------
(* irc_server_do_work(), node by node.                                     *)

Continue(frame) == stack' = [stack EXCEPT ![Len(stack)] = frame]

\* The place of c's node, and the node after it, read before c is removed.
Place(c) == CHOOSE x \in DOMAIN clients : clients[x] = c
After(c) == IF Place(c) = Len(clients) THEN NoCon ELSE clients[Place(c) + 1]

AtNode(frame, c) == [frame EXCEPT !.step = "visit", !.con = c]

Accept ==
  /\ Ready /\ Work.step = "accept"
  /\ \E k \in 0 .. Connections - accepted :
       /\ clients' = clients \o [x \in 1 .. k |-> accepted + x]
       /\ accepted' = accepted + k
       /\ Continue([AtNode(Work, IF clients' = << >> THEN NoCon ELSE Head(clients'))
                      EXCEPT !.work = k > 0])
  /\ UNCHANGED <<nick, handled, lines, writes, room, callback>>

\* Mutant: users are compared by address, and those of the channel are copies.
RemovedBug(n) == room

\* irc_chan_remove_user(), by name.
Removed(n) == room \ {n}

\* irc_server_client_died(): its connection is freed.  Its name is compared with
\* those in the channel, even when it has none.
RemoveDead ==
  /\ Ready /\ Work.step = "visit" /\ Work.con \in handled \cap dead
  /\ IF Unnamed(Work.con) /\ room # {} THEN Crash ELSE NoWrite
  /\ room' = Removed(nick[Work.con])
  /\ clients' = RemoveAt(clients, Place(Work.con))
  /\ Continue(AtNode(Work, After(Work.con)))
  /\ UNCHANGED <<accepted, nick, handled, lines, callback>>

\* irc_client_do_work() reads lines, all of them whole here.  What they say is
\* chosen when they are handled: so the rest of an older read, which may follow
\* them in the buffer, is lines like others.
Read ==
  /\ Ready /\ Work.step = "visit" /\ Work.con \notin (handled \cap dead) \cup {NoCon}
  /\ handled' = handled \cup {Work.con}
  /\ \E k \in 0 .. MaxLines - lines :
       /\ lines' = lines + k
       /\ IF k = 0 THEN Continue(AtNode(Work, After(Work.con)))
                   ELSE Continue([Work EXCEPT !.step = "lines", !.left = k, !.work = TRUE])
  /\ UNCHANGED <<accepted, clients, nick, writes, room, callback>>

HandleLine ==
  /\ Ready /\ Work.step = "lines" /\ Work.left > 0
  /\ OnLine(Work.con)
  /\ Continue([Work EXCEPT !.left = @ - 1])
  /\ UNCHANGED <<accepted, clients, handled, lines>>

EndOfLines ==
  /\ Ready /\ Work.step = "lines" /\ Work.left = 0
  /\ Continue(AtNode(Work, After(Work.con)))
  /\ UNCHANGED <<conns, writes, room, callback>>

\* A pass that found something to do is followed by another.
EndOfPass ==
  /\ Ready /\ Work.step = "visit" /\ Work.con = NoCon
  /\ IF Work.work THEN Continue([Work EXCEPT !.step = "accept"]) /\ UNCHANGED callback
                  ELSE stack' = Front(stack) /\ callback' = Work.then
  /\ UNCHANGED <<conns, writes, room>>

ServerNext == Accept \/ RemoveDead \/ Read \/ HandleLine \/ EndOfLines \/ EndOfPass
=============================================================================
