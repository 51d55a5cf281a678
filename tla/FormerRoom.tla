----------------------------- MODULE FormerRoom -----------------------------
(***************************************************************************)
(* oldcode/mccirc.c: the former plugin itself, over FormerServer.  The     *)
(* program calls it from its main loop: mccirc_check_message() to let the  *)
(* server work and get what to post, and the others when a page of the     *)
(* forum says something.  `ffname' is the name on the forum of the user,   *)
(* who may also speak from elsewhere.                                      *)
(***************************************************************************)
EXTENDS FormerServer

CONSTANTS
  ForumNames,       \* the other people on the forum
  ffname,           \* the user's own name there
  JoinDelay,        \* checks before a join is forced: 20 in the code
  MaxEvents         \* bound: what the pages of the forum say

ASSUME PluginAssumption ==
  JoinDelay \in Nat /\ NULL \notin ForumNames \cup {ffname} \cup IrcNicks

VARIABLES
  username,         \* the last client that registered
  juser, jpending,  \* who is to be made to join, and checks since
  last_message,     \* whether it is set
  buffer,           \* the message to post: its number, Relayed, or None
  events,           \* what the pages have said so far
  said,             \* history: messages of the user, numbered
  fresh,            \* those of this check, in order
  excused,          \* those that others followed in a check, and those that came
                    \* while a join was forced
  posted,           \* those that were posted
  waiting,          \* those that a page has not shown yet
  crossed,          \* whether another message, of the user or of whoever is taken
                    \* for the user, was shown meanwhile
  robbed,           \* who lost a join to the end of another's
  ghosts            \* the names that clients left for others, and of those made
                    \* to join when they were gone

plugin  == <<username, juser, jpending, last_message, buffer>>
history == <<said, fresh, excused, posted, waiting, crossed, robbed, ghosts>>
vars    == <<server, plugin, events, history>>

None    == 0
Relayed == -1

Init ==
  /\ ServerInit
  /\ username = NULL /\ juser = NULL /\ jpending = 0
  /\ last_message = FALSE /\ buffer = None /\ events = 0
  /\ said = 0 /\ fresh = << >> /\ excused = {} /\ posted = {}
  /\ waiting = {} /\ crossed = FALSE /\ robbed = {}
  /\ ghosts = {}

\* mccirc_is_me(): also whoever it is, before a client registers.
mccirc_is_me(n) == username = NULL \/ n \in {username, ffname}

\* mccirc_get_user(): who is in the channel, whatever the name.
mccirc_get_user(n) == n \in room

\* mccirc_create_user(): somebody of the forum joins.
Created(n) == Added(n)

Idle == ~crashed /\ callback = Nothing /\ stack = << >>
Due(what) == ~crashed /\ callback.what = what
-----------------------------------------------------------------------------
(* Callbacks of the server.                                                *)

\* on_server_register() pings everybody, and the server works meanwhile.
on_server_register ==
  /\ Due("register")
  /\ PingAll
  /\ stack' = Call("pinged", callback.con, NULL) /\ callback' = Nothing
  /\ UNCHANGED <<conns, room, plugin, events, history>>

\* Then the client is the user's, when it is still there.
Pinged ==
  /\ Due("pinged")
  /\ callback' = Nothing
  /\ IF callback.con \notin ToSet(clients)
       THEN Crash /\ UNCHANGED <<room, username, juser, jpending>>
       ELSE LET n == nick[callback.con]
            IN  /\ username' = n /\ juser' = n /\ jpending' = 0
                /\ room' = Removed(n)
                /\ Tell(room') \/ NoWrite       \* the topic, if there is one
  /\ UNCHANGED <<conns, stack, last_message, buffer, events, history>>

\* What the buffer holds then: what a client said, or what the program made the
\* user say.
Hear(c) == IF c = NoCon THEN Relayed ELSE said + 1

\* Mutant: an echo is waited for only when none is.
RememberBug == ~last_message

Remember == TRUE

on_server_message ==
  /\ Due("message") /\ callback' = Nothing
  /\ IF username # NULL /\ mccirc_is_me(callback.nick)
       THEN /\ last_message' = Remember /\ buffer' = Hear(callback.con)
            /\ IF callback.con = NoCon THEN UNCHANGED <<said, fresh>>
               ELSE said' = said + 1 /\ fresh' = Append(fresh, said + 1)
       ELSE UNCHANGED <<last_message, buffer, said, fresh>>
  /\ UNCHANGED <<conns, writes, room, stack, username, juser, jpending, events,
                 excused, posted, waiting, crossed, robbed, ghosts>>
-----------------------------------------------------------------------------
(* mccirc_check_message().                                                 *)

\* A join that waited enough is forced; everybody is pinged before.
ForceJoin ==
  /\ Idle /\ juser # NULL /\ jpending = JoinDelay
  /\ jpending' = jpending + 1
  /\ PingAll
  /\ stack' = Call("force", NoCon, juser)
  /\ UNCHANGED <<conns, room, callback, username, juser, last_message, buffer, events, history>>

\* Then that user joins; whoever waits by now is forgotten.
Joined ==
  /\ Due("force")
  /\ IF mccirc_get_user(callback.nick) THEN NoWrite /\ UNCHANGED room ELSE irc_server_join(callback.nick)
  /\ juser' = NULL
  /\ robbed' = IF juser \in {NULL, callback.nick} THEN robbed ELSE robbed \cup {juser}
  /\ ghosts' = ghosts \cup ({callback.nick} \ {nick[c] : c \in ToSet(clients)})
  /\ callback' = Calls("work", NoCon, NULL)
  /\ UNCHANGED <<conns, stack, username, jpending, last_message, buffer, events,
                 said, fresh, excused, posted, waiting, crossed>>

\* Mutant: what was relayed since is still there.
EmptiedBug == buffer

Emptied == None

\* Mutant: only the program's first checks are counted.
CountedBug == Min({jpending + 1, JoinDelay - 1})

Counted == jpending + 1

\* The buffer is emptied and the server works.
Check ==
  /\ \/ Idle /\ ~(juser # NULL /\ jpending = JoinDelay)
     \/ Due("work")
  /\ jpending' = IF Idle /\ juser # NULL THEN Counted ELSE jpending
  /\ buffer' = Emptied /\ fresh' = << >> /\ excused' = excused \cup ToSet(fresh)
  /\ stack' = Call("check", NoCon, NULL) /\ callback' = Nothing
  /\ UNCHANGED <<conns, writes, room, username, juser, last_message, events,
                 said, posted, waiting, crossed, robbed, ghosts>>

\* The program posts what it got.
Checked ==
  /\ Due("check") /\ callback' = Nothing
  /\ posted' = IF buffer = None THEN posted ELSE posted \cup {buffer}
  /\ waiting' = IF buffer = None THEN waiting ELSE waiting \cup {buffer}
  /\ crossed' = (IF buffer = None THEN crossed ELSE waiting # {})
  /\ excused' = IF fresh = << >> THEN excused ELSE excused \cup ToSet(Front(fresh))
  /\ fresh' = << >>
  /\ UNCHANGED <<conns, writes, room, stack, plugin, events, said, robbed, ghosts>>
-----------------------------------------------------------------------------
(* What a page of the forum says.                                          *)

Event == Idle /\ events < MaxEvents /\ events' = events + 1

\* mccirc_chatserver_message(): the user's own is not shown when one is
\* remembered; others come into the channel to speak.
Swallow(n) ==
  /\ mccirc_is_me(n) /\ last_message
  /\ last_message' = FALSE
  /\ UNCHANGED <<writes, room, callback>>

Relay(n) ==
  /\ ~(mccirc_is_me(n) /\ last_message)
  /\ room' = Created(n)
  /\ IF username \in room'
       THEN /\ TellAmong({Channel} \cup room', room')
            /\ callback' = Calls("message", NoCon, n)
       ELSE (IF mccirc_get_user(n) THEN NoWrite ELSE Tell(room')) /\ UNCHANGED callback
  /\ UNCHANGED last_message

mccirc_chatserver_message(n) ==
  (Swallow(n) \/ Relay(n)) /\ UNCHANGED <<conns, stack, username, juser, jpending, buffer>>

\* Somebody speaks, or the user from elsewhere; whoever has the name of the client
\* is taken for the user.
Other ==
  /\ Event /\ username # NULL
  /\ \E n \in ForumNames \cup {ffname} :
       /\ mccirc_chatserver_message(n)
       /\ crossed' = (crossed \/ (mccirc_is_me(n) /\ waiting # {}))
  /\ UNCHANGED <<said, fresh, excused, posted, waiting, robbed, ghosts>>

\* A message that was posted is shown, the oldest first.
Shown ==
  /\ Event /\ username # NULL /\ waiting # {}
  /\ mccirc_chatserver_message(ffname)
  /\ waiting' = waiting \ {Min(waiting)}
  /\ UNCHANGED <<said, fresh, excused, posted, crossed, robbed, ghosts>>

\* mccirc_nicks_start(), mccirc_nicks_add() for each name, mccirc_nicks_stop().
Nicks ==
  /\ Event /\ username # NULL
  /\ \E listed \in SUBSET (ForumNames \cup {ffname}) :
       LET here    == {n \in room : mccirc_is_me(n)} \cup {n \in listed : ~mccirc_is_me(n)}
           changes == room # here
       IN  /\ room' = here
           /\ IF changes THEN Tell(room \cup room') ELSE NoWrite
  /\ UNCHANGED <<conns, stack, callback, plugin, history>>

mccirc_topic ==
  /\ Event
  /\ irc_server_topic
  /\ UNCHANGED <<conns, stack, callback, plugin, history>>

ServerStep ==
  /\ ServerNext
  /\ ghosts' = ghosts \cup {nick[c] : c \in {d \in Ids : nick[d] \notin {nick'[d], NULL}}}
  /\ UNCHANGED <<plugin, events, said, fresh, excused, posted, waiting, crossed, robbed>>

Next ==
  \/ ServerStep
  \/ on_server_register \/ Pinged \/ on_server_message
  \/ ForceJoin \/ Joined \/ Check \/ Checked
  \/ Other \/ Shown \/ Nicks \/ mccirc_topic

Spec     == Init /\ [][Next]_vars
FairSpec == Spec /\ WF_vars(Next)
-----------------------------------------------------------------------------
\* What the user says is posted, and nothing else is, when no other message of
\* the user follows in the same check and no join is being forced: the buffer
\* holds one message (mccirc.c:145-173, 359-388).
SaidIsPosted ==
  /\ posted \subseteq 1 .. said
  /\ Idle => 1 .. said \subseteq posted \cup excused

\* A message that was posted is not shown to the user again, when the pages show
\* no other message of the user between (mccirc.c:217-228, 376).
EchoOnce ==
  [][waiting' # waiting /\ waiting' \subseteq waiting /\ callback' # Nothing => crossed]_vars

\* Nobody stays in the channel after the client is gone, but for a name that was
\* changed there and for a join forced too late: the other names are those of
\* the forum (irc_server.c:922-930, mccirc.c:282-352, 438-447).
NobodyStays ==
  crashed \/ room \subseteq ForumNames \cup {ffname} \cup {nick[c] : c \in ToSet(clients)} \cup ghosts

\* Whoever is welcomed ends up in the channel, unless another registers before
\* the join is forced, or while it is (mccirc.c:151-159, 430-447).
WelcomedJoins ==
  \A n \in IrcNicks \cup {""} :
     (juser = n) ~> (n \in room \cup robbed \/ juser \notin {n, NULL} \/ crashed)
=============================================================================
