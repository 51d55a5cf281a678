---------------------------- MODULE FormerProofs ----------------------------
(***************************************************************************)
(* FormerRoom, for any number of connections, lines and failures: the      *)
(* calls of irc_server_do_work() nest, and the program's side of the       *)
(* callbacks still holds together.                                         *)
(***************************************************************************)
EXTENDS FormerRoom, SequenceTheorems, TLAPS

USE BoundsAssumption, PluginAssumption

Names     == IrcNicks \cup ForumNames \cup {ffname, "", NULL}
Conns     == Ids \cup {NoCon}
Callbacks == [what : {"nothing", "register", "pinged", "message", "force", "work", "check"},
              con : Conns, nick : Names]
Frames    ==
  {f \in [step : {"accept", "visit", "lines"}, con : Conns, left : Int, work : BOOLEAN,
          then : Callbacks] :
     f.step = "lines" => f.con # NoCon}

ConnTypes == /\ accepted \in 0 .. Connections /\ clients \in Seq(Ids) /\ handled \subseteq Ids
             /\ lines \in Nat
NameTypes == /\ nick \in [Ids -> Names] /\ room \subseteq Names \ {NULL}
             /\ username \in Names /\ juser \in Names
CallTypes == stack \in Seq(Frames) /\ callback \in Callbacks

\* The program calls the server once at a time, and callbacks call it again: each
\* call is for the connection the one under it is at,
Nested ==
  /\ stack # << >> => /\ stack[1].then.what \in {"check", "force"}
                      /\ stack[1].then.what = "force" => stack[1].then.nick # NULL
  /\ \A x \in 1 .. Len(stack) - 1 :
       stack[x + 1].then.what = "pinged" /\ stack[x + 1].then.con = stack[x].con

\* and so is the callback of the last.
Answers ==
  /\ callback.what \in {"check", "force", "work"} => stack = << >>
  /\ callback.what = "force" => callback.nick # NULL
  /\ callback.what \in {"register", "pinged"} => stack # << >> /\ callback.con = Work.con
  /\ callback.what = "message" => (callback.con = NoCon <=> stack = << >>)

\* The last call is at a connection there is, unless callbacks were under way.
AtClient ==
  ~crashed /\ stack # << >> /\ callback.what # "pinged" =>
    Work.con \in ToSet(clients) \cup {NoCon}

CallInv == ConnTypes /\ NameTypes /\ CallTypes /\ Nested /\ Answers /\ AtClient

InCheck ==
  callback.what = "check" \/ (stack # << >> /\ stack[1].then.what = "check")

\* What the user says and is not posted or excused yet is what the check heard; the
\* last of it is in the buffer, and remembered.
Heard ==
  /\ said \in Nat /\ fresh \in Seq(1 .. said) /\ posted \subseteq 1 .. said
  /\ 1 .. said \subseteq posted \cup excused \cup ToSet(fresh)
  /\ stack = << >> /\ callback.what \in {"nothing", "message"} => fresh = << >>
  /\ InCheck => /\ buffer = IF fresh = << >> THEN None ELSE fresh[Len(fresh)]
                /\ buffer # None => last_message

\* A message that no other has crossed is alone, and remembered.
Alone == waiting # {} /\ ~crossed => last_message /\ \E m \in Nat : waiting = {m}
-----------------------------------------------------------------------------
(* The calls of the server.                                                *)

\* The last call.
LEMMA LastCall ==
  ASSUME CallTypes, stack # << >>
  PROVE  /\ Len(stack) \in Nat \ {0} /\ Work \in Frames /\ Work = stack[Len(stack)]
         /\ stack[1] \in Frames
<1>1. Len(stack) \in Nat \ {0}
  BY EmptySeq DEF CallTypes
<1>2. stack[1] \in Frames /\ stack[Len(stack)] \in Frames
  BY <1>1, ElementOfSeq DEF CallTypes
<1> QED
  BY <1>1, <1>2 DEF Work

\* It goes on.
LEMMA CallGoesOn ==
  ASSUME CallTypes, Nested, stack # << >>, NEW f \in Frames, f.then = Work.then, Continue(f)
  PROVE  /\ stack' \in Seq(Frames) /\ stack' # << >> /\ Work' = f /\ Nested'
         /\ stack'[1].then = stack[1].then
<1> DEFINE n == Len(stack)
<1>1. n \in Nat \ {0} /\ Work = stack[n] /\ stack \in Seq(Frames)
  BY LastCall DEF CallTypes
<1>2. stack' = [stack EXCEPT ![n] = f]
  BY DEF Continue
<1> HIDE DEF n
<1>3. /\ stack' \in Seq(Frames) /\ Len(stack') = n /\ stack'[n] = f
      /\ \A x \in 1 .. n : x # n => stack'[x] = stack[x]
      /\ \A x \in 1 .. n : stack'[x].then = stack[x].then
  BY <1>1, <1>2, ExceptSeq DEF n
<1>4. stack' # << >> /\ Work' = f
  BY <1>1, <1>3, EmptySeq DEF Work
<1>5. stack'[1].then = stack[1].then
  BY <1>1, <1>3
<1>6. ASSUME NEW x \in 1 .. n - 1
      PROVE  stack'[x + 1].then.what = "pinged" /\ stack'[x + 1].then.con = stack'[x].con
  <2>1. x \in 1 .. n /\ x + 1 \in 1 .. n /\ x # n
    BY <1>1
  <2>2. stack'[x + 1].then = stack[x + 1].then /\ stack'[x] = stack[x]
    BY <1>3, <2>1
  <2> QED
    BY <2>2 DEF Nested, n
<1>7. Nested'
  BY <1>3, <1>5, <1>6, <1>1, EmptySeq DEF Nested
<1> QED
  BY <1>3, <1>4, <1>5, <1>7

\* Another is made, for the connection it is at.
LEMMA CallMade ==
  ASSUME CallTypes, Nested, NEW what \in {"check", "force", "pinged"}, NEW c \in Conns,
         NEW n \in Names, stack' = Call(what, c, n),
         IF stack = << >> THEN what \in {"check", "force"} /\ (what = "force" => n # NULL)
                          ELSE what = "pinged" /\ c = Work.con
  PROVE  /\ stack' \in Seq(Frames) /\ stack' # << >> /\ Nested'
         /\ Work'.step = "accept" /\ Work'.con = NoCon
         /\ stack'[1].then = IF stack = << >> THEN Calls(what, c, n) ELSE stack[1].then
<1> DEFINE f == [step |-> "accept", con |-> NoCon, left |-> 0, work |-> FALSE,
                 then |-> Calls(what, c, n)]
           m == Len(stack)
<1>1. f \in Frames /\ f.step = "accept" /\ f.con = NoCon /\ f.then = Calls(what, c, n)
  BY DEF Frames, Callbacks, Calls, Conns
<1>2. stack' = Append(stack, f) /\ stack \in Seq(Frames) /\ m \in Nat
  BY LenProperties DEF Call, CallTypes
<1> HIDE DEF f
<1>3. /\ stack' \in Seq(Frames) /\ Len(stack') = m + 1 /\ stack'[m + 1] = f
      /\ \A x \in 1 .. m : stack'[x] = stack[x]
  BY <1>1, <1>2, AppendProperties
<1>4. stack' # << >> /\ Work' = f
  BY <1>2, <1>3, EmptySeq DEF Work
<1>5. f.then.what = what /\ f.then.con = c /\ f.then.nick = n
  BY <1>1 DEF Calls
<1>6. CASE stack = << >>
  <2>1. m = 0 /\ stack'[1] = f
    BY <1>3, <1>6, EmptySeq
  <2>2. Nested'
    BY <1>3, <1>5, <1>6, <2>1 DEF Nested
  <2> QED
    BY <1>1, <1>3, <1>4, <1>6, <2>1, <2>2
<1>7. CASE stack # << >>
  <2>1. m \in Nat \ {0} /\ Work = stack[m]
    BY <1>7, LastCall
  <2>2. stack'[1] = stack[1]
    BY <1>3, <2>1
  <2>3. ASSUME NEW x \in 1 .. m
        PROVE  stack'[x + 1].then.what = "pinged" /\ stack'[x + 1].then.con = stack'[x].con
    <3>1. CASE x = m
      BY <1>3, <1>5, <1>7, <2>1, <3>1
    <3>2. CASE x # m
      <4>1. x \in 1 .. m - 1 /\ x + 1 \in 1 .. m
        BY <2>1, <3>2
      <4> QED
        BY <1>3, <4>1 DEF Nested
    <3> QED
      BY <3>1, <3>2
  <2>4. Nested'
    BY <1>3, <1>7, <2>1, <2>2, <2>3 DEF Nested
  <2> QED
    BY <1>1, <1>3, <1>4, <1>7, <2>2, <2>4
<1> QED
  BY <1>6, <1>7

\* It ends, and what the program does then is for the one under it.
LEMMA CallEnds ==
  ASSUME CallTypes, Nested, stack # << >>, stack' = Front(stack), callback' = Work.then
  PROVE  /\ CallTypes' /\ Nested' /\ Answers'
         /\ stack' # << >> => callback'.what = "pinged" /\ stack'[1].then = stack[1].then
         /\ stack' = << >> => callback' = stack[1].then
<1> DEFINE n == Len(stack)
<1>1. n \in Nat \ {0} /\ Work = stack[n] /\ Work \in Frames /\ stack \in Seq(Frames)
  BY LastCall DEF CallTypes
<1> HIDE DEF n
<1>2. /\ stack' \in Seq(Frames) /\ Len(stack') = n - 1
      /\ \A x \in 1 .. n - 1 : stack'[x] = stack[x]
  <2>1. stack' = SubSeq(stack, 1, n - 1)
    BY DEF Front, n
  <2>2. \A x \in 1 .. n - 1 : stack[x] \in Frames
    BY <1>1, ElementOfSeq DEF n
  <2> QED
    BY <1>1, <2>1, <2>2, SubSeqProperties
<1>3. callback' \in Callbacks
  BY <1>1 DEF Frames
<1>4. CASE n = 1
  <2>1. stack' = << >> /\ callback' = stack[1].then
    BY <1>1, <1>2, <1>4, EmptySeq
  <2>2. Nested' /\ Answers'
    BY <1>2, <1>4, <2>1 DEF Nested, Answers
  <2> QED
    BY <1>2, <1>3, <2>1, <2>2 DEF CallTypes
<1>5. CASE n # 1
  <2>1. n - 1 \in 1 .. n - 1 /\ 1 \in 1 .. n - 1 /\ n - 1 + 1 = n
    BY <1>1, <1>5
  <2>2. stack' # << >> /\ Work' = stack[n - 1] /\ stack'[1] = stack[1]
    BY <1>2, <2>1, EmptySeq DEF Work
  <2>3. callback'.what = "pinged" /\ callback'.con = Work'.con
    BY <1>1, <2>1, <2>2 DEF Nested, n
  <2>4. Answers'
    BY <2>2, <2>3 DEF Answers
  <2>5. ASSUME NEW x \in 1 .. n - 1 - 1
        PROVE  stack'[x + 1].then.what = "pinged" /\ stack'[x + 1].then.con = stack'[x].con
    <3>1. x \in 1 .. n - 1 /\ x + 1 \in 1 .. n - 1
      BY <1>1
    <3> QED
      BY <1>2, <3>1 DEF Nested, n
  <2>6. Nested'
    BY <1>1, <1>2, <2>2, <2>5 DEF Nested
  <2> QED
    BY <1>2, <1>3, <2>2, <2>3, <2>4, <2>6 DEF CallTypes
<1> QED
  BY <1>4, <1>5

\* Who is on a list, by place.
LEMMA OnList ==
  ASSUME NEW S, NEW s \in Seq(S)
  PROVE  /\ ToSet(s) \subseteq S
         /\ \A c : c \in ToSet(s) <=> \E x \in 1 .. Len(s) : s[x] = c
BY LenProperties, ElementOfSeq DEF ToSet

\* A client on the list has a place, and the one after it is on the list too.
LEMMA Placed ==
  ASSUME ConnTypes, NEW c \in ToSet(clients)
  PROVE  /\ Place(c) \in 1 .. Len(clients) /\ clients[Place(c)] = c
         /\ After(c) \in ToSet(clients) \cup {NoCon}
<1>1. clients \in Seq(Ids) /\ DOMAIN clients = 1 .. Len(clients) /\ Len(clients) \in Nat
  BY LenProperties DEF ConnTypes
<1>2. Place(c) \in 1 .. Len(clients) /\ clients[Place(c)] = c
  BY <1>1 DEF ToSet, Place
<1>3. CASE Place(c) = Len(clients)
  BY <1>2, <1>3 DEF After
<1>4. CASE Place(c) # Len(clients)
  <2>1. Place(c) + 1 \in 1 .. Len(clients)
    BY <1>1, <1>2, <1>4
  <2> QED
    BY <1>1, <1>2, <1>4, <2>1, OnList DEF After
<1> QED
  BY <1>2, <1>3, <1>4

\* Once it is removed, nobody else is, and the one after it is there.
LEMMA Removal ==
  ASSUME ConnTypes, NEW c \in ToSet(clients), clients' = RemoveAt(clients, Place(c))
  PROVE  /\ clients' \in Seq(Ids)
         /\ ToSet(clients) \subseteq ToSet(clients') \cup {c}
         /\ After(c) \in ToSet(clients') \cup {NoCon}
<1> DEFINE n == Len(clients)
           p == Place(c)
           a == SubSeq(clients, 1, p - 1)
           b == SubSeq(clients, p + 1, n)
<1>1. clients \in Seq(Ids) /\ n \in Nat /\ p \in 1 .. n /\ clients[p] = c
  BY Placed, LenProperties DEF ConnTypes
<1>2. \A x \in 1 .. n : clients[x] \in Ids
  BY <1>1, ElementOfSeq
<1>3. clients' = a \o b
  BY DEF RemoveAt
<1> HIDE DEF p
<1>4. a \in Seq(Ids) /\ Len(a) = p - 1 /\ \A x \in 1 .. p - 1 : a[x] = clients[x]
  BY <1>1, <1>2, SubSeqProperties
<1>5. b \in Seq(Ids) /\ Len(b) = n - p /\ \A x \in 1 .. n - p : b[x] = clients[p + x]
  <2>1. /\ b \in Seq(Ids) /\ Len(b) = (IF p + 1 <= n THEN n - (p + 1) + 1 ELSE 0)
        /\ \A x \in 1 .. n - (p + 1) + 1 : b[x] = clients[p + 1 + x - 1]
    <3>1. p + 1 \in Int /\ n \in Int /\ \A x \in p + 1 .. n : clients[x] \in Ids
      BY <1>1, <1>2
    <3> HIDE DEF n
    <3> QED
      BY <3>1, SubSeqProperties
  <2> HIDE DEF b, n
  <2>2. (IF p + 1 <= n THEN n - (p + 1) + 1 ELSE 0) = n - p /\ n - (p + 1) + 1 = n - p
    BY <1>1
  <2>3. \A x \in 1 .. n - p : p + 1 + x - 1 = p + x
    BY <1>1
  <2> QED
    BY <2>1, <2>2, <2>3, Zenon
<1> HIDE DEF a, b, n
<1>6. /\ clients' \in Seq(Ids) /\ Len(clients') = n - 1
      /\ \A x \in 1 .. p - 1 : clients'[x] = clients[x]
      /\ \A x \in p .. n - 1 : clients'[x] = clients[x + 1]
  <2>1. /\ clients' \in Seq(Ids) /\ Len(clients') = Len(a) + Len(b)
        /\ \A x \in 1 .. Len(a) + Len(b) :
             clients'[x] = IF x <= Len(a) THEN a[x] ELSE b[x - Len(a)]
    <3>1. /\ a \o b \in Seq(Ids) /\ Len(a \o b) = Len(a) + Len(b)
          /\ \A x \in 1 .. Len(a) + Len(b) :
               (a \o b)[x] = IF x <= Len(a) THEN a[x] ELSE b[x - Len(a)]
      <4>1. a \in Seq(Ids) /\ b \in Seq(Ids)
        BY <1>4, <1>5, Zenon
      <4> QED
        BY <4>1, ConcatProperties
    <3> QED
      BY <1>3, <3>1, Zenon
  <2>2. /\ clients' \in Seq(Ids) /\ Len(clients') = p - 1 + (n - p)
        /\ \A x \in 1 .. p - 1 + (n - p) :
             clients'[x] = IF x <= p - 1 THEN a[x] ELSE b[x - (p - 1)]
    BY <1>4, <1>5, <2>1, Zenon
  <2>3. p - 1 + (n - p) = n - 1
    BY <1>1
  <2>4. ASSUME NEW x \in 1 .. p - 1
        PROVE  clients'[x] = clients[x]
    <3>1. x \in 1 .. n - 1 /\ x <= p - 1
      BY <1>1
    <3> QED
      BY <1>4, <2>2, <2>3, <3>1
  <2>5. ASSUME NEW x \in p .. n - 1
        PROVE  clients'[x] = clients[x + 1]
    <3>1. /\ x \in 1 .. n - 1 /\ ~(x <= p - 1)
          /\ x - (p - 1) \in 1 .. n - p /\ p + (x - (p - 1)) = x + 1
      BY <1>1
    <3>2. clients'[x] = b[x - (p - 1)]
      BY <2>2, <2>3, <3>1
    <3>3. b[x - (p - 1)] = clients[p + (x - (p - 1))]
      BY <1>5, <3>1
    <3> QED
      BY <3>1, <3>2, <3>3
  <2> QED
    BY <2>2, <2>3, <2>4, <2>5
<1>7. ASSUME NEW d \in ToSet(clients), d # c
      PROVE  d \in ToSet(clients')
  <2>1. PICK x \in 1 .. n : clients[x] = d
    BY <1>1, OnList DEF n
  <2>2. CASE x < p
    <3>1. x \in 1 .. p - 1 /\ x \in 1 .. n - 1
      BY <1>1, <2>2
    <3> QED
      BY <1>6, <2>1, <3>1, OnList
  <2>3. CASE x > p
    <3>1. x - 1 \in p .. n - 1 /\ x - 1 \in 1 .. n - 1 /\ x - 1 + 1 = x
      BY <1>1, <2>3
    <3>2. clients'[x - 1] = d
      BY <1>6, <2>1, <3>1
    <3> QED
      BY <1>6, <3>1, <3>2, OnList
  <2>4. x # p
    BY <1>1, <1>7, <2>1
  <2> QED
    BY <1>1, <2>2, <2>3, <2>4
<1>8. After(c) \in ToSet(clients') \cup {NoCon}
  <2>1. CASE p = n
    BY <2>1 DEF After, p, n
  <2>2. CASE p # n
    <3>1. p \in p .. n - 1 /\ p \in 1 .. n - 1
      BY <1>1, <2>2
    <3>2. After(c) = clients[p + 1]
      BY <2>2 DEF After, p, n
    <3>3. clients'[p] = After(c)
      BY <1>6, <3>1, <3>2
    <3> QED
      BY <1>6, <3>1, <3>3, OnList
  <2> QED
    BY <2>1, <2>2
<1> QED
  BY <1>6, <1>7, <1>8
-----------------------------------------------------------------------------
(* What a line changes: at most the name of its connection, or that name   *)
(* in the channel; and the callback is for the connection.                 *)

\* A line of c.
LEMMA LineSays ==
  ASSUME NameTypes, callback = Nothing, NEW c \in Ids, OnLine(c)
  PROVE  /\ nick' \in [Ids -> Names] /\ \A d \in Ids : d # c => nick'[d] = nick[d]
         /\ room' = room \/ (nick[c] # NULL /\ room' = room \cup {nick[c]})
         /\ callback' \in Callbacks
         /\ callback' = Nothing
              \/ (callback'.what \in {"register", "message"} /\ callback'.con = c)
<1> DEFINE Goal ==
      /\ nick' \in [Ids -> Names] /\ \A d \in Ids : d # c => nick'[d] = nick[d]
      /\ room' = room \/ (nick[c] # NULL /\ room' = room \cup {nick[c]})
      /\ callback' \in Callbacks
      /\ callback' = Nothing
           \/ (callback'.what \in {"register", "message"} /\ callback'.con = c)
<1>1. nick \in [Ids -> Names] /\ nick[c] \in Names /\ IrcNicks \subseteq Names /\ "" \in Names
  BY DEF NameTypes, Names
<1>2. Nothing \in Callbacks
  BY DEF Nothing, Callbacks, Conns, Names
<1>3. ASSUME NEW n \in Names
      PROVE  /\ Named(c, n) \in [Ids -> Names]
             /\ \A d \in Ids : d # c => Named(c, n)[d] = nick[d]
  BY <1>1, <1>3 DEF Named
<1>4. ASSUME UNCHANGED callback \/ irc_server_rpl_register(c)
      PROVE  /\ callback' \in Callbacks
             /\ callback' = Nothing
                  \/ (callback'.what \in {"register", "message"} /\ callback'.con = c)
  <2>1. CASE UNCHANGED callback
    BY <1>2, <2>1
  <2>2. CASE irc_server_rpl_register(c)
    BY <2>2 DEF irc_server_rpl_register, Calls, Callbacks, Conns, Names
  <2> QED
    BY <1>4, <2>1, <2>2
<1>5. ASSUME NEW n \in IrcNicks, Nick(c, n)
      PROVE  Goal
  <2>1. nick' = Named(c, n) /\ room' = room /\ (UNCHANGED callback \/ irc_server_rpl_register(c))
    BY <1>5 DEF Nick
  <2> QED
    BY <1>1, <1>3, <1>4, <2>1
<1>6. ASSUME User(c)
      PROVE  Goal
  <2>1. UserName(nick[c]) \in Names
    BY <1>1 DEF UserName
  <2>2. /\ nick' = Named(c, UserName(nick[c])) /\ room' = room
        /\ UNCHANGED callback \/ irc_server_rpl_register(c)
    BY <1>6 DEF User
  <2> QED
    BY <1>3, <1>4, <2>1, <2>2
<1>7. ASSUME ~Unnamed(c), Join(c)
      PROVE  Goal
  <2>1. nick' = nick /\ callback' = Nothing /\ room' = room \cup {nick[c]} /\ nick[c] # NULL
    BY <1>7 DEF Join, irc_server_join, Added, Unnamed
  <2> QED
    BY <1>1, <1>2, <2>1
<1>8. ASSUME Part(c) \/ Topic(c) \/ Ask(c)
      PROVE  Goal
  <2>1. nick' = nick /\ callback' = Nothing /\ room' = room
    BY <1>8 DEF Part, irc_server_part, Topic, irc_server_topic, Ask
  <2> QED
    BY <1>1, <1>2, <2>1
<1>9. ASSUME NEW target, Privmsg(c, target)
      PROVE  Goal
  <2>1. nick' = nick /\ callback' = Calls("message", c, nick[c]) /\ room' = room
    BY <1>9 DEF Privmsg
  <2>2. callback' \in Callbacks /\ callback'.what = "message" /\ callback'.con = c
    BY <1>1, <2>1 DEF Calls, Callbacks, Conns
  <2> QED
    BY <1>1, <2>1, <2>2
<1> QED
  BY <1>5, <1>6, <1>7, <1>8, <1>9 DEF OnLine
-----------------------------------------------------------------------------
(* The calls nest: steps of the server.                                    *)

\* The last call goes on to f, and may have a callback made for its connection.
LEMMA CallsOn ==
  ASSUME CallInv, stack # << >>, NEW f \in Frames, f.then = Work.then, Continue(f),
         f.con \in ToSet(clients') \cup {NoCon}, callback' \in Callbacks,
         callback' = Nothing \/ (/\ callback'.what \in {"register", "message"}
                                 /\ callback'.con = f.con /\ f.con # NoCon)
  PROVE  CallTypes' /\ Nested' /\ Answers' /\ AtClient' /\ stack' # << >>
<1>1. CallTypes /\ Nested
  BY DEF CallInv
<1>2. /\ stack' \in Seq(Frames) /\ stack' # << >> /\ Work' = f /\ Nested'
      /\ stack'[1].then = stack[1].then
  BY <1>1, CallGoesOn
<1>3. Answers'
  BY <1>2 DEF Answers, Nothing
<1>4. AtClient'
  BY <1>2 DEF AtClient
<1>5. CallTypes'
  BY <1>2 DEF CallTypes
<1> QED
  BY <1>2, <1>3, <1>4, <1>5

\* What a step of the server starts from.
LEMMA WorkNow ==
  ASSUME CallInv, Ready
  PROVE  /\ Work \in Frames /\ Work.con \in ToSet(clients) \cup {NoCon}
         /\ Nothing \in Callbacks /\ callback = Nothing /\ stack # << >> /\ ~crashed
         /\ Work.step = "lines" => Work.con \in ToSet(clients)
         /\ ToSet(clients) \subseteq Ids
<1>1. CallTypes /\ AtClient /\ ConnTypes
  BY DEF CallInv
<1>2. callback = Nothing /\ stack # << >> /\ ~crashed
  BY DEF Ready
<1>3. Work \in Frames
  BY <1>1, <1>2, LastCall
<1>4. Work.con \in ToSet(clients) \cup {NoCon}
  BY <1>1, <1>2 DEF AtClient, Nothing
<1>5. Work.step = "lines" => Work.con # NoCon
  BY <1>3 DEF Frames
<1>6. ToSet(clients) \subseteq Ids
  BY <1>1, OnList DEF ConnTypes
<1> QED
  BY <1>1, <1>2, <1>3, <1>4, <1>5, <1>6 DEF CallTypes

\* A frame at another node.
LEMMA NodeFrame ==
  ASSUME NEW f \in Frames, NEW c \in Conns
  PROVE  /\ AtNode(f, c) \in Frames /\ AtNode(f, c).con = c /\ AtNode(f, c).then = f.then
         /\ AtNode(f, c).step = "visit"
BY DEF AtNode, Frames

\* A frame that has something to do.
LEMMA WorkFrame ==
  ASSUME NEW f \in Frames, NEW b \in BOOLEAN
  PROVE  /\ [f EXCEPT !.work = b] \in Frames /\ [f EXCEPT !.work = b].con = f.con
         /\ [f EXCEPT !.work = b].then = f.then
BY DEF Frames

\* The connections that come.
LEMMA NewIds ==
  ASSUME ConnTypes, NEW k \in 0 .. Connections - accepted
  PROVE  /\ [x \in 1 .. k |-> accepted + x] \in [1 .. k -> Ids] /\ k \in Nat
         /\ accepted + k \in 0 .. Connections
<1>1. Connections \in Nat /\ accepted \in 0 .. Connections
  BY BoundsAssumption DEF ConnTypes
<1>2. \A x \in 1 .. k : accepted + x \in 1 .. Connections
  BY <1>1
<1> QED
  BY <1>1, <1>2 DEF Ids

\* Connections come.
LEMMA AcceptNests ==
  ASSUME CallInv, Accept, UNCHANGED <<username, juser>>
  PROVE  CallInv'
<1>1. /\ ConnTypes /\ NameTypes /\ Work \in Frames /\ stack # << >>
      /\ Nothing \in Callbacks /\ callback' = Nothing
  BY WorkNow DEF CallInv, Accept
<1>2. PICK k \in 0 .. Connections - accepted :
        /\ clients' = clients \o [x \in 1 .. k |-> accepted + x]
        /\ accepted' = accepted + k
        /\ Continue([AtNode(Work, IF clients' = << >> THEN NoCon ELSE Head(clients'))
                       EXCEPT !.work = k > 0])
  BY DEF Accept
<1>3. /\ [x \in 1 .. k |-> accepted + x] \in [1 .. k -> Ids] /\ k \in Nat
      /\ accepted + k \in 0 .. Connections
  BY <1>1, NewIds
<1>4. accepted' \in 0 .. Connections
  BY <1>2, <1>3
<1>5. clients' \in Seq(Ids)
  <2> DEFINE new == [x \in 1 .. k |-> accepted + x]
  <2>1. new \in [1 .. k -> Ids] /\ clients' = clients \o new
    BY <1>2, <1>3
  <2> HIDE DEF new
  <2>2. new \in Seq(Ids)
    BY <1>3, <2>1
  <2> QED
    BY <1>1, <2>1, <2>2, ConcatProperties DEF ConnTypes
<1>6. ConnTypes' /\ NameTypes'
  BY <1>1, <1>4, <1>5 DEF ConnTypes, NameTypes, Accept
<1> DEFINE c == IF clients' = << >> THEN NoCon ELSE Head(clients')
           f == [AtNode(Work, c) EXCEPT !.work = k > 0]
<1>7. c \in ToSet(clients') \cup {NoCon} /\ c \in Conns
  <2>1. CASE clients' # << >>
    <3>1. Len(clients') \in Nat \ {0} /\ Head(clients') = clients'[1] /\ 1 \in 1 .. Len(clients')
      BY <1>5, <2>1, EmptySeq
    <3>2. Head(clients') \in ToSet(clients') /\ Head(clients') \in Ids
      BY <1>5, <3>1, OnList
    <3> QED
      BY <2>1, <3>2 DEF Conns
  <2>2. CASE clients' = << >>
    BY <2>2 DEF Conns
  <2> QED
    BY <2>1, <2>2
<1> HIDE DEF c
<1>8. f \in Frames /\ f.then = Work.then /\ f.con = c
  <2> DEFINE g == AtNode(Work, c)
  <2>1. g \in Frames /\ g.con = c /\ g.then = Work.then
    BY <1>1, <1>7, NodeFrame
  <2> DEFINE b == k > 0
  <2>2. b \in BOOLEAN /\ f = [g EXCEPT !.work = b]
    OBVIOUS
  <2> HIDE DEF b, g, f
  <2> QED
    BY <2>1, <2>2, WorkFrame, Zenon
<1>9. Continue(f)
  BY <1>2 DEF c
<1> HIDE DEF f
<1>10. CallTypes' /\ Nested' /\ Answers' /\ AtClient'
  BY <1>1, <1>7, <1>8, <1>9, CallsOn
<1> QED
  BY <1>6, <1>10 DEF CallInv

\* A client is removed.
LEMMA RemoveNests ==
  ASSUME CallInv, RemoveDead, UNCHANGED <<username, juser>>
  PROVE  CallInv'
<1> DEFINE c == Work.con
<1>1. /\ ConnTypes /\ NameTypes /\ Work \in Frames /\ stack # << >>
      /\ Nothing \in Callbacks /\ callback' = Nothing
  BY WorkNow DEF CallInv, RemoveDead
<1>2. /\ clients' = RemoveAt(clients, Place(c)) /\ Continue(AtNode(Work, After(c)))
      /\ room' = Removed(nick[c])
      /\ UNCHANGED <<accepted, nick, handled, lines, username, juser>>
  BY DEF RemoveDead
<1>3. c \in ToSet(clients)
  BY WorkNow DEF RemoveDead, CallInv, ConnTypes, Ids, NoCon
<1>4. clients' \in Seq(Ids) /\ After(c) \in ToSet(clients') \cup {NoCon}
  BY <1>1, <1>2, <1>3, Removal
<1>5. ConnTypes' /\ NameTypes'
  BY <1>1, <1>2, <1>4 DEF ConnTypes, NameTypes, Removed
<1>6. After(c) \in Conns
  BY <1>4, OnList DEF Conns
<1>7. /\ AtNode(Work, After(c)) \in Frames /\ AtNode(Work, After(c)).con = After(c)
      /\ AtNode(Work, After(c)).then = Work.then
  BY <1>1, <1>6, NodeFrame
<1>8. CallTypes' /\ Nested' /\ Answers' /\ AtClient'
  BY <1>1, <1>2, <1>4, <1>7, CallsOn
<1> QED
  BY <1>5, <1>8 DEF CallInv

\* A client is read from.
LEMMA ReadNests ==
  ASSUME CallInv, Read, UNCHANGED <<username, juser>>
  PROVE  CallInv'
<1> DEFINE c == Work.con
<1>1. /\ ConnTypes /\ NameTypes /\ Work \in Frames /\ stack # << >>
      /\ Nothing \in Callbacks /\ callback' = Nothing
  BY WorkNow DEF CallInv, Read
<1>2. c \in ToSet(clients) /\ c \in Ids /\ c # NoCon
  BY WorkNow DEF Read, Ids, NoCon
<1>3. PICK k \in 0 .. MaxLines - lines :
        /\ lines' = lines + k
        /\ IF k = 0 THEN Continue(AtNode(Work, After(c)))
                    ELSE Continue([Work EXCEPT !.step = "lines", !.left = k, !.work = TRUE])
  BY DEF Read
<1>4. /\ handled' = handled \cup {c}
      /\ UNCHANGED <<accepted, clients, nick, room, username, juser>>
  BY DEF Read
<1>5. ConnTypes' /\ NameTypes'
  BY <1>1, <1>2, <1>3, <1>4 DEF ConnTypes, NameTypes
<1>6. After(c) \in ToSet(clients') \cup {NoCon} /\ After(c) \in Conns
  BY <1>1, <1>2, <1>4, Placed, OnList DEF ConnTypes, Conns
<1>7. /\ AtNode(Work, After(c)) \in Frames /\ AtNode(Work, After(c)).con = After(c)
      /\ AtNode(Work, After(c)).then = Work.then
  BY <1>1, <1>6, NodeFrame
<1> DEFINE f == [Work EXCEPT !.step = "lines", !.left = k, !.work = TRUE]
<1>8. f \in Frames /\ f.con = c /\ f.then = Work.then
  <2>1. k \in Int
    BY <1>3
  <2> QED
    BY <1>1, <1>2, <2>1 DEF Frames
<1> HIDE DEF c, f
<1>9. CallTypes' /\ Nested' /\ Answers' /\ AtClient'
  <2>1. CASE k = 0
    BY <1>1, <1>3, <1>6, <1>7, <2>1, CallsOn
  <2>2. CASE k # 0
    <3>1. Continue(f) /\ f.con \in ToSet(clients') \cup {NoCon}
      BY <1>2, <1>3, <1>4, <1>8, <2>2 DEF f, c
    <3> QED
      BY <1>1, <1>8, <3>1, CallsOn
  <2> QED
    BY <2>1, <2>2
<1> QED
  BY <1>5, <1>9 DEF CallInv

\* A line is handled.
LEMMA LineNests ==
  ASSUME CallInv, HandleLine, UNCHANGED <<username, juser>>
  PROVE  CallInv'
<1> DEFINE c == Work.con
<1>1. /\ ConnTypes /\ NameTypes /\ Work \in Frames /\ stack # << >>
      /\ Nothing \in Callbacks /\ callback = Nothing
  BY WorkNow DEF CallInv, HandleLine
<1>2. c \in ToSet(clients) /\ c \in Ids /\ c # NoCon
  BY WorkNow DEF HandleLine, Ids, NoCon
<1>3. /\ OnLine(c) /\ Continue([Work EXCEPT !.left = @ - 1])
      /\ UNCHANGED <<accepted, clients, handled, lines, username, juser>>
  BY DEF HandleLine
<1>4. /\ nick' \in [Ids -> Names]
      /\ room' = room \/ (nick[c] # NULL /\ room' = room \cup {nick[c]})
      /\ callback' \in Callbacks
      /\ callback' = Nothing
           \/ (callback'.what \in {"register", "message"} /\ callback'.con = c)
  BY <1>1, <1>2, <1>3, LineSays
<1>5. ConnTypes' /\ NameTypes'
  BY <1>1, <1>2, <1>3, <1>4 DEF ConnTypes, NameTypes
<1> DEFINE f == [Work EXCEPT !.left = @ - 1]
<1>6. f \in Frames /\ f.con = c /\ f.then = Work.then
  BY <1>1, <1>2 DEF Frames
<1> HIDE DEF c, f
<1>7. Continue(f) /\ f.con \in ToSet(clients') \cup {NoCon}
  BY <1>2, <1>3, <1>6 DEF f
<1>8. CallTypes' /\ Nested' /\ Answers' /\ AtClient'
  BY <1>1, <1>2, <1>4, <1>6, <1>7, CallsOn
<1> QED
  BY <1>5, <1>8 DEF CallInv

\* The lines end.
LEMMA LinesEnd ==
  ASSUME CallInv, EndOfLines, UNCHANGED <<username, juser>>
  PROVE  CallInv'
<1> DEFINE c == Work.con
<1>1. /\ ConnTypes /\ NameTypes /\ Work \in Frames /\ stack # << >>
      /\ Nothing \in Callbacks /\ callback' = Nothing /\ c \in ToSet(clients)
  BY WorkNow DEF CallInv, EndOfLines
<1>2. /\ Continue(AtNode(Work, After(c)))
      /\ UNCHANGED <<accepted, clients, nick, handled, lines, room, username, juser>>
  BY DEF EndOfLines, conns
<1>3. ConnTypes' /\ NameTypes'
  BY <1>1, <1>2 DEF ConnTypes, NameTypes
<1>4. After(c) \in ToSet(clients') \cup {NoCon} /\ After(c) \in Conns
  BY <1>1, <1>2, Placed, OnList DEF ConnTypes, Conns
<1>5. /\ AtNode(Work, After(c)) \in Frames /\ AtNode(Work, After(c)).con = After(c)
      /\ AtNode(Work, After(c)).then = Work.then
  BY <1>1, <1>4, NodeFrame
<1>6. CallTypes' /\ Nested' /\ Answers' /\ AtClient'
  BY <1>1, <1>2, <1>4, <1>5, CallsOn
<1> QED
  BY <1>3, <1>6 DEF CallInv

\* A pass ends, and the call with it when it found nothing.
LEMMA PassEnds ==
  ASSUME CallInv, EndOfPass, UNCHANGED <<username, juser>>
  PROVE  CallInv'
<1>1. /\ ConnTypes /\ NameTypes /\ CallTypes /\ Nested /\ Work \in Frames /\ stack # << >>
      /\ Nothing \in Callbacks /\ callback = Nothing /\ Work.con = NoCon
  BY WorkNow DEF CallInv, EndOfPass
<1>2. UNCHANGED <<accepted, clients, nick, handled, lines, room, username, juser>>
  BY DEF EndOfPass, conns
<1>3. ConnTypes' /\ NameTypes'
  BY <1>1, <1>2 DEF ConnTypes, NameTypes
<1>4. CASE Work.work
  <2> DEFINE f == [Work EXCEPT !.step = "accept"]
  <2>1. f \in Frames /\ f.con = NoCon /\ f.then = Work.then
    BY <1>1 DEF Frames
  <2>2. Continue(f) /\ callback' = Nothing
    BY <1>1, <1>4 DEF EndOfPass
  <2> HIDE DEF f
  <2>3. CallTypes' /\ Nested' /\ Answers' /\ AtClient'
    BY <1>1, <2>1, <2>2, CallsOn
  <2> QED
    BY <1>3, <2>3 DEF CallInv
<1>5. CASE ~Work.work
  <2>1. stack' = Front(stack) /\ callback' = Work.then
    BY <1>5 DEF EndOfPass
  <2>2. CallTypes' /\ Nested' /\ Answers' /\ (stack' # << >> => callback'.what = "pinged")
    BY <1>1, <2>1, CallEnds
  <2>3. AtClient'
    BY <2>2 DEF AtClient
  <2> QED
    BY <1>3, <2>2, <2>3 DEF CallInv
<1> QED
  BY <1>4, <1>5
-----------------------------------------------------------------------------
(* The calls nest: what the program does in the callbacks, and when the    *)
(* server is idle.                                                         *)

\* A callback returns to the call that made it.
LEMMA Returned ==
  ASSUME CallInv, stack' = stack, clients' = clients, callback' = Nothing, ~crashed,
         ~crashed' /\ callback.what = "pinged" => callback.con \in ToSet(clients)
  PROVE  CallTypes' /\ Nested' /\ Answers' /\ AtClient'
<1>1. CallTypes' /\ Nested' /\ Answers'
  BY DEF CallInv, CallTypes, Nested, Answers, Nothing, Callbacks, Conns, Names, Work
<1>2. AtClient'
  BY DEF CallInv, AtClient, Answers, Work
<1> QED
  BY <1>1, <1>2

\* A call of the server is made.
LEMMA ServerCalled ==
  ASSUME CallInv, NEW what \in {"check", "force", "pinged"}, NEW c \in Conns,
         NEW n \in Names, stack' = Call(what, c, n), callback' = Nothing,
         IF stack = << >> THEN what \in {"check", "force"} /\ (what = "force" => n # NULL)
                          ELSE what = "pinged" /\ c = Work.con
  PROVE  /\ CallTypes' /\ Nested' /\ Answers' /\ AtClient' /\ stack' # << >>
         /\ stack'[1].then = IF stack = << >> THEN Calls(what, c, n) ELSE stack[1].then
<1>1. CallTypes /\ Nested
  BY DEF CallInv
<1>2. /\ stack' \in Seq(Frames) /\ stack' # << >> /\ Nested'
      /\ Work'.step = "accept" /\ Work'.con = NoCon
      /\ stack'[1].then = IF stack = << >> THEN Calls(what, c, n) ELSE stack[1].then
  BY <1>1, CallMade
<1>3. CallTypes'
  BY <1>2 DEF CallTypes, Nothing, Callbacks, Conns, Names
<1>4. Answers' /\ AtClient'
  BY <1>2 DEF Answers, AtClient, Nothing
<1> QED
  BY <1>2, <1>3, <1>4

\* The callbacks of the server.
LEMMA CallbackNests ==
  ASSUME CallInv, on_server_register \/ Pinged \/ on_server_message
  PROVE  CallInv'
<1>1. ConnTypes /\ NameTypes /\ CallTypes /\ Nested /\ Answers
  BY DEF CallInv
<1>2. NULL \in Names /\ callback.con \in Conns /\ UNCHANGED conns
  BY <1>1 DEF Names, CallTypes, Callbacks, on_server_register, Pinged, on_server_message
<1>3. ConnTypes'
  BY <1>1, <1>2 DEF ConnTypes, conns
<1>4. CASE on_server_register
  <2>1. NameTypes'
    BY <1>1, <1>4 DEF NameTypes, on_server_register, conns, plugin
  <2>2. /\ stack # << >> /\ callback.con = Work.con /\ callback' = Nothing
        /\ stack' = Call("pinged", callback.con, NULL)
    BY <1>1, <1>4 DEF on_server_register, Due, Answers
  <2>3. CallTypes' /\ Nested' /\ Answers' /\ AtClient'
    BY <1>2, <2>2, ServerCalled
  <2> QED
    BY <1>3, <2>1, <2>3 DEF CallInv
<1>5. CASE Pinged
  <2>1. stack' = stack /\ callback' = Nothing /\ ~crashed
    BY <1>5 DEF Pinged, Due
  <2>2. /\ ~crashed' => callback.con \in ToSet(clients)
        /\ NameTypes'
    <3>1. CASE callback.con \notin ToSet(clients)
      BY <1>1, <1>2, <1>5, <3>1 DEF Pinged, Crash, NameTypes, conns
    <3>2. CASE callback.con \in ToSet(clients)
      <4>1. nick[callback.con] \in Names
        BY <1>1, <3>2, OnList DEF ConnTypes, NameTypes
      <4>2. /\ username' = nick[callback.con] /\ juser' = nick[callback.con]
            /\ room' = Removed(nick[callback.con]) /\ nick' = nick
        BY <1>2, <1>5, <3>2 DEF Pinged, conns
      <4> QED
        BY <1>1, <3>2, <4>1, <4>2 DEF NameTypes, Removed
    <3> QED
      BY <3>1, <3>2
  <2>3. CallTypes' /\ Nested' /\ Answers' /\ AtClient'
    BY <1>2, <2>1, <2>2, Returned DEF conns
  <2> QED
    BY <1>3, <2>2, <2>3 DEF CallInv
<1>6. CASE on_server_message
  <2>1. /\ stack' = stack /\ callback' = Nothing /\ ~crashed /\ callback.what = "message"
        /\ UNCHANGED <<nick, room, username, juser>>
    BY <1>2, <1>6 DEF on_server_message, Due, conns
  <2>2. NameTypes'
    BY <1>1, <2>1 DEF NameTypes
  <2>3. CallTypes' /\ Nested' /\ Answers' /\ AtClient'
    BY <1>2, <2>1, Returned DEF conns
  <2> QED
    BY <1>3, <2>2, <2>3 DEF CallInv
<1> QED
  BY <1>4, <1>5, <1>6

\* The program's checks.
LEMMA CheckNests ==
  ASSUME CallInv, ForceJoin \/ Joined \/ Check \/ Checked
  PROVE  CallInv'
<1>1. ConnTypes /\ NameTypes /\ CallTypes /\ Nested /\ Answers
  BY DEF CallInv
<1>2. NULL \in Names /\ NoCon \in Conns /\ UNCHANGED conns
  BY DEF Names, Conns, ForceJoin, Joined, Check, Checked
<1>3. ConnTypes'
  BY <1>1, <1>2 DEF ConnTypes, conns
<1>4. CASE ForceJoin
  <2>1. /\ stack = << >> /\ juser # NULL /\ stack' = Call("force", NoCon, juser)
        /\ callback' = Nothing /\ UNCHANGED <<nick, room, username, juser>>
    BY <1>2, <1>4 DEF ForceJoin, Idle, conns
  <2>2. NameTypes' /\ juser \in Names
    BY <1>1, <2>1 DEF NameTypes
  <2>3. CallTypes' /\ Nested' /\ Answers' /\ AtClient'
    BY <1>2, <2>1, <2>2, ServerCalled
  <2> QED
    BY <1>3, <2>2, <2>3 DEF CallInv
<1>5. CASE Joined
  <2>1. /\ callback.what = "force" /\ stack' = stack /\ callback' = Calls("work", NoCon, NULL)
        /\ juser' = NULL /\ UNCHANGED <<nick, username>>
        /\ room' = room \/ room' = room \cup {callback.nick}
    BY <1>2, <1>5 DEF Joined, Due, conns, irc_server_join, Added
  <2>2. stack = << >> /\ callback.nick # NULL /\ callback.nick \in Names
    BY <1>1, <2>1 DEF Answers, CallTypes, Callbacks
  <2>3. NameTypes'
    BY <1>1, <1>2, <2>1, <2>2 DEF NameTypes
  <2>4. CallTypes' /\ Nested' /\ Answers' /\ AtClient'
    BY <1>1, <1>2, <2>1, <2>2
    DEF CallTypes, Nested, Answers, AtClient, Calls, Callbacks, Conns, Names
  <2> QED
    BY <1>3, <2>3, <2>4 DEF CallInv
<1>6. CASE Check
  <2>1. /\ stack = << >> /\ stack' = Call("check", NoCon, NULL) /\ callback' = Nothing
        /\ UNCHANGED <<nick, room, username, juser>>
    BY <1>1, <1>2, <1>6 DEF Check, Idle, Due, Answers, conns
  <2>2. NameTypes'
    BY <1>1, <2>1 DEF NameTypes
  <2>3. CallTypes' /\ Nested' /\ Answers' /\ AtClient'
    BY <1>2, <2>1, ServerCalled
  <2> QED
    BY <1>3, <2>2, <2>3 DEF CallInv
<1>7. CASE Checked
  <2>1. /\ callback.what = "check" /\ stack' = stack /\ callback' = Nothing /\ ~crashed
        /\ UNCHANGED <<nick, room, username, juser>>
    BY <1>2, <1>7 DEF Checked, Due, conns, plugin
  <2>2. NameTypes'
    BY <1>1, <2>1 DEF NameTypes
  <2>3. CallTypes' /\ Nested' /\ Answers' /\ AtClient'
    BY <1>2, <2>1, Returned DEF conns
  <2> QED
    BY <1>3, <2>2, <2>3 DEF CallInv
<1> QED
  BY <1>4, <1>5, <1>6, <1>7

\* What a page says changes, of the calls, the next callback at most.
LEMMA PageSays ==
  ASSUME CallInv, Event, NEW n \in ForumNames \cup {ffname}, mccirc_chatserver_message(n)
  PROVE  /\ stack = << >> /\ stack' = stack /\ callback = Nothing
         /\ UNCHANGED <<conns, username, juser>>
         /\ callback' = Nothing \/ callback' = Calls("message", NoCon, n)
         /\ room' = room \/ room' = room \cup {n}
BY DEF Event, Idle, mccirc_chatserver_message, Swallow, Relay, Created, Added

\* The pages.
LEMMA PageNests ==
  ASSUME CallInv, Other \/ Shown \/ Nicks \/ mccirc_topic
  PROVE  CallInv'
<1>1. ConnTypes /\ NameTypes /\ CallTypes /\ Nested /\ Answers
  BY DEF CallInv
<1>2. /\ ForumNames \cup {ffname} \subseteq Names \ {NULL} /\ NoCon \in Conns
      /\ UNCHANGED <<conns, username, juser, stack>> /\ stack = << >> /\ callback = Nothing
  BY PluginAssumption
  DEF Names, Conns, Other, Shown, Nicks, mccirc_topic, mccirc_chatserver_message, plugin, Event,
      Idle
<1>3. ConnTypes'
  BY <1>1, <1>2 DEF ConnTypes, conns
<1>4. /\ room' \subseteq room \cup ForumNames \cup {ffname}
      /\ callback' = Nothing
           \/ \E n \in ForumNames \cup {ffname} : callback' = Calls("message", NoCon, n)
  <2>1. CASE Other
    <3>1. PICK n \in ForumNames \cup {ffname} : mccirc_chatserver_message(n) /\ Event
      BY <2>1 DEF Other
    <3> QED
      BY <3>1, PageSays
  <2>2. CASE Shown
    <3>1. Event /\ mccirc_chatserver_message(ffname)
      BY <2>2 DEF Shown
    <3> QED
      BY <3>1, PageSays
  <2>3. CASE Nicks
    BY <1>2, <2>3 DEF Nicks
  <2>4. CASE mccirc_topic
    BY <1>2, <2>4 DEF mccirc_topic, irc_server_topic
  <2> QED
    BY <2>1, <2>2, <2>3, <2>4
<1>5. NameTypes'
  BY <1>1, <1>2, <1>4 DEF NameTypes, conns
<1>6. /\ callback' \in Callbacks /\ callback'.what \in {"nothing", "message"}
      /\ callback'.what = "message" => callback'.con = NoCon
  <2>1. ASSUME NEW n \in ForumNames \cup {ffname}, callback' = Calls("message", NoCon, n)
        PROVE  /\ callback' \in Callbacks /\ callback'.what \in {"nothing", "message"}
               /\ callback'.what = "message" => callback'.con = NoCon
    BY <1>2, <2>1 DEF Calls, Callbacks
  <2>2. CASE callback' = Nothing
    BY <2>2 DEF Nothing, Callbacks, Conns, Names
  <2> QED
    BY <1>4, <2>1, <2>2
<1>7. CallTypes' /\ Nested' /\ Answers' /\ AtClient'
  <2>1. CallTypes' /\ Nested'
    BY <1>1, <1>2, <1>6 DEF CallTypes, Nested
  <2>2. Answers' /\ AtClient'
    BY <1>2, <1>6 DEF Answers, AtClient
  <2> QED
    BY <2>1, <2>2
<1> QED
  BY <1>3, <1>5, <1>7 DEF CallInv
-----------------------------------------------------------------------------
(* The calls nest always.                                                  *)

\* A step of the server leaves the program's side alone.
LEMMA ServerNests ==
  ASSUME CallInv, ServerStep
  PROVE  CallInv'
<1>1. ServerNext /\ UNCHANGED <<username, juser>>
  BY DEF ServerStep, plugin
<1> QED
  BY <1>1, AcceptNests, RemoveNests, ReadNests, LineNests, LinesEnd, PassEnds DEF ServerNext

\* Every step keeps the calls nested.
LEMMA CallStep ==
  ASSUME CallInv, [Next]_vars
  PROVE  CallInv'
<1>1. CASE Next
  BY <1>1, ServerNests, CallbackNests, CheckNests, PageNests DEF Next
<1>2. CASE UNCHANGED vars
  <2>1. UNCHANGED <<accepted, clients, nick, handled, lines, room, stack, callback, crashed,
                    username, juser>>
    BY <1>2 DEF vars, server, conns, writes, plugin
  <2>2. ConnTypes' /\ NameTypes' /\ CallTypes' /\ Nested'
    BY <2>1 DEF CallInv, ConnTypes, NameTypes, CallTypes, Nested
  <2>3. Answers' /\ AtClient'
    BY <2>1 DEF CallInv, Answers, AtClient, Work
  <2> QED
    BY <2>2, <2>3 DEF CallInv
<1> QED
  BY <1>1, <1>2

\* Nothing is called at first.
LEMMA CallInit == Init => CallInv
<1> SUFFICES ASSUME Init
             PROVE  CallInv
  OBVIOUS
<1> USE DEF Init, ServerInit
<1>1. ConnTypes
  BY EmptySeq, BoundsAssumption DEF ConnTypes
<1>2. NameTypes
  BY DEF NameTypes, Names
<1>3. CallTypes
  BY EmptySeq DEF CallTypes, Nothing, Callbacks, Conns, Names
<1>4. Nested
  BY EmptySeq DEF Nested
<1>5. Answers /\ AtClient
  BY DEF Answers, AtClient, Nothing
<1> QED
  BY <1>1, <1>2, <1>3, <1>4, <1>5 DEF CallInv

\* The calls of irc_server_do_work() nest, and each call that callbacks make is for
\* the connection the call under it is at, which a client still has unless they
\* are under way (irc_server.c:198-238, mccirc.c:141-160).
THEOREM CallsNest == Spec => []CallInv
<1>1. CallInv /\ [Next]_vars => CallInv'
  BY CallStep
<1> QED
  BY CallInit, <1>1, PTL DEF Spec
-----------------------------------------------------------------------------
(* Nobody stays in the channel.                                            *)

Known == ForumNames \cup {ffname} \cup {nick[c] : c \in ToSet(clients)} \cup ghosts

\* Who is known stays so, when no client goes and no name changes.
LEMMA StaysKnown ==
  ASSUME ToSet(clients) \subseteq ToSet(clients'), nick' = nick, ghosts \subseteq ghosts'
  PROVE  Known \subseteq Known'
BY DEF Known

\* A list that is lengthened keeps who is on it.
LEMMA Longer ==
  ASSUME NEW S, NEW s \in Seq(S), NEW k \in Nat, NEW f \in [1 .. k -> S]
  PROVE  s \o f \in Seq(S) /\ ToSet(s) \subseteq ToSet(s \o f)
<1> DEFINE t == s \o f
<1>1. f \in Seq(S)
  OBVIOUS
<1>2. /\ t \in Seq(S) /\ Len(t) = Len(s) + Len(f)
      /\ \A x \in 1 .. Len(s) + Len(f) : t[x] = IF x <= Len(s) THEN s[x] ELSE f[x - Len(s)]
  BY <1>1, ConcatProperties
<1>3. Len(s) \in Nat /\ Len(f) \in Nat
  BY <1>1, LenProperties
<1> HIDE DEF t
<1>4. ASSUME NEW d \in ToSet(s)
      PROVE  d \in ToSet(t)
  <2>1. PICK x \in 1 .. Len(s) : s[x] = d
    BY OnList
  <2>2. x \in 1 .. Len(s) + Len(f) /\ x <= Len(s)
    BY <1>3
  <2>3. t[x] = d /\ x \in 1 .. Len(t)
    BY <1>2, <2>1, <2>2
  <2> QED
    BY <1>2, <2>3, OnList
<1> QED
  BY <1>2, <1>4 DEF t

\* Steps of the server: a name that is changed is left to others, and the name of a
\* client that is gone leaves the channel.
LEMMA ServerStays ==
  ASSUME CallInv, room \subseteq Known, ServerStep
  PROVE  crashed' \/ room' \subseteq Known'
<1>1. ConnTypes /\ NameTypes /\ Ready
  BY DEF CallInv, ServerStep, ServerNext, Accept, RemoveDead, Read, HandleLine, EndOfLines,
         EndOfPass
<1>2. ghosts' = ghosts \cup {nick[c] : c \in {d \in Ids : nick[d] \notin {nick'[d], NULL}}}
  BY DEF ServerStep
<1>3. CASE Accept
  <2>1. clients' \in Seq(Ids) /\ clients \in Seq(Ids)
    BY <1>1, <1>3, AcceptNests DEF ServerStep, plugin, CallInv, ConnTypes
  <2>2. PICK k \in 0 .. Connections - accepted :
          clients' = clients \o [x \in 1 .. k |-> accepted + x]
    BY <1>3 DEF Accept
  <2>3. ToSet(clients) \subseteq ToSet(clients')
    <3> DEFINE new == [x \in 1 .. k |-> accepted + x]
    <3>1. new \in [1 .. k -> Ids] /\ k \in Nat
      BY <1>1, <2>2, NewIds
    <3> HIDE DEF new
    <3> QED
      BY <2>1, <2>2, <3>1, Longer DEF new
  <2>4. nick' = nick /\ room' = room
    BY <1>3 DEF Accept
  <2> QED
    BY <1>2, <2>3, <2>4, StaysKnown
<1>4. CASE RemoveDead
  <2> DEFINE c == Work.con
  <2>1. nick' = nick /\ room' = room \ {nick[c]} /\ clients' = RemoveAt(clients, Place(c))
    BY <1>4 DEF RemoveDead, Removed
  <2>2. c \in ToSet(clients)
    BY <1>1, <1>4, WorkNow DEF RemoveDead, ConnTypes, Ids, NoCon
  <2>3. ToSet(clients) \subseteq ToSet(clients') \cup {c}
    BY <1>1, <2>1, <2>2, Removal
  <2> QED
    BY <1>2, <2>1, <2>3 DEF Known
<1>5. CASE Read \/ EndOfLines \/ EndOfPass
  <2>1. clients' = clients /\ nick' = nick /\ room' = room
    BY <1>5 DEF Read, EndOfLines, EndOfPass, conns
  <2> QED
    BY <1>2, <2>1, StaysKnown
<1>6. CASE HandleLine
  <2> DEFINE c == Work.con
  <2>1. c \in ToSet(clients) /\ c \in Ids /\ ToSet(clients) \subseteq Ids /\ callback = Nothing
    BY <1>1, <1>6, WorkNow DEF HandleLine
  <2>2. OnLine(c) /\ clients' = clients
    BY <1>6 DEF HandleLine
  <2>3. room' = room \/ (nick[c] # NULL /\ room' = room \cup {nick[c]})
    BY <1>1, <2>1, <2>2, LineSays
  <2>4. \A d \in Ids : nick[d] # NULL => nick[d] = nick'[d] \/ nick[d] \in ghosts'
    BY <1>2
  <2>5. ASSUME NEW n \in Known, n # NULL
        PROVE  n \in Known'
    BY <1>2, <2>1, <2>2, <2>4, <2>5 DEF Known
  <2>6. nick[c] \in Known /\ NULL \notin room
    BY <1>1, <2>1 DEF Known, NameTypes
  <2> QED
    BY <2>3, <2>5, <2>6
<1> QED
  BY <1>3, <1>4, <1>5, <1>6 DEF ServerStep, ServerNext

\* Steps of the program: who comes into the channel is on the forum, or is the one
\* that a join was forced for, whom no client may have any more.
LEMMA PluginStays ==
  ASSUME CallInv, room \subseteq Known, Next, ~ServerStep
  PROVE  room' \subseteq Known'
<1>1. UNCHANGED conns /\ ghosts \subseteq ghosts'
  BY DEF Next, on_server_register, Pinged, on_server_message, ForceJoin, Joined, Check, Checked,
         Other, Shown, Nicks, mccirc_topic, mccirc_chatserver_message, history
<1>2. Known \subseteq Known' /\ ForumNames \cup {ffname} \subseteq Known'
  BY <1>1, StaysKnown DEF conns, Known
<1>3. CASE on_server_register \/ on_server_message \/ ForceJoin \/ Check \/ Checked \/ mccirc_topic
  <2>1. room' = room
    BY <1>3 DEF on_server_register, on_server_message, ForceJoin, Check, Checked, mccirc_topic,
                irc_server_topic
  <2> QED
    BY <1>2, <2>1
<1>4. CASE Pinged
  <2>1. room' \subseteq room
    BY <1>4 DEF Pinged, Removed
  <2> QED
    BY <1>2, <2>1
<1>5. CASE Joined
  <2>1. /\ room' = room \/ room' = room \cup {callback.nick}
        /\ ghosts' = ghosts \cup ({callback.nick} \ {nick[c] : c \in ToSet(clients)})
    BY <1>5 DEF Joined, irc_server_join, Added
  <2>2. callback.nick \in Known'
    BY <1>1, <2>1 DEF Known, conns
  <2> QED
    BY <1>2, <2>1, <2>2
<1>6. CASE Other \/ Shown
  <2>1. PICK n \in ForumNames \cup {ffname} : mccirc_chatserver_message(n) /\ Event
    BY <1>6 DEF Other, Shown
  <2>2. room' = room \/ room' = room \cup {n}
    BY <2>1, PageSays
  <2> QED
    BY <1>2, <2>2
<1>7. CASE Nicks
  <2>1. room' \subseteq room \cup ForumNames \cup {ffname}
    BY <1>7 DEF Nicks
  <2> QED
    BY <1>2, <2>1
<1> QED
  BY <1>3, <1>4, <1>5, <1>6, <1>7 DEF Next

\* Nobody stays in the channel after the client is gone, but for a name that was
\* changed there and for a join forced too late (irc_server.c:922-930,
\* mccirc.c:282-352, 438-447).
THEOREM NobodyEverStays == Spec => []NobodyStays
<1>1. Init => NobodyStays
  BY DEF Init, ServerInit, NobodyStays
<1>2. ASSUME CallInv, NobodyStays, [Next]_vars
      PROVE  NobodyStays'
  <2>1. NobodyStays <=> crashed \/ room \subseteq Known
    BY DEF NobodyStays, Known
  <2>2. NobodyStays' <=> crashed' \/ room' \subseteq Known'
    BY DEF NobodyStays, Known
  <2>3. CASE UNCHANGED vars
    <3>1. UNCHANGED <<crashed, room, nick, clients, ghosts>>
      BY <2>3 DEF vars, server, conns, writes, history
    <3> QED
      BY <1>2, <3>1 DEF NobodyStays
  <2>4. CASE Next /\ crashed
    BY <2>4
    DEF Next, ServerStep, ServerNext, Accept, RemoveDead, Read, HandleLine, EndOfLines, EndOfPass,
        Ready, on_server_register, Pinged, on_server_message, ForceJoin, Joined, Check, Checked,
        Due, Idle, Other, Shown, Nicks, mccirc_topic, Event
  <2>5. CASE Next /\ ~crashed
    BY <1>2, <2>1, <2>2, <2>5, ServerStays, PluginStays
  <2> QED
    BY <1>2, <2>3, <2>4, <2>5
<1> QED
  BY <1>1, <1>2, CallsNest, PTL DEF Spec
-----------------------------------------------------------------------------
(* What the user says is posted, and shown once.                           *)

\* A call that goes on is for what it was for.
LEMMA SameCalls ==
  ASSUME CallTypes, CallTypes', stack # << >>, NEW f, f.then = Work.then, Continue(f)
  PROVE  stack' # << >> /\ stack'[1].then = stack[1].then
<1> DEFINE n == Len(stack)
<1>1. n \in Nat \ {0} /\ Work = stack[n] /\ DOMAIN stack = 1 .. n
  BY LastCall, LenProperties DEF CallTypes
<1>2. stack' = [stack EXCEPT ![n] = f]
  BY DEF Continue
<1> HIDE DEF n
<1>3. 1 \in DOMAIN stack' /\ stack'[1].then = stack[1].then
  BY <1>1, <1>2
<1>4. DOMAIN stack' = 1 .. Len(stack') /\ Len(stack') \in Nat
  BY LenProperties DEF CallTypes
<1>5. stack' # << >>
  <2>1. Len(stack') # 0
    BY <1>3, <1>4
  <2> QED
    BY <2>1, EmptySeq
<1> QED
  BY <1>3, <1>5

\* A step of the server is in the call of the program it was in, or ends it.
LEMMA ServerChecks ==
  ASSUME CallInv, ServerStep
  PROVE  /\ stack # << >> /\ callback = Nothing
         /\ IF stack' = << >> THEN callback' = stack[1].then
                              ELSE stack'[1].then = stack[1].then /\ callback'.what # "check"
<1>1. CallInv' /\ Ready
  BY ServerNests
  DEF ServerStep, ServerNext, Accept, RemoveDead, Read, HandleLine, EndOfLines, EndOfPass
<1>2. /\ CallTypes /\ Nested /\ CallTypes' /\ stack # << >> /\ callback = Nothing
      /\ Work \in Frames
  BY <1>1, WorkNow DEF CallInv
<1>3. stack' # << >> => callback'.what # "check"
  BY <1>1 DEF CallInv, Answers
<1>4. ASSUME NEW f, Continue(f), f.then = Work.then
      PROVE  stack' # << >> /\ stack'[1].then = stack[1].then
  BY <1>2, <1>4, SameCalls
<1>5. CASE Accept
  <2>1. PICK k, c : Continue([AtNode(Work, c) EXCEPT !.work = k > 0])
    BY <1>5 DEF Accept
  <2>2. [AtNode(Work, c) EXCEPT !.work = k > 0].then = Work.then
    BY <1>2 DEF AtNode, Frames
  <2> QED
    BY <1>2, <1>3, <1>4, <2>1, <2>2
<1>6. CASE RemoveDead \/ EndOfLines
  <2>1. PICK c : Continue(AtNode(Work, c))
    BY <1>6 DEF RemoveDead, EndOfLines
  <2>2. AtNode(Work, c).then = Work.then
    BY <1>2 DEF AtNode, Frames
  <2> QED
    BY <1>2, <1>3, <1>4, <2>1, <2>2
<1>7. CASE Read
  <2>1. PICK k : IF k = 0 THEN Continue(AtNode(Work, After(Work.con)))
                 ELSE Continue([Work EXCEPT !.step = "lines", !.left = k, !.work = TRUE])
    BY <1>7 DEF Read
  <2>2. /\ AtNode(Work, After(Work.con)).then = Work.then
        /\ [Work EXCEPT !.step = "lines", !.left = k, !.work = TRUE].then = Work.then
    BY <1>2 DEF AtNode, Frames
  <2> QED
    BY <1>2, <1>3, <1>4, <2>1, <2>2
<1>8. CASE HandleLine
  <2>1. Continue([Work EXCEPT !.left = @ - 1])
    BY <1>8 DEF HandleLine
  <2>2. [Work EXCEPT !.left = @ - 1].then = Work.then
    BY <1>2 DEF Frames
  <2> QED
    BY <1>2, <1>3, <1>4, <2>1, <2>2
<1>9. CASE EndOfPass
  <2>1. CASE Work.work
    <3>1. Continue([Work EXCEPT !.step = "accept"])
      BY <1>9, <2>1 DEF EndOfPass
    <3>2. [Work EXCEPT !.step = "accept"].then = Work.then
      BY <1>2 DEF Frames
    <3> QED
      BY <1>2, <1>3, <1>4, <3>1, <3>2
  <2>2. CASE ~Work.work
    <3>1. stack' = Front(stack) /\ callback' = Work.then
      BY <1>9, <2>2 DEF EndOfPass
    <3> QED
      BY <1>2, <1>3, <3>1, CallEnds
  <2> QED
    BY <2>1, <2>2
<1> QED
  BY <1>5, <1>6, <1>7, <1>8, <1>9 DEF ServerStep, ServerNext

\* All but the last of a list, and the last, are the list.
LEMMA FrontAndLast ==
  ASSUME NEW S, NEW s \in Seq(S), s # << >>
  PROVE  /\ Len(s) \in Nat \ {0} /\ s[Len(s)] \in ToSet(s)
         /\ ToSet(s) \subseteq ToSet(Front(s)) \cup {s[Len(s)]}
<1> DEFINE n == Len(s)
           t == Front(s)
<1>1. n \in Nat \ {0} /\ \A x \in 1 .. n - 1 : s[x] \in S
  BY EmptySeq, ElementOfSeq
<1>2. s[n] \in ToSet(s)
  BY <1>1, OnList
<1> HIDE DEF n
<1>3. t \in Seq(S) /\ Len(t) = n - 1 /\ \A x \in 1 .. n - 1 : t[x] = s[x]
  <2>1. t = SubSeq(s, 1, n - 1)
    BY DEF Front, n
  <2> HIDE DEF t
  <2> QED
    BY <1>1, <2>1, SubSeqProperties
<1> HIDE DEF t
<1>4. ASSUME NEW d \in ToSet(s), d # s[n]
      PROVE  d \in ToSet(t)
  <2>1. PICK x \in 1 .. n : s[x] = d
    BY OnList DEF n
  <2>2. x \in 1 .. n - 1
    BY <1>1, <1>4, <2>1
  <2> QED
    BY <1>3, <2>1, <2>2, OnList
<1> QED
  BY <1>1, <1>2, <1>4 DEF n, t

\* Nothing is said and no check begins: what was heard stands.
LEMMA HeardStays ==
  ASSUME Heard, UNCHANGED <<said, fresh, posted, excused, buffer>>,
         stack' = << >> /\ callback'.what \in {"nothing", "message"} => fresh = << >>,
         InCheck' => InCheck /\ (last_message => last_message')
  PROVE  Heard'
BY DEF Heard

\* Steps of the server say nothing.
LEMMA ServerHears ==
  ASSUME CallInv, Heard, ServerStep
  PROVE  Heard'
<1>1. UNCHANGED <<said, fresh, posted, excused, buffer, last_message>>
  BY DEF ServerStep, plugin
<1>2. /\ stack # << >> /\ callback = Nothing
      /\ IF stack' = << >> THEN callback' = stack[1].then
                           ELSE stack'[1].then = stack[1].then /\ callback'.what # "check"
  BY ServerChecks
<1>3. stack[1].then.what \in {"check", "force"}
  BY <1>2 DEF CallInv, Nested
<1>4. ~(stack' = << >> /\ callback'.what \in {"nothing", "message"})
  BY <1>2, <1>3
<1>5. InCheck' => InCheck
  BY <1>2 DEF InCheck
<1> QED
  BY <1>1, <1>4, <1>5, HeardStays

\* A callback, where a client may speak.
LEMMA CallbackHears ==
  ASSUME CallInv, Heard, on_server_register \/ Pinged \/ on_server_message
  PROVE  Heard'
<1>1. CallTypes /\ Answers
  BY DEF CallInv
<1>2. CASE on_server_register
  <2>1. /\ stack # << >> /\ callback.what = "register" /\ callback.con = Work.con
        /\ callback' = Nothing /\ stack' = Call("pinged", callback.con, NULL)
        /\ callback.con \in Conns /\ NULL \in Names
    BY <1>1, <1>2 DEF on_server_register, Due, Answers, CallTypes, Callbacks, Names
  <2>2. stack' # << >> /\ stack'[1].then = stack[1].then
    BY <2>1, ServerCalled
  <2>3. UNCHANGED <<said, fresh, posted, excused, buffer, last_message>>
    BY <1>2 DEF on_server_register, plugin, history
  <2>4. InCheck' => InCheck
    BY <2>1, <2>2 DEF InCheck, Nothing
  <2> QED
    BY <2>2, <2>3, <2>4, HeardStays
<1>3. CASE Pinged
  <2>1. /\ stack # << >> /\ stack' = stack /\ callback' = Nothing
        /\ UNCHANGED <<said, fresh, posted, excused, buffer, last_message>>
    BY <1>1, <1>3 DEF Pinged, Due, Answers, history
  <2>2. InCheck' => InCheck
    BY <2>1 DEF InCheck, Nothing
  <2> QED
    BY <2>1, <2>2, HeardStays
<1>4. CASE on_server_message
  <2>1. /\ stack' = stack /\ callback' = Nothing /\ callback.what = "message"
        /\ UNCHANGED <<posted, excused>> /\ (callback.con = NoCon <=> stack = << >>)
    BY <1>1, <1>4 DEF on_server_message, Due, Answers
  <2>2. InCheck' => InCheck /\ stack # << >>
    BY <2>1 DEF InCheck, Nothing
  <2>3. stack' = << >> => fresh = << >>
    BY <2>1 DEF Heard
  <2>4. CASE UNCHANGED <<last_message, buffer, said, fresh>>
    BY <2>1, <2>2, <2>3, <2>4, HeardStays
  <2>5. CASE /\ last_message' = Remember /\ buffer' = Hear(callback.con)
             /\ callback.con = NoCon /\ UNCHANGED <<said, fresh>>
    BY <2>1, <2>2, <2>3, <2>5 DEF Heard
  <2>6. CASE /\ last_message' = Remember /\ buffer' = Hear(callback.con)
             /\ callback.con # NoCon
             /\ said' = said + 1 /\ fresh' = Append(fresh, said + 1)
    <3>1. said \in Nat /\ fresh \in Seq(1 .. said) /\ fresh \in Seq(1 .. said + 1)
      <4>1. 1 .. said \subseteq 1 .. said + 1 /\ said \in Nat /\ fresh \in Seq(1 .. said)
        BY DEF Heard
      <4> QED
        BY <4>1, SeqMonotonic
    <3>2. /\ fresh' \in Seq(1 .. said') /\ Len(fresh') = Len(fresh) + 1
          /\ \A x \in 1 .. Len(fresh) : fresh'[x] = fresh[x]
          /\ fresh'[Len(fresh) + 1] = said + 1
      BY <2>6, <3>1, AppendProperties
    <3>3. Len(fresh) \in Nat /\ fresh' # << >> /\ Len(fresh) + 1 \in 1 .. Len(fresh')
      BY <3>1, <3>2, LenProperties, EmptySeq
    <3>4. said + 1 \in ToSet(fresh')
      BY <3>2, <3>3, OnList
    <3>5. ToSet(fresh) \subseteq ToSet(fresh')
      <4>1. ASSUME NEW m \in ToSet(fresh)
            PROVE  m \in ToSet(fresh')
        <5>1. PICK x \in 1 .. Len(fresh) : fresh[x] = m
          BY <3>1, OnList
        <5>2. x \in 1 .. Len(fresh') /\ fresh'[x] = m
          BY <3>2, <3>3, <5>1
        <5> QED
          BY <3>2, <5>2, OnList
      <4> QED
        BY <4>1
    <3>6. 1 .. said' \subseteq posted' \cup excused' \cup ToSet(fresh')
      <4>1. 1 .. said' = 1 .. said \cup {said + 1}
        BY <2>6, <3>1
      <4> QED
        BY <2>1, <3>4, <3>5, <4>1 DEF Heard
    <3>7. said' \in Nat /\ posted' \subseteq 1 .. said'
      BY <2>1, <2>6, <3>1 DEF Heard
    <3>8. InCheck' => buffer' = fresh'[Len(fresh')] /\ last_message'
      BY <2>6, <3>2, <3>3 DEF Hear, Remember
    <3> QED
      BY <2>1, <2>6, <3>2, <3>3, <3>6, <3>7, <3>8 DEF Heard
  <2> QED
    BY <1>4, <2>4, <2>5, <2>6 DEF on_server_message
<1> QED
  BY <1>2, <1>3, <1>4

\* A check starts with nothing, and what it ends with is posted.
LEMMA CheckHears ==
  ASSUME CallInv, Heard, ForceJoin \/ Joined \/ Check \/ Checked
  PROVE  Heard'
<1>1. CallTypes /\ NameTypes /\ Answers /\ NULL \in Names /\ NoCon \in Conns
  BY DEF CallInv, Names, Conns
<1>2. CASE ForceJoin
  <2>1. /\ stack = << >> /\ juser # NULL /\ stack' = Call("force", NoCon, juser)
        /\ callback' = Nothing /\ juser \in Names
        /\ UNCHANGED <<said, fresh, posted, excused, buffer, last_message>>
    BY <1>1, <1>2 DEF ForceJoin, Idle, NameTypes, history
  <2>2. stack' # << >> /\ stack'[1].then = Calls("force", NoCon, juser)
    BY <1>1, <2>1, ServerCalled
  <2>3. ~InCheck'
    BY <2>1, <2>2 DEF InCheck, Calls, Nothing
  <2> QED
    BY <2>1, <2>2, <2>3, HeardStays
<1>3. CASE Joined
  <2>1. /\ callback.what = "force" /\ stack' = stack /\ callback' = Calls("work", NoCon, NULL)
        /\ UNCHANGED <<said, fresh, posted, excused, buffer, last_message>>
    BY <1>3 DEF Joined, Due
  <2>2. stack = << >>
    BY <1>1, <2>1 DEF Answers
  <2>3. ~InCheck' /\ callback'.what = "work"
    BY <2>1, <2>2 DEF InCheck, Calls
  <2> QED
    BY <2>1, <2>3, HeardStays
<1>4. CASE Check
  <2>1. /\ stack = << >> /\ stack' = Call("check", NoCon, NULL) /\ callback' = Nothing
        /\ buffer' = None /\ fresh' = << >> /\ excused' = excused \cup ToSet(fresh)
        /\ UNCHANGED <<said, posted>>
    BY <1>1, <1>4 DEF Check, Idle, Due, Answers, Emptied
  <2>2. stack' # << >>
    BY <1>1, <2>1, ServerCalled
  <2>3. fresh' \in Seq(1 .. said')
    BY <2>1, EmptySeq
  <2> QED
    BY <2>1, <2>2, <2>3 DEF Heard
<1>5. CASE Checked
  <2>1. /\ callback.what = "check" /\ callback' = Nothing /\ stack' = stack /\ fresh' = << >>
        /\ posted' = (IF buffer = None THEN posted ELSE posted \cup {buffer})
        /\ excused' = (IF fresh = << >> THEN excused ELSE excused \cup ToSet(Front(fresh)))
        /\ said' = said
    BY <1>5 DEF Checked, Due
  <2>2. stack = << >> /\ InCheck
    BY <1>1, <2>1 DEF Answers, InCheck
  <2>3. fresh' \in Seq(1 .. said') /\ said \in Nat /\ fresh \in Seq(1 .. said)
    BY <2>1, EmptySeq DEF Heard
  <2>4. ~InCheck'
    BY <2>1, <2>2 DEF InCheck, Nothing
  <2>5. CASE fresh = << >>
    <3>1. buffer = None
      BY <2>2, <2>5 DEF Heard
    <3> QED
      BY <2>1, <2>3, <2>4, <2>5, <3>1 DEF Heard
  <2>6. CASE fresh # << >>
    <3> DEFINE m == fresh[Len(fresh)]
    <3>1. /\ m \in ToSet(fresh) /\ ToSet(fresh) \subseteq ToSet(Front(fresh)) \cup {m}
          /\ ToSet(fresh) \subseteq 1 .. said
      BY <2>3, <2>6, FrontAndLast, OnList
    <3>2. buffer = m
      BY <2>2, <2>6 DEF Heard
    <3> HIDE DEF m
    <3>3. m \in 1 .. said /\ m # None
      BY <2>3, <3>1 DEF None
    <3>4. posted' = posted \cup {m} /\ excused' = excused \cup ToSet(Front(fresh))
      BY <2>1, <2>6, <3>2, <3>3
    <3>5. /\ posted' \subseteq 1 .. said'
          /\ 1 .. said' \subseteq posted' \cup excused' \cup ToSet(fresh')
      BY <2>1, <3>1, <3>3, <3>4 DEF Heard
    <3> QED
      BY <2>1, <2>3, <2>4, <3>5 DEF Heard
  <2> QED
    BY <2>5, <2>6
<1> QED
  BY <1>2, <1>3, <1>4, <1>5

\* The pages speak while no check is under way.
LEMMA PageHears ==
  ASSUME CallInv, Heard, Other \/ Shown \/ Nicks \/ mccirc_topic
  PROVE  Heard'
<1>1. /\ UNCHANGED <<stack, said, fresh, posted, excused, buffer>> /\ stack = << >>
      /\ callback = Nothing
      /\ callback' = Nothing \/ \E n : callback' = Calls("message", NoCon, n)
  BY DEF Other, Shown, Nicks, mccirc_topic, mccirc_chatserver_message, Swallow, Relay, plugin,
         history, Event, Idle, irc_server_topic
<1>2. callback'.what \in {"nothing", "message"} /\ fresh = << >>
  BY <1>1 DEF Calls, Nothing, Heard
<1>3. ~InCheck'
  BY <1>1, <1>2 DEF InCheck
<1> QED
  BY <1>1, <1>2, <1>3, HeardStays

\* Every step keeps what was heard.
LEMMA HeardStep ==
  ASSUME CallInv, Heard, [Next]_vars
  PROVE  Heard'
<1>1. CASE Next
  BY <1>1, ServerHears, CallbackHears, CheckHears, PageHears DEF Next
<1>2. CASE UNCHANGED vars
  <2>1. UNCHANGED <<stack, callback, said, fresh, posted, excused, buffer, last_message>>
    BY <1>2 DEF vars, server, plugin, history
  <2> QED
    BY <2>1 DEF Heard, InCheck
<1> QED
  BY <1>1, <1>2

\* Nothing is said at first.
LEMMA HeardInit == Init => Heard
<1> SUFFICES ASSUME Init
             PROVE  Heard
  OBVIOUS
<1>1. /\ said = 0 /\ fresh = << >> /\ posted = {} /\ stack = << >> /\ callback = Nothing
  BY DEF Init, ServerInit
<1>2. ~InCheck /\ fresh \in Seq(1 .. said) /\ 1 .. said = {}
  BY <1>1, EmptySeq DEF InCheck, Nothing
<1> QED
  BY <1>1, <1>2 DEF Heard

\* What the user says is posted, and nothing else is, when no other message of the
\* user follows in the same check and no join is being forced (mccirc.c:145-173,
\* 359-388).
THEOREM SaidAlwaysPosted == Spec => []SaidIsPosted
<1>1. Heard => SaidIsPosted
  <2> SUFFICES ASSUME Heard
               PROVE  SaidIsPosted
    OBVIOUS
  <2>1. CASE Idle
    <3>1. fresh \in Seq(1 .. said) /\ Len(fresh) = 0
      BY <2>1, EmptySeq DEF Heard, Idle, Nothing
    <3>2. ToSet(fresh) = {}
      <4>1. \A m : m \in ToSet(fresh) => \E x \in 1 .. Len(fresh) : fresh[x] = m
        BY <3>1, OnList
      <4>2. 1 .. Len(fresh) = {}
        BY <3>1
      <4> QED
        BY <4>1, <4>2
    <3> QED
      BY <3>2 DEF Heard, SaidIsPosted
  <2> QED
    BY <2>1 DEF Heard, SaidIsPosted
<1>2. CallInv /\ Heard /\ [Next]_vars => Heard'
  BY HeardStep
<1> QED
  BY HeardInit, <1>1, <1>2, CallsNest, PTL DEF Spec

\* Whether a message that was posted is alone: the steps that post one, show one or
\* say that another was shown.
LEMMA AloneStep ==
  ASSUME CallInv, Heard, Alone, [Next]_vars
  PROVE  Alone'
<1>1. CASE UNCHANGED <<waiting, crossed>> /\ (last_message => last_message')
  BY <1>1 DEF Alone
<1>2. CASE Checked
  <2>1. /\ InCheck /\ last_message' = last_message
        /\ waiting' = (IF buffer = None THEN waiting ELSE waiting \cup {buffer})
        /\ crossed' = (IF buffer = None THEN crossed ELSE waiting # {})
    BY <1>2 DEF Checked, Due, InCheck, plugin
  <2>2. CASE buffer = None
    BY <1>1, <2>1, <2>2
  <2>3. CASE buffer # None
    <3>1. fresh # << >> /\ buffer = fresh[Len(fresh)] /\ last_message
      BY <2>1, <2>3 DEF Heard
    <3>2. buffer \in Nat
      <4>1. fresh \in Seq(1 .. said) /\ said \in Nat
        BY DEF Heard
      <4>2. buffer \in 1 .. said
        BY <3>1, <4>1, FrontAndLast, OnList
      <4> QED
        BY <4>1, <4>2
    <3>3. ~crossed' => waiting' = {buffer}
      BY <2>1, <2>3
    <3> QED
      BY <2>1, <3>1, <3>2, <3>3 DEF Alone
  <2> QED
    BY <2>2, <2>3
<1>3. CASE Other
  <2>1. PICK n : /\ mccirc_chatserver_message(n)
                 /\ crossed' = (crossed \/ (mccirc_is_me(n) /\ waiting # {}))
    BY <1>3 DEF Other
  <2>2. waiting' = waiting
    BY <1>3 DEF Other
  <2>3. CASE mccirc_is_me(n)
    BY <2>1, <2>2, <2>3 DEF Alone
  <2>4. CASE ~mccirc_is_me(n)
    <3>1. last_message' = last_message /\ (crossed' <=> crossed)
      BY <2>1, <2>4 DEF mccirc_chatserver_message, Swallow, Relay
    <3> QED
      BY <2>2, <3>1 DEF Alone
  <2> QED
    BY <2>3, <2>4
<1>4. CASE Shown
  <2>1. waiting # {} /\ waiting' = waiting \ {Min(waiting)} /\ crossed' = crossed
    BY <1>4 DEF Shown
  <2>2. ASSUME ~crossed
        PROVE  waiting' = {}
    <3>1. PICK m \in Nat : waiting = {m}
      BY <2>1, <2>2 DEF Alone
    <3>2. Min(waiting) = m
      BY <3>1 DEF Min
    <3> QED
      BY <2>1, <3>1, <3>2
  <2> QED
    BY <2>1, <2>2 DEF Alone
<1>5. CASE \/ ServerStep \/ on_server_register \/ Pinged \/ on_server_message
           \/ ForceJoin \/ Joined \/ Check \/ Nicks \/ mccirc_topic
  <2>1. waiting' = waiting /\ crossed' = crossed
    BY <1>5 DEF ServerStep, on_server_register, Pinged, on_server_message, ForceJoin, Joined,
                Check, Nicks, mccirc_topic, history
  <2>2. last_message => last_message'
    BY <1>5 DEF ServerStep, on_server_register, Pinged, on_server_message, ForceJoin, Joined,
                Check, Nicks, mccirc_topic, plugin, Remember
  <2> QED
    BY <1>1, <2>1, <2>2
<1>6. CASE UNCHANGED vars
  BY <1>1, <1>6 DEF vars, plugin, history
<1> QED
  BY <1>2, <1>3, <1>4, <1>5, <1>6 DEF Next

\* A message that was posted is not shown to the user again, when the pages show no
\* other message of the user between (mccirc.c:217-228, 376).
THEOREM ShownOnce == Spec => EchoOnce
<1>1. Init => Alone
  BY DEF Init, Alone
<1>2. CallInv /\ Heard /\ [Next]_vars => Heard'
  BY HeardStep
<1>3. CallInv /\ Heard /\ Alone /\ [Next]_vars => Alone'
  BY AloneStep
<1>4. ASSUME Alone, [Next]_vars
      PROVE  [waiting' # waiting /\ waiting' \subseteq waiting /\ callback' # Nothing
                => crossed]_vars
  <2> SUFFICES ASSUME waiting' # waiting, waiting' \subseteq waiting, callback' # Nothing
               PROVE  crossed
    OBVIOUS
  <2>1. Shown
    <3>1. CASE UNCHANGED vars
      BY <3>1 DEF vars, history
    <3>2. CASE Checked
      BY <3>2 DEF Checked
    <3> QED
      BY <1>4, <3>1, <3>2
      DEF Next, ServerStep, on_server_register, Pinged, on_server_message, ForceJoin, Joined,
          Check, Other, Nicks, mccirc_topic, history
  <2>2. waiting # {} /\ callback = Nothing /\ mccirc_chatserver_message(ffname)
    BY <2>1 DEF Shown, Event, Idle
  <2>3. ~last_message
    BY <2>2 DEF mccirc_chatserver_message, Swallow, Relay, mccirc_is_me
  <2> QED
    BY <1>4, <2>2, <2>3 DEF Alone
<1> QED
  BY <1>1, HeardInit, <1>2, <1>3, <1>4, CallsNest, PTL DEF Spec, EchoOnce
=============================================================================
