----------------------------- MODULE Formatter -----------------------------
(***************************************************************************)
(* parser.c: the text of a message, from its HTML to what the rules of     *)
(* parser_rules.conf make of it.  The message is cut into parts; opening   *)
(* tags are linked with closing ones, and closed when they are not; names  *)
(* that are called and shortened links are rewritten; the rules are        *)
(* applied.  A string is a sequence of symbols: characters that mean       *)
(* something here, and words.                                              *)
(***************************************************************************)
EXTENDS Ini

CONSTANTS
  Beginnings,       \* the halves of the messages to format
  Endings,
  UsedFiles,        \* bound: the files whose rules are then used
  Words,            \* the symbols that are words
  Size(_)           \* the bytes of a symbol

VARIABLES
  message, config,  \* being formatted, and the rules
  rul,              \* parser_get_config(): the last rule, its context's place first
  pass,             \* what is being done to it
  i, bracket, prev_data,      \* create_parts()
  list,             \* the parts, and the number of those made so far
  made,
  parts_stack,      \* associate_links(): openings that wait for their closing
  ptr, ptr2,        \* places in the list, one past its end for NULL
  context_stack, out,         \* parser_parse_messages()
  marks             \* history: rules applied to opening tags that were not to the
                    \* closing ones, and the reverse

given    == <<message, config, rul>>
scanvars == <<i, bracket, prev_data>>
outvars  == <<context_stack, out, marks>>
fvars    == <<given, pass, scanvars, list, made, parts_stack, ptr, ptr2, outvars, inivars>>

LT    == "<"
GT    == ">"
SLASH == "/"
QUOTE == "\""
AT    == "@"        \* with one or two bytes more, at the end of a text
COMMA == ", "       \* at the start of a text
DOTS  == " ... "
REF   == "\\{"      \* before the name of an attribute, in a rule

-----------------------------------------------------------------------------
(* The rules, as parser_get_config() reads them from their file: lines of  *)
(* a context, each with rules.                                             *)

NoText == << >>

NoRule == <<0, 0>>

NewRule(tag) == [tag |-> tag, value |-> NoText, start |-> NoText, stop |-> NoText]

Line == Len(config)       \* the last context

FormatterInit ==
  /\ IniInit
  /\ message = << >> /\ config = << >> /\ rul = NoRule /\ pass = "rules"
  /\ i = 1 /\ bracket = FALSE /\ prev_data = << >>
  /\ list = << >> /\ made = 0 /\ parts_stack = << >>
  /\ ptr = 1 /\ ptr2 = 0
  /\ context_stack = << >> /\ out = << >> /\ marks = << >>

\* parser_get_config().
ReadRules ==
  /\ pass = "rules" /\ IniNext
  /\ UNCHANGED <<given, pass, scanvars, list, made, parts_stack, ptr, ptr2, outvars>>

\* parser_get_config(), one name and value at a time.  A field belongs to the
\* last rule, even after a new context.  One that is not given is what malloc()
\* left there; the files of the repository give all.
NewContext(a) ==
  /\ a.name = <<"context">>
  /\ config' = Append(config, [context |-> a.value, rules |-> << >>])
  /\ UNCHANGED rul

NewTag(a) ==
  /\ a.name = <<"tag">> /\ Line > 0
  /\ config' = [config EXCEPT ![Line].rules = Append(@, NewRule(a.value))]
  /\ rul' = <<Line, Len(config[Line].rules) + 1>>

NewField(a) ==
  /\ a.name \notin {<<"context">>, <<"tag">>} /\ rul # NoRule
  /\ config' = [config EXCEPT ![rul[1]].rules[rul[2]] = [@ EXCEPT ![a.name[1]] = a.value]]
  /\ UNCHANGED rul

Misplaced(a) ==
  /\ a.name # <<"context">> /\ (IF a.name = <<"tag">> THEN Line = 0 ELSE rul = NoRule)
  /\ UNCHANGED <<config, rul>>

parser_get_config ==
  /\ pass = "rules" /\ reading = "done" /\ ptr <= Len(atts)
  /\ LET a == atts[ptr] IN NewContext(a) \/ NewTag(a) \/ NewField(a) \/ Misplaced(a)
  /\ ptr' = ptr + 1
  /\ UNCHANGED <<message, pass, scanvars, list, made, parts_stack, ptr2, outvars, inivars>>

ConfigRead ==
  /\ pass = "rules" /\ reading = "done" /\ ptr > Len(atts)
  /\ pass' = "ready" /\ ptr' = 1
  /\ UNCHANGED <<given, scanvars, list, made, parts_stack, ptr2, outvars, inivars>>

\* A message comes; its halves are chosen one after the other.
Begin ==
  /\ pass = "ready" /\ file \in UsedFiles
  /\ message' \in Beginnings /\ pass' = "begun"
  /\ UNCHANGED <<config, rul, scanvars, list, made, parts_stack, ptr, ptr2, outvars, inivars>>

Continue ==
  /\ pass = "begun"
  /\ \E m \in Endings : message' = message \o m
  /\ pass' = "create"
  /\ UNCHANGED <<config, rul, scanvars, list, made, parts_stack, ptr, ptr2, outvars, inivars>>
-----------------------------------------------------------------------------
(* Parts.                                                                  *)

Unquoted(s) == SelectSeq(s, LAMBDA c : c # QUOTE)

\* The places of the spaces that are not between quotes.
Cuts(s) ==
  SetToSortSeq({p \in DOMAIN s : s[p] = SPACE
                  /\ Len(SelectSeq(SubSeq(s, 1, p), LAMBDA c : c = QUOTE)) % 2 = 0}, <)

\* cstring_splitc(): the fields, without their quotes.
Fields(s) ==
  LET ends == <<0>> \o Cuts(s) \o <<Len(s) + 1>>
  IN  IF Unquoted(s) = << >> THEN << >>
      ELSE [f \in 1 .. Len(ends) - 1 |-> Unquoted(SubSeq(s, ends[f] + 1, ends[f + 1] - 1))]

\* Without an equal sign there is no name, and the value lacks a character.
AttributeOf(field) ==
  LET equal == SelectInSeq(field, LAMBDA c : c = EQUAL)
  IN  IF equal = 0 THEN [name |-> << >>, value |-> Tail(field)]
      ELSE [name  |-> SubSeq(field, 1, equal - 1),
            value |-> SubSeq(field, equal + 1, Len(field))]

Part(id, type, data, attributes) ==
  [id |-> id, type |-> type, data |-> data, attributes |-> attributes, link |-> 0]

TextPart(id, data) == Part(id, "MESSAGE", data, << >>)

TagPart(id, data) ==
  LET closing == data[1] = SLASH
      fields  == Fields(IF closing THEN Tail(data) ELSE data)
      type    == IF closing THEN "CLOSING" ELSE "OPENING"
  IN  IF fields = << >> THEN Part(id, type, << >>, << >>)
      ELSE Part(id, type, fields[1], [f \in 1 .. Len(fields) - 1 |-> AttributeOf(fields[f + 1])])

InBrackets(m, x, y) ==
  m[x] = LT /\ m[y] = GT /\ x + 1 < y /\ \A z \in x + 1 .. y - 1 : m[z] # GT

\* The closing part that is made for a name, from its text.
ClosingPart(id, name) == TagPart(id, <<SLASH>> \o name)

\* A name without spaces or quotes, which that part keeps.
IsPlain(name) == ClosingPart(1, name).data = name

\* Names of tags have no quotes, and so no spaces, and none of the texts that have
\* a space in them; nor have they an @.  "nick" is the name a special rule gives.

ASSUME MessageAssumption ==
  /\ Beginnings \subseteq Seq(STRING) /\ Endings \subseteq Seq(STRING)
  /\ \A b \in Beginnings, e \in Endings : LET m == b \o e IN
       \A x, y \in DOMAIN m : InBrackets(m, x, y) =>
         LET name == TagPart(1, SubSeq(m, x + 1, y - 1)).data
         IN  name \in Seq(ToSet(m) \ {AT, COMMA, DOTS}) /\ IsPlain(name)
  /\ IsPlain(<<"nick">>)

\* A clone has no attributes.
CloneToClose(id, part) == Part(id, "CLOSING", part.data, << >>)

AddParts(parts) == list' = list \o parts /\ made' = made + Len(parts)

\* create_parts(), one symbol at a time.
EndOfText ==
  /\ ~bracket /\ message[i] = LT
  /\ bracket' = TRUE /\ prev_data' = << >>
  /\ AddParts(IF prev_data = << >> THEN << >> ELSE <<TextPart(made + 1, prev_data)>>)

SelfClosing == i > 1 /\ message[i - 1] = SLASH

\* What is between empty brackets, or the slash alone, stays for the next part.
EndOfTag ==
  /\ bracket /\ message[i] = GT
  /\ bracket' = FALSE
  /\ IF prev_data = << >> \/ (SelfClosing /\ Len(prev_data) = 1)
       THEN AddParts(<< >>) /\ UNCHANGED prev_data
       ELSE LET part == TagPart(made + 1, prev_data)
            IN AddParts(IF SelfClosing THEN <<part, CloneToClose(made + 2, part)>> ELSE <<part>>)
               /\ prev_data' = << >>

WithinPart ==
  /\ message[i] # (IF bracket THEN GT ELSE LT)
  /\ prev_data' = Append(prev_data, message[i])
  /\ AddParts(<< >>) /\ UNCHANGED bracket

CreateParts ==
  /\ pass = "create" /\ i <= Len(message)
  /\ EndOfText \/ EndOfTag \/ WithinPart
  /\ i' = i + 1
  /\ UNCHANGED <<inivars, given, pass, parts_stack, ptr, ptr2, outvars>>

\* A tag that is not ended is a text.
PartsCreated ==
  /\ pass = "create" /\ i > Len(message)
  /\ pass' = "associate"
  /\ AddParts(IF prev_data = << >> THEN << >> ELSE <<TextPart(made + 1, prev_data)>>)
  /\ UNCHANGED <<inivars, given, scanvars, parts_stack, ptr, ptr2, outvars>>
-----------------------------------------------------------------------------
(* Links.                                                                  *)

IsOpening(p) == p.type = "OPENING"
IsClosing(p) == p.type = "CLOSING"

Linked(parts, p, q) ==
  [parts EXCEPT ![p].link = parts[q].id, ![q].link = parts[p].id]

\* Mutant: names are not compared.
MatchBug(p, q) == TRUE

Match(p, q) == list[p].data = list[q].data

\* A closing tag takes the last opening tag that waits, its own or not.
associate_links ==
  /\ pass = "associate" /\ ptr <= Len(list)
  /\ ptr' = ptr + 1
  /\ \/ IsOpening(list[ptr]) /\ parts_stack' = Append(parts_stack, ptr) /\ UNCHANGED list
     \/ /\ IsClosing(list[ptr]) /\ parts_stack # << >>
        /\ parts_stack' = Front(parts_stack)
        /\ list' = IF Match(ptr, Last(parts_stack))
                     THEN Linked(list, ptr, Last(parts_stack)) ELSE list
     \/ /\ list[ptr].type = "MESSAGE" \/ (IsClosing(list[ptr]) /\ parts_stack = << >>)
        /\ UNCHANGED <<parts_stack, list>>
  /\ UNCHANGED <<inivars, given, pass, scanvars, made, ptr2, outvars>>

Closed(p, part) == InsertAt(list, p + 1, part)

\* An opening tag that has no link is closed at once.
force_close_tags ==
  /\ pass = "close" /\ ptr <= Len(list)
  /\ ptr' = ptr + 1
  /\ IF IsOpening(list[ptr]) /\ list[ptr].link = 0
       THEN LET end == [ClosingPart(made + 1, list[ptr].data) EXCEPT !.link = list[ptr].id]
            IN list' = [Closed(ptr, end) EXCEPT ![ptr].link = end.id] /\ made' = made + 1
       ELSE UNCHANGED <<list, made>>
  /\ UNCHANGED <<inivars, given, pass, scanvars, parts_stack, ptr2, outvars>>

\* Where each loop over the list goes when it is over.
PassAfter ==
  [associate |-> "close", close |-> "special", special |-> "output", output |-> "done"]

EndOfPass ==
  /\ pass \in DOMAIN PassAfter /\ ptr > Len(list)
  /\ pass' = PassAfter[pass] /\ ptr' = 1
  /\ UNCHANGED <<inivars, given, scanvars, list, made, parts_stack, ptr2, outvars>>
-----------------------------------------------------------------------------
(* Special rules.                                                          *)

IsSpan(p, type) == p <= Len(list) /\ list[p].data = <<"span">> /\ list[p].type = type

\* How many parts from that place on are such tags.
Spans(p, type) ==
  CHOOSE n \in 0 .. Len(list) :
    /\ ~IsSpan(p + n, type)
    /\ \A x \in 0 .. n - 1 : IsSpan(p + x, type)

count_span_data_span(p) ==
  LET n == Spans(p, "OPENING")
  IN  IF /\ p <= Len(list) /\ p + n <= Len(list) /\ list[p + n].type = "MESSAGE"
         /\ n <= Spans(p + n + 1, "CLOSING")
        THEN n ELSE 0

\* A list without the parts from a place to another; links to them are broken.
Without(parts, from, to) ==
  LET ids  == {parts[p].id : p \in from .. to}
      left == SubSeq(parts, 1, from - 1) \o SubSeq(parts, to + 1, Len(parts))
  IN  [p \in DOMAIN left |->
         IF left[p].link \in ids THEN [left[p] EXCEPT !.link = 0] ELSE left[p]]

Bytes(s) == FoldLeft(LAMBDA n, c : n + Size(c), 0, s)

\* Mutant: any word after an @ is taken with it.
AtPlacesBug(s) == {p \in DOMAIN s : s[p] = AT /\ p + 1 = Len(s)}

\* The places of an @ with one or two bytes after it, whatever these are.
AtPlaces(s) == {p \in DOMAIN s : s[p] = AT /\ Bytes(SubSeq(s, p + 1, Len(s))) \in 1 .. 2}

EndsWithAt(s) == AtPlaces(s) # {}

\* With two of them, the first one counts.
BeforeAt(s) == SubSeq(s, 1, Min(AtPlaces(s)) - 1)

\* check_at_rule(): the @ before a name in spans is removed, with what follows it.
CheckAt ==
  /\ pass = "special" /\ ptr <= Len(list)
  /\ ptr2' = list[ptr].id
  /\ IF EndsWithAt(list[ptr].data) /\ count_span_data_span(ptr + 1) > 0
       THEN /\ pass' = "nick"
            /\ IF BeforeAt(list[ptr].data) = << >>
                 THEN list' = Without(list, ptr, ptr) /\ UNCHANGED ptr
                 ELSE list' = [list EXCEPT ![ptr].data = BeforeAt(@)] /\ ptr' = ptr + 1
       ELSE pass' = "reduce" /\ UNCHANGED <<list, ptr>>
  /\ UNCHANGED <<inivars, given, scanvars, made, parts_stack, outvars>>

\* Spans beyond the one that becomes <nick>.
Extra(n) == n - 1

\* Mutant: the name is not skipped before the ends of spans are removed.
NickedBug(n) ==
  LET left == Without(list, ptr + 1, ptr + 2 * Extra(n))
  IN  [left EXCEPT ![ptr].data = <<"nick">>, ![ptr + 2].data = <<"nick">>]

\* The spans at ptr become one <nick>, closed just after the name.
Nicked(n) ==
  LET left == Without(Without(list, ptr + 1, ptr + Extra(n)), ptr + 2, ptr + 1 + Extra(n))
  IN  [left EXCEPT ![ptr].data = <<"nick">>, ![ptr + 2].data = <<"nick">>]

\* Mutant: its length is not looked at.
AloneBug(data) == TRUE

\* Whether there is only the ", " in a text.
Alone(data) == Len(data) = 1

\* The ", " after the name is removed; when it was the last part, what follows
\* it is read through a null pointer.  The quantifier names the new list: TLC makes
\* it once, in ENABLED too.
CalledNick ==
  LET n     == count_span_data_span(ptr)
      after == ptr + 3
  IN  /\ pass = "nick" /\ n > 0
      /\ \E parts \in {Nicked(n)} :
           LET called == /\ after <= Len(parts) /\ parts[after].data # << >>
                         /\ parts[after].data[1] = COMMA
           IN  CASE ~called -> list' = parts /\ ptr' = after /\ UNCHANGED pass
                 [] called /\ ~Alone(parts[after].data) ->
                      /\ list' = [parts EXCEPT ![after].data = Tail(@)]
                      /\ ptr' = after /\ UNCHANGED pass
                 [] called /\ Alone(parts[after].data) ->
                      /\ list' = Without(parts, after, after)
                      /\ ptr' = after - 1
                      /\ pass' = IF after = Len(parts) THEN "crashed" ELSE pass
      /\ UNCHANGED <<inivars, given, scanvars, made, parts_stack, ptr2, outvars>>

NoMoreNick ==
  /\ pass = "nick" /\ count_span_data_span(ptr) = 0
  /\ pass' = "reduce"
  /\ UNCHANGED <<inivars, given, scanvars, list, made, parts_stack, ptr, ptr2, outvars>>

\* The attribute check_reduce_link_rule() compares: href, or else the last.
LinkAttribute(part) ==
  LET href == SelectInSeq(part.attributes, LAMBDA a : a.name = <<"href">>)
  IN  IF href = 0 THEN Len(part.attributes) ELSE href

Href(part) ==
  LET a == LinkAttribute(part)
  IN  IF part.attributes[a].name = <<"href">> THEN part.attributes[a].value ELSE << >>

\* cstring_ends_with(), which reads outside of a string that is too short.
MayEndWith(s, end) == IF Len(end) > Len(s) THEN BOOLEAN ELSE {IsSuffix(end, s)}

\* Whether a text is the link, or its beginning and its end.
MayBeLink(text, part) ==
  LET cut == SelectInSeq(text, LAMBDA c : c = DOTS)
  IN  IF text = part.attributes[LinkAttribute(part)].value THEN {TRUE}
      ELSE IF cut = 0 \/ ~IsPrefix(SubSeq(text, 1, cut - 1), Href(part)) THEN {FALSE}
      ELSE MayEndWith(Href(part), SubSeq(text, cut + 1, Len(text)))

\* The link and its text change places.
Swapped ==
  LET a == LinkAttribute(list[ptr])
  IN  [list EXCEPT ![ptr].attributes[a] = [name |-> <<"nohref">>, value |-> list[ptr + 1].data],
                   ![ptr + 1].data = list[ptr].attributes[a].value]

IsLink(p) ==
  /\ p < Len(list) /\ IsOpening(list[p]) /\ list[p].data \in {<<"a">>, <<"A">>}
  /\ list[p].attributes # << >>

\* Mutant: the same part again.
StepBug(p) == p

Step(p) == IF p <= Len(list) /\ list[p].id = ptr2 THEN p + 1 ELSE p

CheckReduceLink ==
  /\ pass = "reduce"
  /\ \E swap \in IF IsLink(ptr) THEN MayBeLink(list[ptr + 1].data, list[ptr]) ELSE {FALSE} :
       list' = IF swap THEN Swapped ELSE list
  /\ ptr' = Step(ptr) /\ pass' = "special"
  /\ UNCHANGED <<inivars, given, scanvars, made, parts_stack, ptr2, outvars>>
-----------------------------------------------------------------------------
(* What the rules make of the parts.                                       *)

\* Mutant: a closing tag has its own attributes.
AttributesBug(part) == part.attributes

\* The attributes that rules look at: for a closing tag, those of its link.
AttributesOf(part) ==
  IF IsClosing(part) /\ \E p \in DOMAIN list : list[p].id = part.link
    THEN list[CHOOSE p \in DOMAIN list : list[p].id = part.link].attributes
    ELSE part.attributes

\* process_parser_message_sub(): a line applies when its context is anywhere on
\* the stack.
InContext(line, contexts) ==
  contexts # << >> /\ (line.context = NoText \/ \E c \in ToSet(contexts) : c = line.context)

Applies(rule, part) ==
  \/ rule.tag = NoText
  \/ \E a \in ToSet(AttributesOf(part)) :
       rule.tag = a.name /\ (rule.value = NoText \/ rule.value = a.value)

\* The first rule that applies.
RuleFor(part, contexts) ==
  LET hits == UNION {{<<x, y>> : y \in {z \in DOMAIN config[x].rules : Applies(config[x].rules[z], part)}} :
                       x \in {z \in DOMAIN config : InContext(config[z], contexts)}}
  IN  IF hits = {} THEN NoRule
      ELSE CHOOSE x \in hits : \A y \in hits : x[1] < y[1] \/ (x[1] = y[1] /\ x[2] <= y[2])

\* The text of a rule with the values of the attributes it names.
Expand(text, attributes) ==
  LET named(p) == IF p < Len(text) /\ text[p] = REF
                    THEN SelectInSeq(attributes, LAMBDA a : a.name = <<text[p + 1]>>) ELSE 0
      piece(p) == IF named(p) # 0 THEN attributes[named(p)].value
                  ELSE IF p > 1 /\ named(p - 1) # 0 THEN << >> ELSE <<text[p]>>
  IN  FlattenSeq([p \in DOMAIN text |-> piece(p)])

\* process_parser_message() and process_tag().
ProcessTag(part, contexts) ==
  LET at == RuleFor(part, contexts)
  IN  IF at = NoRule THEN UNCHANGED <<out, marks>>
      ELSE LET rule == config[at[1]].rules[at[2]]
               text == IF IsOpening(part) THEN rule.start ELSE rule.stop
           IN  /\ out' = out \o Expand(text, AttributesOf(part))
               /\ marks' = IF IsClosing(part) /\ marks # << >> /\ Last(marks) = <<"OPENING", at>>
                             THEN Front(marks) ELSE Append(marks, <<part.type, at>>)

ClosesLast(part) ==
  IsClosing(part) /\ context_stack # << >> /\ Last(context_stack) = part.data

\* parser_parse_messages(): a closing tag counts when it closes the last
\* context that is open.
parser_parse_messages ==
  LET part == list[ptr]
  IN  /\ pass = "output" /\ ptr <= Len(list)
      /\ \/ /\ IsOpening(part)
            /\ context_stack' = Append(context_stack, part.data)
            /\ ProcessTag(part, context_stack')
         \/ /\ ClosesLast(part)
            /\ ProcessTag(part, context_stack)
            /\ context_stack' = Front(context_stack)
         \/ /\ IsClosing(part) /\ ~ClosesLast(part)
            /\ UNCHANGED outvars
         \/ /\ part.type = "MESSAGE"
            /\ out' = out \o part.data /\ UNCHANGED <<context_stack, marks>>
      /\ ptr' = ptr + 1
      /\ UNCHANGED <<inivars, given, pass, scanvars, list, made, parts_stack, ptr2>>

FormatterNext ==
  \/ ReadRules \/ parser_get_config \/ ConfigRead \/ Begin \/ Continue
  \/ CreateParts \/ PartsCreated
  \/ associate_links \/ force_close_tags \/ EndOfPass
  \/ CheckAt \/ CalledNick \/ NoMoreNick \/ CheckReduceLink
  \/ parser_parse_messages

-----------------------------------------------------------------------------
\* From the end of force_close_tags() on, links join two parts with one name,
\* the opening one first, whatever parts the special rules remove or rename
\* (parser.c:537-599, 694-732).
LinksAreMutual ==
  pass \in {"special", "reduce", "output", "done"} =>
    \A p \in DOMAIN list : list[p].link # 0 =>
      \E q \in DOMAIN list :
        /\ list[q].id = list[p].link /\ list[q].link = list[p].id
        /\ list[q].data = list[p].data
        /\ IsOpening(list[p]) => IsClosing(list[q]) /\ p < q

Spoken(s) == SelectSeq(s, LAMBDA c : c \in Words)

\* The places that are within two bytes of an @, up to a <span>.
AfterAt ==
  {q \in DOMAIN message : \E p \in 1 .. q - 1, e \in q + 1 .. Len(message) :
     /\ message[p] = AT /\ message[e] = LT
     /\ Bytes(SubSeq(message, p + 1, e - 1)) <= 2
     /\ \E x \in e + 1 .. Len(message) :
          message[x] = "span" /\ \A z \in e .. x - 1 : message[z] \in {LT, GT}}

\* The words of a message are displayed, in order, all of them but for those of
\* the one or two bytes between an @ and the <span> of a name: they are taken for
\* the non-breaking space of parser.c:648-649 (parser.c:294-320, 663-756).
TextIsKept ==
  pass = "done" => \E lost \in SUBSET AfterAt :
    Spoken(out) = Spoken([q \in DOMAIN message |-> IF q \in lost THEN AT ELSE message[q]])

\* When no closing tag is stray, each start of a rule is followed by its stop,
\* whatever tags were left open (parser.c:342-347, 571-599, 856-861).
MarksArePaired ==
  pass = "done" /\ (\A p \in DOMAIN list : IsClosing(list[p]) => list[p].link # 0)
    => marks = << >>

\* The null pointer is read only for a name followed by a comma and by nothing
\* else that makes a part: empty brackets make none (parser.c:499-523, 742-746).
CommaLast(n) ==
  \E p \in 1 .. n : message[p] = COMMA /\ \A q \in p + 1 .. n : message[q] \in {LT, GT}

CrashesAtLastComma == pass = "crashed" => CommaLast(Len(message))
=============================================================================
