------------------------------- MODULE MCText -------------------------------
(* Text for TLC.  Configuration files are made of a few lines in any order, *)
(* and only one asks for rules; files of rules likewise, and only those of  *)
(* the repository's parser_rules.conf (links, bold, called names) format    *)
(* all messages, which are made of a few tags and words in any order.       *)
EXTENDS Text, FiniteSets

RECURSIVE Chains(_, _)
Chains(pieces, n) ==
  IF n = 0 THEN {<< >>} ELSE {p \o q : p \in pieces \cup {<< >>}, q \in Chains(pieces, n - 1)}

SomeKeys == <<<<"h">>, <<"h", "o">>, <<"p">>, <<"r">>>>

WithRules == <<"r", " ", "1">>
ConfLines ==
  {<<"h", " ", "1", "\n">>, <<"h", "o", "\t", "2", "\r", "\n">>, <<"p", "=", "1", "\t">>,
   <<"#", "h", "\n">>, <<" ", "p", " ", "\n">>, <<"p", " ", " ", "1", "2", "h", "=", "3">>,
   <<"\n">>}
SomeConfs == {WithRules} \cup Chains(ConfLines, 3)

Says(n, v) == <<n, EQUAL>> \o v \o <<LF>>
Rule(tag, value, start, stop) ==
  Says("tag", tag) \o Says("value", value) \o Says("start", start) \o Says("stop", stop)

TheRules ==
  Says("stop", <<"lost">>) \o Says("tag", <<"lost">>) \o <<HASH, "rules", CR, LF, LF>>
    \o Says("context", <<"nick">>) \o Rule(NoText, NoText, NoText, <<": ">>)
    \o Says("context", <<"a">>)
    \o Rule(<<"href">>, NoText, NoText, <<"(", REF, "href", ")">>)
    \o Says("context", <<"a">>) \o Rule(NoText, NoText, NoText, NoText)
    \o Says("context", <<"b">>) \o Rule(NoText, NoText, <<"*">>, <<"*">>)
    \o Says("context", <<"span">>) \o Rule(<<"style">>, <<"bold">>, <<"_">>, <<"_">>)

RuleLines ==
  {<<"tag", EQUAL, "b", LF>>, <<"context", EQUAL, CR, LF>>, <<SPACE, "start", SPACE, EQUAL, "x", CR, LF>>,
   <<"context">>, <<HASH, "tag", LF>>, <<"tags", EQUAL>>, <<LF>>}
SomeIni == {TheRules} \cup Chains(RuleLines, 4)

Tag(s)  == <<LT>> \o s \o <<GT>>
End(s)  == <<LT, SLASH>> \o s \o <<GT>>
Link    == <<LT, "a", SPACE, "href", EQUAL, QUOTE, "u", "v", "w", QUOTE, GT>>
Bold    == <<LT, "span", SPACE, "style", EQUAL, QUOTE, "bold", QUOTE, GT>>

Pieces ==
  {Link, End(<<"a">>), Tag(<<"b">>), End(<<"b">>), Bold, End(<<"span">>),
   <<LT, "br", SPACE, SLASH, GT>> \o <<LT, SLASH, GT>>, <<"one">>, <<"two", GT>>}

\* A name is called, with up to three spans around it: after the @ there is a
\* non-breaking space, as there should be, one or two letters, or a word.
NBSP == "\\u00a0"
Calls ==
  {a \o s : a \in {<<AT, NBSP>>, <<"two", AT, "i">>, Tag(<<"b">>) \o <<"two", AT, NBSP>>},
            s \in {Bold, Bold \o Bold, Bold \o Bold \o Bold}}
  \cup {a \o Bold : a \in {<<"two", AT>>, <<AT, "he">>, <<"two", AT, AT, "i">>, <<AT, "i", "i">>,
                          <<AT, "three">>}}
Called ==
  {<<"one">> \o e \o z \o y :
     e \in {End(<<"span">>), End(<<"span">>) \o End(<<"span">>)},
     z \in {<< >>, <<COMMA>>, <<COMMA, "three">>, End(<<"span">>) \o Bold},
     y \in {<< >>, End(<<"b">>), Bold \o <<"three">> \o End(<<"span">>)}}
  \cup {<<"one">> \o End(<<"span">>) \o <<COMMA, LT>> \o z : z \in {<< >>, <<GT>>}}

\* The text of a link is its address, whole or cut.
Addresses ==
  {t \o e : t \in {<<"u", "v", "w">>, <<"u", DOTS, "w">>, <<"u", DOTS, "v">>,
                  <<DOTS, "x", "u", "v", "w">>, <<"x", DOTS>>},
           e \in {<< >>, End(<<"a">>)}}
  \cup {<<DOTS, "w", LT, "two">>}

Openings == {Link, Tag(<<"b">>), Bold, <<"one">>}

SomeBeginnings == Pieces \cup Chains(Openings, 2) \cup Calls
Closings == {End(<<"a">>), End(<<"b">>), End(<<"span">>), <<"one">>}

SomeEndings    == Pieces \cup Chains(Closings, 2) \cup Called \cup Addresses
UsedRules      == {TheRules}

LongWords == {"one", "two", "three"}
SomeWords == LongWords \cup {"i", "he"}

\* Long words, and names, have three bytes or more.
SizeOf(symbol) ==
  CASE symbol \in {NBSP, COMMA, REF, "he", "br"} -> 2
    [] symbol \in LongWords \cup {DOTS, "span", "bold", "href", "style", "nick"} -> 3
    [] OTHER -> 1
=============================================================================
