------------------------------ MODULE MCAnswer ------------------------------
(* Answer for TLC.  Names of cookies share their beginnings; one is too    *)
(* long, one has no value.  The first message has a div, the second a div  *)
(* within a div.                                                           *)
EXTENDS Answer

Cookie(name, value) == [name |-> name, equal |-> TRUE, value |-> value, rest |-> << >>]
A1   == Cookie(<<"a">>, <<"1">>)
A2   == [Cookie(<<"a">>, <<"2">>) EXCEPT !.rest = <<";", "path">>]
AB1  == Cookie(<<"a", "b">>, <<"1">>)
Half == [Cookie(<<"a", "b">>, << >>) EXCEPT !.equal = FALSE, !.rest = <<";", "path">>]
LongName  == Cookie(<<"a", "b", "a">>, <<"1">>)
LongValue == Cookie(<<"a">>, <<"1", "2">>)

SetsFor(request) ==
  CASE request = "LOADING_LOGIN_PAGE" ->
         {<<A1, AB1>>, <<LongName, A2, Half>>, <<LongValue>>}
    [] OTHER -> {<< >>}

SomeSymbols ==
  {"a", "b", "1", "2", ";", "path", "p", "profile", "<", "div>", "div ", "/div>",
   "class=quote>", "quoted", "re", "!", "\n"}

Person(u) == [username |-> u, profile |-> "profile"]
People    == {<< >>, <<Person("p")>>}

Inner == DivSpace \o <<"class=quote>", "quoted">> \o EndDiv

Content(mess) ==
  IF mess % 2 = 1 THEN <<"re", "\n">> \o Inner
                  ELSE <<"re">> \o Div \o Inner \o <<"!">> \o EndDiv
=============================================================================
