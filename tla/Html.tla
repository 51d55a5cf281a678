-------------------------------- MODULE Html --------------------------------
(***************************************************************************)
(* The pages of the forum, as sequences of symbols.  A symbol stands for a *)
(* run of characters that no pattern of parsehtml.c cuts anywhere else, or *)
(* for a value.  A page is a sequence of parts: messages, the statistics   *)
(* with the people who are there, the hidden fields of the form.           *)
(***************************************************************************)
EXTENDS Integers, Sequences, SequencesExt

QUOTE == "\""
EOL   == <<"\r", "\n">>

\* What parse_minichat_mess() watches for.
DivMess     == <<"<", "div ", "id=m", "ess">>
StatsIdCl   == <<"<", "div ", "id=m", "ChatStats class">>
StatsClId   == <<"<", "div ", "class=m", "ChatStats id">>
CreationKey == <<"<", "input ", "hidden", "creation_time">>
TokenKey    == <<"<", "input ", "hidden", "form_token">>
ImgSrc      == <<"<", "img ">>
ProfileHref == <<"<", "a ", "href=", ".">>
MessageDiv  == <<"<", "div ", "class=avatarMessage">>
EndDiv      == <<"<", "/div>">>
Div         == <<"<", "div>">>
DivSpace    == <<"<", "div ">>
Br          == <<"<", "br />">>
ALink       == <<"<", "a ">>
Href        == <<"href=">>

\* The symbols that end a tag.
TagEnd == {">", "/>", "/div>", "div>", "/a>", "br />", "class=quote>"}
-----------------------------------------------------------------------------
(* The pages as the forum writes them.                                     *)

WriteMessage(p) ==
  DivMess \o p.id \o <<QUOTE, ">">>
    \o ImgSrc \o <<p.icon, QUOTE, "/>">> \o EOL
    \o ProfileHref \o <<p.profile, QUOTE, ">", p.username, "<", "/a>">>
    \o MessageDiv \o p.text \o EndDiv \o EndDiv

PersonSize == 9

WritePerson(u) == ALink \o Href \o <<u.profile, QUOTE, ">", u.username, "<", "/a>">>

\* All are as long.
WritePeople(people) ==
  [i \in 1 .. PersonSize * Len(people) |->
     WritePerson(people[((i - 1) \div PersonSize) + 1])[((i - 1) % PersonSize) + 1]]

WriteStats(p) ==
  StatsIdCl \o <<p.topic>> \o (IF p.people = << >> THEN << >> ELSE Br)
    \o WritePeople(p.people) \o EndDiv

WriteForm(p) ==
  CreationKey \o <<p.creation_time, QUOTE, "/>">> \o EOL
    \o TokenKey \o <<p.form_token, QUOTE, "/>">>

WritePart(p) ==
  CASE p.kind = "message" -> WriteMessage(p)
    [] p.kind = "stats"   -> WriteStats(p)
    [] p.kind = "form"    -> WriteForm(p)

WritePage(page) == [i \in 1 .. Len(page) |-> WritePart(page[i])]
-----------------------------------------------------------------------------
(* What they mean: the calls a reader of the page should make.             *)

\* In a page, an end of line shows nothing.
OnOneLine(s) == SelectSeq(s, LAMBDA c : c \notin {"\r", "\n"})

MessageCall(p) ==
  <<"minichat_message", p.id, <<p.username>>, <<p.icon>>, <<".", p.profile>>, OnOneLine(p.text)>>

CallsOf(p) ==
  CASE p.kind = "message" -> <<MessageCall(p)>>
    [] p.kind = "stats" ->
         <<<<"nicklist_topic", <<p.topic>>>>, <<"nicklist_recup_start">>>>
           \o [i \in DOMAIN p.people |->
                 <<"nicklist_recup_name", <<p.people[i].username>>,
                   <<p.people[i].profile>>>>]
           \o <<<<"nicklist_recup_end">>>>
    [] p.kind = "form" ->
         <<<<"set_creation_time", <<p.creation_time>>>>,
           <<"set_form_token", <<p.form_token>>>>>>

CallsOfPage(page) == FoldLeft(LAMBDA s, p : s \o CallsOf(p), << >>, page)
=============================================================================
