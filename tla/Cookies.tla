------------------------------ MODULE Cookies ------------------------------
(***************************************************************************)
(* cookies.c: the jar, the automaton that fills it from the headers of an  *)
(* answer, and the two values of the forum's form.  The automaton eats one *)
(* symbol at a time: a symbol is a character that means something to it,   *)
(* or a run of others.  Names and values are sequences of symbols; a jar's *)
(* slot is such a pair, or FREE.                                           *)
(***************************************************************************)
EXTENDS Integers, Sequences

CONSTANTS
  MAXCOOKIES,       \* slots of the jar
  MAXBUFNAME,       \* symbols a name may have, and a value
  MAXBUFVALUE

ASSUME CookiesAssumption ==
  /\ MAXCOOKIES \in Nat \ {0}
  /\ MAXBUFNAME \in Nat \ {0} /\ MAXBUFVALUE \in Nat \ {0}

VARIABLES
  cookies,          \* the jar
  hstate, hj,       \* the automaton's state, its place in SetCookie
  bufname, bufvalue,
  creation_time, form_token

hvars      == <<hstate, hj, bufname, bufvalue>>
tokens     == <<creation_time, form_token>>
cookievars == <<cookies, hvars, tokens>>

Slots == 0 .. MAXCOOKIES - 1
FREE  == << >>
LF    == "\n"
CR    == "\r"

SetCookie == <<"Set-", "Cookie:">>

CookiesInit ==
  /\ cookies = [i \in Slots |-> FREE]
  /\ hstate = "WAITINGFORNEWLINE" /\ hj = 0 /\ bufname = << >> /\ bufvalue = << >>
  /\ creation_time = << >> /\ form_token = << >>
-----------------------------------------------------------------------------
(* The jar.                                                                *)

IsFor(name, slot) == slot # FREE /\ slot[1] = name

\* Mutant: a free slot is taken before a slot of that name is looked for.
PlaceForBug(jar, name) == {i \in Slots : jar[i] = FREE}

\* The slots a cookie may go to; storecookie() takes the first.
PlaceFor(jar, name) == {i \in Slots : jar[i] = FREE \/ IsFor(name, jar[i])}

\* Mutant: a name that is known keeps its value.
StoredBug(jar, i, name, value) == IF jar[i] = FREE THEN <<name, value>> ELSE jar[i]

Stored(jar, i, name, value) == <<name, value>>

\* The jar after storecookie(); one that is full drops a new name.
storecookie(jar, name, value) ==
  [i \in Slots |->
     IF i \in PlaceFor(jar, name) /\ \A h \in PlaceFor(jar, name) : i <= h
       THEN Stored(jar, i, name, value)
       ELSE jar[i]]

\* What the next request carries (generate_cookies_string()).
Sent == {cookies[i] : i \in Slots} \ {FREE}
-----------------------------------------------------------------------------
(* parsehttpheadersforgettingcookies(), which begins anew at each call.    *)

StartHeaders ==
  /\ hstate' = "WAITINGFORNEWLINE" /\ hj' = 0
  /\ bufname' = << >> /\ bufvalue' = << >>

\* Below the space, and below '0', in the order of characters.
IsControl(c) == c \in {LF, CR}
IsLow(c)     == IsControl(c) \/ c = "-"

WaitForNewline(c) ==
  /\ hstate = "WAITINGFORNEWLINE"
  /\ hstate' = IF c = LF THEN "IN_HEADER" ELSE hstate
  /\ UNCHANGED <<cookies, hj, bufname, bufvalue>>

InHeader(c) ==
  /\ hstate = "IN_HEADER"
  /\ \/ c = LF /\ hstate' = "ENDOFHTTPHEADERS" /\ UNCHANGED hj
     \/ c = CR /\ UNCHANGED <<hstate, hj>>
     \/ /\ c \notin {LF, CR} /\ c # SetCookie[hj + 1]
        /\ hstate' = "WAITINGFORNEWLINE" /\ hj' = 0
     \/ /\ c = SetCookie[hj + 1]
        /\ IF hj + 1 = Len(SetCookie)
             THEN hstate' = "HEADER_FOUND" /\ hj' = 0
             ELSE hj' = hj + 1 /\ UNCHANGED hstate
  /\ UNCHANGED <<cookies, bufname, bufvalue>>

HeaderFound(c) ==
  /\ hstate = "HEADER_FOUND"
  /\ hstate' = CASE c = " " -> hstate
                 [] c = LF -> "IN_HEADER"
                 [] c = ";" \/ (c # LF /\ IsLow(c)) -> "WAITINGFORNEWLINE"
                 [] OTHER -> "IN_COOKIENAME"
  /\ bufname' = IF hstate' = "IN_COOKIENAME" THEN <<c>> ELSE bufname
  /\ UNCHANGED <<cookies, hj, bufvalue>>

\* Whether a buffer takes no more.
IsFull(buf, most) == Len(buf) >= most

\* Where the automaton goes after a cookie.
AfterCookie(c) == IF c = LF THEN "IN_HEADER" ELSE "WAITINGFORNEWLINE"

\* A name with no value is stored too; one that is too long is not.
InCookieName(c) ==
  /\ hstate = "IN_COOKIENAME"
  /\ bufvalue' = << >>
  /\ \/ /\ IsControl(c) \/ c = ";"
        /\ cookies' = storecookie(cookies, bufname, << >>)
        /\ hstate' = AfterCookie(c) /\ UNCHANGED bufname
     \/ /\ c = "="
        /\ hstate' = "IN_COOKIE_VALUE" /\ UNCHANGED <<cookies, bufname>>
     \/ /\ ~IsControl(c) /\ c \notin {";", "="}
        /\ IF IsFull(bufname, MAXBUFNAME)
             THEN hstate' = "WAITINGFORNEWLINE" /\ UNCHANGED bufname
             ELSE bufname' = Append(bufname, c) /\ UNCHANGED hstate
        /\ UNCHANGED cookies
  /\ UNCHANGED hj

IsValueEnd(c) == IsControl(c) \/ c = ";"

InCookieValue(c) ==
  /\ hstate = "IN_COOKIE_VALUE"
  /\ \/ /\ IsValueEnd(c)
        /\ cookies' = storecookie(cookies, bufname, bufvalue)
        /\ hstate' = AfterCookie(c) /\ UNCHANGED bufvalue
     \/ /\ ~IsValueEnd(c)
        /\ IF IsFull(bufvalue, MAXBUFVALUE)
             THEN hstate' = "WAITINGFORNEWLINE" /\ UNCHANGED bufvalue
             ELSE bufvalue' = Append(bufvalue, c) /\ UNCHANGED hstate
        /\ UNCHANGED cookies
  /\ UNCHANGED <<hj, bufname>>

\* In ENDOFHTTPHEADERS the rest of the piece changes nothing.
ParseHeader(c) ==
  \/ WaitForNewline(c) \/ InHeader(c) \/ HeaderFound(c)
  \/ InCookieName(c) \/ InCookieValue(c)
=============================================================================
