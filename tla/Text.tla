-------------------------------- MODULE Text --------------------------------
(***************************************************************************)
(* main(): the configuration is read, then the rules if it asks for them,  *)
(* then messages are formatted by the rules.  The keys that are read after *)
(* the rules are left out.                                                 *)
(***************************************************************************)
EXTENDS Conf, Formatter

vars == <<confvars, fvars>>

Init == ConfInit /\ FormatterInit

\* read_conf_int("read_parser_rules", 0), the last key asked.
RulesAsked == asking = 0 /\ asked = Len(Asked) /\ answer # << >> /\ answer[1] = "1"

Configure == ConfNext /\ UNCHANGED fvars
Format    == RulesAsked /\ FormatterNext /\ UNCHANGED confvars

Next == Configure \/ Format

Spec     == Init /\ [][Next]_vars
FairSpec == Spec /\ WF_vars(Next)
-----------------------------------------------------------------------------
\* The configuration is read to its end, whatever is in the file (conf.c:68-83);
\* so are the rules and the parts of a message: the special rules, which take
\* steps back, never stay at the same part (parser.c:305-316).
Finished ==
  IF RulesAsked THEN pass \in {"done", "crashed"} \/ (pass = "ready" /\ file \notin UsedFiles)
                ELSE asking = 0 /\ asked = Len(Asked)
Ends == <>Finished
=============================================================================
