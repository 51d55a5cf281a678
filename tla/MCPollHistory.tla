----------------------------- MODULE MCPollHistory -----------------------------
(* Instances of PollHistory for TLC: ticks of one second instead of a quarter, *)
(* short outages, one status code for each way the loop reacts.            *)
EXTENDS PollHistory

AllCodes  == {0, 200, 400, 403, 501}
AllSilent == RequestStates
OnlyPosts == {POSTING_A_MESSAGE}
Refusing  == {200, 403}
=============================================================================
