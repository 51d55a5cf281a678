----------------------------- MODULE MCPollLive -----------------------------
(* Instance of PollLoop, without its history, for the liveness properties. *)
EXTENDS PollLoop

LiveCodes == {0, 200, 400, 403}
=============================================================================
