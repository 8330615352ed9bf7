----------------------------- MODULE MCPollPoller -----------------------------
(***************************************************************************)
(* PollPoller with two channels that share a descriptor, one after the     *)
(* other, and two with a descriptor of their own.                          *)
(***************************************************************************)
EXTENDS PollPoller, TLC

CONSTANTS c1, c2, c3, c4

MCFd == c1 :> 3 @@ c2 :> 3 @@ c3 :> 4 @@ c4 :> 0
===============================================================================
