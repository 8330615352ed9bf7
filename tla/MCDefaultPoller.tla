---------------------------- MODULE MCDefaultPoller ----------------------------
(***************************************************************************)
(* DefaultPoller with channels two of which share a descriptor, one after  *)
(* the other, and one with descriptor 0.                                   *)
(***************************************************************************)
EXTENDS DefaultPoller, TLC

CONSTANTS c1, c2, c3, c4

MCFd == c1 :> 3 @@ c2 :> 3 @@ c3 :> 4 @@ c4 :> 0
===============================================================================
