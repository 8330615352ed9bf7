------------------------------ MODULE MCDispatch ------------------------------
(***************************************************************************)
(* Dispatch on small instances: channels are interchangeable, and revents_ *)
(* are chosen so that each callback is called, alone or with another.      *)
(***************************************************************************)
EXTENDS Dispatch, TLC

CONSTANTS c1, c2, c3

MCRevents == {{"in", "hup"}, {"hup", "out"}, {"err"}}

Symmetry == Permutations(Channels)
===============================================================================
