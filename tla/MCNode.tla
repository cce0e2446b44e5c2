------------------------------- MODULE MCNode -------------------------------
(* Node for TLC: a call is used once, and the calls are interchangeable.     *)
EXTENDS Node, TLC

Calls == Permutations(Call)
=============================================================================
