------------------------------- MODULE MCTcp -------------------------------
(* Tcp for TLC: a connection that brings two units through a ring that     *)
(* holds one, and a second one that may take its slot, or run beside it.   *)
EXTENDS Tcp

MCMaxData == <<2, 1>>
MCMaxSent == <<2, 0>>
=============================================================================
