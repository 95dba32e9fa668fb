------------------------------ MODULE MCSched ------------------------------
(* Sched for TLC: process 0 at priority 1, others at priority 2, and fresh  *)
(* memory that holds no credits, or more than any priority has.            *)
EXTENDS Sched

MCPriorities == {2}
MCGarbage == {0, 4}
=============================================================================
