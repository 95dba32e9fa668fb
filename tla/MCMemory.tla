------------------------------ MODULE MCMemory ------------------------------
(* Memory for TLC: a heap of up to four blocks, and frames of two units,   *)
(* of which the loader gives away two after the kernel, or three by        *)
(* regions that overlap and end inside a frame.                            *)
EXTENDS Memory

MCMaps == {{[base |-> 0, length |-> 1], [base |-> 2, length |-> 10]},
           {[base |-> 2, length |-> 8], [base |-> 8, length |-> 7]}}
MCObjects == [c \in Caches |-> IF c = "32" THEN 2 ELSE 1]
=============================================================================
