------------------------------- MODULE Memory -------------------------------
(***************************************************************************)
(* The kernel's memory: the heap and the page frames side by side.  The    *)
(* heap uses its addresses as they are (kheap_init()), and pmm_init() does *)
(* not know of them.                                                       *)
(***************************************************************************)
EXTENDS Kheap, Frames

vars == <<heapVars, frameVars>>

Init == KheapInit /\ FramesInit

Next == \/ KheapNext /\ UNCHANGED frameVars
        \/ FramesNext /\ UNCHANGED heapVars

Spec == Init /\ [][Next]_vars
=============================================================================
