----------------------------- MODULE MCSpaceFS -----------------------------
(* SpaceFS for TLC: paths of one and two names, and the name nl, longer    *)
(* than an entry holds, that is cut to na.                                 *)
EXTENDS SpaceFS
CONSTANTS na, nb, nl
MCPaths == {<<>>, <<na>>, <<nb>>, <<nl>>, <<na, nb>>}
MCNames == {na, nb, nl}
MCCut == [x \in MCNames |-> IF x = nl THEN na ELSE x]
MCJunk == {[type |-> "livre", size |-> 0, blocks |-> [k \in 1 .. NDirect |-> 0]],
           [type |-> "diretorio", size |-> 2, blocks |-> [k \in 1 .. NDirect |-> 1]]}
=============================================================================
