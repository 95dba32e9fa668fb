-------------------------------- MODULE MCPkg --------------------------------
(* Pkg for TLC: a package, one that needs it and names it twice, and one   *)
(* with a name of 8 characters that installs to a path of the first.       *)
EXTENDS Pkg, TLC

MCRecords == ("base" :> <<"p", "q">>) @@ ("app" :> <<"r">>) @@ ("programa" :> <<"q">>)
MCDeps == ("base" :> <<>>) @@ ("app" :> <<"base", "base">>) @@ ("programa" :> <<>>)

(* p is below a directory of the root, q and r are in the same one.        *)
MCBelow == ("p" :> {}) @@ ("q" :> {"q", "r"}) @@ ("r" :> {"q", "r"})

MCHeader == <<"h", "r", "n", "h">> \o EmptyLine
MCBody == <<"x", "y">>
=============================================================================
