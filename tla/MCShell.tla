------------------------------- MODULE MCShell -------------------------------
(* Shell for TLC: a letter, the space, and the keys that edit, on a row    *)
(* that a line of four characters fills.                                   *)
EXTENDS Shell

MCPrompt == <<62>>
MCTabela == {<<97>>, <<97, 97>>}
MCTecla == <<97, 97>>
=============================================================================
