----------------------------- MODULE MCJournal -----------------------------
(* TLC instance of Journal: two home sectors, one of them cached.          *)
EXTENDS Journal
CONSTANTS sb, blk, z, a
MCSectors == {sb, blk}
MCCached == {sb}
MCValues == {z, a}
=============================================================================
