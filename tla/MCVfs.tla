-------------------------------- MODULE MCVfs --------------------------------
(* Vfs for TLC: two names, and a small volume on which other tools made    *)
(* the directories of the log, "/na/na" (which stands for "/var/log"), and *)
(* the log in it, and removed a file.  Each boot makes "/na" and "/na/na", *)
(* as audit_init() does, and adds to "/na/na/na"; "/na/na" is also made    *)
(* when it is not there, as pkg_init() does, and "/na/nb" is the hash of   *)
(* secboot_init().                                                         *)
EXTENDS Vfs, TLC
CONSTANTS na, nb, t

MCNames == {na, nb}
MCEntryNames == MCNames \cup {<<"/", na>>}
MCRel(names) == [abs |-> FALSE, names |-> names]
MCStrings == {MCRel(<<na>>),
              [abs |-> TRUE, names |-> <<na>>],
              [abs |-> TRUE, names |-> <<na, nb>>]}
MCCwdStrings == {MCRel(<<na>>),
                 [abs |-> TRUE, names |-> <<na, na>>],
                 [abs |-> TRUE, names |-> <<na, nb>>]}
MCBoot(op, names) ==
  [op |-> op, path |-> [abs |-> TRUE, names |-> names], text |-> <<t>>]
MCBootCalls == <<MCBoot("ensure", <<na, na>>), MCBoot("mkdir", <<na>>),
                 MCBoot("mkdir", <<na, na>>), MCBoot("log", <<na, na, na>>),
                 MCBoot("hash", <<na, nb>>)>>
MCContents == {<<t, t, t, t, t>>}
MCTop == {na, <<"/", na>>}
MCPaths == {<<>>} \cup {<<n>> : n \in MCTop}
           \cup {<<n, m>> : n \in MCTop, m \in MCNames}
           \cup {<<n, m, na>> : n \in MCTop, m \in MCNames}
MCTexts == [k \in 1 .. PerCluster |->
              [kind |-> "text", name |-> t, cluster |-> 0, size |-> 0]]
MCFile(name, c, size) ==
  [kind |-> "arquivo", name |-> name, cluster |-> c, size |-> size]
MCDeleted == [End EXCEPT !.kind = "deleted"]
MCDir(c, up, entries) ==
  [k \in 1 .. PerCluster |->
     IF k = 1 THEN NewEntry("diretorio", Dot, c)
     ELSE IF k = 2 THEN NewEntry("diretorio", DotDot, up)
     ELSE IF k - 2 <= Len(entries) THEN entries[k - 2] ELSE End]
MCVolume(fat, data) ==
  [fat |-> [c \in Clusters |-> IF c \in DOMAIN fat THEN fat[c] ELSE 0],
   data |-> [c \in Clusters |-> IF c \in DOMAIN data THEN data[c] ELSE Zeroed]]
MCRoot(entry) == [Zeroed EXCEPT ![1] = entry]
MCHostLog ==
  MCVolume((2 :> EOF) @@ (3 :> EOF) @@ (4 :> EOF) @@ (5 :> EOF),
           (2 :> MCRoot(NewEntry("diretorio", na, 3)))
           @@ (3 :> MCDir(3, 0, <<MCDeleted, NewEntry("diretorio", na, 4)>>))
           @@ (4 :> MCDir(4, 3, <<MCFile(na, 5, 1)>>))
           @@ (5 :> MCTexts))
MCImages == {MCHostLog}
=============================================================================
