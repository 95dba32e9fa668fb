----------------------------- MODULE FileTree -----------------------------
(***************************************************************************)
(* What SpaceFS promises (comandos.c: "spfs write <arq> <texto> escreve    *)
(* texto", "spfs mkdir <dir> cria diretorio", "spfs rm <arq> apaga         *)
(* arquivo"): a tree of named files and directories, in which a call       *)
(* concerns the one path it names, and what is below it.  VolumeTree says  *)
(* how much of it the FAT32 volume keeps.                                  *)
(***************************************************************************)
EXTENDS Sequences, SequencesExt

CONSTANTS
  Paths,     \* closed under prefixes
  Contents   \* sequences of pieces of text, closed under prefixes

VARIABLE tree  \* what each path leads to

Nothing == [kind |-> "none", text |-> <<>>]
Directory == [kind |-> "diretorio", text |-> <<>>]

Parent(p) == IF p = <<>> THEN p ELSE Front(p)
InDirectory(p) == p # <<>> /\ tree[Parent(p)] = Directory

(* A disk may come with files on it.                                       *)
Init ==
  /\ tree \in [Paths -> {Nothing, Directory} \cup
                         [kind : {"arquivo"}, text : Contents]]
  /\ tree[<<>>] = Directory
  /\ \A p \in Paths \ {<<>>} : tree[p] # Nothing => InDirectory(p)

Only(p) == \A q \in Paths \ {p} : tree'[q] = tree[q]

(* A text is written to a file, new or not; on a full disk, part of it.    *)
Write(p) ==
  /\ Only(p)
  /\ InDirectory(p)
  /\ tree[p] # Directory
  /\ tree'[p] \in [kind : {"arquivo"}, text : Contents]

Mkdir(p) ==
  /\ Only(p)
  /\ InDirectory(p)
  /\ tree[p] = Nothing
  /\ tree'[p] = Directory

(* What is below a directory goes with it.                                 *)
Unlink(p) ==
  /\ p # <<>>
  /\ tree' = [q \in Paths |-> IF IsPrefix(p, q) THEN Nothing ELSE tree[q]]

(* A file or directory gets another name in its directory, with what is    *)
(* below it.                                                               *)
Rename(p, q) ==
  /\ p # <<>> /\ q # <<>> /\ Front(p) = Front(q)
  /\ tree[p] # Nothing /\ tree[q] = Nothing
  /\ tree' = [r \in Paths |->
       IF IsPrefix(q, r) THEN tree[p \o SubSeq(r, Len(q) + 1, Len(r))]
       ELSE IF IsPrefix(p, r) THEN Nothing ELSE tree[r]]

Format == tree' = [p \in Paths |-> IF p = <<>> THEN Directory ELSE Nothing]

Next ==
  \/ \E p \in Paths : Write(p) \/ Mkdir(p) \/ Unlink(p)
  \/ \E p, q \in Paths : Rename(p, q)
  \/ Format

Spec == Init /\ [][Next]_tree
=============================================================================
