----------------------------- MODULE VolumeTree -----------------------------
(***************************************************************************)
(* What the FAT32 volume promises (vfs.h: "cria ou sobrescreve um          *)
(* arquivo", "renomeia"): the tree of FileTree, in which a name that       *)
(* exists may be made again.  Its path is doubled then: one of the two     *)
(* entries is found, and what the other one leads to may show when the     *)
(* path is named in another call.                                          *)
(*                                                                         *)
(* A call still concerns the paths that it names, and what is below them.  *)
(***************************************************************************)
EXTENDS FileTree

VARIABLE doubled  \* the paths that have more than one entry

Below(p) == {q \in Paths : IsPrefix(p, q)}

VolumeInit == Init /\ doubled = {}

(* Nothing but p and what is below it changes.                             *)
Elsewhere(p) ==
  /\ \A q \in Paths \ Below(p) : tree'[q] = tree[q]
  /\ doubled' \ Below(p) = doubled \ Below(p)

(* p gets a node that has nothing below it.                                *)
Replace(p, node) ==
  /\ tree' = [q \in Paths |-> IF q = p THEN node
                              ELSE IF IsPrefix(p, q) THEN Nothing ELSE tree[q]]
  /\ doubled' = doubled \ Below(p)

(* A directory that is written over is a file, and empties.                *)
WriteFile(p) ==
  /\ p # <<>> /\ p \notin doubled /\ InDirectory(p)
  /\ tree'[p] \in [kind : {"arquivo"}, text : Contents]
  /\ Replace(p, tree'[p])

MakeNew(p) == p # <<>> /\ Mkdir(p) /\ UNCHANGED doubled

(* The entry there was is found, or the new directory.                     *)
MakeAgain(p) ==
  /\ p # <<>> /\ tree[p] # Nothing
  /\ doubled' = (IF tree' = tree THEN doubled ELSE doubled \ Below(p))
                \cup {p}
  /\ tree' \in {tree, [q \in Paths |->
                         IF q = p THEN Directory
                         ELSE IF IsPrefix(p, q) THEN Nothing ELSE tree[q]]}

Drop(p) == p \notin doubled /\ Unlink(p) /\ doubled' = doubled \ Below(p)

(* What is below p goes below q.  When q exists, one of the two is found;  *)
(* when p is doubled, its other entry is.                                  *)
Origin(p, q, r) == p \o SubSeq(r, Len(q) + 1, Len(r))

Moved(p, q) ==
  /\ \A r \in Below(q) : tree'[r] = tree[Origin(p, q, r)]
  /\ doubled' \cap Below(q) =
       {r \in Below(q) \ {q} : Origin(p, q, r) \in doubled}
       \cup (IF tree[q] = Nothing THEN {} ELSE {q})

Covered(q) ==
  /\ tree[q] # Nothing
  /\ \A r \in Below(q) : tree'[r] = tree[r]
  /\ doubled' \cap Below(q) = (doubled \cap Below(q)) \cup {q}

MoveTo(p, q) ==
  /\ p # <<>> /\ q # <<>> /\ p # q /\ Front(p) = Front(q)
  /\ tree[p] # Nothing
  /\ \A r \in Paths \ (Below(p) \cup Below(q)) : tree'[r] = tree[r]
  /\ doubled' \ (Below(p) \cup Below(q)) = doubled \ (Below(p) \cup Below(q))
  /\ p \notin doubled => /\ \A r \in Below(p) : tree'[r] = Nothing
                         /\ doubled' \cap Below(p) = {}
  /\ Moved(p, q) \/ Covered(q)

(* A doubled path is written or removed.                                   *)
Uncover(p) == p \in doubled /\ Elsewhere(p)

VolumeNext ==
  \/ \E p \in Paths :
       WriteFile(p) \/ MakeNew(p) \/ MakeAgain(p) \/ Drop(p) \/ Uncover(p)
  \/ \E p, q \in Paths : MoveTo(p, q)

VolumeSpec == VolumeInit /\ [][VolumeNext]_<<tree, doubled>>
=============================================================================
