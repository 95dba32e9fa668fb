-------------------------------- MODULE Fat32 --------------------------------
(***************************************************************************)
(* The FAT32 volume on disk 0 (fs/fat32.c): the allocation table and the   *)
(* clusters, and what each function makes of them.                         *)
(*                                                                         *)
(* There is no log and no cache: a function is the sequence of disks its   *)
(* sector writes produce, of which a power cut may leave any.              *)
(*                                                                         *)
(* Abstractions: a cluster is one sector of PerCluster slots; a slot holds *)
(* a directory entry, or a piece of text of that size, which does not read *)
(* as the entry of a name in use; long names and the volume label, which   *)
(* every scan skips, are left out; transfers do not fail.                  *)
(***************************************************************************)
EXTENDS Integers, FiniteSets, Sequences, SequencesExt, FiniteSetsExt

CONSTANTS
  NClusters,  \* clusters of the volume
  PerCluster, \* entries of a cluster, 16 in the source
  EntryNames, \* 11-byte names of entries
  Dot, DotDot, \* the names "." and ".." of the first entries of a directory
  NoName,     \* a name field that was never written
  Texts       \* what pieces of files hold

ASSUME Fat32Assumption ==
  /\ NClusters \in Nat \ {0} /\ PerCluster \in Nat /\ PerCluster >= 2
  /\ {Dot, DotDot, NoName} \cap EntryNames = {}

Clusters == 2 .. NClusters + 1
RootCluster == 2
EOF == NClusters + 2  \* FAT32_EOF

(* The first byte of the name and the attributes of an entry.              *)
Kinds == {"end", "deleted", "arquivo", "diretorio", "text"}
Slot == [kind : Kinds, name : EntryNames \cup Texts \cup {Dot, DotDot, NoName},
         cluster : {0} \cup Clusters, size : Nat]
End == [kind |-> "end", name |-> NoName, cluster |-> 0, size |-> 0]
Zeroed == [k \in 1 .. PerCluster |-> End]

Disks == [fat : [Clusters -> {0, EOF} \cup Clusters],
          data : [Clusters -> [1 .. PerCluster -> Slot]]]
-----------------------------------------------------------------------------
(* A call in progress: its disk, those it has gone through, and the        *)
(* clusters it has given up.                                               *)
Put(st, d) == [st EXCEPT !.disk = d, !.disks = Append(@, d)]
PutData(st, c, x) == Put(st, [st.disk EXCEPT !.data[c] = x])

(* fat32_write_fat_entry().                                                *)
PutFat(st, c, v) == Put(st, [st.disk EXCEPT !.fat[c] = v])

(* The clusters that a walk from c meets until fat32_read_fat() ends it.   *)
Chain(d, c) ==
  LET walk[n \in 0 .. NClusters] ==
        IF n = 0 THEN <<c>>
        ELSE LET met == walk[n - 1]
                 next == d.fat[Last(met)]
             IN  IF next \in Clusters THEN Append(met, next) ELSE met
  IN  walk[NClusters]

(* The k-th slot along a chain.                                            *)
ClusterOf(chain, k) == chain[(k - 1) \div PerCluster + 1]
IndexOf(k) == ((k - 1) % PerCluster) + 1
SlotAt(d, chain, k) == d.data[ClusterOf(chain, k)][IndexOf(k)]
PutSlot(st, chain, k, e) ==
  PutData(st, ClusterOf(chain, k),
          [st.disk.data[ClusterOf(chain, k)] EXCEPT ![IndexOf(k)] = e])

SlotsOf(chain) == 1 .. Len(chain) * PerCluster

(* The entries in front of the first slot that was never used.             *)
UsedSlots(d, chain) ==
  LET ends == {k \in SlotsOf(chain) : SlotAt(d, chain, k).kind = "end"}
  IN  IF ends = {} THEN SlotsOf(chain) ELSE 1 .. Min(ends) - 1

Matching(d, chain, name) ==
  {k \in UsedSlots(d, chain) :
     /\ SlotAt(d, chain, k).kind \in {"arquivo", "diretorio"}
     /\ SlotAt(d, chain, k).name = name}

(* The first of the given slots, and what it holds; End stands for none.   *)
FirstOf(d, chain, slots) ==
  IF slots = {} THEN [chain |-> chain, k |-> 0, entry |-> End]
  ELSE [chain |-> chain, k |-> Min(slots),
        entry |-> SlotAt(d, chain, Min(slots))]

FirstIn(d, chain, name) == FirstOf(d, chain, Matching(d, chain, name))
Lookup(d, dir, name) == FirstIn(d, Chain(d, dir), name)

(* fat32_find().                                                           *)
Find(d, dir, name) == Lookup(d, dir, name).entry

(* fat32_read(): up to size or the end of the chain.                       *)
Read(d, first, size) ==
  LET chain == Chain(d, first)
  IN  [k \in 1 .. Min({size, Len(chain) * PerCluster}) |->
         SlotAt(d, chain, k).name]
-----------------------------------------------------------------------------
FreeClusters(d) == {c \in Clusters : d.fat[c] = 0}

(* fat32_alloc_cluster(): the first free one, marked as the last of a      *)
(* chain; 0 when there is none.                                            *)
Alloc(st) ==
  LET free == FreeClusters(st.disk)
  IN  IF free = {} THEN [c |-> 0, st |-> st]
      ELSE [c |-> Min(free), st |-> PutFat(st, Min(free), EOF)]

Piece(text, k) ==
  IF k <= Len(text)
  THEN [kind |-> "text", name |-> text[k], cluster |-> 0, size |-> 0]
  ELSE End

(* The cluster to write next: the first was allocated by the caller, the   *)
(* others are linked behind the one before.                                *)
Link(new, last) ==
  IF new.c = 0 THEN new ELSE [new EXCEPT !.st = PutFat(@, last, new.c)]

NextCluster(w) ==
  IF w.next \in Clusters THEN [c |-> w.next, st |-> w.st]
                         ELSE Link(Alloc(w.st), w.last)

Fill(cl, text, from) ==
  [st |-> PutData(cl.st, cl.c,
                  [k \in 1 .. PerCluster |-> Piece(text, from + k)]),
   last |-> cl.c, full |-> FALSE, next |-> cl.st.disk.fat[cl.c]]

WriteCluster(w, from, text) ==
  LET cl == NextCluster(w)
  IN  IF from >= Len(text) \/ w.full THEN w
      ELSE IF cl.c = 0 THEN [w EXCEPT !.full = TRUE]
      ELSE Fill(cl, text, from)

(* fat32_write_file(): -1 when the disk is full.  The size in the entry is *)
(* not written.                                                            *)
WriteFile(st, first, text) ==
  LET upTo[b \in 0 .. NClusters + 1] ==
        IF b = 0
        THEN [st |-> st, last |-> 0, next |-> first, full |-> FALSE]
        ELSE WriteCluster(upTo[b - 1], (b - 1) * PerCluster, text)
      end == upTo[NClusters + 1]
  IN  [st |-> end.st, ret |-> IF end.full THEN -1 ELSE Len(text)]

NewEntry(kind, name, c) ==
  [kind |-> kind, name |-> name, cluster |-> c, size |-> 0]

(* The slots that fat32_create() takes for free.                           *)
Rooms(d, dir) ==
  LET chain == Chain(d, dir) IN
  {k \in SlotsOf(chain) : SlotAt(d, chain, k).kind \in {"end", "deleted"}}

(* Zeros, and the first two entries of a directory.                        *)
Blank(st, c, kind, dir) ==
  LET zeroed == PutData(st, c, Zeroed)
  IN  IF kind # "diretorio" THEN zeroed
      ELSE PutData(zeroed, c,
             [Zeroed EXCEPT ![1] = NewEntry("diretorio", Dot, c),
                            ![2] = NewEntry("diretorio", DotDot, dir)])

(* The entry goes to the first free slot; the cluster stays allocated when *)
(* there is none.                                                          *)
Enlist(st, dir, e) ==
  LET rooms == Rooms(st.disk, dir)
  IN  IF rooms = {} THEN [c |-> 0, st |-> [st EXCEPT !.leaked = @ \cup {e.cluster}]]
      ELSE [c |-> e.cluster,
            st |-> PutSlot(st, Chain(st.disk, dir), Min(rooms), e)]

(* Mutant of Create: the entry is written before its cluster is taken.     *)
CreateEntryFirst(st, dir, name, kind) ==
  LET c == Min(FreeClusters(st.disk))
      listed == Enlist(st, dir, NewEntry(kind, name, c))
  IN  IF FreeClusters(st.disk) = {} THEN [c |-> 0, st |-> st]
      ELSE [listed EXCEPT !.st = Blank(PutFat(@, c, EOF), c, kind, dir)]

(* fat32_create(): a cluster is taken and cleared, and the parent gets an  *)
(* entry for it.                                                           *)
Create(st, dir, name, kind) ==
  LET new == Alloc(st)
  IN  IF new.c = 0 THEN new
      ELSE Enlist(Blank(new.st, new.c, kind, dir), dir,
                  NewEntry(kind, name, new.c))

FreeChain(st, c) ==
  LET chain == Chain(st.disk, c)
      upTo[n \in 0 .. Len(chain)] ==
        IF n = 0 THEN st ELSE PutFat(upTo[n - 1], chain[n], 0)
  IN  upTo[Len(chain)]

(* The other fields stay, and nothing reads them.                          *)
Mark(st, at, kind) ==
  PutSlot(st, at.chain, at.k, [End EXCEPT !.kind = kind])

(* Mutants of Erase: only the first cluster of the chain is freed; the     *)
(* entry is marked as never used.                                          *)
EraseAsEnd(st, at) == FreeChain(Mark(st, at, "end"), at.entry.cluster)

(* The entry is marked, then its chain is freed.                           *)
Erase(st, at) == FreeChain(Mark(st, at, "deleted"), at.entry.cluster)

(* fat32_delete().                                                         *)
DeleteAt(st, at) ==
  IF at.k = 0 THEN [st |-> st, ret |-> -1]
              ELSE [st |-> Erase(st, at), ret |-> 0]
Delete(st, dir, name) == DeleteAt(st, Lookup(st.disk, dir, name))

(* fat32_rename(): the first entry of the old name gets the new one.       *)
RenameAt(st, at, new) ==
  IF at.k = 0 THEN [st |-> st, ret |-> -1]
  ELSE [st |-> PutSlot(st, at.chain, at.k, [at.entry EXCEPT !.name = new]),
        ret |-> 0]
Rename(st, dir, old, new) == RenameAt(st, Lookup(st.disk, dir, old), new)
=============================================================================
