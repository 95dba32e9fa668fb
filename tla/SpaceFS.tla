------------------------------ MODULE SpaceFS ------------------------------
(***************************************************************************)
(* SpaceFS (fs/spacefs.c) on disk 1: inodes, directories, the two bitmaps  *)
(* and their copies in RAM.                                                *)
(*                                                                         *)
(* The file system is used by one thread (the shell), so nobody sees the   *)
(* disk in the middle of a call; only a power cut can leave it there.  A   *)
(* call is therefore the sequence of disks its sector writes produce: it   *)
(* returns with the last of them, and a power cut leaves any other.  That  *)
(* each sector write is atomic is what the log guarantees (Journal         *)
(* implements AtomicStore).                                                *)
(*                                                                         *)
(* Abstractions: a path is its sequence of names; the inode table is one   *)
(* sector; a file has PerBlk pieces to a block, each the                   *)
(* size of a directory entry, and no piece of a text reads as an entry of  *)
(* a name or an inode in use; a name is whole in a path, and cut to its    *)
(* first SFS_NAME_MAX bytes in an entry; the size of a directory, which    *)
(* only grows, stops at the number of entries path_find() can see;         *)
(* transfers do not fail (Journal has those that do).                      *)
(***************************************************************************)
EXTENDS Integers, FiniteSets, Sequences, SequencesExt, FiniteSetsExt

CONSTANTS
  NInodes,   \* SFS_INODE_MAX, 256 in the source
  TotalBlocks, \* total_blocks, 65437 in the source
  NBlocks,   \* those the block bitmap has bits for, 4096 in the source
  NDirect,   \* blocks of an inode, 10 in the source
  PerBlk,    \* SFS_DIRENTS_PER_BLK, 16 in the source
  Names,     \* names of files and directories
  Cut,       \* the first SFS_NAME_MAX bytes of each name, 27 in the source
  NoName,    \* the empty name
  Paths,     \* paths the shell passes
  Texts,     \* what the shell writes into files
  Sizes,     \* how much of it, in pieces
  Uses,      \* the kinds of call that are made (KindsOf)
  Junk,      \* inodes that the 448 bytes behind root in spfs_format() hold
  PowerCuts  \* whether the power may fail

ASSUME SpaceFSAssumption ==
  /\ NInodes \in Nat \ {0} /\ NBlocks \in Nat
  /\ TotalBlocks \in Nat /\ NBlocks <= TotalBlocks
  /\ NDirect \in Nat \ {0} /\ PerBlk \in Nat \ {0}
  /\ Paths \subseteq Seq(Names)
  /\ Cut \in [Names -> Names]
  /\ NoName \notin Names \cup Texts /\ Names \cap Texts = {}
  /\ Sizes \subseteq Nat \ {0}
  /\ PowerCuts \in BOOLEAN

VARIABLES
  disk,  \* the disk as the log presents it
  home,  \* super block and bitmaps as spfs_mount() would read them
  ram,   \* sb, imap and bmap
  up,    \* sfs_ok
  tree   \* what each path leads to: TreeOf(disk), for the properties

vars == <<disk, home, ram, up, tree>>

Inodes == 0 .. NInodes - 1
Blocks == 1 .. NBlocks
Capacity == NDirect * PerBlk

(* Where a directory block holds a piece of text, its inode is no inode.   *)
TextInode == NInodes
Slot == [inode : 0 .. TextInode, name : Names \cup Texts \cup {NoName}]
FreeSlot == [inode |-> 0, name |-> NoName]
EmptyBlock == [k \in 1 .. PerBlk |-> FreeSlot]
NoBlocks == [b \in 1 .. NDirect |-> 0]
Inode(type) == [type |-> type, size |-> 0, blocks |-> NoBlocks]

Types == {"livre", "arquivo", "diretorio"}
InodeType == [type : Types, size : 0 .. Capacity, blocks : [1 .. NDirect -> {0} \cup Blocks]]

(* A path that is asked for comes with those of the directories it is in.  *)
ASSUME PathsAssumption ==
  <<>> \in Paths /\ \A path \in Paths \ {<<>>} : Front(path) \in Paths

ASSUME JunkAssumption == Junk \subseteq InodeType

Cached == [free_blocks : 0 .. TotalBlocks, free_inodes : 0 .. NInodes,
           imap : SUBSET Inodes, bmap : SUBSET Blocks]

CachedPart(d) == [free_blocks |-> d.free_blocks, free_inodes |-> d.free_inodes,
                  imap |-> d.imap, bmap |-> d.bmap]

(* The inode table spfs_format() writes: it copies a whole sector from a   *)
(* root of 64 bytes, so whatever is behind it becomes the other inodes.    *)
Table(junk) == [i \in Inodes |-> IF i = 0 THEN Inode("diretorio") ELSE junk]
-----------------------------------------------------------------------------
(* A call in progress: the disk and RAM it has reached, and the disks it   *)
(* has gone through.                                                       *)
Start == [disk |-> disk, ram |-> ram, disks |-> <<disk>>]

(* sfs_write_sec().                                                        *)
Put(st, d) == [st EXCEPT !.disk = d, !.disks = Append(@, d)]

PutInode(st, i, n) == Put(st, [st.disk EXCEPT !.inode[i] = n])
PutBlock(st, b, c) == Put(st, [st.disk EXCEPT !.blk[b] = c])
PutImap(st) == Put(st, [st.disk EXCEPT !.imap = st.ram.imap])
PutBmap(st) == Put(st, [st.disk EXCEPT !.bmap = st.ram.bmap])
PutSuper(st) == Put(st, [st.disk EXCEPT !.free_blocks = st.ram.free_blocks,
                                        !.free_inodes = st.ram.free_inodes])

FreeInodes(st) == Inodes \ ({0} \cup st.ram.imap)
FreeBlocks(st) == Blocks \ st.ram.bmap

(* Mutant of TakeBlock: the bit of the block is not set.                   *)
TakeBlockUnmarked(st) ==
  PutSuper([PutBmap(st) EXCEPT !.ram.free_blocks = @ - 1])

(* alloc_inode() and alloc_block(), when there is one.                     *)
TakeInode(st) ==
  LET marked == PutImap([st EXCEPT !.ram.imap = @ \cup {Min(FreeInodes(st))}])
  IN  PutSuper([marked EXCEPT !.ram.free_inodes = @ - 1])

TakeBlock(st) ==
  LET marked == PutBmap([st EXCEPT !.ram.bmap = @ \cup {Min(FreeBlocks(st))}])
  IN  PutSuper([marked EXCEPT !.ram.free_blocks = @ - 1])

(* Mutant of FreeBlock: the check of the block number is dropped.          *)
(* free_block(), for a pointer of an inode.                                *)
FreeBlock(st, b) ==
  IF b = 0 THEN st
  ELSE LET cleared == PutBmap([st EXCEPT !.ram.bmap = @ \ {b}])
       IN  PutSuper([cleared EXCEPT !.ram.free_blocks = @ + 1])

FreeBlocksOf(st, i) ==
  LET upTo[b \in 0 .. NDirect] ==
        IF b = 0 THEN st
                 ELSE FreeBlock(upTo[b - 1], st.disk.inode[i].blocks[b])
  IN  upTo[NDirect]
-----------------------------------------------------------------------------
(* The pieces of an inode: piece k is in block BlockOf(k).                 *)
BlockOf(k) == (k - 1) \div PerBlk + 1
PlaceOf(k) == ((k - 1) % PerBlk) + 1
Piece(d, i, k) == d.blk[d.inode[i].blocks[BlockOf(k)]][PlaceOf(k)]

(* The pieces that a scan finds which ends at the first missing block.     *)
Present(d, i) ==
  {k \in 1 .. Capacity :
     \A b \in 1 .. BlockOf(k) : d.inode[i].blocks[b] # 0}

(* The entries of directory i that path_find() compares with a name.       *)
Named(d, i, name) ==
  {k \in Present(d, i) :
     /\ k <= d.inode[i].size
     /\ Piece(d, i, k).name = name
     /\ Piece(d, i, k).inode # 0}

(* path_find(): from the root down, in directories, the first entry with   *)
(* the name.                                                               *)
Descend(d, at, name) ==
  LET found == IF at.ok /\ d.inode[at.cur].type = "diretorio"
               THEN Named(d, at.cur, name) ELSE {}
  IN  IF found = {}
      THEN [at EXCEPT !.ok = FALSE]
      ELSE [ok |-> TRUE, parent |-> at.cur,
            cur |-> Piece(d, at.cur, Min(found)).inode]

PathFind(d, path) ==
  LET at[n \in 0 .. Len(path)] ==
        IF n = 0 THEN [ok |-> TRUE, cur |-> 0, parent |-> 0]
                 ELSE Descend(d, at[n - 1], path[n])
  IN  at[Len(path)]

(* path_split().                                                           *)
ParentPath(path) == IF path = <<>> THEN <<>> ELSE Front(path)
NameOf(path) == IF path = <<>> THEN NoName ELSE Last(path)

(* Mutant of FreePlace: the last place whether it is free or not.          *)
LastPlace(c) == PerBlk

FreePlace(c) == Min({k \in 1 .. PerBlk : c[k].inode = 0})

(* The end of dir_add_entry(): the first block of the directory with a     *)
(* free slot, a new block where there is none.  Its callers ignore the     *)
(* failure.                                                                *)
PutEntry(st, dir, child, name) ==
  LET n == st.disk.inode[dir]
      rooms == {b \in 1 .. NDirect :
                  \/ n.blocks[b] = 0
                  \/ \E k \in 1 .. PerBlk :
                       st.disk.blk[n.blocks[b]][k].inode = 0}
      b == Min(rooms)
      fresh == n.blocks[b] = 0
      sec == IF fresh THEN Min(FreeBlocks(st)) ELSE n.blocks[b]
      old == IF fresh THEN EmptyBlock ELSE st.disk.blk[sec]
      linked == PutBlock(IF fresh THEN TakeBlock(st) ELSE st, sec,
                         [old EXCEPT ![FreePlace(old)] =
                            [inode |-> child, name |-> name]])
  IN  IF rooms = {} \/ (fresh /\ FreeBlocks(st) = {})
      THEN st
      ELSE PutInode(linked, dir,
                    [n EXCEPT !.blocks[b] = sec,
                              !.size = Min({@ + 1, Capacity})])

(* dir_add_entry() cuts the name to what an entry holds; path_find()       *)
(* compares entries with the whole of it.                                  *)
Stored(name) == IF name \in Names THEN Cut[name] ELSE name
AddEntry(st, dir, child, name) == PutEntry(st, dir, child, Stored(name))
-----------------------------------------------------------------------------
Done(st, ret) == [st |-> st, ret |-> ret]

(* The last part of spfs_write(): blocks are allocated and written until   *)
(* the text ends or the disk is full; the inode gets the whole size.  The  *)
(* mutant of TextBlock copies a piece too few.                             *)
TextBlockShort(t, n) ==
  [k \in 1 .. PerBlk |-> IF k < n THEN [inode |-> TextInode, name |-> t]
                                  ELSE FreeSlot]

TextBlock(t, n) ==
  [k \in 1 .. PerBlk |-> IF k <= n THEN [inode |-> TextInode, name |-> t]
                                   ELSE FreeSlot]

WriteBlock(at, b, t, size) ==
  LET sec == Min(FreeBlocks(at.st))
      n == Min({PerBlk, size - at.done})
  IN  IF at.done = size \/ FreeBlocks(at.st) = {}
      THEN at
      ELSE [st |-> PutBlock(TakeBlock(at.st), sec, TextBlock(t, n)),
            in |-> [at.in EXCEPT !.blocks[b] = sec],
            done |-> at.done + n]

WriteData(st, i, t, size) ==
  LET upTo[b \in 0 .. NDirect] ==
        IF b = 0 THEN [st |-> st, done |-> 0,
                       in |-> [st.disk.inode[i] EXCEPT !.size = size]]
                 ELSE WriteBlock(upTo[b - 1], b, t, size)
      end == upTo[NDirect]
  IN  Done(PutInode(end.st, i, end.in), end.done)

(* Mutant of Truncate: the old blocks are forgotten without being freed.   *)
TruncateLeaks(st, i) ==
  PutInode(st, i, [st.disk.inode[i] EXCEPT !.size = 0, !.blocks = NoBlocks])

(* An existing file loses its blocks first.                                *)
Truncate(st, i) ==
  PutInode(FreeBlocksOf(st, i), i,
           [st.disk.inode[i] EXCEPT !.size = 0, !.blocks = NoBlocks])

(* Mutant of Create: the entry is made before its inode is written.        *)
CreateEntryFirst(st, type, path) ==
  LET i == Min(FreeInodes(st))
  IN  PutInode(AddEntry(TakeInode(st), PathFind(st.disk, ParentPath(path)).cur,
                        i, NameOf(path)), i, Inode(type))

(* A new inode and its entry.                                              *)
Create(st, type, path) ==
  LET i == Min(FreeInodes(st))
  IN  AddEntry(PutInode(TakeInode(st), i, Inode(type)),
               PathFind(st.disk, ParentPath(path)).cur, i, NameOf(path))

(* spfs_write().                                                           *)
SpfsWrite(st, path, t, size) ==
  LET found == PathFind(st.disk, path)
  IN  IF size > Capacity \/ ~ PathFind(st.disk, ParentPath(path)).ok
      THEN Done(st, -1)
      ELSE IF found.ok
      THEN WriteData(Truncate(st, found.cur), found.cur, t, size)
      ELSE IF FreeInodes(st) = {}
      THEN Done(st, -1)
      ELSE WriteData(Create(st, "arquivo", path), Min(FreeInodes(st)), t, size)

(* spfs_mkdir().                                                           *)
SpfsMkdir(st, path) ==
  IF ~ PathFind(st.disk, ParentPath(path)).ok \/ FreeInodes(st) = {}
  THEN Done(st, -1)
  ELSE Done(Create(st, "diretorio", path), 0)

(* The end of spfs_unlink(): the first entry of that inode is cleared.     *)
EntriesOf(d, dir, i) == {k \in Present(d, dir) : Piece(d, dir, k).inode = i}

(* Mutant of ClearEntry: the entry stays in the directory.                 *)
ClearNothing(st, dir, i) == st

ClearEntry(st, dir, i) ==
  LET k == Min(EntriesOf(st.disk, dir, i))
      b == st.disk.inode[dir].blocks[BlockOf(k)]
  IN  IF EntriesOf(st.disk, dir, i) = {}
      THEN st
      ELSE PutBlock(st, b, [st.disk.blk[b] EXCEPT
                              ![PlaceOf(k)].inode = 0])

(* spfs_unlink(): blocks, inode, bit and counter, then the entry.          *)
SpfsUnlink(st, path) ==
  LET found == PathFind(st.disk, path)
      i == found.cur
      freed == PutInode(FreeBlocksOf(st, i), i,
                        [st.disk.inode[i] EXCEPT !.type = "livre"])
      cleared == PutImap([freed EXCEPT !.ram.imap = @ \ {i}])
      counted == PutSuper([cleared EXCEPT !.ram.free_inodes = @ + 1])
  IN  IF ~ found.ok THEN Done(st, -1)
                    ELSE Done(ClearEntry(counted, found.parent, i), 0)

(* spfs_format(): super block, the two bitmaps, an empty table, the root.  *)
SpfsFormat(st, junk) ==
  LET super == PutSuper([st EXCEPT !.ram = [free_blocks |-> TotalBlocks,
                 free_inodes |-> NInodes - 1, imap |-> {0}, bmap |-> {}]])
      maps == PutBmap(PutImap(super))
      zeroed == Put(maps, [maps.disk EXCEPT !.inode =
                             [i \in Inodes |-> Inode("livre")]])
  IN  Done(Put(zeroed, [zeroed.disk EXCEPT !.inode = Table(junk)]), 0)

(* spfs_read() of a whole file: up to its size or to a missing block.      *)
SpfsRead(d, i) ==
  LET n == Cardinality({k \in Present(d, i) : k <= d.inode[i].size})
  IN  [k \in 1 .. n |-> Piece(d, i, k).name]

(* What a path leads to, for the commands of the shell.                    *)
Node(d, path) ==
  LET found == PathFind(d, path) IN
  IF ~ found.ok THEN [kind |-> "none", text |-> <<>>]
  ELSE [kind |-> d.inode[found.cur].type,
        text |-> IF d.inode[found.cur].type = "arquivo"
                 THEN SpfsRead(d, found.cur) ELSE <<>>]

TreeOf(d) == [p \in Paths |-> Node(d, p)]

-----------------------------------------------------------------------------
(* After spfs_format() of a blank disk.                                    *)
Init ==
  /\ \E junk \in Junk :
       disk = [free_blocks |-> TotalBlocks, free_inodes |-> NInodes - 1,
               imap |-> {0}, bmap |-> {}, inode |-> Table(junk),
               blk |-> [b \in Blocks |-> EmptyBlock]]
  /\ home = CachedPart(disk)
  /\ ram = home
  /\ up = FALSE
  /\ tree = TreeOf(disk)

(* What a call does that a careful user would not: it names the root, a    *)
(* directory that exists, a file as the parent, a directory to write to;   *)
(* or it makes an entry in a directory that has no place left, or one with *)
(* a name that an entry cannot hold.                                       *)
IsType(path, type) ==
  /\ PathFind(disk, path).ok
  /\ disk.inode[PathFind(disk, path).cur].type = type

IsFull(dir) ==
  \A k \in 1 .. Capacity : k \in Present(disk, dir) /\ Piece(disk, dir, k).inode # 0

KindsOf(op, path) ==
  {op}
  \cup {k \in {"root"} : op # "format" /\ path = <<>>}
  \cup {k \in {"overwrite"} : op = "write" /\ IsType(path, "arquivo")}
  \cup {k \in {"overdir"} : op = "write" /\ IsType(path, "diretorio")}
  \cup {k \in {"again"} : op = "mkdir" /\ PathFind(disk, path).ok}
  \cup {k \in {"longname"} :
          op \in {"write", "mkdir"} /\ Stored(NameOf(path)) # NameOf(path)}
  \cup {k \in {"underfile"} :
          op # "unlink" /\ path # <<>> /\ IsType(ParentPath(path), "arquivo")}
  \cup {k \in {"fulldir"} :
          /\ op # "unlink" /\ path # <<>> /\ ~ PathFind(disk, path).ok
          /\ IsType(ParentPath(path), "diretorio")
          /\ IsFull(PathFind(disk, ParentPath(path)).cur)}

(* The call returns, ...                                                   *)
Returns(result) ==
  /\ disk' = result.st.disk
  /\ tree' = TreeOf(disk')
  /\ home' = CachedPart(disk')
  /\ ram' = result.st.ram
  /\ up' = TRUE

(* ... or the power fails after one of its writes, and before or after     *)
(* that write has reached its home sector: the log holds it.               *)
PowerFails(result) ==
  /\ PowerCuts
  /\ \E i \in DOMAIN result.st.disks :
       /\ disk' = result.st.disks[i]
       /\ tree' = TreeOf(disk')
       /\ \E j \in {i - 1, i} \ {0} : home' = CachedPart(result.st.disks[j])
  /\ up' = FALSE
  /\ ram' = home'

Call(op, path, result) ==
  /\ KindsOf(op, path) \subseteq Uses
  /\ Returns(result) \/ PowerFails(result)

Write(path, t, size) ==
  up /\ Call("write", path, SpfsWrite(Start, path, t, size))
Mkdir(path) == up /\ Call("mkdir", path, SpfsMkdir(Start, path))
Unlink(path) == up /\ Call("unlink", path, SpfsUnlink(Start, path))

(* "spfs fmt" mounts what it has formatted, mounted before or not.         *)
Format(junk) == Call("format", <<>>, SpfsFormat(Start, junk))

(* spfs_mount(): the copies are read, then recovery brings the sectors up  *)
(* to date.                                                                *)
Mount ==
  /\ ~ up
  /\ ram' = home
  /\ home' = CachedPart(disk)
  /\ up' = TRUE
  /\ UNCHANGED <<disk, tree>>

Next ==
  \/ \E path \in Paths :
       \/ \E t \in Texts, size \in Sizes : Write(path, t, size)
       \/ Mkdir(path)
       \/ Unlink(path)
  \/ \E junk \in Junk : Format(junk)
  \/ Mount

Spec == Init /\ [][Next]_vars
-----------------------------------------------------------------------------
TypeOK ==
  /\ CachedPart(disk) \in Cached /\ home \in Cached /\ ram \in Cached
  /\ disk.inode \in [Inodes -> InodeType]
  /\ disk.blk \in [Blocks -> [1 .. PerBlk -> Slot]]
  /\ up \in BOOLEAN

(* The blocks of a set of inodes, each with its place.                     *)
Refs(d, I) == {r \in I \X (1 .. NDirect) : d.inode[r[1]].blocks[r[2]] # 0}
BlockAt(d, r) == d.inode[r[1]].blocks[r[2]]

Reachable(d) ==
  {PathFind(d, p).cur : p \in {q \in Paths : PathFind(d, q).ok}}

(* A block belongs to one inode at most of those a path leads to, and its  *)
(* bit is set, so that alloc_block() cannot give it away a second time     *)
(* (spacefs.c, free_block() before inode_write() in spfs_write() and in    *)
(* spfs_unlink()).                                                         *)
BlocksOwned ==
  LET refs == Refs(disk, Reachable(disk)) IN
  /\ \A r \in refs : BlockAt(disk, r) \in disk.bmap
  /\ \A r, s \in refs : BlockAt(disk, r) = BlockAt(disk, s) => r = s

(* Between calls that no power cut interrupted, the block bitmap marks     *)
(* what the marked inodes use and nothing more, and the counters of the    *)
(* super block agree with the bitmaps, full disk or not.                   *)
NothingLeaks ==
  /\ disk.bmap = {BlockAt(disk, r) : r \in Refs(disk, disk.imap)}
  /\ disk.free_blocks = TotalBlocks - Cardinality(disk.bmap)
  /\ disk.free_inodes = NInodes - Cardinality(disk.imap)

(* Every entry of a directory names an inode that is marked and that was   *)
(* written: alloc_inode() and inode_write() come before dir_add_entry().   *)
EntriesLive ==
  \A i \in {j \in Reachable(disk) : disk.inode[j].type = "diretorio"} :
    \A k \in Present(disk, i) :
      LET e == Piece(disk, i, k).inode IN
      e \in Inodes \ {0} => e \in disk.imap /\ disk.inode[e].type # "livre"

Contents == {[k \in 1 .. n |-> t] : t \in Texts, n \in 0 .. Capacity}

Tree == INSTANCE FileTree

(* The inodes, blocks and bitmaps implement the tree of files: whatever    *)
(* was created, overwritten and removed before, with blocks and inodes     *)
(* used again, and on a full disk, a call changes nothing but its path.    *)
ImplementsFileTree == Tree!Spec

(* "spfs write <arq> <texto>  escreve texto" (comandos.c line 926):        *)
(* spfs_write() that returns the whole size has written the whole text     *)
(* where spfs_read() finds it.  False when the name is longer than         *)
(* SFS_NAME_MAX, which a call of the kind "longname" makes it.             *)
WrittenIsRead ==
  \A path \in Paths, t \in Texts, size \in Sizes :
    up /\ KindsOf("write", path) \subseteq Uses =>
      LET call == SpfsWrite(Start, path, t, size) IN
      call.ret = size =>
        Node(call.st.disk, path) =
          [kind |-> "arquivo", text |-> [k \in 1 .. size |-> t]]

(* A power cut while one path is being created takes no other file away.   *)
FilesStay ==
  [][\A p \in Paths : tree[p].kind = "arquivo" => tree'[p] = tree[p]]_vars

(* What every state of the disk must be, power cuts included.              *)
DiskSound == TypeOK /\ BlocksOwned /\ EntriesLive
=============================================================================
