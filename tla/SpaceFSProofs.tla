---------------------------- MODULE SpaceFSProofs ----------------------------
(***************************************************************************)
(* Theorems about SpaceFS, for a disk, paths, texts and uses of any kind,  *)
(* between calls that no power cut interrupted, and with power cuts while  *)
(* files and directories are created.                                      *)
(***************************************************************************)
EXTENDS SpaceFS, FiniteSetTheorems, WellFoundedInduction, TLAPS

(* A non-empty set of natural numbers has a least element.                 *)
LEMMA NatMinimum ==
  ASSUME NEW S, S \subseteq Nat, S # {}
  PROVE  \E m \in S : \A n \in S : m <= n
<1>1. IsWellFoundedOn(OpToRel(<, Nat), Nat)
  BY NatLessThanWellFounded
<1>2. PICK m \in S : \A n \in S : ~ (<<n, m>> \in OpToRel(<, Nat))
  BY <1>1, WFMin
<1>3. \A n \in S : ~ (n < m)
  BY <1>2 DEF OpToRel
<1> QED
  BY <1>3

(* Counting up to n: what holds of 0, and of k if it holds of k - 1.       *)
LEMMA Reaches ==
  ASSUME NEW n \in Nat, NEW Good, 0 \in Good,
         \A k \in 1 .. n : k - 1 \in Good => k \in Good
  PROVE  \A k \in 0 .. n : k \in Good
<1> DEFINE Bad == {k \in 0 .. n : k \notin Good}
<1>1. SUFFICES ASSUME Bad # {} PROVE FALSE
  OBVIOUS
<1>2. Bad \subseteq Nat
  OBVIOUS
<1>3. PICK m \in Bad : \A i \in Bad : m <= i
  <2> HIDE DEF Bad
  <2> QED
    BY <1>1, <1>2, NatMinimum
<1>4. m \in 1 .. n /\ m - 1 \in 0 .. n /\ ~ (m <= m - 1)
  BY <1>3
<1>5. m - 1 \in Good
  BY <1>3, <1>4
<1> QED
  BY <1>3, <1>4, <1>5

(* A recursive definition over the numbers up to n, whose step takes a     *)
(* value to the next, has a function that satisfies it.                    *)
Recurs(g, n, v0, step) ==
  g[0] = v0 /\ \A k \in 1 .. n : g[k] = step[k][g[k - 1]]

LEMMA Recursion ==
  ASSUME NEW n \in Nat, NEW V, NEW v0 \in V, NEW step \in [1 .. n -> [V -> V]]
  PROVE  \E g \in [0 .. n -> V] : Recurs(g, n, v0, step)
<1> DEFINE Upto(m) == \E g \in [0 .. m -> V] : Recurs(g, m, v0, step)
           Good == {m \in 0 .. n : Upto(m)}
<1>1. 0 \in Good
  <2> DEFINE g == [k \in 0 .. 0 |-> v0]
  <2>1. g \in [0 .. 0 -> V] /\ Recurs(g, 0, v0, step)
    BY DEF Recurs
  <2> QED
    BY <2>1
<1>2. ASSUME NEW m \in 1 .. n, m - 1 \in Good PROVE m \in Good
  <2>1. PICK h \in [0 .. m - 1 -> V] : h[0] = v0 /\ \A k \in 1 .. m - 1 : h[k] = step[k][h[k - 1]]
    BY <1>2 DEF Recurs
  <2> DEFINE g == [k \in 0 .. m |-> IF k = m THEN step[m][h[m - 1]] ELSE h[k]]
  <2>2. h[m - 1] \in V /\ step[m][h[m - 1]] \in V
    <3>1. m - 1 \in 0 .. m - 1
      OBVIOUS
    <3> QED
      BY <3>1
  <2>3. \A k \in 0 .. m : k # m => k \in 0 .. m - 1
    OBVIOUS
  <2>4. g \in [0 .. m -> V]
    BY <2>2, <2>3
  <2>5. g[0] = v0
    BY <2>1
  <2>6. ASSUME NEW k \in 1 .. m PROVE g[k] = step[k][g[k - 1]]
    <3>1. k \in 0 .. m /\ k - 1 \in 0 .. m /\ k - 1 # m /\ g[k - 1] = h[k - 1]
      OBVIOUS
    <3>2. CASE k = m
      BY <3>1, <3>2
    <3>3. CASE k # m
      <4>1. k \in 1 .. m - 1
        BY <3>3
      <4> QED
        BY <3>1, <3>3, <4>1, <2>1
    <3> QED
      BY <3>2, <3>3
  <2> HIDE DEF g
  <2>7. Upto(m)
    BY <2>4, <2>5, <2>6 DEF Recurs
  <2> QED
    BY <2>7
<1>3. \A m \in 0 .. n : m \in Good
  <2> HIDE DEF Good
  <2> QED
    BY <1>1, <1>2, Reaches
<1> QED
  BY <1>3
-----------------------------------------------------------------------------
(* Disks and calls in progress, the counters not yet bounded.              *)
DiskType ==
  [free_blocks : Int, free_inodes : Int, imap : SUBSET Inodes, bmap : SUBSET Blocks,
   inode : [Inodes -> InodeType], blk : [Blocks -> [1 .. PerBlk -> Slot]]]
CopyType ==
  [free_blocks : Int, free_inodes : Int, imap : SUBSET Inodes, bmap : SUBSET Blocks]
CallType == [disk : DiskType, ram : CopyType, disks : Seq(DiskType)]

(* Without power cuts the copies in RAM are those of the disk, whenever    *)
(* both bitmap and counter are written.                                    *)
Agrees(st) == st \in CallType /\ st.ram = CachedPart(st.disk)

Ptr(d, i, b) == d.inode[i].blocks[b]
EntryAt(d, i, b, k) == d.blk[Ptr(d, i, b)][k].inode
Places == 1 .. NDirect
Slots == 1 .. PerBlk
IsEntry(d, i, b, k) == Ptr(d, i, b) # 0 /\ EntryAt(d, i, b, k) \in Inodes \ {0}

(* The blocks of a set of inodes are theirs alone and marked.              *)
Owned(d, R) ==
  /\ \A i \in R, b \in Places : Ptr(d, i, b) # 0 => Ptr(d, i, b) \in d.bmap
  /\ \A i, j \in R, b, c \in Places :
       Ptr(d, i, b) # 0 /\ Ptr(d, i, b) = Ptr(d, j, c) => i = j /\ b = c

(* Entries of directories among them lead to others of them, and no two to *)
(* the same one.                                                           *)
Dirs(d, R) == {i \in R : d.inode[i].type = "diretorio"}
Linked(d, R) ==
  /\ \A i \in Dirs(d, R), b \in Places, k \in Slots :
       IsEntry(d, i, b, k) => EntryAt(d, i, b, k) \in R \ {i}
  /\ \A i, j \in Dirs(d, R), b, c \in Places, k, l \in Slots :
       IsEntry(d, i, b, k) /\ EntryAt(d, j, c, l) = EntryAt(d, i, b, k) /\ Ptr(d, j, c) # 0
       => i = j /\ b = c /\ k = l

Texted(d) == \A x \in Blocks, k \in Slots :
  d.blk[x][k].inode = TextInode => d.blk[x][k].name \in Texts

(* The inodes of R are a file system, of which the root is the root.       *)
Sound(d, R) ==
  /\ d \in DiskType /\ 0 \in R /\ R \subseteq d.imap
  /\ d.inode[0].type = "diretorio" /\ \A i \in R : d.inode[i].type # "livre"
  /\ Owned(d, R) /\ Linked(d, R) /\ Texted(d)

(* Nothing else is marked, and the counters say how much.                  *)
Held(d, R) == \A x \in d.bmap : \E i \in R, b \in Places : Ptr(d, i, b) = x
Counted(d) ==
  /\ d.free_blocks = TotalBlocks - Cardinality(d.bmap)
  /\ d.free_inodes = NInodes - Cardinality(d.imap)

Whole(d) == Sound(d, d.imap) /\ Held(d, d.imap) /\ Counted(d)

IndInv ==
  /\ Whole(disk) /\ home = CachedPart(disk) /\ ram = home
  /\ up \in BOOLEAN
-----------------------------------------------------------------------------
LEMMA MinIs ==
  ASSUME NEW S, S \subseteq Nat, S # {}
  PROVE  Min(S) \in S /\ \A k \in S : Min(S) <= k
<1>1. \E x \in S : \A y \in S : x <= y
  BY NatMinimum
<1> QED
  BY <1>1 DEF Min

LEMMA Sizes_Nat ==
  /\ NInodes \in Nat \ {0} /\ NBlocks \in Nat /\ NDirect \in Nat \ {0} /\ PerBlk \in Nat \ {0}
  /\ Capacity \in Nat /\ Inodes \subseteq Nat /\ Blocks \subseteq Nat /\ 0 \notin Blocks
  /\ Places \subseteq Nat /\ Slots \subseteq Nat /\ 0 \in Inodes
  /\ TextInode \notin Inodes /\ TextInode # 0 /\ Inodes \subseteq 0 .. TextInode
BY SpaceFSAssumption DEF Capacity, Inodes, Blocks, Places, Slots, TextInode

(* Where the pieces of an inode are.                                       *)
LEMMA PlaceIs ==
  ASSUME NEW k \in 1 .. Capacity
  PROVE  BlockOf(k) \in Places /\ PlaceOf(k) \in Slots
<1> DEFINE q == (k - 1) \div PerBlk
           P == PerBlk
           N == NDirect
<1>1. P \in Nat \ {0} /\ N \in Nat \ {0} /\ k \in Nat /\ 1 <= k /\ k <= N * P
  BY Sizes_Nat DEF Capacity
<1>2. q \in Nat /\ q * P <= k - 1 /\ (k - 1) % P \in 0 .. P - 1
  BY <1>1
<1>3. q * P < N * P
  BY <1>1, <1>2
<1> HIDE DEF q
<1>4. q < N
  <2>1. SUFFICES ASSUME q >= N PROVE q * P >= N * P
    BY <1>1, <1>2, <1>3
  <2>2. PICK r \in Nat : q = N + r
    <3>1. q - N \in Nat /\ q = N + (q - N)
      BY <1>1, <1>2, <2>1
    <3> QED
      BY <3>1
  <2>3. q * P = N * P + r * P /\ r * P \in Nat /\ N * P \in Nat
    BY <1>1, <2>2
  <2> QED
    BY <2>3
<1> QED
  BY <1>1, <1>2, <1>4 DEF BlockOf, PlaceOf, Places, Slots, q
-----------------------------------------------------------------------------
(* sfs_write_sec() of each kind of sector.                                 *)
LEMMA PutIs ==
  ASSUME NEW st \in CallType, NEW d \in DiskType
  PROVE  Put(st, d) \in CallType /\ Put(st, d).disk = d /\ Put(st, d).ram = st.ram
<1>1. st.disks \in Seq(DiskType) /\ st.ram \in CopyType
  BY DEF CallType
<1>2. Append(st.disks, d) \in Seq(DiskType)
  BY <1>1
<1>3. st = [disk |-> st.disk, ram |-> st.ram, disks |-> st.disks]
  BY DEF CallType
<1>4. Put(st, d) = [disk |-> d, ram |-> st.ram, disks |-> Append(st.disks, d)]
  <2>1. ASSUME NEW a, NEW r, NEW ds, st = [disk |-> a, ram |-> r, disks |-> ds]
        PROVE  Put(st, d) = [disk |-> d, ram |-> r, disks |-> Append(ds, d)]
    <3> DEFINE s1 == [st EXCEPT !.disk = d]
               q == Append(ds, d)
    <3>1. s1 = [disk |-> d, ram |-> r, disks |-> ds]
      BY <2>1
    <3>2. Put(st, d) = [s1 EXCEPT !.disks = Append(s1.disks, d)]
      BY DEF Put
    <3>3. Append(s1.disks, d) = q
      BY <3>1
    <3> HIDE DEF s1, q
    <3>4. [s1 EXCEPT !.disks = q] = [disk |-> d, ram |-> r, disks |-> q]
      BY <3>1
    <3> QED
      BY <3>2, <3>3, <3>4 DEF q
  <2>2. \E a, r, ds : st = [disk |-> a, ram |-> r, disks |-> ds] /\ r = st.ram /\ ds = st.disks
    BY <1>3
  <2> QED
    BY <2>1, <2>2
<1> QED
  BY <1>1, <1>2, <1>4 DEF CallType

LEMMA PutInodeIs ==
  ASSUME NEW st, Agrees(st), NEW i \in Inodes, NEW n \in InodeType
  PROVE  LET r == PutInode(st, i, n)
         IN Agrees(r) /\ r.disk = [st.disk EXCEPT !.inode[i] = n]
<1> DEFINE d == [st.disk EXCEPT !.inode[i] = n]
<1>1. st \in CallType /\ st.disk \in DiskType /\ st.ram = CachedPart(st.disk)
  BY DEF Agrees, CallType
<1>2. d \in DiskType /\ CachedPart(d) = CachedPart(st.disk)
  BY <1>1 DEF DiskType, CachedPart
<1> QED
  BY <1>1, <1>2, PutIs DEF PutInode, Agrees

LEMMA PutBlockIs ==
  ASSUME NEW st, Agrees(st), NEW x \in Blocks, NEW c \in [1 .. PerBlk -> Slot]
  PROVE  LET r == PutBlock(st, x, c)
         IN Agrees(r) /\ r.disk = [st.disk EXCEPT !.blk[x] = c]
<1> DEFINE d == [st.disk EXCEPT !.blk[x] = c]
<1>1. st \in CallType /\ st.disk \in DiskType /\ st.ram = CachedPart(st.disk)
  BY DEF Agrees, CallType
<1>2. d \in DiskType /\ CachedPart(d) = CachedPart(st.disk)
  BY <1>1 DEF DiskType, CachedPart
<1> QED
  BY <1>1, <1>2, PutIs DEF PutBlock, Agrees

(* A bitmap and then its counter are changed in RAM and written.           *)
MarkBlocks(d, S, n) == [d EXCEPT !.bmap = S, !.free_blocks = n]
MarkInodes(d, S, n) == [d EXCEPT !.imap = S, !.free_inodes = n]

LEMMA BmapThenSuper ==
  ASSUME NEW st, Agrees(st), NEW S \in SUBSET Blocks, NEW n \in Int
  PROVE  LET first == PutBmap([st EXCEPT !.ram.bmap = S])
             r == PutSuper([first EXCEPT !.ram.free_blocks = n])
         IN /\ Agrees(r) /\ r.disk = MarkBlocks(st.disk, S, n)
            /\ first.ram.free_blocks = st.disk.free_blocks
<1> DEFINE s1 == [st EXCEPT !.ram.bmap = S]
           d1 == [s1.disk EXCEPT !.bmap = s1.ram.bmap]
           first == PutBmap(s1)
           s2 == [first EXCEPT !.ram.free_blocks = n]
           d2 == [s2.disk EXCEPT !.free_blocks = s2.ram.free_blocks, !.free_inodes = s2.ram.free_inodes]
<1>1. st \in CallType /\ st.disk \in DiskType /\ st.ram = CachedPart(st.disk) /\ st.ram \in CopyType
  BY DEF Agrees, CallType
<1>2. /\ s1 \in CallType /\ s1.disk = st.disk /\ s1.ram \in CopyType
      /\ s1.ram = [free_blocks |-> st.disk.free_blocks, free_inodes |-> st.disk.free_inodes,
                   imap |-> st.disk.imap, bmap |-> S]
  BY <1>1 DEF CallType, CopyType, CachedPart
<1> HIDE DEF s1
<1>3. d1 \in DiskType /\ d1 = [st.disk EXCEPT !.bmap = S]
  BY <1>1, <1>2 DEF DiskType
<1>4. first \in CallType /\ first.disk = d1 /\ first.ram = s1.ram
  BY <1>2, <1>3, PutIs DEF PutBmap
<1> HIDE DEF first
<1>5. /\ s2 \in CallType /\ s2.disk = d1
      /\ s2.ram = [free_blocks |-> n, free_inodes |-> st.disk.free_inodes,
                   imap |-> st.disk.imap, bmap |-> S]
  <2> DEFINE c == [first.ram EXCEPT !.free_blocks = n]
  <2>1. first = [disk |-> first.disk, ram |-> first.ram, disks |-> first.disks] /\ first.disks \in Seq(DiskType)
    BY <1>4 DEF CallType
  <2>2. s2 = [disk |-> first.disk, ram |-> c, disks |-> first.disks]
    BY <2>1
  <2>3. c = [free_blocks |-> n, free_inodes |-> st.disk.free_inodes,
             imap |-> st.disk.imap, bmap |-> S]
    BY <1>2, <1>4
  <2>4. c \in CopyType
    BY <1>1, <2>3 DEF CopyType, DiskType
  <2> QED
    BY <1>3, <1>4, <2>2, <2>3, <2>4 DEF CallType
<1> HIDE DEF s2
<1>6. d2 \in DiskType /\ d2 = MarkBlocks(st.disk, S, n) /\ CachedPart(d2) = s2.ram
  <2>1. d2 = [d1 EXCEPT !.free_blocks = n, !.free_inodes = st.disk.free_inodes]
    BY <1>5
  <2> QED
    <3> DEFINE d == st.disk
    <3>1. d \in DiskType
      BY <1>1
    <3>2. d2 = [[d EXCEPT !.bmap = S] EXCEPT !.free_blocks = n, !.free_inodes = d.free_inodes]
      BY <1>3, <2>1
    <3>3. s2.ram = [free_blocks |-> n, free_inodes |-> d.free_inodes, imap |-> d.imap, bmap |-> S]
      BY <1>5
    <3> HIDE DEF d, d2
    <3>4. d2 = MarkBlocks(d, S, n) /\ d2 \in DiskType
      BY <3>1, <3>2 DEF DiskType, MarkBlocks
    <3>5. CachedPart(d2) = s2.ram
      BY <3>1, <3>2, <3>3 DEF DiskType, CachedPart
    <3> QED
      BY <3>4, <3>5 DEF d
<1>7. PutSuper(s2) = Put(s2, d2)
  BY DEF PutSuper
<1>8. Agrees(PutSuper(s2)) /\ PutSuper(s2).disk = MarkBlocks(st.disk, S, n)
  BY <1>5, <1>6, <1>7, PutIs DEF Agrees
<1> QED
  BY <1>2, <1>4, <1>8 DEF first, s1, s2

LEMMA ImapThenSuper ==
  ASSUME NEW st, Agrees(st), NEW S \in SUBSET Inodes, NEW n \in Int
  PROVE  LET first == PutImap([st EXCEPT !.ram.imap = S])
             r == PutSuper([first EXCEPT !.ram.free_inodes = n])
         IN /\ Agrees(r) /\ r.disk = MarkInodes(st.disk, S, n)
            /\ first.ram.free_inodes = st.disk.free_inodes
<1> DEFINE s1 == [st EXCEPT !.ram.imap = S]
           d1 == [s1.disk EXCEPT !.imap = s1.ram.imap]
           first == PutImap(s1)
           s2 == [first EXCEPT !.ram.free_inodes = n]
           d2 == [s2.disk EXCEPT !.free_blocks = s2.ram.free_blocks, !.free_inodes = s2.ram.free_inodes]
<1>1. st \in CallType /\ st.disk \in DiskType /\ st.ram = CachedPart(st.disk) /\ st.ram \in CopyType
  BY DEF Agrees, CallType
<1>2. /\ s1 \in CallType /\ s1.disk = st.disk /\ s1.ram \in CopyType
      /\ s1.ram = [free_blocks |-> st.disk.free_blocks, free_inodes |-> st.disk.free_inodes,
                   imap |-> S, bmap |-> st.disk.bmap]
  BY <1>1 DEF CallType, CopyType, CachedPart
<1> HIDE DEF s1
<1>3. d1 \in DiskType /\ d1 = [st.disk EXCEPT !.imap = S]
  BY <1>1, <1>2 DEF DiskType
<1>4. first \in CallType /\ first.disk = d1 /\ first.ram = s1.ram
  BY <1>2, <1>3, PutIs DEF PutImap
<1> HIDE DEF first
<1>5. /\ s2 \in CallType /\ s2.disk = d1
      /\ s2.ram = [free_blocks |-> st.disk.free_blocks, free_inodes |-> n,
                   imap |-> S, bmap |-> st.disk.bmap]
  <2> DEFINE c == [first.ram EXCEPT !.free_inodes = n]
  <2>1. first = [disk |-> first.disk, ram |-> first.ram, disks |-> first.disks] /\ first.disks \in Seq(DiskType)
    BY <1>4 DEF CallType
  <2>2. s2 = [disk |-> first.disk, ram |-> c, disks |-> first.disks]
    BY <2>1
  <2>3. c = [free_blocks |-> st.disk.free_blocks, free_inodes |-> n,
             imap |-> S, bmap |-> st.disk.bmap]
    BY <1>2, <1>4
  <2>4. c \in CopyType
    BY <1>1, <2>3 DEF CopyType, DiskType
  <2> QED
    BY <1>3, <1>4, <2>2, <2>3, <2>4 DEF CallType
<1> HIDE DEF s2
<1>6. d2 \in DiskType /\ d2 = MarkInodes(st.disk, S, n) /\ CachedPart(d2) = s2.ram
  <2>1. d2 = [d1 EXCEPT !.free_blocks = st.disk.free_blocks, !.free_inodes = n]
    BY <1>5
  <2> QED
    <3> DEFINE d == st.disk
    <3>1. d \in DiskType
      BY <1>1
    <3>2. d2 = [[d EXCEPT !.imap = S] EXCEPT !.free_blocks = d.free_blocks, !.free_inodes = n]
      BY <1>3, <2>1
    <3>3. s2.ram = [free_blocks |-> d.free_blocks, free_inodes |-> n, imap |-> S, bmap |-> d.bmap]
      BY <1>5
    <3> HIDE DEF d, d2
    <3>4. d2 = MarkInodes(d, S, n) /\ d2 \in DiskType
      BY <3>1, <3>2 DEF DiskType, MarkInodes
    <3>5. CachedPart(d2) = s2.ram
      BY <3>1, <3>2, <3>3 DEF DiskType, CachedPart
    <3> QED
      BY <3>4, <3>5 DEF d
<1>7. PutSuper(s2) = Put(s2, d2)
  BY DEF PutSuper
<1>8. Agrees(PutSuper(s2)) /\ PutSuper(s2).disk = MarkInodes(st.disk, S, n)
  BY <1>5, <1>6, <1>7, PutIs DEF Agrees
<1> QED
  BY <1>2, <1>4, <1>8 DEF first, s1, s2

LEMMA TakeInodeIs ==
  ASSUME NEW st, Agrees(st), FreeInodes(st) # {}
  PROVE  LET i == Min(FreeInodes(st))
             d == st.disk
         IN /\ i \in Inodes \ {0} /\ i \notin d.imap
            /\ Agrees(TakeInode(st))
            /\ TakeInode(st).disk = MarkInodes(d, d.imap \cup {i}, d.free_inodes - 1)
<1> DEFINE i == Min(FreeInodes(st))
           S == st.ram.imap \cup {i}
           n == st.disk.free_inodes - 1
           first == PutImap([st EXCEPT !.ram.imap = S])
<1>1. st.ram = CachedPart(st.disk) /\ st.disk \in DiskType
  BY DEF Agrees, CallType
<1>2. st.ram.imap = st.disk.imap /\ st.disk.imap \in SUBSET Inodes /\ n \in Int
  BY <1>1 DEF CachedPart, DiskType
<1>3. FreeInodes(st) \subseteq Nat
  BY Sizes_Nat DEF FreeInodes
<1>4. i \in FreeInodes(st)
  BY <1>3, MinIs
<1>5. i \in Inodes \ {0} /\ i \notin st.disk.imap
  BY <1>2, <1>4 DEF FreeInodes
<1> HIDE DEF i
<1>6. TakeInode(st) = PutSuper([first EXCEPT !.ram.free_inodes = first.ram.free_inodes - 1])
  BY DEF TakeInode, i
<1>7. S \in SUBSET Inodes
  BY <1>2, <1>5
<1>8. /\ first.ram.free_inodes - 1 = n
      /\ Agrees(PutSuper([first EXCEPT !.ram.free_inodes = n]))
      /\ PutSuper([first EXCEPT !.ram.free_inodes = n]).disk = MarkInodes(st.disk, S, n)
  BY <1>2, <1>7, ImapThenSuper
<1> HIDE DEF first, n
<1> QED
  BY <1>2, <1>5, <1>6, <1>8 DEF i, n

LEMMA TakeBlockIs ==
  ASSUME NEW st, Agrees(st), FreeBlocks(st) # {}
  PROVE  LET x == Min(FreeBlocks(st))
             d == st.disk
         IN /\ x \in Blocks /\ x \notin d.bmap
            /\ Agrees(TakeBlock(st))
            /\ TakeBlock(st).disk = MarkBlocks(d, d.bmap \cup {x}, d.free_blocks - 1)
<1> DEFINE x == Min(FreeBlocks(st))
           S == st.ram.bmap \cup {x}
           n == st.disk.free_blocks - 1
           first == PutBmap([st EXCEPT !.ram.bmap = S])
<1>1. st.ram = CachedPart(st.disk) /\ st.disk \in DiskType
  BY DEF Agrees, CallType
<1>2. st.ram.bmap = st.disk.bmap /\ st.disk.bmap \in SUBSET Blocks /\ n \in Int
  BY <1>1 DEF CachedPart, DiskType
<1>3. FreeBlocks(st) \subseteq Nat
  BY Sizes_Nat DEF FreeBlocks
<1>4. x \in FreeBlocks(st)
  BY <1>3, MinIs
<1>5. x \in Blocks /\ x \notin st.disk.bmap
  BY <1>2, <1>4 DEF FreeBlocks
<1> HIDE DEF x
<1>6. TakeBlock(st) = PutSuper([first EXCEPT !.ram.free_blocks = first.ram.free_blocks - 1])
  BY DEF TakeBlock, x
<1>7. S \in SUBSET Blocks
  BY <1>2, <1>5
<1>8. /\ first.ram.free_blocks - 1 = n
      /\ Agrees(PutSuper([first EXCEPT !.ram.free_blocks = n]))
      /\ PutSuper([first EXCEPT !.ram.free_blocks = n]).disk = MarkBlocks(st.disk, S, n)
  BY <1>2, <1>7, BmapThenSuper
<1> HIDE DEF first, n
<1> QED
  BY <1>2, <1>5, <1>6, <1>8 DEF x, n

LEMMA FreeBlockIs ==
  ASSUME NEW st, Agrees(st), NEW x \in Blocks
  PROVE  LET d == st.disk
         IN /\ Agrees(FreeBlock(st, x))
            /\ FreeBlock(st, x).disk = MarkBlocks(d, d.bmap \ {x}, d.free_blocks + 1)
<1> DEFINE S == st.ram.bmap \ {x}
           n == st.disk.free_blocks + 1
           first == PutBmap([st EXCEPT !.ram.bmap = S])
<1>1. st.ram = CachedPart(st.disk) /\ st.disk \in DiskType
  BY DEF Agrees, CallType
<1>2. st.ram.bmap = st.disk.bmap /\ st.disk.bmap \in SUBSET Blocks /\ n \in Int /\ x # 0
  BY <1>1, Sizes_Nat DEF CachedPart, DiskType
<1>6. FreeBlock(st, x) = PutSuper([first EXCEPT !.ram.free_blocks = first.ram.free_blocks + 1])
  BY <1>2 DEF FreeBlock
<1>7. S \in SUBSET Blocks
  BY <1>2
<1>8. /\ first.ram.free_blocks + 1 = n
      /\ Agrees(PutSuper([first EXCEPT !.ram.free_blocks = n]))
      /\ PutSuper([first EXCEPT !.ram.free_blocks = n]).disk = MarkBlocks(st.disk, S, n)
  BY <1>2, <1>7, BmapThenSuper
<1> HIDE DEF first, n
<1> QED
  BY <1>2, <1>6, <1>8 DEF n
-----------------------------------------------------------------------------
LEMMA PtrIs ==
  ASSUME NEW d \in DiskType, NEW i \in Inodes, NEW b \in Places
  PROVE  Ptr(d, i, b) \in {0} \cup Blocks
<1>1. d.inode[i] \in InodeType
  BY DEF DiskType
<1> QED
  BY <1>1 DEF InodeType, Ptr, Places

LEMMA EntryIs ==
  ASSUME NEW d \in DiskType, NEW x \in Blocks, NEW k \in Slots
  PROVE  d.blk[x][k] \in Slot
<1>1. d.blk[x] \in [1 .. PerBlk -> Slot]
  BY DEF DiskType
<1> QED
  BY <1>1 DEF Slots

(* What each change of the disk keeps.  Marks that are added,              *)
LEMMA MarksKeep ==
  ASSUME NEW d, NEW R, Sound(d, R), NEW e \in DiskType,
         e.inode = d.inode, e.blk = d.blk, R \subseteq e.imap, d.bmap \subseteq e.bmap
  PROVE  Sound(e, R)
<1>1. Owned(e, R)
  BY DEF Sound, Owned, Ptr
<1>2. Linked(e, R)
  <2>1. Dirs(e, R) = Dirs(d, R)
    BY DEF Dirs
  <2>2. \A i, b : Ptr(e, i, b) = Ptr(d, i, b)
    BY DEF Ptr
  <2>3. \A i, b, k : EntryAt(e, i, b, k) = EntryAt(d, i, b, k) /\ (IsEntry(e, i, b, k) <=> IsEntry(d, i, b, k))
    BY <2>2 DEF EntryAt, IsEntry
  <2> QED
    BY <2>1, <2>2, <2>3 DEF Sound, Linked
<1>3. Texted(e)
  BY DEF Sound, Texted
<1> QED
  BY <1>1, <1>2, <1>3 DEF Sound

(* an inode or a block written that is none of theirs,                     *)
LEMMA InodeElsewhere ==
  ASSUME NEW d, NEW R, Sound(d, R), NEW i \in Inodes \ R, NEW n \in InodeType, NEW e \in DiskType,
         e.inode = [d.inode EXCEPT ![i] = n], e.blk = d.blk, R \subseteq e.imap, e.bmap = d.bmap
  PROVE  Sound(e, R)
<1>1. d \in DiskType /\ R \subseteq Inodes /\ \A j \in R : e.inode[j] = d.inode[j]
  BY DEF Sound, DiskType
<1>2. \A j \in R : j \in Inodes
  BY <1>1
<1>3. Dirs(e, R) = Dirs(d, R) /\ Dirs(d, R) \subseteq R
  BY <1>1 DEF Dirs
<1>4. \A j \in R, b \in Places : Ptr(e, j, b) = Ptr(d, j, b)
  BY <1>1 DEF Ptr
<1>5. \A j \in R, b \in Places, k \in Slots :
        EntryAt(e, j, b, k) = EntryAt(d, j, b, k) /\ (IsEntry(e, j, b, k) <=> IsEntry(d, j, b, k))
  BY <1>4 DEF EntryAt, IsEntry
<1>6. Owned(e, R)
  BY <1>4 DEF Sound, Owned
<1>7. Linked(e, R)
  BY <1>3, <1>4, <1>5 DEF Sound, Linked
<1> QED
  BY <1>1, <1>6, <1>7 DEF Sound, Texted

LEMMA BlockElsewhere ==
  ASSUME NEW d, NEW R, Sound(d, R), NEW x \in Blocks,
         \A i \in R, b \in Places : Ptr(d, i, b) # x,
         NEW c \in [1 .. PerBlk -> Slot], \A k \in Slots : c[k].inode = TextInode => c[k].name \in Texts,
         NEW e \in DiskType,
         e.inode = d.inode, e.blk = [d.blk EXCEPT ![x] = c], R \subseteq e.imap, e.bmap = d.bmap
  PROVE  Sound(e, R)
<1>1. d \in DiskType /\ R \subseteq Inodes /\ Places = 1 .. NDirect
  BY DEF Sound, DiskType, Places
<1>2. \A y \in Blocks : e.blk[y] = IF y = x THEN c ELSE d.blk[y]
  BY <1>1 DEF DiskType
<1>3. \A j \in R, b \in Places : Ptr(e, j, b) = Ptr(d, j, b) /\ (Ptr(d, j, b) # 0 => Ptr(d, j, b) \in Blocks)
  BY <1>1, PtrIs DEF Ptr
<1>4. Dirs(e, R) = Dirs(d, R) /\ Dirs(d, R) \subseteq R
  BY DEF Dirs
<1>5. \A j \in R, b \in Places, k \in Slots :
        /\ Ptr(d, j, b) # 0 => EntryAt(e, j, b, k) = EntryAt(d, j, b, k)
        /\ IsEntry(e, j, b, k) <=> IsEntry(d, j, b, k)
  BY <1>2, <1>3 DEF EntryAt, IsEntry
<1>6. Owned(e, R)
  BY <1>3 DEF Sound, Owned
<1>7. Linked(e, R)
  <2>1. ASSUME NEW i \in Dirs(e, R), NEW b \in Places, NEW k \in Slots, IsEntry(e, i, b, k)
        PROVE  EntryAt(e, i, b, k) \in R \ {i}
    BY <1>4, <1>5, <2>1 DEF Sound, Linked, IsEntry
  <2>2. ASSUME NEW i \in Dirs(e, R), NEW j \in Dirs(e, R), NEW b \in Places, NEW g \in Places,
               NEW k \in Slots, NEW l \in Slots,
               IsEntry(e, i, b, k), EntryAt(e, j, g, l) = EntryAt(e, i, b, k), Ptr(e, j, g) # 0
        PROVE  i = j /\ b = g /\ k = l
    <3>1. IsEntry(d, i, b, k) /\ Ptr(d, j, g) # 0 /\ Ptr(d, i, b) # 0
      BY <1>3, <1>4, <1>5, <2>2 DEF IsEntry
    <3>2. EntryAt(d, j, g, l) = EntryAt(d, i, b, k)
      BY <1>4, <1>5, <2>2, <3>1
    <3> QED
      BY <1>4, <3>1, <3>2 DEF Sound, Linked
  <2> QED
    BY <2>1, <2>2 DEF Linked
<1>8. Texted(e)
  BY <1>2 DEF Sound, Texted
<1> QED
  BY <1>6, <1>7, <1>8 DEF Sound

(* an inode without blocks that joins them,                                *)
LEMMA JoinKeeps ==
  ASSUME NEW d, NEW R, Sound(d, R), NEW i \in d.imap \ R,
         d.inode[i].blocks = NoBlocks, d.inode[i].type # "livre"
  PROVE  Sound(d, R \cup {i})
<1> DEFINE Q == R \cup {i}
<1>1. \A b \in Places : Ptr(d, i, b) = 0
  BY DEF Ptr, NoBlocks, Places
<1>2. Owned(d, Q)
  BY <1>1 DEF Sound, Owned
<1>3. \A j \in Dirs(d, Q), b \in Places : Ptr(d, j, b) # 0 => j \in Dirs(d, R)
  BY <1>1 DEF Dirs
<1>4. Linked(d, Q)
  <2>1. ASSUME NEW j \in Dirs(d, Q), NEW b \in Places, NEW k \in Slots, IsEntry(d, j, b, k)
        PROVE  EntryAt(d, j, b, k) \in Q \ {j}
    <3>1. j \in Dirs(d, R)
      BY <1>3, <2>1 DEF IsEntry
    <3> QED
      BY <2>1, <3>1 DEF Sound, Linked
  <2>2. ASSUME NEW j \in Dirs(d, Q), NEW m \in Dirs(d, Q), NEW b \in Places, NEW g \in Places,
               NEW k \in Slots, NEW l \in Slots,
               IsEntry(d, j, b, k), EntryAt(d, m, g, l) = EntryAt(d, j, b, k), Ptr(d, m, g) # 0
        PROVE  j = m /\ b = g /\ k = l
    <3>1. j \in Dirs(d, R) /\ m \in Dirs(d, R)
      BY <1>3, <2>2 DEF IsEntry
    <3> QED
      BY <2>2, <3>1 DEF Sound, Linked
  <2> QED
    BY <2>1, <2>2 DEF Linked
<1> QED
  BY <1>2, <1>4 DEF Sound

(* the blocks of one of them given up,                                     *)
BlocksOf(d, i) == {Ptr(d, i, b) : b \in Places} \ {0}

LEMMA EmptyKeeps ==
  ASSUME NEW d, NEW R, Sound(d, R), NEW i \in R, NEW n \in InodeType,
         n.type = d.inode[i].type, n.blocks = NoBlocks, NEW e \in DiskType,
         e.inode = [d.inode EXCEPT ![i] = n], e.blk = d.blk, e.imap = d.imap,
         e.bmap = d.bmap \ BlocksOf(d, i)
  PROVE  Sound(e, R) /\ (Held(d, R) => Held(e, R))
<1>1. d \in DiskType /\ R \subseteq Inodes /\ R \subseteq d.imap
  BY DEF Sound, DiskType
<1>2. \A j \in R : e.inode[j] = IF j = i THEN n ELSE d.inode[j]
  BY <1>1 DEF DiskType
<1>3. \A b \in Places : Ptr(e, i, b) = 0
  BY <1>2 DEF Ptr, NoBlocks, Places
<1>4. \A j \in R \ {i}, b \in Places : Ptr(e, j, b) = Ptr(d, j, b)
  BY <1>2 DEF Ptr
<1>5. Dirs(e, R) = Dirs(d, R) /\ Dirs(d, R) \subseteq R
  BY <1>2 DEF Dirs
<1>6. \A j \in R, b \in Places : Ptr(e, j, b) # 0 => j # i /\ Ptr(e, j, b) = Ptr(d, j, b)
  BY <1>3, <1>4
<1>7. \A j \in R, b \in Places, k \in Slots :
        Ptr(e, j, b) # 0 =>
          EntryAt(e, j, b, k) = EntryAt(d, j, b, k) /\ (IsEntry(e, j, b, k) <=> IsEntry(d, j, b, k))
  BY <1>6 DEF EntryAt, IsEntry
<1>8. Owned(e, R)
  <2>1. ASSUME NEW j \in R, NEW b \in Places, Ptr(e, j, b) # 0 PROVE Ptr(e, j, b) \in e.bmap
    <3>1. j # i /\ Ptr(d, j, b) # 0 /\ Ptr(e, j, b) = Ptr(d, j, b)
      BY <1>6, <2>1
    <3>2. Ptr(d, j, b) \in d.bmap /\ \A c \in Places : Ptr(d, i, c) # Ptr(d, j, b)
      BY <3>1 DEF Sound, Owned
    <3> QED
      BY <3>1, <3>2 DEF BlocksOf
  <2>2. ASSUME NEW j \in R, NEW m \in R, NEW b \in Places, NEW c \in Places,
               Ptr(e, j, b) # 0, Ptr(e, j, b) = Ptr(e, m, c)
        PROVE  j = m /\ b = c
    <3>1. Ptr(d, j, b) # 0 /\ Ptr(d, j, b) = Ptr(d, m, c)
      BY <1>6, <2>2
    <3> QED
      BY <3>1 DEF Sound, Owned
  <2> QED
    BY <2>1, <2>2 DEF Owned
<1>9. Linked(e, R)
  <2>1. ASSUME NEW j \in Dirs(e, R), NEW b \in Places, NEW k \in Slots, IsEntry(e, j, b, k)
        PROVE  EntryAt(e, j, b, k) \in R \ {j}
    <3>1. Ptr(e, j, b) # 0
      BY <2>1 DEF IsEntry
    <3> QED
      BY <1>5, <1>7, <2>1, <3>1 DEF Sound, Linked
  <2>2. ASSUME NEW j \in Dirs(e, R), NEW m \in Dirs(e, R), NEW b \in Places, NEW g \in Places,
               NEW k \in Slots, NEW l \in Slots,
               IsEntry(e, j, b, k), EntryAt(e, m, g, l) = EntryAt(e, j, b, k), Ptr(e, m, g) # 0
        PROVE  j = m /\ b = g /\ k = l
    <3>1. Ptr(e, j, b) # 0
      BY <2>2 DEF IsEntry
    <3>2. IsEntry(d, j, b, k) /\ EntryAt(d, m, g, l) = EntryAt(d, j, b, k) /\ Ptr(d, m, g) # 0
      BY <1>5, <1>6, <1>7, <2>2, <3>1
    <3> QED
      BY <1>5, <3>2 DEF Sound, Linked
  <2> QED
    BY <2>1, <2>2 DEF Linked
<1>10. Sound(e, R)
  <2>1. e.inode[0].type = "diretorio" /\ \A j \in R : e.inode[j].type # "livre"
    BY <1>2 DEF Sound
  <2>2. Texted(e)
    BY DEF Sound, Texted
  <2> QED
    BY <1>1, <1>8, <1>9, <2>1, <2>2 DEF Sound
<1>11. ASSUME Held(d, R) PROVE Held(e, R)
  <2> SUFFICES ASSUME NEW x \in e.bmap PROVE \E j \in R, b \in Places : Ptr(e, j, b) = x
    BY DEF Held
  <2>1. PICK j \in R : \E b \in Places : Ptr(d, j, b) = x
    BY <1>11 DEF Held
  <2>2. PICK b \in Places : Ptr(d, j, b) = x
    BY <2>1
  <2>3. x # 0
    BY Sizes_Nat DEF DiskType
  <2>4. j # i
    BY <2>2, <2>3 DEF BlocksOf
  <2> QED
    BY <1>4, <2>2, <2>4
<1> QED
  BY <1>10, <1>11

(* blocks with text given to one of them that has none,                    *)
TextGiven(d, e, R, i, n) ==
  /\ Sound(d, R) /\ i \in R /\ d.inode[i].blocks = NoBlocks
  /\ n \in InodeType /\ n.type = d.inode[i].type
  /\ \A b \in Places : n.blocks[b] # 0 =>
       /\ n.blocks[b] \in d.bmap
       /\ \A j \in R, c \in Places : Ptr(d, j, c) # n.blocks[b]
       /\ \A k \in Slots : d.blk[n.blocks[b]][k].inode \in {0, TextInode}
  /\ \A b, c \in Places : n.blocks[b] # 0 /\ n.blocks[b] = n.blocks[c] => b = c
  /\ e \in DiskType /\ e.inode = [d.inode EXCEPT ![i] = n]
  /\ e.blk = d.blk /\ e.imap = d.imap /\ e.bmap = d.bmap

LEMMA FillKeeps ==
  ASSUME NEW d, NEW e, NEW R, NEW i, NEW n, TextGiven(d, e, R, i, n)
  PROVE  Sound(e, R)
<1> USE DEF TextGiven
<1>1. d \in DiskType /\ R \subseteq Inodes /\ R \subseteq d.imap
  BY DEF Sound, DiskType
<1>2. \A j \in R : e.inode[j] = IF j = i THEN n ELSE d.inode[j]
  BY <1>1 DEF DiskType
<1>3. \A b \in Places : Ptr(e, i, b) = n.blocks[b]
  BY <1>2 DEF Ptr
<1>4. \A j \in R \ {i}, b \in Places : Ptr(e, j, b) = Ptr(d, j, b)
  BY <1>2 DEF Ptr
<1>5. Dirs(e, R) = Dirs(d, R) /\ Dirs(d, R) \subseteq R
  BY <1>2 DEF Dirs
<1>6. \A b \in Places, k \in Slots : ~ IsEntry(e, i, b, k)
  BY <1>3, Sizes_Nat DEF IsEntry, EntryAt
<1>7. \A j \in R \ {i}, b \in Places, k \in Slots :
        EntryAt(e, j, b, k) = EntryAt(d, j, b, k) /\ (IsEntry(e, j, b, k) <=> IsEntry(d, j, b, k))
  BY <1>4 DEF EntryAt, IsEntry
<1>8. Owned(e, R)
  <2>1. \A j \in R, b \in Places : Ptr(e, j, b) # 0 => Ptr(e, j, b) \in e.bmap
    BY <1>3, <1>4 DEF Sound, Owned
  <2>2. ASSUME NEW j \in R, NEW m \in R, NEW b \in Places, NEW c \in Places,
               Ptr(e, j, b) # 0, Ptr(e, j, b) = Ptr(e, m, c)
        PROVE  j = m /\ b = c
    <3>1. CASE j = i /\ m = i
      BY <1>3, <2>2, <3>1
    <3>2. CASE j # i /\ m # i
      BY <1>4, <2>2, <3>2 DEF Sound, Owned
    <3>3. CASE j = i /\ m # i
      BY <1>3, <1>4, <2>2, <3>3
    <3>4. CASE j # i /\ m = i
      BY <1>3, <1>4, <2>2, <3>4
    <3> QED
      BY <3>1, <3>2, <3>3, <3>4
  <2> QED
    BY <2>1, <2>2 DEF Owned
<1>9. Linked(e, R)
  <2>1. ASSUME NEW j \in Dirs(e, R), NEW b \in Places, NEW k \in Slots, IsEntry(e, j, b, k)
        PROVE  EntryAt(e, j, b, k) \in R \ {j}
    <3>1. j # i /\ j \in R
      BY <1>5, <1>6, <2>1
    <3> QED
      BY <1>5, <1>7, <2>1, <3>1 DEF Sound, Linked
  <2>2. ASSUME NEW j \in Dirs(e, R), NEW m \in Dirs(e, R), NEW b \in Places, NEW g \in Places,
               NEW k \in Slots, NEW l \in Slots,
               IsEntry(e, j, b, k), EntryAt(e, m, g, l) = EntryAt(e, j, b, k), Ptr(e, m, g) # 0
        PROVE  j = m /\ b = g /\ k = l
    <3>1. IsEntry(e, m, g, l)
      BY <2>2 DEF IsEntry
    <3>2. j # i /\ m # i /\ j \in R /\ m \in R
      BY <1>5, <1>6, <2>2, <3>1
    <3> QED
      BY <1>4, <1>5, <1>7, <2>2, <3>2 DEF Sound, Linked
  <2> QED
    BY <2>1, <2>2 DEF Linked
<1> QED
  <2>1. e.inode[0].type = "diretorio" /\ \A j \in R : e.inode[j].type # "livre"
    BY <1>2 DEF Sound
  <2>2. Texted(e)
    BY DEF Sound, Texted
  <2> QED
    BY <1>1, <1>8, <1>9, <2>1, <2>2 DEF Sound

LEMMA OneEntry ==
  ASSUME NEW d, NEW R, Sound(d, R), NEW i \in Dirs(d, R), NEW j \in Dirs(d, R),
         NEW b \in Places, NEW c \in Places, NEW k \in Slots, NEW l \in Slots,
         IsEntry(d, i, b, k), EntryAt(d, j, c, l) = EntryAt(d, i, b, k), Ptr(d, j, c) # 0
  PROVE  i = j /\ b = c /\ k = l
BY DEF Sound, Linked

(* one of them removed, with the one entry that leads to it,               *)
Dropped(d, e, R, p, g, l, i, n) ==
  /\ Sound(d, R) /\ p \in Dirs(d, R) /\ g \in Places /\ l \in Slots
  /\ IsEntry(d, p, g, l) /\ i = EntryAt(d, p, g, l)
  /\ n \in InodeType /\ e \in DiskType
  /\ e.inode = [d.inode EXCEPT ![i] = n]
  /\ e.blk = [d.blk EXCEPT ![Ptr(d, p, g)][l].inode = 0]
  /\ e.imap = d.imap \ {i} /\ e.bmap = d.bmap \ BlocksOf(d, i)

LEMMA DropKeeps ==
  ASSUME NEW d, NEW e, NEW R, NEW p, NEW g, NEW l, NEW i, NEW n, Dropped(d, e, R, p, g, l, i, n)
  PROVE  i \in R \ {0} /\ Sound(e, R \ {i}) /\ (Held(d, R) => Held(e, R \ {i}))
<1> USE DEF Dropped
<1> DEFINE Q == R \ {i}
           x == Ptr(d, p, g)
<1>1. d \in DiskType /\ R \subseteq Inodes /\ R \subseteq d.imap /\ 0 \in R /\ p \in R
  BY DEF Sound, DiskType, Dirs
<1>2. i \in R \ {0} /\ p # i /\ x # 0 /\ x \in Blocks
  <2>1. i \in R \ {p} /\ i \in Inodes \ {0} /\ x # 0
    BY DEF Sound, Linked, IsEntry
  <2> QED
    BY <1>1, <2>1, PtrIs
<1> HIDE DEF x
<1>3. \A j \in Q : e.inode[j] = d.inode[j]
  BY <1>1 DEF DiskType
<1>4. \A j \in Q, b \in Places : Ptr(e, j, b) = Ptr(d, j, b)
  BY <1>3 DEF Ptr
<1>5. \A j \in Dirs(e, Q) : j \in Dirs(d, R) /\ j # i /\ j \in Q
  BY <1>3 DEF Dirs
<1>6. \A y \in Blocks, k \in Slots :
        /\ e.blk[y][k].name = d.blk[y][k].name
        /\ e.blk[y][k].inode = IF y = x /\ k = l THEN 0 ELSE d.blk[y][k].inode
  <2>1. d.blk \in [Blocks -> [1 .. PerBlk -> Slot]] /\ Slots = 1 .. PerBlk
    BY <1>1 DEF DiskType, Slots
  <2> SUFFICES ASSUME NEW y \in Blocks, NEW k \in Slots
               PROVE  /\ e.blk[y][k].name = d.blk[y][k].name
                      /\ e.blk[y][k].inode = IF y = x /\ k = l THEN 0 ELSE d.blk[y][k].inode
    OBVIOUS
  <2>2. d.blk[y][k] \in Slot
    BY <1>1, EntryIs
  <2>3. e.blk[y] = IF y = x THEN [d.blk[x] EXCEPT ![l].inode = 0] ELSE d.blk[y]
    BY <2>1, <1>2 DEF x
  <2>4. CASE y = x
    <3>1. d.blk[x] \in [Slots -> Slot]
      BY <1>2, <2>1
    <3>2. e.blk[y][k] = IF k = l THEN [d.blk[x][l] EXCEPT !.inode = 0] ELSE d.blk[y][k]
      BY <2>3, <2>4, <3>1
    <3> QED
      BY <2>2, <2>4, <3>2 DEF Slot
  <2>5. CASE y # x
    BY <2>3, <2>5
  <2> QED
    BY <2>4, <2>5
<1>7. \A j \in Q, b \in Places : Ptr(d, j, b) # 0 => Ptr(d, j, b) \in Blocks
  BY <1>1, PtrIs
<1>8. \A j \in Q, b \in Places, k \in Slots :
        Ptr(d, j, b) # 0 =>
          EntryAt(e, j, b, k) = IF Ptr(d, j, b) = x /\ k = l THEN 0 ELSE EntryAt(d, j, b, k)
  BY <1>4, <1>6, <1>7 DEF EntryAt
<1>9. \A j \in Q, b \in Places, k \in Slots :
        IsEntry(e, j, b, k) => IsEntry(d, j, b, k) /\ EntryAt(e, j, b, k) = EntryAt(d, j, b, k)
  BY <1>4, <1>8 DEF IsEntry
<1>10. Owned(e, Q)
  <2>1. ASSUME NEW j \in Q, NEW b \in Places, Ptr(e, j, b) # 0 PROVE Ptr(e, j, b) \in e.bmap
    <3>1. Ptr(d, j, b) # 0 /\ Ptr(e, j, b) = Ptr(d, j, b)
      BY <1>4, <2>1
    <3>2. Ptr(d, j, b) \in d.bmap /\ \A c \in Places : Ptr(d, i, c) # Ptr(d, j, b)
      BY <1>2, <3>1 DEF Sound, Owned
    <3> QED
      BY <3>1, <3>2 DEF BlocksOf
  <2>2. \A j, m \in Q, b, c \in Places :
          Ptr(e, j, b) # 0 /\ Ptr(e, j, b) = Ptr(e, m, c) => j = m /\ b = c
    BY <1>4 DEF Sound, Owned
  <2> QED
    BY <2>1, <2>2 DEF Owned
<1>11. Linked(e, Q)
  <2>1. ASSUME NEW j \in Dirs(e, Q), NEW b \in Places, NEW k \in Slots, IsEntry(e, j, b, k)
        PROVE  EntryAt(e, j, b, k) \in Q \ {j}
    <3>1. IsEntry(d, j, b, k) /\ EntryAt(e, j, b, k) = EntryAt(d, j, b, k) /\ Ptr(d, j, b) # 0
      BY <1>5, <1>9, <2>1 DEF IsEntry
    <3>2. EntryAt(d, j, b, k) \in R \ {j}
      BY <1>5, <3>1 DEF Sound, Linked
    <3>3. EntryAt(d, j, b, k) # i
      <4> SUFFICES ASSUME EntryAt(d, j, b, k) = i PROVE FALSE
        OBVIOUS
      <4>1. p = j /\ g = b /\ l = k
        <5>1. /\ IsEntry(d, p, g, l) /\ EntryAt(d, j, b, k) = EntryAt(d, p, g, l)
              /\ Ptr(d, j, b) # 0 /\ j \in Dirs(d, R)
          BY <1>5, <3>1
        <5> QED
          BY <5>1, OneEntry
      <4>2. EntryAt(e, j, b, k) = 0
        BY <1>5, <1>8, <3>1, <4>1 DEF x
      <4> QED
        BY <2>1, <4>2 DEF IsEntry
    <3> QED
      BY <3>1, <3>2, <3>3
  <2>2. ASSUME NEW j \in Dirs(e, Q), NEW m \in Dirs(e, Q), NEW b \in Places, NEW c \in Places,
               NEW k \in Slots, NEW h \in Slots,
               IsEntry(e, j, b, k), EntryAt(e, m, c, h) = EntryAt(e, j, b, k), Ptr(e, m, c) # 0
        PROVE  j = m /\ b = c /\ k = h
    <3>1. IsEntry(e, m, c, h)
      BY <2>2 DEF IsEntry
    <3>2. /\ IsEntry(d, j, b, k) /\ EntryAt(e, j, b, k) = EntryAt(d, j, b, k)
          /\ EntryAt(e, m, c, h) = EntryAt(d, m, c, h) /\ Ptr(d, m, c) # 0
      <4>1. j \in Q /\ m \in Q
        BY <1>5
      <4>2. IsEntry(d, j, b, k) /\ EntryAt(e, j, b, k) = EntryAt(d, j, b, k)
        BY <1>9, <2>2, <4>1
      <4>3. EntryAt(e, m, c, h) = EntryAt(d, m, c, h) /\ IsEntry(d, m, c, h)
        BY <1>9, <3>1, <4>1
      <4> QED
        BY <4>2, <4>3 DEF IsEntry
    <3>3. j \in Dirs(d, R) /\ m \in Dirs(d, R) /\ EntryAt(d, m, c, h) = EntryAt(d, j, b, k)
      BY <1>5, <2>2, <3>2
    <3> QED
      BY <3>2, <3>3, OneEntry
  <2> HIDE DEF Q
  <2> QED
    BY <2>1, <2>2 DEF Linked
<1>12. Texted(e)
  BY <1>6, Sizes_Nat DEF Sound, Texted
<1>13. Sound(e, Q)
  <2>1. e.inode[0].type = "diretorio" /\ \A j \in Q : e.inode[j].type # "livre"
    BY <1>1, <1>2, <1>3 DEF Sound
  <2>2. 0 \in Q /\ Q \subseteq e.imap
    BY <1>1, <1>2
  <2> QED
    BY <1>10, <1>11, <1>12, <2>1, <2>2 DEF Sound
<1>14. ASSUME Held(d, R) PROVE Held(e, Q)
  <2> SUFFICES ASSUME NEW y \in e.bmap PROVE \E j \in Q, b \in Places : Ptr(e, j, b) = y
    BY DEF Held
  <2>1. PICK j \in R : \E b \in Places : Ptr(d, j, b) = y
    BY <1>14 DEF Held
  <2>2. PICK b \in Places : Ptr(d, j, b) = y
    BY <2>1
  <2>3. y # 0
    BY Sizes_Nat DEF DiskType
  <2>4. j # i
    BY <2>2, <2>3 DEF BlocksOf
  <2> QED
    BY <1>4, <2>2, <2>4
<1> QED
  BY <1>2, <1>13, <1>14

(* and an entry made, in a block the directory has or in one it is given.  *)
EntryMade(d, e, R, p, ch, g, l, x, name, old, n) ==
  /\ Sound(d, R) /\ p \in R /\ ch \in R \ {0, p} /\ ch \in Inodes
  /\ \A i \in Dirs(d, R), b \in Places, k \in Slots : IsEntry(d, i, b, k) => EntryAt(d, i, b, k) # ch
  /\ g \in Places /\ l \in Slots /\ x \in Blocks /\ old \in [1 .. PerBlk -> Slot]
  /\ \/ Ptr(d, p, g) = x /\ old = d.blk[x]
     \/ Ptr(d, p, g) = 0 /\ x \notin d.bmap /\ old = EmptyBlock
  /\ n \in InodeType /\ n.type = d.inode[p].type /\ n.blocks = [d.inode[p].blocks EXCEPT ![g] = x]
  /\ e \in DiskType /\ e.inode = [d.inode EXCEPT ![p] = n]
  /\ e.blk = [d.blk EXCEPT ![x] = [old EXCEPT ![l] = [inode |-> ch, name |-> name]]]
  /\ e.imap = d.imap /\ e.bmap = d.bmap \cup {x}

LEMMA EntryKeeps ==
  ASSUME NEW d, NEW e, NEW R, NEW p, NEW ch, NEW g, NEW l, NEW x, NEW name, NEW old, NEW n,
         EntryMade(d, e, R, p, ch, g, l, x, name, old, n)
  PROVE  Sound(e, R) /\ (Held(d, R) => Held(e, R))
<1> USE DEF EntryMade
<1>1. /\ d \in DiskType /\ R \subseteq Inodes /\ R \subseteq d.imap /\ x # 0
      /\ d.inode[p] \in InodeType /\ Places = 1 .. NDirect /\ Slots = 1 .. PerBlk
  BY Sizes_Nat DEF Sound, DiskType, Places, Slots
<1>2. \A j \in R : e.inode[j] = IF j = p THEN n ELSE d.inode[j]
  BY <1>1 DEF DiskType
<1>3. \A j \in R, b \in Places : Ptr(e, j, b) = IF j = p /\ b = g THEN x ELSE Ptr(d, j, b)
  <2>1. \A b \in Places : n.blocks[b] = IF b = g THEN x ELSE d.inode[p].blocks[b]
    BY <1>1 DEF InodeType
  <2> QED
    BY <1>2, <2>1 DEF Ptr
<1>4. \A j \in R, b \in Places : Ptr(d, j, b) \in {0} \cup Blocks
  BY <1>1, PtrIs
<1>5. \A j \in R, b \in Places : Ptr(d, j, b) = x => j = p /\ b = g /\ old = d.blk[x]
  <2> SUFFICES ASSUME NEW j \in R, NEW b \in Places, Ptr(d, j, b) = x
               PROVE  j = p /\ b = g /\ old = d.blk[x]
    OBVIOUS
  <2>1. x \in d.bmap
    BY <1>1 DEF Sound, Owned
  <2>2. Ptr(d, p, g) = x /\ old = d.blk[x]
    BY <2>1
  <2> QED
    BY <1>1, <2>2 DEF Sound, Owned
<1>6. \A j \in R, b \in Places : Ptr(e, j, b) = x <=> j = p /\ b = g
  BY <1>3, <1>5
<1>7. /\ \A k \in Slots : old[k].inode \in Inodes \ {0} => old = d.blk[x] /\ Ptr(d, p, g) = x
      /\ \A k \in Slots : old[k].inode = TextInode => old = d.blk[x]
  <2>1. \A k \in Slots : EmptyBlock[k].inode = 0
    BY <1>1 DEF EmptyBlock, FreeSlot
  <2> QED
    BY <2>1, Sizes_Nat
<1>8. /\ \A y \in Blocks \ {x} : e.blk[y] = d.blk[y]
      /\ \A k \in Slots : e.blk[x][k] = IF k = l THEN [inode |-> ch, name |-> name] ELSE old[k]
  BY <1>1 DEF DiskType
<1>9. /\ \A j \in R, b \in Places, k \in Slots :
           ~ (j = p /\ b = g) /\ Ptr(e, j, b) # 0 =>
              Ptr(d, j, b) # 0 /\ EntryAt(e, j, b, k) = EntryAt(d, j, b, k)
      /\ \A k \in Slots : EntryAt(e, p, g, k) = IF k = l THEN ch ELSE old[k].inode
  <2>1. \A j \in R, b \in Places : ~ (j = p /\ b = g) /\ Ptr(e, j, b) # 0 =>
          Ptr(d, j, b) = Ptr(e, j, b) /\ Ptr(e, j, b) \in Blocks \ {x}
    BY <1>3, <1>4, <1>6
  <2>2. Ptr(e, p, g) = x
    BY <1>3
  <2> QED
    BY <1>8, <2>1, <2>2 DEF EntryAt
(* An entry is the new one or one that was there.                          *)
<1>10. \A j \in R, b \in Places, k \in Slots :
         IsEntry(e, j, b, k) =>
           \/ j = p /\ b = g /\ k = l /\ EntryAt(e, j, b, k) = ch
           \/ IsEntry(d, j, b, k) /\ EntryAt(e, j, b, k) = EntryAt(d, j, b, k)
  <2> SUFFICES ASSUME NEW j \in R, NEW b \in Places, NEW k \in Slots, IsEntry(e, j, b, k)
               PROVE  \/ j = p /\ b = g /\ k = l /\ EntryAt(e, j, b, k) = ch
                      \/ IsEntry(d, j, b, k) /\ EntryAt(e, j, b, k) = EntryAt(d, j, b, k)
    OBVIOUS
  <2>1. CASE ~ (j = p /\ b = g)
    BY <1>9, <2>1 DEF IsEntry
  <2>2. CASE j = p /\ b = g /\ k = l
    BY <1>9, <2>2
  <2>3. CASE j = p /\ b = g /\ k # l
    <3>1. EntryAt(e, j, b, k) = old[k].inode /\ old[k].inode \in Inodes \ {0}
      BY <1>9, <2>3 DEF IsEntry
    <3>2. old = d.blk[x] /\ Ptr(d, p, g) = x
      BY <1>7, <3>1
    <3> QED
      BY <1>1, <2>3, <3>1, <3>2 DEF IsEntry, EntryAt
  <2> QED
    BY <2>1, <2>2, <2>3
<1>11. Dirs(e, R) = Dirs(d, R) /\ Dirs(d, R) \subseteq R
  BY <1>2 DEF Dirs
<1>12. Owned(e, R)
  <2>1. \A j \in R, b \in Places : Ptr(e, j, b) # 0 => Ptr(e, j, b) \in e.bmap
    BY <1>3 DEF Sound, Owned
  <2>2. \A j, m \in R, b, c \in Places :
          Ptr(e, j, b) # 0 /\ Ptr(e, j, b) = Ptr(e, m, c) => j = m /\ b = c
    BY <1>3, <1>6 DEF Sound, Owned
  <2> QED
    BY <2>1, <2>2 DEF Owned
<1>13. Linked(e, R)
  <2>1. ASSUME NEW j \in Dirs(e, R), NEW b \in Places, NEW k \in Slots, IsEntry(e, j, b, k)
        PROVE  EntryAt(e, j, b, k) \in R \ {j}
    BY <1>10, <1>11, <2>1 DEF Sound, Linked
  <2>2. ASSUME NEW j \in Dirs(e, R), NEW m \in Dirs(e, R), NEW b \in Places, NEW c \in Places,
               NEW k \in Slots, NEW h \in Slots,
               IsEntry(e, j, b, k), EntryAt(e, m, c, h) = EntryAt(e, j, b, k), Ptr(e, m, c) # 0
        PROVE  j = m /\ b = c /\ k = h
    <3>1. IsEntry(e, m, c, h)
      BY <2>2 DEF IsEntry
    <3>2. CASE EntryAt(e, j, b, k) = ch
      <4>1. j = p /\ b = g /\ k = l
        BY <1>10, <1>11, <2>2, <3>2
      <4>2. m = p /\ c = g /\ h = l
        BY <1>10, <1>11, <2>2, <3>1, <3>2
      <4> QED
        BY <4>1, <4>2
    <3>3. CASE EntryAt(e, j, b, k) # ch
      <4>1. /\ IsEntry(d, j, b, k) /\ EntryAt(e, j, b, k) = EntryAt(d, j, b, k)
            /\ IsEntry(d, m, c, h) /\ EntryAt(e, m, c, h) = EntryAt(d, m, c, h)
        BY <1>10, <1>11, <2>2, <3>1, <3>3
      <4> QED
        <5>1. Ptr(d, m, c) # 0 /\ EntryAt(d, m, c, h) = EntryAt(d, j, b, k)
          BY <2>2, <4>1 DEF IsEntry
        <5> QED
          BY <1>11, <4>1, <5>1, OneEntry
    <3> QED
      BY <3>2, <3>3
  <2> QED
    BY <2>1, <2>2 DEF Linked
<1>14. Texted(e)
  <2> SUFFICES ASSUME NEW y \in Blocks, NEW k \in Slots, e.blk[y][k].inode = TextInode
               PROVE  e.blk[y][k].name \in Texts
    BY DEF Texted
  <2>1. CASE y # x
    BY <1>8, <2>1 DEF Sound, Texted
  <2>2. CASE y = x
    <3>1. k # l
      BY <1>8, <2>2, Sizes_Nat
    <3> QED
      BY <1>7, <1>8, <2>2, <3>1 DEF Sound, Texted
  <2> QED
    BY <2>1, <2>2
<1>15. Sound(e, R)
  <2>1. e.inode[0].type = "diretorio" /\ \A j \in R : e.inode[j].type # "livre"
    BY <1>2 DEF Sound
  <2> QED
    BY <1>1, <1>12, <1>13, <1>14, <2>1 DEF Sound
<1>16. ASSUME Held(d, R) PROVE Held(e, R)
  <2>1. ASSUME NEW y \in d.bmap PROVE \E j \in R, b \in Places : Ptr(e, j, b) = y
    <3>1. PICK j \in R : \E b \in Places : Ptr(d, j, b) = y
      BY <1>16 DEF Held
    <3>2. PICK b \in Places : Ptr(d, j, b) = y
      BY <3>1
    <3>3. y # 0
      BY Sizes_Nat, <1>1 DEF DiskType
    <3> QED
      BY <1>3, <3>2, <3>3
  <2>2. Ptr(e, p, g) = x
    BY <1>3
  <2> QED
    BY <2>1, <2>2 DEF Held
<1> QED
  BY <1>15, <1>16
-----------------------------------------------------------------------------
(* The counters.                                                           *)
LEMMA BlocksFinite ==
  ASSUME NEW S, S \subseteq Blocks
  PROVE  IsFiniteSet(S) /\ Cardinality(S) \in 0 .. NBlocks
<1>1. IsFiniteSet(Blocks) /\ Cardinality(Blocks) = NBlocks /\ NBlocks \in Nat
  BY Sizes_Nat, FS_Interval DEF Blocks
<1>2. IsFiniteSet(S) /\ Cardinality(S) <= NBlocks
  BY <1>1, FS_Subset
<1> QED
  BY <1>1, <1>2, FS_CardinalityType

LEMMA InodesFinite ==
  ASSUME NEW S, S \subseteq Inodes
  PROVE  IsFiniteSet(S) /\ Cardinality(S) \in 0 .. NInodes
<1>1. IsFiniteSet(Inodes) /\ Cardinality(Inodes) = NInodes /\ NInodes \in Nat
  <2>1. NInodes \in Nat \ {0} /\ NInodes - 1 \in Int /\ 0 \in Int
    BY Sizes_Nat
  <2>2. IsFiniteSet(0 .. NInodes - 1) /\ Cardinality(0 .. NInodes - 1) = NInodes
    BY <2>1, FS_Interval
  <2> QED
    BY <2>1, <2>2 DEF Inodes
<1>2. IsFiniteSet(S) /\ Cardinality(S) <= NInodes
  BY <1>1, FS_Subset
<1> QED
  BY <1>1, <1>2, FS_CardinalityType

LEMMA CountTake ==
  ASSUME NEW d \in DiskType, Counted(d), NEW x \in Blocks \ d.bmap, NEW e,
         e.bmap = d.bmap \cup {x}, e.free_blocks = d.free_blocks - 1,
         e.imap = d.imap, e.free_inodes = d.free_inodes
  PROVE  Counted(e)
<1>1. IsFiniteSet(d.bmap) /\ Cardinality(d.bmap) \in Nat
  BY BlocksFinite DEF DiskType
<1>2. Cardinality(d.bmap \cup {x}) = Cardinality(d.bmap) + 1
  BY <1>1, FS_AddElement
<1>3. TotalBlocks \in Nat
  BY SpaceFSAssumption
<1> QED
  BY <1>1, <1>2, <1>3 DEF Counted

LEMMA CountFree ==
  ASSUME NEW d \in DiskType, Counted(d), NEW x \in d.bmap, NEW e,
         e.bmap = d.bmap \ {x}, e.free_blocks = d.free_blocks + 1,
         e.imap = d.imap, e.free_inodes = d.free_inodes
  PROVE  Counted(e)
<1>1. IsFiniteSet(d.bmap) /\ Cardinality(d.bmap) \in Nat
  BY BlocksFinite DEF DiskType
<1>2. Cardinality(d.bmap \ {x}) = Cardinality(d.bmap) - 1
  BY <1>1, FS_RemoveElement
<1>3. TotalBlocks \in Nat
  BY SpaceFSAssumption
<1> QED
  BY <1>1, <1>2, <1>3 DEF Counted

LEMMA CountTakeInode ==
  ASSUME NEW d \in DiskType, Counted(d), NEW i \in Inodes \ d.imap, NEW e,
         e.imap = d.imap \cup {i}, e.free_inodes = d.free_inodes - 1,
         e.bmap = d.bmap, e.free_blocks = d.free_blocks
  PROVE  Counted(e)
<1>1. IsFiniteSet(d.imap) /\ Cardinality(d.imap) \in Nat
  BY InodesFinite DEF DiskType
<1>2. Cardinality(d.imap \cup {i}) = Cardinality(d.imap) + 1
  BY <1>1, FS_AddElement
<1>3. NInodes \in Nat
  BY SpaceFSAssumption
<1> QED
  BY <1>1, <1>2, <1>3 DEF Counted

LEMMA CountFreeInode ==
  ASSUME NEW d \in DiskType, Counted(d), NEW i \in d.imap, NEW e,
         e.imap = d.imap \ {i}, e.free_inodes = d.free_inodes + 1,
         e.bmap = d.bmap, e.free_blocks = d.free_blocks
  PROVE  Counted(e)
<1>1. IsFiniteSet(d.imap) /\ Cardinality(d.imap) \in Nat
  BY InodesFinite DEF DiskType
<1>2. Cardinality(d.imap \ {i}) = Cardinality(d.imap) - 1
  BY <1>1, FS_RemoveElement
<1>3. NInodes \in Nat
  BY SpaceFSAssumption
<1> QED
  BY <1>1, <1>2, <1>3 DEF Counted

(* Counters in their range, as TypeOK has them.                            *)
LEMMA CountsFit ==
  ASSUME NEW d \in DiskType, Counted(d)
  PROVE  CachedPart(d) \in Cached
<1>1. Cardinality(d.bmap) \in 0 .. NBlocks /\ Cardinality(d.imap) \in 0 .. NInodes
  BY BlocksFinite, InodesFinite DEF DiskType
<1>2. d.free_blocks \in 0 .. TotalBlocks /\ d.free_inodes \in 0 .. NInodes
  BY <1>1, SpaceFSAssumption DEF Counted
<1> QED
  BY <1>2 DEF DiskType, Cached, CachedPart
-----------------------------------------------------------------------------
(* free_block() over all the pointers of an inode.                         *)
Freed(st, i, f) ==
  /\ f[0] = st
  /\ \A b \in Places : f[b] = FreeBlock(f[b - 1], Ptr(st.disk, i, b))

LEMMA FreeBlocksFollows ==
  ASSUME NEW st, Agrees(st), NEW i \in Inodes
  PROVE  \E f : Freed(st, i, f) /\ FreeBlocksOf(st, i) = f[NDirect]
<1> DEFINE n == NDirect
           D(f) == [b \in 0 .. NDirect |->
                      IF b = 0 THEN st ELSE FreeBlock(f[b - 1], st.disk.inode[i].blocks[b])]
           f == CHOOSE h : h = D(h)
           V == {s \in CallType : Agrees(s)}
           step == [b \in 1 .. n |-> [s \in V |-> FreeBlock(s, st.disk.inode[i].blocks[b])]]
<1>1. n \in Nat /\ st \in V /\ st.disk \in DiskType
  BY Sizes_Nat DEF Agrees, CallType
<1>2. \A b \in 1 .. n : st.disk.inode[i].blocks[b] \in {0} \cup Blocks
  BY <1>1, PtrIs DEF Ptr, Places
<1>3. step \in [1 .. n -> [V -> V]]
  <2>1. ASSUME NEW b \in 1 .. n, NEW s \in V PROVE FreeBlock(s, st.disk.inode[i].blocks[b]) \in V
    <3> DEFINE x == st.disk.inode[i].blocks[b]
    <3>1. x \in {0} \cup Blocks
      BY <1>2
    <3>2. s \in CallType /\ Agrees(s)
      OBVIOUS
    <3> HIDE DEF x
    <3>3. CASE x = 0
      <4>1. FreeBlock(s, x) = s
        BY <3>3 DEF FreeBlock
      <4> QED
        BY <4>1 DEF x
    <3>4. CASE x \in Blocks
      <4>1. Agrees(FreeBlock(s, x))
        BY <3>2, <3>4, FreeBlockIs
      <4>2. FreeBlock(s, x) \in CallType
        BY <4>1 DEF Agrees
      <4> QED
        BY <4>1, <4>2 DEF x
    <3> QED
      BY <3>1, <3>3, <3>4
  <2> QED
    BY <2>1
<1>4. PICK g \in [0 .. n -> V] : g[0] = st /\ \A b \in 1 .. n : g[b] = step[b][g[b - 1]]
  <2> HIDE DEF n, step, V
  <2>1. \E g \in [0 .. n -> V] : Recurs(g, n, st, step)
    BY <1>1, <1>3, Recursion
  <2> QED
    BY <2>1 DEF Recurs
<1>5. ASSUME NEW b \in 1 .. n PROVE g[b] = FreeBlock(g[b - 1], st.disk.inode[i].blocks[b])
  <2>1. b - 1 \in 0 .. n
    BY <1>1
  <2>2. g[b - 1] \in V
    BY <1>4, <2>1
  <2> HIDE DEF V
  <2> QED
    BY <2>2, <1>4
<1>6. g = D(g)
  <2>1. \A b \in 0 .. n : b # 0 => b \in 1 .. n
    BY <1>1
  <2>2. DOMAIN g = 0 .. n
    BY <1>4
  <2> HIDE DEF step
  <2> QED
    BY <1>4, <1>5, <2>1, <2>2
<1>7. f = D(f)
  <2> HIDE DEF D
  <2> QED
    BY <1>6
<1>8. f[0] = st /\ \A b \in 1 .. n : f[b] = FreeBlock(f[b - 1], st.disk.inode[i].blocks[b])
  <2>1. \A b \in 0 .. n : f[b] = IF b = 0 THEN st ELSE FreeBlock(f[b - 1], st.disk.inode[i].blocks[b])
    <3> HIDE DEF f
    <3> QED
      BY <1>7
  <2> HIDE DEF f
  <2>2. 0 \in 0 .. n /\ \A b \in 1 .. n : b \in 0 .. n /\ b # 0
    BY <1>1
  <2> QED
    BY <2>1, <2>2
<1>9. FreeBlocksOf(st, i) = f[NDirect]
  BY DEF FreeBlocksOf
<1> HIDE DEF f
<1> QED
  BY <1>8, <1>9 DEF Freed, Ptr, Places

LEMMA FreeBlocksIs ==
  ASSUME NEW st, Agrees(st), Counted(st.disk), NEW R, Owned(st.disk, R), R \subseteq Inodes, NEW i \in R
  PROVE  LET d == st.disk
             r == FreeBlocksOf(st, i)
         IN /\ Agrees(r) /\ Counted(r.disk)
            /\ r.disk.bmap = d.bmap \ BlocksOf(d, i)
            /\ r.disk.inode = d.inode /\ r.disk.blk = d.blk /\ r.disk.imap = d.imap
<1> DEFINE d == st.disk
           Upto(b) == {Ptr(d, i, c) : c \in 1 .. b} \ {0}
<1>1. d \in DiskType /\ i \in Inodes /\ NDirect \in Nat /\ Places = 1 .. NDirect
  BY Sizes_Nat DEF Agrees, CallType, Places
<1>2. PICK f : Freed(st, i, f) /\ FreeBlocksOf(st, i) = f[NDirect]
  BY <1>1, FreeBlocksFollows
<1> DEFINE Fits(b) == /\ Agrees(f[b]) /\ Counted(f[b].disk)
                      /\ f[b].disk.bmap = d.bmap \ Upto(b)
                      /\ f[b].disk.inode = d.inode /\ f[b].disk.blk = d.blk /\ f[b].disk.imap = d.imap
           Good == {b \in 0 .. NDirect : Fits(b)}
<1>3. 0 \in Good
  <2>1. f[0] = st
    BY <1>2 DEF Freed
  <2>2. Upto(0) = {}
    OBVIOUS
  <2> QED
    BY <1>1, <2>1, <2>2
<1>4. ASSUME NEW b \in 1 .. NDirect, b - 1 \in Good PROVE b \in Good
  <2> DEFINE s == f[b - 1]
             x == Ptr(d, i, b)
  <2>1. Fits(b - 1) /\ b \in Places /\ b \in 0 .. NDirect
    BY <1>1, <1>4
  <2>2. f[b] = FreeBlock(s, x)
    BY <1>2, <2>1 DEF Freed
  <2>3. x \in {0} \cup Blocks
    BY <1>1, <2>1, PtrIs
  <2>4. Upto(b) = Upto(b - 1) \cup ({x} \ {0})
    <3>1. 1 .. b = (1 .. b - 1) \cup {b}
      BY <1>1
    <3> QED
      BY <3>1
  <2>5. CASE x = 0
    <3>1. f[b] = s
      BY <2>2, <2>5 DEF FreeBlock
    <3>2. Upto(b) = Upto(b - 1)
      BY <2>4, <2>5
    <3> QED
      BY <2>1, <3>1, <3>2
  <2>6. CASE x \in Blocks
    <3>1. /\ Agrees(f[b])
          /\ f[b].disk = MarkBlocks(s.disk, s.disk.bmap \ {x}, s.disk.free_blocks + 1)
      <4>1. Agrees(s) /\ f[b] = FreeBlock(s, x) /\ x \in Blocks
        BY <2>1, <2>2, <2>6
      <4> HIDE DEF s, x
      <4> QED
        BY <4>1, FreeBlockIs
    <3>2. s.disk \in DiskType
      BY <2>1 DEF Agrees, CallType
    <3>3. x # 0 /\ x \in d.bmap
      BY <1>1, <2>1, <2>6, Sizes_Nat DEF Owned
    <3>4. x \notin Upto(b - 1)
      <4>1. \A c \in 1 .. b - 1 : c \in Places /\ c # b
        BY <1>1
      <4>2. \A c \in Places : Ptr(d, i, c) = x => c = b
        BY <2>1, <3>3 DEF Owned
      <4> QED
        BY <4>1, <4>2
    <3>5. x \in s.disk.bmap
      BY <2>1, <3>3, <3>4
    <3> HIDE DEF x
    <3>6. /\ f[b].disk.bmap = s.disk.bmap \ {x} /\ f[b].disk.free_blocks = s.disk.free_blocks + 1
          /\ f[b].disk.imap = s.disk.imap /\ f[b].disk.free_inodes = s.disk.free_inodes
          /\ f[b].disk.inode = s.disk.inode /\ f[b].disk.blk = s.disk.blk
      BY <3>1, <3>2 DEF MarkBlocks, DiskType
    <3>7. Counted(f[b].disk)
      <4> DEFINE sd == s.disk
                 fd == f[b].disk
      <4>1. sd \in DiskType /\ Counted(sd) /\ x \in sd.bmap
        BY <2>1, <3>2, <3>5
      <4>2. fd.bmap = sd.bmap \ {x} /\ fd.free_blocks = sd.free_blocks + 1
            /\ fd.imap = sd.imap /\ fd.free_inodes = sd.free_inodes
        BY <3>6
      <4> HIDE DEF sd, fd
      <4>3. Counted(fd)
        BY <4>1, <4>2, CountFree
      <4> QED
        BY <4>3 DEF fd
    <3>8. f[b].disk.bmap = d.bmap \ Upto(b)
      <4>1. Upto(b) = Upto(b - 1) \cup {x}
        BY <2>4, <3>3 DEF x
      <4> HIDE DEF Upto
      <4> QED
        BY <2>1, <3>6, <4>1
    <3> QED
      BY <2>1, <3>1, <3>6, <3>7, <3>8
  <2> QED
    BY <2>3, <2>5, <2>6
<1>5. NDirect \in Good
  <2> HIDE DEF Good
  <2>1. \A b \in 0 .. NDirect : b \in Good
    BY <1>1, <1>3, <1>4, Reaches
  <2> QED
    BY <1>1, <2>1
<1>6. Upto(NDirect) = BlocksOf(d, i)
  BY <1>1 DEF BlocksOf
<1> QED
  BY <1>2, <1>5, <1>6
-----------------------------------------------------------------------------
LEMMA CountSame ==
  ASSUME NEW d, Counted(d), NEW e, CachedPart(e) = CachedPart(d)
  PROVE  Counted(e)
<1>1. /\ e.bmap = d.bmap /\ e.imap = d.imap
      /\ e.free_blocks = d.free_blocks /\ e.free_inodes = d.free_inodes
  BY DEF CachedPart
<1> QED
  BY <1>1 DEF Counted

(* dir_add_entry() takes the first place that is free.                     *)
FirstPlace(d, p, g, l, old, n) ==
  /\ \A b \in 1 .. g - 1 : Ptr(d, p, b) # 0 /\ \A k \in Slots : EntryAt(d, p, b, k) # 0
  /\ old[l].inode = 0 /\ \A k \in 1 .. l - 1 : old[k].inode # 0
  /\ n.size = Min({d.inode[p].size + 1, Capacity})

(* dir_add_entry().                                                        *)
NoRoom(d, p) == \A b \in Places : Ptr(d, p, b) # 0 /\ \A k \in Slots : EntryAt(d, p, b, k) # 0

(* What dir_add_entry() writes: block x, with an entry in place l that was *)
(* free, then the inode of the directory.                                  *)
InOld(st, s1, p, g, x, old) == Ptr(st.disk, p, g) = x /\ old = st.disk.blk[x] /\ s1 = st
InNew(st, s1, p, g, x, old) ==
  /\ Ptr(st.disk, p, g) = 0 /\ old = EmptyBlock
  /\ FreeBlocks(st) # {} /\ x = Min(FreeBlocks(st)) /\ s1 = TakeBlock(st)
EntryPut(st, s1, r, p, ch, name, g, l, x, old, m) ==
  LET d == st.disk IN
  /\ g \in Places /\ l \in Slots /\ x \in Blocks /\ FirstPlace(d, p, g, l, old, m)
  /\ InOld(st, s1, p, g, x, old) \/ InNew(st, s1, p, g, x, old)
  /\ m \in InodeType /\ m.type = d.inode[p].type /\ m.blocks = [d.inode[p].blocks EXCEPT ![g] = x]
  /\ d.inode[p].size <= m.size
  /\ r = PutInode(PutBlock(s1, x, [old EXCEPT ![l] = [inode |-> ch, name |-> name]]), p, m)

LEMMA AddEntryPuts ==
  ASSUME NEW st, st.disk \in DiskType, NEW p \in Inodes, NEW ch, NEW name
  PROVE  LET r == PutEntry(st, p, ch, name)
         IN \/ r = st /\ (NoRoom(st.disk, p) \/ FreeBlocks(st) = {})
            \/ \E s1, g, l, x, old, m : EntryPut(st, s1, r, p, ch, name, g, l, x, old, m)
<1> DEFINE d == st.disk
           n == d.inode[p]
           rooms == {b \in 1 .. NDirect :
                       \/ n.blocks[b] = 0
                       \/ \E k \in 1 .. PerBlk : d.blk[n.blocks[b]][k].inode = 0}
           g == Min(rooms)
           fresh == n.blocks[g] = 0
           x == IF fresh THEN Min(FreeBlocks(st)) ELSE n.blocks[g]
           old == IF fresh THEN EmptyBlock ELSE d.blk[x]
           l == FreePlace(old)
           c == [old EXCEPT ![l] = [inode |-> ch, name |-> name]]
           s1 == IF fresh THEN TakeBlock(st) ELSE st
           linked == PutBlock(s1, x, c)
           m == [n EXCEPT !.blocks[g] = x, !.size = Min({@ + 1, Capacity})]
           stop == rooms = {} \/ (fresh /\ FreeBlocks(st) = {})
           r == PutEntry(st, p, ch, name)
<1>1. r = IF stop THEN st ELSE PutInode(linked, p, m)
  BY DEF PutEntry
<1>2. d \in DiskType /\ n \in InodeType /\ Places = 1 .. NDirect /\ Slots = 1 .. PerBlk
  BY DEF DiskType, Places, Slots
<1>3. CASE stop
  <2>1. r = st
    BY <1>1, <1>3, Zenon
  <2>2. rooms = {} => NoRoom(d, p)
    BY <1>2, Zenon DEF NoRoom, Ptr, EntryAt
  <2> HIDE DEF rooms, g, r
  <2>3. NoRoom(d, p) \/ FreeBlocks(st) = {}
    BY <1>3, <2>2
  <2> QED
    BY <2>1, <2>3 DEF r
<1>4. CASE ~ stop
  <2>1. /\ g \in Places /\ (n.blocks[g] = 0 \/ \E k \in Slots : d.blk[n.blocks[g]][k].inode = 0)
        /\ \A b \in 1 .. g - 1 : n.blocks[b] # 0 /\ \A k \in Slots : d.blk[n.blocks[b]][k].inode # 0
    <3>1. rooms \subseteq Nat /\ rooms # {}
      <4>1. rooms \subseteq Places
        BY <1>2
      <4>2. rooms # {}
        <5> HIDE DEF rooms, fresh
        <5> QED
          BY <1>4
      <4> HIDE DEF rooms
      <4> QED
        BY <4>1, <4>2, Sizes_Nat
    <3>2. g \in rooms /\ \A b \in rooms : g <= b
      <4> HIDE DEF rooms
      <4> QED
        BY <3>1, MinIs
    <3> HIDE DEF g
    <3>3. ASSUME NEW b \in 1 .. g - 1 PROVE b \notin rooms /\ b \in Places
      <4>1. g \in Places
        BY <1>2, <3>2, Zenon
      <4>2. g \in Nat /\ b \in Nat /\ b < g /\ b \in Places
        BY <4>1, Sizes_Nat DEF Places
      <4> HIDE DEF rooms
      <4> QED
        BY <3>2, <4>2
    <3> QED
      BY <1>2, <3>2, <3>3, Zenon
  <2>2. n.blocks[g] = Ptr(d, p, g) /\ Ptr(d, p, g) \in {0} \cup Blocks
    BY <1>2, <2>1, PtrIs, Zenon DEF Ptr
  <2>3. /\ x \in Blocks /\ \E k \in Slots : old[k].inode = 0
        /\ \/ Ptr(d, p, g) = x /\ old = d.blk[x] /\ s1 = st
           \/ /\ Ptr(d, p, g) = 0 /\ old = EmptyBlock
              /\ FreeBlocks(st) # {} /\ x = Min(FreeBlocks(st)) /\ s1 = TakeBlock(st)
    <3> HIDE DEF g
    <3>1. CASE fresh
      <4>1. FreeBlocks(st) # {} /\ s1 = TakeBlock(st) /\ x = Min(FreeBlocks(st)) /\ old = EmptyBlock
        BY <1>4, <3>1, Zenon
      <4>2. x \in Blocks
        <5>1. FreeBlocks(st) \subseteq Nat /\ FreeBlocks(st) \subseteq Blocks
          BY Sizes_Nat DEF FreeBlocks
        <5>2. Min(FreeBlocks(st)) \in FreeBlocks(st)
          BY <4>1, <5>1, MinIs
        <5> HIDE DEF x
        <5> QED
          BY <4>1, <5>1, <5>2
      <4> HIDE DEF x, old, s1
      <4>3. \E k \in Slots : old[k].inode = 0
        <5>1. 1 \in Slots
          BY <1>2, Sizes_Nat
        <5> QED
          BY <1>2, <4>1, <5>1 DEF EmptyBlock, FreeSlot
      <4> QED
        BY <2>2, <3>1, <4>1, <4>2, <4>3
    <3>2. CASE ~ fresh
      <4>1. x = Ptr(d, p, g) /\ x # 0 /\ old = d.blk[x] /\ s1 = st
        BY <2>2, <3>2
      <4> HIDE DEF x, old, s1
      <4>2. \E k \in Slots : old[k].inode = 0
        BY <2>1, <2>2, <3>2, <4>1, Zenon
      <4> QED
        BY <2>2, <4>1, <4>2
    <3> QED
      BY <3>1, <3>2, Zenon
  <2> HIDE DEF g, x, old, s1
  <2>4. l \in Slots /\ old[l].inode = 0 /\ \A k \in 1 .. l - 1 : old[k].inode # 0
    <3> DEFINE places == {k \in 1 .. PerBlk : old[k].inode = 0}
    <3>1. places \subseteq Nat /\ places # {}
      BY <1>2, <2>3
    <3> HIDE DEF places
    <3>2. Min(places) \in places /\ \A k \in places : Min(places) <= k
      BY <3>1, MinIs
    <3>3. l = Min(places)
      BY DEF FreePlace, places
    <3> HIDE DEF l
    <3>4. l \in Slots /\ l \in Nat /\ old[l].inode = 0
      BY <1>2, <3>2, <3>3, Sizes_Nat DEF places
    <3>5. ASSUME NEW k \in 1 .. l - 1 PROVE old[k].inode # 0
      <4>1. k \in Slots /\ k \in Nat /\ k < l
        BY <1>2, <3>4, Sizes_Nat
      <4>2. k \notin places
        BY <3>2, <3>3, <3>4, <4>1
      <4> QED
        BY <1>2, <4>1, <4>2 DEF places
    <3> QED
      BY <3>4, <3>5
  <2> HIDE DEF l
  <2>5. /\ m \in InodeType /\ m.type = n.type /\ m.blocks = [n.blocks EXCEPT ![g] = x]
        /\ n.size <= m.size /\ m.size = Min({n.size + 1, Capacity})
    <3> DEFINE z == Min({n.size + 1, Capacity})
    <3>1. n.size \in 0 .. Capacity /\ n.blocks \in [1 .. NDirect -> {0} \cup Blocks] /\ n.type \in Types
      BY <1>2 DEF InodeType
    <3>2. z \in 0 .. Capacity /\ n.size <= z
      <4> DEFINE S == {n.size + 1, Capacity}
      <4>1. S \subseteq Nat /\ S # {} /\ Capacity \in S /\ Capacity \in Nat /\ n.size \in Nat
        BY <3>1, Sizes_Nat
      <4> HIDE DEF S
      <4>2. Min(S) \in S /\ Min(S) <= Capacity
        BY <4>1, MinIs
      <4>3. z = Min(S)
        BY DEF S
      <4> HIDE DEF z
      <4>4. z = n.size + 1 \/ z = Capacity
        BY <4>2, <4>3 DEF S
      <4> HIDE DEF n
      <4> QED
        BY <3>1, <4>1, <4>2, <4>3, <4>4
    <3> HIDE DEF z
    <3>3. m = [n EXCEPT !.blocks[g] = x, !.size = z]
      BY <1>2 DEF z, InodeType
    <3>4. m = [type |-> n.type, size |-> z, blocks |-> [n.blocks EXCEPT ![g] = x]]
      <4>1. n \in InodeType
        BY <1>2
      <4> HIDE DEF m, n
      <4> QED
        BY <3>3, <4>1 DEF InodeType
    <3>5. [n.blocks EXCEPT ![g] = x] \in [1 .. NDirect -> {0} \cup Blocks]
      BY <1>2, <2>1, <2>3, <3>1, Zenon
    <3>6. m.size = z
      <4> HIDE DEF m
      <4> QED
        BY <3>4
    <3> QED
      BY <3>1, <3>2, <3>4, <3>5, <3>6 DEF InodeType, z
  <2> HIDE DEF m, linked
  <2>6. FirstPlace(d, p, g, l, old, m)
    BY <2>1, <2>4, <2>5, Zenon DEF FirstPlace, Ptr, EntryAt
  <2>7. r = PutInode(linked, p, m)
    <3> HIDE DEF stop, r
    <3> QED
      BY <1>1, <1>4
  <2>8. EntryPut(st, s1, r, p, ch, name, g, l, x, old, m)
    <3> HIDE DEF r
    <3>1. linked = PutBlock(s1, x, [old EXCEPT ![l] = [inode |-> ch, name |-> name]])
      BY DEF linked
    <3> QED
      BY <2>1, <2>3, <2>4, <2>5, <2>6, <2>7, <3>1, Zenon DEF EntryPut, InOld, InNew
  <2> QED
    BY <2>8
<1> QED
  BY <1>3, <1>4, Zenon

LEMMA AddEntryMade ==
  ASSUME NEW st, Agrees(st), Counted(st.disk), NEW R, Sound(st.disk, R),
         NEW p \in R, NEW ch \in R \ {0, p}, NEW name \in Names \cup {NoName},
         \A i \in Dirs(st.disk, R), b \in Places, k \in Slots :
           IsEntry(st.disk, i, b, k) => EntryAt(st.disk, i, b, k) # ch
  PROVE  LET d == st.disk
             r == PutEntry(st, p, ch, name)
         IN /\ Agrees(r) /\ Counted(r.disk)
            /\ \/ r = st /\ (NoRoom(d, p) \/ FreeBlocks(st) = {})
               \/ \E g, l, x, old, n : EntryMade(d, r.disk, R, p, ch, g, l, x, name, old, n)
                                       /\ FirstPlace(d, p, g, l, old, n)
<1> DEFINE d == st.disk
           r == PutEntry(st, p, ch, name)
<1>1. /\ d \in DiskType /\ R \subseteq Inodes /\ p \in Inodes /\ ch \in Inodes
      /\ st.ram = CachedPart(d) /\ st \in CallType /\ Slots = 1 .. PerBlk
  <2>1. R \subseteq Inodes /\ d \in DiskType
    BY DEF Sound, DiskType
  <2> QED
    BY <2>1 DEF Agrees, Slots
<1>2. \/ r = st /\ (NoRoom(d, p) \/ FreeBlocks(st) = {})
      \/ \E s1, g, l, x, old, m : EntryPut(st, s1, r, p, ch, name, g, l, x, old, m)
  BY <1>1, AddEntryPuts
<1> HIDE DEF r
<1>3. ASSUME NEW s1, NEW g, NEW l, NEW x, NEW old, NEW m, EntryPut(st, s1, r, p, ch, name, g, l, x, old, m)
      PROVE  /\ Agrees(r) /\ Counted(r.disk)
             /\ EntryMade(d, r.disk, R, p, ch, g, l, x, name, old, m) /\ FirstPlace(d, p, g, l, old, m)
  <2> DEFINE new == [inode |-> ch, name |-> name]
             c == [old EXCEPT ![l] = new]
             linked == PutBlock(s1, x, c)
             e == r.disk
  <2>1. /\ g \in Places /\ l \in Slots /\ x \in Blocks /\ FirstPlace(d, p, g, l, old, m)
        /\ m \in InodeType /\ m.type = d.inode[p].type /\ m.blocks = [d.inode[p].blocks EXCEPT ![g] = x]
        /\ r = PutInode(linked, p, m)
    BY <1>3 DEF EntryPut
  <2>2. /\ old \in [1 .. PerBlk -> Slot]
        /\ \/ Ptr(d, p, g) = x /\ old = d.blk[x]
           \/ Ptr(d, p, g) = 0 /\ x \notin d.bmap /\ old = EmptyBlock
        /\ Agrees(s1) /\ Counted(s1.disk) /\ s1.disk \in DiskType
        /\ s1.disk.inode = d.inode /\ s1.disk.blk = d.blk /\ s1.disk.imap = d.imap
        /\ s1.disk.bmap = d.bmap \cup {x}
    <3>1. CASE InNew(st, s1, p, g, x, old)
      <4>1. /\ Ptr(d, p, g) = 0 /\ old = EmptyBlock
            /\ FreeBlocks(st) # {} /\ s1 = TakeBlock(st) /\ x = Min(FreeBlocks(st))
        BY <3>1 DEF InNew
      <4>2. /\ x \notin d.bmap /\ Agrees(s1)
            /\ s1.disk = MarkBlocks(d, d.bmap \cup {x}, d.free_blocks - 1)
        BY <4>1, TakeBlockIs
      <4>3. s1.disk \in DiskType
        BY <4>2 DEF Agrees, CallType
      <4>4. /\ s1.disk.bmap = d.bmap \cup {x} /\ s1.disk.free_blocks = d.free_blocks - 1
            /\ s1.disk.imap = d.imap /\ s1.disk.free_inodes = d.free_inodes
            /\ s1.disk.inode = d.inode /\ s1.disk.blk = d.blk
        BY <1>1, <4>2 DEF MarkBlocks, DiskType
      <4>5. Counted(s1.disk)
        <5> DEFINE f == s1.disk
        <5>1. /\ f.bmap = d.bmap \cup {x} /\ f.free_blocks = d.free_blocks - 1
              /\ f.imap = d.imap /\ f.free_inodes = d.free_inodes
          BY <4>4
        <5> HIDE DEF f
        <5>2. Counted(f)
          BY <1>1, <2>1, <4>2, <5>1, CountTake
        <5> QED
          BY <5>2 DEF f
      <4>6. old \in [1 .. PerBlk -> Slot]
        BY <4>1, Sizes_Nat DEF EmptyBlock, FreeSlot, Slot, TextInode
      <4> QED
        BY <4>1, <4>2, <4>3, <4>4, <4>5, <4>6
    <3>2. CASE InOld(st, s1, p, g, x, old)
      <4>1. Ptr(d, p, g) = x /\ old = d.blk[x] /\ s1 = st
        BY <3>2 DEF InOld
      <4>2. x \in d.bmap
        BY <1>1, <2>1, <4>1, Sizes_Nat DEF Sound, Owned
      <4>3. old \in [1 .. PerBlk -> Slot]
        BY <1>1, <2>1, <4>1 DEF DiskType
      <4> QED
        BY <1>1, <4>1, <4>2, <4>3
    <3> QED
      BY <1>3, <3>1, <3>2 DEF EntryPut
  <2>3. c \in [1 .. PerBlk -> Slot]
    <3>1. new \in Slot
      <4>1. Inodes \subseteq 0 .. TextInode
        BY Sizes_Nat
      <4> QED
        BY <1>1, <4>1 DEF Slot
    <3> HIDE DEF new
    <3> QED
      BY <1>1, <2>1, <2>2, <3>1
  <2>4. Agrees(linked) /\ linked.disk = [s1.disk EXCEPT !.blk[x] = c]
    <3> HIDE DEF c
    <3> QED
      BY <2>1, <2>2, <2>3, PutBlockIs
  <2> HIDE DEF linked
  <2>5. Agrees(r) /\ e = [linked.disk EXCEPT !.inode[p] = m]
    <3>1. r = PutInode(linked, p, m) /\ Agrees(linked) /\ p \in Inodes /\ m \in InodeType
      BY <1>1, <2>1, <2>4
    <3> QED
      BY <3>1, PutInodeIs
  <2>6. /\ e \in DiskType /\ e.inode = [d.inode EXCEPT ![p] = m]
        /\ e.blk = [d.blk EXCEPT ![x] = c] /\ e.imap = d.imap /\ e.bmap = d.bmap \cup {x}
        /\ CachedPart(e) = CachedPart(s1.disk)
    <3> DEFINE d1 == s1.disk
               d2 == linked.disk
    <3>1. e \in DiskType
      BY <2>5 DEF Agrees, CallType
    <3>2. d1 \in DiskType /\ d2 = [d1 EXCEPT !.blk[x] = c] /\ e = [d2 EXCEPT !.inode[p] = m]
      BY <2>2, <2>4, <2>5
    <3>3. d1.inode = d.inode /\ d1.blk = d.blk /\ d1.imap = d.imap /\ d1.bmap = d.bmap \cup {x}
      BY <2>2
    <3> HIDE DEF d1, d2, e, c
    <3>4. /\ e.inode = [d1.inode EXCEPT ![p] = m] /\ e.blk = [d1.blk EXCEPT ![x] = c]
          /\ e.imap = d1.imap /\ e.bmap = d1.bmap
          /\ e.free_blocks = d1.free_blocks /\ e.free_inodes = d1.free_inodes
      BY <3>2 DEF DiskType
    <3>5. CachedPart(e) = CachedPart(d1)
      BY <3>4 DEF CachedPart
    <3> QED
      BY <3>1, <3>3, <3>4, <3>5 DEF d1
  <2>7. Counted(e)
    <3> DEFINE d1 == s1.disk
    <3>1. Counted(d1) /\ CachedPart(e) = CachedPart(d1)
      BY <2>2, <2>6
    <3> HIDE DEF d1, e
    <3> QED
      BY <3>1, CountSame
  <2>8. EntryMade(d, e, R, p, ch, g, l, x, name, old, m)
    <3> HIDE DEF e
    <3>1. e.blk = [d.blk EXCEPT ![x] = [old EXCEPT ![l] = [inode |-> ch, name |-> name]]]
      BY <2>6
    <3> HIDE DEF c, d
    <3> QED
      BY <1>1, <2>1, <2>2, <2>6, <3>1 DEF EntryMade, d
  <2> QED
    BY <2>1, <2>5, <2>7, <2>8
<1>4. CASE r = st /\ (NoRoom(d, p) \/ FreeBlocks(st) = {})
  BY <1>4 DEF r
<1>5. CASE \E s1, g, l, x, old, m : EntryPut(st, s1, r, p, ch, name, g, l, x, old, m)
  <2>1. PICK s1, g, l, x, old, m : EntryPut(st, s1, r, p, ch, name, g, l, x, old, m)
    BY <1>5
  <2>2. /\ Agrees(r) /\ Counted(r.disk)
        /\ EntryMade(d, r.disk, R, p, ch, g, l, x, name, old, m) /\ FirstPlace(d, p, g, l, old, m)
    BY <1>3, <2>1
  <2> QED
    BY <2>2 DEF r
<1> QED
  BY <1>2, <1>4, <1>5

LEMMA AddEntryIs ==
  ASSUME NEW st, Agrees(st), Counted(st.disk), NEW R, Sound(st.disk, R),
         NEW p \in R, NEW ch \in R \ {0, p}, NEW name \in Names \cup {NoName},
         \A i \in Dirs(st.disk, R), b \in Places, k \in Slots :
           IsEntry(st.disk, i, b, k) => EntryAt(st.disk, i, b, k) # ch
  PROVE  LET d == st.disk
             e == PutEntry(st, p, ch, name).disk
         IN /\ Agrees(PutEntry(st, p, ch, name)) /\ Counted(e)
            /\ Sound(e, R) /\ (Held(d, R) => Held(e, R))
            /\ e.imap = d.imap /\ \A j \in R \ {p} : e.inode[j] = d.inode[j]
<1> DEFINE d == st.disk
           r == PutEntry(st, p, ch, name)
           e == r.disk
<1>1. /\ Agrees(r) /\ Counted(e)
      /\ \/ r = st
         \/ \E g, l, x, old, n : EntryMade(d, e, R, p, ch, g, l, x, name, old, n)
                                 /\ FirstPlace(d, p, g, l, old, n)
  BY AddEntryMade
<1>2. CASE r = st
  BY <1>1, <1>2
<1>3. ASSUME NEW g, NEW l, NEW x, NEW old, NEW n, EntryMade(d, e, R, p, ch, g, l, x, name, old, n)
      PROVE  /\ Sound(e, R) /\ (Held(d, R) => Held(e, R))
             /\ e.imap = d.imap /\ \A j \in R \ {p} : e.inode[j] = d.inode[j]
  <2> HIDE DEF d, e
  <2>1. Sound(e, R) /\ (Held(d, R) => Held(e, R))
    BY <1>3, EntryKeeps
  <2>2. /\ d \in DiskType /\ R \subseteq Inodes /\ e.imap = d.imap
        /\ e.inode = [d.inode EXCEPT ![p] = n]
    BY <1>3 DEF EntryMade, Sound, DiskType
  <2>3. \A j \in R \ {p} : e.inode[j] = d.inode[j]
    BY <2>2 DEF DiskType
  <2> QED
    BY <2>1, <2>2, <2>3
<1> QED
  BY <1>1, <1>2, <1>3
-----------------------------------------------------------------------------
(* path_find().                                                            *)
At(R) == [ok : BOOLEAN, cur : R, parent : R]
Top == [ok |-> TRUE, cur |-> 0, parent |-> 0]
Found(d, R, at) ==
  /\ at.parent \in Dirs(d, R)
  /\ \E k \in Present(d, at.parent) :
       /\ at.cur = EntryAt(d, at.parent, BlockOf(k), PlaceOf(k))
       /\ IsEntry(d, at.parent, BlockOf(k), PlaceOf(k))

LEMMA PieceIs ==
  ASSUME NEW d \in DiskType, NEW i \in Inodes, NEW k \in Present(d, i)
  PROVE  /\ BlockOf(k) \in Places /\ PlaceOf(k) \in Slots /\ k \in 1 .. Capacity
         /\ Ptr(d, i, BlockOf(k)) \in Blocks
         /\ Piece(d, i, k) = d.blk[Ptr(d, i, BlockOf(k))][PlaceOf(k)]
         /\ Piece(d, i, k) \in Slot
<1>1. k \in 1 .. Capacity /\ \A b \in 1 .. BlockOf(k) : Ptr(d, i, b) # 0
  BY DEF Present, Ptr
<1>2. BlockOf(k) \in Places /\ PlaceOf(k) \in Slots
  BY <1>1, PlaceIs
<1>3. BlockOf(k) \in 1 .. BlockOf(k)
  BY <1>2, Sizes_Nat DEF Places
<1>4. Ptr(d, i, BlockOf(k)) # 0
  BY <1>1, <1>3
<1>5. Ptr(d, i, BlockOf(k)) \in Blocks
  BY <1>2, <1>4, PtrIs
<1>6. Piece(d, i, k) = d.blk[Ptr(d, i, BlockOf(k))][PlaceOf(k)]
  BY DEF Piece, Ptr
<1>7. Piece(d, i, k) \in Slot
  BY <1>2, <1>5, <1>6, EntryIs
<1> QED
  BY <1>1, <1>2, <1>5, <1>6, <1>7

LEMMA DescendIs ==
  ASSUME NEW d, NEW R, Sound(d, R), NEW at \in At(R), NEW name \in Names
  PROVE  Descend(d, at, name) \in At(R) /\ (Descend(d, at, name).ok => Found(d, R, Descend(d, at, name)))
<1> DEFINE found == IF at.ok /\ d.inode[at.cur].type = "diretorio"
                    THEN Named(d, at.cur, name) ELSE {}
           k == Min(found)
           r == Descend(d, at, name)
<1>1. d \in DiskType /\ R \subseteq Inodes /\ at.cur \in R /\ at.cur \in Inodes
  BY DEF Sound, DiskType, At
<1>2. r = IF found = {} THEN [at EXCEPT !.ok = FALSE]
          ELSE [ok |-> TRUE, parent |-> at.cur, cur |-> Piece(d, at.cur, k).inode]
  BY DEF Descend
<1> HIDE DEF r
<1>3. CASE found = {}
  <2>1. r = [at EXCEPT !.ok = FALSE]
    BY <1>2, <1>3
  <2>2. r \in At(R) /\ ~ r.ok
    BY <2>1 DEF At
  <2> QED
    BY <2>2 DEF r
<1>4. CASE found # {}
  <2>1. at.cur \in Dirs(d, R) /\ found = Named(d, at.cur, name)
    BY <1>1, <1>4 DEF Dirs
  <2>2. k \in Named(d, at.cur, name)
    <3>1. found \subseteq Nat
      BY <2>1, Sizes_Nat DEF Named, Present
    <3> HIDE DEF found
    <3>2. k \in found
      BY <1>4, <3>1, MinIs
    <3> QED
      BY <2>1, <3>2
  <2> HIDE DEF k
  <2> DEFINE e == Piece(d, at.cur, k)
             x == Ptr(d, at.cur, BlockOf(k))
  <2>3. k \in Present(d, at.cur) /\ e.name = name /\ e.inode # 0
    BY <2>2 DEF Named
  <2>4. /\ BlockOf(k) \in Places /\ PlaceOf(k) \in Slots /\ x \in Blocks
        /\ e = d.blk[x][PlaceOf(k)] /\ e \in Slot
    BY <1>1, <2>3, PieceIs
  <2>5. e.inode # TextInode
    <3>1. e.name \notin Texts
      BY <2>3, SpaceFSAssumption
    <3> HIDE DEF x, e
    <3> QED
      BY <2>4, <3>1 DEF Sound, Texted
  <2>6. e.inode \in Inodes \ {0}
    <3>1. e.inode \in 0 .. TextInode
      BY <2>4 DEF Slot
    <3> HIDE DEF e
    <3> QED
      BY <2>3, <2>5, <3>1, Sizes_Nat DEF TextInode, Inodes
  <2>7. e.inode = EntryAt(d, at.cur, BlockOf(k), PlaceOf(k))
    <3>1. EntryAt(d, at.cur, BlockOf(k), PlaceOf(k)) = d.blk[x][PlaceOf(k)].inode
      BY DEF EntryAt
    <3> HIDE DEF e, x
    <3> QED
      BY <2>4, <3>1
  <2>8. IsEntry(d, at.cur, BlockOf(k), PlaceOf(k))
    <3>1. x # 0
      BY <2>4, Sizes_Nat
    <3> HIDE DEF e
    <3> QED
      BY <2>6, <2>7, <3>1 DEF IsEntry
  <2>9. e.inode \in R
    <3> HIDE DEF e
    <3> QED
      BY <2>1, <2>4, <2>7, <2>8 DEF Sound, Linked
  <2>10. r.ok /\ r.parent = at.cur /\ r.cur = e.inode /\ r \in At(R)
    <3>1. r = [ok |-> TRUE, parent |-> at.cur, cur |-> e.inode]
      BY <1>2, <1>4
    <3> HIDE DEF e
    <3> QED
      BY <1>1, <2>9, <3>1 DEF At
  <2>11. Found(d, R, r)
    <3> HIDE DEF e
    <3> QED
      BY <2>1, <2>3, <2>7, <2>8, <2>10 DEF Found
  <2> QED
    BY <2>10, <2>11 DEF r
<1> QED
  BY <1>3, <1>4

Walked(d, path, f) ==
  /\ f[0] = Top
  /\ \A n \in 1 .. Len(path) : f[n] = Descend(d, f[n - 1], path[n])

LEMMA PathFollows ==
  ASSUME NEW d, NEW R, Sound(d, R), NEW path \in Seq(Names)
  PROVE  \E f : Walked(d, path, f) /\ PathFind(d, path) = f[Len(path)]
<1> DEFINE m == Len(path)
           V == At(R)
           D(f) == [n \in 0 .. Len(path) |->
                      IF n = 0 THEN [ok |-> TRUE, cur |-> 0, parent |-> 0]
                               ELSE Descend(d, f[n - 1], path[n])]
           f == CHOOSE h : h = D(h)
           step == [n \in 1 .. m |-> [at \in V |-> Descend(d, at, path[n])]]
<1>1. m \in Nat /\ Top \in V /\ \A n \in 1 .. m : path[n] \in Names
  BY DEF Sound, At, Top
<1>2. step \in [1 .. m -> [V -> V]]
  <2>1. ASSUME NEW n \in 1 .. m, NEW at \in V PROVE Descend(d, at, path[n]) \in V
    BY <1>1, DescendIs
  <2> HIDE DEF V
  <2> QED
    BY <2>1
<1>3. PICK g \in [0 .. m -> V] : g[0] = Top /\ \A n \in 1 .. m : g[n] = step[n][g[n - 1]]
  <2> HIDE DEF m, step, V
  <2>1. \E g \in [0 .. m -> V] : Recurs(g, m, Top, step)
    BY <1>1, <1>2, Recursion
  <2> QED
    BY <2>1 DEF Recurs
<1>4. ASSUME NEW n \in 1 .. m PROVE g[n] = Descend(d, g[n - 1], path[n])
  <2>1. n - 1 \in 0 .. m
    BY <1>1
  <2>2. g[n - 1] \in V
    BY <1>3, <2>1
  <2> HIDE DEF V
  <2> QED
    BY <2>2, <1>3
<1>5. g = D(g)
  <2>1. \A n \in 0 .. m : n # 0 => n \in 1 .. m
    BY <1>1
  <2>2. DOMAIN g = 0 .. m
    BY <1>3
  <2> HIDE DEF step
  <2> QED
    BY <1>3, <1>4, <2>1, <2>2 DEF Top
<1>6. f = D(f)
  <2> HIDE DEF D
  <2> QED
    BY <1>5
<1>7. f[0] = Top /\ \A n \in 1 .. m : f[n] = Descend(d, f[n - 1], path[n])
  <2>1. \A n \in 0 .. m : f[n] = IF n = 0 THEN Top ELSE Descend(d, f[n - 1], path[n])
    <3> HIDE DEF f
    <3> QED
      BY <1>6 DEF Top
  <2> HIDE DEF f
  <2>2. 0 \in 0 .. m /\ \A n \in 1 .. m : n \in 0 .. m /\ n # 0
    BY <1>1
  <2> QED
    BY <2>1, <2>2
<1>8. PathFind(d, path) = f[Len(path)]
  BY DEF PathFind
<1> HIDE DEF f
<1> QED
  BY <1>7, <1>8 DEF Walked

LEMMA PathFindIs ==
  ASSUME NEW d, NEW R, Sound(d, R), NEW path \in Seq(Names)
  PROVE  LET at == PathFind(d, path)
         IN /\ at \in At(R)
            /\ path = <<>> => at = Top
            /\ path # <<>> /\ at.ok => Found(d, R, at)
<1>1. PICK f : Walked(d, path, f) /\ PathFind(d, path) = f[Len(path)]
  BY PathFollows
<1> DEFINE Good == {n \in 0 .. Len(path) :
                      f[n] \in At(R) /\ (n # 0 /\ f[n].ok => Found(d, R, f[n]))}
<1>2. Len(path) \in Nat /\ \A n \in 1 .. Len(path) : path[n] \in Names
  OBVIOUS
<1>3. 0 \in Good
  <2>1. f[0] \in At(R)
    BY <1>1 DEF Walked, Top, At, Sound
  <2>2. 0 \in 0 .. Len(path)
    BY <1>2
  <2> QED
    BY <2>1, <2>2
<1>4. ASSUME NEW n \in 1 .. Len(path), n - 1 \in Good PROVE n \in Good
  <2>1. f[n - 1] \in At(R) /\ f[n] = Descend(d, f[n - 1], path[n]) /\ path[n] \in Names
    BY <1>1, <1>2, <1>4 DEF Walked
  <2>2. f[n] \in At(R) /\ (f[n].ok => Found(d, R, f[n]))
    BY <2>1, DescendIs
  <2> QED
    BY <1>2, <2>2
<1>5. \A n \in 0 .. Len(path) : n \in Good
  <2> HIDE DEF Good
  <2> QED
    BY <1>2, <1>3, <1>4, Reaches
<1>6. Len(path) \in Good
  BY <1>2, <1>5
<1>7. (path = <<>>) = (Len(path) = 0)
  OBVIOUS
<1> QED
  BY <1>1, <1>6, <1>7 DEF Walked
-----------------------------------------------------------------------------
(* The first part of spfs_write() to a file that exists.                   *)
LEMMA TruncateIs ==
  ASSUME NEW st, Agrees(st), Whole(st.disk), NEW i \in st.disk.imap
  PROVE  LET e == Truncate(st, i).disk
         IN /\ Agrees(Truncate(st, i)) /\ Whole(e) /\ e.imap = st.disk.imap
            /\ e.inode[i].blocks = NoBlocks /\ e.inode[i].type = st.disk.inode[i].type
            /\ e.blk = st.disk.blk /\ \A j \in Inodes \ {i} : e.inode[j] = st.disk.inode[j]
<1> DEFINE d == st.disk
           R == d.imap
           s1 == FreeBlocksOf(st, i)
           d1 == s1.disk
           n == [d.inode[i] EXCEPT !.size = 0, !.blocks = NoBlocks]
           r == Truncate(st, i)
           e == r.disk
<1>1. /\ d \in DiskType /\ R \subseteq Inodes /\ i \in R /\ i \in Inodes /\ d.inode[i] \in InodeType
      /\ Sound(d, R) /\ Owned(d, R) /\ Held(d, R) /\ Counted(d)
  <2>1. d \in DiskType /\ Sound(d, R) /\ Owned(d, R) /\ Held(d, R) /\ Counted(d)
    BY DEF Whole, Sound
  <2> QED
    BY <2>1 DEF DiskType
<1>2. /\ Agrees(s1) /\ Counted(d1) /\ d1.bmap = d.bmap \ BlocksOf(d, i)
      /\ d1.inode = d.inode /\ d1.blk = d.blk /\ d1.imap = d.imap
  <2>1. Agrees(st) /\ Counted(st.disk) /\ Owned(st.disk, R) /\ R \subseteq Inodes /\ i \in R
    BY <1>1
  <2> HIDE DEF R
  <2> QED
    BY <2>1, FreeBlocksIs
<1>3. n \in InodeType /\ n.type = d.inode[i].type /\ n.blocks = NoBlocks
  <2> DEFINE o == d.inode[i]
  <2>1. o \in InodeType /\ NoBlocks \in [1 .. NDirect -> {0} \cup Blocks] /\ 0 \in 0 .. Capacity
    BY <1>1, Sizes_Nat DEF NoBlocks
  <2> HIDE DEF o
  <2>2. [o EXCEPT !.size = 0, !.blocks = NoBlocks] = [type |-> o.type, size |-> 0, blocks |-> NoBlocks]
    <3>1. o = [type |-> o.type, size |-> o.size, blocks |-> o.blocks]
      BY <2>1 DEF InodeType
    <3>2. ASSUME NEW u, NEW v, NEW w, o = [type |-> u, size |-> v, blocks |-> w]
          PROVE  [o EXCEPT !.size = 0, !.blocks = NoBlocks] = [type |-> u, size |-> 0, blocks |-> NoBlocks]
      <4> DEFINE o1 == [o EXCEPT !.size = 0]
      <4>1. o1 = [type |-> u, size |-> 0, blocks |-> w]
        BY <3>2
      <4>2. [o EXCEPT !.size = 0, !.blocks = NoBlocks] = [o1 EXCEPT !.blocks = NoBlocks]
        OBVIOUS
      <4> HIDE DEF o1
      <4>3. [o1 EXCEPT !.blocks = NoBlocks] = [type |-> u, size |-> 0, blocks |-> NoBlocks]
        BY <4>1
      <4> QED
        BY <4>2, <4>3
    <3> QED
      BY <3>1, <3>2
  <2>3. n = [o EXCEPT !.size = 0, !.blocks = NoBlocks]
    BY DEF o
  <2> HIDE DEF n
  <2>4. n \in InodeType /\ n.type = o.type /\ n.blocks = NoBlocks
    BY <2>1, <2>2, <2>3 DEF InodeType
  <2> QED
    BY <2>4 DEF o
<1> HIDE DEF s1, n
<1>4. r = PutInode(s1, i, n)
  BY DEF Truncate, s1, n
<1> HIDE DEF r
<1>5. Agrees(r) /\ e = [d1 EXCEPT !.inode[i] = n]
  BY <1>1, <1>2, <1>3, <1>4, PutInodeIs
<1> HIDE DEF e, d1
<1>6. d1 \in DiskType /\ e \in DiskType
  BY <1>2, <1>5 DEF Agrees, CallType, d1, e
<1>7. /\ e.inode = [d.inode EXCEPT ![i] = n] /\ e.blk = d.blk /\ e.imap = d.imap
      /\ e.bmap = d.bmap \ BlocksOf(d, i) /\ CachedPart(e) = CachedPart(d1)
  <2>1. /\ e.inode = [d1.inode EXCEPT ![i] = n] /\ e.blk = d1.blk /\ e.imap = d1.imap /\ e.bmap = d1.bmap
        /\ e.free_blocks = d1.free_blocks /\ e.free_inodes = d1.free_inodes
    BY <1>5, <1>6 DEF DiskType
  <2>2. CachedPart(e) = CachedPart(d1)
    BY <2>1 DEF CachedPart
  <2> QED
    BY <1>2, <2>1, <2>2
<1>8. Counted(e)
  BY <1>2, <1>7, CountSame
<1>9. Sound(e, R) /\ Held(e, R)
  <2> HIDE DEF d, R
  <2> QED
    BY <1>1, <1>3, <1>6, <1>7, EmptyKeeps
<1>10. /\ e.inode[i].blocks = NoBlocks /\ e.inode[i].type = d.inode[i].type
       /\ \A j \in Inodes \ {i} : e.inode[j] = d.inode[j]
  BY <1>1, <1>3, <1>7 DEF DiskType
<1> QED
  BY <1>5, <1>7, <1>8, <1>9, <1>10 DEF Whole, e, r

(* The last part: one block,                                               *)
Filling(size) ==
  {at \in [st : CallType, in : InodeType, done : 0 .. size] : Agrees(at.st)}

Stuck(at, size) == at.done = size \/ FreeBlocks(at.st) = {}

BlockWritten(at, b, t, size, r) ==
  LET d == at.st.disk
      x == Min(FreeBlocks(at.st))
      n == Min({PerBlk, size - at.done})
  IN /\ x \in Blocks \ d.bmap
     /\ r.in = [at.in EXCEPT !.blocks[b] = x] /\ r.done = at.done + n
     /\ r.st.disk = [MarkBlocks(d, d.bmap \cup {x}, d.free_blocks - 1) EXCEPT !.blk[x] = TextBlock(t, n)]

LEMMA WriteBlockIs ==
  ASSUME NEW size \in Nat, NEW at \in Filling(size), NEW b \in Places, NEW t \in Texts
  PROVE  LET r == WriteBlock(at, b, t, size)
         IN /\ r \in Filling(size)
            /\ IF Stuck(at, size) THEN r = at ELSE BlockWritten(at, b, t, size, r)
<1> DEFINE r == WriteBlock(at, b, t, size)
           d == at.st.disk
           x == Min(FreeBlocks(at.st))
           n == Min({PerBlk, size - at.done})
           c == TextBlock(t, n)
           s1 == TakeBlock(at.st)
           s2 == PutBlock(s1, x, c)
           stop == at.done = size \/ FreeBlocks(at.st) = {}
           in2 == [at.in EXCEPT !.blocks[b] = x]
           done2 == at.done + n
<1>1. /\ r = IF stop THEN at ELSE [st |-> s2, in |-> in2, done |-> done2]
      /\ at.st \in CallType /\ Agrees(at.st) /\ at.in \in InodeType /\ at.done \in 0 .. size
      /\ Places = 1 .. NDirect
  BY DEF WriteBlock, Filling, Places
<1> HIDE DEF r
<1>2. CASE stop
  BY <1>1, <1>2 DEF r, Stuck
<1>3. CASE ~ stop
  <2>1. /\ x \in Blocks /\ x \notin d.bmap /\ Agrees(s1)
        /\ s1.disk = MarkBlocks(d, d.bmap \cup {x}, d.free_blocks - 1)
    BY <1>1, <1>3, TakeBlockIs
  <2> HIDE DEF x, s1
  <2>2. c \in [1 .. PerBlk -> Slot]
    <3>1. [inode |-> TextInode, name |-> t] \in Slot /\ FreeSlot \in Slot
      BY Sizes_Nat DEF Slot, FreeSlot, TextInode
    <3> QED
      BY <3>1 DEF TextBlock
  <2> HIDE DEF c
  <2>3. Agrees(s2) /\ s2.disk = [s1.disk EXCEPT !.blk[x] = c] /\ s2 \in CallType
    <3>1. Agrees(s2) /\ s2.disk = [s1.disk EXCEPT !.blk[x] = c]
      <4>1. Agrees(s1) /\ x \in Blocks
        BY <2>1
      <4> QED
        BY <2>2, <4>1, PutBlockIs
    <3> QED
      BY <3>1 DEF Agrees
  <2>4. in2 \in InodeType
    <3> DEFINE o == at.in
    <3>1. o \in InodeType
      BY <1>1
    <3>2. in2 = [o EXCEPT !.blocks[b] = x]
      OBVIOUS
    <3> HIDE DEF o, in2
    <3> QED
      BY <1>1, <2>1, <3>1, <3>2 DEF InodeType
  <2>5. done2 \in 0 .. size
    <3> DEFINE S == {PerBlk, size - at.done}
    <3>1. size - at.done \in Nat /\ at.done \in Nat
      BY <1>1, <1>3
    <3>2. S \subseteq Nat /\ S # {} /\ size - at.done \in S
      BY <3>1, Sizes_Nat
    <3> HIDE DEF S
    <3>3. Min(S) \in Nat /\ Min(S) <= size - at.done
      BY <3>2, MinIs
    <3>4. n = Min(S)
      BY DEF S
    <3> HIDE DEF n
    <3> QED
      BY <1>1, <3>1, <3>3, <3>4
  <2> HIDE DEF in2, done2, s2
  <2>6. r = [st |-> s2, in |-> in2, done |-> done2]
    BY <1>1, <1>3
  <2>7. r \in Filling(size) /\ r.st = s2 /\ r.in = in2 /\ r.done = done2
    BY <2>3, <2>4, <2>5, <2>6 DEF Filling
  <2>8. r.st.disk = [MarkBlocks(d, d.bmap \cup {x}, d.free_blocks - 1) EXCEPT !.blk[x] = TextBlock(t, n)]
    BY <2>1, <2>3, <2>7 DEF c
  <2>9. BlockWritten(at, b, t, size, r)
    BY <2>1, <2>7, <2>8 DEF in2, done2, x, BlockWritten
  <2> QED
    BY <1>3, <2>7, <2>9 DEF r, Stuck
<1> QED
  BY <1>2, <1>3

(* and all of them: what the first b of them have become, when the disk    *)
(* was d before.                                                           *)
IsText(c) == \A k \in Slots : c[k].inode \in {0, TextInode}
Filled(d, i, size, b, at) ==
  LET e == at.st.disk
      blocks == at.in.blocks
  IN /\ at \in Filling(size) /\ at.in.type = d.inode[i].type
     /\ Sound(e, d.imap) /\ Counted(e) /\ e.inode = d.inode /\ e.imap = d.imap /\ d.bmap \subseteq e.bmap
     /\ \A c \in Places : c > b => blocks[c] = 0
     /\ \A c \in Places : blocks[c] # 0 => blocks[c] \in e.bmap \ d.bmap /\ IsText(e.blk[blocks[c]])
     /\ \A a, c \in Places : blocks[a] # 0 /\ blocks[a] = blocks[c] => a = c
     /\ \A y \in e.bmap : y \in d.bmap \/ \E c \in Places : blocks[c] = y

LEMMA TextBlockIs ==
  ASSUME NEW t \in Texts, NEW n
  PROVE  /\ TextBlock(t, n) \in [1 .. PerBlk -> Slot] /\ IsText(TextBlock(t, n))
         /\ \A k \in Slots : TextBlock(t, n)[k].inode = TextInode => TextBlock(t, n)[k].name \in Texts
<1>1. [inode |-> TextInode, name |-> t] \in Slot /\ FreeSlot \in Slot
  BY Sizes_Nat DEF Slot, FreeSlot, TextInode
<1>2. \A k \in Slots : TextBlock(t, n)[k] = [inode |-> TextInode, name |-> t] \/ TextBlock(t, n)[k] = FreeSlot
  BY DEF TextBlock, Slots
<1>3. FreeSlot.inode = 0
  BY DEF FreeSlot
<1> QED
  BY <1>1, <1>2, <1>3, Sizes_Nat DEF TextBlock, IsText

LEMMA FilledNext ==
  ASSUME NEW d, NEW i \in d.imap, NEW size \in Nat, NEW b \in Places, NEW at, Filled(d, i, size, b - 1, at),
         NEW t \in Texts
  PROVE  Filled(d, i, size, b, WriteBlock(at, b, t, size))
<1> DEFINE r == WriteBlock(at, b, t, size)
           d0 == at.st.disk
           e == r.st.disk
           x == Min(FreeBlocks(at.st))
           old == at.in.blocks
           blocks == r.in.blocks
           R == d.imap
<1>1. /\ at \in Filling(size) /\ at.in.type = d.inode[i].type /\ at.in \in InodeType
      /\ Sound(d0, R) /\ Counted(d0) /\ d0.inode = d.inode /\ d0.imap = R /\ d.bmap \subseteq d0.bmap
      /\ \A c \in Places : c > b - 1 => old[c] = 0
      /\ \A c \in Places : old[c] # 0 => old[c] \in d0.bmap \ d.bmap /\ IsText(d0.blk[old[c]])
      /\ \A a, c \in Places : old[a] # 0 /\ old[a] = old[c] => a = c
      /\ \A y \in d0.bmap : y \in d.bmap \/ \E c \in Places : old[c] = y
      /\ d0 \in DiskType /\ R \subseteq Inodes
  <2>1. Sound(d0, R) /\ d0 \in DiskType /\ d0.imap = R
    BY DEF Filled, Sound
  <2>2. R \subseteq Inodes
    BY <2>1 DEF DiskType
  <2> QED
    BY <2>1, <2>2 DEF Filled, Filling
<1>2. /\ r \in Filling(size)
      /\ \/ r = at
         \/ /\ x \in Blocks \ d0.bmap
            /\ r.in = [at.in EXCEPT !.blocks[b] = x]
            /\ \E n : e = [MarkBlocks(d0, d0.bmap \cup {x}, d0.free_blocks - 1) EXCEPT !.blk[x] = TextBlock(t, n)]
  <2>1. at \in Filling(size)
    BY <1>1
  <2> HIDE DEF d0, x, e
  <2>2. r \in Filling(size) /\ (r = at \/ BlockWritten(at, b, t, size, r))
    BY <2>1, WriteBlockIs
  <2> QED
    BY <2>2 DEF BlockWritten, d0, x, e
<1>3. b \in Nat /\ Places \subseteq Nat /\ Places = 1 .. NDirect
  BY Sizes_Nat DEF Places
<1> HIDE DEF r
<1>4. CASE r = at
  <2>1. \A c \in Places : c > b => blocks[c] = 0
    BY <1>1, <1>3, <1>4
  <2> QED
    BY <1>1, <1>2, <1>4, <2>1 DEF Filled, r
<1>5. CASE r # at
  <2> HIDE DEF x
  <2>1. PICK n : e = [MarkBlocks(d0, d0.bmap \cup {x}, d0.free_blocks - 1) EXCEPT !.blk[x] = TextBlock(t, n)]
    BY <1>2, <1>5
  <2> DEFINE c0 == TextBlock(t, n)
             d1 == MarkBlocks(d0, d0.bmap \cup {x}, d0.free_blocks - 1)
  <2>2. x \in Blocks /\ x \notin d0.bmap /\ x # 0 /\ e = [d1 EXCEPT !.blk[x] = c0]
    BY <1>2, <1>5, <2>1, Sizes_Nat
  <2>3. /\ c0 \in [1 .. PerBlk -> Slot] /\ IsText(c0)
        /\ \A k \in Slots : c0[k].inode = TextInode => c0[k].name \in Texts
    BY TextBlockIs
  <2> HIDE DEF c0
  <2>4. /\ d1 \in DiskType /\ d1.inode = d0.inode /\ d1.blk = d0.blk /\ d1.imap = d0.imap
        /\ d1.bmap = d0.bmap \cup {x} /\ d1.free_blocks = d0.free_blocks - 1 /\ d1.free_inodes = d0.free_inodes
    <3> DEFINE f == d0.free_blocks - 1
               S == d0.bmap \cup {x}
    <3>1. d0 \in DiskType /\ S \in SUBSET Blocks /\ f \in Int
      BY <1>1, <2>2 DEF DiskType
    <3>2. d1 = MarkBlocks(d0, S, f)
      OBVIOUS
    <3> HIDE DEF d0, S, f, d1
    <3>3. /\ d1 \in DiskType /\ d1.inode = d0.inode /\ d1.blk = d0.blk /\ d1.imap = d0.imap
          /\ d1.bmap = S /\ d1.free_blocks = f /\ d1.free_inodes = d0.free_inodes
      BY <3>1, <3>2 DEF MarkBlocks, DiskType
    <3> QED
      BY <3>3 DEF S, f
  <2> HIDE DEF d1, d0, e
  <2>5. /\ e \in DiskType /\ e.inode = d1.inode /\ e.blk = [d1.blk EXCEPT ![x] = c0] /\ e.imap = d1.imap
        /\ e.bmap = d1.bmap /\ e.free_blocks = d1.free_blocks /\ e.free_inodes = d1.free_inodes
    BY <2>2, <2>3, <2>4 DEF DiskType
  <2>6. Counted(e)
    <3>1. /\ d0 \in DiskType /\ Counted(d0) /\ x \in Blocks \ d0.bmap
          /\ e.bmap = d0.bmap \cup {x} /\ e.free_blocks = d0.free_blocks - 1
          /\ e.imap = d0.imap /\ e.free_inodes = d0.free_inodes
      BY <1>1, <2>2, <2>4, <2>5
    <3> QED
      BY <3>1, CountTake
  <2>7. Sound(d1, R)
    BY <1>1, <2>4, MarksKeep
  <2>8. \A j \in R, c \in Places : Ptr(d1, j, c) # x
    BY <1>1, <2>2, <2>4 DEF Sound, Owned, Ptr
  <2>9. Sound(e, R)
    <3>1. R \subseteq e.imap /\ e.bmap = d1.bmap /\ e.inode = d1.inode /\ e.blk = [d1.blk EXCEPT ![x] = c0]
      BY <1>1, <2>4, <2>5
    <3>2. x \in Blocks /\ e \in DiskType /\ c0 \in [1 .. PerBlk -> Slot]
      BY <2>2, <2>3, <2>5
    <3> HIDE DEF R
    <3> QED
      BY <2>3, <2>7, <2>8, <3>1, <3>2, BlockElsewhere
  <2>10. /\ r.in.type = d.inode[i].type
         /\ \A c \in Places : blocks[c] = IF c = b THEN x ELSE old[c]
    <3> DEFINE o == at.in
    <3>1. o \in InodeType /\ r.in = [o EXCEPT !.blocks[b] = x]
      BY <1>1, <1>2, <1>5
    <3> HIDE DEF o
    <3>2. r.in.type = o.type /\ r.in.blocks = [o.blocks EXCEPT ![b] = x] /\ o.blocks \in [1 .. NDirect -> {0} \cup Blocks]
      BY <3>1 DEF InodeType
    <3>3. \A c \in Places : blocks[c] = IF c = b THEN x ELSE o.blocks[c]
      BY <1>3, <3>2
    <3> QED
      BY <1>1, <3>2, <3>3 DEF o
  <2> HIDE DEF old, blocks
  <2>11. \A c \in Places : c > b => blocks[c] = 0
    BY <1>1, <1>3, <2>10
  <2>12. ASSUME NEW c \in Places, blocks[c] # 0
         PROVE  blocks[c] \in e.bmap \ d.bmap /\ IsText(e.blk[blocks[c]])
    <3>1. CASE c = b
      <4>1. e.blk[x] = c0
        BY <2>2, <2>4, <2>5 DEF DiskType
      <4> QED
        BY <1>1, <2>2, <2>3, <2>4, <2>5, <2>10, <3>1, <4>1
    <3>2. CASE c # b
      <4>1. blocks[c] = old[c] /\ old[c] \in d0.bmap \ d.bmap /\ IsText(d0.blk[old[c]])
        BY <1>1, <2>10, <2>12, <3>2
      <4>2. old[c] # x /\ old[c] \in Blocks
        BY <1>1, <2>2, <4>1 DEF DiskType
      <4>3. e.blk[old[c]] = d0.blk[old[c]]
        BY <2>4, <2>5, <4>2 DEF DiskType
      <4> QED
        BY <2>4, <2>5, <4>1, <4>3
    <3> QED
      BY <3>1, <3>2
  <2>13. \A a, c \in Places : blocks[a] # 0 /\ blocks[a] = blocks[c] => a = c
    <3>1. \A c \in Places : old[c] # x
      BY <1>1, <2>2
    <3> QED
      BY <1>1, <2>10, <3>1
  <2>14. ASSUME NEW y \in e.bmap PROVE y \in d.bmap \/ \E c \in Places : blocks[c] = y
    <3>1. CASE y = x
      BY <2>10, <3>1
    <3>2. CASE y # x /\ y \notin d.bmap
      <4>1. y \in d0.bmap
        BY <2>4, <2>5, <3>2
      <4>2. PICK c \in Places : old[c] = y
        BY <1>1, <3>2, <4>1
      <4>3. y # 0
        BY <1>1, <4>1, Sizes_Nat DEF DiskType
      <4>4. c # b
        BY <1>1, <1>3, <4>2, <4>3
      <4> QED
        BY <2>10, <4>2, <4>4
    <3> QED
      BY <3>1, <3>2
  <2>15. e.inode = d.inode /\ e.imap = R /\ d.bmap \subseteq e.bmap
    BY <1>1, <2>4, <2>5
  <2> QED
    BY <1>2, <2>6, <2>9, <2>10, <2>11, <2>12, <2>13, <2>14, <2>15 DEF Filled, e, blocks, r
<1> QED
  BY <1>4, <1>5

Written(st, i, t, size, f) ==
  /\ f[0] = [st |-> st, done |-> 0, in |-> [st.disk.inode[i] EXCEPT !.size = size]]
  /\ \A b \in Places : f[b] = WriteBlock(f[b - 1], b, t, size)

(* The steps of the last part of spfs_write(), in any set they stay in.    *)
LEMMA WriteDataSteps ==
  ASSUME NEW st, NEW i, NEW t, NEW size, NEW V,
         [st |-> st, done |-> 0, in |-> [st.disk.inode[i] EXCEPT !.size = size]] \in V,
         \A b \in Places, at \in V : WriteBlock(at, b, t, size) \in V
  PROVE  \E f : /\ Written(st, i, t, size, f) /\ f[0] \in V
                /\ WriteData(st, i, t, size) =
                     Done(PutInode(f[NDirect].st, i, f[NDirect].in), f[NDirect].done)
<1> DEFINE m == NDirect
           v0 == [st |-> st, done |-> 0, in |-> [st.disk.inode[i] EXCEPT !.size = size]]
           D(f) == [b \in 0 .. NDirect |->
                      IF b = 0 THEN [st |-> st, done |-> 0,
                                     in |-> [st.disk.inode[i] EXCEPT !.size = size]]
                               ELSE WriteBlock(f[b - 1], b, t, size)]
           f == CHOOSE h : h = D(h)
           step == [b \in 1 .. m |-> [at \in V |-> WriteBlock(at, b, t, size)]]
<1>1. m \in Nat /\ Places = 1 .. m
  BY Sizes_Nat DEF Places
<1>2. v0 \in V
  OBVIOUS
<1> HIDE DEF v0
<1>3. step \in [1 .. m -> [V -> V]]
  BY <1>1
<1>4. PICK g \in [0 .. m -> V] : g[0] = v0 /\ \A b \in 1 .. m : g[b] = step[b][g[b - 1]]
  <2> HIDE DEF m, step
  <2>1. \E g \in [0 .. m -> V] : Recurs(g, m, v0, step)
    BY <1>1, <1>2, <1>3, Recursion
  <2> QED
    BY <2>1 DEF Recurs
<1>5. ASSUME NEW b \in 1 .. m PROVE g[b] = WriteBlock(g[b - 1], b, t, size)
  <2>1. b - 1 \in 0 .. m
    BY <1>1
  <2>2. g[b - 1] \in V
    BY <1>4, <2>1
  <2> QED
    BY <2>2, <1>4
<1>6. g = D(g)
  <2>1. \A b \in 0 .. m : b # 0 => b \in 1 .. m
    BY <1>1
  <2>2. DOMAIN g = 0 .. m
    BY <1>4
  <2> HIDE DEF step
  <2> QED
    BY <1>4, <1>5, <2>1, <2>2 DEF v0
<1>7. f = D(f)
  <2> HIDE DEF D
  <2> QED
    BY <1>6
<1>8. f[0] = v0 /\ \A b \in 1 .. m : f[b] = WriteBlock(f[b - 1], b, t, size)
  <2>1. \A b \in 0 .. m : f[b] = IF b = 0 THEN v0 ELSE WriteBlock(f[b - 1], b, t, size)
    <3> HIDE DEF f
    <3> QED
      BY <1>7 DEF v0
  <2> HIDE DEF f
  <2>2. 0 \in 0 .. m /\ \A b \in 1 .. m : b \in 0 .. m /\ b # 0
    BY <1>1
  <2> QED
    BY <2>1, <2>2
<1>9. WriteData(st, i, t, size) = Done(PutInode(f[NDirect].st, i, f[NDirect].in), f[NDirect].done)
  BY DEF WriteData
<1> HIDE DEF f
<1> QED
  BY <1>1, <1>2, <1>8, <1>9 DEF Written, v0

LEMMA WriteDataFollows ==
  ASSUME NEW st, Agrees(st), NEW i \in Inodes, NEW t \in Texts, NEW size \in 0 .. Capacity
  PROVE  \E f : /\ Written(st, i, t, size, f) /\ f[0] \in Filling(size)
                /\ WriteData(st, i, t, size) =
                     Done(PutInode(f[NDirect].st, i, f[NDirect].in), f[NDirect].done)
<1> DEFINE o == st.disk.inode[i]
           in == [o EXCEPT !.size = size]
           V == Filling(size)
<1>1. o \in InodeType /\ st \in CallType /\ size \in Nat
  BY Sizes_Nat DEF Agrees, CallType, DiskType
<1>2. in \in InodeType
  <2> HIDE DEF o
  <2> QED
    BY <1>1 DEF InodeType
<1>3. [st |-> st, done |-> 0, in |-> in] \in V
  <2> HIDE DEF in
  <2> QED
    BY <1>1, <1>2 DEF Filling
<1>4. \A b \in Places, at \in V : WriteBlock(at, b, t, size) \in V
  BY <1>1, WriteBlockIs
<1> HIDE DEF V
<1> QED
  BY <1>3, <1>4, WriteDataSteps DEF V

LEMMA WriteDataIs ==
  ASSUME NEW st, Agrees(st), Whole(st.disk), NEW i \in st.disk.imap, st.disk.inode[i].blocks = NoBlocks,
         NEW t \in Texts, NEW size \in 0 .. Capacity
  PROVE  LET r == WriteData(st, i, t, size)
         IN Agrees(r.st) /\ Whole(r.st.disk)
<1> DEFINE d == st.disk
           R == d.imap
<1>1. /\ d \in DiskType /\ R \subseteq Inodes /\ i \in Inodes /\ i \in R /\ size \in Nat
      /\ Sound(d, R) /\ Held(d, R) /\ Counted(d) /\ NDirect \in Nat /\ Places = 1 .. NDirect
  <2>1. d \in DiskType /\ Sound(d, R) /\ Held(d, R) /\ Counted(d)
    BY DEF Whole, Sound
  <2> QED
    BY <2>1, Sizes_Nat DEF DiskType, Places
<1>2. PICK f : /\ Written(st, i, t, size, f) /\ f[0] \in Filling(size)
               /\ WriteData(st, i, t, size) =
                    Done(PutInode(f[NDirect].st, i, f[NDirect].in), f[NDirect].done)
  BY <1>1, WriteDataFollows
<1> DEFINE Good == {b \in 0 .. NDirect : Filled(d, i, size, b, f[b])}
<1>3. 0 \in Good
  <2> DEFINE o == d.inode[i]
  <2>1. f[0].st = st /\ f[0].in = [o EXCEPT !.size = size]
    BY <1>2 DEF Written
  <2>2. o \in InodeType /\ o.blocks = NoBlocks
    BY <1>1 DEF DiskType
  <2>3. f[0].in.type = o.type /\ f[0].in.blocks = NoBlocks
    <3> HIDE DEF o
    <3> QED
      BY <2>1, <2>2 DEF InodeType
  <2>4. \A c \in Places : f[0].in.blocks[c] = 0
    BY <2>3 DEF NoBlocks, Places
  <2>5. Filled(d, i, size, 0, f[0])
    BY <1>1, <1>2, <2>1, <2>3, <2>4 DEF Filled
  <2> QED
    BY <1>1, <2>5
<1>4. ASSUME NEW b \in 1 .. NDirect, b - 1 \in Good PROVE b \in Good
  <2>1. b \in Places /\ b \in 0 .. NDirect /\ f[b] = WriteBlock(f[b - 1], b, t, size)
    BY <1>1, <1>2 DEF Written
  <2>2. Filled(d, i, size, b - 1, f[b - 1])
    BY <1>4
  <2>3. Filled(d, i, size, b, WriteBlock(f[b - 1], b, t, size))
    <3> HIDE DEF d
    <3> QED
      BY <1>1, <2>1, <2>2, FilledNext
  <2> QED
    BY <2>1, <2>3
<1>5. Filled(d, i, size, NDirect, f[NDirect])
  <2>1. \A b \in 0 .. NDirect : b \in Good
    <3> HIDE DEF Good
    <3> QED
      BY <1>1, <1>3, <1>4, Reaches
  <2> QED
    BY <1>1, <2>1
<1> DEFINE at == f[NDirect]
           n == at.in
           d1 == at.st.disk
           w == PutInode(at.st, i, n)
           e == w.disk
           r == WriteData(st, i, t, size)
<1>6. /\ at.st \in CallType /\ Agrees(at.st) /\ n \in InodeType /\ n.type = d.inode[i].type
      /\ Sound(d1, R) /\ d1 \in DiskType /\ Counted(d1) /\ d1.inode = d.inode /\ d1.imap = R /\ d.bmap \subseteq d1.bmap
      /\ \A c \in Places : n.blocks[c] # 0 => n.blocks[c] \in d1.bmap \ d.bmap /\ IsText(d1.blk[n.blocks[c]])
      /\ \A a, c \in Places : n.blocks[a] # 0 /\ n.blocks[a] = n.blocks[c] => a = c
      /\ \A y \in d1.bmap : y \in d.bmap \/ \E c \in Places : n.blocks[c] = y
  BY <1>5, Zenon DEF Filled, Filling, Sound
<1>7. r.st = w
  BY <1>2 DEF Done
<1> HIDE DEF at, n, d1, e, r, w
<1>8. Agrees(w) /\ e = [d1 EXCEPT !.inode[i] = n] /\ e \in DiskType
  <2>1. Agrees(w) /\ e = [d1 EXCEPT !.inode[i] = n]
    BY <1>1, <1>6, PutInodeIs DEF d1, e, w
  <2> QED
    BY <2>1 DEF Agrees, CallType, e
<1>9. /\ e.inode = [d1.inode EXCEPT ![i] = n] /\ e.blk = d1.blk /\ e.imap = d1.imap /\ e.bmap = d1.bmap
      /\ CachedPart(e) = CachedPart(d1)
  <2>1. /\ e.inode = [d1.inode EXCEPT ![i] = n] /\ e.blk = d1.blk /\ e.imap = d1.imap /\ e.bmap = d1.bmap
        /\ e.free_blocks = d1.free_blocks /\ e.free_inodes = d1.free_inodes
    BY <1>6, <1>8 DEF DiskType
  <2> QED
    BY <2>1 DEF CachedPart
<1>10. Counted(e)
  BY <1>6, <1>9, CountSame
<1>11. \A j \in R, c \in Places : Ptr(d1, j, c) = Ptr(d, j, c) /\ (Ptr(d, j, c) # 0 => Ptr(d, j, c) \in d.bmap)
  BY <1>1, <1>6 DEF Ptr, Sound, Owned
<1>12. Sound(e, R)
  <2>1. \A c \in Places : n.blocks[c] # 0 =>
          /\ n.blocks[c] \in d1.bmap
          /\ \A j \in R, a \in Places : Ptr(d1, j, a) # n.blocks[c]
          /\ \A k \in Slots : d1.blk[n.blocks[c]][k].inode \in {0, TextInode}
    BY <1>6, <1>11 DEF IsText
  <2>2. d1.inode[i].blocks = NoBlocks /\ n.type = d1.inode[i].type
    BY <1>6
  <2>3. TextGiven(d1, e, R, i, n)
    BY <1>1, <1>6, <1>8, <1>9, <2>1, <2>2 DEF TextGiven
  <2> QED
    BY <2>3, FillKeeps
<1>13. Held(e, R)
  <2> SUFFICES ASSUME NEW y \in e.bmap PROVE \E j \in R, c \in Places : Ptr(e, j, c) = y
    BY DEF Held
  <2>1. \A j \in R : e.inode[j] = IF j = i THEN n ELSE d.inode[j]
    BY <1>1, <1>6, <1>9 DEF DiskType
  <2>2. CASE y \in d.bmap
    <3>1. PICK j \in R : \E c \in Places : Ptr(d, j, c) = y
      BY <1>1, <2>2 DEF Held
    <3>2. PICK c \in Places : Ptr(d, j, c) = y
      BY <3>1
    <3>3. y # 0
      BY <1>1, <2>2, Sizes_Nat DEF DiskType
    <3>4. j # i
      BY <3>2, <3>3 DEF Ptr, NoBlocks, Places
    <3>5. Ptr(e, j, c) = y
      BY <2>1, <3>2, <3>4 DEF Ptr
    <3> QED
      BY <3>5
  <2>3. CASE y \notin d.bmap
    <3>1. PICK c \in Places : n.blocks[c] = y
      BY <1>6, <1>9, <2>3
    <3>2. Ptr(e, i, c) = y
      BY <1>1, <2>1, <3>1 DEF Ptr
    <3> QED
      BY <1>1, <3>2
  <2> QED
    BY <2>2, <2>3
<1>14. Whole(e)
  BY <1>6, <1>9, <1>10, <1>12, <1>13 DEF Whole
<1> QED
  BY <1>7, <1>8, <1>14 DEF e, r
-----------------------------------------------------------------------------
LEMMA PathParts ==
  ASSUME NEW path \in Seq(Names)
  PROVE  /\ ParentPath(path) \in Seq(Names)
         /\ NameOf(path) \in Names \cup {NoName}
         /\ Stored(NameOf(path)) \in Names \cup {NoName}
<1>1. CASE path = <<>>
  BY <1>1, SpaceFSAssumption DEF ParentPath, NameOf, Stored
<1>2. CASE path # <<>>
  <2>1. Len(path) \in Nat \ {0} /\ Len(path) - 1 \in 0 .. Len(path)
    BY <1>2
  <2>2. path[Len(path)] \in Names
    BY <2>1
  <2>3. SubSeq(path, 1, Len(path) - 1) \in Seq(Names)
    BY <2>1
  <2> QED
    BY <1>2, <2>2, <2>3, SpaceFSAssumption DEF ParentPath, NameOf, Stored, Front, Last
<1> QED
  BY <1>1, <1>2

(* The common part of spfs_write() and spfs_mkdir(): a new inode.          *)
Planted(d, e, i, type) ==
  /\ Whole(e) /\ i \in Inodes \ {0} /\ i \notin d.imap
  /\ e.inode = [d.inode EXCEPT ![i] = Inode(type)] /\ e.blk = d.blk
  /\ e.imap = d.imap \cup {i} /\ e.bmap = d.bmap
  /\ \A j \in Dirs(e, e.imap), b \in Places, k \in Slots : IsEntry(e, j, b, k) => EntryAt(e, j, b, k) # i

LEMMA CreateMade ==
  ASSUME NEW st, Agrees(st), Whole(st.disk), FreeInodes(st) # {}, NEW path \in Seq(Names),
         NEW type \in Types \ {"livre"}
  PROVE  LET i == Min(FreeInodes(st))
             p == PathFind(st.disk, ParentPath(path)).cur
         IN /\ p \in st.disk.imap /\ Stored(NameOf(path)) \in Names \cup {NoName}
            /\ Inode(type).blocks = NoBlocks /\ Inode(type).type # "livre" /\ Inode(type) \in InodeType
            /\ \E s : /\ Agrees(s) /\ Planted(st.disk, s.disk, i, type)
                     /\ Create(st, type, path) = PutEntry(s, p, i, Stored(NameOf(path)))
<1> DEFINE d == st.disk
           R == d.imap
           i == Min(FreeInodes(st))
           Q == R \cup {i}
           s1 == TakeInode(st)
           d1 == s1.disk
           n == Inode(type)
           s2 == PutInode(s1, i, n)
           d2 == s2.disk
           p == PathFind(d, ParentPath(path)).cur
           r == PutEntry(s2, p, i, Stored(NameOf(path)))
<1>1. d \in DiskType /\ Sound(d, R) /\ Held(d, R) /\ Counted(d)
  BY DEF Whole, Sound
<1>2. R \subseteq Inodes
  BY <1>1 DEF DiskType
<1>3. /\ i \in Inodes \ {0} /\ i \notin R /\ Agrees(s1)
      /\ d1 = MarkInodes(d, Q, d.free_inodes - 1)
  BY TakeInodeIs
<1>4. p \in R /\ Stored(NameOf(path)) \in Names \cup {NoName}
  BY <1>1, PathParts, PathFindIs DEF At
<1>5. Create(st, type, path) = r
  BY DEF Create, AddEntry
<1> HIDE DEF d, i, s1, p, r
<1>6. d1 \in DiskType
  BY <1>3 DEF Agrees, CallType
<1>7. /\ d1.inode = d.inode /\ d1.blk = d.blk /\ d1.imap = Q /\ d1.bmap = d.bmap
      /\ d1.free_blocks = d.free_blocks /\ d1.free_inodes = d.free_inodes - 1
  BY <1>1, <1>3 DEF MarkInodes, DiskType
<1>8. n \in InodeType /\ n.blocks = NoBlocks /\ n.type # "livre"
  <2>1. NoBlocks \in [1 .. NDirect -> {0} \cup Blocks] /\ 0 \in 0 .. Capacity
    BY Sizes_Nat DEF NoBlocks
  <2> QED
    BY <2>1 DEF Inode, InodeType
<1>9. Agrees(s2) /\ d2 = [d1 EXCEPT !.inode[i] = n] /\ d2 \in DiskType
  <2>1. Agrees(s2) /\ d2 = [d1 EXCEPT !.inode[i] = n]
    <3>1. Agrees(s1) /\ i \in Inodes /\ n \in InodeType
      BY <1>3, <1>8
    <3> HIDE DEF n
    <3> QED
      BY <3>1, PutInodeIs
  <2> QED
    BY <2>1 DEF Agrees, CallType
<1> HIDE DEF s2, d1, d2, n
<1>10. /\ d2.inode = [d.inode EXCEPT ![i] = n] /\ d2.blk = d.blk /\ d2.imap = Q /\ d2.bmap = d.bmap
       /\ d2.free_blocks = d.free_blocks /\ d2.free_inodes = d.free_inodes - 1
  BY <1>6, <1>7, <1>9 DEF DiskType
<1>11. Sound(d2, R)
  <2>1. i \in Inodes \ R /\ R \subseteq d2.imap
    BY <1>3, <1>10
  <2> QED
    BY <1>1, <1>8, <1>9, <1>10, <2>1, InodeElsewhere, Zenon
<1>12. d2.inode[i] = n /\ i \in Q /\ i \notin R /\ i \in Inodes
  BY <1>1, <1>3, <1>10 DEF DiskType
<1>13. Sound(d2, Q)
  <2>1. i \in d2.imap \ R
    BY <1>10, <1>12
  <2> HIDE DEF R
  <2> QED
    BY <1>8, <1>11, <1>12, <2>1, JoinKeeps
<1>14. Held(d2, Q)
  <2> SUFFICES ASSUME NEW y \in d.bmap PROVE \E j \in Q, b \in Places : Ptr(d2, j, b) = y
    BY <1>10 DEF Held
  <2>1. PICK j \in R : \E b \in Places : Ptr(d, j, b) = y
    BY <1>1 DEF Held
  <2>2. PICK b \in Places : Ptr(d, j, b) = y
    BY <2>1
  <2>3. Ptr(d2, j, b) = y
    BY <1>1, <1>2, <1>10, <1>12, <2>2 DEF Ptr, DiskType
  <2> QED
    BY <2>3
<1>15. Counted(d2)
  <2>1. i \in Inodes \ d.imap /\ d2.imap = d.imap \cup {i}
    BY <1>3, <1>10
  <2> QED
    BY <1>1, <1>10, <2>1, CountTakeInode
<1>16. ASSUME NEW j \in Dirs(d2, Q), NEW b \in Places, NEW k \in Slots, IsEntry(d2, j, b, k)
       PROVE  EntryAt(d2, j, b, k) # i
  <2>1. Ptr(d2, i, b) = 0
    BY <1>8, <1>12 DEF Ptr, NoBlocks, Places
  <2>2. j # i
    BY <1>16, <2>1 DEF IsEntry
  <2>3. j \in Dirs(d2, R)
    BY <2>2 DEF Dirs
  <2>4. EntryAt(d2, j, b, k) \in R
    BY <1>11, <1>16, <2>3 DEF Sound, Linked
  <2> QED
    BY <1>12, <2>4
<1>17. Whole(d2)
  BY <1>10, <1>13, <1>14, <1>15 DEF Whole
<1>18. Planted(d, d2, i, type)
  BY <1>3, <1>10, <1>12, <1>16, <1>17 DEF Planted, n
<1>19. Inode(type).blocks = NoBlocks /\ Inode(type).type # "livre" /\ Inode(type) \in InodeType
  BY <1>8 DEF n
<1> QED
  BY <1>4, <1>5, <1>9, <1>18, <1>19 DEF i, p, d, d2, r

Blank(d, i) == i \in d.imap /\ d.inode[i].blocks = NoBlocks

LEMMA PlantedGrows ==
  ASSUME NEW s, Agrees(s), NEW d, NEW i, NEW type, Planted(d, s.disk, i, type), Inode(type).blocks = NoBlocks,
         NEW p \in d.imap, NEW name \in Names \cup {NoName}
  PROVE  LET r == PutEntry(s, p, i, name)
         IN Agrees(r) /\ Whole(r.disk) /\ Blank(r.disk, i)
<1> DEFINE c == s.disk
           Q == c.imap
           r == PutEntry(s, p, i, name)
           e == r.disk
<1>1. /\ Whole(c) /\ i \in Inodes \ {0} /\ i \notin d.imap /\ Q = d.imap \cup {i}
      /\ c.inode = [d.inode EXCEPT ![i] = Inode(type)]
      /\ \A j \in Dirs(c, Q), b \in Places, k \in Slots : IsEntry(c, j, b, k) => EntryAt(c, j, b, k) # i
  BY DEF Planted
<1>2. c \in DiskType /\ Counted(c) /\ Sound(c, Q) /\ Held(c, Q)
  BY <1>1 DEF Whole, Sound
<1>3. p \in Q /\ i \in Q \ {0, p}
  BY <1>1
<1>4. c.inode[i] = Inode(type)
  <2>1. c.inode \in [Inodes -> InodeType]
    BY <1>2 DEF DiskType
  <2>2. DOMAIN d.inode = Inodes
    BY <1>1, <2>1
  <2> QED
    BY <1>1, <2>2
<1>5. /\ Agrees(r) /\ Counted(e) /\ Sound(e, Q) /\ (Held(c, Q) => Held(e, Q))
      /\ e.imap = c.imap /\ \A j \in Q \ {p} : e.inode[j] = c.inode[j]
  <2>1. \A j \in Dirs(c, Q), b \in Places, k \in Slots : IsEntry(c, j, b, k) => EntryAt(c, j, b, k) # i
    BY <1>1
  <2>2. Counted(c) /\ Sound(c, Q)
    BY <1>2
  <2>3. name \in Names \cup {NoName}
    OBVIOUS
  <2> HIDE DEF Q
  <2> QED
    BY <2>1, <2>2, <2>3, <1>3, AddEntryIs
<1> HIDE DEF r
<1>6. Whole(e) /\ Blank(e, i)
  BY <1>2, <1>3, <1>4, <1>5 DEF Whole, Blank
<1> QED
  BY <1>5, <1>6 DEF r

LEMMA CreateIs ==
  ASSUME NEW st, Agrees(st), Whole(st.disk), FreeInodes(st) # {}, NEW path \in Seq(Names),
         NEW type \in Types \ {"livre"}
  PROVE  LET r == Create(st, type, path)
             i == Min(FreeInodes(st))
         IN Agrees(r) /\ Whole(r.disk) /\ i \in r.disk.imap /\ r.disk.inode[i].blocks = NoBlocks
<1> DEFINE d == st.disk
           i == Min(FreeInodes(st))
           p == PathFind(d, ParentPath(path)).cur
           name == Stored(NameOf(path))
           r == Create(st, type, path)
<1>1. p \in d.imap /\ name \in Names \cup {NoName} /\ Inode(type).blocks = NoBlocks
  BY CreateMade
<1>2. PICK s : Agrees(s) /\ Planted(d, s.disk, i, type) /\ r = PutEntry(s, p, i, name)
  BY CreateMade
<1> HIDE DEF d, i, p, name
<1>3. Agrees(PutEntry(s, p, i, name)) /\ Whole(PutEntry(s, p, i, name).disk)
  BY <1>1, <1>2, PlantedGrows
<1>4. Blank(PutEntry(s, p, i, name).disk, i)
  BY <1>1, <1>2, PlantedGrows
<1> QED
  BY <1>2, <1>3, <1>4 DEF i, Blank

(* spfs_write().                                                           *)
LEMMA SpfsWriteIs ==
  ASSUME NEW st, Agrees(st), Whole(st.disk), NEW path \in Seq(Names), NEW t \in Texts, NEW size \in Nat
  PROVE  LET r == SpfsWrite(st, path, t, size)
         IN Agrees(r.st) /\ Whole(r.st.disk)
<1> DEFINE r == SpfsWrite(st, path, t, size)
           found == PathFind(st.disk, path)
           refused == size > Capacity \/ ~ PathFind(st.disk, ParentPath(path)).ok
           i == Min(FreeInodes(st))
           made == Create(st, "arquivo", path)
           cut == Truncate(st, found.cur)
<1>1. r = IF refused THEN Done(st, -1)
          ELSE IF found.ok THEN WriteData(cut, found.cur, t, size)
          ELSE IF FreeInodes(st) = {} THEN Done(st, -1)
          ELSE WriteData(made, i, t, size)
  BY DEF SpfsWrite
<1>2. found \in At(st.disk.imap) /\ found.cur \in st.disk.imap
  <2>1. Sound(st.disk, st.disk.imap)
    BY DEF Whole
  <2>2. found \in At(st.disk.imap)
    BY <2>1, PathFindIs
  <2> HIDE DEF found
  <2> QED
    BY <2>2 DEF At
<1> HIDE DEF r, found
<1>3. CASE refused \/ (~ found.ok /\ FreeInodes(st) = {})
  <2>1. r = Done(st, -1)
    BY <1>1, <1>3
  <2>2. r.st = st
    BY <2>1 DEF Done
  <2> QED
    BY <2>2 DEF r
<1>4. CASE ~ refused /\ found.ok
  <2>1. r = WriteData(cut, found.cur, t, size) /\ size \in 0 .. Capacity
    BY <1>1, <1>4, Sizes_Nat
  <2>2. Agrees(cut) /\ Whole(cut.disk) /\ found.cur \in cut.disk.imap /\ cut.disk.inode[found.cur].blocks = NoBlocks
    BY <1>2, TruncateIs
  <2> HIDE DEF cut
  <2> QED
    BY <2>1, <2>2, WriteDataIs DEF r
<1>5. CASE ~ refused /\ ~ found.ok /\ FreeInodes(st) # {}
  <2>1. r = WriteData(made, i, t, size) /\ size \in 0 .. Capacity
    BY <1>1, <1>5, Sizes_Nat
  <2>2. Agrees(made) /\ Whole(made.disk) /\ i \in made.disk.imap /\ made.disk.inode[i].blocks = NoBlocks
    BY <1>5, CreateIs DEF Types
  <2> HIDE DEF made, i
  <2> QED
    BY <2>1, <2>2, WriteDataIs DEF r
<1> QED
  BY <1>3, <1>4, <1>5

(* spfs_mkdir().                                                           *)
LEMMA SpfsMkdirIs ==
  ASSUME NEW st, Agrees(st), Whole(st.disk), NEW path \in Seq(Names)
  PROVE  LET r == SpfsMkdir(st, path)
         IN Agrees(r.st) /\ Whole(r.st.disk)
<1>1. CASE ~ PathFind(st.disk, ParentPath(path)).ok \/ FreeInodes(st) = {}
  BY <1>1 DEF SpfsMkdir, Done
<1>2. CASE ~ (~ PathFind(st.disk, ParentPath(path)).ok \/ FreeInodes(st) = {})
  <2> DEFINE made == Create(st, "diretorio", path)
  <2>1. SpfsMkdir(st, path) = Done(made, 0)
    BY <1>2 DEF SpfsMkdir
  <2>2. Agrees(made) /\ Whole(made.disk)
    BY <1>2, CreateIs DEF Types
  <2> HIDE DEF made
  <2> QED
    BY <2>1, <2>2 DEF Done
<1> QED
  BY <1>1, <1>2
-----------------------------------------------------------------------------
(* The end of spfs_unlink(): where one entry leads to the inode, it is the *)
(* one that is cleared.                                                    *)
LeadsTo(d, p, i, g, l) ==
  /\ EntryAt(d, p, g, l) = i
  /\ \E k \in Present(d, p) : g = BlockOf(k) /\ l = PlaceOf(k)
  /\ \A b \in Places, k \in Slots :
       Ptr(d, p, b) # 0 /\ EntryAt(d, p, b, k) = i => b = g /\ k = l

EntryCleared(d, p, g, l) ==
  LET x == Ptr(d, p, g)
  IN [d EXCEPT !.blk[x] = [d.blk[x] EXCEPT ![l].inode = 0]]

LEMMA ClearEntryIs ==
  ASSUME NEW st, Agrees(st), NEW p \in Inodes, NEW i, NEW g, NEW l, LeadsTo(st.disk, p, i, g, l)
  PROVE  Agrees(ClearEntry(st, p, i)) /\ ClearEntry(st, p, i).disk = EntryCleared(st.disk, p, g, l)
<1>0. PICK k0 \in Present(st.disk, p) : g = BlockOf(k0) /\ l = PlaceOf(k0)
  BY DEF LeadsTo
<1> DEFINE d == st.disk
           S == EntriesOf(d, p, i)
           k == Min(S)
           x == Ptr(d, p, g)
           c == [d.blk[x] EXCEPT ![l].inode = 0]
           r == ClearEntry(st, p, i)
<1>1. d \in DiskType
  BY DEF Agrees, CallType
<1>2. g \in Places /\ l \in Slots /\ x \in Blocks /\ Piece(d, p, k0) = d.blk[x][l]
  BY <1>0, <1>1, PieceIs
<1>3. S # {} /\ S \subseteq Nat
  <2>1. k0 \in S
    BY <1>2 DEF EntriesOf, EntryAt, LeadsTo
  <2> QED
    BY <2>1, Sizes_Nat DEF EntriesOf, Present
<1>4. k \in S
  <2> HIDE DEF S
  <2> QED
    BY <1>3, MinIs
<1>5. BlockOf(k) = g /\ PlaceOf(k) = l
  <2> HIDE DEF k
  <2>1. k \in Present(d, p) /\ Piece(d, p, k).inode = i
    BY <1>4 DEF EntriesOf
  <2>2. /\ BlockOf(k) \in Places /\ PlaceOf(k) \in Slots /\ Ptr(d, p, BlockOf(k)) \in Blocks
        /\ Piece(d, p, k) = d.blk[Ptr(d, p, BlockOf(k))][PlaceOf(k)]
    BY <1>1, <2>1, PieceIs
  <2>3. Ptr(d, p, BlockOf(k)) # 0 /\ EntryAt(d, p, BlockOf(k), PlaceOf(k)) = i
    BY <2>1, <2>2, Sizes_Nat DEF EntryAt
  <2> QED
    BY <2>2, <2>3 DEF LeadsTo
<1>6. r = PutBlock(st, x, c)
  <2>1. r = PutBlock(st, d.inode[p].blocks[BlockOf(k)],
                     [d.blk[d.inode[p].blocks[BlockOf(k)]] EXCEPT ![PlaceOf(k)].inode = 0])
    BY <1>3, Zenon DEF ClearEntry
  <2> HIDE DEF k, r
  <2> QED
    BY <1>5, <2>1, Zenon DEF Ptr
<1>7. c \in [1 .. PerBlk -> Slot]
  <2>1. d.blk[x] \in [1 .. PerBlk -> Slot] /\ 1 .. PerBlk = Slots
    BY <1>1, <1>2 DEF DiskType, Slots
  <2> DEFINE old == d.blk[x]
             z == [old[l] EXCEPT !.inode = 0]
  <2>2. c = [old EXCEPT ![l] = z]
    OBVIOUS
  <2>3. old[l] \in Slot
    BY <1>2, <2>1
  <2> HIDE DEF c, old
  <2>4. z \in Slot
    BY <2>3, Sizes_Nat DEF Slot, TextInode
  <2> HIDE DEF z
  <2> QED
    BY <1>2, <2>1, <2>2, <2>4 DEF old
<1> HIDE DEF r, x, c
<1>8. Agrees(r) /\ r.disk = [st.disk EXCEPT !.blk[x] = c]
  BY <1>2, <1>6, <1>7, PutBlockIs
<1> QED
  BY <1>8 DEF r, x, c, EntryCleared

(* spfs_unlink().                                                          *)
Unlinked(d, e, path) ==
  IF PathFind(d, path).ok
  THEN \E p, g, l, n : Dropped(d, e, d.imap, p, g, l, PathFind(d, path).cur, n)
  ELSE e = d

LEMMA SpfsUnlinkIs ==
  ASSUME NEW st, Agrees(st), Whole(st.disk), NEW path \in Seq(Names), path # <<>>
  PROVE  LET r == SpfsUnlink(st, path)
         IN Agrees(r.st) /\ Whole(r.st.disk) /\ Unlinked(st.disk, r.st.disk, path)
<1> DEFINE d == st.disk
           R == d.imap
           found == PathFind(d, path)
           i == found.cur
           p == found.parent
           s1 == FreeBlocksOf(st, i)
           d1 == s1.disk
           n == [d.inode[i] EXCEPT !.type = "livre"]
           s2 == PutInode(s1, i, n)
           d2 == s2.disk
           s3 == PutImap([s2 EXCEPT !.ram.imap = @ \ {i}])
           s4 == PutSuper([s3 EXCEPT !.ram.free_inodes = @ + 1])
           d4 == s4.disk
           w == ClearEntry(s4, p, i)
           e == w.disk
           r == SpfsUnlink(st, path)
<1>1. d \in DiskType /\ Sound(d, R) /\ Held(d, R) /\ Counted(d) /\ Owned(d, R)
  BY DEF Whole, Sound
<1>2. R \subseteq Inodes
  BY <1>1 DEF DiskType
<1>3. r = IF ~ found.ok THEN Done(st, -1) ELSE Done(w, 0)
  BY DEF SpfsUnlink
<1>4. found \in At(R) /\ (found.ok => Found(d, R, found))
  BY <1>1, PathFindIs
<1> HIDE DEF found, r, d
<1>5. CASE ~ found.ok
  <2>1. r.st = st
    BY <1>3, <1>5 DEF Done
  <2> QED
    BY <1>5, <2>1 DEF r, found, d, Unlinked
<1>6. CASE found.ok
  <2>1. i \in R /\ i \in Inodes /\ p \in Dirs(d, R)
    BY <1>2, <1>4, <1>6 DEF At, Found
  <2>2. PICK k0 \in Present(d, p) :
          i = EntryAt(d, p, BlockOf(k0), PlaceOf(k0)) /\ IsEntry(d, p, BlockOf(k0), PlaceOf(k0))
    BY <1>4, <1>6 DEF Found
  <2> DEFINE g == BlockOf(k0)
             l == PlaceOf(k0)
             x == Ptr(d, p, g)
  <2>3. p \in R /\ p \in Inodes
    BY <1>2, <2>1 DEF Dirs
  <2>4. g \in Places /\ l \in Slots /\ x \in Blocks
    BY <1>1, <2>3, PieceIs
  <2>5. i = EntryAt(d, p, g, l) /\ IsEntry(d, p, g, l)
    BY <2>2
  <2> HIDE DEF i, p
  <2>6. i # 0 /\ p # i
    BY <1>1, <2>1, <2>4, <2>5 DEF Sound, Linked, IsEntry
  <2>7. /\ Agrees(s1) /\ Counted(d1) /\ d1.bmap = d.bmap \ BlocksOf(d, i)
        /\ d1.inode = d.inode /\ d1.blk = d.blk /\ d1.imap = d.imap
    <3>1. Agrees(st) /\ Counted(st.disk) /\ Owned(st.disk, R) /\ R \subseteq Inodes /\ i \in R
      BY <1>1, <1>2, <2>1 DEF d
    <3> HIDE DEF R, d, s1
    <3>2. LET c == FreeBlocksOf(st, i)
          IN /\ Agrees(c) /\ Counted(c.disk) /\ c.disk.bmap = st.disk.bmap \ BlocksOf(st.disk, i)
             /\ c.disk.inode = st.disk.inode /\ c.disk.blk = st.disk.blk /\ c.disk.imap = st.disk.imap
      BY <3>1, FreeBlocksIs
    <3> QED
      BY <3>2 DEF d, s1
  <2>8. n \in InodeType
    <3> DEFINE o == d.inode[i]
    <3>1. o \in InodeType
      BY <1>1, <2>1 DEF DiskType
    <3>2. n = [o EXCEPT !.type = "livre"]
      OBVIOUS
    <3> HIDE DEF o, n
    <3> QED
      BY <3>1, <3>2 DEF InodeType, Types
  <2> HIDE DEF n, s1
  <2>9. d1 \in DiskType
    BY <2>7 DEF Agrees, CallType
  <2>10. Agrees(s2) /\ d2 = [d1 EXCEPT !.inode[i] = n] /\ d2 \in DiskType
    <3>1. Agrees(s2) /\ d2 = [d1 EXCEPT !.inode[i] = n]
      BY <2>1, <2>7, <2>8, PutInodeIs
    <3> QED
      BY <3>1 DEF Agrees, CallType
  <2> HIDE DEF s2, d1, d2
  <2>11. /\ d2.inode = [d.inode EXCEPT ![i] = n] /\ d2.blk = d.blk /\ d2.imap = R
         /\ d2.bmap = d.bmap \ BlocksOf(d, i)
         /\ d2.free_blocks = d1.free_blocks /\ d2.free_inodes = d1.free_inodes
    BY <2>7, <2>9, <2>10 DEF DiskType
  <2>12. Counted(d2)
    <3>1. CachedPart(d2) = CachedPart(d1)
      BY <2>7, <2>11 DEF CachedPart
    <3> QED
      BY <2>7, <3>1, CountSame
  <2>13. Agrees(s4) /\ d4 = MarkInodes(d2, R \ {i}, d2.free_inodes + 1)
    <3> DEFINE S == s2.ram.imap \ {i}
               m == s2.disk.free_inodes + 1
               first == PutImap([s2 EXCEPT !.ram.imap = S])
    <3>1. s2.ram = CachedPart(s2.disk) /\ s2.disk \in DiskType
      BY <2>10 DEF Agrees, CallType
    <3>2. S = R \ {i} /\ S \in SUBSET Inodes /\ m \in Int /\ m = d2.free_inodes + 1
      BY <1>2, <2>11, <3>1 DEF CachedPart, DiskType, d2
    <3>3. s3 = first /\ s4 = PutSuper([first EXCEPT !.ram.free_inodes = first.ram.free_inodes + 1])
      OBVIOUS
    <3>4. /\ first.ram.free_inodes + 1 = m
          /\ Agrees(PutSuper([first EXCEPT !.ram.free_inodes = m]))
          /\ PutSuper([first EXCEPT !.ram.free_inodes = m]).disk = MarkInodes(s2.disk, S, m)
      <4>1. S \in SUBSET Inodes /\ m \in Int /\ Agrees(s2)
        BY <2>10, <3>2
      <4> HIDE DEF S
      <4> QED
        BY <4>1, ImapThenSuper
    <3> HIDE DEF first, m, s4, S
    <3> QED
      BY <3>2, <3>3, <3>4 DEF d2
  <2> HIDE DEF s3, s4
  <2>14. d4 \in DiskType
    BY <2>13 DEF Agrees, CallType
  <2> HIDE DEF d4
  <2>15. /\ d4.inode = [d.inode EXCEPT ![i] = n] /\ d4.blk = d.blk /\ d4.imap = R \ {i}
         /\ d4.bmap = d.bmap \ BlocksOf(d, i)
         /\ d4.free_blocks = d2.free_blocks /\ d4.free_inodes = d2.free_inodes + 1
    <3>1. d2 \in DiskType
      BY <2>10
    <3> QED
      BY <2>11, <2>13, <3>1 DEF MarkInodes, DiskType
  <2>16. Counted(d4)
    <3>1. i \in d2.imap /\ d4.imap = d2.imap \ {i} /\ d4.bmap = d2.bmap
      BY <2>1, <2>11, <2>15
    <3> QED
      BY <2>10, <2>12, <2>15, <3>1, CountFreeInode
  <2>17. /\ d4.inode[p] = d.inode[p]
         /\ Present(d4, p) = Present(d, p)
         /\ \A b : Ptr(d4, p, b) = Ptr(d, p, b)
         /\ \A b, k : EntryAt(d4, p, b, k) = EntryAt(d, p, b, k)
    <3>1. d4.inode[p] = d.inode[p]
      BY <1>1, <2>3, <2>6, <2>15 DEF DiskType
    <3> QED
      BY <2>15, <3>1 DEF Present, Ptr, EntryAt
  <2>18. Agrees(w) /\ e = [d4 EXCEPT !.blk[x] = [d.blk[x] EXCEPT ![l].inode = 0]]
    <3>1. ASSUME NEW b \in Places, NEW k \in Slots, Ptr(d4, p, b) # 0, EntryAt(d4, p, b, k) = i
          PROVE  b = g /\ k = l
      <4>1. Ptr(d, p, b) # 0 /\ EntryAt(d, p, b, k) = EntryAt(d, p, g, l)
        BY <2>5, <2>17, <3>1
      <4> QED
        BY <1>1, <2>1, <2>4, <2>5, <4>1, OneEntry
    <3>2. Agrees(s4) /\ LeadsTo(s4.disk, p, i, g, l)
      <4>1. k0 \in Present(d4, p) /\ EntryAt(d4, p, g, l) = i
        BY <2>5, <2>17
      <4> HIDE DEF d4
      <4>2. LeadsTo(d4, p, i, g, l)
        BY <3>1, <4>1 DEF LeadsTo
      <4> QED
        BY <2>13, <4>2 DEF d4
    <3>4. Ptr(s4.disk, p, g) = x /\ s4.disk.blk = d.blk
      BY <2>15, <2>17 DEF d4
    <3> HIDE DEF g, l, x, w
    <3>5. Agrees(ClearEntry(s4, p, i)) /\ ClearEntry(s4, p, i).disk = EntryCleared(s4.disk, p, g, l)
      BY <2>3, <3>2, ClearEntryIs
    <3>6. /\ Agrees(w)
          /\ e = [s4.disk EXCEPT !.blk[Ptr(s4.disk, p, g)] =
                    [s4.disk.blk[Ptr(s4.disk, p, g)] EXCEPT ![l].inode = 0]]
      BY <3>5 DEF w, EntryCleared
    <3> QED
      BY <3>4, <3>6 DEF d4
  <2>19. r.st = w
    BY <1>3, <1>6, Zenon DEF Done, i, p, w, s4, s3, s2, s1, n
  <2>20. e \in DiskType
    BY <2>18 DEF Agrees, CallType
  <2> HIDE DEF w, e, x, g, l
  <2> DEFINE c == [d.blk[x] EXCEPT ![l].inode = 0]
  <2>21. /\ e.inode = [d.inode EXCEPT ![i] = n] /\ e.blk = [d.blk EXCEPT ![x] = c] /\ e.imap = R \ {i}
         /\ e.bmap = d.bmap \ BlocksOf(d, i) /\ CachedPart(e) = CachedPart(d4)
    <3>0. e = [d4 EXCEPT !.blk[x] = c]
      BY <2>18
    <3> HIDE DEF c
    <3>1. /\ e.inode = d4.inode /\ e.blk = [d4.blk EXCEPT ![x] = c] /\ e.imap = d4.imap
          /\ e.bmap = d4.bmap /\ e.free_blocks = d4.free_blocks /\ e.free_inodes = d4.free_inodes
      BY <2>14, <3>0 DEF DiskType
    <3>2. CachedPart(e) = CachedPart(d4)
      BY <3>1 DEF CachedPart
    <3> QED
      BY <2>15, <3>1, <3>2
  <2>22. Counted(e)
    BY <2>16, <2>21, CountSame
  <2>23. Sound(e, R \ {i}) /\ Held(e, R \ {i}) /\ Dropped(d, e, R, p, g, l, i, n)
    <3>1. e.blk = [d.blk EXCEPT ![Ptr(d, p, g)][l].inode = 0]
      BY <2>21 DEF x
    <3> HIDE DEF c
    <3>2. e.imap = d.imap \ {i}
      BY <2>21
    <3>3. Dropped(d, e, R, p, g, l, i, n)
      BY <1>1, <2>1, <2>4, <2>5, <2>8, <2>20, <2>21, <3>1, <3>2 DEF Dropped
    <3> QED
      BY <1>1, <3>3, DropKeeps
  <2>24. Whole(e)
    BY <2>21, <2>22, <2>23 DEF Whole
  <2>25. Unlinked(d, e, path)
    <3>1. \E v, a, b, o : Dropped(d, e, R, v, a, b, i, o)
      BY <2>23
    <3> QED
      BY <1>6, <3>1 DEF Unlinked, i, found
  <2> QED
    BY <2>18, <2>19, <2>24, <2>25 DEF r, e, d
<1> QED
  BY <1>5, <1>6
-----------------------------------------------------------------------------
(* What spfs_format() leaves.                                              *)
Fresh(d) == d.imap = {0} /\ d.inode[0] = Inode("diretorio")
FreshCopy == [free_blocks |-> TotalBlocks, free_inodes |-> NInodes - 1, imap |-> {0}, bmap |-> {}]

LEMMA TableIs ==
  ASSUME NEW junk \in Junk
  PROVE  /\ Table(junk) \in [Inodes -> InodeType] /\ Table(junk)[0] = Inode("diretorio")
         /\ [i \in Inodes |-> Inode("livre")] \in [Inodes -> InodeType]
<1>1. \A type \in Types : Inode(type) \in InodeType
  <2>1. NoBlocks \in [1 .. NDirect -> {0} \cup Blocks] /\ 0 \in 0 .. Capacity
    BY Sizes_Nat DEF NoBlocks
  <2> QED
    BY <2>1 DEF Inode, InodeType
<1>2. junk \in InodeType
  BY JunkAssumption
<1> QED
  BY <1>1, <1>2, Sizes_Nat DEF Table, Types

LEMMA FreshIsWhole ==
  ASSUME NEW e \in DiskType, NEW junk \in Junk, e.inode = Table(junk), CachedPart(e) = FreshCopy, Texted(e)
  PROVE  Whole(e) /\ Fresh(e)
<1>1. /\ e.imap = {0} /\ e.bmap = {} /\ e.free_blocks = TotalBlocks /\ e.free_inodes = NInodes - 1
  BY DEF CachedPart, FreshCopy
<1>2. e.inode[0].type = "diretorio" /\ \A b \in Places : Ptr(e, 0, b) = 0
  <2>1. e.inode[0] = Inode("diretorio")
    BY TableIs
  <2> QED
    BY <2>1 DEF Inode, NoBlocks, Ptr, Places
<1>3. Owned(e, {0}) /\ Linked(e, {0})
  BY <1>2 DEF Owned, Linked, IsEntry, Dirs
<1>4. Sound(e, {0})
  BY <1>1, <1>2, <1>3 DEF Sound
<1>5. Counted(e)
  <2>1. Cardinality({}) = 0 /\ Cardinality({0}) = 1
    BY FS_EmptySet, FS_Singleton
  <2>2. TotalBlocks \in Nat /\ NInodes \in Nat
    BY SpaceFSAssumption
  <2> QED
    BY <1>1, <2>1, <2>2 DEF Counted
<1>6. Held(e, {0})
  BY <1>1 DEF Held
<1> QED
  BY <1>1, <1>4, <1>5, <1>6, TableIs DEF Whole, Fresh

LEMMA SpfsFormatIs ==
  ASSUME NEW st \in CallType, Texted(st.disk), NEW junk \in Junk
  PROVE  LET r == SpfsFormat(st, junk)
         IN Agrees(r.st) /\ Whole(r.st.disk) /\ Fresh(r.st.disk)
<1> DEFINE d == st.disk
           s0 == [st EXCEPT !.ram = [free_blocks |-> TotalBlocks, free_inodes |-> NInodes - 1,
                                     imap |-> {0}, bmap |-> {}]]
           e1 == [s0.disk EXCEPT !.free_blocks = s0.ram.free_blocks, !.free_inodes = s0.ram.free_inodes]
           s1 == PutSuper(s0)
           e2 == [s1.disk EXCEPT !.imap = s1.ram.imap]
           s2 == PutImap(s1)
           e3 == [s2.disk EXCEPT !.bmap = s2.ram.bmap]
           s3 == PutBmap(s2)
           e4 == [s3.disk EXCEPT !.inode = [i \in Inodes |-> Inode("livre")]]
           s4 == Put(s3, e4)
           e5 == [s4.disk EXCEPT !.inode = Table(junk)]
           s5 == Put(s4, e5)
           r == SpfsFormat(st, junk)
<1>1. r.st = s5
  BY DEF SpfsFormat, Done
<1> HIDE DEF r
<1>2. d \in DiskType /\ FreshCopy \in CopyType
  <2>1. TotalBlocks \in Nat /\ NInodes \in Nat /\ 0 \in Inodes
    BY SpaceFSAssumption, Sizes_Nat
  <2> QED
    BY <2>1 DEF CallType, CopyType, FreshCopy
<1>3. s0 \in CallType /\ s0.disk = d /\ s0.ram = FreshCopy
  BY <1>2 DEF CallType, FreshCopy
<1> HIDE DEF s0
<1>4. e1 \in DiskType /\ e1 = [d EXCEPT !.free_blocks = TotalBlocks, !.free_inodes = NInodes - 1]
  <2>1. e1 = [d EXCEPT !.free_blocks = TotalBlocks, !.free_inodes = NInodes - 1]
    BY <1>3 DEF FreshCopy
  <2>2. TotalBlocks \in Int /\ NInodes - 1 \in Int
    BY SpaceFSAssumption
  <2> HIDE DEF e1, d
  <2> QED
    BY <1>2, <2>1, <2>2 DEF DiskType
<1>5. s1 \in CallType /\ s1.disk = e1 /\ s1.ram = FreshCopy
  <2>1. s1 = Put(s0, e1)
    BY DEF PutSuper
  <2> HIDE DEF e1, s1
  <2> QED
    BY <1>3, <1>4, <2>1, PutIs
<1> HIDE DEF s1
<1>6. e2 \in DiskType /\ e2 = [e1 EXCEPT !.imap = {0}]
  <2>1. e1 \in DiskType /\ {0} \in SUBSET Inodes
    BY <1>4, Sizes_Nat
  <2>2. e2 = [e1 EXCEPT !.imap = {0}]
    BY <1>5 DEF FreshCopy
  <2> HIDE DEF e1, e2
  <2> QED
    BY <2>1, <2>2 DEF DiskType
<1>7. s2 \in CallType /\ s2.disk = e2 /\ s2.ram = FreshCopy
  <2>1. s2 = Put(s1, e2)
    BY DEF PutImap
  <2> HIDE DEF e2, s2
  <2> QED
    BY <1>5, <1>6, <2>1, PutIs
<1> HIDE DEF s2
<1>8. e3 \in DiskType /\ e3 = [e2 EXCEPT !.bmap = {}]
  <2>1. e3 = [e2 EXCEPT !.bmap = {}]
    BY <1>7 DEF FreshCopy
  <2> HIDE DEF e2, e3
  <2> QED
    BY <1>6, <2>1 DEF DiskType
<1>9. s3 \in CallType /\ s3.disk = e3 /\ s3.ram = FreshCopy
  <2>1. s3 = Put(s2, e3)
    BY DEF PutBmap
  <2> HIDE DEF e3, s3
  <2> QED
    BY <1>7, <1>8, <2>1, PutIs
<1> HIDE DEF s3
<1>10. e4 \in DiskType /\ e4 = [e3 EXCEPT !.inode = [i \in Inodes |-> Inode("livre")]]
  BY <1>8, <1>9, TableIs DEF DiskType
<1> HIDE DEF e4
<1>11. s4 \in CallType /\ s4.disk = e4 /\ s4.ram = FreshCopy
  BY <1>9, <1>10, PutIs
<1> HIDE DEF s4
<1>12. e5 \in DiskType /\ e5 = [e4 EXCEPT !.inode = Table(junk)]
  BY <1>10, <1>11, TableIs DEF DiskType
<1> HIDE DEF e5
<1>13. s5 \in CallType /\ s5.disk = e5 /\ s5.ram = FreshCopy
  BY <1>11, <1>12, PutIs
<1> HIDE DEF e1, e2, e3, s5
<1>14. e5.inode = Table(junk) /\ e5.blk = d.blk /\ CachedPart(e5) = FreshCopy
  <2>1. e1.free_blocks = TotalBlocks /\ e1.free_inodes = NInodes - 1 /\ e1.blk = d.blk
    BY <1>2, <1>4 DEF DiskType
  <2>2. e2.free_blocks = TotalBlocks /\ e2.free_inodes = NInodes - 1 /\ e2.blk = d.blk /\ e2.imap = {0}
    BY <1>4, <1>6, <2>1 DEF DiskType
  <2>3. e3.free_blocks = TotalBlocks /\ e3.free_inodes = NInodes - 1 /\ e3.blk = d.blk /\ e3.imap = {0} /\ e3.bmap = {}
    BY <1>6, <1>8, <2>2 DEF DiskType
  <2>4. e4.free_blocks = TotalBlocks /\ e4.free_inodes = NInodes - 1 /\ e4.blk = d.blk /\ e4.imap = {0} /\ e4.bmap = {}
    BY <1>8, <1>10, <2>3 DEF DiskType
  <2>5. /\ e5.free_blocks = TotalBlocks /\ e5.free_inodes = NInodes - 1 /\ e5.blk = d.blk /\ e5.imap = {0} /\ e5.bmap = {}
        /\ e5.inode = Table(junk)
    BY <1>10, <1>12, <2>4 DEF DiskType
  <2> QED
    BY <2>5 DEF CachedPart, FreshCopy
<1>15. Texted(e5)
  BY <1>14 DEF Texted
<1>16. Agrees(s5) /\ Whole(s5.disk) /\ Fresh(s5.disk)
  BY <1>12, <1>13, <1>14, <1>15, FreshIsWhole DEF Agrees
<1> QED
  BY <1>1, <1>16 DEF r
-----------------------------------------------------------------------------
(* No power cut, and nobody removes the root.                              *)
Uninterrupted == PowerCuts = FALSE /\ ~ ({"unlink", "root"} \subseteq Uses)

LEMMA Init_IndInv == Init => IndInv
<1> SUFFICES ASSUME Init PROVE IndInv
  OBVIOUS
<1>1. PICK junk \in Junk :
        disk = [free_blocks |-> TotalBlocks, free_inodes |-> NInodes - 1,
                imap |-> {0}, bmap |-> {}, inode |-> Table(junk),
                blk |-> [b \in Blocks |-> EmptyBlock]]
  BY DEF Init
<1>2. TotalBlocks \in Nat /\ NInodes \in Nat /\ 0 \in Inodes
  BY SpaceFSAssumption, Sizes_Nat
<1>3. EmptyBlock \in [1 .. PerBlk -> Slot] /\ \A k \in Slots : EmptyBlock[k].inode = 0
  BY Sizes_Nat DEF EmptyBlock, FreeSlot, Slot, Slots, TextInode
<1>4. disk \in DiskType /\ disk.inode = Table(junk) /\ CachedPart(disk) = FreshCopy
  BY <1>1, <1>2, <1>3, TableIs DEF DiskType, CachedPart, FreshCopy
<1>5. \A b \in Blocks : disk.blk[b] = EmptyBlock
  BY <1>1
<1>6. Texted(disk)
  BY <1>3, <1>5, Sizes_Nat DEF Texted
<1>7. Whole(disk)
  BY <1>4, <1>6, FreshIsWhole
<1> QED
  BY <1>7 DEF Init, IndInv

LEMMA StartAgrees ==
  ASSUME IndInv
  PROVE  Agrees(Start) /\ Start.disk = disk /\ Start \in CallType
<1>1. disk \in DiskType /\ ram = CachedPart(disk)
  BY DEF IndInv, Whole, Sound
<1>2. ram \in CopyType
  BY <1>1 DEF DiskType, CopyType, CachedPart
<1> QED
  BY <1>1, <1>2 DEF Start, CallType, Agrees

LEMMA CallKeeps ==
  ASSUME Uninterrupted, NEW op, NEW path, NEW result, Call(op, path, result),
         Agrees(result.st), Whole(result.st.disk)
  PROVE  IndInv'
<1>1. Returns(result)
  BY DEF Call, PowerFails, Uninterrupted
<1>2. disk' = result.st.disk /\ home' = CachedPart(disk') /\ ram' = result.st.ram /\ up' = TRUE
  BY <1>1 DEF Returns
<1>3. Whole(disk')
  BY <1>2
<1> QED
  BY <1>2, <1>3 DEF IndInv, Agrees

LEMMA Step_IndInv == Uninterrupted /\ IndInv /\ [Next]_vars => IndInv'
<1> SUFFICES ASSUME Uninterrupted, IndInv, [Next]_vars PROVE IndInv'
  OBVIOUS
<1>0. Paths \subseteq Seq(Names) /\ Sizes \subseteq Nat
  BY SpaceFSAssumption
<1>1. Agrees(Start) /\ Whole(Start.disk) /\ Texted(Start.disk) /\ Start \in CallType
  BY StartAgrees DEF IndInv, Whole, Sound
<1>2. ASSUME NEW path \in Paths, NEW t \in Texts, NEW size \in Sizes, Write(path, t, size) PROVE IndInv'
  <2>1. path \in Seq(Names) /\ size \in Nat
    BY <1>0
  <2> DEFINE r == SpfsWrite(Start, path, t, size)
  <2>2. Agrees(r.st) /\ Whole(r.st.disk)
    BY <1>1, <2>1, SpfsWriteIs
  <2>3. Call("write", path, r)
    BY <1>2 DEF Write
  <2> HIDE DEF r
  <2> QED
    BY <2>2, <2>3, CallKeeps
<1>3. ASSUME NEW path \in Paths, Mkdir(path) PROVE IndInv'
  <2>1. path \in Seq(Names)
    BY <1>0
  <2> DEFINE r == SpfsMkdir(Start, path)
  <2>2. Agrees(r.st) /\ Whole(r.st.disk)
    BY <1>1, <2>1, SpfsMkdirIs
  <2>3. Call("mkdir", path, r)
    BY <1>3 DEF Mkdir
  <2> HIDE DEF r
  <2> QED
    BY <2>2, <2>3, CallKeeps
<1>4. ASSUME NEW path \in Paths, Unlink(path) PROVE IndInv'
  <2> DEFINE r == SpfsUnlink(Start, path)
  <2>1. Call("unlink", path, r)
    BY <1>4 DEF Unlink
  <2>2. path # <<>>
    <3>1. KindsOf("unlink", path) \subseteq Uses
      BY <2>1 DEF Call
    <3>2. path = <<>> => {"unlink", "root"} \subseteq KindsOf("unlink", path)
      BY DEF KindsOf
    <3> QED
      BY <3>1, <3>2 DEF Uninterrupted
  <2>3. path \in Seq(Names)
    BY <1>0
  <2>4. Agrees(r.st) /\ Whole(r.st.disk)
    BY <1>1, <2>2, <2>3, SpfsUnlinkIs
  <2> HIDE DEF r
  <2> QED
    BY <2>1, <2>4, CallKeeps
<1>5. ASSUME NEW junk \in Junk, Format(junk) PROVE IndInv'
  <2> DEFINE r == SpfsFormat(Start, junk)
  <2>1. Agrees(r.st) /\ Whole(r.st.disk)
    BY <1>1, SpfsFormatIs
  <2>2. Call("format", <<>>, r)
    BY <1>5 DEF Format
  <2> HIDE DEF r
  <2> QED
    BY <2>1, <2>2, CallKeeps
<1>6. CASE Mount
  BY <1>6 DEF Mount, IndInv
<1>7. CASE UNCHANGED vars
  BY <1>7 DEF vars, IndInv
<1> QED
  BY <1>2, <1>3, <1>4, <1>5, <1>6, <1>7 DEF Next

(* The inductive invariant: the marked inodes are one file system, and     *)
(* nothing else is marked (all of spacefs.c).                              *)
THEOREM IndInvariant == Uninterrupted => (Spec => []IndInv)
<1> SUFFICES ASSUME Uninterrupted PROVE Spec => []IndInv
  OBVIOUS
<1>1. Init => IndInv
  BY Init_IndInv
<1>2. IndInv /\ [Next]_vars => IndInv'
  BY Step_IndInv
<1> QED
  BY <1>1, <1>2, PTL DEF Spec

LEMMA SoundShows ==
  ASSUME NEW R, Sound(disk, R)
  PROVE  BlocksOwned /\ EntriesLive
<1>1. disk \in DiskType /\ R \subseteq Inodes
  BY DEF Sound, DiskType
<1>2. Reachable(disk) \subseteq R
  <2>1. ASSUME NEW q \in Paths PROVE PathFind(disk, q).cur \in R
    <3>1. q \in Seq(Names)
      BY SpaceFSAssumption
    <3> QED
      BY <3>1, PathFindIs DEF At
  <2> QED
    BY <2>1 DEF Reachable
<1>3. BlocksOwned
  <2> DEFINE refs == Refs(disk, Reachable(disk))
  <2>1. \A r \in refs : r[1] \in R /\ r[2] \in Places /\ Ptr(disk, r[1], r[2]) # 0
                       /\ BlockAt(disk, r) = Ptr(disk, r[1], r[2]) /\ r = <<r[1], r[2]>>
    BY <1>2 DEF Refs, BlockAt, Ptr, Places
  <2>2. \A r \in refs : BlockAt(disk, r) \in disk.bmap
    BY <2>1 DEF Sound, Owned
  <2>3. ASSUME NEW r \in refs, NEW s \in refs, BlockAt(disk, r) = BlockAt(disk, s) PROVE r = s
    <3>1. r[1] = s[1] /\ r[2] = s[2]
      BY <2>1, <2>3 DEF Sound, Owned
    <3> QED
      BY <2>1, <3>1
  <2> QED
    BY <2>2, <2>3 DEF BlocksOwned
<1>4. EntriesLive
  <2> SUFFICES ASSUME NEW i \in Reachable(disk), disk.inode[i].type = "diretorio",
                      NEW k \in Present(disk, i), Piece(disk, i, k).inode \in Inodes \ {0}
               PROVE  /\ Piece(disk, i, k).inode \in disk.imap
                      /\ disk.inode[Piece(disk, i, k).inode].type # "livre"
    BY DEF EntriesLive
  <2>1. i \in Dirs(disk, R) /\ i \in Inodes
    BY <1>1, <1>2 DEF Dirs
  <2> DEFINE b == BlockOf(k)
             l == PlaceOf(k)
  <2>2. /\ b \in Places /\ l \in Slots /\ Ptr(disk, i, b) \in Blocks
        /\ Piece(disk, i, k) = disk.blk[Ptr(disk, i, b)][l]
    BY <1>1, <2>1, PieceIs
  <2> HIDE DEF b, l
  <2>3. Piece(disk, i, k).inode = EntryAt(disk, i, b, l) /\ IsEntry(disk, i, b, l)
    BY <2>2, Sizes_Nat DEF EntryAt, IsEntry
  <2>4. Piece(disk, i, k).inode \in R
    BY <2>1, <2>2, <2>3 DEF Sound, Linked
  <2> QED
    BY <2>4 DEF Sound
<1> QED
  BY <1>3, <1>4

(* Whatever was created, overwritten and removed before, a block belongs   *)
(* to one of the inodes that paths lead to, and an entry leads to an inode *)
(* that is marked and was written (alloc_block(), free_block(),            *)
(* dir_add_entry(), spfs_unlink()).                                        *)
THEOREM DiskStaysSound == Uninterrupted => (Spec => []DiskSound)
<1> SUFFICES ASSUME Uninterrupted PROVE Spec => []DiskSound
  OBVIOUS
<1>1. ASSUME IndInv PROVE DiskSound
  <2> DEFINE R == disk.imap
  <2>1. disk \in DiskType /\ Sound(disk, R) /\ Counted(disk) /\ R \subseteq Inodes
    BY <1>1 DEF IndInv, Whole, Sound, DiskType
  <2>2. CachedPart(disk) \in Cached
    BY <2>1, CountsFit
  <2>3. TypeOK
    BY <1>1, <2>1, <2>2 DEF TypeOK, IndInv, DiskType
  <2> QED
    BY <2>1, <2>3, SoundShows DEF DiskSound
<1>2. IndInv => DiskSound
  BY <1>1
<1> QED
  BY <1>2, IndInvariant, PTL

(* The bitmap marks what the marked inodes use and nothing more, and the   *)
(* counters of the super block agree with the bitmaps, on a full disk too  *)
(* (alloc_block() and alloc_inode() fail halfway through a call).          *)
THEOREM NothingIsLost == Uninterrupted => (Spec => []NothingLeaks)
<1> SUFFICES ASSUME Uninterrupted PROVE Spec => []NothingLeaks
  OBVIOUS
<1>1. ASSUME IndInv PROVE NothingLeaks
  <2> DEFINE R == disk.imap
             refs == Refs(disk, R)
  <2>1. disk \in DiskType /\ Owned(disk, R) /\ Held(disk, R) /\ Counted(disk)
    BY <1>1 DEF IndInv, Whole, Sound
  <2>2. ASSUME NEW x \in disk.bmap PROVE x \in {BlockAt(disk, r) : r \in refs}
    <3>1. PICK i \in R : \E b \in Places : Ptr(disk, i, b) = x
      BY <2>1 DEF Held
    <3>2. PICK b \in Places : Ptr(disk, i, b) = x
      BY <3>1
    <3>3. x # 0
      BY <2>1, Sizes_Nat DEF DiskType
    <3>4. <<i, b>> \in refs /\ BlockAt(disk, <<i, b>>) = x
      BY <3>2, <3>3 DEF Refs, BlockAt, Ptr, Places
    <3> QED
      BY <3>4
  <2>3. ASSUME NEW r \in refs PROVE BlockAt(disk, r) \in disk.bmap
    <3>1. r[1] \in R /\ r[2] \in Places /\ Ptr(disk, r[1], r[2]) # 0 /\ BlockAt(disk, r) = Ptr(disk, r[1], r[2])
      BY DEF Refs, BlockAt, Ptr, Places
    <3> QED
      BY <2>1, <3>1 DEF Owned
  <2>4. disk.bmap = {BlockAt(disk, r) : r \in refs}
    BY <2>2, <2>3
  <2> QED
    BY <2>1, <2>4 DEF NothingLeaks, Counted
<1>2. IndInv => NothingLeaks
  BY <1>1
<1> QED
  BY <1>2, IndInvariant, PTL
-----------------------------------------------------------------------------
(* The pieces of an inode are numbered block by block.                     *)
Number(b, l) == (b - 1) * PerBlk + l

LEMMA DivMod ==
  ASSUME NEW m \in Nat \ {0}, NEW a \in Nat
  PROVE  a \div m \in Nat /\ a % m \in 0 .. m - 1 /\ a = m * (a \div m) + (a % m)
OBVIOUS

LEMMA Multiples ==
  ASSUME NEW m \in Nat \ {0}, NEW q \in Nat, NEW s \in Nat, q < s
  PROVE  q * m \in Nat /\ s * m \in Nat /\ q * m + m <= s * m
<1>1. PICK t \in Nat : s = q + 1 + t
  <2>1. s - q - 1 \in Nat /\ s = q + 1 + (s - q - 1)
    OBVIOUS
  <2> QED
    BY <2>1
<1>2. s * m = q * m + m + t * m /\ t * m \in Nat /\ q * m \in Nat
  BY <1>1
<1> QED
  BY <1>2

LEMMA NumberIs ==
  /\ \A b \in Places, l \in Slots :
       Number(b, l) \in 1 .. Capacity /\ BlockOf(Number(b, l)) = b /\ PlaceOf(Number(b, l)) = l
  /\ \A k \in 1 .. Capacity : Number(BlockOf(k), PlaceOf(k)) = k
<1> DEFINE P == PerBlk
           N == NDirect
<1>1. P \in Nat \ {0} /\ N \in Nat \ {0} /\ Capacity = N * P /\ Places = 1 .. N /\ Slots = 1 .. P
  BY Sizes_Nat DEF Capacity, Places, Slots
<1>2. ASSUME NEW b \in Places, NEW l \in Slots
      PROVE  Number(b, l) \in 1 .. Capacity /\ BlockOf(Number(b, l)) = b /\ PlaceOf(Number(b, l)) = l
  <2> DEFINE q == b - 1
             r == l - 1
             a == q * P + r
             v == a \div P
             w == a % P
  <2>1. q \in Nat /\ q < N /\ r \in 0 .. P - 1 /\ q * P \in Nat /\ a \in Nat /\ Number(b, l) = a + 1
    BY <1>1 DEF Number
  <2>2. q * P + P <= N * P
    BY <1>1, <2>1, Multiples
  <2>3. v \in Nat /\ w \in 0 .. P - 1 /\ a = P * v + w
    BY <1>1, <2>1, DivMod
  <2>4. v = q /\ w = r
    <3> HIDE DEF v, w
    <3>1. v * P \in Nat /\ v * P + w = q * P + r
      BY <1>1, <2>1, <2>3
    <3>2. ASSUME v < q PROVE FALSE
      <4>1. v * P + P <= q * P
        BY <1>1, <2>1, <2>3, <3>2, Multiples
      <4> QED
        BY <1>1, <2>1, <2>3, <3>1, <4>1
    <3>3. ASSUME q < v PROVE FALSE
      <4>1. q * P + P <= v * P
        BY <1>1, <2>1, <2>3, <3>3, Multiples
      <4> QED
        BY <1>1, <2>1, <2>3, <3>1, <4>1
    <3>4. v = q
      BY <2>1, <2>3, <3>2, <3>3
    <3> QED
      BY <1>1, <2>1, <2>3, <3>1, <3>4
  <2>5. BlockOf(Number(b, l)) = v + 1 /\ PlaceOf(Number(b, l)) = w + 1
    <3>1. Number(b, l) - 1 = a
      BY <2>1
    <3> QED
      BY <3>1 DEF BlockOf, PlaceOf
  <2> HIDE DEF v, w, a
  <2> QED
    BY <1>1, <2>1, <2>2, <2>4, <2>5 DEF a
<1>3. ASSUME NEW k \in 1 .. Capacity PROVE Number(BlockOf(k), PlaceOf(k)) = k
  <2> DEFINE v == (k - 1) \div P
             w == (k - 1) % P
  <2>1. k - 1 \in Nat /\ v \in Nat /\ w \in 0 .. P - 1 /\ k - 1 = P * v + w
    <3>1. k - 1 \in Nat
      BY <1>1
    <3> QED
      BY <1>1, <3>1, DivMod
  <2>2. BlockOf(k) = v + 1 /\ PlaceOf(k) = w + 1
    BY DEF BlockOf, PlaceOf
  <2> HIDE DEF v, w
  <2> QED
    BY <1>1, <2>1, <2>2 DEF Number
<1> QED
  BY <1>2, <1>3
-----------------------------------------------------------------------------
(* The tree of a disk, of which the marked inodes are the nodes and the    *)
(* entries that path_find() sees the edges.                                *)
Used(d, i) == {k \in 1 .. Capacity : Ptr(d, i, BlockOf(k)) # 0 /\ Piece(d, i, k).inode # 0}

(* A directory: its blocks come first, path_find() sees all its entries,   *)
(* and no two have the same name.                                          *)
Ordered(d, i) ==
  /\ \A b \in Places : Ptr(d, i, b) # 0 => \A c \in 1 .. b : Ptr(d, i, c) # 0
  /\ \A k \in Used(d, i) : k <= d.inode[i].size
  /\ \A k, l \in Used(d, i) : Piece(d, i, k).name = Piece(d, i, l).name => k = l
AllOrdered(d) == \A i \in Dirs(d, d.imap) : Ordered(d, i)

Edge(d, i, x, j) ==
  /\ i \in Dirs(d, d.imap) /\ x \in Names /\ Named(d, i, x) # {}
  /\ j = Piece(d, i, Min(Named(d, i, x))).inode
Leads(d, p, j) == PathFind(d, p).ok /\ PathFind(d, p).cur = j
Linkable(d) == Sound(d, d.imap) /\ AllOrdered(d)

LEMMA NamedIs ==
  ASSUME NEW d \in DiskType, NEW i \in Inodes, Ordered(d, i), NEW x
  PROVE  Named(d, i, x) = {k \in Used(d, i) : Piece(d, i, k).name = x}
<1>1. ASSUME NEW k \in Named(d, i, x) PROVE k \in Used(d, i) /\ Piece(d, i, k).name = x
  <2>1. k \in Present(d, i) /\ Piece(d, i, k).name = x /\ Piece(d, i, k).inode # 0
    BY DEF Named
  <2>2. k \in 1 .. Capacity /\ Ptr(d, i, BlockOf(k)) \in Blocks
    BY <2>1, PieceIs
  <2> QED
    BY <2>1, <2>2, Sizes_Nat DEF Used
<1>2. ASSUME NEW k \in Used(d, i), Piece(d, i, k).name = x PROVE k \in Named(d, i, x)
  <2>1. k \in 1 .. Capacity /\ Ptr(d, i, BlockOf(k)) # 0 /\ Piece(d, i, k).inode # 0
    BY DEF Used
  <2>2. BlockOf(k) \in Places
    BY <2>1, PlaceIs
  <2>3. k \in Present(d, i) /\ k <= d.inode[i].size
    BY <2>1, <2>2 DEF Ordered, Present, Ptr
  <2> QED
    BY <1>2, <2>1, <2>3 DEF Named
<1> QED
  BY <1>1, <1>2

LEMMA EdgeIs ==
  ASSUME NEW d, Linkable(d), NEW i, NEW x, NEW j
  PROVE  Edge(d, i, x, j) <=>
           /\ i \in Dirs(d, d.imap) /\ x \in Names
           /\ \E k \in Used(d, i) : Piece(d, i, k).name = x /\ Piece(d, i, k).inode = j
<1>1. CASE i \notin Dirs(d, d.imap)
  BY <1>1 DEF Edge
<1>2. CASE i \in Dirs(d, d.imap)
  <2> DEFINE S == Named(d, i, x)
  <2>1. d \in DiskType /\ i \in Inodes /\ Ordered(d, i)
    BY <1>2 DEF Linkable, AllOrdered, Sound, DiskType, Dirs
  <2>2. S = {k \in Used(d, i) : Piece(d, i, k).name = x}
    BY <2>1, NamedIs
  <2>3. S \subseteq Nat
    BY <2>2, Sizes_Nat DEF Used
  <2> HIDE DEF S
  <2>4. ASSUME S # {} PROVE Min(S) \in S
    BY <2>3, <2>4, MinIs
  <2>5. \A k, l \in S : k = l
    BY <2>1, <2>2 DEF Ordered
  <2>6. Edge(d, i, x, j) <=> x \in Names /\ S # {} /\ j = Piece(d, i, Min(S)).inode
    BY <1>2 DEF Edge, S
  <2>7. (x \in Names /\ S # {} /\ j = Piece(d, i, Min(S)).inode)
        <=> x \in Names /\ \E k \in S : Piece(d, i, k).inode = j
    BY <2>4, <2>5
  <2> QED
    BY <1>2, <2>2, <2>6, <2>7
<1> QED
  BY <1>1, <1>2

(* No two edges lead to one inode, and one name of a directory to one.     *)
LEMMA EdgeOne ==
  ASSUME NEW d, Linkable(d), NEW i, NEW x, NEW j, Edge(d, i, x, j)
  PROVE  /\ i \in d.imap /\ j \in d.imap \ {0} /\ d.inode[i].type = "diretorio" /\ x \in Names
         /\ \A v, y : Edge(d, v, y, j) => v = i /\ y = x
         /\ \A z : Edge(d, i, x, z) => z = j
<1>1. d \in DiskType /\ Sound(d, d.imap) /\ d.imap \subseteq Inodes
  BY DEF Linkable, Sound, DiskType
<1>2. ASSUME NEW v, NEW y, Edge(d, v, y, j)
      PROVE  /\ v \in Dirs(d, d.imap) /\ v \in Inodes /\ y \in Names
             /\ \E k \in Used(d, v) :
                  /\ Piece(d, v, k).name = y
                  /\ BlockOf(k) \in Places /\ PlaceOf(k) \in Slots /\ k \in 1 .. Capacity
                  /\ IsEntry(d, v, BlockOf(k), PlaceOf(k)) /\ EntryAt(d, v, BlockOf(k), PlaceOf(k)) = j
  <2>1. v \in Dirs(d, d.imap) /\ y \in Names
    BY <1>2, EdgeIs
  <2>2. PICK k \in Used(d, v) : Piece(d, v, k).name = y /\ Piece(d, v, k).inode = j
    BY <1>2, EdgeIs
  <2>3. v \in Inodes /\ k \in 1 .. Capacity /\ Ptr(d, v, BlockOf(k)) # 0 /\ j # 0
    BY <1>1, <2>1, <2>2 DEF Used, Dirs
  <2>4. BlockOf(k) \in Places /\ PlaceOf(k) \in Slots
    BY <2>3, PlaceIs
  <2>5. Ptr(d, v, BlockOf(k)) \in Blocks
    BY <1>1, <2>3, <2>4, PtrIs
  <2>6. Piece(d, v, k) = d.blk[Ptr(d, v, BlockOf(k))][PlaceOf(k)]
    BY DEF Piece, Ptr
  <2>7. Piece(d, v, k) \in Slot
    BY <1>1, <2>4, <2>5, <2>6, EntryIs
  <2>8. j # TextInode
    <3>1. y \notin Texts
      BY <2>1, SpaceFSAssumption
    <3> QED
      BY <1>1, <2>2, <2>4, <2>5, <2>6, <3>1 DEF Sound, Texted
  <2>9. j \in Inodes \ {0}
    BY <2>2, <2>3, <2>7, <2>8, Sizes_Nat DEF Slot, TextInode, Inodes
  <2>10. EntryAt(d, v, BlockOf(k), PlaceOf(k)) = j
    BY <2>2, <2>6 DEF EntryAt
  <2> QED
    BY <2>1, <2>2, <2>3, <2>4, <2>9, <2>10 DEF IsEntry
<1>3. PICK k \in Used(d, i) :
        /\ Piece(d, i, k).name = x
        /\ BlockOf(k) \in Places /\ PlaceOf(k) \in Slots /\ k \in 1 .. Capacity
        /\ IsEntry(d, i, BlockOf(k), PlaceOf(k)) /\ EntryAt(d, i, BlockOf(k), PlaceOf(k)) = j
  BY <1>2
<1>4. i \in Dirs(d, d.imap) /\ x \in Names
  BY <1>2
<1>5. i \in d.imap /\ d.inode[i].type = "diretorio"
  BY <1>4 DEF Dirs
<1>6. j \in d.imap \ {0}
  BY <1>1, <1>3, <1>4 DEF Sound, Linked, IsEntry
<1>7. ASSUME NEW v, NEW y, Edge(d, v, y, j) PROVE v = i /\ y = x
  <2>1. v \in Dirs(d, d.imap)
    BY <1>2, <1>7
  <2>2. PICK l \in Used(d, v) :
          /\ Piece(d, v, l).name = y
          /\ BlockOf(l) \in Places /\ PlaceOf(l) \in Slots /\ l \in 1 .. Capacity
          /\ IsEntry(d, v, BlockOf(l), PlaceOf(l)) /\ EntryAt(d, v, BlockOf(l), PlaceOf(l)) = j
    BY <1>2, <1>7
  <2>3. i = v /\ BlockOf(k) = BlockOf(l) /\ PlaceOf(k) = PlaceOf(l)
    BY <1>1, <1>3, <1>4, <2>1, <2>2, OneEntry DEF IsEntry
  <2>4. Piece(d, v, l) = Piece(d, i, k)
    BY <2>3 DEF Piece
  <2> QED
    BY <1>3, <2>2, <2>3, <2>4
<1>8. \A z : Edge(d, i, x, z) => z = j
  BY DEF Edge
<1> QED
  BY <1>4, <1>5, <1>6, <1>7, <1>8
-----------------------------------------------------------------------------
(* Paths.                                                                  *)
LEMMA FrontIs ==
  ASSUME NEW p \in Seq(Names), p # <<>>
  PROVE  /\ Front(p) \in Seq(Names) /\ Last(p) \in Names /\ Last(p) = p[Len(p)]
         /\ Len(p) \in Nat \ {0} /\ Len(Front(p)) = Len(p) - 1
         /\ \A n \in 1 .. Len(p) - 1 : Front(p)[n] = p[n]
<1>1. Len(p) \in Nat \ {0} /\ Len(p) - 1 \in 0 .. Len(p) /\ p[Len(p)] \in Names
  OBVIOUS
<1>2. SubSeq(p, 1, Len(p) - 1) \in Seq(Names)
  BY <1>1
<1>3. \A n \in 1 .. Len(p) - 1 : SubSeq(p, 1, Len(p) - 1)[n] = p[n]
  BY <1>1
<1>4. Len(SubSeq(p, 1, Len(p) - 1)) = Len(p) - 1
  <2> DEFINE m == Len(p) - 1
  <2>1. m \in Nat /\ m <= Len(p)
    BY <1>1
  <2> HIDE DEF m
  <2>2. Len(SubSeq(p, 1, m)) = m
    BY <2>1
  <2> QED
    BY <2>2 DEF m
<1> QED
  BY <1>1, <1>2, <1>3, <1>4 DEF Front, Last

LEMMA PathSame ==
  ASSUME NEW p \in Seq(Names), NEW q \in Seq(Names), Len(p) = Len(q), \A n \in 1 .. Len(p) : p[n] = q[n]
  PROVE  p = q
OBVIOUS

LEMMA FrontLast ==
  ASSUME NEW p \in Seq(Names), NEW q \in Seq(Names), p # <<>>, q # <<>>,
         Front(p) = Front(q), Last(p) = Last(q)
  PROVE  p = q
<1>1. /\ Len(p) \in Nat \ {0} /\ Len(q) \in Nat \ {0} /\ Len(p) - 1 = Len(q) - 1
      /\ p[Len(p)] = q[Len(q)]
      /\ \A n \in 1 .. Len(p) - 1 : Front(p)[n] = p[n]
      /\ \A n \in 1 .. Len(q) - 1 : Front(q)[n] = q[n]
  BY FrontIs
<1>2. Len(p) = Len(q)
  BY <1>1
<1>3. \A n \in 1 .. Len(p) : n = Len(p) \/ n \in 1 .. Len(p) - 1
  BY <1>1
<1>4. \A n \in 1 .. Len(p) : p[n] = q[n]
  BY <1>1, <1>2, <1>3
<1> QED
  BY <1>2, <1>4, PathSame

LEMMA PrefixIs ==
  ASSUME NEW p \in Seq(Names), NEW q \in Seq(Names)
  PROVE  IsPrefix(p, q) <=> Len(p) <= Len(q) /\ \A n \in 1 .. Len(p) : p[n] = q[n]
<1>1. Len(p) \in Nat /\ Len(q) \in Nat
  OBVIOUS
<1>2. SubSeq(p, 1, Len(p)) = p
  OBVIOUS
<1>3. CASE Len(p) <= Len(q)
  <2> DEFINE r == SubSeq(q, 1, Len(p))
  <2>1. r \in Seq(Names) /\ Len(r) = Len(p) /\ \A n \in 1 .. Len(p) : r[n] = q[n]
    BY <1>1, <1>3
  <2> HIDE DEF r
  <2>2. p = r <=> \A n \in 1 .. Len(p) : p[n] = q[n]
    BY <2>1, PathSame
  <2> QED
    BY <1>2, <1>3, <2>2 DEF IsPrefix, r
<1> QED
  BY <1>1, <1>3 DEF IsPrefix

LEMMA PrefixFront ==
  ASSUME NEW p \in Seq(Names), NEW q \in Seq(Names), q # <<>>
  PROVE  IsPrefix(p, q) <=> p = q \/ IsPrefix(p, Front(q))
<1>1. /\ Front(q) \in Seq(Names) /\ Len(q) \in Nat \ {0} /\ Len(Front(q)) = Len(q) - 1
      /\ \A n \in 1 .. Len(q) - 1 : Front(q)[n] = q[n]
  BY FrontIs
<1>2. Len(p) \in Nat
  OBVIOUS
<1>3. ASSUME IsPrefix(p, q), p # q PROVE IsPrefix(p, Front(q))
  <2>1. Len(p) <= Len(q) /\ \A n \in 1 .. Len(p) : p[n] = q[n]
    BY <1>3, PrefixIs
  <2>2. Len(p) # Len(q)
    BY <1>3, <2>1, PathSame
  <2>3. Len(p) <= Len(q) - 1
    BY <1>1, <1>2, <2>1, <2>2
  <2>4. \A n \in 1 .. Len(p) : p[n] = Front(q)[n]
    BY <1>1, <1>2, <2>1, <2>3
  <2> QED
    BY <1>1, <2>3, <2>4, PrefixIs
<1>4. ASSUME IsPrefix(p, Front(q)) PROVE IsPrefix(p, q)
  <2>1. Len(p) <= Len(q) - 1 /\ \A n \in 1 .. Len(p) : p[n] = Front(q)[n]
    BY <1>1, <1>4, PrefixIs
  <2>2. Len(p) <= Len(q) /\ \A n \in 1 .. Len(p) : p[n] = q[n]
    BY <1>1, <1>2, <2>1
  <2> QED
    BY <2>2, PrefixIs
<1>5. IsPrefix(q, q)
  BY <1>1, PrefixIs
<1> QED
  BY <1>3, <1>4, <1>5

LEMMA PathInduct ==
  ASSUME NEW Good, <<>> \in Good,
         \A p \in Seq(Names) : p # <<>> /\ Front(p) \in Good => p \in Good
  PROVE  Seq(Names) \subseteq Good
<1>1. ASSUME NEW q \in Seq(Names) PROVE q \in Good
  <2> DEFINE Fine == {n \in 0 .. Len(q) : \A p \in Seq(Names) : Len(p) = n => p \in Good}
  <2>1. Len(q) \in Nat
    OBVIOUS
  <2>2. 0 \in Fine
    <3>1. \A p \in Seq(Names) : Len(p) = 0 => p = <<>>
      OBVIOUS
    <3> QED
      BY <2>1, <3>1
  <2>3. ASSUME NEW n \in 1 .. Len(q), n - 1 \in Fine PROVE n \in Fine
    <3>1. ASSUME NEW p \in Seq(Names), Len(p) = n PROVE p \in Good
      <4>1. p # <<>>
        BY <2>1, <3>1
      <4>2. Front(p) \in Seq(Names) /\ Len(Front(p)) = n - 1
        BY <3>1, <4>1, FrontIs
      <4>3. Front(p) \in Good
        BY <2>3, <4>2
      <4> QED
        BY <4>1, <4>3
    <3> QED
      BY <2>1, <3>1
  <2> HIDE DEF Fine
  <2>4. \A n \in 0 .. Len(q) : n \in Fine
    BY <2>1, <2>2, <2>3, Reaches
  <2> QED
    BY <2>1, <2>4 DEF Fine
<1> QED
  BY <1>1

(* path_find() of a path, from that of the directory it is in.             *)
LEMMA PathStep ==
  ASSUME NEW d, NEW R, Sound(d, R), NEW p \in Seq(Names), p # <<>>
  PROVE  PathFind(d, p) = Descend(d, PathFind(d, Front(p)), Last(p))
<1>1. /\ Front(p) \in Seq(Names) /\ Last(p) = p[Len(p)]
      /\ Len(p) \in Nat \ {0} /\ Len(Front(p)) = Len(p) - 1
      /\ \A n \in 1 .. Len(p) - 1 : Front(p)[n] = p[n]
  BY FrontIs
<1>2. PICK f : Walked(d, p, f) /\ PathFind(d, p) = f[Len(p)]
  BY PathFollows
<1>3. PICK g : Walked(d, Front(p), g) /\ PathFind(d, Front(p)) = g[Len(p) - 1]
  BY <1>1, PathFollows
<1> DEFINE Good == {n \in 0 .. Len(p) - 1 : f[n] = g[n]}
           m == Len(p) - 1
<1>4. m \in Nat
  BY <1>1
<1>5. 0 \in Good
  BY <1>2, <1>3, <1>4 DEF Walked
<1>6. ASSUME NEW n \in 1 .. m, n - 1 \in Good PROVE n \in Good
  <2>1. n \in 1 .. Len(p) /\ n \in 1 .. Len(Front(p)) /\ n \in 0 .. m
    BY <1>1
  <2>2. f[n] = Descend(d, f[n - 1], p[n]) /\ g[n] = Descend(d, g[n - 1], Front(p)[n])
    BY <1>2, <1>3, <2>1 DEF Walked
  <2>3. f[n - 1] = g[n - 1] /\ Front(p)[n] = p[n]
    BY <1>1, <1>6
  <2> QED
    BY <2>1, <2>2, <2>3
<1> HIDE DEF Good
<1>7. m \in Good
  <2> HIDE DEF m
  <2>1. \A n \in 0 .. m : n \in Good
    BY <1>4, <1>5, <1>6, Reaches
  <2> QED
    BY <1>4, <2>1
<1>8. f[Len(p)] = Descend(d, f[m], p[Len(p)])
  BY <1>1, <1>2 DEF Walked
<1> QED
  BY <1>1, <1>2, <1>3, <1>7, <1>8 DEF Good

LEMMA LeadsRoot ==
  ASSUME NEW d, NEW R, Sound(d, R), NEW j
  PROVE  Leads(d, <<>>, j) <=> j = 0
<1>1. <<>> \in Seq(Names)
  OBVIOUS
<1>2. PathFind(d, <<>>) = Top
  BY <1>1, PathFindIs
<1> QED
  BY <1>2 DEF Leads, Top

LEMMA LeadsStep ==
  ASSUME NEW d, Linkable(d), NEW p \in Seq(Names), p # <<>>, NEW j
  PROVE  Leads(d, p, j) <=> \E i : Leads(d, Front(p), i) /\ Edge(d, i, Last(p), j)
<1> DEFINE at == PathFind(d, Front(p))
           x == Last(p)
           r == Descend(d, at, x)
           found == IF at.ok /\ d.inode[at.cur].type = "diretorio" THEN Named(d, at.cur, x) ELSE {}
<1>1. Sound(d, d.imap) /\ Front(p) \in Seq(Names) /\ x \in Names
  BY FrontIs DEF Linkable
<1>2. PathFind(d, p) = r
  BY <1>1, PathStep
<1>3. at \in At(d.imap)
  BY <1>1, PathFindIs
<1> HIDE DEF at, x
<1>4. r = IF found = {} THEN [at EXCEPT !.ok = FALSE]
          ELSE [ok |-> TRUE, parent |-> at.cur, cur |-> Piece(d, at.cur, Min(found)).inode]
  BY DEF Descend
<1>5. r.ok <=> found # {}
  <2> HIDE DEF found, r
  <2> QED
    BY <1>3, <1>4 DEF At
<1>6. found # {} => r.cur = Piece(d, at.cur, Min(found)).inode
  <2> HIDE DEF found, r
  <2> QED
    BY <1>3, <1>4 DEF At
<1>7. Leads(d, Front(p), at.cur) <=> at.ok
  BY DEF Leads, at
<1>8. ASSUME at.ok PROVE Edge(d, at.cur, x, j) <=> found # {} /\ j = Piece(d, at.cur, Min(found)).inode
  <2>1. at.cur \in Dirs(d, d.imap) <=> d.inode[at.cur].type = "diretorio"
    BY <1>3 DEF At, Dirs
  <2>2. CASE d.inode[at.cur].type = "diretorio"
    BY <1>1, <1>8, <2>1, <2>2 DEF Edge
  <2>3. CASE d.inode[at.cur].type # "diretorio"
    BY <1>1, <1>8, <2>1, <2>3 DEF Edge
  <2> QED
    BY <2>2, <2>3
<1>9. \A i : Leads(d, Front(p), i) => at.ok /\ i = at.cur
  BY DEF Leads, at
<1>10. found # {} => at.ok
  OBVIOUS
<1>11. Leads(d, p, j) <=> r.ok /\ r.cur = j
  BY <1>2 DEF Leads
<1> HIDE DEF found, r
<1> QED
  BY <1>5, <1>6, <1>7, <1>8, <1>9, <1>10, <1>11 DEF x

(* One path leads to an inode.                                             *)
LEMMA OnePath ==
  ASSUME NEW d, Linkable(d), NEW p \in Seq(Names), NEW q \in Seq(Names), NEW j,
         Leads(d, p, j), Leads(d, q, j)
  PROVE  p = q
<1> DEFINE Good == {v \in Seq(Names) : \A w \in Seq(Names), k \in Inodes :
                      Leads(d, v, k) /\ Leads(d, w, k) => v = w}
<1>1. Sound(d, d.imap) /\ d.imap \subseteq Inodes
  BY DEF Linkable, Sound, DiskType
<1>2. j \in Inodes
  <2>1. PathFind(d, p) \in At(d.imap) /\ PathFind(d, p).cur = j
    BY <1>1, PathFindIs DEF Leads
  <2> QED
    BY <1>1, <2>1 DEF At
<1>3. ASSUME NEW w \in Seq(Names), w # <<>>, Leads(d, w, 0) PROVE FALSE
  <2>1. PICK i : Edge(d, i, Last(w), 0)
    BY <1>3, LeadsStep
  <2> QED
    BY <2>1, EdgeOne
<1>4. <<>> \in Good
  <2>1. <<>> \in Seq(Names)
    OBVIOUS
  <2>2. \A k : Leads(d, <<>>, k) => k = 0
    BY <1>1, LeadsRoot
  <2> QED
    BY <1>3, <2>1, <2>2
<1>5. ASSUME NEW v \in Seq(Names), v # <<>>, Front(v) \in Good PROVE v \in Good
  <2>1. ASSUME NEW w \in Seq(Names), NEW k \in Inodes, Leads(d, v, k), Leads(d, w, k) PROVE v = w
    <3>1. w # <<>>
      <4>1. SUFFICES ASSUME w = <<>> PROVE FALSE
        OBVIOUS
      <4>2. k = 0
        BY <1>1, <2>1, <4>1, LeadsRoot
      <4> QED
        BY <1>3, <1>5, <2>1, <4>2
    <3>2. PICK i : Leads(d, Front(v), i) /\ Edge(d, i, Last(v), k)
      BY <1>5, <2>1, LeadsStep
    <3>3. PICK h : Leads(d, Front(w), h) /\ Edge(d, h, Last(w), k)
      BY <2>1, <3>1, LeadsStep
    <3>4. h = i /\ Last(w) = Last(v) /\ i \in Inodes
      BY <1>1, <3>2, <3>3, EdgeOne
    <3>5. Front(w) \in Seq(Names)
      BY <3>1, FrontIs
    <3>6. Front(v) = Front(w)
      BY <1>5, <3>2, <3>3, <3>4, <3>5
    <3> QED
      BY <1>5, <3>1, <3>4, <3>6, FrontLast
  <2> QED
    BY <2>1
<1> HIDE DEF Good
<1>6. Seq(Names) \subseteq Good
  BY <1>4, <1>5, PathInduct
<1> QED
  BY <1>2, <1>6 DEF Good

(* What a call may do to what the paths lead to.                           *)
SamePaths(d, e) == \A q \in Seq(Names) : \A j : Leads(e, q, j) <=> Leads(d, q, j)
PathAdded(d, e, path, i) ==
  \A q \in Seq(Names) : \A j : Leads(e, q, j) <=> Leads(d, q, j) \/ (q = path /\ j = i)
PathDropped(d, e, path) ==
  \A q \in Seq(Names) : \A j : Leads(e, q, j) <=> Leads(d, q, j) /\ ~ IsPrefix(path, q)

(* The same edges: the same paths.                                         *)
LEMMA LeadsSame ==
  ASSUME NEW d, NEW e, Linkable(d), Linkable(e), \A i, x, j : Edge(e, i, x, j) <=> Edge(d, i, x, j)
  PROVE  SamePaths(d, e)
<1> DEFINE Good == {v \in Seq(Names) : \A k : Leads(e, v, k) <=> Leads(d, v, k)}
<1>1. <<>> \in Good
  <2>1. <<>> \in Seq(Names)
    OBVIOUS
  <2> QED
    BY <2>1, LeadsRoot DEF Linkable
<1>2. ASSUME NEW v \in Seq(Names), v # <<>>, Front(v) \in Good PROVE v \in Good
  <2>1. \A k : Leads(d, v, k) <=> \E i : Leads(d, Front(v), i) /\ Edge(d, i, Last(v), k)
    BY <1>2, LeadsStep
  <2>2. \A k : Leads(e, v, k) <=> \E i : Leads(e, Front(v), i) /\ Edge(e, i, Last(v), k)
    BY <1>2, LeadsStep
  <2>3. \A k : Leads(e, Front(v), k) <=> Leads(d, Front(v), k)
    BY <1>2
  <2> QED
    BY <2>1, <2>2, <2>3
<1> HIDE DEF Good
<1>3. Seq(Names) \subseteq Good
  BY <1>1, <1>2, PathInduct
<1> QED
  BY <1>3 DEF Good, SamePaths

(* One more edge, from where a path leads to an inode that has none: that  *)
(* of a path more, and no other.                                           *)
LEMMA LeadsAdded ==
  ASSUME NEW d, NEW e, Linkable(d), Linkable(e), NEW path \in Seq(Names), path # <<>>, NEW p, NEW ch,
         Leads(d, Front(path), p), p # ch, \A x, j : ~ Edge(d, ch, x, j),
         \A i, x, j : Edge(e, i, x, j) <=> Edge(d, i, x, j) \/ (i = p /\ x = Last(path) /\ j = ch)
  PROVE  PathAdded(d, e, path, ch)
<1> DEFINE Good == {v \in Seq(Names) : \A k : Leads(e, v, k) <=> Leads(d, v, k) \/ (v = path /\ k = ch)}
<1>1. <<>> \in Good
  <2>1. <<>> \in Seq(Names)
    OBVIOUS
  <2> QED
    BY <2>1, LeadsRoot DEF Linkable
<1>2. ASSUME NEW v \in Seq(Names), v # <<>>, Front(v) \in Good PROVE v \in Good
  <2>1. \A k : Leads(d, v, k) <=> \E i : Leads(d, Front(v), i) /\ Edge(d, i, Last(v), k)
    BY <1>2, LeadsStep
  <2>2. \A k : Leads(e, v, k) <=> \E i : Leads(e, Front(v), i) /\ Edge(e, i, Last(v), k)
    BY <1>2, LeadsStep
  <2>3. \A k : Leads(e, Front(v), k) <=> Leads(d, Front(v), k) \/ (Front(v) = path /\ k = ch)
    BY <1>2
  <2>4. Front(v) \in Seq(Names) /\ Front(path) \in Seq(Names)
    BY <1>2, FrontIs
  <2>5. Leads(d, Front(v), p) /\ Last(v) = Last(path) => v = path
    BY <1>2, <2>4, OnePath, FrontLast
  <2>6. ASSUME NEW k, Leads(e, v, k) PROVE Leads(d, v, k) \/ (v = path /\ k = ch)
    <3>1. PICK i : Leads(e, Front(v), i) /\ Edge(e, i, Last(v), k)
      BY <2>2, <2>6
    <3>2. CASE Leads(d, Front(v), i)
      BY <2>1, <2>5, <3>1, <3>2
    <3>3. CASE Front(v) = path /\ i = ch
      BY <3>1, <3>3
    <3> QED
      BY <2>3, <3>1, <3>2, <3>3
  <2>7. ASSUME NEW k, Leads(d, v, k) \/ (v = path /\ k = ch) PROVE Leads(e, v, k)
    <3>1. CASE Leads(d, v, k)
      BY <2>1, <2>2, <2>3, <3>1
    <3>2. CASE v = path /\ k = ch
      BY <2>2, <2>3, <3>2
    <3> QED
      BY <2>7, <3>1, <3>2
  <2> QED
    BY <2>6, <2>7
<1> HIDE DEF Good
<1>3. Seq(Names) \subseteq Good
  BY <1>1, <1>2, PathInduct
<1> QED
  BY <1>3 DEF Good, PathAdded

(* No edge to or from the inode a path leads to: that path and all that    *)
(* are below it lead nowhere.                                              *)
LEMMA LeadsDropped ==
  ASSUME NEW d, NEW e, Linkable(d), Linkable(e), NEW path \in Seq(Names), path # <<>>, NEW ch,
         Leads(d, path, ch),
         \A i, x, j : Edge(e, i, x, j) <=> Edge(d, i, x, j) /\ i # ch /\ j # ch
  PROVE  PathDropped(d, e, path)
<1> DEFINE Good == {v \in Seq(Names) : \A k : Leads(e, v, k) <=> Leads(d, v, k) /\ ~ IsPrefix(path, v)}
<1>1. <<>> \in Good
  <2>1. <<>> \in Seq(Names) /\ Len(path) \in Nat \ {0} /\ Len(<<>>) = 0
    OBVIOUS
  <2>2. ASSUME NEW w \in Seq(Names), Len(w) = 0, IsPrefix(path, w) PROVE FALSE
    <3>1. Len(path) <= Len(w)
      BY <2>2, PrefixIs
    <3> QED
      BY <2>1, <2>2, <3>1
  <2>3. ~ IsPrefix(path, <<>>)
    BY <2>1, <2>2
  <2> QED
    BY <2>1, <2>3, LeadsRoot DEF Linkable
<1>2. ASSUME NEW v \in Seq(Names), v # <<>>, Front(v) \in Good PROVE v \in Good
  <2>1. \A k : Leads(d, v, k) <=> \E i : Leads(d, Front(v), i) /\ Edge(d, i, Last(v), k)
    BY <1>2, LeadsStep
  <2>2. \A k : Leads(e, v, k) <=> \E i : Leads(e, Front(v), i) /\ Edge(e, i, Last(v), k)
    BY <1>2, LeadsStep
  <2>3. \A k : Leads(e, Front(v), k) <=> Leads(d, Front(v), k) /\ ~ IsPrefix(path, Front(v))
    BY <1>2
  <2>4. IsPrefix(path, v) <=> path = v \/ IsPrefix(path, Front(v))
    BY <1>2, PrefixFront
  <2>5. Front(v) \in Seq(Names) /\ IsPrefix(path, path)
    <3>1. Len(path) \in Nat
      OBVIOUS
    <3> QED
      BY <1>2, <3>1, FrontIs, PrefixIs
  <2>6. Leads(d, Front(v), ch) => Front(v) = path
    BY <2>5, OnePath
  <2>7. \A k : Leads(d, v, k) => (k = ch <=> v = path)
    <3>1. \A k : Leads(d, path, k) => k = ch
      BY DEF Leads
    <3> QED
      BY <1>2, <3>1, OnePath
  <2>8. ASSUME NEW k, Leads(e, v, k) PROVE Leads(d, v, k) /\ ~ IsPrefix(path, v)
    <3>1. PICK i : Leads(e, Front(v), i) /\ Edge(e, i, Last(v), k)
      BY <2>2, <2>8
    <3>2. Leads(d, v, k) /\ k # ch /\ ~ IsPrefix(path, Front(v))
      BY <2>1, <2>3, <3>1
    <3> QED
      BY <2>4, <2>7, <3>2
  <2>9. ASSUME NEW k, Leads(d, v, k), ~ IsPrefix(path, v) PROVE Leads(e, v, k)
    <3>1. PICK i : Leads(d, Front(v), i) /\ Edge(d, i, Last(v), k)
      BY <2>1, <2>9
    <3>2. Leads(e, Front(v), i)
      BY <2>3, <2>4, <2>9, <3>1
    <3>3. i # ch
      BY <2>4, <2>5, <2>6, <2>9, <3>1
    <3>4. k # ch
      BY <2>4, <2>7, <2>9
    <3> QED
      BY <2>2, <3>1, <3>2, <3>3, <3>4
  <2> QED
    BY <2>8, <2>9
<1> HIDE DEF Good
<1>3. Seq(Names) \subseteq Good
  BY <1>1, <1>2, PathInduct
<1> QED
  BY <1>3 DEF Good, PathDropped
-----------------------------------------------------------------------------
(* Order and edges by block and slot, which is how the calls change them.  *)
NameAt(d, i, b, k) == d.blk[Ptr(d, i, b)][k].name
Taken(d, i, b, k) == Ptr(d, i, b) # 0 /\ EntryAt(d, i, b, k) # 0

LEMMA UsedIs ==
  ASSUME NEW d, NEW i
  PROVE  /\ \A b \in Places, k \in Slots :
              /\ Number(b, k) \in Used(d, i) <=> Taken(d, i, b, k)
              /\ Piece(d, i, Number(b, k)).name = NameAt(d, i, b, k)
              /\ Piece(d, i, Number(b, k)).inode = EntryAt(d, i, b, k)
         /\ \A n \in Used(d, i) : \E b \in Places, k \in Slots : n = Number(b, k) /\ Taken(d, i, b, k)
<1>1. ASSUME NEW b \in Places, NEW k \in Slots
      PROVE  /\ Number(b, k) \in Used(d, i) <=> Taken(d, i, b, k)
             /\ Piece(d, i, Number(b, k)).name = NameAt(d, i, b, k)
             /\ Piece(d, i, Number(b, k)).inode = EntryAt(d, i, b, k)
  <2>1. Number(b, k) \in 1 .. Capacity /\ BlockOf(Number(b, k)) = b /\ PlaceOf(Number(b, k)) = k
    BY NumberIs
  <2>2. Piece(d, i, Number(b, k)) = d.blk[Ptr(d, i, b)][k]
    BY <2>1 DEF Piece, Ptr
  <2> QED
    BY <2>1, <2>2 DEF Used, Taken, NameAt, EntryAt
<1>2. ASSUME NEW n \in Used(d, i) PROVE \E b \in Places, k \in Slots : n = Number(b, k) /\ Taken(d, i, b, k)
  <2>1. n \in 1 .. Capacity
    BY DEF Used
  <2>2. BlockOf(n) \in Places /\ PlaceOf(n) \in Slots /\ n = Number(BlockOf(n), PlaceOf(n))
    BY <2>1, PlaceIs, NumberIs
  <2> QED
    BY <1>1, <2>2
<1> QED
  BY <1>1, <1>2

LEMMA OrderedAt ==
  ASSUME NEW d, NEW i
  PROVE  Ordered(d, i) <=>
           /\ \A b \in Places : Ptr(d, i, b) # 0 => \A c \in 1 .. b : Ptr(d, i, c) # 0
           /\ \A b \in Places, k \in Slots : Taken(d, i, b, k) => Number(b, k) <= d.inode[i].size
           /\ \A b, c \in Places, k, l \in Slots :
                Taken(d, i, b, k) /\ Taken(d, i, c, l) /\ NameAt(d, i, b, k) = NameAt(d, i, c, l)
                => b = c /\ k = l
<1>1. \A b, c \in Places, k, l \in Slots : Number(b, k) = Number(c, l) => b = c /\ k = l
  <2>1. ASSUME NEW b \in Places, NEW c \in Places, NEW k \in Slots, NEW l \in Slots, Number(b, k) = Number(c, l)
        PROVE  b = c /\ k = l
    <3>1. BlockOf(Number(b, k)) = b /\ PlaceOf(Number(b, k)) = k /\ BlockOf(Number(c, l)) = c /\ PlaceOf(Number(c, l)) = l
      BY NumberIs
    <3> QED
      BY <2>1, <3>1
  <2> QED
    BY <2>1
<1>2. (\A n \in Used(d, i) : n <= d.inode[i].size) <=>
      \A b \in Places, k \in Slots : Taken(d, i, b, k) => Number(b, k) <= d.inode[i].size
  <2>1. ASSUME \A n \in Used(d, i) : n <= d.inode[i].size, NEW b \in Places, NEW k \in Slots, Taken(d, i, b, k)
        PROVE  Number(b, k) <= d.inode[i].size
    BY <2>1, UsedIs
  <2>2. ASSUME \A b \in Places, k \in Slots : Taken(d, i, b, k) => Number(b, k) <= d.inode[i].size,
               NEW n \in Used(d, i)
        PROVE  n <= d.inode[i].size
    BY <2>2, UsedIs
  <2> QED
    BY <2>1, <2>2
<1>3. (\A n, m \in Used(d, i) : Piece(d, i, n).name = Piece(d, i, m).name => n = m) <=>
      \A b, c \in Places, k, l \in Slots :
        Taken(d, i, b, k) /\ Taken(d, i, c, l) /\ NameAt(d, i, b, k) = NameAt(d, i, c, l)
        => b = c /\ k = l
  <2>1. ASSUME \A n, m \in Used(d, i) : Piece(d, i, n).name = Piece(d, i, m).name => n = m,
               NEW b \in Places, NEW c \in Places, NEW k \in Slots, NEW l \in Slots,
               Taken(d, i, b, k), Taken(d, i, c, l), NameAt(d, i, b, k) = NameAt(d, i, c, l)
        PROVE  b = c /\ k = l
    <3>1. Number(b, k) \in Used(d, i) /\ Number(c, l) \in Used(d, i)
      BY <2>1, UsedIs
    <3>2. Piece(d, i, Number(b, k)).name = Piece(d, i, Number(c, l)).name
      BY <2>1, UsedIs
    <3> QED
      BY <1>1, <2>1, <3>1, <3>2
  <2>2. ASSUME \A b, c \in Places, k, l \in Slots :
                 Taken(d, i, b, k) /\ Taken(d, i, c, l) /\ NameAt(d, i, b, k) = NameAt(d, i, c, l)
                 => b = c /\ k = l,
               NEW n \in Used(d, i), NEW m \in Used(d, i), Piece(d, i, n).name = Piece(d, i, m).name
        PROVE  n = m
    <3>1. PICK b \in Places, k \in Slots : n = Number(b, k) /\ Taken(d, i, b, k)
      BY UsedIs
    <3>2. PICK c \in Places, l \in Slots : m = Number(c, l) /\ Taken(d, i, c, l)
      BY UsedIs
    <3>3. NameAt(d, i, b, k) = NameAt(d, i, c, l)
      BY <2>2, <3>1, <3>2, UsedIs
    <3> QED
      BY <2>2, <3>1, <3>2, <3>3
  <2> QED
    BY <2>1, <2>2
<1> QED
  BY <1>2, <1>3 DEF Ordered

LEMMA EdgeAt ==
  ASSUME NEW d, Linkable(d), NEW i, NEW x, NEW j
  PROVE  Edge(d, i, x, j) <=>
           /\ i \in Dirs(d, d.imap) /\ x \in Names
           /\ \E b \in Places, k \in Slots :
                Taken(d, i, b, k) /\ NameAt(d, i, b, k) = x /\ EntryAt(d, i, b, k) = j
<1>1. ASSUME NEW n \in Used(d, i), Piece(d, i, n).name = x, Piece(d, i, n).inode = j
      PROVE  \E b \in Places, k \in Slots :
               Taken(d, i, b, k) /\ NameAt(d, i, b, k) = x /\ EntryAt(d, i, b, k) = j
  <2>1. PICK b \in Places, k \in Slots : n = Number(b, k) /\ Taken(d, i, b, k)
    BY UsedIs
  <2> QED
    BY <1>1, <2>1, UsedIs
<1>2. ASSUME NEW b \in Places, NEW k \in Slots,
             Taken(d, i, b, k), NameAt(d, i, b, k) = x, EntryAt(d, i, b, k) = j
      PROVE  \E n \in Used(d, i) : Piece(d, i, n).name = x /\ Piece(d, i, n).inode = j
  BY <1>2, UsedIs
<1> QED
  BY <1>1, <1>2, EdgeIs

(* An inode whose blocks, and what is in them, are the same.               *)
Alike(d, e, i) ==
  /\ e.inode[i] = d.inode[i]
  /\ \A b \in Places : Ptr(d, i, b) # 0 => e.blk[Ptr(d, i, b)] = d.blk[Ptr(d, i, b)]

LEMMA AlikeIs ==
  ASSUME NEW d, NEW e, NEW i, Alike(d, e, i)
  PROVE  /\ \A b \in Places : Ptr(e, i, b) = Ptr(d, i, b)
         /\ \A b \in Places, k \in Slots :
              /\ Taken(e, i, b, k) <=> Taken(d, i, b, k)
              /\ Taken(d, i, b, k) => EntryAt(e, i, b, k) = EntryAt(d, i, b, k)
                                      /\ NameAt(e, i, b, k) = NameAt(d, i, b, k)
         /\ Ordered(e, i) <=> Ordered(d, i)
<1>1. \A b \in Places : Ptr(e, i, b) = Ptr(d, i, b)
  BY DEF Alike, Ptr
<1>2. ASSUME NEW b \in Places, NEW k \in Slots
      PROVE  /\ Taken(e, i, b, k) <=> Taken(d, i, b, k)
             /\ Taken(d, i, b, k) => EntryAt(e, i, b, k) = EntryAt(d, i, b, k)
                                     /\ NameAt(e, i, b, k) = NameAt(d, i, b, k)
  BY <1>1 DEF Alike, Taken, EntryAt, NameAt
<1>3. \A b \in Places : \A c \in 1 .. b : c \in Places
  BY Sizes_Nat DEF Places
<1>4. e.inode[i].size = d.inode[i].size
  BY DEF Alike
<1>5. (\A b \in Places : Ptr(e, i, b) # 0 => \A c \in 1 .. b : Ptr(e, i, c) # 0) <=>
      (\A b \in Places : Ptr(d, i, b) # 0 => \A c \in 1 .. b : Ptr(d, i, c) # 0)
  BY <1>1, <1>3
<1>6. (\A b \in Places, k \in Slots : Taken(e, i, b, k) => Number(b, k) <= e.inode[i].size) <=>
      (\A b \in Places, k \in Slots : Taken(d, i, b, k) => Number(b, k) <= d.inode[i].size)
  BY <1>2, <1>4
<1>7. (\A b, c \in Places, k, l \in Slots :
         Taken(e, i, b, k) /\ Taken(e, i, c, l) /\ NameAt(e, i, b, k) = NameAt(e, i, c, l) => b = c /\ k = l) <=>
      (\A b, c \in Places, k, l \in Slots :
         Taken(d, i, b, k) /\ Taken(d, i, c, l) /\ NameAt(d, i, b, k) = NameAt(d, i, c, l) => b = c /\ k = l)
  BY <1>2
<1> QED
  BY <1>1, <1>2, <1>5, <1>6, <1>7, OrderedAt

LEMMA NoBlocksIs ==
  ASSUME NEW d, NEW i, d.inode[i].blocks = NoBlocks
  PROVE  /\ \A b \in Places, k \in Slots : ~ Taken(d, i, b, k)
         /\ Ordered(d, i)
<1>1. \A b \in Places : Ptr(d, i, b) = 0
  BY DEF Ptr, NoBlocks, Places
<1>2. \A b \in Places, k \in Slots : ~ Taken(d, i, b, k)
  BY <1>1 DEF Taken
<1> QED
  BY <1>1, <1>2, OrderedAt

(* Directories that stay as they are, but for empty ones.                  *)
LEMMA StayLinked ==
  ASSUME NEW d, Linkable(d), NEW e, Sound(e, e.imap),
         \A i \in Dirs(e, e.imap) :
           (i \in Dirs(d, d.imap) /\ Alike(d, e, i)) \/ e.inode[i].blocks = NoBlocks
  PROVE  /\ Linkable(e)
         /\ \A i, x, j : Edge(e, i, x, j) => Edge(d, i, x, j)
         /\ \A i, x, j : Edge(d, i, x, j) /\ i \in Dirs(e, e.imap) /\ Alike(d, e, i) => Edge(e, i, x, j)
<1>1. ASSUME NEW i \in Dirs(e, e.imap) PROVE Ordered(e, i)
  BY AlikeIs, NoBlocksIs DEF Linkable, AllOrdered
<1>2. Linkable(e)
  BY <1>1 DEF Linkable, AllOrdered
<1>3. ASSUME NEW i, NEW x, NEW j, Edge(e, i, x, j) PROVE Edge(d, i, x, j)
  <2>1. i \in Dirs(e, e.imap) /\ x \in Names
    BY <1>2, <1>3, EdgeAt
  <2>2. PICK b \in Places, k \in Slots :
          Taken(e, i, b, k) /\ NameAt(e, i, b, k) = x /\ EntryAt(e, i, b, k) = j
    BY <1>2, <1>3, EdgeAt
  <2>3. i \in Dirs(d, d.imap) /\ Alike(d, e, i)
    BY <2>1, <2>2, NoBlocksIs
  <2>4. Taken(d, i, b, k) /\ NameAt(d, i, b, k) = x /\ EntryAt(d, i, b, k) = j
    BY <2>2, <2>3, AlikeIs
  <2> QED
    BY <2>1, <2>3, <2>4, EdgeAt
<1>4. ASSUME NEW i, NEW x, NEW j, Edge(d, i, x, j), i \in Dirs(e, e.imap), Alike(d, e, i) PROVE Edge(e, i, x, j)
  <2>1. i \in Dirs(d, d.imap) /\ x \in Names
    BY <1>4, EdgeAt
  <2>2. PICK b \in Places, k \in Slots :
          Taken(d, i, b, k) /\ NameAt(d, i, b, k) = x /\ EntryAt(d, i, b, k) = j
    BY <1>4, EdgeAt
  <2>3. Taken(e, i, b, k) /\ NameAt(e, i, b, k) = x /\ EntryAt(e, i, b, k) = j
    BY <1>4, <2>2, AlikeIs
  <2> QED
    BY <1>2, <1>4, <2>1, <2>3, EdgeAt
<1> QED
  BY <1>2, <1>3, <1>4
-----------------------------------------------------------------------------
LEMMA FirstIsNext ==
  ASSUME NEW d, NEW p, NEW g \in Places, NEW l \in Slots, NEW old, NEW n, FirstPlace(d, p, g, l, old, n),
         (Ptr(d, p, g) # 0 /\ old = d.blk[Ptr(d, p, g)]) \/ old = EmptyBlock,
         d.inode[p].size \in 0 .. Capacity,
         \A b \in Places, k \in Slots : Taken(d, p, b, k) => Number(b, k) <= d.inode[p].size
  PROVE  n.size \in 0 .. Capacity /\ d.inode[p].size <= n.size /\ Number(g, l) <= n.size
<1> DEFINE z == d.inode[p].size
           S == {z + 1, Capacity}
<1>1. /\ z \in 0 .. Capacity /\ Capacity \in Nat /\ PerBlk \in Nat \ {0}
      /\ Places = 1 .. NDirect /\ Slots = 1 .. PerBlk /\ g \in Nat /\ l \in Nat /\ NDirect \in Nat
  BY Sizes_Nat DEF Places, Slots
<1>2. n.size \in S /\ n.size <= z + 1 /\ n.size <= Capacity
  <2>1. S \subseteq Nat /\ S # {} /\ z + 1 \in S /\ Capacity \in S
    BY <1>1
  <2> HIDE DEF S
  <2>2. Min(S) \in S /\ Min(S) <= z + 1 /\ Min(S) <= Capacity
    BY <2>1, MinIs
  <2> QED
    BY <2>2 DEF FirstPlace, S
<1>3. Number(g, l) \in 1 .. Capacity
  BY NumberIs
<1>4. Number(g, l) <= z + 1
  <2>1. CASE l # 1
    <3>1. l - 1 \in Slots /\ l - 1 \in 1 .. l - 1
      BY <1>1, <2>1
    <3>2. old[l - 1].inode # 0
      BY <3>1 DEF FirstPlace
    <3>3. old # EmptyBlock
      <4>1. EmptyBlock[l - 1] = FreeSlot
        BY <3>1 DEF EmptyBlock, Slots
      <4> QED
        BY <3>2, <4>1 DEF FreeSlot
    <3>4. Taken(d, p, g, l - 1)
      BY <3>2, <3>3 DEF Taken, EntryAt
    <3>5. Number(g, l - 1) <= z
      BY <3>1, <3>4
    <3> DEFINE y == (g - 1) * PerBlk
    <3>6. y \in Nat /\ Number(g, l) = y + l /\ Number(g, l - 1) = y + (l - 1)
      BY <1>1 DEF Number
    <3> HIDE DEF y
    <3> QED
      BY <1>1, <3>5, <3>6
  <2>2. CASE l = 1 /\ g # 1
    <3>1. g - 1 \in Places /\ g - 1 \in 1 .. g - 1 /\ PerBlk \in Slots
      BY <1>1, <2>2
    <3>2. Taken(d, p, g - 1, PerBlk)
      BY <3>1 DEF FirstPlace, Taken
    <3>3. Number(g - 1, PerBlk) <= z
      BY <3>1, <3>2
    <3>4. PICK h \in Nat : g = h + 2
      <4>1. g - 2 \in Nat /\ g = (g - 2) + 2
        BY <1>1, <2>2
      <4> QED
        BY <4>1
    <3>5. Number(g - 1, PerBlk) = h * PerBlk + PerBlk /\ Number(g, l) = h * PerBlk + PerBlk + 1 /\ h * PerBlk \in Nat
      BY <1>1, <2>2, <3>4 DEF Number
    <3> QED
      BY <1>1, <3>3, <3>5
  <2>3. CASE l = 1 /\ g = 1
    <3>1. Number(g, l) = 1
      BY <1>1, <2>3 DEF Number
    <3> QED
      BY <1>1, <3>1
  <2> QED
    BY <2>1, <2>2, <2>3
<1> QED
  BY <1>1, <1>2, <1>3, <1>4

(* A new entry is an edge more.                                            *)
LEMMA EntryLinks ==
  ASSUME NEW d, Linkable(d), NEW e, NEW p \in Dirs(d, d.imap), NEW ch, NEW g, NEW l, NEW x, NEW name \in Names,
         NEW old, NEW n, EntryMade(d, e, d.imap, p, ch, g, l, x, name, old, n),
         FirstPlace(d, p, g, l, old, n), \A j : ~ Edge(d, p, name, j)
  PROVE  /\ Linkable(e)
         /\ \A i, y, j : Edge(e, i, y, j) <=> Edge(d, i, y, j) \/ (i = p /\ y = name /\ j = ch)
         /\ \A i \in d.imap \ {p} : Alike(d, e, i)
<1>1. /\ d \in DiskType /\ e \in DiskType /\ Sound(d, d.imap) /\ d.imap \subseteq Inodes
      /\ g \in Places /\ l \in Slots /\ x \in Blocks /\ ch \in d.imap \ {0, p} /\ p \in Inodes
      /\ e.imap = d.imap /\ e.inode = [d.inode EXCEPT ![p] = n] /\ n.type = d.inode[p].type
      /\ n.blocks = [d.inode[p].blocks EXCEPT ![g] = x]
      /\ e.blk = [d.blk EXCEPT ![x] = [old EXCEPT ![l] = [inode |-> ch, name |-> name]]]
      /\ old \in [1 .. PerBlk -> Slot]
  BY DEF Linkable, Sound, DiskType, EntryMade, Dirs
<1>2. Sound(e, e.imap)
  BY <1>1, EntryKeeps
<1>3. e.inode[p] = n /\ \A i \in Inodes \ {p} : e.inode[i] = d.inode[i]
  BY <1>1 DEF DiskType
<1>4. Dirs(e, e.imap) = Dirs(d, d.imap)
  BY <1>1, <1>3 DEF Dirs
<1>5. e.blk[x] = [old EXCEPT ![l] = [inode |-> ch, name |-> name]] /\ \A y \in Blocks \ {x} : e.blk[y] = d.blk[y]
  BY <1>1 DEF DiskType
<1>6. (Ptr(d, p, g) = x /\ old = d.blk[x]) \/ (Ptr(d, p, g) = 0 /\ x \notin d.bmap /\ old = EmptyBlock)
  BY DEF EntryMade
<1>7. \A i \in d.imap, b \in Places : Ptr(d, i, b) = x => i = p /\ b = g
  <2>1. x # 0
    BY <1>1, Sizes_Nat
  <2> QED
    BY <1>1, <1>6, <2>1 DEF Sound, Owned, Dirs
<1>8. \A i \in d.imap, b \in Places : Ptr(d, i, b) \in {0} \cup Blocks
  BY <1>1, PtrIs
<1>9. ASSUME NEW i \in d.imap \ {p} PROVE Alike(d, e, i)
  BY <1>1, <1>3, <1>5, <1>7, <1>8 DEF Alike
<1>10. \A b \in Places : Ptr(e, p, b) = IF b = g THEN x ELSE Ptr(d, p, b)
  <2>1. d.inode[p].blocks \in [1 .. NDirect -> {0} \cup Blocks]
    BY <1>1 DEF DiskType, InodeType
  <2> QED
    BY <1>1, <1>3, <2>1 DEF Ptr, Places
<1>11. p \in d.imap
  BY DEF Dirs
<1>12. \A b \in Places \ {g} : Ptr(d, p, b) # 0 => e.blk[Ptr(d, p, b)] = d.blk[Ptr(d, p, b)]
  BY <1>5, <1>7, <1>8, <1>11
<1>13. /\ EntryAt(e, p, g, l) = ch /\ NameAt(e, p, g, l) = name /\ Taken(e, p, g, l)
       /\ ~ Taken(d, p, g, l)
  <2>1. e.blk[x][l] = [inode |-> ch, name |-> name]
    BY <1>1, <1>5 DEF Slots
  <2>2. x # 0 /\ ch # 0
    BY <1>1, Sizes_Nat
  <2>3. ~ Taken(d, p, g, l)
    BY <1>6 DEF Taken, EntryAt, FirstPlace
  <2> QED
    BY <1>1, <1>10, <2>1, <2>2, <2>3 DEF EntryAt, NameAt, Taken
<1>14. ASSUME NEW b \in Places, NEW k \in Slots, ~ (b = g /\ k = l)
       PROVE  /\ Taken(e, p, b, k) <=> Taken(d, p, b, k)
              /\ Taken(d, p, b, k) => EntryAt(e, p, b, k) = EntryAt(d, p, b, k)
                                      /\ NameAt(e, p, b, k) = NameAt(d, p, b, k)
  <2>1. CASE b # g
    BY <1>10, <1>12, <2>1 DEF Taken, EntryAt, NameAt
  <2>2. CASE b = g
    <3>1. e.blk[x][k] = old[k] /\ Ptr(e, p, b) = x /\ x # 0
      BY <1>1, <1>5, <1>10, <1>14, <2>2, Sizes_Nat DEF Slots
    <3>2. CASE Ptr(d, p, g) = x /\ old = d.blk[x]
      BY <2>2, <3>1, <3>2 DEF Taken, EntryAt, NameAt
    <3>3. CASE Ptr(d, p, g) = 0 /\ old = EmptyBlock
      <4>1. old[k].inode = 0
        BY <3>3 DEF EmptyBlock, FreeSlot, Slots
      <4> QED
        BY <2>2, <3>1, <3>3, <4>1 DEF Taken, EntryAt
    <3> QED
      BY <1>6, <3>2, <3>3
  <2> QED
    BY <2>1, <2>2
<1>15. Ordered(d, p)
  BY DEF Linkable, AllOrdered
<1>16. ASSUME NEW b \in Places, NEW k \in Slots, Taken(d, p, b, k) PROVE NameAt(d, p, b, k) # name
  BY <1>16, EdgeAt
<1>17. Ordered(e, p)
  <2>1. ASSUME NEW b \in Places, Ptr(e, p, b) # 0, NEW c \in 1 .. b PROVE Ptr(e, p, c) # 0
    <3>1. c \in Places /\ c \in Nat /\ b \in Nat /\ g \in Nat /\ c <= b
      BY <1>1, Sizes_Nat DEF Places
    <3>2. x # 0
      BY <1>1, Sizes_Nat
    <3>3. CASE c = g
      BY <1>10, <3>1, <3>2, <3>3
    <3>4. CASE c # g
      <4>1. Ptr(d, p, c) # 0
        <5>1. CASE b # g
          <6>1. Ptr(d, p, b) # 0
            BY <1>10, <2>1, <5>1
          <6> QED
            BY <1>15, <6>1, OrderedAt
        <5>2. CASE b = g
          <6>1. c \in 1 .. g - 1
            BY <3>1, <3>4, <5>2
          <6> QED
            BY <6>1 DEF FirstPlace
        <5> QED
          BY <5>1, <5>2
      <4> QED
        BY <1>10, <3>1, <3>4, <4>1
    <3> QED
      BY <3>3, <3>4
  <2>2. ASSUME NEW b \in Places, NEW k \in Slots, Taken(e, p, b, k) PROVE Number(b, k) <= e.inode[p].size
    <3>1. d.inode[p].size \in 0 .. Capacity
      BY <1>1 DEF DiskType, InodeType
    <3>2. (Ptr(d, p, g) # 0 /\ old = d.blk[Ptr(d, p, g)]) \/ old = EmptyBlock
      BY <1>1, <1>6, Sizes_Nat
    <3>3. \A c \in Places, j \in Slots : Taken(d, p, c, j) => Number(c, j) <= d.inode[p].size
      BY <1>15, OrderedAt
    <3>4. n.size \in 0 .. Capacity /\ d.inode[p].size <= n.size /\ Number(g, l) <= n.size
      BY <1>1, <3>1, <3>2, <3>3, FirstIsNext
    <3>5. Number(b, k) \in 1 .. Capacity
      BY NumberIs
    <3>6. CASE b = g /\ k = l
      BY <1>3, <3>4, <3>6
    <3>7. CASE ~ (b = g /\ k = l)
      <4>1. Number(b, k) <= d.inode[p].size
        BY <1>14, <2>2, <3>3, <3>7
      <4> QED
        BY <1>3, <3>1, <3>4, <3>5, <4>1, Sizes_Nat
    <3> QED
      BY <3>6, <3>7
  <2>3. ASSUME NEW b \in Places, NEW c \in Places, NEW k \in Slots, NEW m \in Slots,
               Taken(e, p, b, k), Taken(e, p, c, m), NameAt(e, p, b, k) = NameAt(e, p, c, m)
        PROVE  b = c /\ k = m
    <3>1. CASE b = g /\ k = l
      BY <1>13, <1>14, <1>16, <2>3, <3>1
    <3>2. CASE c = g /\ m = l
      BY <1>13, <1>14, <1>16, <2>3, <3>2
    <3>3. CASE ~ (b = g /\ k = l) /\ ~ (c = g /\ m = l)
      <4>1. Taken(d, p, b, k) /\ Taken(d, p, c, m) /\ NameAt(d, p, b, k) = NameAt(d, p, c, m)
        BY <1>14, <2>3, <3>3
      <4> QED
        BY <1>15, <4>1, OrderedAt
    <3> QED
      BY <3>1, <3>2, <3>3
  <2> QED
    BY <2>1, <2>2, <2>3, OrderedAt
<1>18. Linkable(e)
  <2>1. ASSUME NEW i \in Dirs(e, e.imap) PROVE Ordered(e, i)
    <3>1. i \in d.imap /\ Ordered(d, i)
      BY <1>4 DEF Dirs, Linkable, AllOrdered
    <3> QED
      BY <1>9, <1>17, <3>1, AlikeIs
  <2> QED
    BY <1>2, <2>1 DEF Linkable, AllOrdered
<1>19. ASSUME NEW i, NEW y, NEW j
       PROVE  Edge(e, i, y, j) <=> Edge(d, i, y, j) \/ (i = p /\ y = name /\ j = ch)
  <2>1. Edge(e, i, y, j) <=>
          /\ i \in Dirs(d, d.imap) /\ y \in Names
          /\ \E b \in Places, k \in Slots :
               Taken(e, i, b, k) /\ NameAt(e, i, b, k) = y /\ EntryAt(e, i, b, k) = j
    BY <1>4, <1>18, EdgeAt
  <2>2. Edge(d, i, y, j) <=>
          /\ i \in Dirs(d, d.imap) /\ y \in Names
          /\ \E b \in Places, k \in Slots :
               Taken(d, i, b, k) /\ NameAt(d, i, b, k) = y /\ EntryAt(d, i, b, k) = j
    BY EdgeAt
  <2>3. CASE i = p
    <3>1. ASSUME NEW b \in Places, NEW k \in Slots,
                 Taken(e, p, b, k), NameAt(e, p, b, k) = y, EntryAt(e, p, b, k) = j
          PROVE  \/ Taken(d, p, b, k) /\ NameAt(d, p, b, k) = y /\ EntryAt(d, p, b, k) = j
                 \/ y = name /\ j = ch
      BY <1>13, <1>14, <3>1
    <3>2. ASSUME NEW b \in Places, NEW k \in Slots,
                 Taken(d, p, b, k), NameAt(d, p, b, k) = y, EntryAt(d, p, b, k) = j
          PROVE  Taken(e, p, b, k) /\ NameAt(e, p, b, k) = y /\ EntryAt(e, p, b, k) = j
      BY <1>13, <1>14, <3>2
    <3> QED
      BY <1>1, <1>13, <2>1, <2>2, <2>3, <3>1, <3>2
  <2>4. CASE i # p
    <3>1. i \in Dirs(d, d.imap) => Alike(d, e, i)
      BY <1>9, <2>4 DEF Dirs
    <3> QED
      BY <2>1, <2>2, <2>4, <3>1, AlikeIs
  <2> QED
    BY <2>3, <2>4
<1> QED
  BY <1>9, <1>18, <1>19

(* An inode that is removed with the entry that led to it: what led to it  *)
(* or from it is gone, and no other edge.                                  *)
LEMMA DropUnlinks ==
  ASSUME NEW d, Linkable(d), NEW e, NEW p, NEW g, NEW l, NEW i, NEW n,
         Dropped(d, e, d.imap, p, g, l, i, n)
  PROVE  /\ Linkable(e)
         /\ \A v, y, j : Edge(e, v, y, j) <=> Edge(d, v, y, j) /\ v # i /\ j # i
         /\ \A v \in d.imap \ {i} : d.inode[v].type = "arquivo" => Alike(d, e, v)
         /\ \A v \in d.imap \ {i} : e.inode[v] = d.inode[v]
<1>1. /\ d \in DiskType /\ e \in DiskType /\ Sound(d, d.imap) /\ d.imap \subseteq Inodes
      /\ p \in Dirs(d, d.imap) /\ p \in d.imap /\ g \in Places /\ l \in Slots
      /\ IsEntry(d, p, g, l) /\ i = EntryAt(d, p, g, l)
      /\ e.inode = [d.inode EXCEPT ![i] = n]
      /\ e.blk = [d.blk EXCEPT ![Ptr(d, p, g)][l].inode = 0]
      /\ e.imap = d.imap \ {i}
  BY DEF Linkable, Sound, DiskType, Dropped, Dirs
<1>2. i \in d.imap \ {0} /\ Sound(e, e.imap)
  <2>1. i \in d.imap \ {0} /\ Sound(e, d.imap \ {i})
    BY DropKeeps
  <2> QED
    BY <1>1, <2>1
<1>3. p # i
  BY <1>1 DEF Sound, Linked
<1>4. \A v \in Inodes \ {i} : e.inode[v] = d.inode[v]
  BY <1>1 DEF DiskType
<1>5. Dirs(e, e.imap) = Dirs(d, d.imap) \ {i}
  BY <1>1, <1>4 DEF Dirs
<1> DEFINE x == Ptr(d, p, g)
<1>6. x \in Blocks /\ x # 0
  BY <1>1, PtrIs, Sizes_Nat DEF IsEntry
<1>7. /\ \A y \in Blocks \ {x} : e.blk[y] = d.blk[y]
      /\ e.blk[x] = [d.blk[x] EXCEPT ![l].inode = 0]
  BY <1>1, <1>6 DEF DiskType
<1>8. /\ e.blk[x][l].inode = 0
      /\ \A k \in Slots \ {l} : e.blk[x][k] = d.blk[x][k]
  <2>1. d.blk[x] \in [Slots -> Slot] /\ d.blk[x][l] \in Slot
    BY <1>1, <1>6, EntryIs DEF DiskType, Slots
  <2> QED
    BY <1>1, <1>7, <2>1 DEF Slot
<1>9. \A v \in d.imap, b \in Places : Ptr(d, v, b) = x => v = p /\ b = g
  BY <1>1, <1>6 DEF Sound, Owned
<1>10. \A v \in d.imap, b \in Places : Ptr(d, v, b) \in {0} \cup Blocks
  BY <1>1, PtrIs
<1>11. ASSUME NEW v \in d.imap \ {i, p} PROVE Alike(d, e, v)
  BY <1>1, <1>4, <1>7, <1>9, <1>10, <1>11 DEF Alike
<1>12. \A v \in d.imap \ {i} : d.inode[v].type = "arquivo" => Alike(d, e, v)
  BY <1>1, <1>11 DEF Dirs
<1> HIDE DEF x
<1>13. ASSUME NEW v \in d.imap \ {i}, NEW b \in Places, NEW k \in Slots
       PROVE  /\ Ptr(e, v, b) = Ptr(d, v, b)
              /\ Taken(e, v, b, k) <=> Taken(d, v, b, k) /\ ~ (v = p /\ b = g /\ k = l)
              /\ Taken(e, v, b, k) => EntryAt(e, v, b, k) = EntryAt(d, v, b, k)
                                      /\ NameAt(e, v, b, k) = NameAt(d, v, b, k)
  <2>1. Ptr(e, v, b) = Ptr(d, v, b)
    BY <1>1, <1>4 DEF Ptr
  <2>2. CASE Ptr(d, v, b) = x
    <3>1. v = p /\ b = g
      BY <1>9, <2>2
    <3>2. CASE k = l
      BY <1>8, <2>1, <2>2, <3>1, <3>2 DEF Taken, EntryAt
    <3>3. CASE k # l
      <4>1. e.blk[x][k] = d.blk[x][k]
        BY <1>8, <3>3
      <4> QED
        BY <2>1, <2>2, <3>3, <4>1 DEF Taken, EntryAt, NameAt
    <3> QED
      BY <3>2, <3>3
  <2>3. CASE Ptr(d, v, b) # x
    <3>1. ~ (v = p /\ b = g /\ k = l)
      BY <2>3 DEF x
    <3>2. Ptr(d, v, b) # 0 => e.blk[Ptr(d, v, b)] = d.blk[Ptr(d, v, b)]
      BY <1>7, <1>10, <2>3
    <3> QED
      BY <2>1, <3>1, <3>2 DEF Taken, EntryAt, NameAt
  <2> QED
    BY <2>2, <2>3
<1>14. ASSUME NEW v \in Dirs(d, d.imap) \ {i} PROVE Ordered(e, v)
  <2>1. v \in d.imap \ {i} /\ Ordered(d, v) /\ e.inode[v].size = d.inode[v].size
    BY <1>1, <1>4 DEF Dirs, Linkable, AllOrdered
  <2>2. \A b \in Places : \A c \in 1 .. b : c \in Places
    BY Sizes_Nat DEF Places
  <2>3. 1 \in Slots
    BY Sizes_Nat DEF Slots
  <2>4. ASSUME NEW b \in Places, Ptr(e, v, b) # 0, NEW c \in 1 .. b PROVE Ptr(e, v, c) # 0
    <3>1. c \in Places
      BY <2>2
    <3>2. Ptr(e, v, b) = Ptr(d, v, b) /\ Ptr(e, v, c) = Ptr(d, v, c)
      BY <1>13, <2>1, <2>3, <3>1
    <3> QED
      BY <2>1, <2>4, <3>2, OrderedAt
  <2>5. ASSUME NEW b \in Places, NEW k \in Slots, Taken(e, v, b, k) PROVE Number(b, k) <= e.inode[v].size
    BY <1>13, <2>1, <2>5, OrderedAt
  <2>6. ASSUME NEW b \in Places, NEW c \in Places, NEW k \in Slots, NEW m \in Slots,
               Taken(e, v, b, k), Taken(e, v, c, m), NameAt(e, v, b, k) = NameAt(e, v, c, m)
        PROVE  b = c /\ k = m
    <3>1. Taken(d, v, b, k) /\ Taken(d, v, c, m) /\ NameAt(d, v, b, k) = NameAt(d, v, c, m)
      BY <1>13, <2>1, <2>6
    <3> QED
      BY <2>1, <3>1, OrderedAt
  <2> QED
    BY <2>4, <2>5, <2>6, OrderedAt
<1>15. Linkable(e)
  BY <1>2, <1>5, <1>14 DEF Linkable, AllOrdered
<1>16. ASSUME NEW v, NEW y, NEW j, Edge(e, v, y, j) PROVE Edge(d, v, y, j) /\ v # i /\ j # i
  <2>1. v \in Dirs(d, d.imap) \ {i} /\ v \in d.imap \ {i} /\ y \in Names
    BY <1>5, <1>15, <1>16, EdgeAt DEF Dirs
  <2>2. PICK b \in Places, k \in Slots :
          Taken(e, v, b, k) /\ NameAt(e, v, b, k) = y /\ EntryAt(e, v, b, k) = j
    BY <1>15, <1>16, EdgeAt
  <2>3. Taken(d, v, b, k) /\ NameAt(d, v, b, k) = y /\ EntryAt(d, v, b, k) = j
    BY <1>13, <2>1, <2>2
  <2>4. Edge(d, v, y, j)
    BY <2>1, <2>3, EdgeAt
  <2>5. j \in e.imap
    BY <1>15, <1>16, EdgeOne
  <2> QED
    BY <1>1, <2>1, <2>4, <2>5
<1>17. ASSUME NEW v, NEW y, NEW j, Edge(d, v, y, j), v # i, j # i PROVE Edge(e, v, y, j)
  <2>1. v \in Dirs(d, d.imap) \ {i} /\ v \in d.imap \ {i} /\ y \in Names
    BY <1>17, EdgeAt DEF Dirs
  <2>2. PICK b \in Places, k \in Slots :
          Taken(d, v, b, k) /\ NameAt(d, v, b, k) = y /\ EntryAt(d, v, b, k) = j
    BY <1>17, EdgeAt
  <2>3. ~ (v = p /\ b = g /\ k = l)
    BY <1>1, <1>17, <2>2
  <2>4. Taken(e, v, b, k) /\ NameAt(e, v, b, k) = y /\ EntryAt(e, v, b, k) = j
    BY <1>13, <2>1, <2>2, <2>3
  <2> QED
    BY <1>5, <1>15, <2>1, <2>4, EdgeAt
<1>18. \A v \in d.imap \ {i} : e.inode[v] = d.inode[v]
  BY <1>1, <1>4
<1> QED
  BY <1>12, <1>15, <1>16, <1>17, <1>18
-----------------------------------------------------------------------------
(* What spfs_read() finds.                                                 *)
LEMMA Interval ==
  ASSUME NEW c \in Nat, NEW S, S \subseteq 1 .. c, \A k \in S : 1 .. k \subseteq S
  PROVE  \E n \in 0 .. c : S = 1 .. n /\ Cardinality(S) = n
<1> DEFINE B == {n \in Nat : \A k \in S : k <= n}
<1>1. B \subseteq Nat /\ B # {}
  <2>1. c \in B
    OBVIOUS
  <2> QED
    BY <2>1
<1>2. PICK n \in B : \A m \in B : n <= m
  <2> HIDE DEF B
  <2> QED
    BY <1>1, NatMinimum
<1>3. n \in Nat /\ n <= c
  <2>1. c \in B
    OBVIOUS
  <2> QED
    BY <1>2, <2>1
<1>4. n # 0 => n \in S
  <2>1. SUFFICES ASSUME n # 0, n \notin S PROVE FALSE
    OBVIOUS
  <2>2. n - 1 \in Nat /\ \A k \in S : k <= n - 1
    BY <1>2, <1>3, <2>1
  <2>3. n - 1 \in B
    BY <2>2
  <2>4. n <= n - 1
    BY <1>2, <2>3
  <2> QED
    BY <1>3, <2>4
<1>5. S = 1 .. n
  <2>1. S \subseteq 1 .. n
    BY <1>2
  <2>2. 1 .. n \subseteq S
    BY <1>3, <1>4
  <2> QED
    BY <2>1, <2>2
<1>6. Cardinality(1 .. n) = n
  BY <1>3, FS_Interval
<1> QED
  BY <1>3, <1>5, <1>6

LEMMA BlockGrows ==
  ASSUME NEW k \in 1 .. Capacity, NEW j \in 1 .. k
  PROVE  BlockOf(j) \in 1 .. BlockOf(k)
<1>1. j \in 1 .. Capacity /\ k \in Nat /\ j \in Nat /\ j <= k /\ PerBlk \in Nat \ {0}
  BY Sizes_Nat
<1>2. BlockOf(j) \in Places /\ BlockOf(k) \in Places /\ PlaceOf(j) \in Slots /\ PlaceOf(k) \in Slots
  BY <1>1, PlaceIs
<1>3. Number(BlockOf(j), PlaceOf(j)) = j /\ Number(BlockOf(k), PlaceOf(k)) = k
  BY <1>1, NumberIs
<1> DEFINE p == BlockOf(j) - 1
           q == BlockOf(k) - 1
           P == PerBlk
<1>4. p \in Nat /\ q \in Nat /\ PlaceOf(j) \in 1 .. P /\ PlaceOf(k) \in 1 .. P
  BY <1>2, Sizes_Nat DEF Places, Slots
<1>5. j = p * P + PlaceOf(j) /\ k = q * P + PlaceOf(k)
  BY <1>3 DEF Number
<1>6. ~ (q < p)
  <2>1. SUFFICES ASSUME q < p PROVE FALSE
    OBVIOUS
  <2> HIDE DEF p, q
  <2>2. p * P \in Nat /\ q * P \in Nat /\ q * P + P <= p * P
    BY <1>1, <1>4, <2>1, Multiples
  <2> QED
    BY <1>1, <1>4, <1>5, <2>2
<1> QED
  BY <1>2, <1>6, Sizes_Nat DEF Places

LEMMA ReadIs ==
  ASSUME NEW d \in DiskType, NEW i \in Inodes
  PROVE  \E n \in 0 .. Capacity :
           /\ SpfsRead(d, i) = [k \in 1 .. n |-> Piece(d, i, k).name]
           /\ \A k \in 1 .. Capacity : k \in 1 .. n <=> k \in Present(d, i) /\ k <= d.inode[i].size
<1> DEFINE S == {k \in Present(d, i) : k <= d.inode[i].size}
           z == d.inode[i].size
<1>1. S \subseteq 1 .. Capacity /\ Capacity \in Nat /\ z \in 0 .. Capacity
  BY Sizes_Nat DEF Present, DiskType, InodeType
<1>2. ASSUME NEW k \in S PROVE 1 .. k \subseteq S
  <2>1. ASSUME NEW j \in 1 .. k PROVE j \in S
    <3>1. k \in 1 .. Capacity /\ k <= z /\ \A b \in 1 .. BlockOf(k) : d.inode[i].blocks[b] # 0
      BY <1>1 DEF Present
    <3>2. BlockOf(j) \in 1 .. BlockOf(k) /\ j \in 1 .. Capacity /\ j <= z
      BY <1>1, <3>1, BlockGrows
    <3>3. BlockOf(k) \in Nat
      BY <3>1, PlaceIs, Sizes_Nat
    <3>4. \A b \in 1 .. BlockOf(j) : d.inode[i].blocks[b] # 0
      BY <3>1, <3>2, <3>3
    <3> QED
      BY <3>2, <3>4 DEF Present
  <2> QED
    BY <2>1
<1>3. PICK n \in 0 .. Capacity : S = 1 .. n /\ Cardinality(S) = n
  <2> HIDE DEF S
  <2> QED
    BY <1>1, <1>2, Interval
<1>4. SpfsRead(d, i) = [k \in 1 .. n |-> Piece(d, i, k).name]
  BY <1>3 DEF SpfsRead
<1>5. \A k \in 1 .. Capacity : k \in S <=> k \in Present(d, i) /\ k <= d.inode[i].size
  OBVIOUS
<1> HIDE DEF S
<1> QED
  BY <1>3, <1>4, <1>5

LEMMA PresentIs ==
  ASSUME NEW d, NEW i, NEW k \in 1 .. Capacity
  PROVE  k \in Present(d, i) <=> \A b \in 1 .. BlockOf(k) : Ptr(d, i, b) # 0
BY DEF Present, Ptr

NodeOf(d, i) ==
  [kind |-> d.inode[i].type,
   text |-> IF d.inode[i].type = "arquivo" THEN SpfsRead(d, i) ELSE <<>>]

LEMMA NodeIs ==
  ASSUME NEW d, NEW p
  PROVE  /\ \A j : Leads(d, p, j) => Node(d, p) = NodeOf(d, j)
         /\ (\A j : ~ Leads(d, p, j)) => Node(d, p) = [kind |-> "none", text |-> <<>>]
BY DEF Node, NodeOf, Leads

LEMMA NodeAlike ==
  ASSUME NEW d \in DiskType, NEW e \in DiskType, NEW i \in Inodes,
         e.inode[i].type = d.inode[i].type, d.inode[i].type = "arquivo" => Alike(d, e, i)
  PROVE  NodeOf(e, i) = NodeOf(d, i)
<1>1. CASE d.inode[i].type # "arquivo"
  BY <1>1 DEF NodeOf
<1>2. CASE d.inode[i].type = "arquivo"
  <2>1. Alike(d, e, i)
    BY <1>2
  <2>2. PICK n \in 0 .. Capacity :
           /\ SpfsRead(d, i) = [k \in 1 .. n |-> Piece(d, i, k).name]
           /\ \A k \in 1 .. Capacity : k \in 1 .. n <=> k \in Present(d, i) /\ k <= d.inode[i].size
    BY ReadIs
  <2>3. PICK m \in 0 .. Capacity :
           /\ SpfsRead(e, i) = [k \in 1 .. m |-> Piece(e, i, k).name]
           /\ \A k \in 1 .. Capacity : k \in 1 .. m <=> k \in Present(e, i) /\ k <= e.inode[i].size
    BY ReadIs
  <2>4. \A k \in 1 .. Capacity : k \in Present(e, i) <=> k \in Present(d, i)
    BY <2>1 DEF Alike, Present
  <2>5. \A k \in 1 .. Capacity : k \in 1 .. m <=> k \in 1 .. n
    BY <2>1, <2>2, <2>3, <2>4 DEF Alike
  <2>6. m = n
    <3>1. m \in 1 .. Capacity /\ m \in 1 .. m => m \in 1 .. n
      BY <2>5
    <3>2. n \in 1 .. Capacity /\ n \in 1 .. n => n \in 1 .. m
      BY <2>5
    <3> QED
      BY <3>1, <3>2, Sizes_Nat
  <2>7. ASSUME NEW k \in 1 .. n PROVE Piece(e, i, k) = Piece(d, i, k)
    <3>1. k \in 1 .. Capacity /\ k \in Present(d, i)
      BY <2>2, Sizes_Nat
    <3>2. BlockOf(k) \in Places /\ Ptr(d, i, BlockOf(k)) \in Blocks
      BY <3>1, PieceIs
    <3>3. e.blk[Ptr(d, i, BlockOf(k))] = d.blk[Ptr(d, i, BlockOf(k))] /\ e.inode[i] = d.inode[i]
      BY <2>1, <3>2, Sizes_Nat DEF Alike
    <3> QED
      BY <3>3 DEF Piece, Ptr
  <2>8. SpfsRead(e, i) = SpfsRead(d, i)
    BY <2>2, <2>3, <2>6, <2>7
  <2> QED
    BY <2>1, <2>8 DEF NodeOf, Alike
<1> QED
  BY <1>1, <1>2

(* A file of the text t.                                                   *)
LEMMA NodeText ==
  ASSUME NEW d \in DiskType, NEW i \in Inodes, d.inode[i].type = "arquivo", NEW t \in Texts,
         \A b \in Places, k \in Slots :
           Ptr(d, i, b) # 0 /\ Number(b, k) <= d.inode[i].size => NameAt(d, i, b, k) = t
  PROVE  /\ NodeOf(d, i) \in [kind : {"arquivo"}, text : Contents]
         /\ (\A k \in 1 .. d.inode[i].size : k \in Present(d, i))
              => NodeOf(d, i) = [kind |-> "arquivo", text |-> [k \in 1 .. d.inode[i].size |-> t]]
<1>1. PICK n \in 0 .. Capacity :
         /\ SpfsRead(d, i) = [k \in 1 .. n |-> Piece(d, i, k).name]
         /\ \A k \in 1 .. Capacity : k \in 1 .. n <=> k \in Present(d, i) /\ k <= d.inode[i].size
  BY ReadIs
<1>2. ASSUME NEW k \in 1 .. n PROVE Piece(d, i, k).name = t
  <2>1. k \in 1 .. Capacity /\ k \in Present(d, i) /\ k <= d.inode[i].size
    BY <1>1, Sizes_Nat
  <2>2. /\ BlockOf(k) \in Places /\ PlaceOf(k) \in Slots /\ Ptr(d, i, BlockOf(k)) \in Blocks
        /\ Piece(d, i, k) = d.blk[Ptr(d, i, BlockOf(k))][PlaceOf(k)]
    BY <2>1, PieceIs
  <2>3. Number(BlockOf(k), PlaceOf(k)) = k
    BY <2>1, NumberIs
  <2>4. NameAt(d, i, BlockOf(k), PlaceOf(k)) = t
    BY <2>1, <2>2, <2>3, Sizes_Nat
  <2> QED
    BY <2>2, <2>4 DEF NameAt
<1>3. SpfsRead(d, i) = [k \in 1 .. n |-> t]
  BY <1>1, <1>2
<1>4. NodeOf(d, i) = [kind |-> "arquivo", text |-> [k \in 1 .. n |-> t]]
  BY <1>3 DEF NodeOf
<1>5. [k \in 1 .. n |-> t] \in Contents
  BY DEF Contents
<1>6. ASSUME \A k \in 1 .. d.inode[i].size : k \in Present(d, i) PROVE n = d.inode[i].size
  <2> DEFINE z == d.inode[i].size
  <2>1. z \in 0 .. Capacity
    BY DEF DiskType, InodeType
  <2>2. z # 0 => z \in 1 .. n
    BY <1>1, <1>6, <2>1, Sizes_Nat
  <2>3. n # 0 => n <= z
    BY <1>1, <2>1, Sizes_Nat
  <2> QED
    BY <2>1, <2>2, <2>3, Sizes_Nat
<1> QED
  BY <1>4, <1>5, <1>6
-----------------------------------------------------------------------------
(* How the calls change what the paths lead to.                            *)
Kept(d, e, I) == \A i \in I :
  e.inode[i].type = d.inode[i].type /\ (d.inode[i].type = "arquivo" => Alike(d, e, i))

LEMMA PlantedLinks ==
  ASSUME NEW d, Linkable(d), NEW c, NEW i, NEW type, Planted(d, c, i, type), Inode(type).blocks = NoBlocks
  PROVE  /\ Linkable(c) /\ SamePaths(d, c) /\ c.inode[i] = Inode(type)
         /\ \A v \in d.imap : Alike(d, c, v)
         /\ \A v, x, j : Edge(c, v, x, j) <=> Edge(d, v, x, j)
         /\ \A x, j : ~ Edge(c, i, x, j)
<1>1. /\ d \in DiskType /\ c \in DiskType /\ Sound(c, c.imap) /\ d.imap \subseteq Inodes
      /\ i \in Inodes \ {0} /\ i \notin d.imap /\ c.imap = d.imap \cup {i}
      /\ c.inode = [d.inode EXCEPT ![i] = Inode(type)] /\ c.blk = d.blk
  BY DEF Linkable, Sound, DiskType, Planted, Whole
<1>2. c.inode[i] = Inode(type) /\ \A v \in Inodes \ {i} : c.inode[v] = d.inode[v]
  BY <1>1 DEF DiskType
<1>3. \A v \in d.imap : Alike(d, c, v)
  BY <1>1, <1>2 DEF Alike
<1>4. \A v \in Dirs(c, c.imap) : (v \in Dirs(d, d.imap) /\ Alike(d, c, v)) \/ c.inode[v].blocks = NoBlocks
  BY <1>1, <1>2, <1>3 DEF Dirs
<1>5. /\ Linkable(c)
      /\ \A v, x, j : Edge(c, v, x, j) => Edge(d, v, x, j)
      /\ \A v, x, j : Edge(d, v, x, j) /\ v \in Dirs(c, c.imap) /\ Alike(d, c, v) => Edge(c, v, x, j)
  BY <1>1, <1>4, StayLinked
<1>6. \A v, x, j : Edge(d, v, x, j) => v \in d.imap /\ d.inode[v].type = "diretorio"
  BY EdgeOne
<1>7. \A v \in d.imap : d.inode[v].type = "diretorio" => v \in Dirs(c, c.imap)
  BY <1>1, <1>2 DEF Dirs
<1>8. \A v, x, j : Edge(c, v, x, j) <=> Edge(d, v, x, j)
  BY <1>3, <1>5, <1>6, <1>7
<1>9. \A x, j : ~ Edge(c, i, x, j)
  BY <1>1, <1>6, <1>8
<1>10. SamePaths(d, c)
  BY <1>5, <1>8, LeadsSame
<1> QED
  BY <1>2, <1>3, <1>5, <1>8, <1>9, <1>10

(* What a creation leaves: the path leads to the new inode, or, for want   *)
(* of a block or of room in the directory, no path does.                   *)
Created(d, e, path, i, type) ==
  /\ Linkable(e) /\ i \notin d.imap /\ e.imap = d.imap \cup {i} /\ e.inode[i].type = type
  /\ Kept(d, e, d.imap)

LEMMA PlantedAdds ==
  ASSUME NEW s, Agrees(s), NEW d, Linkable(d), NEW i, NEW type, Planted(d, s.disk, i, type),
         Inode(type).blocks = NoBlocks, Inode(type).type = type,
         NEW path \in Seq(Names), path # <<>>, NEW p \in Dirs(d, d.imap), Leads(d, Front(path), p),
         \A j : ~ Leads(d, path, j)
  PROVE  LET r == PutEntry(s, p, i, Last(path))
         IN /\ Created(d, r.disk, path, i, type)
            /\ \/ PathAdded(d, r.disk, path, i)
               \/ SamePaths(d, r.disk) /\ (NoRoom(d, p) \/ FreeBlocks(r) = {})
<1> DEFINE c == s.disk
           x == Last(path)
           r == PutEntry(s, p, i, x)
           e == r.disk
<1>1. /\ Whole(c) /\ Sound(c, c.imap) /\ Counted(c) /\ c \in DiskType /\ c.imap \subseteq Inodes
      /\ i \in Inodes \ {0} /\ i \notin d.imap /\ c.imap = d.imap \cup {i}
      /\ \A j \in Dirs(c, c.imap), b \in Places, k \in Slots : IsEntry(c, j, b, k) => EntryAt(c, j, b, k) # i
  BY DEF Planted, Whole, Sound, DiskType
<1>2. /\ Linkable(c) /\ SamePaths(d, c) /\ c.inode[i] = Inode(type)
      /\ \A v \in d.imap : Alike(d, c, v)
      /\ \A v, y, j : Edge(c, v, y, j) <=> Edge(d, v, y, j)
      /\ \A y, j : ~ Edge(c, i, y, j)
  BY PlantedLinks
<1>3. x \in Names /\ Front(path) \in Seq(Names)
  BY FrontIs
<1>4. p \in d.imap /\ p \in c.imap /\ i \in c.imap \ {0, p} /\ d.inode[p].type = "diretorio"
  BY <1>1 DEF Dirs
<1>5. p \in Dirs(c, c.imap)
  BY <1>2, <1>4 DEF Dirs, Alike
<1>6. \A j : ~ Edge(c, p, x, j)
  BY <1>2, LeadsStep
<1>7. \/ r = s /\ (NoRoom(c, p) \/ FreeBlocks(s) = {})
      \/ \E g, l, y, old, n : EntryMade(c, e, c.imap, p, i, g, l, y, x, old, n) /\ FirstPlace(c, p, g, l, old, n)
  <2> DEFINE Q == c.imap
  <2>1. Sound(c, Q) /\ p \in Q /\ i \in Q \ {0, p} /\ x \in Names \cup {NoName} /\ Counted(c)
    BY <1>1, <1>3, <1>4
  <2>2. \A j \in Dirs(c, Q), b \in Places, k \in Slots : IsEntry(c, j, b, k) => EntryAt(c, j, b, k) # i
    BY <1>1
  <2> HIDE DEF Q
  <2>3. \/ PutEntry(s, p, i, x) = s /\ (NoRoom(c, p) \/ FreeBlocks(s) = {})
        \/ \E g, l, y, old, n : EntryMade(c, PutEntry(s, p, i, x).disk, Q, p, i, g, l, y, x, old, n)
                                /\ FirstPlace(c, p, g, l, old, n)
    <3> HIDE DEF x
    <3> QED
      BY <2>1, <2>2, AddEntryMade
  <2> QED
    BY <2>3 DEF Q
<1> HIDE DEF r
<1>8. CASE r = s /\ (NoRoom(c, p) \/ FreeBlocks(s) = {})
  <2>1. Kept(d, e, d.imap)
    BY <1>2, <1>8 DEF Kept, Alike
  <2>2. Created(d, e, path, i, type)
    BY <1>1, <1>2, <1>8, <2>1 DEF Created
  <2>3. NoRoom(c, p) => NoRoom(d, p)
    <3>1. Alike(d, c, p)
      BY <1>2, <1>4
    <3>2. 1 \in Slots
      BY Sizes_Nat DEF Slots
    <3>3. ASSUME NoRoom(c, p), NEW b \in Places
          PROVE  Ptr(d, p, b) # 0 /\ \A k \in Slots : EntryAt(d, p, b, k) # 0
      <4>1. Ptr(c, p, b) # 0 /\ \A k \in Slots : EntryAt(c, p, b, k) # 0
        BY <3>3 DEF NoRoom
      <4>2. \A k \in Slots : Taken(c, p, b, k)
        BY <4>1 DEF Taken
      <4>3. \A k \in Slots : Taken(d, p, b, k)
        BY <3>1, <4>2, AlikeIs
      <4> QED
        BY <3>2, <4>3 DEF Taken
    <3> QED
      BY <3>3 DEF NoRoom
  <2>4. SamePaths(d, e)
    BY <1>2, <1>8
  <2> QED
    BY <1>8, <2>2, <2>3, <2>4 DEF r
<1>9. ASSUME NEW g, NEW l, NEW y, NEW old, NEW n,
             EntryMade(c, e, c.imap, p, i, g, l, y, x, old, n), FirstPlace(c, p, g, l, old, n)
      PROVE  Created(d, e, path, i, type) /\ PathAdded(d, e, path, i)
  <2> HIDE DEF e
  <2>1. /\ Linkable(e)
        /\ \A v, z, j : Edge(e, v, z, j) <=> Edge(c, v, z, j) \/ (v = p /\ z = x /\ j = i)
        /\ \A v \in c.imap \ {p} : Alike(c, e, v)
    BY <1>2, <1>3, <1>5, <1>6, <1>9, EntryLinks
  <2>2. e.imap = c.imap /\ e.inode = [c.inode EXCEPT ![p] = n] /\ n.type = c.inode[p].type
    BY <1>9 DEF EntryMade
  <2>3. \A v \in Inodes : e.inode[v].type = c.inode[v].type
    BY <1>1, <2>2 DEF DiskType
  <2>4. \A v \in d.imap : e.inode[v].type = d.inode[v].type
    BY <1>1, <1>2, <2>3 DEF Alike
  <2>5. ASSUME NEW v \in d.imap, d.inode[v].type = "arquivo" PROVE Alike(d, e, v)
    <3>1. Alike(d, c, v) /\ v \in c.imap \ {p}
      BY <1>1, <1>2, <1>4, <2>5
    <3>2. Alike(c, e, v)
      BY <2>1, <3>1
    <3> QED
      BY <3>1, <3>2 DEF Alike, Ptr
  <2>6. e.inode[i].type = type
    BY <1>1, <1>2, <2>3
  <2>7. Created(d, e, path, i, type)
    BY <1>1, <2>1, <2>2, <2>4, <2>5, <2>6 DEF Created, Kept
  <2>8. ASSUME NEW q \in Seq(Names), NEW j PROVE Leads(e, q, j) <=> Leads(d, q, j) \/ (q = path /\ j = i)
    <3>1. Leads(c, Front(path), p) /\ p # i
      BY <1>2, <1>3, <1>4 DEF SamePaths
    <3>2. /\ Linkable(c) /\ Linkable(e) /\ \A w, k : ~ Edge(c, i, w, k)
          /\ \A v, z, k : Edge(e, v, z, k) <=> Edge(c, v, z, k) \/ (v = p /\ z = Last(path) /\ k = i)
      BY <1>2, <2>1 DEF x
    <3> HIDE DEF c
    <3>3. PathAdded(c, e, path, i)
      BY <3>1, <3>2, LeadsAdded
    <3> QED
      BY <1>2, <3>3 DEF SamePaths, PathAdded, c
  <2> QED
    BY <2>7, <2>8 DEF PathAdded
<1> QED
  BY <1>7, <1>8, <1>9 DEF r

LEMMA CreateAdds ==
  ASSUME NEW st, Agrees(st), Whole(st.disk), AllOrdered(st.disk), FreeInodes(st) # {},
         NEW path \in Seq(Names), path # <<>>, Stored(NameOf(path)) = NameOf(path),
         NEW type \in {"arquivo", "diretorio"},
         NEW p \in Dirs(st.disk, st.disk.imap), Leads(st.disk, Front(path), p),
         \A j : ~ Leads(st.disk, path, j)
  PROVE  LET r == Create(st, type, path)
             d == st.disk
             i == Min(FreeInodes(st))
         IN /\ Created(d, r.disk, path, i, type)
            /\ \/ PathAdded(d, r.disk, path, i)
               \/ SamePaths(d, r.disk) /\ (NoRoom(d, p) \/ FreeBlocks(r) = {})
<1> DEFINE d == st.disk
           i == Min(FreeInodes(st))
           q == PathFind(d, ParentPath(path)).cur
           name == Stored(NameOf(path))
           r == Create(st, type, path)
<1>1. type \in Types \ {"livre"}
  BY DEF Types
<1>2. Inode(type).blocks = NoBlocks
  BY <1>1, CreateMade
<1>3. PICK s : Agrees(s) /\ Planted(d, s.disk, i, type) /\ r = PutEntry(s, q, i, name)
  BY <1>1, CreateMade
<1>4. q = p /\ name = Last(path)
  BY DEF ParentPath, NameOf, Leads
<1>5. Linkable(d) /\ Inode(type).type = type
  BY DEF Whole, Linkable, Inode
<1> HIDE DEF d, i, q, name
<1>6. p \in Dirs(d, d.imap) /\ Leads(d, Front(path), p) /\ \A j : ~ Leads(d, path, j)
  BY DEF d
<1> DEFINE v == PutEntry(s, p, i, Last(path))
<1>7. Created(d, v.disk, path, i, type)
  BY <1>2, <1>3, <1>5, <1>6, PlantedAdds
<1>8. \/ PathAdded(d, v.disk, path, i)
      \/ SamePaths(d, v.disk) /\ (NoRoom(d, p) \/ FreeBlocks(v) = {})
  BY <1>2, <1>3, <1>5, <1>6, PlantedAdds
<1>9. v = r
  BY <1>3, <1>4
<1> QED
  BY <1>7, <1>8, <1>9 DEF d, i

(* What the first b blocks of spfs_write() hold, and how much that is.     *)
Typed(st, t, size, b, at) ==
  LET d == st.disk
      e == at.st.disk
      blocks == at.in.blocks
  IN /\ at.in.size = size
     /\ \A y \in d.bmap : e.blk[y] = d.blk[y]
     /\ \A c \in Places, k \in Slots :
          blocks[c] # 0 /\ Number(c, k) <= size => e.blk[blocks[c]][k].name = t
     /\ \E m \in 0 .. b :
          /\ \A c \in Places : blocks[c] # 0 <=> c <= m
          /\ at.done <= m * PerBlk /\ (at.done = size \/ at.done = m * PerBlk)
          /\ m # b => Stuck(at, size)
     /\ FreeBlocks(st) = {} => FreeBlocks(at.st) = {} /\ at.done = 0

LEMMA TypedNext ==
  ASSUME NEW st, NEW i \in st.disk.imap, NEW size \in Nat, NEW b \in Places, NEW at, NEW t \in Texts,
         Filled(st.disk, i, size, b - 1, at), Typed(st, t, size, b - 1, at)
  PROVE  Typed(st, t, size, b, WriteBlock(at, b, t, size))
<1> DEFINE d == st.disk
           r == WriteBlock(at, b, t, size)
           d0 == at.st.disk
           e == r.st.disk
           x == Min(FreeBlocks(at.st))
           n == Min({PerBlk, size - at.done})
           old == at.in.blocks
           blocks == r.in.blocks
           P == PerBlk
<1>1. /\ at \in Filling(size) /\ at.in \in InodeType /\ at.done \in 0 .. size /\ d0 \in DiskType
      /\ d.bmap \subseteq d0.bmap
      /\ \A c \in Places : old[c] # 0 => old[c] \in d0.bmap \ d.bmap
  BY DEF Filled, Filling, Sound
<1>2. /\ at.in.size = size
      /\ \A y \in d.bmap : d0.blk[y] = d.blk[y]
      /\ \A c \in Places, k \in Slots : old[c] # 0 /\ Number(c, k) <= size => d0.blk[old[c]][k].name = t
      /\ FreeBlocks(st) = {} => FreeBlocks(at.st) = {} /\ at.done = 0
  BY DEF Typed
<1>3. PICK m \in 0 .. b - 1 :
        /\ \A c \in Places : old[c] # 0 <=> c <= m
        /\ at.done <= m * P /\ (at.done = size \/ at.done = m * P)
        /\ m # b - 1 => Stuck(at, size)
  BY DEF Typed
<1>4. /\ r \in Filling(size)
      /\ IF Stuck(at, size) THEN r = at ELSE BlockWritten(at, b, t, size, r)
  <2>1. at \in Filling(size)
    BY <1>1
  <2> QED
    BY <2>1, WriteBlockIs
<1>5. b \in Nat \ {0} /\ Places = 1 .. NDirect /\ NDirect \in Nat /\ P \in Nat \ {0} /\ Slots = 1 .. P
  BY Sizes_Nat DEF Places, Slots
<1> HIDE DEF r
<1>6. CASE Stuck(at, size)
  <2>1. r = at /\ m \in 0 .. b
    BY <1>3, <1>4, <1>5, <1>6
  <2>2. \E v \in 0 .. b :
          /\ \A c \in Places : old[c] # 0 <=> c <= v
          /\ at.done <= v * PerBlk /\ (at.done = size \/ at.done = v * PerBlk)
          /\ v # b => Stuck(at, size)
    BY <1>3, <1>6, <2>1
  <2> QED
    BY <1>2, <2>1, <2>2 DEF Typed, r
<1>7. CASE ~ Stuck(at, size)
  <2>1. m = b - 1 /\ at.done = m * P /\ at.done # size /\ FreeBlocks(at.st) # {} /\ m \in Nat
    BY <1>3, <1>5, <1>7 DEF Stuck
  <2>2. /\ x \in Blocks \ d0.bmap
        /\ r.in = [at.in EXCEPT !.blocks[b] = x] /\ r.done = at.done + n
        /\ e = [MarkBlocks(d0, d0.bmap \cup {x}, d0.free_blocks - 1) EXCEPT !.blk[x] = TextBlock(t, n)]
    BY <1>4, <1>7 DEF BlockWritten
  <2>3. n \in Nat /\ n <= P /\ n <= size - at.done /\ (n = P \/ n = size - at.done)
    <3> DEFINE S == {P, size - at.done}
    <3>1. S \subseteq Nat /\ S # {} /\ P \in S /\ size - at.done \in S
      BY <1>1, <1>5
    <3> HIDE DEF S
    <3>2. Min(S) \in S /\ Min(S) <= P /\ Min(S) <= size - at.done
      BY <3>1, MinIs
    <3> QED
      BY <3>1, <3>2 DEF S
  <2> HIDE DEF n, x
  <2>4. e.blk[x] = TextBlock(t, n) /\ \A y \in Blocks \ {x} : e.blk[y] = d0.blk[y]
    <3> DEFINE d1 == MarkBlocks(d0, d0.bmap \cup {x}, d0.free_blocks - 1)
               c0 == TextBlock(t, n)
    <3>1. d1.blk = d0.blk /\ d1.blk \in [Blocks -> [1 .. PerBlk -> Slot]]
      BY <1>1 DEF MarkBlocks, DiskType
    <3>2. e = [d1 EXCEPT !.blk[x] = c0]
      BY <2>2
    <3>3. DOMAIN d1 = DOMAIN d0 /\ "blk" \in DOMAIN d0
      BY <1>1 DEF MarkBlocks, DiskType
    <3> HIDE DEF d1, c0, e
    <3>4. e.blk = [d1.blk EXCEPT ![x] = c0]
      BY <3>2, <3>3
    <3>5. e.blk[x] = c0 /\ \A y \in Blocks \ {x} : e.blk[y] = d1.blk[y]
      BY <2>2, <3>1, <3>4
    <3> QED
      BY <3>1, <3>5 DEF c0
  <2>5. \A c \in Places : blocks[c] = IF c = b THEN x ELSE old[c]
    <3>1. old \in [1 .. NDirect -> {0} \cup Blocks]
      BY <1>1 DEF InodeType
    <3>2. blocks = [old EXCEPT ![b] = x]
      BY <1>1, <2>2 DEF InodeType
    <3> HIDE DEF old, blocks
    <3> QED
      BY <1>5, <3>1, <3>2
  <2>6. r.in.size = size
    BY <1>1, <1>2, <2>2 DEF InodeType
  <2>7. ASSUME NEW y \in d.bmap PROVE e.blk[y] = d.blk[y]
    <3>1. y \in Blocks \ {x}
      BY <1>1, <2>2 DEF DiskType
    <3> QED
      BY <1>2, <2>4, <3>1
  <2> HIDE DEF e, blocks, old
  <2>8. ASSUME NEW c \in Places, NEW k \in Slots, blocks[c] # 0, Number(c, k) <= size
        PROVE  e.blk[blocks[c]][k].name = t
    <3>1. CASE c # b
      <4>1. blocks[c] = old[c] /\ old[c] \in Blocks \ {x}
        BY <1>1, <2>2, <2>5, <2>8, <3>1 DEF DiskType, old
      <4> QED
        BY <1>2, <2>4, <2>8, <4>1 DEF old
    <3>2. CASE c = b
      <4> DEFINE v == m * P
      <4>1. Number(c, k) = v + k /\ v \in Nat /\ k \in 1 .. P
        BY <1>5, <2>1, <3>2 DEF Number
      <4> HIDE DEF v
      <4>2. at.done = v
        BY <2>1 DEF v
      <4>3. k <= n
        BY <1>1, <2>3, <2>8, <4>1, <4>2
      <4>4. TextBlock(t, n)[k].name = t
        BY <1>5, <4>1, <4>3 DEF TextBlock
      <4> QED
        BY <2>4, <2>5, <3>2, <4>4
    <3> QED
      BY <3>1, <3>2
  <2>9. \A c \in Places : blocks[c] # 0 <=> c <= b
    <3>1. x # 0
      BY <2>2, Sizes_Nat
    <3>2. \A c \in Places : c \in Nat /\ (c <= b <=> c = b \/ c <= m)
      BY <1>5, <2>1
    <3>3. \A c \in Places : old[c] # 0 <=> c <= m
      BY <1>3 DEF old
    <3> QED
      BY <2>5, <3>1, <3>2, <3>3
  <2>10. r.done <= b * P /\ (r.done = size \/ r.done = b * P)
    <3>1. b * P = m * P + P /\ m * P \in Nat
      BY <1>5, <2>1
    <3> DEFINE v == m * P
    <3> HIDE DEF v
    <3>2. b * P = v + P /\ v \in Nat /\ at.done = v
      BY <2>1, <3>1 DEF v
    <3> QED
      BY <1>1, <1>5, <2>2, <2>3, <3>2
  <2>11. FreeBlocks(st) # {}
    BY <1>2, <2>1
  <2>12. \E v \in 0 .. b :
           /\ \A c \in Places : blocks[c] # 0 <=> c <= v
           /\ r.done <= v * PerBlk /\ (r.done = size \/ r.done = v * PerBlk)
           /\ v # b => Stuck(r, size)
    <3>1. b \in 0 .. b
      BY <1>5
    <3> QED
      BY <2>9, <2>10, <3>1
  <2> QED
    BY <2>6, <2>7, <2>8, <2>11, <2>12, Zenon DEF Typed, r, e, blocks
<1> QED
  BY <1>6, <1>7

TextHeld(d, e, i, t, size, done) ==
  /\ e.imap = d.imap /\ e.inode[i].type = "arquivo"
  /\ \A v \in d.imap \ {i} : Alike(d, e, v)
  /\ NodeOf(e, i) \in [kind : {"arquivo"}, text : Contents]
  /\ done = size => NodeOf(e, i) = [kind |-> "arquivo", text |-> [k \in 1 .. size |-> t]]

LEMMA WriteDataText ==
  ASSUME NEW st, Agrees(st), Whole(st.disk), NEW i \in st.disk.imap, st.disk.inode[i].blocks = NoBlocks,
         st.disk.inode[i].type = "arquivo", NEW t \in Texts, NEW size \in 0 .. Capacity
  PROVE  LET r == WriteData(st, i, t, size)
         IN /\ TextHeld(st.disk, r.st.disk, i, t, size, r.ret)
            /\ FreeBlocks(st) = {} /\ size # 0 => r.ret # size
<1> DEFINE d == st.disk
           R == d.imap
<1>1. /\ d \in DiskType /\ R \subseteq Inodes /\ i \in Inodes /\ i \in R /\ size \in Nat
      /\ Sound(d, R) /\ Held(d, R) /\ Counted(d) /\ NDirect \in Nat /\ Places = 1 .. NDirect
  <2>1. d \in DiskType /\ Sound(d, R) /\ Held(d, R) /\ Counted(d)
    BY DEF Whole, Sound
  <2> QED
    BY <2>1, Sizes_Nat DEF DiskType, Places
<1>2. PICK f : /\ Written(st, i, t, size, f) /\ f[0] \in Filling(size)
               /\ WriteData(st, i, t, size) =
                    Done(PutInode(f[NDirect].st, i, f[NDirect].in), f[NDirect].done)
  BY <1>1, WriteDataFollows
<1> DEFINE Good == {b \in 0 .. NDirect : Filled(d, i, size, b, f[b]) /\ Typed(st, t, size, b, f[b])}
<1>3. 0 \in Good
  <2> DEFINE o == d.inode[i]
             a == f[0]
  <2>1. f[0].st = st /\ f[0].in = [o EXCEPT !.size = size] /\ f[0].done = 0
    BY <1>2 DEF Written
  <2>2. o \in InodeType /\ o.blocks = NoBlocks
    BY <1>1 DEF DiskType
  <2>3. f[0].in.type = o.type /\ f[0].in.blocks = NoBlocks /\ f[0].in.size = size
    <3> HIDE DEF o
    <3> QED
      BY <2>1, <2>2 DEF InodeType
  <2>4. \A c \in Places : f[0].in.blocks[c] = 0
    BY <2>3 DEF NoBlocks, Places
  <2>5. Filled(d, i, size, 0, f[0])
    BY <1>1, <1>2, <2>1, <2>3, <2>4 DEF Filled
  <2> HIDE DEF a
  <2>6. a.st = st /\ a.done = 0 /\ a.in.size = size /\ \A c \in Places : a.in.blocks[c] = 0
    BY <2>1, <2>3, <2>4 DEF a
  <2>7. \E m \in 0 .. 0 :
          /\ \A c \in Places : a.in.blocks[c] # 0 <=> c <= m
          /\ a.done <= m * PerBlk /\ (a.done = size \/ a.done = m * PerBlk)
          /\ m # 0 => Stuck(a, size)
    <3>1. 0 \in 0 .. 0 /\ 0 * PerBlk = 0 /\ \A c \in Places : ~ (c <= 0)
      BY <1>1, Sizes_Nat
    <3> QED
      BY <2>6, <3>1
  <2>8. Typed(st, t, size, 0, a)
    BY <2>6, <2>7 DEF Typed
  <2> QED
    BY <1>1, <2>5, <2>8 DEF a
<1>4. ASSUME NEW b \in 1 .. NDirect, b - 1 \in Good PROVE b \in Good
  <2>1. b \in Places /\ b \in 0 .. NDirect /\ f[b] = WriteBlock(f[b - 1], b, t, size)
    BY <1>1, <1>2 DEF Written
  <2>2. Filled(d, i, size, b - 1, f[b - 1]) /\ Typed(st, t, size, b - 1, f[b - 1])
    BY <1>4
  <2>3. Filled(d, i, size, b, WriteBlock(f[b - 1], b, t, size))
    <3> HIDE DEF d
    <3> QED
      BY <1>1, <2>1, <2>2, FilledNext
  <2>4. Typed(st, t, size, b, WriteBlock(f[b - 1], b, t, size))
    BY <1>1, <2>1, <2>2, TypedNext
  <2> QED
    BY <2>1, <2>3, <2>4
<1>5. Filled(d, i, size, NDirect, f[NDirect]) /\ Typed(st, t, size, NDirect, f[NDirect])
  <2>1. \A b \in 0 .. NDirect : b \in Good
    <3> HIDE DEF Good
    <3> QED
      BY <1>1, <1>3, <1>4, Reaches
  <2> QED
    BY <1>1, <2>1
<1> DEFINE at == f[NDirect]
           n == at.in
           d1 == at.st.disk
           w == PutInode(at.st, i, n)
           e == w.disk
           r == WriteData(st, i, t, size)
<1>6. /\ Agrees(at.st) /\ n \in InodeType /\ n.type = d.inode[i].type
      /\ d1 \in DiskType /\ d1.inode = d.inode /\ d1.imap = R
  BY <1>5 DEF Filled, Filling, Sound
<1>7. /\ n.size = size
      /\ \A y \in d.bmap : d1.blk[y] = d.blk[y]
      /\ \A c \in Places, k \in Slots : n.blocks[c] # 0 /\ Number(c, k) <= size => d1.blk[n.blocks[c]][k].name = t
      /\ \E m \in 0 .. NDirect :
           (\A c \in Places : n.blocks[c] # 0 <=> c <= m) /\ at.done <= m * PerBlk
      /\ FreeBlocks(st) = {} => at.done = 0
  BY <1>5, Zenon DEF Typed
<1>8. r.st = w /\ r.ret = at.done
  BY <1>2 DEF Done
<1> HIDE DEF at, n, d1, e, r, w
<1>9. Agrees(w) /\ e = [d1 EXCEPT !.inode[i] = n] /\ e \in DiskType
  <2>1. Agrees(w) /\ e = [d1 EXCEPT !.inode[i] = n]
    BY <1>1, <1>6, PutInodeIs DEF d1, e, w
  <2> QED
    BY <2>1 DEF Agrees, CallType, e
<1>10. e.inode = [d1.inode EXCEPT ![i] = n] /\ e.blk = d1.blk /\ e.imap = R
  BY <1>6, <1>9 DEF DiskType
<1>11. e.inode[i] = n /\ \A v \in R \ {i} : e.inode[v] = d.inode[v]
  BY <1>1, <1>6, <1>10 DEF DiskType
<1>12. ASSUME NEW v \in R \ {i} PROVE Alike(d, e, v)
  <2>1. \A b \in Places : Ptr(d, v, b) # 0 => Ptr(d, v, b) \in d.bmap
    BY <1>1 DEF Sound, Owned
  <2> QED
    BY <1>7, <1>10, <1>11, <2>1 DEF Alike
<1>13. n.type = "arquivo" /\ \A b \in Places : Ptr(e, i, b) = n.blocks[b]
  BY <1>6, <1>11 DEF Ptr
<1>14. \A b \in Places, k \in Slots : Ptr(e, i, b) # 0 /\ Number(b, k) <= n.size => NameAt(e, i, b, k) = t
  BY <1>7, <1>10, <1>13 DEF NameAt
<1>15. /\ NodeOf(e, i) \in [kind : {"arquivo"}, text : Contents]
       /\ (\A k \in 1 .. n.size : k \in Present(e, i))
            => NodeOf(e, i) = [kind |-> "arquivo", text |-> [k \in 1 .. n.size |-> t]]
  <2> DEFINE z == e.inode[i].size
  <2>1. z = n.size /\ e.inode[i].type = "arquivo"
    BY <1>11, <1>13
  <2>2. \A b \in Places, k \in Slots : Ptr(e, i, b) # 0 /\ Number(b, k) <= z => NameAt(e, i, b, k) = t
    BY <1>14, <2>1
  <2>3. /\ NodeOf(e, i) \in [kind : {"arquivo"}, text : Contents]
        /\ (\A k \in 1 .. z : k \in Present(e, i))
             => NodeOf(e, i) = [kind |-> "arquivo", text |-> [k \in 1 .. z |-> t]]
    BY <1>1, <1>9, <2>1, <2>2, NodeText
  <2> HIDE DEF z
  <2> QED
    BY <2>1, <2>3
<1>16. ASSUME at.done = size, NEW k \in 1 .. size PROVE k \in Present(e, i)
  <2>1. PICK m \in 0 .. NDirect : (\A c \in Places : n.blocks[c] # 0 <=> c <= m) /\ at.done <= m * PerBlk
    BY <1>7
  <2> DEFINE c == BlockOf(k)
             l == PlaceOf(k)
  <2>2. k \in 1 .. Capacity
    BY <1>1, Sizes_Nat
  <2>3. c \in Places /\ l \in Slots /\ Number(c, l) = k
    BY <2>2, PlaceIs, NumberIs
  <2> HIDE DEF c, l
  <2>4. k = ((c - 1) * PerBlk) + l /\ c \in Nat \ {0} /\ l \in Nat \ {0} /\ m \in Nat /\ PerBlk \in Nat \ {0}
    BY <1>1, <2>3, Sizes_Nat DEF Number, Places, Slots
  <2>5. ASSUME m < c PROVE FALSE
    <3>1. m * PerBlk <= (c - 1) * PerBlk /\ m * PerBlk \in Nat /\ (c - 1) * PerBlk \in Nat
      <4>1. c - 1 \in Nat /\ (m = c - 1 \/ m < c - 1)
        BY <2>4, <2>5
      <4>2. CASE m = c - 1
        <5>1. (c - 1) * PerBlk \in Nat /\ (c - 1) * PerBlk <= (c - 1) * PerBlk
          BY <2>4, <4>1
        <5> QED
          BY <4>2, <5>1
      <4>3. CASE m < c - 1
        <5> DEFINE q == m * PerBlk
                   s == (c - 1) * PerBlk
        <5>1. q \in Nat /\ s \in Nat /\ q + PerBlk <= s
          BY <2>4, <4>1, <4>3, Multiples
        <5> HIDE DEF q, s
        <5>2. q <= s
          BY <2>4, <5>1
        <5> QED
          BY <5>1, <5>2 DEF q, s
      <4> QED
        BY <4>1, <4>2, <4>3
    <3> DEFINE q == m * PerBlk
               s == (c - 1) * PerBlk
    <3>2. q <= s /\ q \in Nat /\ s \in Nat /\ k = s + l /\ size <= q /\ k <= size /\ k \in Nat
      BY <1>1, <1>16, <2>1, <2>2, <2>4, <3>1
    <3> HIDE DEF q, s
    <3> QED
      BY <1>1, <2>4, <3>2
  <2>6. ASSUME NEW b \in 1 .. c PROVE Ptr(e, i, b) # 0
    <3>1. b \in Places /\ b <= m
      BY <1>1, <2>3, <2>4, <2>5
    <3> QED
      BY <1>13, <2>1, <3>1
  <2> QED
    BY <2>2, <2>6, PresentIs DEF c
<1>17. TextHeld(d, e, i, t, size, at.done)
  BY <1>7, <1>10, <1>11, <1>12, <1>13, <1>15, <1>16 DEF TextHeld
<1>18. FreeBlocks(st) = {} /\ size # 0 => at.done # size
  BY <1>7
<1> QED
  BY <1>8, <1>17, <1>18 DEF e, r

(* The inode and the blocks of file i are other ones, and nothing else is. *)
FileChanged(d, e, i) ==
  /\ e.imap = d.imap /\ e.inode[i].type = "arquivo"
  /\ \A v \in d.imap \ {i} : Alike(d, e, v)

LEMMA FileChanges ==
  ASSUME NEW d, Linkable(d), NEW e, Sound(e, e.imap), NEW i \in d.imap, d.inode[i].type = "arquivo",
         FileChanged(d, e, i)
  PROVE  Linkable(e) /\ SamePaths(d, e) /\ Kept(d, e, d.imap \ {i})
<1>1. e.imap = d.imap /\ e.inode[i].type = "arquivo" /\ \A v \in d.imap \ {i} : Alike(d, e, v)
  BY DEF FileChanged
<1>2. \A v \in d.imap \ {i} : e.inode[v] = d.inode[v]
  BY <1>1 DEF Alike
<1>3. "arquivo" # "diretorio"
  OBVIOUS
<1>4. \A v : v \in Dirs(e, e.imap) <=> v \in Dirs(d, d.imap)
  BY <1>1, <1>2, <1>3 DEF Dirs
<1>5. \A v \in Dirs(d, d.imap) : Alike(d, e, v)
  BY <1>1, <1>3 DEF Dirs
<1>6. Linkable(e)
  BY <1>4, <1>5, StayLinked
<1>7. \A v, x, j : Edge(e, v, x, j) => Edge(d, v, x, j)
  BY <1>4, <1>5, StayLinked
<1>8. ASSUME NEW v, NEW x, NEW j, Edge(d, v, x, j) PROVE Edge(e, v, x, j)
  <2>1. v \in Dirs(d, d.imap)
    BY <1>8 DEF Edge
  <2> QED
    BY <1>4, <1>5, <1>8, <2>1, StayLinked
<1>9. SamePaths(d, e)
  BY <1>6, <1>7, <1>8, LeadsSame
<1> QED
  BY <1>1, <1>2, <1>6, <1>9 DEF Kept

LEMMA TruncateChanges ==
  ASSUME NEW st, Agrees(st), Whole(st.disk), NEW i \in st.disk.imap, st.disk.inode[i].type = "arquivo"
  PROVE  FileChanged(st.disk, Truncate(st, i).disk, i)
<1> DEFINE d == st.disk
           e == Truncate(st, i).disk
<1>1. /\ e.imap = d.imap /\ e.inode[i].type = d.inode[i].type
      /\ e.blk = d.blk /\ \A j \in Inodes \ {i} : e.inode[j] = d.inode[j]
  BY TruncateIs
<1>2. d.imap \subseteq Inodes
  BY DEF Whole, Sound, DiskType
<1> HIDE DEF d, e
<1>3. \A v \in d.imap \ {i} : Alike(d, e, v)
  BY <1>1, <1>2 DEF Alike
<1> QED
  BY <1>1, <1>3 DEF FileChanged, d, e

(* What a path leads to after a call, seen from the shell.                 *)
None == [kind |-> "none", text |-> <<>>]
Folder == [kind |-> "diretorio", text |-> <<>>]

Leading(d) == \A q \in Seq(Names) : \A j : Leads(d, q, j) => j \in d.imap

LEMMA LeadingIs ==
  ASSUME NEW d, Linkable(d)
  PROVE  Leading(d)
<1> SUFFICES ASSUME NEW q \in Seq(Names), NEW j, Leads(d, q, j) PROVE j \in d.imap
  BY DEF Leading
<1>1. PathFind(d, q) \in At(d.imap)
  BY PathFindIs DEF Linkable
<1> QED
  BY <1>1 DEF Leads, At

LEMMA NodeSame ==
  ASSUME NEW d, Linkable(d), NEW e, Linkable(e), NEW q \in Seq(Names), NEW I \in SUBSET d.imap, Kept(d, e, I),
         \A j : Leads(e, q, j) <=> Leads(d, q, j),
         \A j : Leads(d, q, j) => j \in I
  PROVE  Node(e, q) = Node(d, q)
<1>1. d \in DiskType /\ e \in DiskType /\ d.imap \subseteq Inodes
  BY DEF Linkable, Sound, DiskType
<1>2. CASE \E j : Leads(d, q, j)
  <2>1. PICK j : Leads(d, q, j)
    BY <1>2
  <2>2. Node(d, q) = NodeOf(d, j) /\ Node(e, q) = NodeOf(e, j)
    BY <2>1, NodeIs
  <2>3. j \in I /\ j \in Inodes
    BY <1>1, <2>1
  <2>4. e.inode[j].type = d.inode[j].type /\ (d.inode[j].type = "arquivo" => Alike(d, e, j))
    BY <2>3 DEF Kept
  <2>5. NodeOf(e, j) = NodeOf(d, j)
    BY <1>1, <2>3, <2>4, NodeAlike
  <2> QED
    BY <2>2, <2>5
<1>3. CASE \A j : ~ Leads(d, q, j)
  BY <1>3, NodeIs
<1> QED
  BY <1>2, <1>3

LEMMA KeptTwice ==
  ASSUME NEW d, NEW c, NEW e, NEW I, Kept(d, c, I), Kept(c, e, I)
  PROVE  Kept(d, e, I)
<1> SUFFICES ASSUME NEW i \in I
             PROVE  /\ e.inode[i].type = d.inode[i].type
                    /\ d.inode[i].type = "arquivo" => Alike(d, e, i)
  BY DEF Kept
<1>1. /\ c.inode[i].type = d.inode[i].type /\ e.inode[i].type = c.inode[i].type
      /\ d.inode[i].type = "arquivo" => Alike(d, c, i) /\ Alike(c, e, i)
  BY DEF Kept
<1>2. ASSUME Alike(d, c, i), Alike(c, e, i) PROVE Alike(d, e, i)
  BY <1>2 DEF Alike, Ptr
<1> QED
  BY <1>1, <1>2

LEMMA ParentIs ==
  ASSUME NEW d, Linkable(d), NEW path \in Seq(Names), path # <<>>, PathFind(d, ParentPath(path)).ok,
         \A j : Leads(d, Front(path), j) => d.inode[j].type # "arquivo"
  PROVE  LET p == PathFind(d, ParentPath(path)).cur
         IN p \in Dirs(d, d.imap) /\ Leads(d, Front(path), p) /\ Node(d, Front(path)) = Folder
<1> DEFINE p == PathFind(d, ParentPath(path)).cur
<1>1. Leads(d, Front(path), p) /\ Front(path) \in Seq(Names)
  BY FrontIs DEF Leads, ParentPath
<1> HIDE DEF p
<1>2. p \in d.imap
  BY <1>1, LeadingIs DEF Leading
<1>3. d.inode[p].type \in Types \ {"livre", "arquivo"}
  BY <1>1, <1>2 DEF Linkable, Sound, DiskType, InodeType
<1>4. d.inode[p].type = "diretorio"
  BY <1>3 DEF Types
<1>5. Node(d, Front(path)) = NodeOf(d, p)
  BY <1>1, NodeIs
<1>6. NodeOf(d, p) = Folder
  BY <1>4 DEF NodeOf, Folder
<1> QED
  BY <1>1, <1>2, <1>4, <1>5, <1>6 DEF Dirs, p

(* A directory without a free place, in which the path leads nowhere.      *)
Crowded(d, path) ==
  ~ PathFind(d, path).ok /\ \E p \in Dirs(d, d.imap) : Leads(d, Front(path), p) /\ NoRoom(d, p)

File == [kind : {"arquivo"}, text : Contents]
FileOf(t, size) == [kind |-> "arquivo", text |-> [k \in 1 .. size |-> t]]

(* What spfs_write() of a text does to the tree, and what it returns.      *)
WriteShown(d, e, path, t, size, ret) ==
  /\ Linkable(e)
  /\ \A q \in Seq(Names) \ {path} : Node(e, q) = Node(d, q)
  /\ \/ Node(e, path) = Node(d, path) /\ (ret = size => Crowded(d, path))
     \/ /\ Node(d, path).kind # "diretorio" /\ Node(d, Front(path)) = Folder
        /\ Node(e, path) \in File
        /\ ret = size => Node(e, path) = FileOf(t, size)

LEMMA NothingShown ==
  ASSUME NEW d, Linkable(d), NEW path \in Seq(Names), NEW t \in Texts, NEW size \in Nat
  PROVE  WriteShown(d, d, path, t, size, -1)
BY DEF WriteShown

LEMMA OverwriteShown ==
  ASSUME NEW st, Agrees(st), Whole(st.disk), AllOrdered(st.disk), NEW path \in Seq(Names), path # <<>>,
         NEW t \in Texts, NEW size \in 0 .. Capacity,
         NEW i, Leads(st.disk, path, i), st.disk.inode[i].type # "diretorio",
         Node(st.disk, Front(path)) = Folder
  PROVE  LET r == WriteData(Truncate(st, i), i, t, size)
         IN WriteShown(st.disk, r.st.disk, path, t, size, r.ret)
<1> DEFINE d == st.disk
           s == Truncate(st, i)
           c == s.disk
           r == WriteData(s, i, t, size)
           e == r.st.disk
<1>1. Linkable(d) /\ d \in DiskType
  BY DEF Linkable, Whole, Sound
<1>2. i \in d.imap /\ d.imap \subseteq Inodes
  BY <1>1, LeadingIs DEF Leading, DiskType
<1>3. d.inode[i].type = "arquivo"
  <2>1. d.inode[i].type \in Types \ {"livre", "diretorio"}
    BY <1>1, <1>2 DEF Linkable, Sound, DiskType, InodeType
  <2> QED
    BY <2>1 DEF Types
<1>4. Agrees(s) /\ Whole(c) /\ c.imap = d.imap /\ c.inode[i].blocks = NoBlocks /\ c.inode[i].type = "arquivo"
  BY <1>2, <1>3, TruncateIs
<1>5. FileChanged(d, c, i)
  BY <1>2, <1>3, TruncateChanges
<1>6. Agrees(r.st) /\ Whole(e)
  BY <1>2, <1>4, WriteDataIs
<1>7. TextHeld(c, e, i, t, size, r.ret)
  BY <1>2, <1>4, WriteDataText
<1> HIDE DEF d, s, c, r, e
<1>8. Linkable(c) /\ SamePaths(d, c) /\ Kept(d, c, d.imap \ {i})
  BY <1>1, <1>2, <1>3, <1>4, <1>5, FileChanges DEF Whole
<1>9. FileChanged(c, e, i)
  BY <1>7 DEF TextHeld, FileChanged
<1>10. Linkable(e) /\ SamePaths(c, e) /\ Kept(c, e, d.imap \ {i})
  BY <1>2, <1>4, <1>6, <1>8, <1>9, FileChanges DEF Whole, FileChanged
<1>11. SamePaths(d, e)
  BY <1>8, <1>10 DEF SamePaths
<1>12. Kept(d, e, d.imap \ {i})
  BY <1>8, <1>10, KeptTwice
<1>13. ASSUME NEW q \in Seq(Names) \ {path} PROVE Node(e, q) = Node(d, q)
  <2>1. ASSUME NEW j, Leads(d, q, j) PROVE j \in d.imap \ {i}
    <3>1. j \in d.imap
      BY <1>1, <2>1, LeadingIs DEF Leading
    <3>2. j # i
      BY <1>1, <2>1, OnePath DEF d
    <3> QED
      BY <3>1, <3>2
  <2>2. \A j : Leads(e, q, j) <=> Leads(d, q, j)
    BY <1>11 DEF SamePaths
  <2> QED
    BY <1>1, <1>10, <1>12, <2>1, <2>2, NodeSame
<1>14. Node(e, path) = NodeOf(e, i) /\ Node(d, path) = NodeOf(d, i)
  <2>1. Leads(d, path, i) /\ Leads(e, path, i)
    BY <1>11 DEF SamePaths, d
  <2> QED
    BY <2>1, NodeIs
<1>15. NodeOf(d, i).kind # "diretorio"
  BY <1>3 DEF NodeOf
<1>16. /\ NodeOf(e, i) \in File
       /\ r.ret = size => NodeOf(e, i) = FileOf(t, size)
  BY <1>7 DEF TextHeld, File, FileOf
<1> QED
  BY <1>10, <1>13, <1>14, <1>15, <1>16 DEF WriteShown, d, s, c, r, e

(* A new inode and its entry, or the inode alone when there is no place    *)
(* for the entry.                                                          *)
EntryAdded(d, e, path, i, type, full) ==
  /\ Created(d, e, path, i, type)
  /\ \/ PathAdded(d, e, path, i)
     \/ SamePaths(d, e) /\ (Crowded(d, path) \/ full)

LEMMA CreateShown ==
  ASSUME NEW st, Agrees(st), Whole(st.disk), AllOrdered(st.disk), FreeInodes(st) # {},
         NEW path \in Seq(Names), path # <<>>, Stored(NameOf(path)) = NameOf(path),
         NEW type \in {"arquivo", "diretorio"},
         ~ PathFind(st.disk, path).ok, PathFind(st.disk, ParentPath(path)).ok,
         \A j : Leads(st.disk, Front(path), j) => st.disk.inode[j].type # "arquivo"
  PROVE  LET r == Create(st, type, path)
         IN EntryAdded(st.disk, r.disk, path, Min(FreeInodes(st)), type, FreeBlocks(r) = {})
<1> DEFINE d == st.disk
           p == PathFind(d, ParentPath(path)).cur
           i == Min(FreeInodes(st))
           r == Create(st, type, path)
           full == FreeBlocks(r) = {}
<1>1. Linkable(d)
  BY DEF Linkable, Whole
<1>2. p \in Dirs(d, d.imap) /\ Leads(d, Front(path), p)
  BY <1>1, ParentIs
<1>3. \A j : ~ Leads(d, path, j)
  BY DEF Leads
<1>4. /\ Created(d, r.disk, path, i, type)
      /\ \/ PathAdded(d, r.disk, path, i)
         \/ SamePaths(d, r.disk) /\ (NoRoom(d, p) \/ full)
  BY <1>2, <1>3, CreateAdds
<1> HIDE DEF p, i, r, full
<1>5. NoRoom(d, p) => Crowded(d, path)
  BY <1>2 DEF Crowded
<1>6. EntryAdded(d, r.disk, path, i, type, full)
  BY <1>4, <1>5 DEF EntryAdded
<1> QED
  BY <1>6 DEF i, r, full

LEMMA NewFileShown ==
  ASSUME NEW st, Agrees(st), Whole(st.disk), AllOrdered(st.disk), FreeInodes(st) # {},
         NEW path \in Seq(Names), path # <<>>, Stored(NameOf(path)) = NameOf(path), NEW t \in Texts, NEW size \in 0 .. Capacity, size # 0,
         ~ PathFind(st.disk, path).ok, PathFind(st.disk, ParentPath(path)).ok,
         \A j : Leads(st.disk, Front(path), j) => st.disk.inode[j].type # "arquivo"
  PROVE  LET r == WriteData(Create(st, "arquivo", path), Min(FreeInodes(st)), t, size)
         IN WriteShown(st.disk, r.st.disk, path, t, size, r.ret)
<1> DEFINE d == st.disk
           i == Min(FreeInodes(st))
           s == Create(st, "arquivo", path)
           c == s.disk
           full == FreeBlocks(s) = {}
           r == WriteData(s, i, t, size)
           e == r.st.disk
<1>1. Linkable(d) /\ d \in DiskType /\ Node(d, Front(path)) = Folder
  <2>1. Linkable(d) /\ d \in DiskType
    BY DEF Linkable, Whole, Sound
  <2> QED
    BY <2>1, ParentIs
<1>2. EntryAdded(d, c, path, i, "arquivo", full)
  BY CreateShown
<1>3. Agrees(s) /\ Whole(c) /\ i \in c.imap /\ c.inode[i].blocks = NoBlocks
  <2>1. "arquivo" \in Types \ {"livre"}
    BY DEF Types
  <2> QED
    BY <2>1, CreateIs
<1>4. /\ Linkable(c) /\ i \notin d.imap /\ c.imap = d.imap \cup {i} /\ c.inode[i].type = "arquivo"
      /\ Kept(d, c, d.imap)
      /\ PathAdded(d, c, path, i) \/ (SamePaths(d, c) /\ (Crowded(d, path) \/ full))
  BY <1>2 DEF EntryAdded, Created
<1>5. Agrees(r.st) /\ Whole(e)
  BY <1>3, WriteDataIs
<1>6. TextHeld(c, e, i, t, size, r.ret) /\ (full => r.ret # size)
  BY <1>3, <1>4, WriteDataText
<1>7. \A j : ~ Leads(d, path, j)
  BY DEF Leads
<1> HIDE DEF d, i, s, c, full, r, e
<1>8. FileChanged(c, e, i)
  BY <1>6 DEF TextHeld, FileChanged
<1>9. Linkable(e) /\ SamePaths(c, e) /\ Kept(c, e, c.imap \ {i})
  BY <1>3, <1>4, <1>5, <1>8, FileChanges DEF Whole, FileChanged
<1>10. Kept(d, e, d.imap)
  <2>1. c.imap \ {i} = d.imap
    BY <1>4
  <2> QED
    BY <1>4, <1>9, <2>1, KeptTwice
<1>11. \A q \in Seq(Names) : \A j : Leads(d, q, j) => j \in d.imap
  BY <1>1, LeadingIs DEF Leading
<1>12. ASSUME NEW q \in Seq(Names), \A j : Leads(e, q, j) <=> Leads(d, q, j) PROVE Node(e, q) = Node(d, q)
  BY <1>1, <1>9, <1>10, <1>11, <1>12, NodeSame
<1>13. Node(d, path).kind # "diretorio"
  BY <1>7, NodeIs
<1>14. CASE PathAdded(d, c, path, i)
  <2>1. \A q \in Seq(Names) : \A j : Leads(e, q, j) <=> Leads(d, q, j) \/ (q = path /\ j = i)
    BY <1>9, <1>14 DEF PathAdded, SamePaths
  <2>2. \A q \in Seq(Names) \ {path} : Node(e, q) = Node(d, q)
    BY <1>12, <2>1
  <2>3. Node(e, path) = NodeOf(e, i)
    BY <2>1, NodeIs
  <2>4. NodeOf(e, i) \in File /\ (r.ret = size => NodeOf(e, i) = FileOf(t, size))
    BY <1>6 DEF TextHeld, File, FileOf
  <2>5. WriteShown(d, e, path, t, size, r.ret)
    BY <1>1, <1>9, <1>13, <2>2, <2>3, <2>4 DEF WriteShown
  <2> QED
    BY <2>5 DEF d, e, r, s, i
<1>15. CASE SamePaths(d, c) /\ (Crowded(d, path) \/ full)
  <2>1. \A q \in Seq(Names) : \A j : Leads(e, q, j) <=> Leads(d, q, j)
    BY <1>9, <1>15 DEF SamePaths
  <2>2. \A q \in Seq(Names) : Node(e, q) = Node(d, q)
    BY <1>12, <2>1
  <2>3. r.ret = size => Crowded(d, path)
    BY <1>6, <1>15
  <2>4. WriteShown(d, e, path, t, size, r.ret)
    BY <1>9, <2>2, <2>3 DEF WriteShown
  <2> QED
    BY <2>4 DEF d, e, r, s, i
<1> QED
  BY <1>4, <1>14, <1>15

(* What a careful user does not do (KindsOf): the directories on the way   *)
(* to what is written or made are directories.                             *)
NotInFile(d, path) == \A j : Leads(d, Front(path), j) => d.inode[j].type # "arquivo"

LEMMA SpfsWriteShown ==
  ASSUME NEW st, Agrees(st), Whole(st.disk), AllOrdered(st.disk), NEW path \in Seq(Names), path # <<>>,
         Stored(NameOf(path)) = NameOf(path),
         NEW t \in Texts, NEW size \in Nat \ {0},
         \A j : Leads(st.disk, path, j) => st.disk.inode[j].type # "diretorio",
         NotInFile(st.disk, path)
  PROVE  LET r == SpfsWrite(st, path, t, size)
         IN WriteShown(st.disk, r.st.disk, path, t, size, r.ret)
<1> DEFINE d == st.disk
           found == PathFind(d, path)
           at == PathFind(d, ParentPath(path))
           i == Min(FreeInodes(st))
           r == SpfsWrite(st, path, t, size)
<1>1. Linkable(d) /\ \A j : Leads(d, Front(path), j) => d.inode[j].type # "arquivo"
  BY DEF Linkable, Whole, NotInFile
<1>2. WriteShown(d, d, path, t, size, -1)
  BY <1>1, NothingShown
<1>3. CASE size > Capacity \/ ~ at.ok
  <2>1. r = Done(st, -1)
    BY <1>3 DEF SpfsWrite
  <2>2. r.st = st /\ r.ret = -1
    BY <2>1 DEF Done
  <2> HIDE DEF r
  <2> QED
    BY <1>2, <2>2 DEF r
<1>4. CASE size <= Capacity /\ at.ok
  <2>1. size \in 0 .. Capacity
    BY <1>4, Sizes_Nat
  <2>2. ~ (size > Capacity \/ ~ at.ok)
    BY <1>4, Sizes_Nat
  <2>3. CASE found.ok
    <3>1. r = WriteData(Truncate(st, found.cur), found.cur, t, size)
      BY <2>2, <2>3 DEF SpfsWrite
    <3>2. Leads(d, path, found.cur)
      BY <2>3 DEF Leads
    <3>3. Node(d, Front(path)) = Folder
      BY <1>1, <1>4, ParentIs
    <3> HIDE DEF found, r
    <3>4. LET s == WriteData(Truncate(st, found.cur), found.cur, t, size)
          IN WriteShown(d, s.st.disk, path, t, size, s.ret)
      BY <2>1, <3>2, <3>3, OverwriteShown
    <3> QED
      BY <3>1, <3>4 DEF r
  <2>4. CASE ~ found.ok /\ FreeInodes(st) = {}
    <3>1. r = Done(st, -1)
      BY <2>2, <2>4 DEF SpfsWrite
    <3>2. r.st = st /\ r.ret = -1
      BY <3>1 DEF Done
    <3> HIDE DEF r
    <3> QED
      BY <1>2, <3>2 DEF r
  <2>5. CASE ~ found.ok /\ FreeInodes(st) # {}
    <3>1. r = WriteData(Create(st, "arquivo", path), i, t, size)
      BY <2>2, <2>5 DEF SpfsWrite
    <3> HIDE DEF r
    <3>2. LET s == WriteData(Create(st, "arquivo", path), i, t, size)
          IN WriteShown(d, s.st.disk, path, t, size, s.ret)
      BY <1>1, <1>4, <2>1, <2>5, NewFileShown
    <3> QED
      BY <3>1, <3>2 DEF r
  <2> QED
    BY <2>3, <2>4, <2>5
<1> QED
  BY <1>3, <1>4, Sizes_Nat

(* What spfs_mkdir() does to the tree.                                     *)
MkdirShown(d, e, path) ==
  /\ Linkable(e)
  /\ \A q \in Seq(Names) \ {path} : Node(e, q) = Node(d, q)
  /\ \/ Node(e, path) = Node(d, path)
     \/ Node(d, path) = None /\ Node(d, Front(path)) = Folder /\ Node(e, path) = Folder

LEMMA SpfsMkdirShown ==
  ASSUME NEW st, Agrees(st), Whole(st.disk), AllOrdered(st.disk), NEW path \in Seq(Names), path # <<>>,
         Stored(NameOf(path)) = NameOf(path),
         ~ PathFind(st.disk, path).ok, NotInFile(st.disk, path)
  PROVE  MkdirShown(st.disk, SpfsMkdir(st, path).st.disk, path)
<1> DEFINE d == st.disk
           at == PathFind(d, ParentPath(path))
           i == Min(FreeInodes(st))
           s == Create(st, "diretorio", path)
           e == s.disk
           full == FreeBlocks(s) = {}
           r == SpfsMkdir(st, path)
<1>1. Linkable(d) /\ \A j : Leads(d, Front(path), j) => d.inode[j].type # "arquivo"
  BY DEF Linkable, Whole, NotInFile
<1>2. r = IF ~ at.ok \/ FreeInodes(st) = {} THEN Done(st, -1) ELSE Done(s, 0)
  BY DEF SpfsMkdir
<1>3. CASE ~ at.ok \/ FreeInodes(st) = {}
  <2>1. r.st = st
    BY <1>2, <1>3 DEF Done
  <2> HIDE DEF r
  <2>2. MkdirShown(d, d, path)
    BY <1>1 DEF MkdirShown
  <2> QED
    BY <2>1, <2>2 DEF r
<1>4. CASE at.ok /\ FreeInodes(st) # {}
  <2>1. r.st = s
    BY <1>2, <1>4 DEF Done
  <2>2. Node(d, Front(path)) = Folder
    BY <1>1, <1>4, ParentIs
  <2>3. EntryAdded(d, e, path, i, "diretorio", full)
    BY <1>1, <1>4, CreateShown
  <2>4. \A j : ~ Leads(d, path, j)
    BY DEF Leads
  <2> HIDE DEF d, at, i, s, e, full, r
  <2>5. /\ Linkable(e) /\ i \notin d.imap /\ e.inode[i].type = "diretorio" /\ Kept(d, e, d.imap)
        /\ PathAdded(d, e, path, i) \/ SamePaths(d, e)
    BY <2>3 DEF EntryAdded, Created
  <2>6. \A q \in Seq(Names) : \A j : Leads(d, q, j) => j \in d.imap
    BY <1>1, LeadingIs DEF Leading
  <2>7. ASSUME NEW q \in Seq(Names), \A j : Leads(e, q, j) <=> Leads(d, q, j) PROVE Node(e, q) = Node(d, q)
    BY <1>1, <2>5, <2>6, <2>7, NodeSame
  <2>8. ASSUME PathAdded(d, e, path, i) PROVE MkdirShown(d, e, path)
    <3>1. \A q \in Seq(Names) : \A j : Leads(e, q, j) <=> Leads(d, q, j) \/ (q = path /\ j = i)
      BY <2>8 DEF PathAdded
    <3>2. \A q \in Seq(Names) \ {path} : Node(e, q) = Node(d, q)
      BY <2>7, <3>1
    <3>3. Node(e, path) = NodeOf(e, i)
      BY <3>1, NodeIs
    <3>4. NodeOf(e, i) = Folder
      BY <2>5 DEF NodeOf, Folder
    <3>5. Node(d, path) = None
      BY <2>4, NodeIs DEF None
    <3> QED
      BY <2>2, <2>5, <3>2, <3>3, <3>4, <3>5 DEF MkdirShown
  <2>9. ASSUME SamePaths(d, e) PROVE MkdirShown(d, e, path)
    <3>1. \A q \in Seq(Names) : Node(e, q) = Node(d, q)
      BY <2>7, <2>9 DEF SamePaths
    <3> QED
      BY <2>5, <3>1 DEF MkdirShown
  <2>10. MkdirShown(d, e, path)
    BY <2>5, <2>8, <2>9
  <2> QED
    BY <2>1, <2>10 DEF d, e, r
<1> QED
  BY <1>3, <1>4

(* What spfs_unlink() does to the tree.                                    *)
UnlinkShown(d, e, path) ==
  /\ Linkable(e)
  /\ \/ \A q \in Seq(Names) : Node(e, q) = Node(d, q)
     \/ \A q \in Seq(Names) : Node(e, q) = IF IsPrefix(path, q) THEN None ELSE Node(d, q)

LEMMA SpfsUnlinkShown ==
  ASSUME NEW st, Agrees(st), Whole(st.disk), AllOrdered(st.disk), NEW path \in Seq(Names), path # <<>>
  PROVE  UnlinkShown(st.disk, SpfsUnlink(st, path).st.disk, path)
<1> DEFINE d == st.disk
           e == SpfsUnlink(st, path).st.disk
           found == PathFind(d, path)
           i == found.cur
<1>1. Linkable(d)
  BY DEF Linkable, Whole
<1>2. Unlinked(d, e, path)
  BY SpfsUnlinkIs
<1> HIDE DEF d, e
<1>3. CASE ~ found.ok
  <2>1. e = d
    BY <1>2, <1>3 DEF Unlinked
  <2>2. UnlinkShown(d, e, path)
    BY <1>1, <2>1 DEF UnlinkShown
  <2> QED
    BY <2>2 DEF d, e
<1>4. CASE found.ok
  <2>1. PICK p, g, l, n : Dropped(d, e, d.imap, p, g, l, i, n)
    BY <1>2, <1>4 DEF Unlinked
  <2>2. Leads(d, path, i)
    BY <1>4 DEF Leads
  <2> HIDE DEF found, i
  <2>3. /\ Linkable(e)
        /\ \A v, y, j : Edge(e, v, y, j) <=> Edge(d, v, y, j) /\ v # i /\ j # i
        /\ \A v \in d.imap \ {i} : d.inode[v].type = "arquivo" => Alike(d, e, v)
        /\ \A v \in d.imap \ {i} : e.inode[v] = d.inode[v]
    BY <1>1, <2>1, DropUnlinks
  <2>4. PathDropped(d, e, path)
    BY <1>1, <2>2, <2>3, LeadsDropped
  <2>5. \A q \in Seq(Names) : \A j : Leads(e, q, j) <=> Leads(d, q, j) /\ ~ IsPrefix(path, q)
    BY <2>4 DEF PathDropped
  <2>6. IsPrefix(path, path)
    BY PrefixIs
  <2>7. Kept(d, e, d.imap \ {i})
    BY <2>3 DEF Kept
  <2>8. ASSUME NEW q \in Seq(Names) PROVE Node(e, q) = IF IsPrefix(path, q) THEN None ELSE Node(d, q)
    <3>1. CASE IsPrefix(path, q)
      <4>1. \A j : ~ Leads(e, q, j)
        BY <2>5, <3>1
      <4> QED
        BY <3>1, <4>1, NodeIs DEF None
    <3>2. CASE ~ IsPrefix(path, q)
      <4>1. q # path
        BY <2>6, <3>2
      <4>2. \A j : Leads(e, q, j) <=> Leads(d, q, j)
        BY <2>5, <3>2
      <4>3. ASSUME NEW j, Leads(d, q, j) PROVE j \in d.imap \ {i}
        <5>1. j \in d.imap
          BY <1>1, <4>3, LeadingIs DEF Leading
        <5>2. j # i
          BY <1>1, <2>2, <4>1, <4>3, OnePath
        <5> QED
          BY <5>1, <5>2
      <4>4. Node(e, q) = Node(d, q)
        BY <1>1, <2>3, <2>7, <4>2, <4>3, NodeSame
      <4> QED
        BY <3>2, <4>4
    <3> QED
      BY <3>1, <3>2
  <2>9. UnlinkShown(d, e, path)
    BY <2>3, <2>8 DEF UnlinkShown
  <2> QED
    BY <2>9 DEF d, e
<1> QED
  BY <1>3, <1>4

(* A formatted disk has a root.                                            *)
FormatShown(e) ==
  Linkable(e) /\ \A q \in Seq(Names) : Node(e, q) = IF q = <<>> THEN Folder ELSE None

LEMMA FreshShown ==
  ASSUME NEW e, Whole(e), Fresh(e)
  PROVE  FormatShown(e)
<1>1. e.imap = {0} /\ e.inode[0].type = "diretorio" /\ e.inode[0].blocks = NoBlocks
  BY DEF Fresh, Inode
<1>2. Linkable(e)
  BY <1>1, NoBlocksIs DEF Linkable, Whole, AllOrdered, Dirs
<1>3. ASSUME NEW i, NEW x, NEW j PROVE ~ Edge(e, i, x, j)
  <2>1. i \in Dirs(e, e.imap) => i = 0
    BY <1>1 DEF Dirs
  <2>2. \A b \in Places, k \in Slots : ~ Taken(e, 0, b, k)
    BY <1>1, NoBlocksIs
  <2> QED
    BY <1>2, <2>1, <2>2, EdgeAt
<1>4. ASSUME NEW q \in Seq(Names), q # <<>> PROVE \A j : ~ Leads(e, q, j)
  BY <1>2, <1>3, <1>4, LeadsStep
<1>5. Leads(e, <<>>, 0)
  BY <1>2, LeadsRoot DEF Linkable
<1>6. NodeOf(e, 0) = Folder
  BY <1>1 DEF NodeOf, Folder
<1>7. Node(e, <<>>) = Folder
  BY <1>5, <1>6, NodeIs
<1>8. ASSUME NEW q \in Seq(Names), q # <<>> PROVE Node(e, q) = None
  BY <1>4, <1>8, NodeIs DEF None
<1> QED
  BY <1>2, <1>7, <1>8 DEF FormatShown
-----------------------------------------------------------------------------
(* The tree of files.  No power cut, and a careful user (KindsOf), who     *)
(* gives no name longer than an entry holds.                               *)
Careful ==
  PowerCuts = FALSE /\ Uses \cap {"root", "overdir", "again", "underfile", "longname"} = {}

LEMMA CarefulIs == Careful => Uninterrupted
BY DEF Careful, Uninterrupted

TreeInv == IndInv /\ AllOrdered(disk) /\ tree = TreeOf(disk)

LEMMA TreeIs ==
  ASSUME NEW d, NEW q \in Paths
  PROVE  TreeOf(d)[q] = Node(d, q)
BY DEF TreeOf

LEMMA PathsIs ==
  /\ Paths \subseteq Seq(Names) /\ <<>> \in Paths
  /\ \A path \in Paths \ {<<>>} : Front(path) \in Paths
BY SpaceFSAssumption, PathsAssumption

LEMMA KindsCareful ==
  ASSUME Careful, NEW op \in {"write", "mkdir"}, NEW path \in Paths, KindsOf(op, path) \subseteq Uses
  PROVE  /\ path # <<>> /\ Stored(NameOf(path)) = NameOf(path) /\ NotInFile(disk, path)
         /\ op = "write" => \A j : Leads(disk, path, j) => disk.inode[j].type # "diretorio"
         /\ op = "mkdir" => ~ PathFind(disk, path).ok
<1>1. \A k \in {"root", "overdir", "again", "underfile", "longname"} : k \notin KindsOf(op, path)
  BY DEF Careful
<1>2. path # <<>>
  <2>1. "root" \notin KindsOf(op, path)
    BY <1>1
  <2> QED
    BY <2>1 DEF KindsOf
<1>3. NotInFile(disk, path)
  <2>1. "underfile" \notin KindsOf(op, path)
    BY <1>1
  <2>2. ~ IsType(ParentPath(path), "arquivo")
    BY <1>2, <2>1 DEF KindsOf
  <2> QED
    BY <1>2, <2>2 DEF IsType, NotInFile, Leads, ParentPath
<1>4. ASSUME op = "write", NEW j, Leads(disk, path, j) PROVE disk.inode[j].type # "diretorio"
  <2>1. "overdir" \notin KindsOf(op, path)
    BY <1>1
  <2>2. ~ IsType(path, "diretorio")
    BY <1>4, <2>1 DEF KindsOf
  <2> QED
    BY <1>4, <2>2 DEF IsType, Leads
<1>5. op = "mkdir" => ~ PathFind(disk, path).ok
  <2>1. "again" \notin KindsOf(op, path)
    BY <1>1
  <2> QED
    BY <2>1 DEF KindsOf
<1>6. Stored(NameOf(path)) = NameOf(path)
  <2>1. "longname" \notin KindsOf(op, path)
    BY <1>1
  <2> QED
    BY <2>1 DEF KindsOf
<1> QED
  BY <1>2, <1>3, <1>4, <1>5, <1>6

LEMMA FullIs ==
  ASSUME NEW p, NoRoom(disk, p)
  PROVE  IsFull(p)
<1> SUFFICES ASSUME NEW k \in 1 .. Capacity
             PROVE  k \in Present(disk, p) /\ Piece(disk, p, k).inode # 0
  BY DEF IsFull
<1>1. BlockOf(k) \in Places /\ PlaceOf(k) \in Slots
  BY PlaceIs
<1>2. \A b \in 1 .. BlockOf(k) : b \in Places
  BY <1>1, Sizes_Nat DEF Places
<1>3. k \in Present(disk, p)
  BY <1>2, PresentIs DEF NoRoom
<1>4. EntryAt(disk, p, BlockOf(k), PlaceOf(k)) # 0
  BY <1>1 DEF NoRoom
<1> QED
  BY <1>3, <1>4 DEF EntryAt, Ptr, Piece

LEMMA NotCrowded ==
  ASSUME NEW path \in Paths, path # <<>>, KindsOf("write", path) \subseteq Uses, "fulldir" \notin Uses
  PROVE  ~ Crowded(disk, path)
<1> SUFFICES ASSUME Crowded(disk, path) PROVE FALSE
  OBVIOUS
<1>1. PICK p \in Dirs(disk, disk.imap) : Leads(disk, Front(path), p) /\ NoRoom(disk, p)
  BY DEF Crowded
<1>2. IsFull(p)
  BY <1>1, FullIs
<1>3. /\ PathFind(disk, ParentPath(path)).cur = p /\ IsType(ParentPath(path), "diretorio")
  BY <1>1 DEF Leads, ParentPath, IsType, Dirs
<1>4. ~ PathFind(disk, path).ok
  BY DEF Crowded
<1>5. "fulldir" \in KindsOf("write", path)
  BY <1>2, <1>3, <1>4 DEF KindsOf
<1> QED
  BY <1>5

LEMMA StartOrdered ==
  ASSUME TreeInv
  PROVE  Agrees(Start) /\ Whole(Start.disk) /\ AllOrdered(Start.disk) /\ Start.disk = disk /\ Linkable(disk)
<1>1. Whole(disk) /\ AllOrdered(disk)
  BY DEF TreeInv, IndInv
<1>2. Agrees(Start) /\ Start.disk = disk
  BY StartAgrees DEF TreeInv
<1> QED
  BY <1>1, <1>2 DEF Linkable, Whole

LEMMA WriteIsShown ==
  ASSUME Careful, TreeInv, NEW path \in Paths, NEW t \in Texts, NEW size \in Sizes,
         KindsOf("write", path) \subseteq Uses
  PROVE  LET r == SpfsWrite(Start, path, t, size)
         IN path # <<>> /\ WriteShown(disk, r.st.disk, path, t, size, r.ret)
<1>1. path \in Seq(Names) /\ size \in Nat \ {0}
  BY SpaceFSAssumption
<1>2. /\ path # <<>> /\ Stored(NameOf(path)) = NameOf(path) /\ NotInFile(disk, path)
      /\ \A j : Leads(disk, path, j) => disk.inode[j].type # "diretorio"
  BY KindsCareful
<1> DEFINE st == Start
           r == SpfsWrite(st, path, t, size)
<1>3. Agrees(st) /\ Whole(st.disk) /\ AllOrdered(st.disk) /\ st.disk = disk
  BY StartOrdered
<1> HIDE DEF st
<1>4. WriteShown(st.disk, r.st.disk, path, t, size, r.ret)
  BY <1>1, <1>2, <1>3, SpfsWriteShown
<1> QED
  BY <1>2, <1>3, <1>4 DEF st

LEMMA CallShows ==
  ASSUME Careful, NEW op, NEW path, NEW result, Call(op, path, result), Linkable(result.st.disk)
  PROVE  disk' = result.st.disk /\ tree' = TreeOf(disk') /\ AllOrdered(disk')
<1>1. Returns(result)
  BY DEF Call, PowerFails, Careful
<1>2. disk' = result.st.disk /\ tree' = TreeOf(disk')
  BY <1>1 DEF Returns
<1> QED
  BY <1>2 DEF Linkable

LEMMA TreeSame ==
  ASSUME NEW d, NEW e, \A q \in Paths : Node(e, q) = Node(d, q)
  PROVE  TreeOf(e) = TreeOf(d)
BY DEF TreeOf

TreeShown == tree' = TreeOf(disk') /\ AllOrdered(disk') /\ [Tree!Next]_tree

LEMMA WriteStep ==
  ASSUME Careful, TreeInv, NEW path \in Paths, NEW t \in Texts, NEW size \in Sizes, Write(path, t, size)
  PROVE  TreeShown
<1> DEFINE r == SpfsWrite(Start, path, t, size)
           e == r.st.disk
<1>1. Call("write", path, r) /\ KindsOf("write", path) \subseteq Uses
  BY DEF Write, Call
<1>2. path # <<>> /\ WriteShown(disk, e, path, t, size, r.ret)
  BY <1>1, WriteIsShown
<1> HIDE DEF r
<1>3. Linkable(e)
  BY <1>2 DEF WriteShown
<1>4. disk' = e /\ tree' = TreeOf(disk') /\ AllOrdered(disk')
  BY <1>1, <1>3, CallShows
<1>5. tree = TreeOf(disk) /\ tree' = TreeOf(e)
  BY <1>4 DEF TreeInv
<1> HIDE DEF e
<1>6. path \in Seq(Names) /\ Front(path) \in Paths /\ \A q \in Paths \ {path} : q \in Seq(Names) \ {path}
  BY <1>2, PathsIs
<1>7. \A q \in Paths \ {path} : Node(e, q) = Node(disk, q)
  BY <1>2, <1>6 DEF WriteShown
<1>8. CASE Node(e, path) = Node(disk, path)
  <2>1. tree' = tree
    BY <1>5, <1>7, <1>8, TreeSame
  <2> QED
    BY <1>4, <2>1 DEF TreeShown
<1>9. CASE /\ Node(disk, path).kind # "diretorio" /\ Node(disk, Front(path)) = Folder
           /\ Node(e, path) \in File
  <2>1. Tree!Only(path)
    BY <1>5, <1>7, TreeIs DEF Tree!Only
  <2>2. Tree!InDirectory(path)
    BY <1>2, <1>5, <1>6, <1>9, TreeIs DEF Tree!InDirectory, Tree!Parent, Tree!Front, Front, Tree!Directory, Folder
  <2>3. tree[path] # Tree!Directory
    BY <1>5, <1>9, TreeIs DEF Tree!Directory
  <2>4. tree'[path] \in [kind : {"arquivo"}, text : Contents]
    BY <1>5, <1>9, TreeIs DEF File
  <2>5. Tree!Write(path)
    BY <2>1, <2>2, <2>3, <2>4 DEF Tree!Write
  <2> QED
    BY <1>4, <2>5 DEF TreeShown, Tree!Next
<1> QED
  BY <1>2, <1>8, <1>9 DEF WriteShown

LEMMA MkdirStep ==
  ASSUME Careful, TreeInv, NEW path \in Paths, Mkdir(path)
  PROVE  TreeShown
<1> DEFINE r == SpfsMkdir(Start, path)
           e == r.st.disk
<1>1. Call("mkdir", path, r) /\ KindsOf("mkdir", path) \subseteq Uses
  BY DEF Mkdir, Call
<1>2. /\ path # <<>> /\ Stored(NameOf(path)) = NameOf(path)
      /\ NotInFile(disk, path) /\ ~ PathFind(disk, path).ok
  BY <1>1, KindsCareful
<1>3. path \in Seq(Names) /\ Front(path) \in Paths /\ \A q \in Paths \ {path} : q \in Seq(Names) \ {path}
  BY <1>2, PathsIs
<1>4. MkdirShown(disk, e, path)
  <2> DEFINE st == Start
  <2>1. Agrees(st) /\ Whole(st.disk) /\ AllOrdered(st.disk) /\ st.disk = disk
    BY StartOrdered
  <2> HIDE DEF st
  <2>2. MkdirShown(st.disk, SpfsMkdir(st, path).st.disk, path)
    BY <1>2, <1>3, <2>1, SpfsMkdirShown
  <2> QED
    BY <2>1, <2>2 DEF st
<1> HIDE DEF r
<1>5. Linkable(e)
  BY <1>4 DEF MkdirShown
<1>6. disk' = e /\ tree' = TreeOf(disk') /\ AllOrdered(disk')
  BY <1>1, <1>5, CallShows
<1>7. tree = TreeOf(disk) /\ tree' = TreeOf(e)
  BY <1>6 DEF TreeInv
<1> HIDE DEF e
<1>8. \A q \in Paths \ {path} : Node(e, q) = Node(disk, q)
  BY <1>3, <1>4 DEF MkdirShown
<1>9. CASE Node(e, path) = Node(disk, path)
  <2>1. tree' = tree
    BY <1>7, <1>8, <1>9, TreeSame
  <2> QED
    BY <1>6, <2>1 DEF TreeShown
<1>10. CASE Node(disk, path) = None /\ Node(disk, Front(path)) = Folder /\ Node(e, path) = Folder
  <2>1. Tree!Only(path)
    BY <1>7, <1>8, TreeIs DEF Tree!Only
  <2>2. Tree!InDirectory(path)
    BY <1>2, <1>3, <1>7, <1>10, TreeIs DEF Tree!InDirectory, Tree!Parent, Tree!Front, Front, Tree!Directory, Folder
  <2>3. tree[path] = Tree!Nothing
    BY <1>7, <1>10, TreeIs DEF Tree!Nothing, None
  <2>4. tree'[path] = Tree!Directory
    BY <1>7, <1>10, TreeIs DEF Tree!Directory, Folder
  <2>5. Tree!Mkdir(path)
    BY <2>1, <2>2, <2>3, <2>4 DEF Tree!Mkdir
  <2> QED
    BY <1>6, <2>5 DEF TreeShown, Tree!Next
<1> QED
  BY <1>4, <1>9, <1>10 DEF MkdirShown

LEMMA UnlinkStep ==
  ASSUME Careful, TreeInv, NEW path \in Paths, Unlink(path)
  PROVE  TreeShown
<1> DEFINE r == SpfsUnlink(Start, path)
           e == r.st.disk
<1>1. Call("unlink", path, r) /\ KindsOf("unlink", path) \subseteq Uses
  BY DEF Unlink, Call
<1>2. path # <<>>
  <2>1. "root" \notin KindsOf("unlink", path)
    BY <1>1 DEF Careful
  <2> QED
    BY <2>1 DEF KindsOf
<1>3. path \in Seq(Names) /\ Paths \subseteq Seq(Names)
  BY PathsIs
<1>4. UnlinkShown(disk, e, path)
  <2> DEFINE st == Start
  <2>1. Agrees(st) /\ Whole(st.disk) /\ AllOrdered(st.disk) /\ st.disk = disk
    BY StartOrdered
  <2> HIDE DEF st
  <2>2. UnlinkShown(st.disk, SpfsUnlink(st, path).st.disk, path)
    BY <1>2, <1>3, <2>1, SpfsUnlinkShown
  <2> QED
    BY <2>1, <2>2 DEF st
<1> HIDE DEF r
<1>5. Linkable(e)
  BY <1>4 DEF UnlinkShown
<1>6. disk' = e /\ tree' = TreeOf(disk') /\ AllOrdered(disk')
  BY <1>1, <1>5, CallShows
<1>7. tree = TreeOf(disk) /\ tree' = TreeOf(e)
  BY <1>6 DEF TreeInv
<1> HIDE DEF e
<1>8. CASE \A q \in Seq(Names) : Node(e, q) = Node(disk, q)
  <2>1. tree' = tree
    BY <1>3, <1>7, <1>8, TreeSame
  <2> QED
    BY <1>6, <2>1 DEF TreeShown
<1>9. CASE \A q \in Seq(Names) : Node(e, q) = IF IsPrefix(path, q) THEN None ELSE Node(disk, q)
  <2>1. tree' = [q \in Paths |-> IF IsPrefix(path, q) THEN None ELSE tree[q]]
    BY <1>3, <1>7, <1>9 DEF TreeOf
  <2>2. \A q : Tree!IsPrefix(path, q) <=> IsPrefix(path, q)
    BY DEF Tree!IsPrefix, IsPrefix
  <2>3. Tree!Unlink(path)
    BY <1>2, <2>1, <2>2 DEF Tree!Unlink, Tree!Nothing, None
  <2> QED
    BY <1>6, <2>3 DEF TreeShown, Tree!Next
<1> QED
  BY <1>4, <1>8, <1>9 DEF UnlinkShown

LEMMA FormattedIs ==
  ASSUME NEW e, FormatShown(e)
  PROVE  TreeOf(e) = [q \in Paths |-> IF q = <<>> THEN Folder ELSE None]
<1>1. \A q \in Paths : Node(e, q) = IF q = <<>> THEN Folder ELSE None
  BY PathsIs DEF FormatShown
<1> QED
  BY <1>1 DEF TreeOf

LEMMA FormatStep ==
  ASSUME Careful, TreeInv, NEW junk \in Junk, Format(junk)
  PROVE  TreeShown
<1> DEFINE r == SpfsFormat(Start, junk)
           e == r.st.disk
<1>1. Call("format", <<>>, r)
  BY DEF Format
<1>2. FormatShown(e)
  <2>1. Start \in CallType /\ Texted(Start.disk)
    BY StartAgrees DEF TreeInv, IndInv, Whole, Sound
  <2> QED
    BY <2>1, SpfsFormatIs, FreshShown
<1> HIDE DEF r
<1>3. Linkable(e)
  BY <1>2 DEF FormatShown
<1>4. disk' = e /\ tree' = TreeOf(disk') /\ AllOrdered(disk')
  BY <1>1, <1>3, CallShows
<1> HIDE DEF e
<1>5. Tree!Format
  BY <1>2, <1>4, FormattedIs DEF Tree!Format, Tree!Directory, Tree!Nothing, Folder, None
<1> QED
  BY <1>4, <1>5 DEF TreeShown, Tree!Next

LEMMA Step_TreeInv == Careful /\ TreeInv /\ [Next]_vars => TreeInv' /\ [Tree!Next]_tree
<1> SUFFICES ASSUME Careful, TreeInv, [Next]_vars PROVE TreeInv' /\ [Tree!Next]_tree
  OBVIOUS
<1>1. IndInv'
  BY CarefulIs, Step_IndInv DEF TreeInv
<1>2. TreeShown
  <2>1. CASE Mount \/ UNCHANGED vars
    <3>1. UNCHANGED <<disk, tree>>
      BY <2>1 DEF Mount, vars
    <3> QED
      BY <3>1 DEF TreeShown, TreeInv
  <2> QED
    BY <2>1, WriteStep, MkdirStep, UnlinkStep, FormatStep DEF Next
<1> QED
  BY <1>1, <1>2 DEF TreeShown, TreeInv

LEMMA Init_TreeInv == Init => TreeInv /\ Tree!Init
<1> SUFFICES ASSUME Init PROVE TreeInv /\ Tree!Init
  OBVIOUS
<1>1. IndInv /\ Whole(disk)
  BY Init_IndInv DEF IndInv
<1>2. Fresh(disk)
  <2>1. PICK junk \in Junk : disk.imap = {0} /\ disk.inode = Table(junk)
    BY DEF Init
  <2> QED
    BY <2>1, TableIs DEF Fresh
<1>3. FormatShown(disk)
  BY <1>1, <1>2, FreshShown
<1>4. tree = TreeOf(disk)
  BY DEF Init
<1>5. TreeInv
  BY <1>1, <1>3, <1>4 DEF TreeInv, FormatShown, Linkable
<1>6. tree = [q \in Paths |-> IF q = <<>> THEN Folder ELSE None]
  BY <1>3, <1>4, FormattedIs
<1>7. Tree!Init
  BY <1>6, PathsIs DEF Tree!Init, Tree!Directory, Tree!Nothing, Tree!InDirectory, Folder, None
<1> QED
  BY <1>5, <1>7

(* Between calls a path leads to at most one inode, no directory has two   *)
(* entries of a name, and every entry is where path_find() looks.          *)
LEMMA TreeInvariant == Careful => (Spec => []TreeInv)
<1> SUFFICES ASSUME Careful PROVE Spec => []TreeInv
  OBVIOUS
<1>1. Init => TreeInv
  BY Init_TreeInv
<1>2. TreeInv /\ [Next]_vars => TreeInv'
  BY Step_TreeInv
<1> QED
  BY <1>1, <1>2, PTL DEF Spec

(* spfs_write() that returns the size has written the text, in blocks used *)
(* before too and whatever else is on the disk, provided the directory has *)
(* a place for the entry (spfs_write() does not hear dir_add_entry() fail) *)
(* and the entry holds the whole name (Careful).                           *)
THEOREM WritesAreRead == Careful /\ "fulldir" \notin Uses => (Spec => []WrittenIsRead)
<1> SUFFICES ASSUME Careful, "fulldir" \notin Uses PROVE Spec => []WrittenIsRead
  OBVIOUS
<1>1. ASSUME TreeInv PROVE WrittenIsRead
  <2> SUFFICES ASSUME NEW path \in Paths, NEW t \in Texts, NEW size \in Sizes,
                      KindsOf("write", path) \subseteq Uses,
                      SpfsWrite(Start, path, t, size).ret = size
               PROVE  Node(SpfsWrite(Start, path, t, size).st.disk, path) = FileOf(t, size)
    BY DEF WrittenIsRead, FileOf
  <2> DEFINE r == SpfsWrite(Start, path, t, size)
  <2>1. path # <<>> /\ WriteShown(disk, r.st.disk, path, t, size, r.ret)
    BY <1>1, WriteIsShown
  <2>2. ~ Crowded(disk, path)
    BY <2>1, NotCrowded
  <2> HIDE DEF r
  <2> QED
    BY <2>1, <2>2 DEF WriteShown, r
<1>2. TreeInv => WrittenIsRead
  BY <1>1
<1> QED
  BY <1>2, TreeInvariant, PTL

(* Inodes, blocks and bitmaps implement the tree of files: spfs_format(),  *)
(* spfs_write(), spfs_mkdir() and spfs_unlink() do to it what FileTree     *)
(* says, or nothing, whatever was created and removed before, on a full    *)
(* disk and in a full directory too, as long as no name is longer than an  *)
(* entry holds.                                                            *)
THEOREM Refinement == Careful => (Spec => ImplementsFileTree)
<1> SUFFICES ASSUME Careful PROVE Spec => Tree!Spec
  BY DEF ImplementsFileTree
<1>1. Init => Tree!Init
  BY Init_TreeInv
<1>2. TreeInv /\ [Next]_vars => [Tree!Next]_tree
  BY Step_TreeInv
<1>3. Spec => []TreeInv
  BY TreeInvariant
<1> QED
  BY <1>1, <1>2, <1>3, PTL DEF Spec, Tree!Spec
-----------------------------------------------------------------------------
(***************************************************************************)
(* Power cuts while files and directories are created.  A cut leaves any   *)
(* of the disks of a call, and home copies that are at most one write      *)
(* behind; the next calls use these as they are.  What is kept then: there *)
(* is a set R of live inodes, those a path leads to among them, on which   *)
(* the disk is sound, and every copy of the bitmaps marks R and its blocks *)
(* and lags behind the disk by the one mark that is taken next.  The live  *)
(* directories have no hole: an entry is made behind those that are there. *)
(***************************************************************************)
Holeless(d, i) == \A b \in Places, k \in Slots :
  Taken(d, i, b, k) => /\ \A c \in 1 .. b - 1, l \in Slots : Taken(d, i, c, l)
                       /\ \A l \in 1 .. k - 1 : Taken(d, i, b, l)
Firm(d, R) == Sound(d, R) /\ \A i \in Dirs(d, R) : Holeless(d, i)

Follows(S, T, U) == S \subseteq T /\ \A x \in T \ S : x = Min(U \ S)
Lags(c, d) == Follows(c.imap, d.imap, Inodes \ {0}) /\ Follows(c.bmap, d.bmap, Blocks)

FitsIn(n, total, S) == n \in total - Cardinality(S) .. total
Fits(c) == FitsIn(c.free_blocks, TotalBlocks, c.bmap) /\ FitsIn(c.free_inodes, NInodes, c.imap)

Covers(c, d, R) ==
  /\ R \subseteq c.imap
  /\ \A i \in R, b \in Places : Ptr(d, i, b) # 0 => Ptr(d, i, b) \in c.bmap
Copy(c, d, R) == c \in CopyType /\ Fits(c) /\ Lags(c, d) /\ Covers(c, d, R)

(* From one disk to a later one, what is in a file stays, and the entries  *)
(* of a directory stay where they are.                                     *)
EntriesStay(d, e, i) == \A b \in Places, k \in Slots :
  Taken(d, i, b, k) => /\ Taken(e, i, b, k)
                       /\ EntryAt(e, i, b, k) = EntryAt(d, i, b, k) /\ NameAt(e, i, b, k) = NameAt(d, i, b, k)
Grows(d, e, I) == \A i \in I :
  /\ e.inode[i].type = d.inode[i].type
  /\ d.inode[i].type = "arquivo" => Alike(d, e, i)
  /\ d.inode[i].type = "diretorio" => d.inode[i].size <= e.inode[i].size /\ EntriesStay(d, e, i)

LEMMA FollowsNext ==
  ASSUME NEW S, NEW T, NEW U, Follows(S, T, U), NEW x, x = Min(U \ S)
  PROVE  Follows(T, S \cup {x}, U)
<1>1. S \subseteq T /\ \A y \in T \ S : y = x
  BY DEF Follows
<1>2. CASE T = S
  BY <1>2 DEF Follows
<1>3. CASE T # S
  <2>1. T = S \cup {x}
    BY <1>1, <1>3
  <2> QED
    BY <2>1 DEF Follows
<1> QED
  BY <1>2, <1>3

LEMMA FollowsSelf ==
  ASSUME NEW S, NEW U
  PROVE  Follows(S, S, U)
BY DEF Follows

LEMMA FitsMore ==
  ASSUME NEW n, NEW total \in Nat, NEW S, NEW T, IsFiniteSet(T), S \subseteq T, FitsIn(n, total, S)
  PROVE  FitsIn(n, total, T)
<1>1. IsFiniteSet(S) /\ Cardinality(S) <= Cardinality(T)
  BY FS_Subset
<1>2. Cardinality(S) \in Nat /\ Cardinality(T) \in Nat
  BY <1>1, FS_CardinalityType
<1> QED
  BY <1>1, <1>2 DEF FitsIn

LEMMA FitsTaken ==
  ASSUME NEW n, NEW total \in Nat, NEW S, IsFiniteSet(S), NEW x, x \notin S, FitsIn(n, total, S)
  PROVE  FitsIn(n - 1, total, S \cup {x})
<1>1. Cardinality(S \cup {x}) = Cardinality(S) + 1 /\ Cardinality(S) \in Nat
  BY FS_AddElement, FS_CardinalityType
<1> QED
  BY <1>1 DEF FitsIn

LEMMA AlikeGrows ==
  ASSUME NEW d \in DiskType, NEW e, NEW I, I \subseteq Inodes, \A i \in I : Alike(d, e, i)
  PROVE  Grows(d, e, I)
<1> SUFFICES ASSUME NEW i \in I
             PROVE  /\ e.inode[i] = d.inode[i] /\ Alike(d, e, i) /\ d.inode[i].size <= e.inode[i].size
                    /\ EntriesStay(d, e, i)
  BY DEF Grows
<1>1. Alike(d, e, i) /\ e.inode[i] = d.inode[i]
  BY DEF Alike
<1>2. d.inode[i].size \in Nat
  BY Sizes_Nat DEF DiskType, InodeType
<1>3. EntriesStay(d, e, i)
  BY <1>1, AlikeIs DEF EntriesStay
<1> QED
  BY <1>1, <1>2, <1>3

LEMMA GrowsTwice ==
  ASSUME NEW d \in DiskType, NEW c \in DiskType, NEW e \in DiskType, NEW I, NEW J, I \subseteq J, J \subseteq Inodes,
         Grows(d, c, I), Grows(c, e, J)
  PROVE  Grows(d, e, I)
<1> SUFFICES ASSUME NEW i \in I
             PROVE  /\ e.inode[i].type = d.inode[i].type
                    /\ d.inode[i].type = "arquivo" => Alike(d, e, i)
                    /\ d.inode[i].type = "diretorio" => d.inode[i].size <= e.inode[i].size /\ EntriesStay(d, e, i)
  BY DEF Grows
<1>1. i \in Inodes /\ i \in J
  OBVIOUS
<1>2. d.inode[i].size \in Int /\ c.inode[i].size \in Int /\ e.inode[i].size \in Int
  BY <1>1, Sizes_Nat DEF DiskType, InodeType
<1>3. c.inode[i].type = d.inode[i].type /\ e.inode[i].type = c.inode[i].type
  BY <1>1 DEF Grows
<1>4. ASSUME d.inode[i].type = "arquivo" PROVE Alike(d, e, i)
  <2>1. Alike(d, c, i) /\ Alike(c, e, i)
    BY <1>1, <1>3, <1>4 DEF Grows
  <2> QED
    BY <2>1 DEF Alike, Ptr
<1>5. ASSUME d.inode[i].type = "diretorio" PROVE d.inode[i].size <= e.inode[i].size /\ EntriesStay(d, e, i)
  <2>1. /\ d.inode[i].size <= c.inode[i].size /\ EntriesStay(d, c, i)
        /\ c.inode[i].size <= e.inode[i].size /\ EntriesStay(c, e, i)
    BY <1>1, <1>3, <1>5 DEF Grows
  <2>2. d.inode[i].size <= e.inode[i].size
    BY <1>2, <2>1
  <2>3. EntriesStay(d, e, i)
    BY <2>1 DEF EntriesStay
  <2> QED
    BY <2>2, <2>3
<1> QED
  BY <1>3, <1>4, <1>5

LEMMA GrowsLess ==
  ASSUME NEW d, NEW e, NEW J, NEW I, I \subseteq J, Grows(d, e, J)
  PROVE  Grows(d, e, I)
BY DEF Grows

LEMMA HolelessAlike ==
  ASSUME NEW d, NEW e, NEW i, Alike(d, e, i), Holeless(d, i)
  PROVE  Holeless(e, i)
<1>1. \A b \in Places, k \in Slots : Taken(e, i, b, k) <=> Taken(d, i, b, k)
  BY AlikeIs
<1>2. \A b \in Places : \A c \in 1 .. b - 1 : c \in Places
  BY Sizes_Nat DEF Places
<1>3. \A k \in Slots : \A l \in 1 .. k - 1 : l \in Slots
  BY Sizes_Nat DEF Slots
<1> QED
  BY <1>1, <1>2, <1>3 DEF Holeless

(* A call under way: each disk it has gone through, with the copies that   *)
(* the home sectors hold when the power fails there (sfs_write_sec()).     *)
CutOff(c, d, base, R0) ==
  \E R : R0 \subseteq R /\ Firm(d, R) /\ Copy(c, d, R) /\ Copy(CachedPart(d), d, R) /\ Grows(base, d, R0)
Logged(disks, base, R0) ==
  \A k \in DOMAIN disks : \A j \in {k - 1, k} \ {0} : CutOff(CachedPart(disks[j]), disks[k], base, R0)
Run(st, base, R0, R) ==
  /\ st \in CallType /\ st.disks # <<>> /\ st.disk = st.disks[Len(st.disks)]
  /\ base \in DiskType /\ R0 \subseteq R
  /\ Firm(st.disk, R) /\ Copy(st.ram, st.disk, R) /\ Copy(CachedPart(st.disk), st.disk, R)
  /\ Grows(base, st.disk, R0) /\ Logged(st.disks, base, R0)

LEMMA FirmType ==
  ASSUME NEW d, NEW R, Firm(d, R)
  PROVE  /\ d \in DiskType /\ Sound(d, R) /\ R \subseteq Inodes /\ R \subseteq d.imap /\ 0 \in R
         /\ d.imap \subseteq Inodes /\ d.bmap \subseteq Blocks /\ Dirs(d, R) \subseteq R
BY DEF Firm, Sound, DiskType, Dirs

(* A sector written, with RAM as it is then.                               *)
LEMMA PutShape ==
  ASSUME NEW st \in CallType, NEW r \in CopyType, NEW e \in DiskType
  PROVE  LET s == Put([st EXCEPT !.ram = r], e)
         IN /\ s \in CallType /\ s.disk = e /\ s.ram = r /\ s.disks = Append(st.disks, e)
<1> DEFINE s1 == [st EXCEPT !.ram = r]
           s2 == [s1 EXCEPT !.disk = e]
           q == Append(st.disks, e)
<1>1. st = [disk |-> st.disk, ram |-> st.ram, disks |-> st.disks]
      /\ st.disk \in DiskType /\ st.disks \in Seq(DiskType)
  BY DEF CallType
<1>2. s1 = [disk |-> st.disk, ram |-> r, disks |-> st.disks]
  BY <1>1
<1> HIDE DEF s1
<1>3. s2 = [disk |-> e, ram |-> r, disks |-> st.disks] /\ s2.disks = st.disks
  BY <1>2
<1>4. Put(s1, e) = [s2 EXCEPT !.disks = Append(s2.disks, e)]
  BY DEF Put
<1>5. Append(s2.disks, e) = q
  BY <1>3
<1> HIDE DEF s2, q
<1>6. [s2 EXCEPT !.disks = q] = [disk |-> e, ram |-> r, disks |-> q]
  BY <1>3
<1>7. q \in Seq(DiskType)
  BY <1>1 DEF q
<1> QED
  BY <1>4, <1>5, <1>6, <1>7 DEF CallType, s1, q

LEMMA PutRuns ==
  ASSUME NEW st, NEW base, NEW R0, NEW R, Run(st, base, R0, R), NEW r \in CopyType, NEW e, NEW Q,
         R \subseteq Q, Firm(e, Q), Copy(r, e, Q), Copy(CachedPart(st.disk), e, Q), Copy(CachedPart(e), e, Q),
         Grows(st.disk, e, R0)
  PROVE  LET s == Put([st EXCEPT !.ram = r], e)
         IN Run(s, base, R0, Q) /\ s.disk = e /\ s.ram = r
<1> DEFINE s == Put([st EXCEPT !.ram = r], e)
           d == st.disk
           m == Len(st.disks)
<1>1. e \in DiskType /\ d \in DiskType /\ base \in DiskType /\ R \subseteq Inodes /\ Q \subseteq Inodes
  BY FirmType DEF Run
<1>2. s \in CallType /\ s.disk = e /\ s.ram = r /\ s.disks = Append(st.disks, e)
  BY <1>1, PutShape DEF Run
<1>3. Grows(base, e, R0) /\ R0 \subseteq Q /\ R0 \subseteq R
  BY <1>1, GrowsTwice DEF Run
<1>4. /\ m \in Nat /\ m # 0 /\ Len(s.disks) = m + 1 /\ DOMAIN s.disks = 1 .. m + 1 /\ s.disks[m + 1] = e
      /\ \A k \in 1 .. m : s.disks[k] = st.disks[k]
      /\ st.disks \in Seq(DiskType) /\ DOMAIN st.disks = 1 .. m /\ d = st.disks[m]
  <2>1. st.disks \in Seq(DiskType) /\ st.disks # <<>> /\ d = st.disks[m]
    BY DEF Run, CallType
  <2> DEFINE ds == st.disks
  <2>2. ds \in Seq(DiskType) /\ ds # <<>> /\ s.disks = Append(ds, e)
    BY <1>2, <2>1
  <2> HIDE DEF ds, s
  <2>3. Len(ds) \in Nat /\ Len(ds) # 0 /\ DOMAIN ds = 1 .. Len(ds)
    BY <2>2
  <2>4. /\ Len(s.disks) = Len(ds) + 1 /\ DOMAIN s.disks = 1 .. Len(ds) + 1 /\ s.disks[Len(ds) + 1] = e
        /\ \A k \in 1 .. Len(ds) : s.disks[k] = ds[k]
    BY <1>1, <2>2
  <2> QED
    BY <2>1, <2>3, <2>4 DEF ds
<1> HIDE DEF s, m
<1>5. Logged(s.disks, base, R0)
  <2> SUFFICES ASSUME NEW k \in 1 .. m + 1, NEW j \in {k - 1, k} \ {0}
               PROVE  CutOff(CachedPart(s.disks[j]), s.disks[k], base, R0)
    BY <1>4 DEF Logged
  <2>1. CASE k # m + 1
    <3>1. k \in 1 .. m /\ j \in 1 .. m
      BY <1>4, <2>1
    <3>2. CutOff(CachedPart(st.disks[j]), st.disks[k], base, R0)
      BY <1>4, <3>1 DEF Run, Logged
    <3> QED
      BY <1>4, <3>1, <3>2
  <2>2. CASE k = m + 1 /\ j = m
    <3>1. s.disks[j] = d /\ s.disks[k] = e
      BY <1>4, <2>2
    <3> QED
      BY <1>3, <3>1 DEF CutOff
  <2>3. CASE k = m + 1 /\ j = m + 1
    <3>1. s.disks[j] = e /\ s.disks[k] = e
      BY <1>4, <2>3
    <3> QED
      BY <1>3, <3>1 DEF CutOff
  <2> QED
    BY <1>4, <2>1, <2>2, <2>3
<1>6. s.disks # <<>> /\ s.disk = s.disks[Len(s.disks)]
  <2>1. DOMAIN s.disks # {}
    BY <1>4
  <2> QED
    BY <1>2, <1>4, <2>1
<1> QED
  BY <1>1, <1>2, <1>3, <1>5, <1>6 DEF Run, s

(* A sector that holds no marks: the copies still fit if they have marked  *)
(* what is new.                                                            *)
LEMMA CopyStays ==
  ASSUME NEW c, NEW d, NEW R, Copy(c, d, R), NEW e, e.imap = d.imap, e.bmap = d.bmap, NEW Q, Covers(c, e, Q)
  PROVE  Copy(c, e, Q)
BY DEF Copy, Lags

LEMMA CachedSame ==
  ASSUME NEW d, NEW e, CachedPart(e) = CachedPart(d)
  PROVE  /\ e.imap = d.imap /\ e.bmap = d.bmap
         /\ e.free_blocks = d.free_blocks /\ e.free_inodes = d.free_inodes
BY DEF CachedPart

LEMMA SameRam ==
  ASSUME NEW st \in CallType
  PROVE  [st EXCEPT !.ram = st.ram] = st
BY DEF CallType

LEMMA DataRuns ==
  ASSUME NEW st, NEW base, NEW R0, NEW R, Run(st, base, R0, R), NEW e, CachedPart(e) = CachedPart(st.disk),
         NEW Q, R \subseteq Q, Firm(e, Q), Covers(st.ram, e, Q), Covers(st.disk, e, Q), Grows(st.disk, e, R0)
  PROVE  LET s == Put(st, e)
         IN Run(s, base, R0, Q) /\ s.disk = e /\ s.ram = st.ram
<1> DEFINE d == st.disk
           c == CachedPart(d)
<1>1. /\ st \in CallType /\ st.ram \in CopyType
      /\ Copy(st.ram, d, R) /\ Copy(c, d, R)
  BY DEF Run, CallType
<1>2. e.imap = d.imap /\ e.bmap = d.bmap
  BY CachedSame
<1>3. Covers(c, e, Q)
  BY DEF Covers, CachedPart
<1>4. Copy(st.ram, e, Q) /\ Copy(c, e, Q)
  BY <1>1, <1>2, <1>3, CopyStays
<1> QED
  BY <1>1, <1>4, SameRam, PutRuns

(* The sectors of the bitmaps and of the super block.                      *)
LEMMA MarkRuns ==
  ASSUME NEW st, NEW base, NEW R0, NEW R, Run(st, base, R0, R), NEW r \in CopyType, NEW e \in DiskType,
         e.inode = st.disk.inode, e.blk = st.disk.blk,
         st.disk.imap \subseteq e.imap, st.disk.bmap \subseteq e.bmap,
         st.ram.imap \subseteq r.imap, st.ram.bmap \subseteq r.bmap,
         Lags(r, e), Lags(CachedPart(st.disk), e), Fits(r), Fits(CachedPart(e))
  PROVE  LET s == Put([st EXCEPT !.ram = r], e)
         IN Run(s, base, R0, R) /\ s.disk = e /\ s.ram = r
<1> DEFINE d == st.disk
<1>1. /\ d \in DiskType /\ Firm(d, R) /\ Sound(d, R) /\ R \subseteq Inodes /\ R \subseteq d.imap
      /\ Copy(st.ram, d, R) /\ Copy(CachedPart(d), d, R)
  BY FirmType DEF Run
<1>2. \A i, b : Ptr(e, i, b) = Ptr(d, i, b)
  BY DEF Ptr
<1>3. \A i \in R : Alike(d, e, i)
  BY DEF Alike
<1>4. Sound(e, R)
  BY <1>1, MarksKeep
<1>5. Firm(e, R)
  <2>1. Dirs(e, R) = Dirs(d, R) /\ Dirs(d, R) \subseteq R
    BY DEF Dirs
  <2> QED
    BY <1>1, <1>3, <1>4, <2>1, HolelessAlike DEF Firm
<1>6. Grows(d, e, R0)
  BY <1>1, <1>3, AlikeGrows, GrowsLess DEF Run
<1>7. CachedPart(d) \in CopyType /\ CachedPart(e) \in CopyType /\ Lags(CachedPart(e), e)
  <2>1. Lags(CachedPart(e), e)
    BY FollowsSelf DEF Lags, CachedPart
  <2> QED
    BY <1>1, <2>1 DEF DiskType, CopyType, CachedPart
<1>8. Covers(r, e, R) /\ Covers(CachedPart(d), e, R) /\ Covers(CachedPart(e), e, R)
  BY <1>1, <1>2 DEF Copy, Covers, CachedPart
<1>9. Copy(r, e, R) /\ Copy(CachedPart(d), e, R) /\ Copy(CachedPart(e), e, R)
  BY <1>1, <1>7, <1>8 DEF Copy
<1> QED
  BY <1>5, <1>6, <1>9, PutRuns

LEMMA SuperRuns ==
  ASSUME NEW st, NEW base, NEW R0, NEW R, Run(st, base, R0, R), NEW r \in CopyType,
         r.imap = st.ram.imap, r.bmap = st.ram.bmap, Fits(r)
  PROVE  LET s == PutSuper([st EXCEPT !.ram = r])
         IN /\ Run(s, base, R0, R) /\ s.ram = r
            /\ s.disk = [st.disk EXCEPT !.free_blocks = r.free_blocks, !.free_inodes = r.free_inodes]
<1> DEFINE d == st.disk
           e == [d EXCEPT !.free_blocks = r.free_blocks, !.free_inodes = r.free_inodes]
           s1 == [st EXCEPT !.ram = r]
<1>1. /\ st \in CallType /\ d \in DiskType /\ d.imap \subseteq Inodes /\ d.bmap \subseteq Blocks
      /\ Copy(st.ram, d, R) /\ Copy(CachedPart(d), d, R)
  BY FirmType DEF Run
<1>2. s1.disk = d /\ s1.ram = r
  BY <1>1 DEF CallType
<1>3. PutSuper(s1) = Put(s1, e)
  BY <1>2 DEF PutSuper
<1>4. r.free_blocks \in Int /\ r.free_inodes \in Int
  BY DEF CopyType
<1> HIDE DEF d, s1
<1>5. /\ e \in DiskType /\ e.inode = d.inode /\ e.blk = d.blk /\ e.imap = d.imap /\ e.bmap = d.bmap
      /\ e.free_blocks = r.free_blocks /\ e.free_inodes = r.free_inodes
  BY <1>1, <1>4 DEF DiskType
<1> HIDE DEF e
<1>6. Lags(r, e) /\ Lags(CachedPart(d), e)
  BY <1>1, <1>5 DEF Copy, Lags, CachedPart
<1>7. Fits(CachedPart(e))
  <2>1. FitsIn(r.free_blocks, TotalBlocks, r.bmap) /\ FitsIn(r.free_inodes, NInodes, r.imap)
    BY DEF Fits
  <2>2. r.bmap \subseteq d.bmap /\ r.imap \subseteq d.imap
    BY <1>1 DEF Copy, Lags, Follows
  <2>3. IsFiniteSet(d.bmap) /\ IsFiniteSet(d.imap) /\ TotalBlocks \in Nat /\ NInodes \in Nat
    BY <1>1, BlocksFinite, InodesFinite, SpaceFSAssumption
  <2>4. FitsIn(r.free_blocks, TotalBlocks, d.bmap) /\ FitsIn(r.free_inodes, NInodes, d.imap)
    BY <2>1, <2>2, <2>3, FitsMore
  <2> QED
    BY <1>5, <2>4 DEF Fits, CachedPart
<1>8. Run(Put(s1, e), base, R0, R) /\ Put(s1, e).disk = e /\ Put(s1, e).ram = r
  BY <1>1, <1>5, <1>6, <1>7, MarkRuns DEF d, s1
<1> QED
  BY <1>3, <1>8 DEF s1, d, e

LEMMA RamPart ==
  ASSUME NEW st \in CallType
  PROVE  /\ \A S : [st EXCEPT !.ram.imap = S] = [st EXCEPT !.ram = [st.ram EXCEPT !.imap = S]]
         /\ \A S : [st EXCEPT !.ram.bmap = S] = [st EXCEPT !.ram = [st.ram EXCEPT !.bmap = S]]
         /\ \A n : [st EXCEPT !.ram.free_inodes = n] = [st EXCEPT !.ram = [st.ram EXCEPT !.free_inodes = n]]
         /\ \A n : [st EXCEPT !.ram.free_blocks = n] = [st EXCEPT !.ram = [st.ram EXCEPT !.free_blocks = n]]
OBVIOUS

(* alloc_inode().                                                          *)
LEMMA TakeInodeRuns ==
  ASSUME NEW st, NEW base, NEW R0, NEW R, Run(st, base, R0, R), FreeInodes(st) # {}
  PROVE  LET i == Min(FreeInodes(st))
             s == TakeInode(st)
         IN /\ i \in Inodes \ {0} /\ i \notin R
            /\ Run(s, base, R0, R) /\ i \in s.ram.imap /\ i \in s.disk.imap
            /\ s.disk.inode = st.disk.inode /\ s.disk.blk = st.disk.blk
<1> DEFINE i == Min(FreeInodes(st))
           d == st.disk
           c == st.ram
           S == c.imap \cup {i}
           r1 == [c EXCEPT !.imap = S]
           e1 == [d EXCEPT !.imap = S]
           first == PutImap([st EXCEPT !.ram.imap = S])
           r2 == [r1 EXCEPT !.free_inodes = c.free_inodes - 1]
           s == TakeInode(st)
<1>1. /\ st \in CallType /\ d \in DiskType /\ c \in CopyType /\ d.imap \subseteq Inodes /\ d.bmap \subseteq Blocks
      /\ Copy(c, d, R) /\ Copy(CachedPart(d), d, R) /\ Fits(c) /\ Lags(c, d) /\ R \subseteq c.imap /\ 0 \in R
      /\ c.imap \subseteq Inodes /\ c.bmap \subseteq Blocks /\ c.free_inodes \in Int
  <2>1. st \in CallType /\ Firm(d, R) /\ Copy(c, d, R) /\ Copy(CachedPart(d), d, R)
    BY DEF Run
  <2>2. Fits(c) /\ Lags(c, d) /\ R \subseteq c.imap /\ c \in CopyType
    BY <2>1 DEF Copy, Covers
  <2> QED
    BY <2>1, <2>2, FirmType DEF CopyType
<1>2. i \in Inodes \ {0} /\ i \notin c.imap
  <2>1. FreeInodes(st) \subseteq Nat
    BY Sizes_Nat DEF FreeInodes
  <2>2. i \in FreeInodes(st)
    BY <2>1, MinIs
  <2> QED
    BY <2>2 DEF FreeInodes
<1>3. i = Min((Inodes \ {0}) \ c.imap)
  <2>1. FreeInodes(st) = (Inodes \ {0}) \ c.imap
    BY DEF FreeInodes
  <2> QED
    BY <2>1
<1>4. s = PutSuper([first EXCEPT !.ram.free_inodes = first.ram.free_inodes - 1])
  BY DEF TakeInode
<1> HIDE DEF i, s
<1>5. IsFiniteSet(c.imap) /\ IsFiniteSet(S) /\ IsFiniteSet(d.bmap) /\ TotalBlocks \in Nat /\ NInodes \in Nat
      /\ S \subseteq Inodes
  BY <1>1, <1>2, BlocksFinite, InodesFinite, SpaceFSAssumption
<1>6. Follows(d.imap, S, Inodes \ {0}) /\ Follows(S, S, Inodes \ {0}) /\ Follows(c.bmap, d.bmap, Blocks)
      /\ d.imap \subseteq S
  <2>1. Follows(c.imap, d.imap, Inodes \ {0}) /\ Follows(c.bmap, d.bmap, Blocks)
    BY <1>1 DEF Lags
  <2>2. Follows(d.imap, S, Inodes \ {0})
    BY <1>3, <2>1, FollowsNext
  <2> QED
    BY <2>1, <2>2, FollowsSelf DEF Follows
<1> HIDE DEF S
<1>7. /\ r1 \in CopyType /\ r1.imap = S /\ r1.bmap = c.bmap
      /\ r1.free_blocks = c.free_blocks /\ r1.free_inodes = c.free_inodes
  BY <1>1, <1>5 DEF CopyType
<1>8. /\ r2 \in CopyType /\ r2.imap = S /\ r2.bmap = c.bmap
      /\ r2.free_blocks = c.free_blocks /\ r2.free_inodes = c.free_inodes - 1
  <2> DEFINE v == c.free_inodes - 1
  <2>1. v \in Int /\ r2 = [r1 EXCEPT !.free_inodes = v]
    BY <1>1
  <2> HIDE DEF v, r1, r2
  <2>2. /\ r2 \in CopyType /\ r2.imap = r1.imap /\ r2.bmap = r1.bmap
        /\ r2.free_blocks = r1.free_blocks /\ r2.free_inodes = v
    BY <1>7, <2>1 DEF CopyType
  <2> QED
    BY <1>7, <2>2 DEF v
<1>9. /\ e1 \in DiskType /\ e1.imap = S /\ e1.bmap = d.bmap /\ e1.inode = d.inode /\ e1.blk = d.blk
      /\ e1.free_blocks = d.free_blocks /\ e1.free_inodes = d.free_inodes
  BY <1>1, <1>5 DEF DiskType
<1>10. Fits(r1) /\ Fits(CachedPart(e1)) /\ Fits(r2)
  <2>1. FitsIn(c.free_blocks, TotalBlocks, c.bmap) /\ FitsIn(c.free_inodes, NInodes, c.imap)
    BY <1>1 DEF Fits
  <2>2. FitsIn(d.free_blocks, TotalBlocks, d.bmap) /\ FitsIn(d.free_inodes, NInodes, d.imap)
    BY <1>1 DEF Copy, Fits, CachedPart
  <2>3. c.imap \subseteq S
    BY DEF S
  <2>4. FitsIn(c.free_inodes, NInodes, S) /\ FitsIn(d.free_inodes, NInodes, S)
    BY <1>5, <1>6, <2>1, <2>2, <2>3, FitsMore
  <2>5. FitsIn(c.free_inodes - 1, NInodes, S)
    BY <1>2, <1>5, <2>1, FitsTaken DEF S
  <2> QED
    BY <1>7, <1>8, <1>9, <2>1, <2>2, <2>4, <2>5 DEF Fits, CachedPart
<1>11. Lags(r1, e1) /\ Lags(CachedPart(d), e1)
  BY <1>6, <1>7, <1>9, FollowsSelf DEF Lags, CachedPart
<1>12. first = Put([st EXCEPT !.ram = r1], e1)
  <2> DEFINE s1 == [st EXCEPT !.ram = r1]
  <2>1. s1.disk = d /\ s1.ram = r1
    BY <1>1 DEF CallType
  <2>2. [st EXCEPT !.ram.imap = S] = s1
    BY <1>1, RamPart
  <2> HIDE DEF s1, r1
  <2>3. PutImap(s1) = Put(s1, e1)
    BY <1>7, <2>1 DEF PutImap
  <2> QED
    BY <2>2, <2>3 DEF s1
<1> HIDE DEF r1, e1, first
<1>13. Run(first, base, R0, R) /\ first.disk = e1 /\ first.ram = r1
  <2>1. c.imap \subseteq S
    BY DEF S
  <2> QED
    BY <1>6, <1>7, <1>9, <1>10, <1>11, <1>12, <2>1, MarkRuns
<1>14. s = PutSuper([first EXCEPT !.ram = r2])
  <2>1. first \in CallType
    BY <1>13 DEF Run
  <2>2. [first EXCEPT !.ram.free_inodes = c.free_inodes - 1] = [first EXCEPT !.ram = r2]
    BY <1>13, <2>1, RamPart
  <2> QED
    BY <1>4, <1>7, <1>13, <2>2
<1> HIDE DEF r2
<1>15. /\ Run(s, base, R0, R) /\ s.ram = r2
       /\ s.disk = [e1 EXCEPT !.free_blocks = r2.free_blocks, !.free_inodes = r2.free_inodes]
  <2>1. r2 \in CopyType /\ r2.imap = first.ram.imap /\ r2.bmap = first.ram.bmap /\ Fits(r2)
    BY <1>7, <1>8, <1>10, <1>13
  <2>2. Run(first, base, R0, R) /\ first.disk = e1
    BY <1>13
  <2>3. LET w == PutSuper([first EXCEPT !.ram = r2])
        IN /\ Run(w, base, R0, R) /\ w.ram = r2
           /\ w.disk = [first.disk EXCEPT !.free_blocks = r2.free_blocks, !.free_inodes = r2.free_inodes]
    BY <2>1, <2>2, SuperRuns, Zenon
  <2> QED
    BY <1>14, <2>2, <2>3
<1>16. s.disk.imap = S /\ s.disk.inode = d.inode /\ s.disk.blk = d.blk /\ s.ram.imap = S
  BY <1>8, <1>9, <1>15 DEF DiskType
<1> QED
  BY <1>1, <1>2, <1>15, <1>16 DEF i, s, S

(* alloc_block().                                                          *)
LEMMA TakeBlockRuns ==
  ASSUME NEW st, NEW base, NEW R0, NEW R, Run(st, base, R0, R), FreeBlocks(st) # {}
  PROVE  LET x == Min(FreeBlocks(st))
             s == TakeBlock(st)
         IN /\ x \in Blocks /\ x \notin st.ram.bmap
            /\ Run(s, base, R0, R) /\ x \in s.ram.bmap /\ x \in s.disk.bmap /\ st.ram.bmap \subseteq s.ram.bmap
            /\ s.ram.imap = st.ram.imap /\ s.disk.imap = st.disk.imap
            /\ s.disk.inode = st.disk.inode /\ s.disk.blk = st.disk.blk
<1> DEFINE x == Min(FreeBlocks(st))
           d == st.disk
           c == st.ram
           S == c.bmap \cup {x}
           r1 == [c EXCEPT !.bmap = S]
           e1 == [d EXCEPT !.bmap = S]
           first == PutBmap([st EXCEPT !.ram.bmap = S])
           r2 == [r1 EXCEPT !.free_blocks = c.free_blocks - 1]
           s == TakeBlock(st)
<1>1. /\ st \in CallType /\ d \in DiskType /\ c \in CopyType /\ d.imap \subseteq Inodes /\ d.bmap \subseteq Blocks
      /\ Copy(c, d, R) /\ Copy(CachedPart(d), d, R) /\ Fits(c) /\ Lags(c, d)
      /\ c.imap \subseteq Inodes /\ c.bmap \subseteq Blocks /\ c.free_blocks \in Int
  <2>1. st \in CallType /\ Firm(d, R) /\ Copy(c, d, R) /\ Copy(CachedPart(d), d, R)
    BY DEF Run
  <2>2. Fits(c) /\ Lags(c, d) /\ c \in CopyType
    BY <2>1 DEF Copy
  <2> QED
    BY <2>1, <2>2, FirmType DEF CopyType
<1>2. x \in Blocks /\ x \notin c.bmap /\ x = Min(Blocks \ c.bmap)
  <2>1. FreeBlocks(st) \subseteq Nat
    BY Sizes_Nat DEF FreeBlocks
  <2>2. x \in FreeBlocks(st)
    BY <2>1, MinIs
  <2> QED
    BY <2>2 DEF FreeBlocks
<1>3. s = PutSuper([first EXCEPT !.ram.free_blocks = first.ram.free_blocks - 1])
  BY DEF TakeBlock
<1> HIDE DEF x, s
<1>4. IsFiniteSet(c.bmap) /\ IsFiniteSet(S) /\ IsFiniteSet(d.imap) /\ TotalBlocks \in Nat /\ NInodes \in Nat
      /\ S \subseteq Blocks
  BY <1>1, <1>2, BlocksFinite, InodesFinite, SpaceFSAssumption
<1>5. Follows(d.bmap, S, Blocks) /\ Follows(S, S, Blocks) /\ Follows(c.imap, d.imap, Inodes \ {0})
      /\ d.bmap \subseteq S
  <2>1. Follows(c.imap, d.imap, Inodes \ {0}) /\ Follows(c.bmap, d.bmap, Blocks)
    BY <1>1 DEF Lags
  <2>2. Follows(d.bmap, S, Blocks)
    BY <1>2, <2>1, FollowsNext
  <2> QED
    BY <2>1, <2>2, FollowsSelf DEF Follows
<1> HIDE DEF S
<1>6. /\ r1 \in CopyType /\ r1.bmap = S /\ r1.imap = c.imap
      /\ r1.free_blocks = c.free_blocks /\ r1.free_inodes = c.free_inodes
  BY <1>1, <1>4 DEF CopyType
<1>7. /\ r2 \in CopyType /\ r2.bmap = S /\ r2.imap = c.imap
      /\ r2.free_inodes = c.free_inodes /\ r2.free_blocks = c.free_blocks - 1
  <2> DEFINE v == c.free_blocks - 1
  <2>1. v \in Int /\ r2 = [r1 EXCEPT !.free_blocks = v]
    BY <1>1
  <2> HIDE DEF v, r1, r2
  <2>2. /\ r2 \in CopyType /\ r2.bmap = r1.bmap /\ r2.imap = r1.imap
        /\ r2.free_inodes = r1.free_inodes /\ r2.free_blocks = v
    BY <1>6, <2>1 DEF CopyType
  <2> QED
    BY <1>6, <2>2 DEF v
<1>8. /\ e1 \in DiskType /\ e1.bmap = S /\ e1.imap = d.imap /\ e1.inode = d.inode /\ e1.blk = d.blk
      /\ e1.free_blocks = d.free_blocks /\ e1.free_inodes = d.free_inodes
  BY <1>1, <1>4 DEF DiskType
<1>9. Fits(r1) /\ Fits(CachedPart(e1)) /\ Fits(r2)
  <2>1. FitsIn(c.free_blocks, TotalBlocks, c.bmap) /\ FitsIn(c.free_inodes, NInodes, c.imap)
    BY <1>1 DEF Fits
  <2>2. FitsIn(d.free_blocks, TotalBlocks, d.bmap) /\ FitsIn(d.free_inodes, NInodes, d.imap)
    BY <1>1 DEF Copy, Fits, CachedPart
  <2>3. c.bmap \subseteq S
    BY DEF S
  <2>4. FitsIn(c.free_blocks, TotalBlocks, S) /\ FitsIn(d.free_blocks, TotalBlocks, S)
    BY <1>4, <1>5, <2>1, <2>2, <2>3, FitsMore
  <2>5. FitsIn(c.free_blocks - 1, TotalBlocks, S)
    BY <1>2, <1>4, <2>1, FitsTaken DEF S
  <2> QED
    BY <1>6, <1>7, <1>8, <2>1, <2>2, <2>4, <2>5 DEF Fits, CachedPart
<1>10. Lags(r1, e1) /\ Lags(CachedPart(d), e1)
  BY <1>5, <1>6, <1>8, FollowsSelf DEF Lags, CachedPart
<1>11. first = Put([st EXCEPT !.ram = r1], e1)
  <2> DEFINE s1 == [st EXCEPT !.ram = r1]
  <2>1. s1.disk = d /\ s1.ram = r1
    BY <1>1 DEF CallType
  <2>2. [st EXCEPT !.ram.bmap = S] = s1
    BY <1>1, RamPart
  <2> HIDE DEF s1, r1
  <2>3. PutBmap(s1) = Put(s1, e1)
    BY <1>6, <2>1 DEF PutBmap
  <2> QED
    BY <2>2, <2>3 DEF s1
<1> HIDE DEF r1, e1, first
<1>12. Run(first, base, R0, R) /\ first.disk = e1 /\ first.ram = r1
  <2>1. c.bmap \subseteq S
    BY DEF S
  <2> QED
    BY <1>5, <1>6, <1>8, <1>9, <1>10, <1>11, <2>1, MarkRuns
<1>13. s = PutSuper([first EXCEPT !.ram = r2])
  <2>1. first \in CallType
    BY <1>12 DEF Run
  <2>2. [first EXCEPT !.ram.free_blocks = c.free_blocks - 1] = [first EXCEPT !.ram = r2]
    BY <1>12, <2>1, RamPart
  <2> QED
    BY <1>3, <1>6, <1>12, <2>2
<1> HIDE DEF r2
<1>14. /\ Run(s, base, R0, R) /\ s.ram = r2
       /\ s.disk = [e1 EXCEPT !.free_blocks = r2.free_blocks, !.free_inodes = r2.free_inodes]
  <2>1. r2 \in CopyType /\ r2.imap = first.ram.imap /\ r2.bmap = first.ram.bmap /\ Fits(r2)
    BY <1>6, <1>7, <1>9, <1>12
  <2>2. Run(first, base, R0, R) /\ first.disk = e1
    BY <1>12
  <2>3. LET w == PutSuper([first EXCEPT !.ram = r2])
        IN /\ Run(w, base, R0, R) /\ w.ram = r2
           /\ w.disk = [first.disk EXCEPT !.free_blocks = r2.free_blocks, !.free_inodes = r2.free_inodes]
    BY <2>1, <2>2, SuperRuns, Zenon
  <2> QED
    BY <1>13, <2>2, <2>3
<1>15. s.disk.bmap = S /\ s.disk.imap = d.imap /\ s.disk.inode = d.inode /\ s.disk.blk = d.blk
       /\ s.ram.bmap = S /\ s.ram.imap = c.imap
  BY <1>7, <1>8, <1>14 DEF DiskType
<1> QED
  BY <1>2, <1>14, <1>15 DEF x, s, S

(* dir_add_entry(): an entry in the first place that is free.              *)
InFirstPlace(d, p, g, l, old) ==
  /\ \A b \in 1 .. g - 1, k \in Slots : Taken(d, p, b, k)
  /\ old[l].inode = 0 /\ \A k \in 1 .. l - 1 : old[k].inode # 0

LEMMA EntryGrows ==
  ASSUME NEW d, NEW e, NEW R, Firm(d, R), NEW p \in Dirs(d, R), NEW ch, NEW g, NEW l, NEW x, NEW name, NEW old, NEW n,
         EntryMade(d, e, R, p, ch, g, l, x, name, old, n), InFirstPlace(d, p, g, l, old),
         d.inode[p].size <= n.size
  PROVE  Firm(e, R) /\ Grows(d, e, R)
<1>1. /\ d \in DiskType /\ e \in DiskType /\ Sound(d, R) /\ R \subseteq Inodes
      /\ g \in Places /\ l \in Slots /\ x \in Blocks /\ ch \in R \ {0, p} /\ p \in Inodes /\ p \in R
      /\ e.inode = [d.inode EXCEPT ![p] = n] /\ n.type = d.inode[p].type
      /\ n.blocks = [d.inode[p].blocks EXCEPT ![g] = x]
      /\ e.blk = [d.blk EXCEPT ![x] = [old EXCEPT ![l] = [inode |-> ch, name |-> name]]]
      /\ old \in [1 .. PerBlk -> Slot] /\ d.inode[p].type = "diretorio"
  BY FirmType DEF EntryMade, Dirs
<1>2. Sound(e, R)
  BY EntryKeeps
<1>3. e.inode[p] = n /\ \A i \in Inodes \ {p} : e.inode[i] = d.inode[i]
  BY <1>1 DEF DiskType
<1>4. Dirs(e, R) = Dirs(d, R) /\ Dirs(d, R) \subseteq R
  BY <1>1, <1>3 DEF Dirs
<1>5. e.blk[x] = [old EXCEPT ![l] = [inode |-> ch, name |-> name]] /\ \A y \in Blocks \ {x} : e.blk[y] = d.blk[y]
  BY <1>1 DEF DiskType
<1>6. (Ptr(d, p, g) = x /\ old = d.blk[x]) \/ (Ptr(d, p, g) = 0 /\ x \notin d.bmap /\ old = EmptyBlock)
  BY DEF EntryMade
<1>7. \A i \in R, b \in Places : Ptr(d, i, b) = x => i = p /\ b = g
  <2>1. x # 0
    BY <1>1, Sizes_Nat
  <2> QED
    BY <1>1, <1>6, <2>1 DEF Sound, Owned
<1>8. \A i \in R, b \in Places : Ptr(d, i, b) \in {0} \cup Blocks
  BY <1>1, PtrIs
<1>9. ASSUME NEW i \in R \ {p} PROVE Alike(d, e, i)
  BY <1>1, <1>3, <1>5, <1>7, <1>8 DEF Alike
<1>10. \A b \in Places : Ptr(e, p, b) = IF b = g THEN x ELSE Ptr(d, p, b)
  <2>1. d.inode[p].blocks \in [1 .. NDirect -> {0} \cup Blocks]
    BY <1>1 DEF DiskType, InodeType
  <2> QED
    BY <1>1, <1>3, <2>1 DEF Ptr, Places
<1>11. \A b \in Places \ {g} : Ptr(d, p, b) # 0 => e.blk[Ptr(d, p, b)] = d.blk[Ptr(d, p, b)]
  BY <1>1, <1>5, <1>7, <1>8
<1>12. Taken(e, p, g, l) /\ ~ Taken(d, p, g, l)
  <2>1. e.blk[x][l] = [inode |-> ch, name |-> name]
    BY <1>1, <1>5 DEF Slots
  <2>2. x # 0 /\ ch # 0
    BY <1>1, Sizes_Nat
  <2>3. ~ Taken(d, p, g, l)
    BY <1>6 DEF Taken, EntryAt, InFirstPlace
  <2> QED
    BY <1>1, <1>10, <2>1, <2>2, <2>3 DEF EntryAt, Taken
<1>13. ASSUME NEW b \in Places, NEW k \in Slots, ~ (b = g /\ k = l)
       PROVE  /\ Taken(e, p, b, k) <=> Taken(d, p, b, k)
              /\ Taken(d, p, b, k) => EntryAt(e, p, b, k) = EntryAt(d, p, b, k)
                                      /\ NameAt(e, p, b, k) = NameAt(d, p, b, k)
  <2>1. CASE b # g
    BY <1>10, <1>11, <2>1 DEF Taken, EntryAt, NameAt
  <2>2. CASE b = g
    <3>1. e.blk[x][k] = old[k] /\ Ptr(e, p, b) = x /\ x # 0
      BY <1>1, <1>5, <1>10, <1>13, <2>2, Sizes_Nat DEF Slots
    <3>2. CASE Ptr(d, p, g) = x /\ old = d.blk[x]
      BY <2>2, <3>1, <3>2 DEF Taken, EntryAt, NameAt
    <3>3. CASE Ptr(d, p, g) = 0 /\ old = EmptyBlock
      <4>1. old[k].inode = 0
        BY <3>3 DEF EmptyBlock, FreeSlot, Slots
      <4> QED
        BY <2>2, <3>1, <3>3, <4>1 DEF Taken, EntryAt
    <3> QED
      BY <1>6, <3>2, <3>3
  <2> QED
    BY <2>1, <2>2
<1>14. EntriesStay(d, e, p)
  BY <1>12, <1>13 DEF EntriesStay
<1>15. Holeless(e, p)
  <2>1. Holeless(d, p)
    BY DEF Firm
  <2>2. /\ \A b \in Places : \A c \in 1 .. b - 1 : c \in Places
        /\ \A k \in Slots : \A m \in 1 .. k - 1 : m \in Slots
    BY Sizes_Nat DEF Places, Slots
  <2> SUFFICES ASSUME NEW b \in Places, NEW k \in Slots, Taken(e, p, b, k)
               PROVE  /\ \A c \in 1 .. b - 1, m \in Slots : Taken(d, p, c, m)
                      /\ \A m \in 1 .. k - 1 : Taken(e, p, b, m)
    BY <1>14, <2>2 DEF Holeless, EntriesStay
  <2>3. CASE b = g /\ k = l
    <3>1. ASSUME NEW m \in 1 .. l - 1 PROVE Taken(e, p, g, m)
      <4>1. m \in Slots /\ m # l
        BY <1>1, <2>2, Sizes_Nat DEF Slots
      <4>2. e.blk[x][m] = old[m] /\ Ptr(e, p, g) = x /\ x # 0
        BY <1>1, <1>5, <1>10, <4>1, Sizes_Nat DEF Slots
      <4> QED
        BY <4>2 DEF InFirstPlace, Taken, EntryAt
    <3> QED
      BY <2>3, <3>1 DEF InFirstPlace
  <2>4. CASE ~ (b = g /\ k = l)
    <3>1. Taken(d, p, b, k)
      BY <1>13, <2>4
    <3> QED
      BY <1>14, <2>1, <2>2, <3>1 DEF Holeless, EntriesStay
  <2> QED
    BY <2>3, <2>4
<1>16. Firm(e, R)
  <2>1. ASSUME NEW i \in Dirs(e, R) PROVE Holeless(e, i)
    <3>1. i \in R /\ Holeless(d, i)
      BY <1>4 DEF Firm
    <3> QED
      BY <1>9, <1>15, <3>1, HolelessAlike
  <2> QED
    BY <1>2, <2>1 DEF Firm
<1>17. Grows(d, e, R)
  <2>1. Grows(d, e, R \ {p})
    BY <1>1, <1>9, AlikeGrows
  <2> QED
    BY <1>1, <1>3, <1>14, <2>1 DEF Grows
<1> QED
  BY <1>16, <1>17

(* The size of a directory is no part of what it holds.                    *)
LEMMA SizeGrows ==
  ASSUME NEW d, NEW R, Firm(d, R), NEW p \in Dirs(d, R), NEW n \in InodeType,
         n.type = d.inode[p].type, n.blocks = d.inode[p].blocks, d.inode[p].size <= n.size,
         NEW e \in DiskType, e.inode = [d.inode EXCEPT ![p] = n], e.blk = d.blk, e.imap = d.imap, e.bmap = d.bmap
  PROVE  Firm(e, R) /\ Grows(d, e, R)
<1>1. /\ d \in DiskType /\ Sound(d, R) /\ R \subseteq Inodes /\ p \in R /\ p \in Inodes
      /\ d.inode[p].type = "diretorio"
  BY FirmType DEF Dirs
<1>2. e.inode[p] = n /\ \A i \in Inodes \ {p} : e.inode[i] = d.inode[i]
  BY <1>1 DEF DiskType
<1>3. /\ \A i \in R, b \in Places : Ptr(e, i, b) = Ptr(d, i, b)
      /\ \A i \in R : e.inode[i].type = d.inode[i].type
  BY <1>1, <1>2 DEF Ptr
<1>4. /\ Dirs(e, R) = Dirs(d, R) /\ Dirs(d, R) \subseteq R
      /\ \A i \in R, b \in Places, k \in Slots :
           /\ EntryAt(e, i, b, k) = EntryAt(d, i, b, k) /\ NameAt(e, i, b, k) = NameAt(d, i, b, k)
           /\ IsEntry(e, i, b, k) <=> IsEntry(d, i, b, k)
           /\ Taken(e, i, b, k) <=> Taken(d, i, b, k)
  BY <1>3 DEF Dirs, EntryAt, NameAt, IsEntry, Taken
<1>5. Owned(e, R) /\ Texted(e)
  BY <1>1, <1>3 DEF Sound, Owned, Texted
<1>6. Linked(e, R)
  BY <1>1, <1>3, <1>4 DEF Sound, Linked
<1>7. Sound(e, R)
  BY <1>1, <1>3, <1>5, <1>6 DEF Sound
<1>8. ASSUME NEW i \in Dirs(e, R) PROVE Holeless(e, i)
  <2>1. i \in R /\ Holeless(d, i)
    BY <1>4 DEF Firm
  <2>2. /\ \A b \in Places : \A c \in 1 .. b - 1 : c \in Places
        /\ \A k \in Slots : \A m \in 1 .. k - 1 : m \in Slots
    BY Sizes_Nat DEF Places, Slots
  <2> QED
    BY <1>4, <2>1, <2>2 DEF Holeless
<1>9. EntriesStay(d, e, p)
  BY <1>1, <1>4 DEF EntriesStay
<1>10. Grows(d, e, R)
  <2>1. \A i \in R \ {p} : Alike(d, e, i)
    BY <1>1, <1>2 DEF Alike
  <2>2. Grows(d, e, R \ {p})
    BY <1>1, <2>1, AlikeGrows
  <2> QED
    BY <1>1, <1>2, <1>9, <2>2 DEF Grows
<1> QED
  BY <1>7, <1>8, <1>10 DEF Firm

(* A block that none of them holds: written, or its mark taken away.       *)
LEMMA OtherBlock ==
  ASSUME NEW d, NEW R, Firm(d, R), NEW x \in Blocks,
         \A i \in R, b \in Places : Ptr(d, i, b) # x,
         NEW c \in [1 .. PerBlk -> Slot], \A k \in Slots : c[k].inode = TextInode => c[k].name \in Texts,
         NEW e \in DiskType,
         e.inode = d.inode, e.blk = [d.blk EXCEPT ![x] = c], e.imap = d.imap, e.bmap = d.bmap
  PROVE  Firm(e, R) /\ Grows(d, e, R) /\ \A i \in R : Alike(d, e, i)
<1>1. d \in DiskType /\ Sound(d, R) /\ R \subseteq Inodes /\ R \subseteq d.imap
  BY FirmType
<1>2. Sound(e, R)
  BY <1>1, BlockElsewhere
<1>3. \A y \in Blocks \ {x} : e.blk[y] = d.blk[y]
  BY <1>1 DEF DiskType
<1>4. \A i \in R : Alike(d, e, i)
  <2>1. \A i \in R, b \in Places : Ptr(d, i, b) # 0 => Ptr(d, i, b) \in Blocks \ {x}
    BY <1>1, PtrIs
  <2> QED
    BY <1>3, <2>1 DEF Alike
<1>5. Dirs(e, R) = Dirs(d, R) /\ Dirs(d, R) \subseteq R
  BY DEF Dirs
<1>6. Firm(e, R)
  BY <1>2, <1>4, <1>5, HolelessAlike DEF Firm
<1> QED
  BY <1>1, <1>4, <1>6, AlikeGrows

LEMMA UnmarkFirm ==
  ASSUME NEW d, NEW R, Firm(d, R), NEW x, \A i \in R, b \in Places : Ptr(d, i, b) # x,
         NEW e \in DiskType, e.inode = d.inode, e.blk = d.blk, e.imap = d.imap, e.bmap = d.bmap \ {x}
  PROVE  Firm(e, R) /\ \A i \in R : Alike(d, e, i)
<1>1. d \in DiskType /\ Sound(d, R) /\ R \subseteq Inodes /\ R \subseteq d.imap
  BY FirmType
<1>2. \A i, b : Ptr(e, i, b) = Ptr(d, i, b)
  BY DEF Ptr
<1>3. \A i, b, k : EntryAt(e, i, b, k) = EntryAt(d, i, b, k) /\ (IsEntry(e, i, b, k) <=> IsEntry(d, i, b, k))
  BY <1>2 DEF EntryAt, IsEntry
<1>4. Dirs(e, R) = Dirs(d, R) /\ Dirs(d, R) \subseteq R
  BY DEF Dirs
<1>5. Owned(e, R) /\ Texted(e)
  BY <1>1, <1>2 DEF Sound, Owned, Texted
<1>6. Linked(e, R)
  BY <1>1, <1>2, <1>3, <1>4 DEF Sound, Linked
<1>7. Sound(e, R)
  BY <1>1, <1>5, <1>6 DEF Sound
<1>8. \A i \in R : Alike(d, e, i)
  BY DEF Alike
<1> QED
  BY <1>4, <1>7, <1>8, HolelessAlike DEF Firm

LEMMA NewEntry ==
  ASSUME NEW ch \in Inodes, NEW name \in Names \cup {NoName}, NEW old \in [1 .. PerBlk -> Slot], NEW l
  PROVE  [old EXCEPT ![l] = [inode |-> ch, name |-> name]] \in [1 .. PerBlk -> Slot]
<1>1. [inode |-> ch, name |-> name] \in Slot
  BY Sizes_Nat DEF Slot
<1> QED
  BY <1>1

(* One sector of the disk, not of the marks.                               *)
LEMMA SectorIs ==
  ASSUME NEW d \in DiskType, NEW e,
         \/ \E x \in Blocks, c \in [1 .. PerBlk -> Slot] : e = [d EXCEPT !.blk[x] = c]
         \/ \E i \in Inodes, n \in InodeType : e = [d EXCEPT !.inode[i] = n]
  PROVE  e \in DiskType /\ e.imap = d.imap /\ e.bmap = d.bmap /\ CachedPart(e) = CachedPart(d)
<1>1. /\ e \in DiskType /\ e.imap = d.imap /\ e.bmap = d.bmap
      /\ e.free_blocks = d.free_blocks /\ e.free_inodes = d.free_inodes
  BY DEF DiskType
<1> QED
  BY <1>1 DEF CachedPart

LEMMA BlockPut ==
  ASSUME NEW st \in CallType, NEW x \in Blocks, NEW c \in [1 .. PerBlk -> Slot]
  PROVE  LET e == [st.disk EXCEPT !.blk[x] = c]
         IN /\ PutBlock(st, x, c) = Put(st, e) /\ e \in DiskType
            /\ e.inode = st.disk.inode /\ e.blk = [st.disk.blk EXCEPT ![x] = c]
            /\ e.imap = st.disk.imap /\ e.bmap = st.disk.bmap /\ CachedPart(e) = CachedPart(st.disk)
<1> DEFINE d == st.disk
           e == [d EXCEPT !.blk[x] = c]
<1>1. d \in DiskType
  BY DEF CallType
<1>2. e.inode = d.inode /\ e.blk = [d.blk EXCEPT ![x] = c]
  <2> HIDE DEF d
  <2> QED
    BY <1>1 DEF DiskType
<1>3. e \in DiskType /\ e.imap = d.imap /\ e.bmap = d.bmap /\ CachedPart(e) = CachedPart(d)
  <2> HIDE DEF d
  <2> QED
    BY <1>1, SectorIs
<1> QED
  BY <1>2, <1>3 DEF PutBlock

LEMMA InodePut ==
  ASSUME NEW st \in CallType, NEW i \in Inodes, NEW n \in InodeType
  PROVE  LET e == [st.disk EXCEPT !.inode[i] = n]
         IN /\ PutInode(st, i, n) = Put(st, e) /\ e \in DiskType
            /\ e.inode = [st.disk.inode EXCEPT ![i] = n] /\ e.blk = st.disk.blk
            /\ e.imap = st.disk.imap /\ e.bmap = st.disk.bmap /\ CachedPart(e) = CachedPart(st.disk)
<1> DEFINE d == st.disk
           e == [d EXCEPT !.inode[i] = n]
<1>1. d \in DiskType
  BY DEF CallType
<1>2. e.blk = d.blk /\ e.inode = [d.inode EXCEPT ![i] = n]
  <2> HIDE DEF d
  <2> QED
    BY <1>1 DEF DiskType
<1>3. e \in DiskType /\ e.imap = d.imap /\ e.bmap = d.bmap /\ CachedPart(e) = CachedPart(d)
  <2> HIDE DEF d
  <2> QED
    BY <1>1, SectorIs
<1> QED
  BY <1>2, <1>3 DEF PutInode

NoEntryOf(d, R, ch) == \A i \in Dirs(d, R), b \in Places, k \in Slots :
  IsEntry(d, i, b, k) => EntryAt(d, i, b, k) # ch

Adding(st, base, R0, R, p, ch, name) ==
  /\ Run(st, base, R0, R) /\ p \in Dirs(st.disk, R) /\ ch \in R \ {0, p}
  /\ name \in Names \cup {NoName} /\ NoEntryOf(st.disk, R, ch)

(* dir_add_entry() in a block the directory has ...                        *)
LEMMA OldBlockRuns ==
  ASSUME NEW st, NEW base, NEW R0, NEW R, NEW p, NEW ch, NEW name, Adding(st, base, R0, R, p, ch, name),
         NEW s1, NEW r, NEW g, NEW l, NEW x, NEW old, NEW m, EntryPut(st, s1, r, p, ch, name, g, l, x, old, m),
         InOld(st, s1, p, g, x, old)
  PROVE  Run(r, base, R0, R) /\ \A j \in Inodes \ {p} : r.disk.inode[j] = st.disk.inode[j]
<1>1. /\ Run(st, base, R0, R) /\ p \in Dirs(st.disk, R) /\ ch \in R \ {0, p}
      /\ name \in Names \cup {NoName} /\ NoEntryOf(st.disk, R, ch)
  BY DEF Adding
<1>2. Ptr(st.disk, p, g) = x /\ old = st.disk.blk[x] /\ s1 = st
  BY DEF InOld
<1> DEFINE d == st.disk
           c == [old EXCEPT ![l] = [inode |-> ch, name |-> name]]
           e1 == [d EXCEPT !.blk[x] = c]
           w == PutBlock(st, x, c)
<1>3. /\ st \in CallType /\ d \in DiskType /\ Firm(d, R) /\ Sound(d, R) /\ R \subseteq Inodes
      /\ p \in Inodes /\ p \in R /\ ch \in Inodes /\ Covers(st.ram, d, R) /\ Covers(d, d, R) /\ R0 \subseteq R
  BY <1>1, FirmType DEF Run, Dirs, Copy, Covers, CachedPart
<1>4. /\ g \in Places /\ l \in Slots /\ x \in Blocks /\ InFirstPlace(d, p, g, l, old)
      /\ m \in InodeType /\ m.type = d.inode[p].type /\ m.blocks = [d.inode[p].blocks EXCEPT ![g] = x]
      /\ d.inode[p].size <= m.size /\ r = PutInode(w, p, m)
  BY <1>2 DEF EntryPut, FirstPlace, InFirstPlace, Taken, EntryAt
<1>5. d.inode[p] \in InodeType /\ d.inode[p].blocks \in [Places -> {0} \cup Blocks] /\ d.inode[p].size \in Int
  <2>1. d.inode[p] \in InodeType
    BY <1>3 DEF DiskType
  <2> QED
    BY <2>1, Sizes_Nat DEF InodeType, Places
<1>6. m.blocks = d.inode[p].blocks
  BY <1>2, <1>4, <1>5 DEF Ptr
<1>7. old \in [1 .. PerBlk -> Slot] /\ c \in [1 .. PerBlk -> Slot]
  <2>1. old \in [1 .. PerBlk -> Slot]
    BY <1>2, <1>3, <1>4 DEF DiskType
  <2> QED
    BY <1>1, <1>3, <2>1, NewEntry
<1> HIDE DEF w
<1>8. /\ w = Put(st, e1) /\ e1 \in DiskType /\ e1.inode = d.inode /\ e1.blk = [d.blk EXCEPT ![x] = c]
      /\ e1.imap = d.imap /\ e1.bmap = d.bmap /\ CachedPart(e1) = CachedPart(d)
  <2> HIDE DEF c
  <2> QED
    BY <1>3, <1>4, <1>7, BlockPut DEF w
<1> HIDE DEF e1
<1>9. EntryMade(d, e1, R, p, ch, g, l, x, name, old, d.inode[p])
  <2>1. x \in d.bmap
    BY <1>2, <1>3, <1>4, Sizes_Nat DEF Sound, Owned
  <2>2. e1.inode = [d.inode EXCEPT ![p] = d.inode[p]] /\ d.inode[p].blocks = [d.inode[p].blocks EXCEPT ![g] = x]
    BY <1>3, <1>4, <1>6, <1>8 DEF DiskType
  <2>3. e1.blk = [d.blk EXCEPT ![x] = [old EXCEPT ![l] = [inode |-> ch, name |-> name]]]
    BY <1>8
  <2>4. e1.bmap = d.bmap \cup {x}
    BY <1>8, <2>1
  <2> HIDE DEF c, d
  <2> QED
    BY <1>1, <1>2, <1>3, <1>4, <1>5, <1>7, <1>8, <2>2, <2>3, <2>4 DEF EntryMade, NoEntryOf, d
<1>10. Firm(e1, R) /\ Grows(d, e1, R)
  <2>1. d.inode[p].size <= d.inode[p].size
    BY <1>5
  <2> QED
    BY <1>1, <1>3, <1>4, <1>9, <2>1, EntryGrows
<1>11. Covers(st.ram, e1, R) /\ Covers(d, e1, R)
  BY <1>3, <1>8 DEF Covers, Ptr
<1>12. Run(w, base, R0, R) /\ w.disk = e1 /\ w.ram = st.ram
  <2>1. Grows(d, e1, R0)
    BY <1>3, <1>10, GrowsLess
  <2> QED
    BY <1>1, <1>8, <1>10, <1>11, <2>1, DataRuns
<1> DEFINE e2 == [e1 EXCEPT !.inode[p] = m]
<1>13. /\ r = Put(w, e2) /\ e2 \in DiskType /\ e2.inode = [e1.inode EXCEPT ![p] = m] /\ e2.blk = e1.blk
       /\ e2.imap = e1.imap /\ e2.bmap = e1.bmap /\ CachedPart(e2) = CachedPart(e1)
  BY <1>3, <1>4, <1>12, InodePut DEF Run
<1> HIDE DEF e2
<1>14. p \in Dirs(e1, R)
  BY <1>1, <1>3, <1>8 DEF Dirs
<1>15. Firm(e2, R) /\ Grows(e1, e2, R)
  BY <1>4, <1>6, <1>8, <1>10, <1>13, <1>14, SizeGrows
<1>16. \A j \in Inodes, b \in Places : Ptr(e2, j, b) = Ptr(e1, j, b)
  BY <1>3, <1>6, <1>8, <1>13 DEF Ptr, DiskType
<1>17. Covers(w.ram, e2, R) /\ Covers(w.disk, e2, R)
  BY <1>3, <1>8, <1>11, <1>12, <1>16 DEF Covers
<1>18. Run(r, base, R0, R) /\ r.disk = e2
  <2>1. Grows(w.disk, e2, R0)
    BY <1>3, <1>12, <1>15, GrowsLess
  <2> QED
    BY <1>12, <1>13, <1>15, <1>17, <2>1, DataRuns
<1>19. \A j \in Inodes \ {p} : e2.inode[j] = d.inode[j]
  BY <1>8, <1>13 DEF DiskType
<1> QED
  BY <1>18, <1>19

(* ... and in a block that is allocated for it.                            *)
LEMMA NewBlockRuns ==
  ASSUME NEW st, NEW base, NEW R0, NEW R, NEW p, NEW ch, NEW name, Adding(st, base, R0, R, p, ch, name),
         NEW s1, NEW r, NEW g, NEW l, NEW x, NEW old, NEW m, EntryPut(st, s1, r, p, ch, name, g, l, x, old, m),
         InNew(st, s1, p, g, x, old)
  PROVE  Run(r, base, R0, R) /\ \A j \in Inodes \ {p} : r.disk.inode[j] = st.disk.inode[j]
<1>1. /\ Run(st, base, R0, R) /\ p \in Dirs(st.disk, R) /\ ch \in R \ {0, p}
      /\ name \in Names \cup {NoName} /\ NoEntryOf(st.disk, R, ch)
  BY DEF Adding
<1>2. /\ Ptr(st.disk, p, g) = 0 /\ old = EmptyBlock
       /\ FreeBlocks(st) # {} /\ x = Min(FreeBlocks(st)) /\ s1 = TakeBlock(st)
  BY DEF InNew
<1> DEFINE d == st.disk
           d1 == s1.disk
           new == [inode |-> ch, name |-> name]
           c == [old EXCEPT ![l] = new]
           e1 == [d1 EXCEPT !.blk[x] = c]
           w == PutBlock(s1, x, c)
<1>3. /\ st \in CallType /\ d \in DiskType /\ Firm(d, R) /\ Sound(d, R) /\ R \subseteq Inodes
      /\ p \in Inodes /\ p \in R /\ ch \in Inodes /\ Covers(st.ram, d, R) /\ R0 \subseteq R
  BY <1>1, FirmType DEF Run, Dirs, Copy
<1>4. /\ g \in Places /\ l \in Slots /\ x \in Blocks /\ InFirstPlace(d, p, g, l, old)
      /\ m \in InodeType /\ m.type = d.inode[p].type /\ m.blocks = [d.inode[p].blocks EXCEPT ![g] = x]
      /\ d.inode[p].size <= m.size /\ r = PutInode(w, p, m)
  BY DEF EntryPut, FirstPlace, InFirstPlace, Taken, EntryAt
<1>5. /\ x \notin st.ram.bmap /\ Run(s1, base, R0, R) /\ x \in s1.ram.bmap /\ x \in d1.bmap
      /\ d1.inode = d.inode /\ d1.blk = d.blk /\ x # 0
  BY <1>1, <1>2, <1>4, TakeBlockRuns, Sizes_Nat
<1>6. /\ s1 \in CallType /\ d1 \in DiskType /\ Firm(d1, R) /\ Covers(s1.ram, d1, R) /\ Covers(d1, d1, R)
  BY <1>5, FirmType DEF Run, Copy, Covers, CachedPart
<1>7. \A i \in R, b \in Places : Ptr(d1, i, b) = Ptr(d, i, b) /\ Ptr(d1, i, b) # x
  <2>1. \A i \in R, b \in Places : Ptr(d, i, b) # x
    BY <1>3, <1>5 DEF Covers
  <2> QED
    BY <1>5, <2>1 DEF Ptr
<1>8. old \in [1 .. PerBlk -> Slot] /\ c \in [1 .. PerBlk -> Slot] /\ \A k \in Slots : c[k].inode # TextInode
  <2>1. old \in [1 .. PerBlk -> Slot] /\ \A k \in Slots : old[k].inode = 0
    BY <1>2, Sizes_Nat DEF EmptyBlock, FreeSlot, Slot, Slots, TextInode
  <2>2. c \in [1 .. PerBlk -> Slot]
    BY <1>1, <1>3, <2>1, NewEntry
  <2>3. \A k \in Slots : c[k] = old[k] \/ c[k] = new
    BY <2>1 DEF Slots
  <2>4. new.inode # TextInode
    BY <1>3, Sizes_Nat
  <2> HIDE DEF c, new
  <2> QED
    BY <2>1, <2>2, <2>3, <2>4, Sizes_Nat
<1> HIDE DEF w
<1>9. /\ w = Put(s1, e1) /\ e1 \in DiskType /\ e1.inode = d1.inode /\ e1.blk = [d1.blk EXCEPT ![x] = c]
      /\ e1.imap = d1.imap /\ e1.bmap = d1.bmap /\ CachedPart(e1) = CachedPart(d1)
  <2> HIDE DEF c
  <2> QED
    BY <1>4, <1>6, <1>8, BlockPut DEF w
<1> HIDE DEF e1, d1
<1>10. Firm(e1, R) /\ Grows(d1, e1, R) /\ \A i \in R : Alike(d1, e1, i)
  <2>1. \A i \in R, b \in Places : Ptr(d1, i, b) # x
    BY <1>7
  <2>2. \A k \in Slots : c[k].inode = TextInode => c[k].name \in Texts
    BY <1>8
  <2>3. Firm(d1, R) /\ e1 \in DiskType /\ x \in Blocks /\ c \in [1 .. PerBlk -> Slot]
    BY <1>4, <1>6, <1>8, <1>9
  <2>4. e1.inode = d1.inode /\ e1.blk = [d1.blk EXCEPT ![x] = c] /\ e1.imap = d1.imap /\ e1.bmap = d1.bmap
    BY <1>9
  <2> HIDE DEF c
  <2> QED
    BY <2>1, <2>2, <2>3, <2>4, OtherBlock
<1>11. Covers(s1.ram, e1, R) /\ Covers(d1, e1, R)
  BY <1>6, <1>9 DEF Covers, Ptr
<1>12. Run(w, base, R0, R) /\ w.disk = e1 /\ w.ram = s1.ram
  <2>1. Grows(d1, e1, R0)
    BY <1>3, <1>10, GrowsLess
  <2> QED
    BY <1>5, <1>9, <1>10, <1>11, <2>1, DataRuns DEF d1
<1> DEFINE S == e1.bmap \ {x}
           dd == [e1 EXCEPT !.bmap = S]
<1>13. /\ dd \in DiskType /\ dd.inode = e1.inode /\ dd.blk = e1.blk /\ dd.imap = e1.imap /\ dd.bmap = e1.bmap \ {x}
  <2>1. S \in SUBSET Blocks
    BY <1>9 DEF DiskType
  <2> QED
    BY <1>9, <2>1 DEF DiskType
<1> HIDE DEF dd, S
<1>14. /\ Firm(dd, R) /\ Grows(e1, dd, R) /\ \A i \in R : Alike(e1, dd, i)
  <2>1. \A i \in R, b \in Places : Ptr(e1, i, b) # x
    BY <1>7, <1>9 DEF Ptr
  <2>2. Firm(dd, R) /\ \A i \in R : Alike(e1, dd, i)
    BY <1>10, <1>13, <2>1, UnmarkFirm
  <2> QED
    BY <1>3, <1>9, <2>2, AlikeGrows
<1> DEFINE e2 == [e1 EXCEPT !.inode[p] = m]
<1>15. /\ r = Put(w, e2) /\ e2 \in DiskType /\ e2.inode = [e1.inode EXCEPT ![p] = m] /\ e2.blk = e1.blk
       /\ e2.imap = e1.imap /\ e2.bmap = e1.bmap /\ CachedPart(e2) = CachedPart(e1)
  BY <1>3, <1>4, <1>12, InodePut DEF Run
<1> HIDE DEF e2
<1>16. /\ dd.inode = d.inode /\ Dirs(dd, R) = Dirs(d, R) /\ p \in Dirs(dd, R)
       /\ \A i, b : Ptr(dd, i, b) = Ptr(d, i, b)
  <2>1. dd.inode = d.inode
    BY <1>5, <1>9, <1>13
  <2> QED
    BY <1>1, <2>1 DEF Dirs, Ptr
<1>17. ASSUME NEW i \in R, NEW b \in Places, Ptr(d, i, b) # 0
       PROVE  dd.blk[Ptr(d, i, b)] = d.blk[Ptr(d, i, b)]
  <2>1. Ptr(d, i, b) \in Blocks /\ Ptr(d, i, b) # x
    BY <1>3, <1>7, <1>17, PtrIs
  <2> QED
    BY <1>5, <1>6, <1>9, <1>13, <2>1 DEF DiskType
<1>18. /\ \A i \in R, b \in Places, k \in Slots : /\ Taken(dd, i, b, k) <=> Taken(d, i, b, k)
                                                  /\ IsEntry(dd, i, b, k) <=> IsEntry(d, i, b, k)
       /\ \A i \in R, b \in Places, k \in Slots : IsEntry(dd, i, b, k) => EntryAt(dd, i, b, k) = EntryAt(d, i, b, k)
  BY <1>16, <1>17 DEF Taken, IsEntry, EntryAt
<1>19. InFirstPlace(dd, p, g, l, old)
  <2>1. \A b \in 1 .. g - 1 : b \in Places
    BY <1>4, Sizes_Nat DEF Places
  <2> QED
    BY <1>3, <1>4, <1>18, <2>1 DEF InFirstPlace
<1>20. EntryMade(dd, e2, R, p, ch, g, l, x, name, old, m)
  <2>1. Sound(dd, R)
    BY <1>14 DEF Firm
  <2>2. \A i \in Dirs(dd, R), b \in Places, k \in Slots : IsEntry(dd, i, b, k) => EntryAt(dd, i, b, k) # ch
    <3> SUFFICES ASSUME NEW i \in Dirs(dd, R), NEW b \in Places, NEW k \in Slots, IsEntry(dd, i, b, k)
                 PROVE  EntryAt(dd, i, b, k) # ch
      OBVIOUS
    <3>1. i \in R /\ i \in Dirs(d, R)
      BY <1>16 DEF Dirs
    <3>2. IsEntry(d, i, b, k) /\ EntryAt(dd, i, b, k) = EntryAt(d, i, b, k)
      BY <1>18, <3>1
    <3> QED
      BY <1>1, <3>1, <3>2 DEF NoEntryOf
  <2>3. Ptr(dd, p, g) = 0 /\ x \notin dd.bmap
    BY <1>2, <1>13, <1>16
  <2>4. e2.inode = [dd.inode EXCEPT ![p] = m] /\ m.type = dd.inode[p].type
        /\ m.blocks = [dd.inode[p].blocks EXCEPT ![g] = x]
    BY <1>4, <1>13, <1>15, <1>16
  <2>5. e2.blk = [dd.blk EXCEPT ![x] = [old EXCEPT ![l] = [inode |-> ch, name |-> name]]]
    <3>1. e2.blk = dd.blk /\ dd.blk = [d1.blk EXCEPT ![x] = c]
      BY <1>9, <1>13, <1>15
    <3> HIDE DEF c
    <3>2. [dd.blk EXCEPT ![x] = c] = dd.blk
      BY <3>1
    <3> QED
      BY <3>1, <3>2 DEF c
  <2>6. e2.imap = dd.imap /\ e2.bmap = dd.bmap \cup {x}
    BY <1>5, <1>9, <1>13, <1>15
  <2> QED
    BY <1>1, <1>2, <1>3, <1>4, <1>8, <1>15, <2>1, <2>2, <2>3, <2>4, <2>5, <2>6 DEF EntryMade
<1>21. Firm(e2, R) /\ Grows(e1, e2, R)
  <2>1. dd.inode[p].size <= m.size
    BY <1>4, <1>16
  <2>2. Firm(e2, R) /\ Grows(dd, e2, R)
    BY <1>14, <1>16, <1>19, <1>20, <2>1, EntryGrows
  <2> QED
    BY <1>3, <1>9, <1>13, <1>14, <1>15, <2>2, GrowsTwice
<1>22. \A j \in R, b \in Places : Ptr(e2, j, b) = Ptr(e1, j, b) \/ Ptr(e2, j, b) = x
  <2>1. d.inode[p].blocks \in [1 .. NDirect -> {0} \cup Blocks]
    BY <1>3 DEF DiskType, InodeType
  <2>2. e2.inode[p] = m /\ \A j \in Inodes \ {p} : e2.inode[j] = e1.inode[j]
    BY <1>3, <1>9, <1>15 DEF DiskType
  <2>3. \A b \in Places : m.blocks[b] = x \/ m.blocks[b] = d.inode[p].blocks[b]
    BY <1>4, <2>1 DEF Places
  <2> QED
    BY <1>3, <1>5, <1>9, <2>2, <2>3 DEF Ptr
<1>23. Covers(w.ram, e2, R) /\ Covers(w.disk, e2, R)
  BY <1>5, <1>9, <1>11, <1>12, <1>22 DEF Covers
<1>24. Run(r, base, R0, R) /\ r.disk = e2
  <2>1. Grows(w.disk, e2, R0)
    BY <1>3, <1>12, <1>21, GrowsLess
  <2> QED
    BY <1>12, <1>15, <1>21, <1>23, <2>1, DataRuns
<1>25. \A j \in Inodes \ {p} : e2.inode[j] = d.inode[j]
  BY <1>5, <1>9, <1>15 DEF DiskType
<1> QED
  BY <1>24, <1>25

LEMMA AddEntryRuns ==
  ASSUME NEW st, NEW base, NEW R0, NEW R, NEW p, NEW ch, NEW name, Adding(st, base, R0, R, p, ch, name)
  PROVE  LET r == PutEntry(st, p, ch, name)
         IN Run(r, base, R0, R) /\ \A j \in Inodes \ {p} : r.disk.inode[j] = st.disk.inode[j]
<1> DEFINE r == PutEntry(st, p, ch, name)
<1>1. st.disk \in DiskType /\ p \in Inodes
  BY FirmType DEF Adding, Run, Dirs
<1>2. r = st \/ \E s1, g, l, x, old, m : EntryPut(st, s1, r, p, ch, name, g, l, x, old, m)
  BY <1>1, AddEntryPuts
<1> HIDE DEF r
<1>3. CASE r = st
  BY <1>3 DEF r, Adding
<1>4. ASSUME NEW s1, NEW g, NEW l, NEW x, NEW old, NEW m, EntryPut(st, s1, r, p, ch, name, g, l, x, old, m)
      PROVE  Run(r, base, R0, R) /\ \A j \in Inodes \ {p} : r.disk.inode[j] = st.disk.inode[j]
  <2>1. InOld(st, s1, p, g, x, old) \/ InNew(st, s1, p, g, x, old)
    BY <1>4 DEF EntryPut
  <2> QED
    BY <1>4, <2>1, OldBlockRuns, NewBlockRuns
<1> QED
  BY <1>2, <1>3, <1>4 DEF r

LEMMA NewInodeIs ==
  ASSUME NEW type \in Types, type # "livre"
  PROVE  /\ Inode(type) \in InodeType /\ Inode(type).type = type /\ Inode(type).type # "livre"
         /\ Inode(type).blocks = NoBlocks
<1>1. NoBlocks \in [1 .. NDirect -> {0} \cup Blocks] /\ 0 \in 0 .. Capacity
  BY Sizes_Nat DEF NoBlocks
<1> QED
  BY <1>1 DEF Inode, InodeType, Types

(* The new inode, before its entry.                                        *)
LEMMA InodeRuns ==
  ASSUME NEW st, NEW base, NEW R0, NEW R, Run(st, base, R0, R), NEW i \in Inodes \ R,
         i \in st.ram.imap, i \in st.disk.imap,
         NEW n \in InodeType, n.type # "livre", n.blocks = NoBlocks
  PROVE  LET s == PutInode(st, i, n)
         IN /\ Run(s, base, R0, R \cup {i}) /\ s.disk.inode = [st.disk.inode EXCEPT ![i] = n]
            /\ NoEntryOf(s.disk, R \cup {i}, i)
<1> DEFINE d == st.disk
           Q == R \cup {i}
           e == [d EXCEPT !.inode[i] = n]
           s == PutInode(st, i, n)
<1>1. /\ st \in CallType /\ d \in DiskType /\ Firm(d, R) /\ Sound(d, R) /\ R \subseteq Inodes /\ R \subseteq d.imap
      /\ Covers(st.ram, d, R) /\ Covers(d, d, R) /\ R0 \subseteq R
  BY FirmType DEF Run, Copy, Covers, CachedPart
<1>3. /\ s = Put(st, e) /\ e \in DiskType /\ e.inode = [d.inode EXCEPT ![i] = n] /\ e.blk = d.blk
      /\ e.imap = d.imap /\ e.bmap = d.bmap /\ CachedPart(e) = CachedPart(d)
  BY <1>1, InodePut
<1> HIDE DEF s, e
<1>4. e.inode[i] = n /\ \A j \in Inodes \ {i} : e.inode[j] = d.inode[j]
  BY <1>1, <1>3 DEF DiskType
<1>5. Sound(e, R)
  BY <1>1, <1>3, InodeElsewhere
<1>6. Sound(e, Q)
  BY <1>1, <1>3, <1>4, <1>5, JoinKeeps
<1>7. \A j \in R : Alike(d, e, j)
  BY <1>1, <1>3, <1>4 DEF Alike
<1>8. \A b \in Places : /\ Ptr(e, i, b) = 0
                        /\ \A k \in Slots : ~ Taken(e, i, b, k) /\ ~ IsEntry(e, i, b, k)
  BY <1>4 DEF NoBlocks, Places, Taken, IsEntry, Ptr
<1>9. Firm(e, Q)
  <2>1. ASSUME NEW j \in Dirs(e, Q) PROVE Holeless(e, j)
    <3>1. CASE j = i
      BY <1>8, <3>1 DEF Holeless
    <3>2. CASE j # i
      <4>1. j \in Dirs(d, R)
        BY <1>1, <1>4, <3>2 DEF Dirs
      <4>2. j \in R /\ Holeless(d, j)
        BY <1>1, <4>1 DEF Firm, Dirs
      <4> QED
        BY <1>7, <4>2, HolelessAlike
    <3> QED
      BY <3>1, <3>2
  <2> QED
    BY <1>6, <2>1 DEF Firm
<1>10. Covers(st.ram, e, Q) /\ Covers(d, e, Q)
  <2> SUFFICES ASSUME NEW c, Covers(c, d, R), i \in c.imap
               PROVE  Covers(c, e, Q)
    BY <1>1
  <2>1. ASSUME NEW j \in Q, NEW b \in Places, Ptr(e, j, b) # 0 PROVE Ptr(e, j, b) \in c.bmap
    <3>1. j # i /\ j \in R /\ j \in Inodes \ {i}
      BY <1>1, <1>8, <2>1
    <3>2. Ptr(e, j, b) = Ptr(d, j, b)
      BY <1>4, <3>1 DEF Ptr
    <3> QED
      BY <2>1, <3>1, <3>2 DEF Covers
  <2> QED
    BY <2>1 DEF Covers
<1>11. Grows(d, e, R0)
  BY <1>1, <1>7, AlikeGrows
<1>12. Run(s, base, R0, Q) /\ s.disk = e
  BY <1>3, <1>9, <1>10, <1>11, DataRuns
<1>13. NoEntryOf(e, Q, i)
  <2> SUFFICES ASSUME NEW j \in Dirs(e, Q), NEW b \in Places, NEW k \in Slots, IsEntry(e, j, b, k)
               PROVE  EntryAt(e, j, b, k) # i
    BY DEF NoEntryOf
  <2>1. j # i
    BY <1>8
  <2>2. j \in Dirs(e, R)
    BY <2>1 DEF Dirs
  <2>3. EntryAt(e, j, b, k) \in R
    BY <1>5, <2>2 DEF Sound, Linked
  <2> QED
    BY <2>3
<1> QED
  BY <1>3, <1>12, <1>13 DEF s

LEMMA CreateRuns ==
  ASSUME NEW st, NEW base, NEW R0, NEW R, Run(st, base, R0, R), FreeInodes(st) # {},
         NEW type \in Types, type # "livre", NEW path \in Seq(Names),
         PathFind(st.disk, ParentPath(path)).cur \in Dirs(st.disk, R)
  PROVE  LET r == Create(st, type, path)
             i == Min(FreeInodes(st))
         IN i \in Inodes /\ i \notin R /\ Run(r, base, R0, R \cup {i}) /\ r.disk.inode[i] = Inode(type)
<1> DEFINE d == st.disk
           i == Min(FreeInodes(st))
           p == PathFind(d, ParentPath(path)).cur
           s1 == TakeInode(st)
           s2 == PutInode(s1, i, Inode(type))
           Q == R \cup {i}
           name == Stored(NameOf(path))
           r == Create(st, type, path)
<1>1. r = PutEntry(s2, p, i, name)
  BY DEF Create, AddEntry
<1>2. /\ i \in Inodes \ {0} /\ i \notin R /\ Run(s1, base, R0, R) /\ i \in s1.ram.imap /\ i \in s1.disk.imap
      /\ s1.disk.inode = d.inode
  BY TakeInodeRuns
<1> HIDE DEF i, s1, s2, p, r
<1>3. /\ Run(s2, base, R0, Q) /\ s2.disk.inode = [d.inode EXCEPT ![i] = Inode(type)] /\ NoEntryOf(s2.disk, Q, i)
  <2>1. i \in Inodes \ R
    BY <1>2
  <2>2. LET w == PutInode(s1, i, Inode(type))
        IN /\ Run(w, base, R0, Q) /\ w.disk.inode = [s1.disk.inode EXCEPT ![i] = Inode(type)]
           /\ NoEntryOf(w.disk, Q, i)
    BY <1>2, <2>1, NewInodeIs, InodeRuns
  <2> QED
    BY <1>2, <2>2 DEF s2
<1>4. p \in R /\ d.inode[p].type = "diretorio" /\ d \in DiskType /\ R \subseteq Inodes
  BY FirmType DEF p, Dirs, Run
<1>5. p \in Dirs(s2.disk, Q) /\ i \in Q \ {0, p} /\ s2.disk.inode[i] = Inode(type)
  BY <1>2, <1>3, <1>4 DEF Dirs, DiskType
<1>6. name \in Names \cup {NoName}
  BY PathParts
<1>7. Run(r, base, R0, Q) /\ \A j \in Inodes \ {p} : r.disk.inode[j] = s2.disk.inode[j]
  <2>1. Adding(s2, base, R0, Q, p, i, name)
    BY <1>3, <1>5, <1>6 DEF Adding
  <2> QED
    BY <1>1, <2>1, AddEntryRuns
<1> QED
  BY <1>2, <1>5, <1>7 DEF i, r

Running(base, R0, R, size) ==
  {at \in [st : CallType, in : InodeType, done : 0 .. size] : Run(at.st, base, R0, R)}

(* One block of text.                                                      *)
BlockRun(at, b, r) ==
  \E x \in Blocks :
    /\ r.in = [at.in EXCEPT !.blocks[b] = x]
    /\ x \notin at.st.ram.bmap /\ x \in r.st.ram.bmap /\ at.st.ram.bmap \subseteq r.st.ram.bmap
    /\ r.st.disk.inode = at.st.disk.inode
    /\ IsText(r.st.disk.blk[x]) /\ \A y \in Blocks \ {x} : r.st.disk.blk[y] = at.st.disk.blk[y]

LEMMA WriteBlockRuns ==
  ASSUME NEW base, NEW R0, NEW R, NEW size \in Nat, NEW at \in Running(base, R0, R, size), NEW b \in Places,
         NEW t \in Texts
  PROVE  LET r == WriteBlock(at, b, t, size)
         IN r \in Running(base, R0, R, size) /\ (r = at \/ BlockRun(at, b, r))
<1> DEFINE r == WriteBlock(at, b, t, size)
           d == at.st.disk
           x == Min(FreeBlocks(at.st))
           n == Min({PerBlk, size - at.done})
           c == TextBlock(t, n)
           s1 == TakeBlock(at.st)
           d1 == s1.disk
           e == [d1 EXCEPT !.blk[x] = c]
           s2 == PutBlock(s1, x, c)
           stop == at.done = size \/ FreeBlocks(at.st) = {}
           in2 == [at.in EXCEPT !.blocks[b] = x]
           done2 == at.done + n
<1>1. /\ r = IF stop THEN at ELSE [st |-> s2, in |-> in2, done |-> done2]
      /\ at.st \in CallType /\ Run(at.st, base, R0, R) /\ at.in \in InodeType /\ at.done \in 0 .. size
      /\ Places = 1 .. NDirect
  BY DEF WriteBlock, Running, Places
<1> HIDE DEF r
<1>2. CASE stop
  BY <1>1, <1>2 DEF r
<1>3. CASE ~ stop
  <2>1. /\ x \in Blocks /\ x \notin at.st.ram.bmap /\ Run(s1, base, R0, R) /\ x \in s1.ram.bmap
        /\ at.st.ram.bmap \subseteq s1.ram.bmap /\ d1.inode = d.inode /\ d1.blk = d.blk
    BY <1>1, <1>3, TakeBlockRuns, Zenon
  <2>2. /\ c \in [1 .. PerBlk -> Slot] /\ IsText(c)
        /\ \A k \in Slots : c[k].inode = TextInode => c[k].name \in Texts
    BY TextBlockIs
  <2>3. /\ s1 \in CallType /\ Firm(d1, R) /\ d1 \in DiskType /\ Covers(s1.ram, d1, R) /\ Covers(d1, d1, R)
        /\ Covers(at.st.ram, d, R) /\ R0 \subseteq R
    <3> DEFINE s0 == at.st
    <3>1. Run(s0, base, R0, R) /\ Run(s1, base, R0, R)
      BY <1>1, <2>1
    <3> HIDE DEF s0, s1, x, c
    <3> QED
      BY <3>1, FirmType DEF s0, Run, Copy, Covers, CachedPart
  <2> HIDE DEF c, s1, x
  <2>4. /\ s2 = Put(s1, e) /\ e \in DiskType /\ e.inode = d1.inode /\ e.blk = [d1.blk EXCEPT ![x] = c]
        /\ e.imap = d1.imap /\ e.bmap = d1.bmap /\ CachedPart(e) = CachedPart(d1)
    BY <2>1, <2>2, <2>3, BlockPut
  <2> HIDE DEF s2, e
  <2>5. \A i \in R, g \in Places : Ptr(d1, i, g) # x
    <3>1. \A i \in R, g \in Places : Ptr(d1, i, g) = Ptr(d, i, g)
      BY <2>1 DEF Ptr
    <3>2. x # 0
      BY <2>1, Sizes_Nat
    <3> QED
      BY <2>1, <2>3, <3>1, <3>2 DEF Covers
  <2>6. Firm(e, R) /\ Grows(d1, e, R)
    BY <2>1, <2>2, <2>3, <2>4, <2>5, OtherBlock
  <2>7. Covers(s1.ram, e, R) /\ Covers(d1, e, R)
    BY <2>3, <2>4 DEF Covers, Ptr
  <2>8. Run(s2, base, R0, R) /\ s2.disk = e /\ s2.ram = s1.ram
    <3>1. Grows(d1, e, R0)
      BY <2>3, <2>6, GrowsLess
    <3> QED
      BY <2>1, <2>4, <2>6, <2>7, <3>1, DataRuns
  <2>9. in2 \in InodeType
    <3> DEFINE o == at.in
    <3>1. o \in InodeType
      BY <1>1
    <3>2. in2 = [o EXCEPT !.blocks[b] = x]
      OBVIOUS
    <3> HIDE DEF o, in2
    <3> QED
      BY <1>1, <2>1, <3>1, <3>2 DEF InodeType
  <2>10. done2 \in 0 .. size
    <3> DEFINE S == {PerBlk, size - at.done}
    <3>1. size - at.done \in Nat /\ at.done \in Nat
      BY <1>1, <1>3
    <3>2. S \subseteq Nat /\ S # {} /\ size - at.done \in S
      BY <3>1, Sizes_Nat
    <3> HIDE DEF S
    <3>3. Min(S) \in Nat /\ Min(S) <= size - at.done
      BY <3>2, MinIs
    <3>4. n = Min(S)
      BY DEF S
    <3> HIDE DEF n
    <3> QED
      BY <1>1, <3>1, <3>3, <3>4
  <2> HIDE DEF in2, done2
  <2>11. r = [st |-> s2, in |-> in2, done |-> done2]
    BY <1>1, <1>3
  <2>12. s2 \in CallType
    BY <2>8 DEF Run
  <2>13. r \in Running(base, R0, R, size) /\ r.st = s2 /\ r.in = in2
    BY <2>8, <2>9, <2>10, <2>11, <2>12 DEF Running
  <2>14. e.blk[x] = c /\ \A y \in Blocks \ {x} : e.blk[y] = d.blk[y]
    BY <2>1, <2>3, <2>4 DEF DiskType
  <2>15. BlockRun(at, b, r)
    <3>1. r.in = [at.in EXCEPT !.blocks[b] = x]
      BY <2>13 DEF in2
    <3>2. /\ x \in r.st.ram.bmap /\ at.st.ram.bmap \subseteq r.st.ram.bmap /\ r.st.disk = e
          /\ e.inode = d.inode
      BY <2>1, <2>4, <2>8, <2>13
    <3> HIDE DEF d
    <3>3. IsText(r.st.disk.blk[x]) /\ \A y \in Blocks \ {x} : r.st.disk.blk[y] = d.blk[y]
      BY <2>2, <2>14, <3>2
    <3> QED
      BY <2>1, <3>1, <3>2, <3>3 DEF BlockRun, d
  <2> QED
    BY <2>13, <2>15 DEF r
<1> QED
  BY <1>2, <1>3

(* What the first b blocks have become.                                    *)
Laid(st, base, R0, R, i, size, b, at) ==
  LET e == at.st.disk
      blocks == at.in.blocks
  IN /\ at \in Running(base, R0, R, size) /\ e.inode = st.disk.inode /\ at.in.type = st.disk.inode[i].type
     /\ \A c \in Places : c > b => blocks[c] = 0
     /\ \A c \in Places : blocks[c] # 0 =>
          /\ blocks[c] \in at.st.ram.bmap /\ IsText(e.blk[blocks[c]])
          /\ \A j \in R, a \in Places : Ptr(e, j, a) # blocks[c]
     /\ \A a, c \in Places : blocks[a] # 0 /\ blocks[a] = blocks[c] => a = c

LEMMA LaidNext ==
  ASSUME NEW st, NEW base, NEW R0, NEW R, NEW i, NEW size \in Nat, NEW b \in Places, NEW at, NEW t \in Texts,
         Laid(st, base, R0, R, i, size, b - 1, at)
  PROVE  Laid(st, base, R0, R, i, size, b, WriteBlock(at, b, t, size))
<1> DEFINE r == WriteBlock(at, b, t, size)
           d0 == at.st.disk
           e == r.st.disk
           old == at.in.blocks
           blocks == r.in.blocks
<1>1. /\ at \in Running(base, R0, R, size) /\ d0.inode = st.disk.inode /\ at.in.type = st.disk.inode[i].type
      /\ \A c \in Places : c > b - 1 => old[c] = 0
      /\ \A c \in Places : old[c] # 0 =>
          /\ old[c] \in at.st.ram.bmap /\ IsText(d0.blk[old[c]])
          /\ \A j \in R, a \in Places : Ptr(d0, j, a) # old[c]
      /\ \A a, c \in Places : old[a] # 0 /\ old[a] = old[c] => a = c
  BY DEF Laid
<1>2. r \in Running(base, R0, R, size) /\ (r = at \/ BlockRun(at, b, r))
  BY <1>1, WriteBlockRuns
<1>3. b \in Nat /\ Places \subseteq Nat /\ Places = 1 .. NDirect
  BY Sizes_Nat DEF Places
<1> HIDE DEF r
<1>4. CASE r = at
  <2>1. \A c \in Places : c > b => blocks[c] = 0
    BY <1>1, <1>3, <1>4
  <2> QED
    BY <1>1, <1>2, <1>4, <2>1 DEF Laid, r
<1>5. CASE BlockRun(at, b, r)
  <2>1. PICK x \in Blocks :
          /\ r.in = [at.in EXCEPT !.blocks[b] = x]
          /\ x \notin at.st.ram.bmap /\ x \in r.st.ram.bmap /\ at.st.ram.bmap \subseteq r.st.ram.bmap
          /\ e.inode = d0.inode
          /\ IsText(e.blk[x]) /\ \A y \in Blocks \ {x} : e.blk[y] = d0.blk[y]
    BY <1>5 DEF BlockRun
  <2>2. /\ r.in.type = at.in.type
        /\ \A c \in Places : blocks[c] = IF c = b THEN x ELSE old[c]
    <3> DEFINE o == at.in
    <3>1. o \in InodeType /\ r.in = [o EXCEPT !.blocks[b] = x]
      BY <1>1, <2>1 DEF Running
    <3> HIDE DEF o
    <3>2. r.in.type = o.type /\ r.in.blocks = [o.blocks EXCEPT ![b] = x] /\ o.blocks \in [1 .. NDirect -> {0} \cup Blocks]
      BY <3>1 DEF InodeType
    <3>3. \A c \in Places : blocks[c] = IF c = b THEN x ELSE o.blocks[c]
      BY <1>3, <3>2
    <3> QED
      BY <3>2, <3>3 DEF o
  <2>3. /\ at.st.ram \in CopyType /\ d0 \in DiskType /\ R \subseteq Inodes /\ Covers(at.st.ram, d0, R)
    <3>1. Run(at.st, base, R0, R)
      BY <1>1 DEF Running
    <3> QED
      BY <3>1, FirmType DEF Run, Copy
  <2>4. x # 0 /\ at.st.ram.bmap \subseteq Blocks
    BY <2>3, Sizes_Nat DEF CopyType
  <2> HIDE DEF old, blocks, d0, e
  <2>5. \A c \in Places : c > b => blocks[c] = 0
    BY <1>1, <1>3, <2>2
  <2>6. \A j \in R, a \in Places : Ptr(e, j, a) = Ptr(d0, j, a) /\ Ptr(d0, j, a) # x
    BY <2>1, <2>3, <2>4 DEF Ptr, Covers
  <2>7. ASSUME NEW c \in Places, blocks[c] # 0
        PROVE  /\ blocks[c] \in r.st.ram.bmap /\ IsText(e.blk[blocks[c]])
               /\ \A j \in R, a \in Places : Ptr(e, j, a) # blocks[c]
    <3>1. CASE c = b
      BY <2>1, <2>2, <2>6, <3>1
    <3>2. CASE c # b
      <4>1. blocks[c] = old[c] /\ old[c] \in at.st.ram.bmap /\ IsText(d0.blk[old[c]])
        BY <1>1, <2>2, <2>7, <3>2
      <4>2. \A j \in R, a \in Places : Ptr(d0, j, a) # old[c]
        BY <1>1, <2>7, <4>1
      <4>3. old[c] \in Blocks \ {x}
        BY <2>1, <2>4, <4>1
      <4> QED
        BY <2>1, <2>6, <4>1, <4>2, <4>3
    <3> QED
      BY <3>1, <3>2
  <2>8. \A a, c \in Places : blocks[a] # 0 /\ blocks[a] = blocks[c] => a = c
    <3>1. \A c \in Places : old[c] # x
      BY <1>1, <2>1, <2>4
    <3> QED
      BY <1>1, <2>2, <3>1
  <2> QED
    BY <1>1, <1>2, <2>1, <2>2, <2>5, <2>7, <2>8 DEF Laid, e, blocks, d0, r
<1> QED
  BY <1>2, <1>4, <1>5

(* The text of a new file: the inode gets its blocks last.                 *)
LEMMA WriteDataRuns ==
  ASSUME NEW st, NEW base, NEW R0, NEW R, Run(st, base, R0, R), NEW i \in R \ R0,
         st.disk.inode[i].blocks = NoBlocks, st.disk.inode[i].type = "arquivo",
         NEW t \in Texts, NEW size \in 0 .. Capacity
  PROVE  Run(WriteData(st, i, t, size).st, base, R0, R)
<1> DEFINE d == st.disk
           V == Running(base, R0, R, size)
           v0 == [st |-> st, done |-> 0, in |-> [d.inode[i] EXCEPT !.size = size]]
           o == d.inode[i]
<1>1. /\ st \in CallType /\ d \in DiskType /\ R \subseteq Inodes /\ i \in Inodes /\ o \in InodeType
      /\ size \in Nat /\ NDirect \in Nat /\ Places = 1 .. NDirect /\ R0 \subseteq R
  <2>1. st \in CallType /\ d \in DiskType /\ R \subseteq Inodes /\ R0 \subseteq R
    BY FirmType DEF Run
  <2>2. i \in Inodes
    BY <2>1
  <2>3. o \in InodeType
    BY <2>1, <2>2 DEF DiskType
  <2>4. size \in Nat /\ NDirect \in Nat /\ Places = 1 .. NDirect
    BY Sizes_Nat DEF Places
  <2> QED
    BY <2>1, <2>2, <2>3, <2>4
<1>2. /\ v0 \in V /\ v0.st = st /\ v0.in.type = o.type /\ v0.in.blocks = NoBlocks
  <2> DEFINE in == [o EXCEPT !.size = size]
  <2> HIDE DEF o
  <2>1. in \in InodeType /\ in.type = o.type /\ in.blocks = o.blocks
    BY <1>1 DEF InodeType
  <2>2. v0 = [st |-> st, done |-> 0, in |-> in] /\ o.blocks = NoBlocks
    BY DEF o
  <2> HIDE DEF in, v0
  <2> QED
    BY <1>1, <2>1, <2>2 DEF Running
<1>3. \A b \in Places, at \in V : WriteBlock(at, b, t, size) \in V
  BY <1>1, WriteBlockRuns
<1>4. PICK f : /\ Written(st, i, t, size, f) /\ f[0] \in V
               /\ WriteData(st, i, t, size) =
                    Done(PutInode(f[NDirect].st, i, f[NDirect].in), f[NDirect].done)
  <2> HIDE DEF V
  <2> QED
    BY <1>2, <1>3, WriteDataSteps
<1> DEFINE Good == {b \in 0 .. NDirect : Laid(st, base, R0, R, i, size, b, f[b])}
<1>5. 0 \in Good
  <2>1. f[0] = v0
    BY <1>4 DEF Written
  <2> HIDE DEF v0
  <2>2. \A c \in Places : f[0].in.blocks[c] = 0
    BY <1>2, <2>1 DEF NoBlocks, Places
  <2>3. Laid(st, base, R0, R, i, size, 0, f[0])
    BY <1>2, <2>1, <2>2 DEF Laid
  <2> QED
    BY <1>1, <2>3
<1>6. ASSUME NEW b \in 1 .. NDirect, b - 1 \in Good PROVE b \in Good
  <2>1. b \in Places /\ b \in 0 .. NDirect /\ f[b] = WriteBlock(f[b - 1], b, t, size)
    BY <1>1, <1>4 DEF Written
  <2>2. Laid(st, base, R0, R, i, size, b - 1, f[b - 1])
    BY <1>6
  <2>3. Laid(st, base, R0, R, i, size, b, WriteBlock(f[b - 1], b, t, size))
    BY <1>1, <2>1, <2>2, LaidNext
  <2> QED
    BY <2>1, <2>3
<1>7. Laid(st, base, R0, R, i, size, NDirect, f[NDirect])
  <2>1. \A b \in 0 .. NDirect : b \in Good
    <3> HIDE DEF Good
    <3> QED
      BY <1>1, <1>5, <1>6, Reaches
  <2> QED
    BY <1>1, <2>1
<1> DEFINE at == f[NDirect]
           n == at.in
           s == at.st
           d1 == s.disk
           e == [d1 EXCEPT !.inode[i] = n]
           w == PutInode(s, i, n)
<1>8. /\ s \in CallType /\ Run(s, base, R0, R) /\ n \in InodeType /\ n.type = "arquivo"
      /\ d1.inode[i].blocks = NoBlocks /\ d1.inode[i].type = "arquivo"
      /\ \A c \in Places : n.blocks[c] # 0 =>
           /\ n.blocks[c] \in s.ram.bmap /\ IsText(d1.blk[n.blocks[c]])
           /\ \A j \in R, a \in Places : Ptr(d1, j, a) # n.blocks[c]
      /\ \A a, c \in Places : n.blocks[a] # 0 /\ n.blocks[a] = n.blocks[c] => a = c
  BY <1>7 DEF Laid, Running
<1>9. WriteData(st, i, t, size).st = w
  BY <1>4 DEF Done
<1> HIDE DEF at, n, s, d1, e, w
<1>10. /\ w = Put(s, e) /\ e \in DiskType /\ e.inode = [d1.inode EXCEPT ![i] = n] /\ e.blk = d1.blk
       /\ e.imap = d1.imap /\ e.bmap = d1.bmap /\ CachedPart(e) = CachedPart(d1)
  BY <1>1, <1>8, InodePut DEF e, w, d1
<1>11. /\ d1 \in DiskType /\ Firm(d1, R) /\ Sound(d1, R) /\ Covers(s.ram, d1, R) /\ Covers(d1, d1, R)
       /\ s.ram.bmap \subseteq d1.bmap
  BY <1>8, FirmType DEF Run, Copy, Covers, CachedPart, Lags, Follows, d1
<1>12. e.inode[i] = n /\ \A j \in Inodes \ {i} : e.inode[j] = d1.inode[j]
  BY <1>1, <1>10, <1>11 DEF DiskType
<1>13. Sound(e, R)
  <2>1. \A b \in Places : n.blocks[b] # 0 =>
          /\ n.blocks[b] \in d1.bmap
          /\ \A j \in R, c \in Places : Ptr(d1, j, c) # n.blocks[b]
          /\ \A k \in Slots : d1.blk[n.blocks[b]][k].inode \in {0, TextInode}
    BY <1>8, <1>11 DEF IsText
  <2>2. i \in R /\ n.type = d1.inode[i].type /\ d1.inode[i].blocks = NoBlocks
    BY <1>8
  <2>3. TextGiven(d1, e, R, i, n)
    BY <1>8, <1>10, <1>11, <2>1, <2>2 DEF TextGiven
  <2> QED
    BY <2>3, FillKeeps
<1>14. \A j \in R \ {i} : Alike(d1, e, j)
  BY <1>1, <1>10, <1>12 DEF Alike
<1>15. Firm(e, R)
  <2>1. ASSUME NEW j \in Dirs(e, R) PROVE Holeless(e, j)
    <3>1. j # i /\ j \in R
      BY <1>8, <1>12 DEF Dirs
    <3>2. j \in Dirs(d1, R)
      BY <1>1, <1>12, <3>1 DEF Dirs
    <3> QED
      BY <1>11, <1>14, <3>1, <3>2, HolelessAlike DEF Firm
  <2> QED
    BY <1>13, <2>1 DEF Firm
<1>16. Covers(s.ram, e, R) /\ Covers(d1, e, R)
  <2> SUFFICES ASSUME NEW c, Covers(c, d1, R), s.ram.bmap \subseteq c.bmap
               PROVE  Covers(c, e, R)
    BY <1>11
  <2>1. ASSUME NEW j \in R, NEW b \in Places, Ptr(e, j, b) # 0 PROVE Ptr(e, j, b) \in c.bmap
    <3>1. CASE j = i
      <4>1. Ptr(e, j, b) = n.blocks[b]
        BY <1>12, <3>1 DEF Ptr
      <4> QED
        BY <1>8, <2>1, <4>1
    <3>2. CASE j # i
      <4>1. Ptr(e, j, b) = Ptr(d1, j, b)
        BY <1>1, <1>12, <3>2 DEF Ptr
      <4> QED
        BY <2>1, <4>1 DEF Covers
    <3> QED
      BY <3>1, <3>2
  <2> QED
    BY <2>1 DEF Covers
<1>17. Grows(d1, e, R0)
  <2>1. R0 \subseteq R \ {i} /\ R0 \subseteq Inodes
    BY <1>1
  <2> QED
    BY <1>11, <1>14, <2>1, AlikeGrows
<1> QED
  BY <1>8, <1>9, <1>10, <1>15, <1>16, <1>17, DataRuns DEF d1
-----------------------------------------------------------------------------
(* The calls that create: nothing is written over, removed or formatted,   *)
(* and no file is named as the parent.                                     *)
Creating == Uses \cap {"overwrite", "overdir", "underfile", "unlink", "format"} = {}

LEMMA StartRuns ==
  ASSUME NEW R, Firm(disk, R), Copy(ram, disk, R), Copy(CachedPart(disk), disk, R)
  PROVE  Run(Start, disk, R, R) /\ Start.disk = disk
<1>1. disk \in DiskType /\ ram \in CopyType /\ R \subseteq Inodes
  BY FirmType DEF Copy
<1>2. /\ Start = [disk |-> disk, ram |-> ram, disks |-> <<disk>>] /\ Start.disk = disk /\ Start.ram = ram
      /\ Start.disks = <<disk>>
  BY DEF Start
<1> DEFINE ds == <<disk>>
<1>3. ds \in Seq(DiskType) /\ ds # <<>> /\ Len(ds) = 1 /\ ds[1] = disk /\ DOMAIN ds = {1}
  BY <1>1
<1>4. Grows(disk, disk, R)
  <2>1. \A i \in R : Alike(disk, disk, i)
    BY DEF Alike
  <2> QED
    BY <1>1, <2>1, AlikeGrows
<1>5. CutOff(CachedPart(disk), disk, disk, R)
  BY <1>4 DEF CutOff
<1> HIDE DEF ds
<1>6. Logged(ds, disk, R)
  <2> SUFFICES ASSUME NEW k \in DOMAIN ds, NEW j \in {k - 1, k} \ {0}
               PROVE  CutOff(CachedPart(ds[j]), ds[k], disk, R)
    BY DEF Logged
  <2>1. k = 1 /\ j = 1
    BY <1>3
  <2> QED
    BY <1>3, <1>5, <2>1
<1>7. Start \in CallType
  BY <1>1, <1>2, <1>3 DEF CallType, ds
<1> QED
  BY <1>1, <1>2, <1>3, <1>4, <1>6, <1>7 DEF Run, ds

(* A path that is found leads to a file or a directory.                    *)
LEMMA FoundIs ==
  ASSUME NEW R, Sound(disk, R), NEW path \in Seq(Names), PathFind(disk, path).ok
  PROVE  LET i == PathFind(disk, path).cur
         IN /\ i \in R /\ (IsType(path, "arquivo") \/ IsType(path, "diretorio"))
            /\ ~ IsType(path, "arquivo") => i \in Dirs(disk, R)
<1> DEFINE i == PathFind(disk, path).cur
<1>1. i \in R
  BY PathFindIs DEF At
<1>2. R \subseteq Inodes /\ disk \in DiskType
  BY DEF Sound, DiskType
<1>3. disk.inode[i].type \in Types /\ disk.inode[i].type # "livre"
  BY <1>1, <1>2 DEF Sound, DiskType, InodeType
<1>4. disk.inode[i].type = "arquivo" \/ disk.inode[i].type = "diretorio"
  BY <1>3 DEF Types
<1> QED
  BY <1>1, <1>4 DEF IsType, Dirs

LEMMA ParentFound ==
  ASSUME NEW R, Sound(disk, R), NEW path \in Seq(Names), PathFind(disk, ParentPath(path)).ok,
         Creating, NEW op \in {"write", "mkdir"}, KindsOf(op, path) \subseteq Uses
  PROVE  PathFind(disk, ParentPath(path)).cur \in Dirs(disk, R)
<1>1. ParentPath(path) \in Seq(Names)
  BY PathParts
<1>2. CASE path = <<>>
  <2>1. ParentPath(path) = <<>>
    BY <1>2 DEF ParentPath
  <2>2. PathFind(disk, <<>>) = Top
    <3>1. <<>> \in Seq(Names)
      OBVIOUS
    <3> QED
      BY <3>1, PathFindIs
  <2>3. PathFind(disk, ParentPath(path)).cur = 0
    BY <2>1, <2>2 DEF Top
  <2> QED
    BY <2>3 DEF Sound, Dirs
<1>3. CASE path # <<>>
  <2>1. IsType(ParentPath(path), "arquivo") => "underfile" \in KindsOf(op, path)
    BY <1>3 DEF KindsOf
  <2>2. ~ IsType(ParentPath(path), "arquivo")
    BY <2>1 DEF Creating
  <2> QED
    BY <1>1, <2>2, FoundIs
<1> QED
  BY <1>2, <1>3

LEMMA SpfsWriteRuns ==
  ASSUME NEW R, Run(Start, disk, R, R), NEW path \in Seq(Names), NEW t \in Texts, NEW size \in Nat,
         Creating, KindsOf("write", path) \subseteq Uses
  PROVE  \E Q : Run(SpfsWrite(Start, path, t, size).st, disk, R, Q)
<1> DEFINE r == SpfsWrite(Start, path, t, size)
           i == Min(FreeInodes(Start))
           made == Create(Start, "arquivo", path)
<1>1. Start.disk = disk /\ Sound(disk, R)
  BY FirmType DEF Start, Run
<1>2. ~ PathFind(disk, path).ok
  <2>1. IsType(path, "arquivo") => "overwrite" \in KindsOf("write", path)
    BY DEF KindsOf
  <2>2. IsType(path, "diretorio") => "overdir" \in KindsOf("write", path)
    BY DEF KindsOf
  <2>3. ~ IsType(path, "arquivo") /\ ~ IsType(path, "diretorio")
    BY <2>1, <2>2 DEF Creating
  <2> QED
    BY <1>1, <2>3, FoundIs
<1>3. \/ r = Done(Start, -1)
      \/ /\ size <= Capacity /\ PathFind(disk, ParentPath(path)).ok /\ FreeInodes(Start) # {}
         /\ r = WriteData(made, i, t, size)
  <2>1. size > Capacity \/ size <= Capacity
    BY Sizes_Nat
  <2> QED
    BY <1>1, <1>2, <2>1 DEF SpfsWrite
<1> HIDE DEF r, made, i
<1>4. CASE r = Done(Start, -1)
  BY <1>4 DEF Done, r
<1>5. CASE /\ size <= Capacity /\ PathFind(disk, ParentPath(path)).ok /\ FreeInodes(Start) # {}
           /\ r = WriteData(made, i, t, size)
  <2>1. PathFind(Start.disk, ParentPath(path)).cur \in Dirs(Start.disk, R)
    BY <1>1, <1>5, ParentFound
  <2>2. i \in Inodes /\ i \notin R /\ Run(made, disk, R, R \cup {i}) /\ made.disk.inode[i] = Inode("arquivo")
    <3>1. "arquivo" \in Types /\ "arquivo" # "livre"
      BY DEF Types
    <3> QED
      BY <1>5, <2>1, <3>1, CreateRuns DEF made, i
  <2>3. made.disk.inode[i].blocks = NoBlocks /\ made.disk.inode[i].type = "arquivo"
    BY <2>2, NewInodeIs DEF Types
  <2>4. size \in 0 .. Capacity /\ i \in (R \cup {i}) \ R
    BY <1>5, <2>2, Sizes_Nat
  <2>5. Run(r.st, disk, R, R \cup {i})
    BY <1>5, <2>2, <2>3, <2>4, WriteDataRuns
  <2> QED
    BY <2>5 DEF r
<1> QED
  BY <1>3, <1>4, <1>5

LEMMA SpfsMkdirRuns ==
  ASSUME NEW R, Run(Start, disk, R, R), NEW path \in Seq(Names),
         Creating, KindsOf("mkdir", path) \subseteq Uses
  PROVE  \E Q : Run(SpfsMkdir(Start, path).st, disk, R, Q)
<1> DEFINE r == SpfsMkdir(Start, path)
           i == Min(FreeInodes(Start))
           made == Create(Start, "diretorio", path)
<1>1. Start.disk = disk /\ Sound(disk, R)
  BY FirmType DEF Start, Run
<1>2. \/ r = Done(Start, -1)
      \/ PathFind(disk, ParentPath(path)).ok /\ FreeInodes(Start) # {} /\ r = Done(made, 0)
  BY <1>1 DEF SpfsMkdir
<1> HIDE DEF r, made, i
<1>3. CASE r = Done(Start, -1)
  BY <1>3 DEF Done, r
<1>4. CASE PathFind(disk, ParentPath(path)).ok /\ FreeInodes(Start) # {} /\ r = Done(made, 0)
  <2>1. PathFind(Start.disk, ParentPath(path)).cur \in Dirs(Start.disk, R)
    BY <1>1, <1>4, ParentFound
  <2>2. Run(made, disk, R, R \cup {i})
    <3>1. "diretorio" \in Types /\ "diretorio" # "livre"
      BY DEF Types
    <3> QED
      BY <1>4, <2>1, <3>1, CreateRuns DEF made, i
  <2> QED
    BY <1>4, <2>2 DEF Done, r
<1> QED
  BY <1>2, <1>3, <1>4

(* What power cuts leave.                                                  *)
Survives(R) == Firm(disk, R) /\ Copy(home, disk, R) /\ Copy(ram, disk, R) /\ Copy(CachedPart(disk), disk, R)
CutInv ==
  /\ up \in BOOLEAN /\ tree = TreeOf(disk)
  /\ \E R : Survives(R)
Growing(d, e) == \E R, Q : R \subseteq Q /\ Firm(d, R) /\ Firm(e, Q) /\ Grows(d, e, R)

LEMMA CopySelf ==
  ASSUME NEW d, NEW R, Firm(d, R), Fits(CachedPart(d))
  PROVE  Copy(CachedPart(d), d, R)
<1>1. d \in DiskType /\ Sound(d, R)
  BY FirmType
<1>2. CachedPart(d) \in CopyType
  BY <1>1 DEF DiskType, CopyType, CachedPart
<1>3. Lags(CachedPart(d), d)
  BY FollowsSelf DEF Lags, CachedPart
<1>4. Covers(CachedPart(d), d, R)
  BY <1>1 DEF Covers, Sound, Owned, CachedPart
<1> QED
  BY <1>2, <1>3, <1>4 DEF Copy

LEMMA Init_CutInv == Init => CutInv
<1> SUFFICES ASSUME Init PROVE CutInv
  OBVIOUS
<1> DEFINE R == {0}
<1>1. Whole(disk) /\ home = CachedPart(disk) /\ ram = home /\ up \in BOOLEAN
  BY Init_IndInv DEF IndInv
<1>2. disk.imap = R /\ disk.inode[0].blocks = NoBlocks /\ disk.bmap = {}
      /\ disk.free_blocks = TotalBlocks /\ disk.free_inodes = NInodes - 1
  <2>1. PICK junk \in Junk :
          disk = [free_blocks |-> TotalBlocks, free_inodes |-> NInodes - 1,
                  imap |-> {0}, bmap |-> {}, inode |-> Table(junk),
                  blk |-> [b \in Blocks |-> EmptyBlock]]
    BY DEF Init
  <2>2. disk.inode[0] = Inode("diretorio")
    BY <2>1, TableIs
  <2> QED
    BY <2>1, <2>2, NewInodeIs DEF Types
<1>3. Sound(disk, R)
  BY <1>1, <1>2 DEF Whole
<1>4. Firm(disk, R)
  <2>1. ASSUME NEW i \in Dirs(disk, R) PROVE Holeless(disk, i)
    <3>1. i = 0
      BY DEF Dirs
    <3> QED
      BY <1>2, <3>1, NoBlocksIs DEF Holeless
  <2> QED
    BY <1>3, <2>1 DEF Firm
<1>5. Fits(CachedPart(disk))
  <2>1. Cardinality({}) = 0 /\ Cardinality({0}) = 1 /\ TotalBlocks \in Nat /\ NInodes \in Nat
    BY FS_EmptySet, FS_Singleton, SpaceFSAssumption
  <2> QED
    BY <1>2, <2>1 DEF Fits, FitsIn, CachedPart
<1>6. Copy(CachedPart(disk), disk, R)
  BY <1>4, <1>5, CopySelf
<1>7. Survives(R)
  BY <1>1, <1>4, <1>6 DEF Survives
<1>8. tree = TreeOf(disk)
  BY DEF Init
<1> QED
  BY <1>1, <1>7, <1>8 DEF CutInv

LEMMA CallCuts ==
  ASSUME NEW R, Firm(disk, R), NEW op, NEW path, NEW result, Call(op, path, result),
         NEW Q, Run(result.st, disk, R, Q)
  PROVE  CutInv' /\ Growing(disk, disk')
<1> DEFINE st == result.st
<1>1. CASE Returns(result)
  <2>1. /\ disk' = st.disk /\ tree' = TreeOf(disk') /\ home' = CachedPart(disk') /\ ram' = st.ram /\ up' = TRUE
    BY <1>1 DEF Returns
  <2>2. /\ Firm(disk', Q) /\ Copy(ram', disk', Q) /\ Copy(CachedPart(disk'), disk', Q)
        /\ Grows(disk, disk', R) /\ R \subseteq Q
    BY <2>1 DEF Run
  <2>3. Survives(Q)'
    BY <2>1, <2>2 DEF Survives
  <2> QED
    BY <2>1, <2>2, <2>3 DEF CutInv, Growing
<1>2. CASE PowerFails(result)
  <2>1. PICK i \in DOMAIN st.disks :
          /\ disk' = st.disks[i] /\ tree' = TreeOf(disk')
          /\ \E j \in {i - 1, i} \ {0} : home' = CachedPart(st.disks[j])
    BY <1>2 DEF PowerFails
  <2>2. PICK j \in {i - 1, i} \ {0} : home' = CachedPart(st.disks[j])
    BY <2>1
  <2>3. CutOff(CachedPart(st.disks[j]), st.disks[i], disk, R)
    BY DEF Run, Logged
  <2>4. PICK P : /\ R \subseteq P /\ Firm(disk', P) /\ Copy(home', disk', P)
                 /\ Copy(CachedPart(disk'), disk', P) /\ Grows(disk, disk', R)
    BY <2>1, <2>2, <2>3 DEF CutOff
  <2>5. ram' = home' /\ up' = FALSE
    BY <1>2 DEF PowerFails
  <2>6. Survives(P)'
    BY <2>4, <2>5 DEF Survives
  <2> QED
    BY <2>1, <2>4, <2>5, <2>6 DEF CutInv, Growing
<1> QED
  BY <1>1, <1>2 DEF Call

LEMMA Step_CutInv == Creating /\ CutInv /\ [Next]_vars => CutInv' /\ Growing(disk, disk')
<1> SUFFICES ASSUME Creating, CutInv, [Next]_vars PROVE CutInv' /\ Growing(disk, disk')
  OBVIOUS
<1>1. Paths \subseteq Seq(Names) /\ Sizes \subseteq Nat
  BY SpaceFSAssumption
<1>2. PICK R : Survives(R)
  BY DEF CutInv
<1>3. Firm(disk, R) /\ Run(Start, disk, R, R)
  BY <1>2, StartRuns DEF Survives
<1>4. ASSUME NEW path \in Paths, NEW t \in Texts, NEW size \in Sizes, Write(path, t, size)
      PROVE  CutInv' /\ Growing(disk, disk')
  <2> DEFINE r == SpfsWrite(Start, path, t, size)
  <2>1. Call("write", path, r) /\ KindsOf("write", path) \subseteq Uses
    BY <1>4 DEF Write, Call
  <2>2. path \in Seq(Names) /\ size \in Nat
    BY <1>1
  <2>3. \E Q : Run(r.st, disk, R, Q)
    BY <1>3, <2>1, <2>2, SpfsWriteRuns
  <2> HIDE DEF r
  <2> QED
    BY <1>3, <2>1, <2>3, CallCuts
<1>5. ASSUME NEW path \in Paths, Mkdir(path) PROVE CutInv' /\ Growing(disk, disk')
  <2> DEFINE r == SpfsMkdir(Start, path)
  <2>1. Call("mkdir", path, r) /\ KindsOf("mkdir", path) \subseteq Uses
    BY <1>5 DEF Mkdir, Call
  <2>2. path \in Seq(Names)
    BY <1>1
  <2>3. \E Q : Run(r.st, disk, R, Q)
    BY <1>3, <2>1, <2>2, SpfsMkdirRuns
  <2> HIDE DEF r
  <2> QED
    BY <1>3, <2>1, <2>3, CallCuts
<1>6. ASSUME NEW path \in Paths, Unlink(path) PROVE FALSE
  <2>1. KindsOf("unlink", path) \subseteq Uses
    BY <1>6 DEF Unlink, Call
  <2> QED
    BY <2>1 DEF KindsOf, Creating
<1>7. ASSUME NEW junk \in Junk, Format(junk) PROVE FALSE
  <2>1. KindsOf("format", <<>>) \subseteq Uses
    BY <1>7 DEF Format, Call
  <2> QED
    BY <2>1 DEF KindsOf, Creating
<1>8. Growing(disk, disk)
  <2>1. disk \in DiskType /\ R \subseteq Inodes
    BY <1>3, FirmType
  <2>2. \A i \in R : Alike(disk, disk, i)
    BY DEF Alike
  <2>3. Grows(disk, disk, R)
    BY <2>1, <2>2, AlikeGrows
  <2> QED
    BY <1>3, <2>3 DEF Growing
<1>9. CASE Mount
  <2>1. disk' = disk /\ tree' = tree /\ ram' = home /\ home' = CachedPart(disk) /\ up' = TRUE
    BY <1>9 DEF Mount
  <2>2. Survives(R)'
    BY <1>2, <2>1 DEF Survives
  <2> QED
    BY <1>8, <2>1, <2>2 DEF CutInv
<1>10. CASE UNCHANGED vars
  <2>1. disk' = disk /\ tree' = tree /\ ram' = ram /\ home' = home /\ up' = up
    BY <1>10 DEF vars
  <2>2. Survives(R)'
    BY <1>2, <2>1 DEF Survives
  <2> QED
    BY <1>8, <2>1, <2>2 DEF CutInv
<1> QED
  BY <1>4, <1>5, <1>6, <1>7, <1>9, <1>10 DEF Next

(* The first entry with a name stays the first one with that name.         *)
LEMMA NamedStays ==
  ASSUME NEW d, NEW R, Firm(d, R), NEW e, NEW Q, Firm(e, Q), R \subseteq Q, Grows(d, e, R),
         NEW i \in Dirs(d, R), NEW x, Named(d, i, x) # {}
  PROVE  /\ Named(e, i, x) # {}
         /\ Piece(e, i, Min(Named(e, i, x))).inode = Piece(d, i, Min(Named(d, i, x))).inode
<1> DEFINE D == Named(d, i, x)
           E == Named(e, i, x)
           m == Min(D)
           b == BlockOf(m)
           l == PlaceOf(m)
<1>1. /\ d \in DiskType /\ e \in DiskType /\ i \in R /\ i \in Inodes /\ R \subseteq Inodes
      /\ d.inode[i].type = "diretorio"
  BY FirmType DEF Dirs
<1>2. e.inode[i].type = "diretorio" /\ d.inode[i].size <= e.inode[i].size /\ EntriesStay(d, e, i)
  BY <1>1 DEF Grows
<1>3. Holeless(d, i) /\ Holeless(e, i)
  BY <1>1, <1>2 DEF Firm, Dirs
<1>4. d.inode[i].size \in Nat /\ e.inode[i].size \in Nat
  BY <1>1, Sizes_Nat DEF DiskType, InodeType
<1>5. 1 \in Slots
  BY Sizes_Nat DEF Slots
<1>6. D \subseteq 1 .. Capacity /\ E \subseteq 1 .. Capacity
  BY DEF Named, Present
<1>7. ASSUME NEW f, Holeless(f, i), NEW k \in 1 .. Capacity
      PROVE  k \in Named(f, i, x) <=>
               /\ Taken(f, i, BlockOf(k), PlaceOf(k)) /\ NameAt(f, i, BlockOf(k), PlaceOf(k)) = x
               /\ k <= f.inode[i].size
  <2>1. BlockOf(k) \in Places /\ PlaceOf(k) \in Slots
    BY PlaceIs
  <2>2. k \in Present(f, i) <=> \A c \in 1 .. BlockOf(k) : Ptr(f, i, c) # 0
    BY PresentIs
  <2>3. BlockOf(k) \in 1 .. BlockOf(k)
    BY <2>1, Sizes_Nat DEF Places
  <2>4. ASSUME Taken(f, i, BlockOf(k), PlaceOf(k)), NEW c \in 1 .. BlockOf(k) PROVE Ptr(f, i, c) # 0
    <3>1. c = BlockOf(k) \/ c \in 1 .. BlockOf(k) - 1
      BY <2>1, Sizes_Nat DEF Places
    <3>2. \A a \in 1 .. BlockOf(k) - 1 : Taken(f, i, a, 1)
      BY <1>5, <1>7, <2>1, <2>4 DEF Holeless
    <3> QED
      BY <2>4, <3>1, <3>2 DEF Taken
  <2>5. k \in Named(f, i, x) <=> k \in Present(f, i) /\ k <= f.inode[i].size
                                 /\ NameAt(f, i, BlockOf(k), PlaceOf(k)) = x /\ EntryAt(f, i, BlockOf(k), PlaceOf(k)) # 0
    BY DEF Named, Piece, NameAt, EntryAt, Ptr
  <2> QED
    BY <2>2, <2>3, <2>4, <2>5 DEF Taken
<1>8. m \in D /\ m \in 1 .. Capacity /\ \A k \in D : m <= k
  <2>1. D \subseteq Nat
    BY <1>6, Sizes_Nat
  <2> QED
    BY <1>6, <2>1, MinIs
<1> HIDE DEF m
<1>9. b \in Places /\ l \in Slots
  BY <1>8, PlaceIs
<1>10. Taken(d, i, b, l) /\ NameAt(d, i, b, l) = x /\ m <= d.inode[i].size
  BY <1>3, <1>7, <1>8
<1>11. Taken(e, i, b, l) /\ NameAt(e, i, b, l) = x /\ EntryAt(e, i, b, l) = EntryAt(d, i, b, l)
  BY <1>2, <1>9, <1>10 DEF EntriesStay
<1>12. m <= e.inode[i].size
  BY <1>2, <1>4, <1>8, <1>10
<1>13. m \in E
  BY <1>3, <1>7, <1>8, <1>11, <1>12
<1>14. ASSUME NEW k \in E, k < m PROVE k \in D
  <2> DEFINE c == BlockOf(k)
             a == PlaceOf(k)
  <2>1. k \in 1 .. Capacity /\ c \in Places /\ a \in Slots
    BY <1>6, PlaceIs
  <2>2. c \in 1 .. b
    BY <1>8, <1>14, <2>1, BlockGrows
  <2>3. Taken(e, i, c, a) /\ NameAt(e, i, c, a) = x
    BY <1>3, <1>7, <2>1
  <2>4. Number(c, a) = k /\ Number(b, l) = m
    BY <1>8, <2>1, NumberIs
  <2> HIDE DEF c, a, b, l
  <2>5. Taken(d, i, c, a)
    <3>1. CASE c = b
      <4>1. (b - 1) * PerBlk \in Int
        BY <1>9, Sizes_Nat DEF Places
      <4>2. a \in 1 .. l - 1
        BY <1>9, <1>14, <2>1, <2>4, <3>1, <4>1, Sizes_Nat DEF Number, Slots
      <4> QED
        BY <1>3, <1>9, <1>10, <3>1, <4>2 DEF Holeless
    <3>2. CASE c # b
      <4>1. c \in 1 .. b - 1
        BY <1>9, <2>2, <3>2, Sizes_Nat DEF Places
      <4> QED
        BY <1>3, <1>9, <1>10, <2>1, <4>1 DEF Holeless
    <3> QED
      BY <3>1, <3>2
  <2>6. NameAt(d, i, c, a) = x
    BY <1>2, <2>1, <2>3, <2>5 DEF EntriesStay
  <2>7. k <= d.inode[i].size
    BY <1>4, <1>8, <1>10, <1>14, <2>1
  <2> QED
    BY <1>3, <1>7, <2>1, <2>5, <2>6, <2>7 DEF c, a
<1>15. Min(E) = m
  <2>1. E \subseteq Nat /\ E # {}
    BY <1>6, <1>13, Sizes_Nat
  <2> HIDE DEF D, E
  <2>2. Min(E) \in E /\ Min(E) <= m /\ Min(E) \in Nat
    BY <1>13, <2>1, MinIs
  <2>3. ~ Min(E) < m
    BY <1>6, <1>8, <1>14, <2>1, <2>2
  <2> QED
    BY <1>8, <2>2, <2>3
<1>16. Piece(e, i, m).inode = Piece(d, i, m).inode
  BY <1>11 DEF Piece, EntryAt, Ptr
<1> QED
  BY <1>13, <1>15, <1>16 DEF m

(* A path that leads to an inode goes on leading to it.                    *)
LEMMA PathStays ==
  ASSUME NEW d, NEW R, Firm(d, R), NEW e, NEW Q, Firm(e, Q), R \subseteq Q, Grows(d, e, R)
  PROVE  \A p \in Seq(Names) : \A j : Leads(d, p, j) => j \in R /\ Leads(e, p, j)
<1> DEFINE Good == {p \in Seq(Names) : \A j : Leads(d, p, j) => j \in R /\ Leads(e, p, j)}
<1>1. Sound(d, R) /\ Sound(e, Q) /\ 0 \in R
  BY FirmType
<1>2. <<>> \in Good
  <2>1. <<>> \in Seq(Names)
    OBVIOUS
  <2>2. \A j : (Leads(d, <<>>, j) <=> j = 0) /\ (Leads(e, <<>>, j) <=> j = 0)
    BY <1>1, LeadsRoot
  <2> QED
    BY <1>1, <2>1, <2>2
<1>3. ASSUME NEW p \in Seq(Names), p # <<>>, Front(p) \in Good PROVE p \in Good
  <2> SUFFICES ASSUME NEW j, Leads(d, p, j) PROVE j \in R /\ Leads(e, p, j)
    OBVIOUS
  <2> DEFINE at == PathFind(d, Front(p))
             to == PathFind(e, Front(p))
             i == at.cur
             x == Last(p)
  <2>1. PathFind(d, p) = Descend(d, at, x) /\ PathFind(e, p) = Descend(e, to, x)
    BY <1>1, <1>3, PathStep
  <2>2. PathFind(d, p) \in At(R)
    BY <1>1, PathFindIs
  <2>3. j \in R /\ Descend(d, at, x).ok /\ Descend(d, at, x).cur = j
    BY <2>1, <2>2 DEF Leads, At
  <2>4. at \in At(R)
    BY <1>1, <1>3, FrontIs, PathFindIs
  <2> HIDE DEF at, to
  <2>5. /\ at.ok /\ d.inode[i].type = "diretorio" /\ Named(d, i, x) # {}
        /\ j = Piece(d, i, Min(Named(d, i, x))).inode
    BY <2>3, <2>4 DEF Descend, At
  <2>6. i \in Dirs(d, R) /\ i \in R
    BY <2>4, <2>5 DEF Dirs, At
  <2>7. to.ok /\ to.cur = i
    BY <1>3, <2>5 DEF Leads, at, to
  <2>8. e.inode[i].type = "diretorio"
    BY <2>5, <2>6 DEF Grows
  <2>9. Named(e, i, x) # {} /\ Piece(e, i, Min(Named(e, i, x))).inode = j
    BY <2>5, <2>6, NamedStays
  <2>10. Descend(e, to, x) = [ok |-> TRUE, parent |-> i, cur |-> j]
    BY <2>7, <2>8, <2>9 DEF Descend
  <2> QED
    BY <2>1, <2>3, <2>10 DEF Leads
<1>4. Seq(Names) \subseteq Good
  <2> HIDE DEF Good
  <2> QED
    BY <1>2, <1>3, PathInduct
<1> QED
  BY <1>4

LEMMA FileStays ==
  ASSUME Growing(disk, disk'), tree = TreeOf(disk), tree' = TreeOf(disk'),
         NEW p \in Paths, tree[p].kind = "arquivo"
  PROVE  tree'[p] = tree[p]
<1>1. PICK R, Q : R \subseteq Q /\ Firm(disk, R) /\ Firm(disk', Q) /\ Grows(disk, disk', R)
  BY DEF Growing
<1>2. p \in Seq(Names)
  BY SpaceFSAssumption
<1>3. tree[p] = Node(disk, p) /\ tree'[p] = Node(disk', p)
  BY TreeIs
<1> DEFINE j == PathFind(disk, p).cur
<1>4. Leads(disk, p, j)
  <2>1. ASSUME ~ PathFind(disk, p).ok PROVE FALSE
    BY <1>3, <2>1, NodeIs DEF Leads
  <2> QED
    BY <2>1 DEF Leads
<1> HIDE DEF j
<1>5. j \in R /\ Leads(disk', p, j)
  BY <1>1, <1>2, <1>4, PathStays
<1>6. Node(disk, p) = NodeOf(disk, j) /\ Node(disk', p) = NodeOf(disk', j)
  BY <1>4, <1>5, NodeIs
<1>7. disk.inode[j].type = "arquivo"
  BY <1>3, <1>6 DEF NodeOf
<1>8. disk \in DiskType /\ disk' \in DiskType /\ j \in Inodes
  BY <1>1, <1>5, FirmType
<1>9. disk'.inode[j].type = disk.inode[j].type /\ Alike(disk, disk', j)
  BY <1>1, <1>5, <1>7 DEF Grows
<1> QED
  BY <1>3, <1>6, <1>8, <1>9, NodeAlike

LEMMA CopyFits ==
  ASSUME NEW c, NEW d, NEW R, Copy(c, d, R)
  PROVE  /\ c.free_blocks \in 0 .. TotalBlocks /\ c.free_inodes \in 0 .. NInodes
         /\ c.imap \in SUBSET Inodes /\ c.bmap \in SUBSET Blocks /\ c = CachedPart(c)
<1>1. c \in CopyType /\ Fits(c)
  BY DEF Copy
<1>2. c.imap \in SUBSET Inodes /\ c.bmap \in SUBSET Blocks /\ c = CachedPart(c)
  BY <1>1 DEF CopyType, CachedPart
<1>3. Cardinality(c.bmap) \in 0 .. NBlocks /\ Cardinality(c.imap) \in 0 .. NInodes
  BY <1>2, BlocksFinite, InodesFinite
<1>4. NBlocks \in Nat /\ TotalBlocks \in Nat /\ NBlocks <= TotalBlocks /\ NInodes \in Nat
  BY SpaceFSAssumption
<1>5. c.free_blocks \in TotalBlocks - Cardinality(c.bmap) .. TotalBlocks
      /\ c.free_inodes \in NInodes - Cardinality(c.imap) .. NInodes
  BY <1>1 DEF Fits, FitsIn
<1> QED
  BY <1>2, <1>3, <1>4, <1>5

LEMMA CopyIsCached ==
  ASSUME NEW c, NEW d, NEW R, Copy(c, d, R)
  PROVE  c \in Cached
BY CopyFits DEF Cached, CachedPart

LEMMA CutInvShows == CutInv => DiskSound
<1> SUFFICES ASSUME CutInv PROVE DiskSound
  OBVIOUS
<1>1. PICK R : Survives(R)
  BY DEF CutInv
<1>2. disk \in DiskType /\ Sound(disk, R)
  BY <1>1, FirmType DEF Survives
<1>3. home \in Cached /\ ram \in Cached /\ CachedPart(disk) \in Cached
  BY <1>1, CopyIsCached DEF Survives
<1>4. TypeOK
  BY <1>2, <1>3 DEF TypeOK, DiskType, CutInv
<1> QED
  BY <1>2, <1>4, SoundShows DEF DiskSound

(* While nothing is removed, overwritten or formatted, the power may fail  *)
(* after any sector write of spfs_write() and spfs_mkdir(), with its copy  *)
(* in the log or at home already, and spfs_mount() may read super block    *)
(* and bitmaps that are behind the disk: no block belongs to two inodes,   *)
(* none in use is marked as free, and no entry leads to an inode that was  *)
(* not written (alloc_inode(), alloc_block(), inode_write(),               *)
(* dir_add_entry()).                                                       *)
THEOREM CutsLeaveDiskSound == Creating => (Spec => []DiskSound)
<1> SUFFICES ASSUME Creating PROVE Spec => []DiskSound
  OBVIOUS
<1>1. Init => CutInv
  BY Init_CutInv
<1>2. CutInv /\ [Next]_vars => CutInv'
  BY Step_CutInv
<1>3. CutInv => DiskSound
  BY CutInvShows
<1> QED
  BY <1>1, <1>2, <1>3, PTL DEF Spec

(* Under the same power cuts, every file that a path leads to stays there  *)
(* with its text: what a call makes goes to inodes and blocks of its own,  *)
(* and its entry behind those that are there (dir_add_entry(),             *)
(* spfs_write()).                                                          *)
THEOREM CutsLeaveFiles == Creating => (Spec => FilesStay)
<1> SUFFICES ASSUME Creating PROVE Spec => FilesStay
  OBVIOUS
<1> DEFINE Stays == \A p \in Paths : tree[p].kind = "arquivo" => tree'[p] = tree[p]
<1>1. Init => CutInv
  BY Init_CutInv
<1>2. CutInv /\ [Next]_vars => CutInv'
  BY Step_CutInv
<1>3. CutInv /\ [Next]_vars => [Stays]_vars
  <2> SUFFICES ASSUME CutInv, [Next]_vars PROVE Stays
    OBVIOUS
  <2>1. CutInv' /\ Growing(disk, disk')
    BY Step_CutInv
  <2>2. tree = TreeOf(disk) /\ tree' = TreeOf(disk')
    BY <2>1 DEF CutInv
  <2> QED
    BY <2>1, <2>2, FileStays
<1>4. (Spec => [][Stays]_vars)
  BY <1>1, <1>2, <1>3, PTL DEF Spec
<1> QED
  BY <1>4 DEF FilesStay
=============================================================================
