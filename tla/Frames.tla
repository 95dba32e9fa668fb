------------------------------- MODULE Frames -------------------------------
(***************************************************************************)
(* The page frames (mem/pmm.c), a bitmap with a counter beside it, and the *)
(* slab caches over them (mem/slab.c), whose free objects are chained      *)
(* through their own first words.  Callers hold frames and objects, write  *)
(* into the objects, and give back what they hold.                         *)
(***************************************************************************)
EXTENDS Integers, Sequences, FiniteSets

CONSTANTS
  Total,      \* total_paginas
  PageSize,   \* bytes of a frame
  Low,        \* the first MB
  KernelEnd,  \* _end
  Maps,       \* memory maps of the boot loader: sets of available regions
  Caches,     \* cache_32 .. cache_256
  Objects     \* objs_por_slab of each

ASSUME FramesAssumption ==
  /\ Total \in Nat /\ PageSize \in Nat \ {0} /\ Low \in Nat /\ KernelEnd \in Nat
  /\ KernelEnd >= Low
  /\ Objects \in [Caches -> Nat \ {0}]

AllFrames == 0 .. Total - 1
Null == 0

VARIABLES
  bitmap,         \* frames that are marked as used
  paginas_livres,
  boot,           \* the frames pmm_init() left free, for the properties
  loose,          \* frames that callers hold
  lists,          \* slab_lista of each cache, newest slab first
  slab,           \* livre_count, free_list and the words of each slab
  live            \* objects that callers hold: frame and slot

frameVars == <<bitmap, paginas_livres, boot, loose, lists, slab, live>>
-----------------------------------------------------------------------------
(* pmm_init(): whole frames of the regions are free, then the first MB and *)
(* the kernel, with a frame to spare, are taken back.                      *)
Whole(region) ==
  {i \in AllFrames : i >= region.base \div PageSize
                     /\ i < (region.base + region.length) \div PageSize}

Touched(base, length) ==
  {i \in AllFrames : i >= base \div PageSize
                     /\ i < (base + length + PageSize - 1) \div PageSize}

FreeAtBoot(map) ==
  UNION {Whole(region) : region \in map}
    \ (Touched(0, Low) \cup Touched(Low, KernelEnd - Low + PageSize))

FramesInit ==
  /\ boot \in {FreeAtBoot(map) : map \in Maps}
  /\ bitmap = AllFrames \ boot
  /\ paginas_livres = Cardinality(boot)
  /\ loose = {}
  /\ lists = [c \in Caches |-> <<>>]
  /\ slab = [f \in {} |-> 0]
  /\ live = {}

(* pmm_alloc(): the lowest frame that is not marked.                       *)
Free == AllFrames \ bitmap
Lowest(S) == CHOOSE f \in S : \A g \in S : f <= g

TakeFrameUnmarked(f) ==
  /\ bitmap' = bitmap
  /\ paginas_livres' = paginas_livres - 1

TakeFrame(f) ==
  /\ bitmap' = bitmap \cup {f}
  /\ paginas_livres' = paginas_livres - 1

PmmAlloc ==
  /\ Free # {}
  /\ TakeFrame(Lowest(Free))
  /\ loose' = loose \cup {Lowest(Free)}
  /\ UNCHANGED <<boot, lists, slab, live>>

PmmFree(f) ==
  /\ bitmap' = bitmap \ {f}
  /\ paginas_livres' = IF f \in bitmap THEN paginas_livres + 1 ELSE paginas_livres
  /\ loose' = loose \ {f}
  /\ UNCHANGED <<boot, lists, slab, live>>
-----------------------------------------------------------------------------
(* slab_novo(): every slot points to the next one.                         *)
NewSlab(c) ==
  [livre_count |-> Objects[c], free_list |-> 1,
   word |-> [i \in 1 .. Objects[c] |-> IF i = Objects[c] THEN Null ELSE i + 1]]

(* slab_alloc(): the first slab of the list that has an object left, or a  *)
(* new one in front of it.                                                 *)
WithRoomAtHead(c) == {k \in DOMAIN lists[c] : k = 1 /\ slab[lists[c][k]].livre_count # 0}
WithRoom(c) == {k \in DOMAIN lists[c] : slab[lists[c][k]].livre_count # 0}
FirstWithRoom(c) == lists[c][Lowest(WithRoom(c))]

Junk == -1   \* what a caller writes into its object

Pop(s) == [livre_count |-> s.livre_count - 1, free_list |-> s.word[s.free_list],
           word |-> [s.word EXCEPT ![s.free_list] = Junk]]

SlabAlloc(c) ==
  /\ WithRoom(c) # {}
  /\ LET f == FirstWithRoom(c) IN
       /\ slab' = [slab EXCEPT ![f] = Pop(@)]
       /\ live' = live \cup {<<f, slab[f].free_list>>}
  /\ UNCHANGED <<bitmap, paginas_livres, boot, loose, lists>>

SlabGrows(c) ==
  /\ WithRoom(c) = {} /\ Free # {}
  /\ LET f == Lowest(Free) IN
       /\ TakeFrame(f)
       /\ lists' = [lists EXCEPT ![c] = <<f>> \o @]
       /\ slab' = [g \in DOMAIN slab \cup {f} |->
                     IF g = f THEN Pop(NewSlab(c)) ELSE slab[g]]
       /\ live' = live \cup {<<f, 1>>}
  /\ UNCHANGED <<boot, loose>>

(* slab_free(): the slab is that of the frame the object lies in.          *)
PushUnlinked(s, i) == [s EXCEPT !.livre_count = @ + 1, !.free_list = i]

Push(s, i) == [livre_count |-> s.livre_count + 1, free_list |-> i,
               word |-> [s.word EXCEPT ![i] = s.free_list]]

SlabFree(f, i) ==
  /\ slab' = [slab EXCEPT ![f] = Push(@, i)]
  /\ live' = live \ {<<f, i>>}
  /\ UNCHANGED <<bitmap, paginas_livres, boot, loose, lists>>

FramesNext ==
  \/ PmmAlloc
  \/ \E f \in loose : PmmFree(f)
  \/ \E c \in Caches : SlabAlloc(c) \/ SlabGrows(c)
  \/ \E o \in live : SlabFree(o[1], o[2])

FramesSpec == FramesInit /\ [][FramesNext]_frameVars
-----------------------------------------------------------------------------
FramesTypeOK ==
  /\ bitmap \subseteq AllFrames /\ boot \subseteq AllFrames /\ loose \subseteq AllFrames
  /\ paginas_livres \in 0 .. Total
  /\ lists \in [Caches -> Seq(AllFrames)]
  /\ DOMAIN slab \subseteq AllFrames
  /\ live \subseteq AllFrames \X Nat

SlabsOf(c) == {lists[c][k] : k \in DOMAIN lists[c]}

(* Every frame that is in use has one owner, a caller or one cache, the    *)
(* bitmap marks exactly those and the ones that were never free, and       *)
(* paginas_livres, which is kept apart from it, counts the rest.           *)
FramesOwned ==
  /\ bitmap = (AllFrames \ boot) \cup loose \cup DOMAIN slab
  /\ loose \cap DOMAIN slab = {} /\ loose \cup DOMAIN slab \subseteq boot
  /\ DOMAIN slab = UNION {SlabsOf(c) : c \in Caches}
  /\ \A c, d \in Caches : c # d => SlabsOf(c) \cap SlabsOf(d) = {}
  /\ paginas_livres = Cardinality(Free)

(* The chain through the words of a slab.                                  *)
Chain(s) ==
  LET at[n \in 0 .. Len(s.word)] ==
        IF n = 0 THEN s.free_list
        ELSE IF at[n - 1] \in DOMAIN s.word THEN s.word[at[n - 1]] ELSE at[n - 1]
  IN  at

(* In whatever order the objects come back, and whatever their holders     *)
(* wrote into them, the chain of a slab has livre_count objects and ends   *)
(* there, and they are the ones that nobody holds.                         *)
ChainIsFree ==
  \A f \in DOMAIN slab :
    LET s == slab[f] IN
      /\ {Chain(s)[n] : n \in 0 .. s.livre_count - 1}
           = {i \in DOMAIN s.word : <<f, i>> \notin live}
      /\ Cardinality({i \in DOMAIN s.word : <<f, i>> \notin live}) = s.livre_count
      /\ Chain(s)[s.livre_count] = Null

(* No cache takes a frame while one of its slabs has an object left, so it *)
(* never has more slabs than it once needed for what it held.              *)
GrowsWhenFull ==
  [][\A c \in Caches :
       lists'[c] # lists[c] => \A f \in SlabsOf(c) :
         \A i \in DOMAIN slab[f].word : <<f, i>> \in live]_frameVars

(* What holds of the slabs in every state.                                 *)
SlabsSound == FramesTypeOK /\ ChainIsFree
=============================================================================
