---------------------------- MODULE MemoryProofs ----------------------------
(***************************************************************************)
(* Theorems about the heap, for an arena and requests of any size, and     *)
(* about the page frames and the slabs, for a machine and a memory map of  *)
(* any size, and caches of any kind.                                       *)
(***************************************************************************)
EXTENDS Memory, FiniteSetTheorems, WellFoundedInduction, TLAPS

(* A non-empty set of natural numbers has a least element.                 *)
LEMMA NatMinimum ==
  ASSUME NEW S, S \subseteq Nat, S # {}
  PROVE  \E m \in S : \A n \in S : m <= n
<1>1. IsWellFoundedOn(OpToRel(<, Nat), Nat)
  BY NatLessThanWellFounded
<1>2. PICK m \in S : \A n \in S : ~ (<<n, m>> \in OpToRel(<, Nat))
  BY <1>1, WFMin
<1>3. \A n \in S : ~ (n < m)
  BY <1>2 DEF OpToRel
<1> QED
  BY <1>3
-----------------------------------------------------------------------------
(***************************************************************************)
(* The heap.                                                               *)
(***************************************************************************)
(* Rounding gives a size, and one that is not smaller unless it passes     *)
(* 2^32.                                                                   *)
LEMMA RoundedIs ==
  ASSUME NEW n \in Requests
  PROVE  /\ Rounded(n) \in Nat
         /\ n + Grain <= Word => Rounded(n) >= n
<1> DEFINE up == (n + Grain - 1) % Word
<1>1. n \in Nat \ {0} /\ Grain \in Nat \ {0} /\ Word \in Nat \ {0}
  BY KheapAssumption
<1>2. up \in Nat /\ (n + Grain <= Word => up = n + Grain - 1)
  BY <1>1
<1>3. Rounded(n) = up - (up % Grain)
  BY DEF Rounded
<1> HIDE DEF up
<1>4. up % Grain \in 0 .. Grain - 1
  BY <1>1, <1>2
<1>5. up % Grain <= up
  BY <1>1, <1>2
<1> QED
  BY <1>1, <1>2, <1>3, <1>4, <1>5

(* The list: addresses are numbers below the end of the arena, and what    *)
(* follows a block in the list is what follows it in memory.               *)
LEMMA ListIs ==
  ASSUME KheapTypeOK, Tiles, Apart
  PROVE  /\ HeapSize \in Nat /\ Header \in Nat \ {0}
         /\ \A a \in Headers :
              /\ a \in Nat /\ heap[a].tamanho \in Nat /\ heap[a].livre \in BOOLEAN
              /\ heap[a].proximo = a + Header + heap[a].tamanho
              /\ heap[a].proximo \in Nat /\ heap[a].proximo <= HeapSize
              /\ a < heap[a].proximo
              /\ heap[a].proximo # HeapSize => heap[a].proximo \in Headers
         /\ \A a, b \in Headers : a < b => heap[a].proximo <= b
         /\ op.at \in Headers /\ op.size \in Nat
<1>1. HeapSize \in Nat /\ Header \in Nat \ {0}
  BY KheapAssumption
<1>2. ASSUME NEW a \in Headers
      PROVE  a \in 0 .. HeapSize /\ heap[a] \in Block
  BY <1>2 DEF KheapTypeOK
<1>3. ASSUME NEW a \in Headers
      PROVE  /\ a \in Nat /\ heap[a].tamanho \in Nat /\ heap[a].livre \in BOOLEAN
             /\ heap[a].proximo = a + Header + heap[a].tamanho
             /\ heap[a].proximo \in Nat /\ heap[a].proximo <= HeapSize
             /\ a < heap[a].proximo
             /\ heap[a].proximo # HeapSize => heap[a].proximo \in Headers
  <2>1. a \in Nat /\ heap[a].tamanho \in Nat /\ heap[a].livre \in BOOLEAN
    BY <1>1, <1>2, <1>3 DEF Block
  <2>2. heap[a].proximo = a + Header + heap[a].tamanho /\ heap[a].proximo \in Headers \cup {HeapSize}
    BY <1>3 DEF Tiles
  <2>3. heap[a].proximo \in 0 .. HeapSize
    BY <1>1, <1>2, <2>2
  <2> QED
    BY <1>1, <2>1, <2>2, <2>3
<1>4. \A a, b \in Headers : a < b => heap[a].proximo <= b
  BY <1>3 DEF Apart
<1>5. op.at \in Headers /\ op.size \in Nat
  BY DEF KheapTypeOK
<1> QED
  BY <1>1, <1>3, <1>4, <1>5

(* The block at the walk is the last, or the walk goes on to a block and   *)
(* passes no other.                                                        *)
LEMMA NextIs ==
  ASSUME KheapTypeOK, Tiles, Apart
  PROVE  /\ \A a \in Headers : a < op.at \/ a = op.at \/ At.proximo <= a
         /\ IsLast => \A a \in Headers : a <= op.at
         /\ ~ IsLast => At.proximo \in Headers /\ op.at < At.proximo
         /\ HeapSize \notin Headers
<1>1. \A a \in Headers : a < op.at \/ a = op.at \/ At.proximo <= a
  BY ListIs DEF At
<1>2. HeapSize \notin Headers
  BY ListIs
<1>3. IsLast => \A a \in Headers : a <= op.at
  BY <1>1, ListIs DEF At, IsLast
<1>4. ~ IsLast => At.proximo \in Headers /\ op.at < At.proximo
  BY ListIs DEF At, IsLast
<1> QED
  BY <1>1, <1>2, <1>3, <1>4

(* A step that leaves the blocks and their owners alone.                   *)
LEMMA SameBlocks ==
  ASSUME HeapInv, UNCHANGED <<heap, held>>,
         op' \in [call : {"none", "kmalloc", "kfree"}, at : Headers, size : Nat, asked : Nat],
         Coalesced', FirstFit', LooksForAsked'
  PROVE  HeapInv'
<1>1. KheapTypeOK' /\ Tiles' /\ Apart' /\ HeldIsUsed'
  BY DEF HeapInv, KheapTypeOK, Tiles, Apart, HeldIsUsed, Headers
<1> QED
  BY <1>1 DEF HeapInv

-----------------------------------------------------------------------------
(* The walks: nothing but op changes.                                      *)
LEMMA KmallocStartKeeps ==
  ASSUME HeapInv, NEW n \in Requests, KmallocStart(n)
  PROVE  HeapInv'
<1>1. op' = [call |-> "kmalloc", at |-> 0, size |-> Rounded(n), asked |-> n]
      /\ Calling("none") /\ UNCHANGED <<heap, held>>
  BY DEF KmallocStart
<1>2. op' \in [call : {"none", "kmalloc", "kfree"}, at : Headers, size : Nat, asked : Nat]
  <2>1. n \in Nat /\ Rounded(n) \in Nat
    BY KheapAssumption, RoundedIs
  <2> QED
    BY <1>1, <2>1 DEF HeapInv, KheapTypeOK
<1>3. Coalesced'
  BY <1>1 DEF HeapInv, Coalesced, Joined, Calling, Headers
<1>4. FirstFit'
  <2>1. \A a \in Headers : ~ (a < 0)
    BY ListIs DEF HeapInv
  <2> QED
    BY <1>1, <2>1 DEF FirstFit, Headers
<1>5. LooksForAsked'
  <2>1. Rounded(n)' = Rounded(n)
    BY DEF Rounded
  <2> QED
    BY <1>1, <2>1 DEF LooksForAsked, Rounded
<1> QED
  BY <1>1, <1>2, <1>3, <1>4, <1>5, SameBlocks

LEMMA KmallocNextKeeps ==
  ASSUME HeapInv, KmallocNext
  PROVE  HeapInv'
<1>1. /\ Calling("kmalloc") /\ ~ Fits(op.at, op.size) /\ ~ IsLast
      /\ op' = [op EXCEPT !.at = At.proximo] /\ UNCHANGED <<heap, held>>
  BY DEF KmallocNext
<1>2. /\ op \in [call : {"none", "kmalloc", "kfree"}, at : Headers, size : Nat, asked : Nat]
      /\ At.proximo \in Headers
      /\ \A a \in Headers : a < op.at \/ a = op.at \/ At.proximo <= a
  BY <1>1, NextIs DEF HeapInv, KheapTypeOK
<1>3. /\ op' \in [call : {"none", "kmalloc", "kfree"}, at : Headers, size : Nat, asked : Nat]
      /\ op'.call = op.call /\ op'.size = op.size /\ op'.asked = op.asked /\ op'.at = At.proximo
  BY <1>1, <1>2
<1>4. Coalesced'
  BY <1>1, <1>3 DEF HeapInv, Coalesced, Joined, Calling, Headers
<1>5. FirstFit'
  <2>1. \A a \in Headers : a < At.proximo => ~ Fits(a, op.size)
    <3>1. \A a \in Headers : a < At.proximo => ~ (At.proximo <= a)
      BY <1>2, ListIs DEF HeapInv
    <3> QED
      BY <1>1, <1>2, <3>1 DEF HeapInv, FirstFit
  <2> QED
    BY <1>1, <1>3, <2>1 DEF FirstFit, Fits, Headers
<1>6. LooksForAsked'
  BY <1>1, <1>3 DEF HeapInv, LooksForAsked, Calling, Rounded
<1> QED
  BY <1>1, <1>3, <1>4, <1>5, <1>6, SameBlocks

(* A walk of kmalloc() that found nothing.                                 *)
LEMMA KmallocFailsKeeps ==
  ASSUME HeapInv, KmallocFails
  PROVE  HeapInv'
<1>1. Calling("kmalloc") /\ op' = Idle /\ UNCHANGED <<heap, held>>
  BY DEF KmallocFails
<1>2. op' \in [call : {"none", "kmalloc", "kfree"}, at : Headers, size : Nat, asked : Nat]
  BY <1>1 DEF HeapInv, KheapTypeOK, Idle
<1>3. Coalesced' /\ FirstFit' /\ LooksForAsked'
  BY <1>1 DEF HeapInv, Coalesced, FirstFit, LooksForAsked, Joined, Calling, Headers, Idle
<1> QED
  BY <1>1, <1>2, <1>3, SameBlocks

LEMMA KfreeNextKeeps ==
  ASSUME HeapInv, KfreeNext
  PROVE  HeapInv'
<1>1. /\ Calling("kfree") /\ ~ BothFree /\ ~ IsLast
      /\ op' = [op EXCEPT !.at = At.proximo] /\ UNCHANGED <<heap, held>>
  BY DEF KfreeNext
<1>2. /\ op \in [call : {"none", "kmalloc", "kfree"}, at : Headers, size : Nat, asked : Nat]
      /\ At.proximo \in Headers
      /\ \A a \in Headers : a < op.at \/ a = op.at \/ At.proximo <= a
  BY <1>1, NextIs DEF HeapInv, KheapTypeOK
<1>3. /\ op' \in [call : {"none", "kmalloc", "kfree"}, at : Headers, size : Nat, asked : Nat]
      /\ op'.call = op.call /\ op'.at = At.proximo
  BY <1>1, <1>2
<1>4. \A a \in Headers : a < At.proximo => Joined(a)
  <2>1. Joined(op.at)
    BY <1>1 DEF BothFree, Joined, At
  <2>2. \A a \in Headers : a < At.proximo => ~ (At.proximo <= a)
    BY <1>2, ListIs DEF HeapInv
  <2> QED
    BY <1>1, <1>2, <2>1, <2>2 DEF HeapInv, Coalesced
<1>5. Coalesced'
  BY <1>1, <1>3, <1>4 DEF Coalesced, Joined, Headers, Calling
<1>6. FirstFit' /\ LooksForAsked'
  BY <1>1, <1>3 DEF FirstFit, LooksForAsked, Calling
<1> QED
  BY <1>1, <1>3, <1>5, <1>6, SameBlocks

(* The walk of kfree() is over: all the list is joined.                    *)
LEMMA KfreeDoneKeeps ==
  ASSUME HeapInv, KfreeDone
  PROVE  HeapInv'
<1>1. Calling("kfree") /\ IsLast /\ op' = Idle /\ UNCHANGED <<heap, held>>
  BY DEF KfreeDone
<1>2. op' \in [call : {"none", "kmalloc", "kfree"}, at : Headers, size : Nat, asked : Nat]
  BY <1>1 DEF HeapInv, KheapTypeOK, Idle
<1>3. \A a \in Headers : Joined(a)
  <2>1. HeapSize \notin Headers /\ \A a \in Headers : a <= op.at
    BY <1>1, NextIs DEF HeapInv
  <2>2. Joined(op.at)
    BY <1>1, <2>1 DEF Joined, IsLast, At
  <2>3. \A a \in Headers : a < op.at \/ a = op.at
    BY <2>1, ListIs DEF HeapInv
  <2> QED
    BY <2>2, <2>3 DEF HeapInv, Coalesced
<1>4. Coalesced' /\ FirstFit' /\ LooksForAsked'
  BY <1>1, <1>3 DEF Coalesced, FirstFit, LooksForAsked, Joined, Calling, Headers, Idle
<1> QED
  BY <1>1, <1>2, <1>4, SameBlocks

LEMMA KfreeStartKeeps ==
  ASSUME HeapInv, NEW p \in DOMAIN held, KfreeStart(p)
  PROVE  HeapInv'
<1>1. /\ p \in Headers
      /\ heap' = [heap EXCEPT ![p].livre = TRUE]
      /\ held' = [a \in DOMAIN held \ {p} |-> held[a]]
      /\ op' = [call |-> "kfree", at |-> 0, size |-> 0, asked |-> 0]
  BY DEF HeapInv, KheapTypeOK, KfreeStart, Idle
<1>2. /\ Headers' = Headers
      /\ heap' \in [Headers -> Block]
      /\ \A a \in Headers : /\ heap'[a].tamanho = heap[a].tamanho
                            /\ heap'[a].proximo = heap[a].proximo
                            /\ heap'[a].livre = (heap[a].livre \/ a = p)
  BY <1>1 DEF HeapInv, KheapTypeOK, Headers, Block
<1>3. KheapTypeOK'
  BY <1>1, <1>2 DEF HeapInv, KheapTypeOK, Block
<1>4. Tiles' /\ Apart'
  BY <1>2 DEF HeapInv, Tiles, Apart
<1>5. HeldIsUsed'
  BY <1>1, <1>2 DEF HeapInv, HeldIsUsed
<1>6. Coalesced'
  <2>1. \A a \in Headers : ~ (a < 0)
    BY ListIs DEF HeapInv
  <2> QED
    BY <1>1, <1>2, <2>1 DEF Coalesced, Calling
<1>7. FirstFit' /\ LooksForAsked'
  BY <1>1 DEF FirstFit, LooksForAsked, Calling
<1> QED
  BY <1>3, <1>4, <1>5, <1>6, <1>7 DEF HeapInv

-----------------------------------------------------------------------------
(* A free block absorbs the free one behind it.                            *)
LEMMA KfreeAbsorbsKeeps ==
  ASSUME HeapInv, KfreeAbsorbs
  PROVE  HeapInv'
<1> DEFINE gone == At.proximo
<1>1. /\ Calling("kfree") /\ ~ IsLast
      /\ heap[op.at].livre /\ heap[gone].livre
      /\ heap' = [a \in Headers \ {gone} |->
                    IF a = op.at
                    THEN [tamanho |-> At.tamanho + Header + heap[gone].tamanho,
                          livre |-> At.livre, proximo |-> heap[gone].proximo]
                    ELSE heap[a]]
      /\ op' = op /\ held' = held
  BY DEF KfreeAbsorbs, BothFree, At
<1>2. /\ op.at \in Headers /\ gone \in Headers /\ op.at < gone
      /\ gone = heap[op.at].proximo
      /\ \A a \in Headers : a < op.at \/ a = op.at \/ gone <= a
  BY <1>1, NextIs, ListIs DEF HeapInv, At
<1> HIDE DEF gone
<1>3. \A a \in Headers : a # op.at => heap[a].proximo # gone
  BY <1>2, ListIs DEF HeapInv
<1>4. /\ Headers' = Headers \ {gone}
      /\ op.at \in Headers'
      /\ \A a \in Headers' : a # op.at => heap'[a] = heap[a]
  BY <1>1, <1>2, ListIs DEF Headers, HeapInv
<1>5. At \in Block /\ At = heap[op.at]
  BY <1>2 DEF HeapInv, KheapTypeOK, At
<1>6. /\ heap'[op.at] \in Block
      /\ heap'[op.at].tamanho = heap[op.at].tamanho + Header + heap[gone].tamanho
      /\ heap'[op.at].proximo = heap[gone].proximo
      /\ heap'[op.at].livre
  <2>1. heap'[op.at] = [tamanho |-> At.tamanho + Header + heap[gone].tamanho,
                        livre |-> At.livre, proximo |-> heap[gone].proximo]
    BY <1>1, <1>4 DEF Headers
  <2>2. heap[gone].proximo \in Nat /\ heap[gone].tamanho \in Nat /\ Header \in Nat
    BY <1>2, ListIs DEF HeapInv
  <2>3. At.tamanho + Header + heap[gone].tamanho \in Nat /\ At.livre \in BOOLEAN
    BY <1>5, <2>2 DEF Block
  <2> QED
    <3> DEFINE b == heap'[op.at]
               size == At.tamanho + Header + heap[gone].tamanho
               next == heap[gone].proximo
               free == At.livre
    <3>1. b = [tamanho |-> size, livre |-> free, proximo |-> next]
      BY <2>1
    <3>2. size \in Nat /\ free \in BOOLEAN /\ next \in Nat
      BY <2>2, <2>3
    <3>3. free /\ size = heap[op.at].tamanho + Header + heap[gone].tamanho
      BY <1>1, <1>5
    <3> HIDE DEF b, size, next, free
    <3>4. b \in Block /\ b.tamanho = size /\ b.proximo = next /\ b.livre = free
      BY <3>1, <3>2 DEF Block
    <3> QED
      BY <3>3, <3>4 DEF b, next
<1>7. KheapTypeOK'
  <2>1. heap' \in [Headers' -> Block]
    <3>1. \A a \in Headers' : heap'[a] \in Block
      BY <1>4, <1>6 DEF HeapInv, KheapTypeOK
    <3>2. heap' = [a \in Headers' |-> heap'[a]]
      BY <1>1, <1>4
    <3> QED
      BY <3>1, <3>2
  <2>2. Headers' \subseteq 0 .. HeapSize /\ 0 \in Headers'
    BY <1>2, <1>4, ListIs DEF HeapInv, KheapTypeOK
  <2>3. DOMAIN held \subseteq Headers'
    BY <1>1, <1>2, <1>4 DEF HeapInv, KheapTypeOK, HeldIsUsed
  <2> QED
    BY <1>1, <1>4, <2>1, <2>2, <2>3 DEF HeapInv, KheapTypeOK
<1>8. Tiles'
  <2>1. ASSUME NEW a \in Headers'
        PROVE  /\ heap'[a].proximo = a + Header + heap'[a].tamanho
               /\ heap'[a].proximo \in Headers' \cup {HeapSize}
    <3>1. CASE a = op.at
      BY <1>2, <1>4, <1>6, <3>1, ListIs DEF HeapInv
    <3>2. CASE a # op.at
      BY <1>3, <1>4, <2>1, <3>2, ListIs DEF HeapInv
    <3> QED
      BY <3>1, <3>2
  <2> QED
    BY <2>1 DEF Tiles
<1>9. Apart'
  <2>1. ASSUME NEW a \in Headers', NEW b \in Headers', a < b
        PROVE  a + Header + heap'[a].tamanho <= b
    <3>0. a \in Headers /\ b \in Headers /\ b # gone
      BY <1>4
    <3>1. CASE a = op.at
      <4>1. gone < b
        BY <1>2, <2>1, <3>0, <3>1, ListIs DEF HeapInv
      <4>2. heap[gone].proximo <= b
        BY <1>2, <3>0, <4>1, ListIs DEF HeapInv
      <4>3. heap[gone].proximo = op.at + Header + heap[op.at].tamanho + Header + heap[gone].tamanho
        BY <1>2, ListIs DEF HeapInv
      <4> QED
        BY <1>2, <1>6, <3>1, <4>2, <4>3, ListIs DEF HeapInv
    <3>2. CASE a # op.at
      BY <1>4, <2>1, <3>0, <3>2 DEF HeapInv, Apart
    <3> QED
      BY <3>1, <3>2
  <2> QED
    BY <2>1 DEF Apart
<1>10. HeldIsUsed'
  <2>1. ASSUME NEW a \in Headers'
        PROVE  /\ heap'[a].livre <=> a \notin DOMAIN held
               /\ a \in DOMAIN held /\ held[a] + Grain <= Word => heap'[a].tamanho >= held[a]
    <3>1. CASE a = op.at
      BY <1>1, <1>2, <1>6, <3>1 DEF HeapInv, HeldIsUsed
    <3>2. CASE a # op.at
      BY <1>4, <2>1, <3>2 DEF HeapInv, HeldIsUsed
    <3> QED
      BY <3>1, <3>2
  <2> QED
    BY <1>1, <2>1 DEF HeldIsUsed
<1>11. Coalesced'
  <2>1. ASSUME NEW a \in Headers', a < op.at
        PROVE  heap'[a].livre /\ heap'[a].proximo \in Headers' => ~ heap'[heap'[a].proximo].livre
    <3>1. a \in Headers /\ a # op.at /\ heap'[a] = heap[a]
      BY <1>2, <1>4, <2>1, ListIs DEF HeapInv
    <3>2. Joined(a)
      BY <2>1, <3>1 DEF HeapInv, Coalesced
    <3>3. CASE heap[a].proximo = op.at
      BY <1>1, <1>2, <3>1, <3>2, <3>3 DEF Joined
    <3>4. CASE heap[a].proximo # op.at
      BY <1>4, <3>1, <3>2, <3>4 DEF Joined
    <3> QED
      BY <3>3, <3>4
  <2> QED
    BY <1>1, <2>1 DEF Coalesced, Joined, Calling
<1>12. FirstFit' /\ LooksForAsked'
  BY <1>1 DEF FirstFit, LooksForAsked, Calling
<1> QED
  BY <1>7, <1>8, <1>9, <1>10, <1>11, <1>12 DEF HeapInv

(* kmalloc() takes the block whole.                                        *)
LEMMA TakesWholeKeeps ==
  ASSUME HeapInv, KmallocTakes, ~ WorthSplitting(op.size)
  PROVE  HeapInv'
<1>1. /\ Calling("kmalloc") /\ Fits(op.at, op.size)
      /\ heap' = [heap EXCEPT ![op.at].livre = FALSE]
      /\ held' = [a \in DOMAIN held \cup {op.at} |-> IF a = op.at THEN op.asked ELSE held[a]]
      /\ op' = [call |-> "none", at |-> 0, size |-> 0, asked |-> 0]
  BY DEF KmallocTakes, Idle
<1>2. /\ op.at \in Headers /\ heap \in [Headers -> Block]
      /\ heap[op.at].livre /\ heap[op.at].tamanho >= op.size
      /\ op.asked \in Requests /\ op.size = Rounded(op.asked)
  BY <1>1 DEF HeapInv, KheapTypeOK, LooksForAsked, Fits
<1>3. /\ Headers' = Headers
      /\ heap' \in [Headers -> Block]
      /\ \A a \in Headers : /\ heap'[a].tamanho = heap[a].tamanho
                            /\ heap'[a].proximo = heap[a].proximo
                            /\ heap'[a].livre = (heap[a].livre /\ a # op.at)
  BY <1>1, <1>2 DEF Headers, Block
<1>4. KheapTypeOK'
  BY <1>1, <1>2, <1>3 DEF HeapInv, KheapTypeOK
<1>5. Tiles' /\ Apart'
  BY <1>3 DEF HeapInv, Tiles, Apart
<1>6. HeldIsUsed'
  <2>1. op.asked + Grain <= Word => heap[op.at].tamanho >= op.asked
    <3>1. op.asked + Grain <= Word => Rounded(op.asked) >= op.asked
      BY <1>2, RoundedIs
    <3>2. op.asked \in Nat /\ op.size \in Nat /\ heap[op.at].tamanho \in Nat
      BY <1>2, ListIs, KheapAssumption DEF HeapInv
    <3> QED
      BY <1>2, <3>1, <3>2
  <2>2. ASSUME NEW a \in Headers'
        PROVE  /\ heap'[a].livre <=> a \notin DOMAIN held'
               /\ a \in DOMAIN held' /\ held'[a] + Grain <= Word
                    => heap'[a].tamanho >= held'[a]
    <3>1. CASE a = op.at
      BY <1>1, <1>3, <2>1, <2>2, <3>1
    <3>2. CASE a # op.at
      BY <1>1, <1>3, <2>2, <3>2 DEF HeapInv, HeldIsUsed
    <3> QED
      BY <3>1, <3>2
  <2> QED
    BY <2>2 DEF HeldIsUsed
<1>7. Coalesced'
  <2>1. \A a \in Headers : Joined(a)
    BY <1>1 DEF HeapInv, Coalesced, Calling
  <2>2. \A a \in Headers : Joined(a)'
    BY <1>3, <2>1 DEF Joined
  <2> QED
    BY <1>3, <2>2 DEF Coalesced
<1>8. FirstFit' /\ LooksForAsked'
  BY <1>1 DEF FirstFit, LooksForAsked, Calling
<1> QED
  BY <1>4, <1>5, <1>6, <1>7, <1>8 DEF HeapInv

(* kmalloc() takes the first part of the block; the rest is a new block.   *)
LEMMA TakesPartKeeps ==
  ASSUME HeapInv, KmallocTakes, WorthSplitting(op.size)
  PROVE  HeapInv'
<1> DEFINE rest == op.at + Header + op.size
<1>1. /\ Calling("kmalloc") /\ Fits(op.at, op.size)
      /\ heap' = Split(op.at, op.size)
      /\ held' = [a \in DOMAIN held \cup {op.at} |-> IF a = op.at THEN op.asked ELSE held[a]]
      /\ op' = [call |-> "none", at |-> 0, size |-> 0, asked |-> 0]
  BY DEF KmallocTakes, Idle
<1>2. /\ op.at \in Headers /\ op.at \in Nat /\ op.size \in Nat
      /\ heap[op.at].livre
      /\ op.asked \in Requests /\ op.asked \in Nat /\ op.size = Rounded(op.asked)
      /\ Header \in Nat \ {0} /\ MinRest \in Nat
      /\ heap[op.at].tamanho \in Nat
      /\ heap[op.at].tamanho >= op.size + Header + MinRest
      /\ heap[op.at].proximo = op.at + Header + heap[op.at].tamanho
  BY <1>1, ListIs, KheapAssumption DEF HeapInv, LooksForAsked, Fits, WorthSplitting, At
<1>3. /\ rest \in Nat /\ op.at < rest /\ rest + Header <= heap[op.at].proximo
      /\ rest < heap[op.at].proximo
  BY <1>2
<1>4. rest \notin Headers /\ rest # HeapSize
  BY <1>2, <1>3, ListIs DEF HeapInv
<1>5. /\ Headers' = Headers \cup {rest}
      /\ heap'[rest] = [tamanho |-> heap[op.at].tamanho - op.size - Header, livre |-> TRUE,
                        proximo |-> heap[op.at].proximo]
      /\ heap'[op.at] = [tamanho |-> op.size, livre |-> FALSE, proximo |-> rest]
      /\ \A a \in Headers : a # op.at => heap'[a] = heap[a]
      /\ heap' = [a \in Headers \cup {rest} |-> heap'[a]]
  <2>1. heap' = [a \in Headers \cup {rest} |->
                   IF a = rest THEN [tamanho |-> At.tamanho - op.size - Header, livre |-> TRUE,
                                     proximo |-> At.proximo]
                   ELSE IF a = op.at THEN [tamanho |-> op.size, livre |-> FALSE, proximo |-> rest]
                   ELSE heap[a]]
    BY <1>1 DEF Split
  <2> HIDE DEF rest
  <2> QED
    BY <1>2, <1>4, <2>1 DEF Headers, At
<1>6. heap[op.at].tamanho - op.size - Header \in Nat
  BY <1>2
<1>7. /\ rest \in 0 .. HeapSize /\ HeapSize \in Nat
      /\ heap[op.at].proximo \in Nat
      /\ heap[op.at].proximo \in Headers \cup {HeapSize}
  BY <1>2, <1>3, ListIs DEF HeapInv
<1>8. rest + Header + (heap[op.at].tamanho - op.size - Header) = heap[op.at].proximo
  BY <1>2
<1>9. op.at + Header + op.size = rest
  OBVIOUS
<1> HIDE DEF rest
<1>10. KheapTypeOK'
  <2>1. \A a \in Headers' : heap'[a] \in Block
    <3>1. heap'[rest] \in Block
      BY <1>5, <1>6, <1>7 DEF Block
    <3>2. heap'[op.at] \in Block
      BY <1>2, <1>3, <1>5 DEF Block
    <3> QED
      BY <1>5, <3>1, <3>2 DEF HeapInv, KheapTypeOK
  <2>2. heap' \in [Headers' -> Block]
    BY <1>5, <2>1
  <2>3. Headers' \subseteq 0 .. HeapSize /\ 0 \in Headers'
    BY <1>5, <1>7 DEF HeapInv, KheapTypeOK
  <2>4. held' \in [DOMAIN held' -> Requests] /\ DOMAIN held' \subseteq Headers'
    BY <1>1, <1>2, <1>5 DEF HeapInv, KheapTypeOK
  <2> QED
    BY <1>1, <2>2, <2>3, <2>4 DEF KheapTypeOK
<1>11. Tiles'
  <2>1. ASSUME NEW a \in Headers'
        PROVE  /\ heap'[a].proximo = a + Header + heap'[a].tamanho
               /\ heap'[a].proximo \in Headers' \cup {HeapSize}
    <3>1. CASE a = rest
      BY <1>5, <1>7, <1>8, <3>1
    <3>2. CASE a = op.at
      BY <1>5, <1>9, <3>2
    <3>3. CASE a \in Headers /\ a # op.at
      BY <1>5, <3>3 DEF HeapInv, Tiles
    <3> QED
      BY <1>5, <3>1, <3>2, <3>3
  <2> QED
    BY <2>1 DEF Tiles
<1>12. Apart'
  <2>1. ASSUME NEW a \in Headers', NEW b \in Headers', a < b
        PROVE  a + Header + heap'[a].tamanho <= b
    <3>1. a \in Nat /\ b \in Nat
      BY <1>3, <1>5, ListIs DEF HeapInv
    <3>2. CASE a = rest
      <4>1. b \in Headers /\ op.at < b
        BY <1>2, <1>3, <1>5, <2>1, <3>1, <3>2
      <4>2. heap[op.at].proximo <= b
        BY <1>2, <4>1, ListIs DEF HeapInv
      <4> QED
        BY <1>5, <1>8, <3>2, <4>2
    <3>3. CASE a = op.at
      <4>1. rest <= b
        BY <1>2, <1>3, <1>5, <1>7, <2>1, <3>1, <3>3, ListIs DEF HeapInv
      <4> QED
        BY <1>5, <1>9, <3>3, <4>1
    <3>4. CASE a \in Headers /\ a # op.at /\ b # rest
      BY <1>5, <2>1, <3>4 DEF HeapInv, Apart
    <3>5. CASE a \in Headers /\ a # op.at /\ b = rest
      <4>1. a < op.at
        BY <1>2, <1>3, <2>1, <3>1, <3>5, ListIs DEF HeapInv
      <4>2. a + Header + heap[a].tamanho <= op.at
        BY <1>2, <3>5, <4>1 DEF HeapInv, Apart
      <4>3. a + Header + heap[a].tamanho \in Nat
        BY <3>5, ListIs DEF HeapInv
      <4> QED
        BY <1>2, <1>3, <1>5, <3>5, <4>2, <4>3
    <3> QED
      BY <1>5, <3>2, <3>3, <3>4, <3>5
  <2> QED
    BY <2>1 DEF Apart
<1>13. HeldIsUsed'
  <2>1. op.asked + Grain <= Word => op.size >= op.asked
    BY <1>2, RoundedIs
  <2>2. rest \notin DOMAIN held'
    BY <1>1, <1>2, <1>3, <1>4 DEF HeapInv, KheapTypeOK
  <2>3. ASSUME NEW a \in Headers'
        PROVE  /\ heap'[a].livre <=> a \notin DOMAIN held'
               /\ a \in DOMAIN held' /\ held'[a] + Grain <= Word
                    => heap'[a].tamanho >= held'[a]
    <3>1. CASE a = rest
      BY <1>5, <2>2, <3>1
    <3>2. CASE a = op.at
      BY <1>1, <1>5, <2>1, <3>2
    <3>3. CASE a \in Headers /\ a # op.at
      BY <1>1, <1>5, <3>3 DEF HeapInv, HeldIsUsed
    <3> QED
      BY <1>5, <3>1, <3>2, <3>3
  <2> QED
    BY <2>3 DEF HeldIsUsed
<1>14. Coalesced'
  <2>1. \A a \in Headers : Joined(a)
    BY <1>1 DEF HeapInv, Coalesced, Calling
  <2>2. ASSUME NEW a \in Headers', heap'[a].livre, heap'[a].proximo \in Headers'
        PROVE  ~ heap'[heap'[a].proximo].livre
    <3>1. CASE a = rest
      <4>1. /\ heap'[a].proximo = heap[op.at].proximo
            /\ heap[op.at].proximo # rest /\ heap[op.at].proximo # op.at
        BY <1>2, <1>3, <1>5, <1>7, <3>1
      <4>2. heap[op.at].proximo \in Headers
        BY <1>5, <2>2, <4>1
      <4> QED
        BY <1>2, <1>5, <2>1, <4>1, <4>2 DEF Joined
    <3>2. CASE a = op.at
      BY <1>5, <2>2, <3>2
    <3>3. CASE a \in Headers /\ a # op.at
      <4>1. /\ heap'[a] = heap[a]
            /\ heap[a].proximo \in Headers
        BY <1>4, <1>5, <2>2, <3>3 DEF HeapInv, Tiles
      <4>2. CASE heap[a].proximo = op.at
        BY <1>5, <4>1, <4>2
      <4>3. CASE heap[a].proximo # op.at
        BY <1>5, <2>1, <2>2, <3>3, <4>1, <4>3 DEF Joined
      <4> QED
        BY <4>2, <4>3
    <3> QED
      BY <1>5, <3>1, <3>2, <3>3
  <2> QED
    BY <2>2 DEF Coalesced, Joined
<1>15. FirstFit' /\ LooksForAsked'
  BY <1>1 DEF FirstFit, LooksForAsked, Calling
<1> QED
  BY <1>10, <1>11, <1>12, <1>13, <1>14, <1>15 DEF HeapInv

-----------------------------------------------------------------------------
(* kheap_init(): one free block.                                           *)
LEMMA InitHolds ==
  ASSUME KheapInit
  PROVE  HeapInv
<1>1. /\ heap = [a \in {0} |-> [tamanho |-> HeapSize - Header, livre |-> TRUE,
                                proximo |-> HeapSize]]
      /\ op = [call |-> "none", at |-> 0, size |-> 0, asked |-> 0]
      /\ held = [a \in {} |-> 0]
  BY DEF KheapInit, Idle
<1>2. /\ HeapSize \in Nat /\ Header \in Nat \ {0} /\ HeapSize - Header \in Nat
      /\ 0 + Header + (HeapSize - Header) = HeapSize
  BY KheapAssumption
<1>3. /\ Headers = {0}
      /\ heap[0] = [tamanho |-> HeapSize - Header, livre |-> TRUE, proximo |-> HeapSize]
  BY <1>1 DEF Headers
<1>4. KheapTypeOK
  <2>1. heap \in [Headers -> Block]
    BY <1>1, <1>2, <1>3 DEF Block
  <2>2. Headers \subseteq 0 .. HeapSize /\ 0 \in Headers
    BY <1>2, <1>3
  <2>3. DOMAIN held = {} /\ held \in [DOMAIN held -> Requests]
    BY <1>1
  <2> QED
    BY <1>1, <1>3, <2>1, <2>2, <2>3 DEF KheapTypeOK
<1>5. Tiles /\ Apart
  BY <1>2, <1>3 DEF Tiles, Apart
<1>6. HeldIsUsed
  BY <1>1, <1>3 DEF HeldIsUsed
<1>7. Coalesced
  BY <1>2, <1>3 DEF Coalesced, Joined
<1>8. FirstFit /\ LooksForAsked
  BY <1>1 DEF FirstFit, LooksForAsked, Calling
<1> QED
  BY <1>4, <1>5, <1>6, <1>7, <1>8 DEF HeapInv

LEMMA StepKeeps ==
  ASSUME HeapInv, [Next]_vars
  PROVE  HeapInv'
<1>1. CASE UNCHANGED heapVars
  BY <1>1 DEF heapVars, HeapInv, KheapTypeOK, Tiles, Apart, HeldIsUsed, Coalesced, Joined,
              FirstFit, Fits, LooksForAsked, Rounded, Calling, Headers
<1>2. CASE KheapNext
  <2>1. CASE KmallocNext
    BY <2>1, KmallocNextKeeps
  <2>2. CASE KmallocFails
    BY <2>2, KmallocFailsKeeps
  <2>3. CASE KmallocTakes
    BY <2>3, TakesWholeKeeps, TakesPartKeeps
  <2>4. CASE KfreeAbsorbs
    BY <2>4, KfreeAbsorbsKeeps
  <2>5. CASE KfreeNext
    BY <2>5, KfreeNextKeeps
  <2>6. CASE KfreeDone
    BY <2>6, KfreeDoneKeeps
  <2>7. CASE \E n \in Requests : KmallocStart(n)
    BY <2>7, KmallocStartKeeps
  <2>8. CASE \E p \in DOMAIN held : KfreeStart(p)
    BY <2>8, KfreeStartKeeps
  <2> QED
    BY <1>2, <2>1, <2>2, <2>3, <2>4, <2>5, <2>6, <2>7, <2>8 DEF KheapNext, KheapStep
<1> QED
  BY <1>1, <1>2 DEF Next, vars, heapVars

(* The invariant of the heap holds in any arena, for any requests, with    *)
(* the calls of pmm.c and slab.c in between.                               *)
THEOREM HeapInvariant == Spec => []HeapInv
<1>1. Init => HeapInv
  BY InitHolds DEF Init
<1>2. HeapInv /\ [Next]_vars => HeapInv'
  BY StepKeeps
<1> QED
  BY <1>1, <1>2, PTL DEF Spec

(* Every header, and what each call looks at, keeps its type: no size ever *)
(* drops below zero, and no walk leaves the list.                          *)
THEOREM HeapTypeCorrect == Spec => []KheapTypeOK
<1>1. HeapInv => KheapTypeOK
  BY DEF HeapInv
<1> QED
  BY <1>1, HeapInvariant, PTL

(* The blocks tile the arena after any sequence of kmalloc() and kfree().  *)
THEOREM BlocksTile == Spec => []Tiles
<1>1. HeapInv => Tiles
  BY DEF HeapInv
<1> QED
  BY <1>1, HeapInvariant, PTL

(* No two blocks share a byte.                                             *)
THEOREM BlocksApart == Spec => []Apart
<1>1. HeapInv => Apart
  BY DEF HeapInv
<1> QED
  BY <1>1, HeapInvariant, PTL

(* What was asked for is there, and is nobody else's; the rest is free.    *)
THEOREM HeldStaysUsed == Spec => []HeldIsUsed
<1>1. HeapInv => HeldIsUsed
  BY DEF HeapInv
<1> QED
  BY <1>1, HeapInvariant, PTL

(* The one walk of kfree() joins all there is to join.                     *)
THEOREM FreeJoinsAll == Spec => []Coalesced
<1>1. HeapInv => Coalesced
  BY DEF HeapInv
<1> QED
  BY <1>1, HeapInvariant, PTL

(* kmalloc() passes by no block that would do.                             *)
THEOREM WalkIsFirstFit == Spec => []FirstFit
<1>1. HeapInv => FirstFit
  BY DEF HeapInv
<1> QED
  BY <1>1, HeapInvariant, PTL
-----------------------------------------------------------------------------
(***************************************************************************)
(* The page frames.                                                        *)
(***************************************************************************)
FramesInv ==
  /\ boot \subseteq AllFrames
  /\ lists \in [Caches -> Seq(AllFrames)]
  /\ FramesOwned

LEMMA AllFramesFinite ==
  ASSUME NEW S, S \subseteq AllFrames
  PROVE  IsFiniteSet(S) /\ Cardinality(S) \in Nat
<1>1. IsFiniteSet(AllFrames)
  BY FS_Interval, FramesAssumption DEF AllFrames
<1> QED
  BY <1>1, FS_Subset, FS_CardinalityType

(* pmm_alloc() finds a frame that is free.                                 *)
LEMMA LowestIsFree ==
  ASSUME Free # {}
  PROVE  Lowest(Free) \in Free
<1>1. Free \subseteq Nat
  BY FramesAssumption DEF Free, AllFrames
<1>2. \E m \in Free : \A n \in Free : m <= n
  BY <1>1, NatMinimum
<1> QED
  BY <1>2 DEF Lowest

(* Taking a free frame keeps the count of the free ones.                   *)
LEMMA TakeCounts ==
  ASSUME FramesInv, NEW f \in Free, TakeFrame(f)
  PROVE  /\ bitmap' = bitmap \cup {f}
         /\ paginas_livres' = Cardinality(Free')
<1>1. Free' = Free \ {f}
  BY DEF TakeFrame, Free, AllFrames
<1>2. IsFiniteSet(Free)
  BY AllFramesFinite DEF Free
<1>3. Cardinality(Free \ {f}) = Cardinality(Free) - 1
  BY <1>2, FS_RemoveElement
<1> QED
  BY <1>1, <1>3 DEF TakeFrame, FramesInv, FramesOwned

LEMMA PmmAllocKeeps ==
  ASSUME FramesInv, PmmAlloc
  PROVE  FramesInv'
<1> DEFINE f == Lowest(Free)
<1>1. f \in Free /\ TakeFrame(f) /\ loose' = loose \cup {f}
      /\ UNCHANGED <<boot, lists, slab, live>>
  BY LowestIsFree DEF PmmAlloc
<1> HIDE DEF f
<1>2. bitmap' = bitmap \cup {f} /\ paginas_livres' = Cardinality(Free')
  BY <1>1, TakeCounts
<1>3. f \in AllFrames /\ f \in boot /\ f \notin DOMAIN slab
  BY <1>1 DEF FramesInv, FramesOwned, Free
<1>4. \A c \in Caches : SlabsOf(c)' = SlabsOf(c)
  BY <1>1 DEF SlabsOf
<1>5. FramesOwned'
  BY <1>1, <1>2, <1>3, <1>4 DEF FramesInv, FramesOwned
<1> QED
  BY <1>1, <1>5 DEF FramesInv, AllFrames

LEMMA PmmFreeKeeps ==
  ASSUME FramesInv, NEW f \in loose, PmmFree(f)
  PROVE  FramesInv'
<1>1. f \in bitmap /\ f \in boot /\ f \notin DOMAIN slab /\ f \in AllFrames
  BY DEF FramesInv, FramesOwned
<1>2. /\ bitmap' = bitmap \ {f} /\ paginas_livres' = paginas_livres + 1
      /\ loose' = loose \ {f} /\ UNCHANGED <<boot, lists, slab, live>>
  BY <1>1 DEF PmmFree
<1>3. paginas_livres' = Cardinality(Free')
  <2>1. Free' = Free \cup {f} /\ f \notin Free
    BY <1>1, <1>2 DEF Free, AllFrames
  <2>2. IsFiniteSet(Free)
    BY AllFramesFinite DEF Free
  <2> QED
    BY <1>2, <2>1, <2>2, FS_AddElement DEF FramesInv, FramesOwned
<1>4. \A c \in Caches : SlabsOf(c)' = SlabsOf(c)
  BY <1>2 DEF SlabsOf
<1>5. bitmap' = ((AllFrames \ boot) \cup loose \cup DOMAIN slab)'
  BY <1>1, <1>2 DEF FramesInv, FramesOwned, AllFrames
<1>6. FramesOwned'
  BY <1>2, <1>3, <1>4, <1>5 DEF FramesInv, FramesOwned
<1> QED
  BY <1>2, <1>6 DEF FramesInv, AllFrames

(* A new slab belongs to the cache that takes its frame, and to no other.  *)
LEMMA SlabGrowsKeeps ==
  ASSUME FramesInv, NEW c \in Caches, SlabGrows(c)
  PROVE  FramesInv'
<1> DEFINE f == Lowest(Free)
<1>1. /\ f \in Free /\ TakeFrame(f)
      /\ lists' = [lists EXCEPT ![c] = <<f>> \o @]
      /\ DOMAIN slab' = DOMAIN slab \cup {f}
      /\ UNCHANGED <<boot, loose>>
  BY LowestIsFree DEF SlabGrows
<1> HIDE DEF f
<1>2. bitmap' = bitmap \cup {f} /\ paginas_livres' = Cardinality(Free')
  BY <1>1, TakeCounts
<1>3. f \in AllFrames /\ f \in boot /\ f \notin loose /\ f \notin DOMAIN slab
  BY <1>1 DEF FramesInv, FramesOwned, Free
<1>4. lists[c] \in Seq(AllFrames) /\ <<f>> \in Seq(AllFrames)
  BY <1>3 DEF FramesInv
<1>5. /\ lists' \in [Caches -> Seq(AllFrames)]
      /\ lists'[c] = <<f>> \o lists[c]
      /\ \A d \in Caches : d # c => lists'[d] = lists[d]
  BY <1>1, <1>4 DEF FramesInv
<1>6. SlabsOf(c)' = SlabsOf(c) \cup {f}
  <2>1. /\ Len(lists'[c]) = Len(lists[c]) + 1 /\ Len(lists[c]) \in Nat
        /\ lists'[c][1] = f
        /\ \A k \in 1 .. Len(lists[c]) : lists'[c][k + 1] = lists[c][k]
        /\ DOMAIN lists'[c] = 1 .. Len(lists[c]) + 1
        /\ DOMAIN lists[c] = 1 .. Len(lists[c])
    BY <1>4, <1>5
  <2>2. \A k \in DOMAIN lists'[c] : k = 1 \/ (k - 1 \in 1 .. Len(lists[c]) /\ (k - 1) + 1 = k)
    BY <2>1
  <2>3. SlabsOf(c)' \subseteq SlabsOf(c) \cup {f}
    <3>1. ASSUME NEW k \in DOMAIN lists'[c]
          PROVE  lists'[c][k] \in SlabsOf(c) \cup {f}
      <4>1. CASE k = 1
        BY <2>1, <4>1
      <4>2. CASE k # 1
        <5>1. k - 1 \in DOMAIN lists[c] /\ lists'[c][k] = lists[c][k - 1]
          BY <2>1, <2>2, <3>1, <4>2
        <5> QED
          BY <5>1 DEF SlabsOf
      <4> QED
        BY <4>1, <4>2
    <3> QED
      BY <3>1 DEF SlabsOf
  <2>4. SlabsOf(c) \subseteq SlabsOf(c)'
    <3>1. \A k \in DOMAIN lists[c] : k + 1 \in DOMAIN lists'[c] /\ lists'[c][k + 1] = lists[c][k]
      BY <2>1
    <3> QED
      BY <3>1 DEF SlabsOf
  <2>5. f \in SlabsOf(c)'
    <3>1. 1 \in DOMAIN lists'[c]
      BY <2>1
    <3> QED
      BY <2>1, <3>1 DEF SlabsOf
  <2> QED
    BY <2>3, <2>4, <2>5
<1>7. \A d \in Caches : d # c => SlabsOf(d)' = SlabsOf(d)
  BY <1>5 DEF SlabsOf
<1>8. \A d \in Caches : f \notin SlabsOf(d)
  BY <1>3 DEF FramesInv, FramesOwned
<1>9. DOMAIN slab' = UNION {SlabsOf(d)' : d \in Caches}
  <2>1. DOMAIN slab = UNION {SlabsOf(d) : d \in Caches}
    BY DEF FramesInv, FramesOwned
  <2>2. ASSUME NEW g \in DOMAIN slab'
        PROVE  \E d \in Caches : g \in SlabsOf(d)'
    BY <1>1, <1>6, <1>7, <2>1, <2>2
  <2>3. ASSUME NEW d \in Caches, NEW g \in SlabsOf(d)'
        PROVE  g \in DOMAIN slab'
    BY <1>1, <1>6, <1>7, <2>1, <2>3
  <2> QED
    BY <2>2, <2>3
<1>10. \A d, e \in Caches : d # e => SlabsOf(d)' \cap SlabsOf(e)' = {}
  BY <1>6, <1>7, <1>8 DEF FramesInv, FramesOwned
<1>11. /\ bitmap' = (AllFrames \ boot') \cup loose' \cup DOMAIN slab'
       /\ loose' \cap DOMAIN slab' = {} /\ loose' \cup DOMAIN slab' \subseteq boot'
  <2>1. /\ bitmap = (AllFrames \ boot) \cup loose \cup DOMAIN slab
        /\ loose \cap DOMAIN slab = {} /\ loose \cup DOMAIN slab \subseteq boot
    BY DEF FramesInv, FramesOwned
  <2> QED
    BY <1>1, <1>2, <1>3, <2>1
<1>12. AllFrames' = AllFrames
  BY DEF AllFrames
<1>13. FramesOwned'
  BY <1>2, <1>9, <1>10, <1>11, <1>12 DEF FramesOwned
<1>14. boot' \subseteq AllFrames
  BY <1>1 DEF FramesInv
<1> QED
  BY <1>5, <1>12, <1>13, <1>14 DEF FramesInv

(* A step that moves no frame.                                             *)
LEMMA SameFrames ==
  ASSUME FramesInv, UNCHANGED <<bitmap, paginas_livres, boot, loose, lists, DOMAIN slab>>
  PROVE  FramesInv'
<1>1. /\ bitmap' = bitmap /\ paginas_livres' = paginas_livres /\ boot' = boot
      /\ loose' = loose /\ lists' = lists /\ DOMAIN slab' = DOMAIN slab
  OBVIOUS
<1>2. AllFrames' = AllFrames /\ Free' = Free /\ \A c \in Caches : SlabsOf(c)' = SlabsOf(c)
  BY <1>1 DEF AllFrames, Free, SlabsOf
<1>3. FramesOwned'
  BY <1>1, <1>2 DEF FramesInv, FramesOwned
<1> QED
  BY <1>1, <1>2, <1>3 DEF FramesInv

LEMMA FramesStep ==
  ASSUME FramesInv, [Next]_vars
  PROVE  FramesInv'
<1>1. CASE UNCHANGED frameVars
  BY <1>1, SameFrames DEF frameVars
<1>2. CASE FramesNext
  <2>1. CASE PmmAlloc
    BY <2>1, PmmAllocKeeps
  <2>2. CASE \E f \in loose : PmmFree(f)
    BY <2>2, PmmFreeKeeps
  <2>3. CASE \E c \in Caches : SlabAlloc(c)
    <3>1. UNCHANGED <<bitmap, paginas_livres, boot, loose, lists, DOMAIN slab>>
      BY <2>3 DEF SlabAlloc
    <3> QED
      BY <3>1, SameFrames
  <2>4. CASE \E c \in Caches : SlabGrows(c)
    BY <2>4, SlabGrowsKeeps
  <2>5. CASE \E o \in live : SlabFree(o[1], o[2])
    <3>1. UNCHANGED <<bitmap, paginas_livres, boot, loose, lists, DOMAIN slab>>
      BY <2>5 DEF SlabFree
    <3> QED
      BY <3>1, SameFrames
  <2> QED
    BY <1>2, <2>1, <2>2, <2>3, <2>4, <2>5 DEF FramesNext
<1> QED
  BY <1>1, <1>2 DEF Next, vars, frameVars

(* pmm_init() marks what no region gives and what the kernel takes.        *)
LEMMA FramesInitHolds ==
  ASSUME FramesInit
  PROVE  FramesInv
<1>1. boot \subseteq AllFrames
  BY DEF FramesInit, FreeAtBoot, Whole
<1>2. /\ bitmap = AllFrames \ boot /\ paginas_livres = Cardinality(boot)
      /\ loose = {} /\ DOMAIN slab = {}
      /\ lists \in [Caches -> Seq(AllFrames)]
      /\ \A c \in Caches : lists[c] = <<>>
  BY DEF FramesInit
<1>3. Free = boot
  BY <1>1, <1>2 DEF Free
<1>4. \A c \in Caches : SlabsOf(c) = {}
  BY <1>2 DEF SlabsOf
<1>5. FramesOwned
  BY <1>1, <1>2, <1>3, <1>4 DEF FramesOwned
<1> QED
  BY <1>1, <1>2, <1>5 DEF FramesInv

(* No frame has two owners, a caller, a cache or the kernel; the bitmap    *)
(* marks the owned ones, and paginas_livres counts the others, however     *)
(* pmm_alloc(), pmm_free(), slab_alloc() and slab_free() alternate.        *)
THEOREM FramesHaveOneOwner == Spec => []FramesOwned
<1>1. Init => FramesInv
  BY FramesInitHolds DEF Init
<1>2. FramesInv /\ [Next]_vars => FramesInv'
  BY FramesStep
<1>3. FramesInv => FramesOwned
  BY DEF FramesInv
<1> QED
  BY <1>1, <1>2, <1>3, PTL DEF Spec
-----------------------------------------------------------------------------
(* The free objects of a slab.                                             *)
SlabType == [livre_count : Nat, free_list : Nat, word : Seq(Int)]

FreeIn(f) == {i \in DOMAIN slab[f].word : <<f, i>> \notin live}

(* c lists what the chain passes: the objects of F, each once, and Null.   *)
Links(s, F, c) ==
  /\ c[0] = s.free_list /\ c[s.livre_count] = Null
  /\ \A n \in 0 .. s.livre_count - 1 : c[n] \in F /\ s.word[c[n]] = c[n + 1]
  /\ \A i \in F : \E n \in 0 .. s.livre_count - 1 : c[n] = i
  /\ \A m, n \in 0 .. s.livre_count - 1 : c[m] = c[n] => m = n

Chained(s, F) ==
  /\ F \subseteq DOMAIN s.word /\ Cardinality(F) = s.livre_count
  /\ \E c \in [0 .. s.livre_count -> DOMAIN s.word \cup {Null}] : Links(s, F, c)

SlabInv ==
  /\ slab \in [DOMAIN slab -> SlabType]
  /\ \A f \in DOMAIN slab : Chained(slab[f], FreeIn(f))
  /\ \A o \in live : /\ o \in AllFrames \X Nat
                     /\ o[1] \in DOMAIN slab /\ o[2] \in DOMAIN slab[o[1]].word

LEMMA SlabHas ==
  ASSUME NEW s \in SlabType
  PROVE  /\ s.livre_count \in Nat /\ s.free_list \in Nat
         /\ s.word \in [1 .. Len(s.word) -> Int] /\ Len(s.word) \in Nat
         /\ DOMAIN s.word = 1 .. Len(s.word) /\ Null \notin DOMAIN s.word
BY DEF SlabType, Null

(* The object that is taken is the first of the chain, and the rest of the *)
(* chain is what is left.                                                  *)
LEMMA PopChained ==
  ASSUME NEW s \in SlabType, NEW F, Chained(s, F), s.livre_count # 0, NEW t, t = Pop(s)
  PROVE  /\ s.free_list \in F /\ t \in SlabType /\ DOMAIN t.word = DOMAIN s.word
         /\ Chained(t, F \ {s.free_list})
<1> DEFINE n == s.livre_count
           D == DOMAIN s.word
           h == s.free_list
<1>1. n \in Nat \ {0} /\ D = 1 .. Len(s.word) /\ s.word \in [D -> Int] /\ Null \notin D /\ D \subseteq Nat
  BY SlabHas
<1>2. F \subseteq D /\ Cardinality(F) = n
  BY DEF Chained
<1>3. PICK c \in [0 .. n -> D \cup {Null}] : Links(s, F, c)
  BY DEF Chained
<1>4. /\ c[0] = h /\ c[n] = Null
      /\ \A i \in 0 .. n - 1 : c[i] \in F /\ s.word[c[i]] = c[i + 1]
      /\ \A i \in F : \E j \in 0 .. n - 1 : c[j] = i
      /\ \A i, j \in 0 .. n - 1 : c[i] = c[j] => i = j
  BY <1>3 DEF Links
<1>5. 0 \in 0 .. n - 1 /\ h \in F /\ s.word[h] = c[1] /\ h \in D
  <2>1. 0 \in 0 .. n - 1 /\ 0 + 1 = 1
    BY <1>1
  <2> QED
    BY <2>1, <1>2, <1>4
<1>6. c[1] \in Nat
  <2>1. 1 \in 0 .. n
    BY <1>1
  <2> QED
    BY <2>1, <1>1 DEF Null
<1>7. /\ t.livre_count = n - 1 /\ t.free_list = c[1] /\ t.word = [s.word EXCEPT ![h] = Junk]
      /\ n - 1 \in Nat
  BY <1>1, <1>5 DEF Pop
<1>8. t.word \in [D -> Int] /\ DOMAIN t.word = D /\ \A i \in D : i # h => t.word[i] = s.word[i]
  BY <1>1, <1>5, <1>7 DEF Junk
<1>9. t \in SlabType
  <2>1. t.word \in Seq(Int)
    <3>1. PICK m \in Nat : m = Len(s.word)
      BY SlabHas
    <3>2. t.word \in [1 .. m -> Int]
      BY <3>1, <1>1, <1>8
    <3> QED
      BY <3>2
  <2>2. t = [livre_count |-> n - 1, free_list |-> c[1], word |-> t.word]
    BY <1>5, <1>7 DEF Pop
  <2> QED
    BY <2>1, <2>2, <1>6, <1>7 DEF SlabType
<1> DEFINE d == [i \in 0 .. n - 1 |-> c[i + 1]]
           G == F \ {h}
<1>10. d \in [0 .. n - 1 -> D \cup {Null}] /\ \A i \in 0 .. n - 1 : d[i] = c[i + 1]
  <2>1. \A i \in 0 .. n - 1 : i + 1 \in 0 .. n
    BY <1>1
  <2> QED
    BY <2>1, <1>3
<1> HIDE DEF d
<1>11. Links(t, G, d)
  <2>1. d[0] = t.free_list /\ d[n - 1] = Null
    <3>1. 0 + 1 = 1 /\ n - 1 \in 0 .. n - 1 /\ (n - 1) + 1 = n
      BY <1>1
    <3> QED
      BY <3>1, <1>4, <1>5, <1>7, <1>10
  <2>2. ASSUME NEW i \in 0 .. (n - 1) - 1 PROVE d[i] \in G /\ t.word[d[i]] = d[i + 1]
    <3>1. i \in 0 .. n - 1 /\ i + 1 \in 0 .. n - 1 /\ i + 1 # 0
      BY <1>1
    <3>2. d[i] = c[i + 1] /\ c[i + 1] \in F /\ c[i + 1] # h
      BY <3>1, <1>4, <1>5, <1>10
    <3>3. t.word[d[i]] = c[(i + 1) + 1]
      BY <3>1, <3>2, <1>2, <1>4, <1>8
    <3>4. d[i + 1] = c[(i + 1) + 1]
      BY <3>1, <1>10
    <3> QED
      BY <3>2, <3>3, <3>4
  <2>3. ASSUME NEW x \in G PROVE \E i \in 0 .. (n - 1) - 1 : d[i] = x
    <3>1. PICK j \in 0 .. n - 1 : c[j] = x
      BY <1>4
    <3>2. j # 0
      BY <3>1, <1>4
    <3>3. j - 1 \in 0 .. (n - 1) - 1 /\ j - 1 \in 0 .. n - 1 /\ (j - 1) + 1 = j
      BY <3>2, <1>1
    <3>4. d[j - 1] = x
      BY <3>1, <3>3, <1>10
    <3> QED
      BY <3>3, <3>4
  <2>4. ASSUME NEW i \in 0 .. (n - 1) - 1, NEW j \in 0 .. (n - 1) - 1, d[i] = d[j] PROVE i = j
    <3>1. i \in 0 .. n - 1 /\ j \in 0 .. n - 1 /\ i + 1 \in 0 .. n - 1 /\ j + 1 \in 0 .. n - 1
      BY <1>1
    <3>2. i + 1 = j + 1
      BY <3>1, <2>4, <1>4, <1>10
    <3> QED
      BY <3>2
  <2> QED
    BY <2>1, <2>2, <2>3, <2>4, <1>7 DEF Links
<1>12. Cardinality(G) = n - 1
  <2>1. IsFiniteSet(F)
    <3>1. IsFiniteSet(D)
      BY <1>1, FS_Interval, SlabHas
    <3> QED
      BY <3>1, <1>2, FS_Subset
  <2> QED
    BY <2>1, <1>2, <1>5, FS_RemoveElement
<1>13. Chained(t, G)
  <2>1. G \subseteq DOMAIN t.word /\ Cardinality(G) = t.livre_count
    BY <1>2, <1>7, <1>8, <1>12
  <2>2. d \in [0 .. t.livre_count -> DOMAIN t.word \cup {Null}]
    BY <1>7, <1>8, <1>10
  <2> HIDE DEF G
  <2> QED
    BY <2>1, <2>2, <1>11 DEF Chained
<1> QED
  BY <1>5, <1>8, <1>9, <1>13

(* What comes back is the first of the chain, whatever was written in it.  *)
LEMMA PushChained ==
  ASSUME NEW s \in SlabType, NEW F, Chained(s, F), NEW h \in DOMAIN s.word, h \notin F,
         NEW t, t = Push(s, h)
  PROVE  /\ t \in SlabType /\ DOMAIN t.word = DOMAIN s.word
         /\ Chained(t, F \cup {h})
<1> DEFINE n == s.livre_count
           D == DOMAIN s.word
<1>1. /\ n \in Nat /\ D = 1 .. Len(s.word) /\ s.word \in [D -> Int] /\ Null \notin D /\ D \subseteq Nat
      /\ s.free_list \in Int
  BY SlabHas
<1>2. F \subseteq D /\ Cardinality(F) = n
  BY DEF Chained
<1>3. PICK c \in [0 .. n -> D \cup {Null}] : Links(s, F, c)
  BY DEF Chained
<1>4. /\ c[0] = s.free_list /\ c[n] = Null
      /\ \A i \in 0 .. n - 1 : c[i] \in F /\ s.word[c[i]] = c[i + 1]
      /\ \A i \in F : \E j \in 0 .. n - 1 : c[j] = i
      /\ \A i, j \in 0 .. n - 1 : c[i] = c[j] => i = j
  BY <1>3 DEF Links
<1>5. /\ t.livre_count = n + 1 /\ t.free_list = h /\ t.word = [s.word EXCEPT ![h] = s.free_list]
      /\ n + 1 \in Nat /\ h \in Nat
  BY <1>1 DEF Push
<1>6. /\ t.word \in [D -> Int] /\ DOMAIN t.word = D /\ t.word[h] = c[0]
      /\ \A i \in D : i # h => t.word[i] = s.word[i]
  BY <1>1, <1>4, <1>5
<1>7. t \in SlabType
  <2>1. t.word \in Seq(Int)
    <3>1. PICK m \in Nat : m = Len(s.word)
      BY SlabHas
    <3>2. t.word \in [1 .. m -> Int]
      BY <3>1, <1>1, <1>6
    <3> QED
      BY <3>2
  <2>2. t = [livre_count |-> n + 1, free_list |-> h, word |-> t.word]
    BY <1>5 DEF Push
  <2> QED
    BY <2>1, <2>2, <1>5 DEF SlabType
<1> DEFINE d == [i \in 0 .. n + 1 |-> IF i = 0 THEN h ELSE c[i - 1]]
           G == F \cup {h}
<1>8. /\ d \in [0 .. n + 1 -> D \cup {Null}] /\ d[0] = h
      /\ \A i \in 0 .. n : i + 1 \in 0 .. n + 1 /\ d[i + 1] = c[i]
  <2>1. \A i \in 0 .. n + 1 : i = 0 \/ i - 1 \in 0 .. n
    BY <1>1
  <2>2. \A i \in 0 .. n : i + 1 \in 0 .. n + 1 /\ i + 1 # 0 /\ (i + 1) - 1 = i
    BY <1>1
  <2>3. 0 \in 0 .. n + 1
    BY <1>1
  <2> QED
    BY <2>1, <2>2, <2>3, <1>3
<1> HIDE DEF d
<1>9. \A i \in 0 .. n : i = 0 \/ (i - 1 \in 0 .. n - 1 /\ i - 1 \in 0 .. n /\ (i - 1) + 1 = i)
  BY <1>1
<1>10. Links(t, G, d)
  <2>1. d[0] = t.free_list /\ d[n + 1] = Null
    <3>1. n \in 0 .. n
      BY <1>1
    <3> QED
      BY <3>1, <1>4, <1>5, <1>8
  <2>2. ASSUME NEW i \in 0 .. n PROVE d[i] \in G /\ t.word[d[i]] = d[i + 1]
    <3>1. CASE i = 0
      BY <3>1, <1>6, <1>8
    <3>2. CASE i # 0
      <4>1. i - 1 \in 0 .. n - 1 /\ i - 1 \in 0 .. n /\ (i - 1) + 1 = i
        BY <3>2, <1>9
      <4>2. d[i] = c[i - 1] /\ c[i - 1] \in F /\ s.word[c[i - 1]] = c[i]
        BY <4>1, <1>4, <1>8
      <4>3. d[i + 1] = c[i]
        BY <1>8
      <4>4. t.word[c[i - 1]] = s.word[c[i - 1]]
        BY <4>2, <1>2, <1>6
      <4> QED
        BY <4>2, <4>3, <4>4
    <3> QED
      BY <3>1, <3>2
  <2>3. ASSUME NEW x \in G PROVE \E i \in 0 .. n : d[i] = x
    <3>1. CASE x = h
      <4>1. 0 \in 0 .. n
        BY <1>1
      <4> QED
        BY <3>1, <4>1, <1>8
    <3>2. CASE x \in F
      <4>1. PICK j \in 0 .. n - 1 : c[j] = x
        BY <3>2, <1>4
      <4>2. j + 1 \in 0 .. n /\ j \in 0 .. n
        BY <1>1
      <4>3. d[j + 1] = x
        BY <4>1, <4>2, <1>8
      <4> QED
        BY <4>2, <4>3
    <3> QED
      BY <3>1, <3>2
  <2>4. ASSUME NEW i \in 0 .. n, NEW j \in 0 .. n, d[i] = d[j] PROVE i = j
    <3>1. ASSUME NEW k \in 0 .. n, k # 0
          PROVE  k - 1 \in 0 .. n - 1 /\ d[k] = c[k - 1] /\ c[k - 1] \in F
      <4>1. k - 1 \in 0 .. n - 1 /\ k - 1 \in 0 .. n /\ (k - 1) + 1 = k
        BY <3>1, <1>9
      <4> QED
        BY <4>1, <1>4, <1>8
    <3>2. CASE i = 0 \/ j = 0
      BY <2>4, <3>1, <3>2, <1>8
    <3>3. CASE i # 0 /\ j # 0
      <4>1. i - 1 = j - 1
        BY <2>4, <3>1, <3>3, <1>4
      <4> QED
        BY <4>1
    <3> QED
      BY <3>2, <3>3
  <2>5. (n + 1) - 1 = n
    BY <1>1
  <2> QED
    BY <2>1, <2>2, <2>3, <2>4, <2>5, <1>5 DEF Links
<1>11. Cardinality(G) = n + 1
  <2>1. IsFiniteSet(F)
    <3>1. IsFiniteSet(D)
      <4>1. \A len \in Nat : IsFiniteSet(1 .. len)
        BY FS_Interval
      <4>2. Len(s.word) \in Nat /\ D = 1 .. Len(s.word)
        BY SlabHas
      <4> QED
        BY <4>1, <4>2
    <3> QED
      BY <3>1, <1>2, FS_Subset
  <2> QED
    BY <2>1, <1>2, FS_AddElement
<1>12. Chained(t, G)
  <2>1. G \subseteq DOMAIN t.word /\ Cardinality(G) = t.livre_count
    BY <1>2, <1>5, <1>6, <1>11
  <2>2. d \in [0 .. t.livre_count -> DOMAIN t.word \cup {Null}]
    BY <1>5, <1>6, <1>8
  <2> HIDE DEF G
  <2> QED
    BY <2>1, <2>2, <1>10 DEF Chained
<1> QED
  BY <1>6, <1>7, <1>12

LEMMA NewSlabChained ==
  ASSUME NEW k \in Caches, NEW s, s = NewSlab(k)
  PROVE  /\ s \in SlabType /\ DOMAIN s.word = 1 .. Objects[k] /\ Objects[k] \in Nat \ {0}
         /\ s.livre_count = Objects[k] /\ s.free_list = 1
         /\ Chained(s, 1 .. Objects[k])
<1> DEFINE n == Objects[k]
           F == 1 .. n
           c == [i \in 0 .. n |-> IF i = n THEN Null ELSE i + 1]
<1>1. n \in Nat \ {0}
  BY FramesAssumption
<1>2. /\ s.livre_count = n /\ s.free_list = 1
      /\ s.word = [i \in 1 .. n |-> IF i = n THEN Null ELSE i + 1]
  BY DEF NewSlab
<1>3. DOMAIN s.word = F /\ s.word \in [1 .. n -> Int]
  BY <1>1, <1>2 DEF Null
<1>4. s \in SlabType
  <2>1. s.word \in Seq(Int)
    BY <1>1, <1>3
  <2>2. s = [livre_count |-> n, free_list |-> 1, word |-> s.word]
    BY <1>2 DEF NewSlab
  <2> QED
    BY <2>1, <2>2, <1>1 DEF SlabType
<1>5. /\ c \in [0 .. n -> F \cup {Null}] /\ c[0] = 1 /\ c[n] = Null
      /\ \A i \in 0 .. n - 1 : c[i] = i + 1 /\ i + 1 \in F
  BY <1>1 DEF Null
<1>6. ASSUME NEW i \in 0 .. n - 1 PROVE s.word[c[i]] = c[i + 1]
  <2>1. c[i] = i + 1 /\ i + 1 \in 1 .. n /\ i + 1 \in 0 .. n
    BY <1>1, <1>5
  <2> QED
    <3>1. s.word[i + 1] = IF i + 1 = n THEN Null ELSE i + 1 + 1
      BY <2>1, <1>2
    <3>2. c[i + 1] = IF i + 1 = n THEN Null ELSE i + 1 + 1
      BY <2>1
    <3> QED
      BY <2>1, <3>1, <3>2
<1> HIDE DEF c
<1>7. Links(s, F, c)
  <2>1. ASSUME NEW x \in F PROVE \E i \in 0 .. n - 1 : c[i] = x
    <3>1. x - 1 \in 0 .. n - 1 /\ (x - 1) + 1 = x
      BY <1>1
    <3> QED
      BY <3>1, <1>5
  <2>2. ASSUME NEW i \in 0 .. n - 1, NEW j \in 0 .. n - 1, c[i] = c[j] PROVE i = j
    <3>1. i + 1 = j + 1
      BY <2>2, <1>5
    <3> QED
      BY <3>1
  <2>3. c[0] = s.free_list /\ c[s.livre_count] = Null
    BY <1>2, <1>5
  <2>4. \A i \in 0 .. s.livre_count - 1 : c[i] \in F /\ s.word[c[i]] = c[i + 1]
    <3>1. ASSUME NEW i \in 0 .. n - 1 PROVE c[i] \in F /\ s.word[c[i]] = c[i + 1]
      BY <1>5, <1>6
    <3> HIDE DEF n, F
    <3> QED
      BY <3>1, <1>2
  <2>5. s.livre_count = n
    BY <1>2
  <2> HIDE DEF n, F
  <2> QED
    BY <2>1, <2>2, <2>3, <2>4, <2>5 DEF Links
<1>8. Cardinality(F) = n
  BY <1>1, FS_Interval
<1>9. Chained(s, F)
  <2>1. c \in [0 .. s.livre_count -> DOMAIN s.word \cup {Null}]
    BY <1>2, <1>3, <1>5
  <2> QED
    BY <2>1, <1>2, <1>3, <1>7, <1>8 DEF Chained
<1> QED
  BY <1>1, <1>2, <1>3, <1>4, <1>9

(* What Chain() computes is what the links list: the least place where     *)
(* they would differ has none before it to come from.                      *)
LEMMA ChainFollows ==
  ASSUME NEW s \in SlabType, NEW F, F \subseteq DOMAIN s.word,
         s.livre_count <= Len(s.word),
         NEW c \in [0 .. s.livre_count -> DOMAIN s.word \cup {Null}], Links(s, F, c)
  PROVE  \A n \in 0 .. s.livre_count : Chain(s)[n] = c[n]
<1> DEFINE N == 0 .. Len(s.word)
           D == DOMAIN s.word
           l == s.livre_count
           Rec(f) == [n \in N |-> IF n = 0 THEN s.free_list
                                  ELSE IF f[n - 1] \in D THEN s.word[f[n - 1]] ELSE f[n - 1]]
           at == CHOOSE f : f = Rec(f)
           g == [n \in N |-> IF n <= l THEN c[n] ELSE Null]
<1>1. l \in Nat /\ Len(s.word) \in Nat /\ D = 1 .. Len(s.word) /\ Null \notin D
  BY SlabHas
<1>2. /\ c[0] = s.free_list /\ c[l] = Null
      /\ \A n \in 0 .. l - 1 : c[n] \in F /\ s.word[c[n]] = c[n + 1]
  BY DEF Links
<1>3. g = Rec(g)
  <2>1. ASSUME NEW n \in N
        PROVE  g[n] = IF n = 0 THEN s.free_list
                      ELSE IF g[n - 1] \in D THEN s.word[g[n - 1]] ELSE g[n - 1]
    <3>1. CASE n = 0
      BY <3>1, <1>1, <1>2
    <3>2. CASE n # 0 /\ n <= l
      <4>1. n - 1 \in 0 .. l - 1 /\ n - 1 \in N /\ n - 1 <= l /\ (n - 1) + 1 = n
        BY <3>2, <1>1
      <4>2. g[n - 1] = c[n - 1] /\ g[n] = c[n]
        BY <3>2, <4>1
      <4>3. c[n - 1] \in D /\ s.word[c[n - 1]] = c[n]
        BY <4>1, <1>2
      <4> QED
        BY <3>2, <4>2, <4>3
    <3>3. CASE n # 0 /\ ~ (n <= l)
      <4>1. n - 1 \in N /\ (n - 1 <= l => n - 1 = l)
        BY <3>3, <1>1
      <4>2. g[n] = Null
        BY <3>3
      <4>3. g[n - 1] = Null
        BY <4>1, <1>2
      <4> QED
        BY <3>3, <4>2, <4>3, <1>1
    <3> QED
      BY <3>1, <3>2, <3>3
  <2> QED
    BY <2>1
<1>4. at = Rec(at)
  BY <1>3
<1>5. Chain(s) = at
  BY DEF Chain
<1> HIDE DEF at, g
<1>6. \A n \in N : at[n] = IF n = 0 THEN s.free_list
                           ELSE IF at[n - 1] \in D THEN s.word[at[n - 1]] ELSE at[n - 1]
  BY <1>4
<1> DEFINE B == {n \in 0 .. l : at[n] # c[n]}
<1>7. B = {}
  <2> SUFFICES ASSUME B # {} PROVE FALSE
    OBVIOUS
  <2>1. B \subseteq Nat
    BY <1>1
  <2>2. PICK n \in B : \A m \in B : n <= m
    <3> HIDE DEF B
    <3> QED
      BY <2>1, NatMinimum
  <2>3. n \in 0 .. l /\ n \in N /\ at[n] # c[n]
    BY <1>1
  <2>4. n # 0
    BY <2>3, <1>2, <1>6
  <2>5. n - 1 \in 0 .. l - 1 /\ n - 1 \in 0 .. l /\ n - 1 \in N /\ (n - 1) + 1 = n /\ ~ (n <= n - 1)
    BY <2>3, <2>4, <1>1
  <2>6. at[n - 1] = c[n - 1]
    BY <2>2, <2>5
  <2>7. c[n - 1] \in D /\ s.word[c[n - 1]] = c[n]
    BY <2>5, <1>2
  <2>8. at[n] = c[n]
    BY <2>3, <2>4, <2>6, <2>7, <1>6
  <2> QED
    BY <2>3, <2>8
<1> QED
  BY <1>5, <1>7

(* The free list of a slab is exactly what nobody holds.                   *)
LEMMA SlabsAreChained ==
  ASSUME FramesInv, SlabInv
  PROVE  ChainIsFree
<1>1. ASSUME NEW f \in DOMAIN slab, NEW s \in SlabType, s = slab[f], NEW F, F = FreeIn(f)
      PROVE  /\ {Chain(s)[n] : n \in 0 .. s.livre_count - 1} = F
             /\ Cardinality(F) = s.livre_count
             /\ Chain(s)[s.livre_count] = Null
  <2>1. Chained(s, F)
    BY <1>1 DEF SlabInv
  <2>2. F \subseteq DOMAIN s.word /\ Cardinality(F) = s.livre_count
    BY <2>1 DEF Chained
  <2>3. PICK c \in [0 .. s.livre_count -> DOMAIN s.word \cup {Null}] : Links(s, F, c)
    BY <2>1 DEF Chained
  <2>4. s.livre_count \in Nat /\ Len(s.word) \in Nat /\ DOMAIN s.word = 1 .. Len(s.word)
    BY SlabHas
  <2>5. s.livre_count <= Len(s.word)
    <3>1. IsFiniteSet(DOMAIN s.word) /\ Cardinality(DOMAIN s.word) = Len(s.word)
      <4>1. PICK m \in Nat : m = Len(s.word)
        BY <2>4
      <4>2. IsFiniteSet(1 .. m) /\ Cardinality(1 .. m) = m
        BY FS_Interval
      <4> QED
        BY <4>1, <4>2, <2>4
    <3> QED
      BY <3>1, <2>2, FS_Subset
  <2>6. \A n \in 0 .. s.livre_count : Chain(s)[n] = c[n]
    BY <2>2, <2>3, <2>5, ChainFollows
  <2>7. \A n \in 0 .. s.livre_count - 1 : n \in 0 .. s.livre_count
    BY <2>4
  <2>8. s.livre_count \in 0 .. s.livre_count
    BY <2>4
  <2> QED
    BY <2>2, <2>3, <2>6, <2>7, <2>8 DEF Links
<1>2. \A f \in DOMAIN slab : slab[f] \in SlabType
  BY DEF SlabInv
<1> QED
  BY <1>1, <1>2 DEF ChainIsFree, FreeIn

(* One slab changes, and what is held of it.                               *)
LEMMA OneSlab ==
  ASSUME FramesInv, SlabInv, NEW f \in DOMAIN slab, NEW t \in SlabType,
         slab' = [slab EXCEPT ![f] = t], DOMAIN t.word = DOMAIN slab[f].word,
         Chained(t, {i \in DOMAIN t.word : <<f, i>> \notin live'}),
         \A g \in DOMAIN slab : \A i : g # f => (<<g, i>> \in live' <=> <<g, i>> \in live),
         \A o \in live' : o \in live \/ (o[1] = f /\ o[2] \in DOMAIN t.word /\ o \in AllFrames \X Nat)
  PROVE  SlabInv'
<1>1. slab \in [DOMAIN slab -> SlabType]
  BY DEF SlabInv
<1>2. /\ slab' \in [DOMAIN slab' -> SlabType] /\ DOMAIN slab' = DOMAIN slab /\ slab'[f] = t
      /\ \A g \in DOMAIN slab : g # f => slab'[g] = slab[g]
  BY <1>1
<1>3. ASSUME NEW g \in DOMAIN slab' PROVE Chained(slab'[g], FreeIn(g)')
  <2>1. CASE g = f
    BY <2>1, <1>2 DEF FreeIn
  <2>2. CASE g # f
    <3>1. g \in DOMAIN slab /\ slab'[g] = slab[g]
      BY <2>2, <1>2
    <3>2. FreeIn(g)' = FreeIn(g)
      BY <2>2, <3>1 DEF FreeIn
    <3> QED
      BY <3>1, <3>2 DEF SlabInv
  <2> QED
    BY <2>1, <2>2
<1>4. \A g \in DOMAIN slab : DOMAIN slab'[g].word = DOMAIN slab[g].word
  BY <1>2
<1>5. ASSUME NEW o \in live'
      PROVE  o \in AllFrames \X Nat /\ o[1] \in DOMAIN slab' /\ o[2] \in DOMAIN slab'[o[1]].word
  <2>1. CASE o \in live
    BY <2>1, <1>2, <1>4 DEF SlabInv
  <2>2. CASE o[1] = f /\ o[2] \in DOMAIN t.word /\ o \in AllFrames \X Nat
    BY <2>2, <1>2
  <2> QED
    BY <2>1, <2>2
<1> QED
  BY <1>2, <1>3, <1>5 DEF SlabInv, AllFrames

(* slab_alloc() takes from a slab of the cache that has an object left.    *)
LEMMA FirstHasRoom ==
  ASSUME FramesInv, NEW k \in Caches, WithRoom(k) # {}
  PROVE  FirstWithRoom(k) \in DOMAIN slab /\ slab[FirstWithRoom(k)].livre_count # 0
<1>1. lists[k] \in Seq(AllFrames)
  BY DEF FramesInv
<1>2. WithRoom(k) \subseteq Nat /\ WithRoom(k) \subseteq DOMAIN lists[k]
  BY <1>1 DEF WithRoom
<1>3. PICK m \in WithRoom(k) : m = Lowest(WithRoom(k))
  <2>1. \E m \in WithRoom(k) : \A n \in WithRoom(k) : m <= n
    BY <1>2, NatMinimum
  <2> QED
    BY <2>1 DEF Lowest
<1>4. slab[lists[k][m]].livre_count # 0 /\ lists[k][m] \in SlabsOf(k)
  BY <1>2 DEF WithRoom, SlabsOf
<1>5. lists[k][m] \in DOMAIN slab
  BY <1>4 DEF FramesInv, FramesOwned
<1> QED
  BY <1>3, <1>4, <1>5 DEF FirstWithRoom

LEMMA SlabAllocChains ==
  ASSUME FramesInv, SlabInv, NEW k \in Caches, SlabAlloc(k)
  PROVE  SlabInv'
<1>1. PICK f \in DOMAIN slab : f = FirstWithRoom(k) /\ slab[f].livre_count # 0
  BY FirstHasRoom DEF SlabAlloc
<1>2. PICK s \in SlabType : s = slab[f]
  BY DEF SlabInv
<1>3. PICK t : t = Pop(s)
  OBVIOUS
<1>4. PICK x : x = s.free_list
  OBVIOUS
<1>5. slab' = [slab EXCEPT ![f] = t] /\ live' = live \cup {<<f, x>>}
  BY <1>1, <1>2, <1>3, <1>4 DEF SlabAlloc
<1>6. Chained(s, FreeIn(f)) /\ s.livre_count # 0
  BY <1>1, <1>2 DEF SlabInv
<1>7. /\ x \in FreeIn(f) /\ t \in SlabType /\ DOMAIN t.word = DOMAIN s.word
      /\ Chained(t, FreeIn(f) \ {x})
  BY <1>3, <1>4, <1>6, PopChained
<1>8. {i \in DOMAIN t.word : <<f, i>> \notin live'} = FreeIn(f) \ {x}
  BY <1>2, <1>5, <1>7 DEF FreeIn
<1>9. f \in AllFrames /\ x \in DOMAIN t.word /\ x \in Nat
  BY <1>2, <1>7, SlabHas DEF FreeIn, FramesInv, FramesOwned
<1>10. \A g \in DOMAIN slab : \A i : g # f => (<<g, i>> \in live' <=> <<g, i>> \in live)
  BY <1>5
<1>11. \A o \in live' : o \in live \/ (o[1] = f /\ o[2] \in DOMAIN t.word /\ o \in AllFrames \X Nat)
  BY <1>5, <1>9
<1> QED
  <2>1. t \in SlabType /\ slab' = [slab EXCEPT ![f] = t] /\ DOMAIN t.word = DOMAIN slab[f].word
    BY <1>2, <1>5, <1>7
  <2>2. Chained(t, {i \in DOMAIN t.word : <<f, i>> \notin live'})
    BY <1>7, <1>8
  <2> QED
    BY <2>1, <2>2, <1>10, <1>11, OneSlab

LEMMA SlabFreeChains ==
  ASSUME FramesInv, SlabInv, NEW o \in live, SlabFree(o[1], o[2])
  PROVE  SlabInv'
<1>1. PICK f \in DOMAIN slab, x \in DOMAIN slab[o[1]].word : f = o[1] /\ x = o[2]
  BY DEF SlabInv
<1>2. PICK s \in SlabType : s = slab[f]
  BY DEF SlabInv
<1>3. o = <<f, x>> /\ x \in DOMAIN s.word
  BY <1>1, <1>2 DEF SlabInv
<1>4. PICK t : t = Push(s, x)
  OBVIOUS
<1>5. slab' = [slab EXCEPT ![f] = t] /\ live' = live \ {<<f, x>>}
  BY <1>1, <1>2, <1>4 DEF SlabFree
<1>6. Chained(s, FreeIn(f)) /\ x \notin FreeIn(f)
  BY <1>2, <1>3 DEF SlabInv, FreeIn
<1>7. t \in SlabType /\ DOMAIN t.word = DOMAIN s.word /\ Chained(t, FreeIn(f) \cup {x})
  BY <1>3, <1>4, <1>6, PushChained
<1>8. {i \in DOMAIN t.word : <<f, i>> \notin live'} = FreeIn(f) \cup {x}
  BY <1>2, <1>3, <1>5, <1>7 DEF FreeIn
<1>9. \A g \in DOMAIN slab : \A i : g # f => (<<g, i>> \in live' <=> <<g, i>> \in live)
  BY <1>5
<1>10. \A q \in live' : q \in live
  BY <1>5
<1> QED
  <2>1. t \in SlabType /\ slab' = [slab EXCEPT ![f] = t] /\ DOMAIN t.word = DOMAIN slab[f].word
    BY <1>2, <1>5, <1>7
  <2>2. Chained(t, {i \in DOMAIN t.word : <<f, i>> \notin live'})
    BY <1>7, <1>8
  <2> QED
    BY <2>1, <2>2, <1>9, <1>10, OneSlab

(* A new slab is chained from end to end, and its first object is given.   *)
LEMMA SlabGrowsChains ==
  ASSUME FramesInv, SlabInv, NEW k \in Caches, SlabGrows(k)
  PROVE  SlabInv'
<1>1. PICK f \in Free : f = Lowest(Free)
  BY LowestIsFree DEF SlabGrows
<1>2. f \in AllFrames /\ f \notin DOMAIN slab
  BY DEF FramesInv, FramesOwned, Free
<1>3. PICK s : s = NewSlab(k)
  OBVIOUS
<1>4. PICK t : t = Pop(s)
  OBVIOUS
<1>5. /\ slab' = [g \in DOMAIN slab \cup {f} |-> IF g = f THEN t ELSE slab[g]]
      /\ live' = live \cup {<<f, 1>>}
  BY <1>1, <1>3, <1>4 DEF SlabGrows
<1>6. /\ s \in SlabType /\ DOMAIN s.word = 1 .. Objects[k] /\ Objects[k] \in Nat \ {0}
      /\ s.livre_count # 0 /\ s.free_list = 1 /\ Chained(s, 1 .. Objects[k])
  BY <1>3, NewSlabChained
<1>7. /\ t \in SlabType /\ DOMAIN t.word = 1 .. Objects[k] /\ 1 \in 1 .. Objects[k]
      /\ Chained(t, (1 .. Objects[k]) \ {1})
  BY <1>4, <1>6, PopChained
<1>8. \A i : <<f, i>> \notin live
  BY <1>2 DEF SlabInv
<1>9. /\ DOMAIN slab' = DOMAIN slab \cup {f} /\ slab'[f] = t
      /\ \A g \in DOMAIN slab : g # f /\ slab'[g] = slab[g]
      /\ slab' \in [DOMAIN slab' -> SlabType]
  <2>1. slab \in [DOMAIN slab -> SlabType]
    BY DEF SlabInv
  <2> QED
    BY <2>1, <1>2, <1>5, <1>7
<1>10. ASSUME NEW g \in DOMAIN slab' PROVE Chained(slab'[g], FreeIn(g)')
  <2>1. CASE g = f
    <3>1. FreeIn(f)' = (1 .. Objects[k]) \ {1}
      BY <1>5, <1>7, <1>8, <1>9 DEF FreeIn
    <3> QED
      BY <2>1, <3>1, <1>7, <1>9
  <2>2. CASE g # f
    <3>1. g \in DOMAIN slab /\ slab'[g] = slab[g]
      BY <2>2, <1>9
    <3>2. FreeIn(g)' = FreeIn(g)
      BY <2>2, <3>1, <1>5 DEF FreeIn
    <3> QED
      BY <3>1, <3>2 DEF SlabInv
  <2> QED
    BY <2>1, <2>2
<1>11. ASSUME NEW o \in live'
       PROVE  o \in AllFrames \X Nat /\ o[1] \in DOMAIN slab' /\ o[2] \in DOMAIN slab'[o[1]].word
  <2>1. CASE o \in live
    BY <2>1, <1>9 DEF SlabInv
  <2>2. CASE o = <<f, 1>>
    BY <2>2, <1>2, <1>7, <1>9
  <2> QED
    BY <2>1, <2>2, <1>5
<1> QED
  BY <1>9, <1>10, <1>11 DEF SlabInv, AllFrames

LEMMA SlabStep ==
  ASSUME FramesInv, SlabInv, [Next]_vars
  PROVE  SlabInv'
<1>1. CASE UNCHANGED <<slab, live>>
  <2>1. \A f : FreeIn(f)' = FreeIn(f)
    BY <1>1 DEF FreeIn
  <2>2. slab' = slab /\ live' = live /\ AllFrames' = AllFrames
    BY <1>1 DEF AllFrames
  <2> QED
    BY <2>1, <2>2 DEF SlabInv
<1>2. CASE FramesNext
  <2>1. CASE PmmAlloc \/ \E f \in loose : PmmFree(f)
    BY <1>1, <2>1 DEF PmmAlloc, PmmFree
  <2>2. CASE \E c \in Caches : SlabAlloc(c)
    BY <2>2, SlabAllocChains
  <2>3. CASE \E c \in Caches : SlabGrows(c)
    BY <2>3, SlabGrowsChains
  <2>4. CASE \E o \in live : SlabFree(o[1], o[2])
    BY <2>4, SlabFreeChains
  <2> QED
    BY <1>2, <2>1, <2>2, <2>3, <2>4 DEF FramesNext
<1>3. UNCHANGED frameVars \/ FramesNext
  BY DEF Next, vars, frameVars
<1> QED
  BY <1>1, <1>2, <1>3 DEF frameVars

FramesSoundInv == FramesInv /\ SlabInv

LEMMA FramesSoundHolds == Spec => []FramesSoundInv
<1>1. Init => FramesSoundInv
  <2>1. ASSUME Init PROVE SlabInv
    <3>1. DOMAIN slab = {} /\ live = {} /\ slab = [f \in {} |-> 0]
      BY <2>1 DEF Init, FramesInit
    <3>2. slab \in [DOMAIN slab -> SlabType]
      BY <3>1
    <3> QED
      BY <3>1, <3>2 DEF SlabInv
  <2> QED
    BY <2>1, FramesInitHolds DEF Init, FramesSoundInv
<1>2. FramesSoundInv /\ [Next]_vars => FramesSoundInv'
  BY FramesStep, SlabStep DEF FramesSoundInv
<1> QED
  BY <1>1, <1>2, PTL DEF Spec

(* In whatever order slab_alloc() and slab_free() come, and whatever the   *)
(* holders write into their objects, the free list of a slab passes        *)
(* exactly the objects that nobody holds, livre_count of them, and ends.   *)
THEOREM SlabsStaySound == Spec => []SlabsSound
<1>1. ASSUME FramesSoundInv PROVE SlabsSound
  <2>1. FramesInv /\ SlabInv
    BY <1>1 DEF FramesSoundInv
  <2>2. paginas_livres \in 0 .. Total
    <3>1. Free \subseteq AllFrames /\ Total \in Nat
      BY FramesAssumption DEF Free
    <3>2. IsFiniteSet(AllFrames) /\ Cardinality(AllFrames) = Total
      <4>1. IsFiniteSet(0 .. Total - 1) /\ Cardinality(0 .. Total - 1) = Total
        <5>1. Total - 1 \in Int /\ 0 \in Int
          BY <3>1
        <5>2. IsFiniteSet(0 .. Total - 1)
              /\ Cardinality(0 .. Total - 1) = IF 0 > Total - 1 THEN 0 ELSE Total - 1 - 0 + 1
          BY <5>1, FS_Interval
        <5> QED
          BY <5>2, <3>1
      <4> QED
        BY <4>1 DEF AllFrames
    <3>3. Cardinality(Free) \in Nat /\ Cardinality(Free) <= Total
      BY <3>1, <3>2, FS_Subset, FS_CardinalityType
    <3> QED
      BY <2>1, <3>1, <3>3 DEF FramesInv, FramesOwned
  <2>3. bitmap \subseteq AllFrames /\ loose \subseteq AllFrames /\ DOMAIN slab \subseteq AllFrames
    BY <2>1 DEF FramesInv, FramesOwned
  <2>4. live \subseteq AllFrames \X Nat
    BY <2>1 DEF SlabInv
  <2>5. FramesTypeOK
    BY <2>1, <2>2, <2>3, <2>4 DEF FramesTypeOK, FramesInv
  <2> QED
    BY <2>1, <2>5, SlabsAreChained DEF SlabsSound
<1> QED
  BY <1>1, FramesSoundHolds, PTL

(* slab_alloc() takes a frame only when every object of its cache is held. *)
THEOREM GrowsOnlyWhenFull == Spec => GrowsWhenFull
<1> DEFINE Grows == \A c \in Caches :
             lists'[c] # lists[c] => \A f \in SlabsOf(c) :
               \A i \in DOMAIN slab[f].word : <<f, i>> \in live
<1>1. ASSUME FramesSoundInv, [Next]_vars PROVE Grows \/ UNCHANGED frameVars
  <2> SUFFICES ASSUME NEW c \in Caches, lists'[c] # lists[c], NEW f \in SlabsOf(c),
                      NEW i \in DOMAIN slab[f].word
               PROVE  <<f, i>> \in live
    OBVIOUS
  <2>1. FramesInv /\ SlabInv
    BY <1>1 DEF FramesSoundInv
  <2>2. PICK k \in Caches : SlabGrows(k)
    BY <1>1 DEF Next, vars, frameVars, FramesNext, PmmAlloc, PmmFree, SlabAlloc, SlabFree
  <2>3. WithRoom(c) = {}
    <3>1. lists' = [lists EXCEPT ![k] = <<Lowest(Free)>> \o @] /\ WithRoom(k) = {}
      BY <2>2 DEF SlabGrows
    <3>2. c = k
      BY <2>1, <3>1 DEF FramesInv
    <3> QED
      BY <3>1, <3>2
  <2>4. f \in DOMAIN slab /\ slab[f].livre_count = 0
    BY <2>1, <2>3 DEF WithRoom, SlabsOf, FramesInv, FramesOwned
  <2>5. slab[f] \in SlabType /\ Chained(slab[f], FreeIn(f))
    BY <2>1, <2>4 DEF SlabInv
  <2>6. Cardinality(FreeIn(f)) = 0 /\ FreeIn(f) \subseteq DOMAIN slab[f].word
    BY <2>4, <2>5 DEF Chained
  <2>7. IsFiniteSet(FreeIn(f))
    <3>1. PICK m \in Nat : DOMAIN slab[f].word = 1 .. m
      BY <2>5, SlabHas
    <3>2. IsFiniteSet(1 .. m)
      BY FS_Interval
    <3> QED
      BY <3>1, <3>2, <2>6, FS_Subset
  <2>8. FreeIn(f) = {}
    BY <2>6, <2>7, FS_EmptySet
  <2> QED
    BY <2>8 DEF FreeIn
<1>2. FramesSoundInv /\ [Next]_vars => [Grows]_frameVars
  BY <1>1
<1> QED
  BY <1>2, FramesSoundHolds, PTL DEF Spec, GrowsWhenFull
=============================================================================
