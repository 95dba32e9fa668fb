------------------------------- MODULE Kheap -------------------------------
(***************************************************************************)
(* The kernel heap (mem/kheap.c): one arena cut into blocks, each behind   *)
(* its header; kmalloc() takes the first that fits and cuts off what is    *)
(* left, kfree() frees one and joins free neighbours along the whole list. *)
(* The steps of the two loops are steps of the model; one call runs at a   *)
(* time.  Addresses count from HEAP_INICIO, and a null proximo is written  *)
(* as the end of the arena.                                                *)
(***************************************************************************)
EXTENDS Integers

CONSTANTS
  HeapSize,   \* HEAP_PAGINAS * 4096
  Header,     \* CABECALHO
  MinRest,    \* 8: what a block that is cut off must hold
  Grain,      \* 4: sizes are rounded up to multiples of it
  Word,       \* 2^32
  Requests    \* sizes that callers ask for, none of them 0

ASSUME KheapAssumption ==
  /\ HeapSize \in Nat /\ Header \in Nat \ {0} /\ MinRest \in Nat /\ Grain \in Nat \ {0}
  /\ Word \in Nat \ {0} /\ Requests \subseteq Nat \ {0}
  /\ HeapSize >= Header

VARIABLES
  heap,   \* the headers in the list, by their address
  op,     \* the call in progress, the block it looks at, the size it needs
  held    \* what callers hold: the size asked for, by header

heapVars == <<heap, op, held>>
-----------------------------------------------------------------------------
Idle == [call |-> "none", at |-> 0, size |-> 0, asked |-> 0]

KheapInit ==
  /\ heap = [a \in {0} |-> [tamanho |-> HeapSize - Header, livre |-> TRUE,
                            proximo |-> HeapSize]]
  /\ op = Idle
  /\ held = [a \in {} |-> 0]

Headers == DOMAIN heap
At == heap[op.at]
IsLast == At.proximo = HeapSize
Rounded(n) == LET up == (n + Grain - 1) % Word IN up - (up % Grain)
Fits(a, size) == heap[a].livre /\ heap[a].tamanho >= size

Calling(name) == op.call = name

(* kmalloc(): the walk to the first block that fits.                       *)
KmallocStart(n) ==
  /\ Calling("none")
  /\ op' = [call |-> "kmalloc", at |-> 0, size |-> Rounded(n), asked |-> n]
  /\ UNCHANGED <<heap, held>>

KmallocNext ==
  /\ Calling("kmalloc")
  /\ ~ Fits(op.at, op.size) /\ ~ IsLast
  /\ op' = [op EXCEPT !.at = At.proximo]
  /\ UNCHANGED <<heap, held>>

KmallocFails ==
  /\ Calling("kmalloc")
  /\ ~ Fits(op.at, op.size) /\ IsLast
  /\ op' = Idle
  /\ UNCHANGED <<heap, held>>

(* The rest becomes a block if it can hold a header and MinRest more.      *)
WorthSplitting(size) == At.tamanho >= size + Header + MinRest

Split(at, size) ==
  LET rest == at + Header + size IN
  [a \in Headers \cup {rest} |->
     IF a = rest THEN [tamanho |-> At.tamanho - size - Header, livre |-> TRUE,
                       proximo |-> At.proximo]
     ELSE IF a = at THEN [tamanho |-> size, livre |-> FALSE, proximo |-> rest]
     ELSE heap[a]]

KmallocTakes ==
  /\ Calling("kmalloc")
  /\ Fits(op.at, op.size)
  /\ heap' = IF WorthSplitting(op.size) THEN Split(op.at, op.size)
             ELSE [heap EXCEPT ![op.at].livre = FALSE]
  /\ held' = [a \in DOMAIN held \cup {op.at} |->
                IF a = op.at THEN op.asked ELSE held[a]]
  /\ op' = Idle

KfreeStartThere(p) ==
  /\ Calling("none")
  /\ heap' = [heap EXCEPT ![p].livre = TRUE]
  /\ held' = [a \in DOMAIN held \ {p} |-> held[a]]
  /\ op' = [Idle EXCEPT !.call = "kfree", !.at = p]

(* kfree(): the block is free, then the list is walked from its start.     *)
KfreeStart(p) ==
  /\ Calling("none")
  /\ heap' = [heap EXCEPT ![p].livre = TRUE]
  /\ held' = [a \in DOMAIN held \ {p} |-> held[a]]
  /\ op' = [Idle EXCEPT !.call = "kfree"]

BothFree == At.livre /\ heap[At.proximo].livre

KfreeAbsorbs ==
  /\ Calling("kfree")
  /\ ~ IsLast /\ BothFree
  /\ heap' = [a \in Headers \ {At.proximo} |->
                IF a = op.at
                THEN [tamanho |-> At.tamanho + Header + heap[At.proximo].tamanho,
                      livre |-> At.livre, proximo |-> heap[At.proximo].proximo]
                ELSE heap[a]]
  /\ UNCHANGED <<op, held>>

KfreeNext ==
  /\ Calling("kfree")
  /\ ~ IsLast /\ ~ BothFree
  /\ op' = [op EXCEPT !.at = At.proximo]
  /\ UNCHANGED <<heap, held>>

KfreeDone ==
  /\ Calling("kfree")
  /\ IsLast
  /\ op' = Idle
  /\ UNCHANGED <<heap, held>>

KheapStep ==
  \/ KmallocNext \/ KmallocFails \/ KmallocTakes
  \/ KfreeAbsorbs \/ KfreeNext \/ KfreeDone

KheapNext ==
  \/ KheapStep
  \/ \E n \in Requests : KmallocStart(n)
  \/ \E p \in DOMAIN held : KfreeStart(p)

KheapSpec == KheapInit /\ [][KheapNext]_heapVars
-----------------------------------------------------------------------------
Block == [tamanho : Nat, livre : BOOLEAN, proximo : Nat]

KheapTypeOK ==
  /\ Headers \subseteq 0 .. HeapSize /\ 0 \in Headers
  /\ heap \in [Headers -> Block]
  /\ op \in [call : {"none", "kmalloc", "kfree"}, at : Headers, size : Nat, asked : Nat]
  /\ held \in [DOMAIN held -> Requests] /\ DOMAIN held \subseteq Headers

(* The blocks cover the arena: each ends where the next one in the list    *)
(* begins or the arena ends, after any sequence of cuts and joins.         *)
Tiles ==
  \A a \in Headers :
    /\ heap[a].proximo = a + Header + heap[a].tamanho
    /\ heap[a].proximo \in Headers \cup {HeapSize}

(* No two blocks share a byte, headers included.                           *)
Apart ==
  \A a, b \in Headers : a < b => a + Header + heap[a].tamanho <= b

(* What a caller holds is a block of its own, marked as used, with room    *)
(* for what was asked (of a size that the rounding does not bring to 0);   *)
(* every other block is free: nothing is lost.                             *)
HeldIsUsed ==
  \A a \in Headers :
    /\ heap[a].livre <=> a \notin DOMAIN held
    /\ a \in DOMAIN held /\ held[a] + Grain <= Word => heap[a].tamanho >= held[a]

(* Between two calls no two neighbours are free: kfree() has joined all    *)
(* there is to join, in one walk, whichever block it freed.                *)
Joined(a) == heap[a].livre /\ heap[a].proximo \in Headers
               => ~ heap[heap[a].proximo].livre

Coalesced ==
  \A a \in Headers : (Calling("kfree") => a < op.at) => Joined(a)

(* kmalloc() reports that there is no memory only when no free block is    *)
(* large enough; what it has walked past does not fit.                     *)
FirstFit ==
  Calling("kmalloc") => \A a \in Headers : a < op.at => ~ Fits(a, op.size)

(* The invariant that the steps preserve: the above, and that a walk looks *)
(* for the size its caller asked for, rounded.                             *)
LooksForAsked == Calling("kmalloc") => op.asked \in Requests /\ op.size = Rounded(op.asked)

HeapInv ==
  KheapTypeOK /\ Tiles /\ Apart /\ HeldIsUsed /\ Coalesced /\ FirstFit /\ LooksForAsked
=============================================================================
