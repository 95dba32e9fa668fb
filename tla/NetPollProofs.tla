---------------------------- MODULE NetPollProofs ----------------------------
(***************************************************************************)
(* Theorems about the way of a frame through the stack, for any ring, any  *)
(* frames, any number of netbufs and any cache.                            *)
(***************************************************************************)
EXTENDS NetPoll, FiniteSetTheorems, TLAPS

HistOK ==
  hist \in [lost : Nat, stored : Nat, seen : Nat, orderly : BOOLEAN,
            nested : BOOLEAN, mangled : BOOLEAN, answered : BOOLEAN,
            heard : [Hosts -> Macs \cup {0}]]

(* Every cell is of a frame that has come, or was never written.           *)
CellsOfFrames ==
  /\ Len(frames) + hist.lost <= MaxFrames
  /\ \A a \in Cells : mem[a].frame <= Len(frames)

(* Polls and waits for an address alternate, and a poll that has handed a  *)
(* frame over is never the innermost call.                                 *)
Alternates ==
  /\ \A i \in 1 .. Depth - 1 :
       /\ stack[i].op = "poll" <=> stack[i + 1].op = "resolve"
       /\ stack[i].op = "poll" => Busy(stack[i])
  /\ ~ Idle => ~ Busy(stack[Depth])

(* No host has two entries in the cache.                                   *)
CacheSound ==
  /\ Len(arp_cache) <= CacheSize
  /\ \A i, j \in 1 .. Len(arp_cache) : arp_cache[i].host = arp_cache[j].host => i = j
  /\ \A i \in 1 .. Len(arp_cache) : arp_cache[i].mac = hist.heard[arp_cache[i].host]

(* The output buffer is the waiting call's own until a segment is answered *)
(* during a wait; from the second call that waits on, there was one.       *)
OwnPacket ==
  ~ hist.answered =>
    /\ ~ hist.mangled
    /\ \A i \in 1 .. Depth : stack[i].op = "resolve" => stack[i].packet = ip_packet

IndInv ==
  /\ TypeOK /\ HistOK /\ CellsOfFrames /\ Alternates /\ BuffersConserved
  /\ CacheSound /\ OwnPacket
-----------------------------------------------------------------------------
(* The calls, by what they are.                                            *)
LEMMA CallKinds ==
  ASSUME NEW k \in Calls
  PROVE  \/ k = Poll /\ k.op = "poll" /\ ~ Busy(k)
         \/ /\ k.op = "poll" /\ Busy(k) /\ k.buf \in Buffers /\ k.size \in 1 .. Longest
            /\ k = Holding(k.buf, k.size)
         \/ /\ k.op = "resolve" /\ ~ Busy(k) /\ k.host \in Hosts
            /\ k.packet \in 0 .. MaxFrames /\ k.left \in 0 .. Wait
BY DEF Calls, Poll, Holding, Busy

LEMMA LongestIsMax ==
  /\ Longest \in 1 .. Ring /\ \A k \in Kinds : Sizes[k] <= Longest
  /\ Shortest \in 1 .. Longest
<1> DEFINE S == {Sizes[k] : k \in Kinds}
           x == Sizes["arp"]
           y == Sizes["dados"]
           z == Sizes["outro"]
<1>1. x \in 1 .. Ring /\ y \in 1 .. Ring /\ z \in 1 .. Ring /\ S = {x, y, z} /\ Ring \in Nat
  BY NetPollAssumption DEF Kinds
<1> HIDE DEF x, y, z
<1>2. \E m \in {x, y, z} : \A n \in {x, y, z} : m >= n
  BY <1>1
<1>3. \E m \in {x, y, z} : \A n \in {x, y, z} : m =< n
  BY <1>1
<1>4. Longest \in S /\ \A n \in S : Longest >= n
  BY <1>1, <1>2 DEF Longest, Max
<1>5. Shortest \in S /\ \A n \in S : Shortest =< n
  BY <1>1, <1>3 DEF Shortest, Min
<1>6. \A k \in Kinds : Sizes[k] \in S
  OBVIOUS
<1>7. \A n \in S : n \in 1 .. Ring
  BY <1>1
<1> HIDE DEF S
<1>8. \A k \in Kinds : Sizes[k] <= Longest
  BY <1>4, <1>6, <1>7
<1> QED
  BY <1>4, <1>5, <1>7, <1>8

LEMMA ModRange ==
  ASSUME NEW a \in Int, NEW m \in Nat \ {0}
  PROVE  a % m \in 0 .. m - 1
OBVIOUS

LEMMA Moduli ==
  /\ Laps * Ring \in Nat \ {0}
  /\ \A a \in Nat : Unwrapped(a) \in Cells
<1>1. Laps \in Nat \ {0} /\ Ring \in Nat \ {0} /\ Slack \in Nat /\ Longest \in Nat /\ Slack < Longest
  <2>1. Slack < Sizes["arp"] /\ Sizes["arp"] <= Longest /\ Sizes["arp"] \in Nat
    BY NetPollAssumption, LongestIsMax DEF Kinds
  <2> QED
    BY <2>1, NetPollAssumption, LongestIsMax
<1>2. Laps * Ring \in Nat \ {0}
  BY <1>1
<1>3. ASSUME NEW a \in Nat PROVE a % (Ring + Slack) \in Cells
  <2>1. a % (Ring + Slack) \in 0 .. Ring + Slack - 1
    BY <1>1, ModRange
  <2> QED
    BY <2>1, <1>1 DEF Cells
<1> QED
  BY <1>2, <1>3 DEF Unwrapped

(* The pointer stays one of the card's, whatever length is added to it.    *)
LEMMA AdvanceOK ==
  ASSUME TypeOK, NEW z \in 1 .. Longest, Advance(z)
  PROVE  ptr' \in 0 .. Laps * Ring - 1
<1>1. ptr + z \in Int
  BY LongestIsMax, Moduli DEF TypeOK
<1>2. (ptr + z) % (Laps * Ring) \in 0 .. Laps * Ring - 1
  BY <1>1, Moduli, ModRange
<1> QED
  BY <1>2 DEF Advance

(* What the driver takes for a header, and what is handed over.            *)
LEMMA HeaderFacts ==
  ASSUME IndInv
  PROVE  /\ Header.frame \in 0 .. Len(frames)
         /\ \A z \in SizesFound :
              /\ z \in 1 .. Longest
              /\ Number(z) \in 0 .. Len(frames)
              /\ KindFound(z) # "outro" =>
                   Number(z) \in 1 .. Len(frames) /\ frames[Number(z)] \in Frames
<1>1. ptr \in Nat /\ Len(frames) \in Nat /\ frames \in Seq(Frames)
  BY Moduli DEF IndInv, TypeOK
<1>2. Unwrapped(ptr) \in Cells
  BY <1>1, Moduli
<1>3. Header.frame \in 0 .. Len(frames)
  BY <1>1, <1>2 DEF IndInv, TypeOK, CellsOfFrames, Header
<1>4. Header.frame # 0 => Header.frame \in 1 .. Len(frames) /\ frames[Header.frame] \in Frames
  BY <1>1, <1>3
<1>5. ASSUME NEW z \in SizesFound PROVE z \in 1 .. Longest
  <2>1. CASE IsHeader
    <3>1. frames[Header.frame].kind \in Kinds
      BY <2>1, <1>4 DEF IsHeader, Plausible, Frames
    <3> QED
      BY <3>1, <2>1, <1>5, LongestIsMax, NetPollAssumption DEF SizesFound
  <2>2. CASE ~ IsHeader
    BY <2>2, <1>5, LongestIsMax DEF SizesFound
  <2> QED
    BY <2>1, <2>2
<1>6. ASSUME NEW z \in SizesFound
      PROVE  /\ Number(z) \in 0 .. Len(frames)
             /\ KindFound(z) # "outro" => Number(z) \in 1 .. Len(frames) /\ frames[Number(z)] \in Frames
  <2>1. CASE Whole(z)
    BY <2>1, <1>3, <1>4 DEF Number, KindFound, Whole, IsHeader, Plausible
  <2>2. CASE ~ Whole(z)
    BY <2>2, <1>1 DEF Number, KindFound
  <2> QED
    BY <2>1, <2>2
<1> QED
  BY <1>3, <1>5, <1>6
-----------------------------------------------------------------------------
LEMMA InitHolds == Init => IndInv
<1> SUFFICES ASSUME Init PROVE IndInv
  OBVIOUS
<1>1. TypeOK
  <2>1. 0 \in 0 .. MaxFrames /\ 0 \in 0 .. Longest /\ 0 \in 0 .. Ring - 1 /\ 0 \in 0 .. Laps * Ring - 1
    BY NetPollAssumption, LongestIsMax, Moduli
  <2>2. mem \in [Cells -> [frame : 0 .. MaxFrames, unit : 0 .. Longest]]
    BY <2>1 DEF Init, Blank
  <2>3. frames \in Seq(Frames) /\ arp_cache \in Seq([host : Hosts, mac : Macs]) /\ stack \in Seq(Calls)
    BY DEF Init
  <2> QED
    BY <2>1, <2>2, <2>3 DEF Init, TypeOK
<1>2. HistOK
  BY DEF Init, HistOK
<1>3. CellsOfFrames
  BY NetPollAssumption DEF Init, CellsOfFrames, Blank
<1>4. Alternates /\ BuffersConserved
  <2>1. Depth = 0 /\ Holders = {} /\ stack = <<>>
    BY DEF Init, Depth, Holders
  <2> QED
    BY <2>1 DEF Init, Alternates, BuffersConserved, Idle
<1>5. CacheSound /\ OwnPacket
  BY NetPollAssumption DEF Init, CacheSound, OwnPacket, Depth
<1> QED
  BY <1>1, <1>2, <1>3, <1>4, <1>5 DEF IndInv
-----------------------------------------------------------------------------
(* The calls outside the innermost one.                                    *)
LEMMA OuterIs ==
  ASSUME TypeOK, ~ Idle
  PROVE  /\ Depth \in Nat \ {0} /\ Outer \in Seq(Calls) /\ Len(Outer) = Depth - 1
         /\ \A i \in 1 .. Depth - 1 : Outer[i] = stack[i]
         /\ \A i \in 1 .. Depth : stack[i] \in Calls
<1>1. stack \in Seq(Calls) /\ Depth \in Nat \ {0} /\ Depth = Len(stack)
  BY DEF TypeOK, Depth, Idle
<1> QED
  BY <1>1 DEF Outer

(* A call that holds no buffer ends, and the one outside it goes on.       *)
LEMMA Popped ==
  ASSUME IndInv, ~ Idle, stack' = Outer, UNCHANGED free_list,
         Outer = <<>> \/ ~ Busy(Outer[Len(Outer)])
  PROVE  stack' \in Seq(Calls) /\ Alternates' /\ BuffersConserved'
<1>1. Depth \in Nat \ {0} /\ ~ Busy(stack[Depth])
  BY OuterIs DEF IndInv, Alternates
<1>2. /\ stack' \in Seq(Calls) /\ Depth' = Depth - 1
      /\ \A i \in 1 .. Depth - 1 : stack'[i] = stack[i]
  BY OuterIs DEF IndInv, Depth
<1>3. Alternates'
  <2>1. (\A i \in 1 .. Depth - 1 : /\ stack[i].op = "poll" <=> stack[i + 1].op = "resolve"
                                   /\ stack[i].op = "poll" => Busy(stack[i]))'
    <3> SUFFICES ASSUME NEW i \in 1 .. Depth' - 1
                 PROVE  /\ stack'[i].op = "poll" <=> stack'[i + 1].op = "resolve"
                        /\ stack'[i].op = "poll" => Busy(stack'[i])
      BY DEF Busy
    <3>1. stack'[i] = stack[i] /\ stack'[i + 1] = stack[i + 1] /\ i \in 1 .. Depth - 1
      BY <1>1, <1>2
    <3> QED
      BY <3>1 DEF IndInv, Alternates
  <2>2. (~ Idle => ~ Busy(stack[Depth]))'
    BY <1>1, <1>2 DEF Idle, Depth, Busy
  <2> QED
    BY <2>1, <2>2 DEF Alternates
<1>4. Holders' = Holders
  BY <1>1, <1>2 DEF Holders, Busy
<1>5. BuffersConserved'
  <2>1. \A i \in Holders : i \in 1 .. Depth - 1
    BY <1>1 DEF Holders
  <2>2. \A i \in Holders : stack'[i].buf = stack[i].buf
    BY <2>1, <1>2
  <2>3. (\A i, j \in Holders : stack[i].buf = stack[j].buf => i = j)'
    BY <1>4, <2>2 DEF IndInv, BuffersConserved
  <2>4. {stack'[i].buf : i \in Holders} = {stack[i].buf : i \in Holders}
    BY <2>2
  <2> QED
    BY <1>4, <2>3, <2>4 DEF IndInv, BuffersConserved
<1> QED
  BY <1>2, <1>3, <1>5

(* A wait ends: the poll around it, if there is one, gives its buffer back *)
(* and goes on with the next frame.                                        *)
LEMMA Resumed ==
  ASSUME IndInv, Innermost("resolve"), Resume(Outer)
  PROVE  /\ stack' \in Seq(Calls) /\ ptr' \in 0 .. Laps * Ring - 1 /\ free_list' \subseteq Buffers
         /\ Alternates' /\ BuffersConserved'
         /\ \A i \in 1 .. Depth' : stack'[i].op = "resolve" =>
              i \in 1 .. Depth /\ stack'[i] = stack[i]
         /\ \/ Depth = 1 /\ UNCHANGED ptr /\ Holders = {} /\ Holders' = {}
            \/ /\ Depth - 1 \in Holders /\ Advance(stack[Depth - 1].size)
               /\ Holders' = Holders \ {Depth - 1}
<1>1. /\ TypeOK /\ ~ Idle /\ Depth \in Nat \ {0} /\ Outer \in Seq(Calls) /\ Len(Outer) = Depth - 1
      /\ \A i \in 1 .. Depth - 1 : Outer[i] = stack[i]
      /\ \A i \in 1 .. Depth : stack[i] \in Calls
  BY OuterIs DEF IndInv, Innermost
<1>2. CASE Depth = 1
  <2>1. Outer = <<>>
    BY <1>1, <1>2
  <2>2. stack' = Outer /\ UNCHANGED <<ptr, free_list>>
    BY <2>1 DEF Resume
  <2>3. \A i \in 1 .. Depth' : FALSE
    BY <2>1, <2>2 DEF Depth
  <2>4. Holders = {} /\ Holders' = {}
    <3>1. ~ Busy(stack[Depth])
      BY <1>1 DEF IndInv, Alternates
    <3> QED
      BY <3>1, <2>3, <1>2 DEF Holders
  <2> QED
    BY <1>1, <1>2, <2>1, <2>2, <2>3, <2>4, Popped DEF TypeOK
<1>3. CASE Depth # 1
  <2> DEFINE d == Depth - 1
             c == stack[d]
  <2>1. d \in 1 .. Depth - 1 /\ d \in 1 .. Depth /\ d + 1 = Depth /\ d \in Nat
    BY <1>1, <1>3
  <2>2. c.op = "poll" /\ Busy(c) /\ c \in Calls
    BY <1>1, <2>1 DEF IndInv, Alternates, Innermost
  <2>3. c.buf \in Buffers /\ c.size \in 1 .. Longest
    BY <2>2, CallKinds DEF Poll, Busy
  <2>4. Outer # <<>> /\ Outer[Len(Outer)] = c
    BY <1>1, <2>1
  <2>5. stack' = [Outer EXCEPT ![d] = Poll] /\ free_list' = free_list \cup {c.buf} /\ Advance(c.size)
    BY <1>1, <2>2, <2>4 DEF Resume, NetbufFree
  <2> HIDE DEF c
  <2>6. /\ stack' \in Seq(Calls) /\ Depth' = d /\ stack'[d] = Poll
        /\ \A i \in 1 .. d : i # d => stack'[i] = stack[i]
    <3>1. Poll \in Calls
      BY DEF Calls
    <3> QED
      BY <1>1, <2>1, <2>5, <3>1 DEF Depth
  <2>7. Poll.op = "poll" /\ ~ Busy(Poll)
    BY DEF Poll, Busy
  <2>8. Alternates'
    <3>1. ASSUME NEW i \in 1 .. Depth' - 1
          PROVE  /\ stack'[i].op = "poll" <=> stack'[i + 1].op = "resolve"
                 /\ stack'[i].op = "poll" => Busy(stack'[i])
      <4>1. i \in 1 .. Depth - 1 /\ i # d /\ i \in 1 .. d /\ stack'[i] = stack[i]
        BY <2>1, <2>6
      <4>2. stack'[i + 1].op = stack[i + 1].op
        <5>1. CASE i + 1 = d
          BY <5>1, <2>2, <2>6, <2>7 DEF c
        <5>2. CASE i + 1 # d
          <6>1. i + 1 \in 1 .. d /\ i + 1 # d
            BY <5>2, <2>1, <4>1
          <6>2. stack'[i + 1] = stack[i + 1]
            BY <6>1, <2>6
          <6> QED
            BY <6>2
        <5> QED
          BY <5>1, <5>2
      <4> QED
        BY <4>1, <4>2 DEF IndInv, Alternates
    <3>2. ~ Busy(stack'[Depth'])
      BY <2>6, <2>7
    <3>3. (\A i \in 1 .. Depth - 1 : /\ stack[i].op = "poll" <=> stack[i + 1].op = "resolve"
                                     /\ stack[i].op = "poll" => Busy(stack[i]))'
      BY <3>1 DEF Busy
    <3>4. (~ Idle => ~ Busy(stack[Depth]))'
      BY <3>2 DEF Busy
    <3> QED
      BY <3>3, <3>4 DEF Alternates
  <2>9. Holders' = Holders \ {d}
    <3>1. ~ Busy(stack[Depth])
      BY <1>1 DEF IndInv, Alternates
    <3>2. \A i \in 1 .. d : Busy(stack'[i]) <=> i # d /\ Busy(stack[i])
      BY <2>6, <2>7
    <3> QED
      BY <3>1, <3>2, <2>1, <2>6 DEF Holders, Busy
  <2>10. d \in Holders /\ \A i \in Holders : i \in 1 .. d
    <3>1. ~ Busy(stack[Depth])
      BY <1>1 DEF IndInv, Alternates
    <3> QED
      BY <3>1, <2>1, <2>2 DEF Holders, c
  <2>11. BuffersConserved'
    <3>1. \A i \in Holders \ {d} : stack'[i].buf = stack[i].buf
      BY <2>6, <2>10
    <3>2. (\A i, j \in Holders : stack[i].buf = stack[j].buf => i = j)'
      BY <2>9, <3>1 DEF IndInv, BuffersConserved
    <3>3. {stack'[i].buf : i \in Holders \ {d}} = {stack[i].buf : i \in Holders} \ {c.buf}
      BY <3>1, <2>10 DEF IndInv, BuffersConserved, c
    <3>4. free_list' = Buffers \ {stack'[i].buf : i \in Holders \ {d}}
      BY <3>3, <2>3, <2>5 DEF IndInv, BuffersConserved
    <3> QED
      BY <3>2, <3>4, <2>9 DEF BuffersConserved
  <2>12. ptr' \in 0 .. Laps * Ring - 1
    BY <1>1, <2>3, <2>5, AdvanceOK
  <2>13. \A i \in 1 .. Depth' : stack'[i].op = "resolve" => i \in 1 .. Depth /\ stack'[i] = stack[i]
    BY <2>1, <2>6, <2>7
  <2>14. Depth - 1 \in Holders /\ Advance(stack[Depth - 1].size) /\ Holders' = Holders \ {Depth - 1}
    BY <2>5, <2>9, <2>10 DEF c
  <2> QED
    BY <1>1, <2>3, <2>5, <2>6, <2>8, <2>11, <2>12, <2>13, <2>14 DEF TypeOK
<1> QED
  BY <1>2, <1>3
-----------------------------------------------------------------------------
(* What a step leaves alone.                                               *)
LEMMA CardSame ==
  ASSUME IndInv, UNCHANGED card, hist'.lost = hist.lost
  PROVE  /\ CellsOfFrames' /\ frames' \in Seq(Frames) /\ cbr' \in 0 .. Ring - 1
         /\ mem' \in [Cells -> [frame : 0 .. MaxFrames, unit : 0 .. Longest]]
BY DEF IndInv, TypeOK, CellsOfFrames, card

LEMMA StackSame ==
  ASSUME IndInv, UNCHANGED <<stack, free_list>>
  PROVE  Alternates' /\ BuffersConserved'
<1>1. Alternates'
  BY DEF IndInv, Alternates, Depth, Idle, Busy
<1>2. Holders' = Holders
  BY DEF Holders, Depth, Busy
<1>3. BuffersConserved'
  BY <1>2 DEF IndInv, BuffersConserved
<1> QED
  BY <1>1, <1>3

LEMMA CacheSame ==
  ASSUME IndInv, UNCHANGED arp_cache, hist'.heard = hist.heard
  PROVE  CacheSound'
BY DEF IndInv, CacheSound

LEMMA NotedIs ==
  ASSUME HistOK, NEW n \in Nat
  PROVE  /\ Noted(n) \in [lost : Nat, stored : Nat, seen : Nat, orderly : BOOLEAN,
                          nested : BOOLEAN, mangled : BOOLEAN, answered : BOOLEAN,
                          heard : [Hosts -> Macs \cup {0}]]
         /\ \A f \in {"lost", "stored", "nested", "mangled", "answered", "heard"} :
              Noted(n)[f] = hist[f]
<1>1. (hist.orderly /\ n = hist.seen + 1) \in BOOLEAN
  OBVIOUS
<1>2. (IF n = hist.seen + 1 THEN n ELSE hist.seen) \in Nat
  BY DEF HistOK
<1> QED
  BY <1>1, <1>2 DEF HistOK, Noted
-----------------------------------------------------------------------------
LEMMA ArriveKeeps ==
  ASSUME IndInv, NEW f \in Traffic, Arrive(f)
  PROVE  IndInv'
<1> DEFINE size == Sizes[f.kind]
           n == Len(frames) + 1
<1>1. /\ f \in Frames /\ size \in 1 .. Longest /\ Longest \in Nat
      /\ cbr \in Int /\ Ring \in Nat \ {0}
  <2>1. f \in Frames /\ f.kind \in Kinds
    BY NetPollAssumption DEF Frames
  <2> QED
    BY <2>1, NetPollAssumption, LongestIsMax DEF IndInv, TypeOK
<1>room. n + hist.lost <= MaxFrames /\ n \in 1 .. MaxFrames /\ hist.lost \in Nat /\ Len(frames) \in Nat
  <2>1. hist.lost \in Nat /\ Len(frames) \in Nat /\ MaxFrames \in Nat
    BY NetPollAssumption DEF IndInv, TypeOK, HistOK
  <2>2. Len(frames) + hist.lost < MaxFrames
    BY DEF Arrive, MoreTraffic
  <2> QED
    BY <2>1, <2>2
<1>2. frames' \in Seq(Frames) /\ Len(frames') = n
  BY <1>1, <1>room DEF Arrive, IndInv, TypeOK
<1>3. hist' = [hist EXCEPT !.stored = hist.stored + size]
  BY DEF Arrive
<1>4. cbr' = (cbr + size) % Ring
  BY DEF Arrive
<1>5. mem' = [c \in Cells |-> IF c \in cbr .. cbr + size - 1
                              THEN [frame |-> n, unit |-> c - cbr] ELSE mem[c]]
  BY <1>2 DEF Arrive
<1> HIDE DEF n, size
<1>6. mem' \in [Cells -> [frame : 0 .. MaxFrames, unit : 0 .. Longest]]
  <2>1. ASSUME NEW c \in Cells, c \in cbr .. cbr + size - 1
        PROVE  [frame |-> n, unit |-> c - cbr] \in [frame : 0 .. MaxFrames, unit : 0 .. Longest]
    BY <2>1, <1>1, <1>room
  <2>2. ASSUME NEW c \in Cells PROVE mem[c] \in [frame : 0 .. MaxFrames, unit : 0 .. Longest]
    BY DEF IndInv, TypeOK
  <2> QED
    BY <1>5, <2>1, <2>2
<1>7. cbr' \in 0 .. Ring - 1
  BY <1>1, <1>4, ModRange
<1>8. TypeOK'
  BY <1>2, <1>6, <1>7 DEF Arrive, IndInv, TypeOK
<1>9. HistOK' /\ hist'.lost = hist.lost /\ hist'.heard = hist.heard
      /\ hist'.answered = hist.answered /\ hist'.mangled = hist.mangled
  BY <1>1, <1>3 DEF IndInv, HistOK
<1>10. CellsOfFrames'
  <2>1. n + hist'.lost <= MaxFrames
    BY <1>room, <1>9
  <2>2. \A a \in Cells : mem'[a].frame <= n
    BY <1>1, <1>room, <1>5 DEF IndInv, CellsOfFrames, TypeOK, n
  <2> QED
    BY <1>2, <2>1, <2>2 DEF CellsOfFrames
<1>11. Alternates' /\ BuffersConserved'
  BY StackSame DEF Arrive
<1>12. CacheSound'
  BY <1>9, CacheSame DEF Arrive
<1>13. OwnPacket'
  BY <1>9 DEF Arrive, IndInv, OwnPacket, Depth
<1> QED
  BY <1>8, <1>9, <1>10, <1>11, <1>12, <1>13 DEF IndInv

LEMMA OverflowKeeps ==
  ASSUME IndInv, Overflow
  PROVE  IndInv'
<1>1. hist' = [hist EXCEPT !.lost = hist.lost + 1] /\ UNCHANGED card /\ isr' = TRUE
      /\ UNCHANGED <<ptr, free_list, arp_cache, ip_packet, stack>>
  BY DEF Overflow
<1>2. HistOK' /\ hist'.lost = hist.lost + 1 /\ hist'.heard = hist.heard
      /\ hist'.answered = hist.answered /\ hist'.mangled = hist.mangled
  BY <1>1 DEF IndInv, HistOK
<1>3. TypeOK'
  BY <1>1 DEF IndInv, TypeOK, card
<1>4. CellsOfFrames'
  <2>1. Len(frames) \in Nat /\ hist.lost \in Nat
    BY DEF IndInv, TypeOK, HistOK
  <2> QED
    BY <1>1, <1>2, <2>1, NetPollAssumption DEF IndInv, CellsOfFrames, Overflow, MoreTraffic, card
<1>5. Alternates' /\ BuffersConserved'
  BY <1>1, StackSame
<1>6. CacheSound'
  BY <1>1, <1>2, CacheSame
<1>7. OwnPacket'
  BY <1>1, <1>2 DEF IndInv, OwnPacket, Depth
<1> QED
  BY <1>2, <1>3, <1>4, <1>5, <1>6, <1>7 DEF IndInv

(* A tick changes no call but the time it waits.                           *)
LEMMA TickIs ==
  ASSUME IndInv, Tick
  PROVE  /\ UNCHANGED <<card, isr, ptr, free_list, arp_cache, ip_packet, hist>>
         /\ Depth \in Nat /\ stack' \in Seq(Calls) /\ Depth' = Depth
         /\ \A i \in 1 .. Depth :
              /\ stack'[i] \in Calls /\ stack'[i].op = stack[i].op
              /\ Busy(stack'[i]) <=> Busy(stack[i])
              /\ Busy(stack[i]) => stack'[i] = stack[i]
              /\ stack[i].op = "resolve" => stack'[i].packet = stack[i].packet
<1>1. /\ stack' = [i \in 1 .. Depth |->
                     IF stack[i].op = "resolve" /\ stack[i].left > 0
                     THEN [stack[i] EXCEPT !.left = @ - 1] ELSE stack[i]]
      /\ UNCHANGED <<card, isr, ptr, free_list, arp_cache, ip_packet, hist>>
  BY DEF Tick
<1>2. Depth \in Nat /\ \A i \in 1 .. Depth : stack[i] \in Calls
  BY DEF IndInv, TypeOK, Depth
<1>3. ASSUME NEW i \in 1 .. Depth
      PROVE  /\ stack'[i] \in Calls /\ stack'[i].op = stack[i].op
             /\ Busy(stack'[i]) <=> Busy(stack[i])
             /\ Busy(stack[i]) => stack'[i] = stack[i]
             /\ stack[i].op = "resolve" => stack'[i].packet = stack[i].packet
  <2> DEFINE k == stack[i]
             m == [k EXCEPT !.left = @ - 1]
  <2>1. k \in Calls
    BY <1>2
  <2>2. stack'[i] = IF k.op = "resolve" /\ k.left > 0 THEN m ELSE k
    BY <1>1
  <2> HIDE DEF k
  <2>3. ASSUME k.op = "resolve", k.left > 0
        PROVE  m \in Calls /\ m.op = "resolve" /\ m.packet = k.packet /\ ~ Busy(m) /\ ~ Busy(k)
    <3>1. k \in [op : {"resolve"}, host : Hosts, packet : 0 .. MaxFrames, left : 0 .. Wait]
      BY <2>1, <2>3 DEF Calls, Poll, Holding
    <3>2. m \in [op : {"resolve"}, host : Hosts, packet : 0 .. MaxFrames, left : 0 .. Wait]
          /\ m.packet = k.packet
      BY <3>1, <2>3, NetPollAssumption
    <3> QED
      BY <3>1, <3>2 DEF Calls, Busy
  <2> HIDE DEF m
  <2> QED
    BY <2>1, <2>2, <2>3 DEF k, Busy
<1>4. stack' \in Seq(Calls) /\ Depth' = Depth
  <2>1. stack' \in [1 .. Depth -> Calls]
    BY <1>1, <1>3
  <2> QED
    BY <2>1, <1>2 DEF Depth
<1> QED
  BY <1>1, <1>2, <1>3, <1>4

LEMMA TickKeeps ==
  ASSUME IndInv, Tick
  PROVE  IndInv'
<1>1. UNCHANGED <<card, isr, ptr, free_list, arp_cache, ip_packet, hist>>
  BY TickIs
<1>2. Depth \in Nat
  BY TickIs
<1>3. \A i \in 1 .. Depth :
        /\ stack'[i] \in Calls /\ stack'[i].op = stack[i].op
        /\ Busy(stack'[i]) <=> Busy(stack[i])
        /\ Busy(stack[i]) => stack'[i] = stack[i]
        /\ stack[i].op = "resolve" => stack'[i].packet = stack[i].packet
  BY TickIs
<1>4. stack' \in Seq(Calls) /\ Depth' = Depth
  BY TickIs
<1>5. TypeOK' /\ HistOK'
  BY <1>1, <1>4 DEF IndInv, TypeOK, HistOK, card
<1>6. CellsOfFrames'
  BY <1>1, CardSame
<1>7. Alternates'
  <2>1. ASSUME NEW i \in 1 .. Depth - 1
        PROVE  /\ stack'[i].op = "poll" <=> stack'[i + 1].op = "resolve"
               /\ stack'[i].op = "poll" => Busy(stack'[i])
    <3>1. i \in 1 .. Depth /\ i + 1 \in 1 .. Depth
      BY <1>2
    <3> QED
      BY <3>1, <1>3 DEF IndInv, Alternates
  <2>2. ~ Idle' => ~ Busy(stack'[Depth])
    <3>1. Idle' <=> Depth = 0
      BY <1>4 DEF Idle, Depth
    <3>2. Idle <=> Depth = 0
      BY DEF Idle, Depth, IndInv, TypeOK
    <3> QED
      BY <3>1, <3>2, <1>2, <1>3 DEF IndInv, Alternates
  <2> QED
    BY <2>1, <2>2, <1>4 DEF Alternates, Busy
<1>8. BuffersConserved'
  <2>1. Holders' = Holders
    BY <1>3, <1>4 DEF Holders, Busy
  <2>2. \A i \in Holders : stack'[i].buf = stack[i].buf
    BY <1>3 DEF Holders
  <2>3. (\A i, j \in Holders : stack[i].buf = stack[j].buf => i = j)'
    BY <2>1, <2>2 DEF IndInv, BuffersConserved
  <2>4. {stack'[i].buf : i \in Holders} = {stack[i].buf : i \in Holders}
    BY <2>2
  <2> QED
    BY <1>1, <2>1, <2>3, <2>4 DEF IndInv, BuffersConserved
<1>9. CacheSound'
  BY <1>1, CacheSame
<1>10. OwnPacket'
  BY <1>1, <1>3, <1>4 DEF IndInv, OwnPacket
<1> QED
  BY <1>5, <1>6, <1>7, <1>8, <1>9, <1>10 DEF IndInv

LEMMA SendKeeps ==
  ASSUME IndInv, NEW h \in Hosts, Send(h)
  PROVE  IndInv'
<1>1. /\ UNCHANGED <<card, isr, ptr, free_list, arp_cache, hist>>
      /\ ip_packet' = 0 /\ stack = <<>> /\ stack' \in {<<>>, <<Resolve(h, 0)>>}
  BY DEF Send, Idle
<1>2. Resolve(h, 0) \in Calls /\ Resolve(h, 0).op = "resolve" /\ ~ Busy(Resolve(h, 0))
      /\ Resolve(h, 0).packet = 0
  BY NetPollAssumption DEF Calls, Resolve, Busy
<1>3. /\ stack' \in Seq(Calls) /\ Depth' \in {0, 1} /\ Depth = 0
      /\ \A i \in 1 .. Depth' : stack'[i] = Resolve(h, 0)
  <2>1. CASE stack' = <<>>
    BY <2>1, <1>1 DEF Depth
  <2>2. CASE stack' = <<Resolve(h, 0)>>
    BY <2>2, <1>1, <1>2 DEF Depth
  <2> QED
    BY <1>1, <2>1, <2>2
<1>4. TypeOK' /\ HistOK'
  BY <1>1, <1>3, NetPollAssumption DEF IndInv, TypeOK, HistOK, card
<1>5. CellsOfFrames' /\ CacheSound'
  BY <1>1, CardSame, CacheSame
<1>6. Alternates'
  <2>1. (\A i \in 1 .. Depth - 1 : /\ stack[i].op = "poll" <=> stack[i + 1].op = "resolve"
                                   /\ stack[i].op = "poll" => Busy(stack[i]))'
    <3>1. Depth' = 0 \/ Depth' = 1
      BY <1>3
    <3> QED
      BY <3>1
  <2>2. ~ Idle' => ~ Busy(stack'[Depth'])
    BY <1>1, <1>2, <1>3 DEF Idle, Depth
  <2> QED
    BY <2>1, <2>2 DEF Alternates, Busy
<1>7. BuffersConserved'
  <2>1. Holders = {} /\ Holders' = {}
    BY <1>2, <1>3 DEF Holders, Busy
  <2> QED
    BY <1>1, <2>1 DEF IndInv, BuffersConserved
<1>8. OwnPacket'
  BY <1>1, <1>2, <1>3 DEF IndInv, OwnPacket
<1> QED
  BY <1>4, <1>5, <1>6, <1>7, <1>8 DEF IndInv

LEMMA ResolvedKeeps ==
  ASSUME IndInv, Resolved
  PROVE  IndInv'
<1>1. /\ Innermost("resolve") /\ Resume(Outer) /\ UNCHANGED <<card, isr, arp_cache, ip_packet>>
      /\ hist' = [hist EXCEPT !.mangled = hist.mangled \/ ip_packet # stack[Depth].packet]
  BY DEF Resolved
<1>2. HistOK' /\ hist'.lost = hist.lost /\ hist'.heard = hist.heard /\ hist'.answered = hist.answered
      /\ (hist'.mangled <=> hist.mangled \/ ip_packet # stack[Depth].packet)
  <2>1. (hist.mangled \/ ip_packet # stack[Depth].packet) \in BOOLEAN
    BY DEF IndInv, HistOK
  <2> QED
    BY <1>1, <2>1 DEF IndInv, HistOK
<1>3. /\ stack' \in Seq(Calls) /\ ptr' \in 0 .. Laps * Ring - 1 /\ free_list' \subseteq Buffers
      /\ Alternates' /\ BuffersConserved'
      /\ \A i \in 1 .. Depth' : stack'[i].op = "resolve" => i \in 1 .. Depth /\ stack'[i] = stack[i]
  BY <1>1, Resumed
<1>4. CellsOfFrames' /\ CacheSound'
  BY <1>1, <1>2, CardSame, CacheSame
<1>5. TypeOK'
  BY <1>1, <1>3 DEF IndInv, TypeOK, card
<1>6. OwnPacket'
  <2>1. Depth \in 1 .. Depth /\ stack[Depth].op = "resolve"
    BY <1>1, OuterIs DEF IndInv, Innermost
  <2> QED
    BY <1>1, <1>2, <1>3, <2>1 DEF IndInv, OwnPacket
<1> QED
  BY <1>2, <1>3, <1>4, <1>5, <1>6 DEF IndInv

LEMMA TimedOutKeeps ==
  ASSUME IndInv, TimedOut
  PROVE  IndInv'
<1>1. /\ Innermost("resolve") /\ Resume(Outer)
      /\ UNCHANGED <<card, isr, arp_cache, ip_packet, hist>>
  BY DEF TimedOut
<1>2. /\ stack' \in Seq(Calls) /\ ptr' \in 0 .. Laps * Ring - 1 /\ free_list' \subseteq Buffers
      /\ Alternates' /\ BuffersConserved'
      /\ \A i \in 1 .. Depth' : stack'[i].op = "resolve" => i \in 1 .. Depth /\ stack'[i] = stack[i]
  BY <1>1, Resumed
<1>3. CellsOfFrames' /\ CacheSound' /\ HistOK'
  BY <1>1, CardSame, CacheSame DEF IndInv, HistOK
<1>4. TypeOK'
  BY <1>1, <1>2 DEF IndInv, TypeOK, card
<1>5. OwnPacket'
  BY <1>1, <1>2 DEF IndInv, OwnPacket
<1> QED
  BY <1>2, <1>3, <1>4, <1>5 DEF IndInv

LEMMA EthPollKeeps ==
  ASSUME IndInv, EthPoll
  PROVE  IndInv'
<1>1. /\ Idle \/ Innermost("resolve")
      /\ isr' = FALSE /\ stack' = Append(stack, Poll)
      /\ hist' = [hist EXCEPT !.nested = @ \/ \E i \in 1 .. Depth : Busy(stack[i])]
      /\ UNCHANGED <<card, ptr, free_list, arp_cache, ip_packet>>
  BY DEF EthPoll
<1>2. Poll \in Calls /\ Poll.op = "poll" /\ ~ Busy(Poll)
  BY DEF Calls, Poll, Busy
<1>3. /\ stack' \in Seq(Calls) /\ Depth' = Depth + 1 /\ stack'[Depth'] = Poll /\ Depth \in Nat
      /\ \A i \in 1 .. Depth : stack'[i] = stack[i]
  BY <1>1, <1>2 DEF IndInv, TypeOK, Depth
<1>4. HistOK' /\ hist'.lost = hist.lost /\ hist'.heard = hist.heard /\ hist'.answered = hist.answered
      /\ hist'.mangled = hist.mangled
  <2>1. (hist.nested \/ \E i \in 1 .. Depth : Busy(stack[i])) \in BOOLEAN
    BY DEF IndInv, HistOK
  <2> QED
    BY <1>1, <2>1 DEF IndInv, HistOK
<1>5. TypeOK'
  BY <1>1, <1>3 DEF IndInv, TypeOK, card
<1>6. CellsOfFrames' /\ CacheSound'
  BY <1>1, <1>4, CardSame, CacheSame
<1>7. Alternates'
  <2>1. ASSUME NEW i \in 1 .. Depth' - 1
        PROVE  /\ stack'[i].op = "poll" <=> stack'[i + 1].op = "resolve"
               /\ stack'[i].op = "poll" => Busy(stack'[i])
    <3>1. CASE i = Depth
      <4>1. ~ Idle
        BY <3>1, <1>3 DEF Idle, Depth
      <4>2. stack'[i].op = "resolve" /\ stack'[i + 1].op = "poll"
        <5>1. stack[Depth].op = "resolve" /\ Depth \in 1 .. Depth
          BY <4>1, <1>1, <1>3, OuterIs DEF IndInv, Innermost
        <5>2. stack'[i] = stack[Depth] /\ stack'[i + 1] = Poll
          BY <3>1, <5>1, <1>3
        <5> QED
          BY <5>1, <5>2, <1>2
      <4> QED
        BY <4>2
    <3>2. CASE i # Depth
      <4>1. i \in 1 .. Depth - 1 /\ i \in 1 .. Depth /\ i + 1 \in 1 .. Depth
        BY <3>2, <1>3
      <4>2. stack'[i] = stack[i] /\ stack'[i + 1] = stack[i + 1]
        BY <4>1, <1>3
      <4> QED
        BY <4>1, <4>2 DEF IndInv, Alternates
    <3> QED
      BY <3>1, <3>2
  <2>2. ~ Busy(stack'[Depth'])
    BY <1>2, <1>3
  <2> QED
    BY <2>1, <2>2 DEF Alternates, Busy
<1>8. BuffersConserved'
  <2>1. Holders' = Holders
    BY <1>2, <1>3 DEF Holders, Busy
  <2>2. \A i \in Holders : stack'[i].buf = stack[i].buf
    BY <1>3 DEF Holders
  <2>3. (\A i, j \in Holders : stack[i].buf = stack[j].buf => i = j)'
    BY <2>1, <2>2 DEF IndInv, BuffersConserved
  <2>4. {stack'[i].buf : i \in Holders} = {stack[i].buf : i \in Holders}
    BY <2>2
  <2> QED
    BY <1>1, <2>1, <2>3, <2>4 DEF IndInv, BuffersConserved
<1>9. OwnPacket'
  <2>1. \A i \in 1 .. Depth' : stack'[i].op = "resolve" => i \in 1 .. Depth /\ stack'[i] = stack[i]
    BY <1>2, <1>3
  <2> QED
    BY <1>1, <1>4, <2>1 DEF IndInv, OwnPacket
<1> QED
  BY <1>4, <1>5, <1>6, <1>7, <1>8, <1>9 DEF IndInv
-----------------------------------------------------------------------------
(* The poll that looks at the ring is the innermost call, and what is      *)
(* outside it waits for an address.                                        *)
LEMMA LookingIs ==
  ASSUME IndInv, Looking
  PROVE  /\ ~ Idle /\ Depth \in Nat \ {0} /\ stack[Depth].op = "poll" /\ ~ Busy(stack[Depth])
         /\ Outer \in Seq(Calls) /\ Len(Outer) = Depth - 1
         /\ \A i \in 1 .. Depth - 1 : Outer[i] = stack[i] /\ stack[i] \in Calls
         /\ Depth # 1 => stack[Depth - 1].op = "resolve" /\ ~ Busy(stack[Depth - 1])
<1>1. /\ ~ Idle /\ Depth \in Nat \ {0} /\ stack[Depth].op = "poll" /\ ~ Busy(stack[Depth])
      /\ Outer \in Seq(Calls) /\ Len(Outer) = Depth - 1
      /\ \A i \in 1 .. Depth - 1 : Outer[i] = stack[i]
      /\ \A i \in 1 .. Depth : stack[i] \in Calls
  BY OuterIs DEF IndInv, Looking, Innermost
<1>2. ASSUME Depth # 1 PROVE stack[Depth - 1].op = "resolve" /\ ~ Busy(stack[Depth - 1])
  <2> DEFINE d == Depth - 1
  <2>1. d \in 1 .. Depth - 1 /\ d + 1 = Depth /\ d \in 1 .. Depth
    BY <1>1, <1>2
  <2> HIDE DEF d
  <2>2. ~ stack[d].op = "poll"
    BY <1>1, <2>1 DEF IndInv, Alternates
  <2>3. stack[d] \in Calls
    BY <1>1, <2>1
  <2>4. stack[d].op = "resolve" /\ ~ Busy(stack[d])
    BY <2>2, <2>3, CallKinds
  <2> QED
    BY <2>4 DEF d
<1>3. \A i \in 1 .. Depth - 1 : i \in 1 .. Depth
  BY <1>1
<1> QED
  BY <1>1, <1>2, <1>3

LEMMA PollOver ==
  ASSUME IndInv, Looking, stack' = Outer, UNCHANGED free_list
  PROVE  /\ stack' \in Seq(Calls) /\ Alternates' /\ BuffersConserved'
         /\ \A i \in 1 .. Depth' : i \in 1 .. Depth /\ stack'[i] = stack[i]
<1>1. Outer = <<>> \/ ~ Busy(Outer[Len(Outer)])
  <2>1. CASE Depth = 1
    BY <2>1, LookingIs
  <2>2. CASE Depth # 1
    BY <2>2, LookingIs
  <2> QED
    BY <2>1, <2>2
<1>2. Depth' = Depth - 1 /\ \A i \in 1 .. Depth - 1 : stack'[i] = stack[i]
  BY LookingIs DEF Depth
<1>3. \A i \in 1 .. Depth' : i \in 1 .. Depth /\ stack'[i] = stack[i]
  BY <1>2, LookingIs
<1> QED
  BY <1>1, <1>3, LookingIs, Popped

LEMMA NoMoreKeeps ==
  ASSUME IndInv, NoMore
  PROVE  IndInv'
<1>1. /\ Looking /\ stack' = Outer
      /\ UNCHANGED <<card, isr, ptr, free_list, arp_cache, ip_packet, hist>>
  BY DEF NoMore
<1>2. /\ stack' \in Seq(Calls) /\ Alternates' /\ BuffersConserved'
      /\ \A i \in 1 .. Depth' : i \in 1 .. Depth /\ stack'[i] = stack[i]
  BY <1>1, PollOver
<1>3. CellsOfFrames' /\ CacheSound' /\ HistOK'
  BY <1>1, CardSame, CacheSame DEF IndInv, HistOK
<1>4. TypeOK'
  BY <1>1, <1>2 DEF IndInv, TypeOK, card
<1>5. OwnPacket'
  BY <1>1, <1>2 DEF IndInv, OwnPacket
<1> QED
  BY <1>2, <1>3, <1>4, <1>5 DEF IndInv

LEMMA BadHeaderKeeps ==
  ASSUME IndInv, BadHeader
  PROVE  IndInv'
<1>1. /\ Looking /\ stack' = Outer /\ ptr' = cbr
      /\ UNCHANGED <<card, isr, free_list, arp_cache, ip_packet, hist>>
  BY DEF BadHeader
<1>2. /\ stack' \in Seq(Calls) /\ Alternates' /\ BuffersConserved'
      /\ \A i \in 1 .. Depth' : i \in 1 .. Depth /\ stack'[i] = stack[i]
  BY <1>1, PollOver
<1>3. CellsOfFrames' /\ CacheSound' /\ HistOK'
  BY <1>1, CardSame, CacheSame DEF IndInv, HistOK
<1>4. ptr' \in 0 .. Laps * Ring - 1
  <2>1. Ring \in Nat /\ Laps \in Nat \ {0} /\ Laps * Ring \in Nat
    BY NetPollAssumption, Moduli
  <2>2. Ring <= Laps * Ring
    BY <2>1
  <2>3. ptr' \in 0 .. Ring - 1
    BY <1>1 DEF IndInv, TypeOK
  <2> DEFINE all == Laps * Ring
  <2> HIDE DEF all
  <2>4. ptr' \in 0 .. all - 1
    BY <2>1, <2>2, <2>3 DEF all
  <2> QED
    BY <2>4 DEF all
<1>5. TypeOK'
  BY <1>1, <1>2, <1>4 DEF IndInv, TypeOK, card
<1>6. OwnPacket'
  BY <1>1, <1>2 DEF IndInv, OwnPacket
<1> QED
  BY <1>2, <1>3, <1>5, <1>6 DEF IndInv

LEMMA NoBufferKeeps ==
  ASSUME IndInv, NoBuffer
  PROVE  IndInv'
<1>1. UNCHANGED <<card, isr, free_list, arp_cache, ip_packet, stack, hist>>
  BY DEF NoBuffer
<1>2. ptr' \in 0 .. Laps * Ring - 1
  BY AdvanceOK, HeaderFacts DEF NoBuffer, IndInv
<1>3. CellsOfFrames' /\ CacheSound' /\ HistOK' /\ Alternates' /\ BuffersConserved'
  BY <1>1, CardSame, CacheSame, StackSame DEF IndInv, HistOK
<1>4. TypeOK'
  BY <1>1, <1>2 DEF IndInv, TypeOK, card
<1>5. OwnPacket'
  BY <1>1 DEF IndInv, OwnPacket, Depth
<1> QED
  BY <1>3, <1>4, <1>5 DEF IndInv

(* arp_cache_add() keeps one entry for every host.                         *)
LEMMA CacheAdded ==
  ASSUME IndInv, NEW h \in Hosts, NEW m \in Macs,
         arp_cache' = CacheAdd(arp_cache, h, m),
         hist'.heard = [hist.heard EXCEPT ![h] = m]
  PROVE  arp_cache' \in Seq([host : Hosts, mac : Macs]) /\ CacheSound'
<1> DEFINE c == arp_cache
           n == Len(c)
           s == Slot(c, h)
           E == [host : Hosts, mac : Macs]
           new == [host |-> h, mac |-> m]
<1>1. c \in Seq(E) /\ n \in Nat /\ n <= CacheSize /\ CacheSize \in Nat \ {0}
      /\ hist.heard \in [Hosts -> Macs \cup {0}] /\ new \in E
  BY NetPollAssumption DEF IndInv, TypeOK, CacheSound, HistOK
<1>2. \A i, j \in 1 .. n : c[i].host = c[j].host => i = j
  BY DEF IndInv, CacheSound
<1>3. \A i \in 1 .. n : c[i] \in E /\ c[i].mac = hist.heard[c[i].host]
  <2>1. \A i \in 1 .. n : c[i] \in E
    <3> HIDE DEF c, E
    <3> QED
      BY <1>1
  <2>2. \A i \in 1 .. n : c[i].mac = hist.heard[c[i].host]
    BY DEF IndInv, CacheSound
  <2> QED
    BY <2>1, <2>2
<1>4. c' = [i \in 1 .. n \cup {s} |-> IF i = s THEN new ELSE c[i]]
  BY DEF CacheAdd
<1>5. /\ s \in 1 .. n \/ (s = n + 1 /\ n < CacheSize)
      /\ \A i \in 1 .. n : i # s => c[i].host # h
  <2>1. CASE \E i \in 1 .. n : c[i].host = h
    <3>1. s \in 1 .. n /\ c[s].host = h
      BY <2>1 DEF Slot
    <3> QED
      BY <3>1, <1>2
  <2>2. CASE ~ \E i \in 1 .. n : c[i].host = h
    <3>1. s = IF n < CacheSize THEN n + 1 ELSE 1
      BY <2>2 DEF Slot
    <3> QED
      BY <3>1, <2>2, <1>1
  <2> QED
    BY <2>1, <2>2
<1> HIDE DEF c, s, E, new
<1>6. \E k \in Nat : n <= k /\ k <= CacheSize /\ 1 .. n \cup {s} = 1 .. k
  <2>1. CASE s \in 1 .. n
    BY <2>1, <1>1
  <2>2. CASE s = n + 1 /\ n < CacheSize
    <3>1. 1 .. n \cup {s} = 1 .. n + 1 /\ n + 1 \in Nat /\ n + 1 <= CacheSize /\ n <= n + 1
      BY <2>2, <1>1
    <3> QED
      BY <3>1
  <2> QED
    BY <2>1, <2>2, <1>5
<1>7. PICK k \in Nat : n <= k /\ k <= CacheSize /\ 1 .. n \cup {s} = 1 .. k
  BY <1>6
<1>8. \A i \in 1 .. k : i = s \/ i \in 1 .. n
  BY <1>7
<1>9. /\ \A i \in 1 .. k : c'[i] = IF i = s THEN new ELSE c[i]
      /\ c' \in [1 .. k -> E]
  BY <1>1, <1>3, <1>4, <1>7, <1>8
<1>10. c' \in Seq(E) /\ Len(c') = k
  BY <1>9
<1>11. new.host = h /\ new.mac = m
  BY DEF new
<1>12. \A i, j \in 1 .. k : c'[i].host = c'[j].host => i = j
  BY <1>2, <1>5, <1>8, <1>9, <1>11
<1>13. ASSUME NEW i \in 1 .. k PROVE c'[i].mac = hist'.heard[c'[i].host]
  <2>1. CASE i = s
    BY <2>1, <1>1, <1>9, <1>11
  <2>2. CASE i # s
    <3>1. i \in 1 .. n /\ c'[i] = c[i] /\ c[i].host # h
      BY <2>2, <1>5, <1>8, <1>9
    <3>2. c[i].host \in Hosts
      BY <3>1, <1>3 DEF E
    <3> QED
      BY <3>1, <3>2, <1>1, <1>3
  <2> QED
    BY <2>1, <2>2
<1>14. CacheSound'
  BY <1>7, <1>10, <1>12, <1>13 DEF CacheSound, c
<1> QED
  BY <1>10, <1>14 DEF c, E

(* What follows from a frame that was handed over and needs no wait.       *)
LEMMA HandleKeeps ==
  ASSUME IndInv, Handle
  PROVE  IndInv'
<1>1. UNCHANGED <<card, isr, free_list, stack>>
  BY DEF Handle
<1>2. PICK z \in SizesFound :
        /\ Advance(z)
        /\ \/ /\ KindFound(z) = "outro" /\ Discard(Number(z)) /\ UNCHANGED ip_packet
           \/ /\ KindFound(z) = "arp" /\ ArpRecv(frames[Number(z)]) /\ UNCHANGED ip_packet
           \/ /\ KindFound(z) = "dados" /\ Cached(frames[Number(z)].host)
              /\ Answer(Number(z)) /\ UNCHANGED arp_cache
  BY DEF Handle
<1> DEFINE n == Number(z)
<1>3. ptr' \in 0 .. Laps * Ring - 1
  BY <1>2, AdvanceOK, HeaderFacts DEF IndInv
<1>4. n \in Nat /\ n \in 0 .. MaxFrames /\ Header.frame \in Nat
  <2>1. Len(frames) <= MaxFrames /\ Len(frames) \in Nat /\ MaxFrames \in Nat
    BY NetPollAssumption DEF IndInv, CellsOfFrames, TypeOK, HistOK
  <2> QED
    BY <2>1, HeaderFacts
<1>5. (KindFound(z) # "outro") => frames[n] \in Frames
  BY HeaderFacts
<1> HIDE DEF n
<1>6. Alternates' /\ BuffersConserved'
  BY <1>1, StackSame
<1>7. CASE UNCHANGED arp_cache /\ hist' = Noted(n) /\ UNCHANGED ip_packet
  <2>1. HistOK' /\ hist'.lost = hist.lost /\ hist'.heard = hist.heard /\ hist'.answered = hist.answered
        /\ hist'.mangled = hist.mangled
    BY <1>4, <1>7, NotedIs DEF IndInv, HistOK
  <2>2. CellsOfFrames' /\ CacheSound'
    BY <1>1, <1>7, <2>1, CardSame, CacheSame
  <2>3. TypeOK'
    BY <1>1, <1>3, <1>7 DEF IndInv, TypeOK, card
  <2>4. OwnPacket'
    BY <1>1, <1>7, <2>1 DEF IndInv, OwnPacket, Depth
  <2> QED
    BY <1>6, <2>1, <2>2, <2>3, <2>4 DEF IndInv
<1>8. CASE /\ frames[n] \in Frames /\ ArpRecv(frames[n]) /\ UNCHANGED ip_packet
  <2> DEFINE f == frames[n]
             note == Noted(Header.frame)
  <2>1. f.host \in Hosts /\ f.mac \in Macs
    BY <1>8 DEF Frames
  <2>2. arp_cache' = CacheAdd(arp_cache, f.host, f.mac)
        /\ hist' = [note EXCEPT !.heard[f.host] = f.mac]
    BY <1>8 DEF ArpRecv
  <2>3. /\ note \in [lost : Nat, stored : Nat, seen : Nat, orderly : BOOLEAN,
                     nested : BOOLEAN, mangled : BOOLEAN, answered : BOOLEAN,
                     heard : [Hosts -> Macs \cup {0}]]
        /\ note.lost = hist.lost /\ note.heard = hist.heard /\ note.answered = hist.answered
        /\ note.mangled = hist.mangled
    BY <1>4, NotedIs DEF IndInv
  <2> HIDE DEF f, note
  <2>4. HistOK' /\ hist'.lost = hist.lost /\ hist'.heard = [hist.heard EXCEPT ![f.host] = f.mac]
        /\ hist'.answered = hist.answered /\ hist'.mangled = hist.mangled
    <3>1. [hist.heard EXCEPT ![f.host] = f.mac] \in [Hosts -> Macs \cup {0}]
      BY <2>1 DEF IndInv, HistOK
    <3> QED
      BY <2>2, <2>3, <3>1 DEF HistOK
  <2>5. arp_cache' \in Seq([host : Hosts, mac : Macs]) /\ CacheSound'
    BY <2>1, <2>2, <2>4, CacheAdded
  <2>6. CellsOfFrames'
    BY <1>1, <2>4, CardSame
  <2>7. TypeOK'
    BY <1>1, <1>3, <1>8, <2>5 DEF IndInv, TypeOK, card
  <2>8. OwnPacket'
    BY <1>1, <1>8, <2>4 DEF IndInv, OwnPacket, Depth
  <2> QED
    BY <1>6, <2>4, <2>5, <2>6, <2>7, <2>8 DEF IndInv
<1>9. CASE Answer(n) /\ UNCHANGED arp_cache
  <2> DEFINE note == Noted(n)
             waits == \E i \in 1 .. Depth : stack[i].op = "resolve"
  <2>1. ip_packet' = n /\ hist' = [note EXCEPT !.answered = note.answered \/ waits]
    BY <1>9 DEF Answer
  <2>2. /\ note \in [lost : Nat, stored : Nat, seen : Nat, orderly : BOOLEAN,
                     nested : BOOLEAN, mangled : BOOLEAN, answered : BOOLEAN,
                     heard : [Hosts -> Macs \cup {0}]]
        /\ note.lost = hist.lost /\ note.heard = hist.heard /\ note.answered = hist.answered
        /\ note.mangled = hist.mangled
    BY <1>4, NotedIs DEF IndInv
  <2> HIDE DEF note
  <2>3. (note.answered \/ waits) \in BOOLEAN
    OBVIOUS
  <2>4. HistOK' /\ hist'.lost = hist.lost /\ hist'.heard = hist.heard
        /\ (hist'.answered <=> hist.answered \/ waits) /\ hist'.mangled = hist.mangled
    BY <2>1, <2>2, <2>3 DEF HistOK
  <2>5. CellsOfFrames' /\ CacheSound'
    BY <1>1, <1>9, <2>4, CardSame, CacheSame
  <2>6. TypeOK'
    BY <1>1, <1>3, <1>4, <1>9, <2>1 DEF IndInv, TypeOK, card
  <2>7. OwnPacket'
    BY <1>1, <2>4 DEF IndInv, OwnPacket, Depth
  <2> QED
    BY <1>6, <2>4, <2>5, <2>6, <2>7 DEF IndInv
<1> QED
  BY <1>2, <1>5, <1>7, <1>8, <1>9 DEF n, Discard

(* The buffer is in use until the wait for the address is over.            *)
LEMMA HandleAndWaitKeeps ==
  ASSUME IndInv, HandleAndWait
  PROVE  IndInv'
<1>1. Looking /\ UNCHANGED <<card, isr, ptr, arp_cache>>
  BY DEF HandleAndWait
<1>2. PICK z \in SizesFound, b \in free_list :
        /\ KindFound(z) = "dados" /\ NetbufAlloc(b)
        /\ stack' = Outer \o <<Holding(b, z), Resolve(frames[Number(z)].host, Number(z))>>
        /\ Answer(Number(z))
  BY DEF HandleAndWait
<1> DEFINE n == Number(z)
           p == Holding(b, z)
           r == Resolve(frames[n].host, n)
           note == Noted(n)
           waits == \E i \in 1 .. Depth : stack[i].op = "resolve"
<1>3. n \in Nat /\ n \in 0 .. MaxFrames /\ frames[n] \in Frames /\ z \in 1 .. Longest
  <2>1. Len(frames) <= MaxFrames /\ Len(frames) \in Nat /\ MaxFrames \in Nat
    BY NetPollAssumption DEF IndInv, CellsOfFrames, TypeOK, HistOK
  <2> QED
    BY <1>2, <2>1, HeaderFacts
<1> HIDE DEF n
<1>4. b \in Buffers /\ free_list' = free_list \ {b}
  BY <1>2 DEF IndInv, TypeOK, NetbufAlloc
<1>5. /\ p \in Calls /\ p.op = "poll" /\ Busy(p) /\ p.buf = b
      /\ r \in Calls /\ r.op = "resolve" /\ ~ Busy(r) /\ r.packet = n
  BY <1>3, <1>4, NetPollAssumption DEF Calls, Holding, Resolve, Busy, Frames
<1>6. stack' = Outer \o <<p, r>>
  BY <1>2 DEF n
<1>7. ip_packet' = n /\ hist' = [note EXCEPT !.answered = note.answered \/ waits]
  BY <1>2 DEF Answer, n
<1> HIDE DEF p, r
<1>8. /\ stack' \in Seq(Calls) /\ Depth' = Depth + 1 /\ Depth \in Nat \ {0}
      /\ stack'[Depth] = p /\ stack'[Depth + 1] = r
      /\ \A i \in 1 .. Depth - 1 : stack'[i] = stack[i]
  <2> DEFINE o == Outer
             d == Depth
  <2>1. o \in Seq(Calls) /\ Len(o) = d - 1 /\ d \in Nat \ {0} /\ stack' = o \o <<p, r>>
        /\ \A i \in 1 .. d - 1 : o[i] = stack[i]
    BY <1>1, <1>6, LookingIs
  <2>2. Depth' = Len(stack')
    BY DEF Depth
  <2> HIDE DEF o, d
  <2>3. stack' \in Seq(Calls) /\ Len(stack') = d + 1
    BY <2>1, <1>5
  <2>4. /\ <<p, r>> \in Seq(Calls) /\ Len(<<p, r>>) = 2
        /\ <<p, r>>[1] = p /\ <<p, r>>[2] = r
    BY <1>5
  <2>5. \A i \in 1 .. d + 1 : stack'[i] = IF i <= d - 1 THEN o[i] ELSE <<p, r>>[i - (d - 1)]
    BY <2>1, <2>4
  <2>6. stack'[d] = p /\ stack'[d + 1] = r /\ \A i \in 1 .. d - 1 : stack'[i] = o[i]
    <3>1. d \in 1 .. d + 1 /\ d + 1 \in 1 .. d + 1 /\ d - (d - 1) = 1 /\ (d + 1) - (d - 1) = 2
      BY <2>1
    <3>2. \A i \in 1 .. d - 1 : i \in 1 .. d + 1 /\ i <= d - 1
      BY <2>1
    <3>3. ~ (d <= d - 1) /\ ~ (d + 1 <= d - 1)
      BY <2>1
    <3> QED
      BY <2>4, <2>5, <3>1, <3>2, <3>3
  <2> QED
    BY <2>1, <2>2, <2>3, <2>6 DEF d
<1>9. \A i \in 1 .. Depth' : i \in 1 .. Depth - 1 \/ i = Depth \/ i = Depth + 1
  BY <1>8
<1>10. HistOK' /\ hist'.lost = hist.lost /\ hist'.heard = hist.heard
       /\ (hist'.answered <=> hist.answered \/ waits) /\ hist'.mangled = hist.mangled
  <2>1. /\ note \in [lost : Nat, stored : Nat, seen : Nat, orderly : BOOLEAN,
                     nested : BOOLEAN, mangled : BOOLEAN, answered : BOOLEAN,
                     heard : [Hosts -> Macs \cup {0}]]
        /\ note.lost = hist.lost /\ note.heard = hist.heard /\ note.answered = hist.answered
        /\ note.mangled = hist.mangled
    BY <1>3, NotedIs DEF IndInv
  <2> HIDE DEF note
  <2>2. (note.answered \/ waits) \in BOOLEAN
    OBVIOUS
  <2> QED
    BY <1>7, <2>1, <2>2 DEF HistOK
<1>11. CellsOfFrames' /\ CacheSound'
  BY <1>1, <1>10, CardSame, CacheSame
<1>12. TypeOK'
  BY <1>1, <1>3, <1>4, <1>7, <1>8 DEF IndInv, TypeOK, card
<1>13. Alternates'
  <2>1. ASSUME NEW i \in 1 .. Depth' - 1
        PROVE  /\ stack'[i].op = "poll" <=> stack'[i + 1].op = "resolve"
               /\ stack'[i].op = "poll" => Busy(stack'[i])
    <3>1. CASE i = Depth
      BY <3>1, <1>5, <1>8
    <3>2. CASE i # Depth
      <4>1. i \in 1 .. Depth - 1 /\ i + 1 \in 1 .. Depth /\ stack'[i] = stack[i]
        BY <3>2, <1>8
      <4>2. stack'[i + 1].op = stack[i + 1].op
        <5>1. CASE i + 1 = Depth
          BY <5>1, <1>1, <1>5, <1>8, LookingIs
        <5>2. CASE i + 1 # Depth
          BY <5>2, <4>1, <1>8
        <5> QED
          BY <5>1, <5>2
      <4> QED
        BY <4>1, <4>2 DEF IndInv, Alternates
    <3> QED
      BY <3>1, <3>2
  <2>2. ~ Busy(stack'[Depth'])
    BY <1>5, <1>8
  <2> QED
    BY <2>1, <2>2 DEF Alternates, Busy
<1>14. BuffersConserved'
  <2>1. ~ Busy(stack[Depth])
    BY <1>1, LookingIs
  <2>2. \A i \in Holders : i \in 1 .. Depth - 1
    BY <2>1, <1>8 DEF Holders
  <2>3. Holders' = Holders \cup {Depth} /\ Depth \notin Holders
    <3>1. Depth \in 1 .. Depth' /\ \A i \in 1 .. Depth - 1 : i \in 1 .. Depth' /\ i \in 1 .. Depth
      BY <1>8
    <3>2. Holders' = {i \in 1 .. Depth' : Busy(stack'[i])}
      BY DEF Holders, Busy
    <3> QED
      BY <3>1, <3>2, <2>1, <2>2, <1>5, <1>8, <1>9 DEF Holders
  <2>4. \A i \in Holders : stack'[i].buf = stack[i].buf /\ stack[i].buf # b
    <3>1. b \in Buffers \ {stack[i].buf : i \in Holders}
      BY <1>2 DEF IndInv, BuffersConserved
    <3> QED
      BY <3>1, <2>2, <1>8
  <2>5. stack'[Depth].buf = b
    BY <1>5, <1>8
  <2>6. (\A i, j \in Holders : stack[i].buf = stack[j].buf => i = j)'
    BY <2>3, <2>4, <2>5 DEF IndInv, BuffersConserved
  <2>7. {stack'[i].buf : i \in Holders'} = {stack[i].buf : i \in Holders} \cup {b}
    BY <2>3, <2>4, <2>5
  <2>8. free_list' = Buffers \ {stack'[i].buf : i \in Holders'}
    BY <2>7, <1>4 DEF IndInv, BuffersConserved
  <2> QED
    BY <2>6, <2>8 DEF BuffersConserved
<1>15. OwnPacket'
  <2> SUFFICES ASSUME ~ hist'.answered
               PROVE  /\ ~ hist'.mangled
                      /\ \A i \in 1 .. Depth' : stack'[i].op = "resolve" => stack'[i].packet = n
    BY <1>7 DEF OwnPacket
  <2>1. ~ hist.answered /\ ~ waits
    BY <1>10
  <2>2. \A i \in 1 .. Depth - 1 : stack'[i].op # "resolve"
    <3>1. \A i \in 1 .. Depth - 1 : i \in 1 .. Depth
      BY <1>8
    <3> QED
      BY <3>1, <2>1, <1>8
  <2> QED
    BY <2>1, <2>2, <1>5, <1>8, <1>9, <1>10 DEF IndInv, OwnPacket
<1> QED
  BY <1>10, <1>11, <1>12, <1>13, <1>14, <1>15 DEF IndInv
-----------------------------------------------------------------------------
(* A frame that arrives, a tick of the timer, a call from outside or a step *)
(* of the stack: each keeps the invariant.                                 *)
LEMMA StepKeeps == IndInv /\ [Next]_vars => IndInv'
<1> SUFFICES ASSUME IndInv, [Next]_vars PROVE IndInv'
  OBVIOUS
<1>1. CASE UNCHANGED vars
  <2>1. UNCHANGED <<card, isr, ptr, free_list, arp_cache, ip_packet, stack, hist>>
    BY <1>1 DEF vars, card
  <2>2. CellsOfFrames' /\ CacheSound' /\ HistOK' /\ Alternates' /\ BuffersConserved'
    BY <2>1, CardSame, CacheSame, StackSame DEF IndInv, HistOK
  <2>3. TypeOK' /\ OwnPacket'
    BY <2>1 DEF IndInv, TypeOK, OwnPacket, Depth, card
  <2> QED
    BY <2>2, <2>3 DEF IndInv
<1>2. ASSUME NEW f \in Traffic, Arrive(f) PROVE IndInv'
  BY <1>2, ArriveKeeps
<1>3. ASSUME NEW h \in Hosts, Send(h) PROVE IndInv'
  BY <1>3, SendKeeps
<1>4. CASE Driver
  BY <1>4, NoMoreKeeps, BadHeaderKeeps, NoBufferKeeps, HandleKeeps, HandleAndWaitKeeps,
     ResolvedKeeps, TimedOutKeeps, EthPollKeeps DEF Driver
<1> QED
  BY <1>1, <1>2, <1>3, <1>4, OverflowKeeps, TickKeeps DEF Next

(* Frames arrive, polls nest and waits end in any order: the invariant     *)
(* holds in every state.                                                   *)
THEOREM IndInvariant == Spec => []IndInv
BY InitHolds, StepKeeps, PTL DEF Spec
-----------------------------------------------------------------------------
(* Every level of the recursion but the innermost holds a netbuf of its    *)
(* own.                                                                    *)
LEMMA NestingIsBounded == IndInv => NestingBounded
<1> SUFFICES ASSUME IndInv PROVE NestingBounded
  OBVIOUS
<1>1. Depth \in Nat /\ stack \in Seq(Calls) /\ \A i \in 1 .. Depth : stack[i] \in Calls
  BY DEF IndInv, TypeOK, Depth
<1>2. \A i \in 1 .. Depth - 1 :
        \/ stack[i].op = "poll" /\ i \in Holders
        \/ stack[i + 1].op = "poll" /\ stack[i].op # "poll"
  <2> SUFFICES ASSUME NEW i \in 1 .. Depth - 1, stack[i].op # "poll"
               PROVE  stack[i + 1].op = "poll"
    BY <1>1 DEF IndInv, Alternates, Holders
  <2>1. i + 1 \in 1 .. Depth /\ i \in 1 .. Depth
    BY <1>1
  <2>2. stack[i + 1].op # "resolve"
    BY DEF IndInv, Alternates
  <2>3. stack[i + 1] \in Calls
    BY <1>1, <2>1
  <2> QED
    BY <2>2, <2>3, CallKinds
<1> DEFINE half == (Depth - 1) \div 2
           Place(k) == IF stack[2 * k - 1].op = "poll" THEN 2 * k - 1 ELSE 2 * k
           f == [k \in 1 .. half |-> stack[Place(k)].buf]
<1>3. IsFiniteSet(Buffers) /\ Cardinality(Buffers) \in Nat
  BY NetPollAssumption, FS_CardinalityType
<1>4. CASE Depth = 0
  BY <1>3, <1>4 DEF NestingBounded
<1>5. CASE Depth # 0
  <2>1. half \in Nat /\ 2 * half <= Depth - 1 /\ Depth - 1 < 2 * half + 2
    BY <1>1, <1>5
  <2>2. ASSUME NEW k \in 1 .. half
        PROVE  Place(k) \in Holders /\ Place(k) \in {2 * k - 1, 2 * k}
    <3> HIDE DEF half
    <3>1. 2 * k - 1 \in 1 .. Depth - 1 /\ 2 * k \in 1 .. Depth - 1 /\ (2 * k - 1) + 1 = 2 * k
      BY <1>1, <2>1
    <3>2. CASE stack[2 * k - 1].op = "poll"
      BY <3>1, <3>2, <1>2
    <3>3. CASE stack[2 * k - 1].op # "poll"
      <4>1. stack[2 * k].op = "poll"
        BY <3>1, <3>3, <1>2
      <4> QED
        BY <3>1, <3>3, <4>1, <1>2
    <3> QED
      BY <3>2, <3>3
  <2> HIDE DEF Place, half
  <2>3. f \in [1 .. half -> Buffers]
    <3>1. ASSUME NEW i \in Holders PROVE stack[i].buf \in Buffers
      <4>1. stack[i] \in Calls /\ Busy(stack[i])
        BY <1>1 DEF Holders
      <4> QED
        BY <4>1, CallKinds
    <3> QED
      BY <3>1, <2>2
  <2>4. ASSUME NEW k \in 1 .. half, NEW l \in 1 .. half, f[k] = f[l] PROVE k = l
    <3>1. stack[Place(k)].buf = stack[Place(l)].buf
      BY <2>4
    <3>2. Place(k) = Place(l)
      BY <3>1, <2>2 DEF IndInv, BuffersConserved
    <3> QED
      BY <3>2, <2>1, <2>2
  <2>5. f \in Injection(1 .. half, Buffers)
    BY <2>3, <2>4 DEF Injection, IsInjective
  <2>6. IsFiniteSet(1 .. half) /\ Cardinality(1 .. half) = half
    <3>1. 1 \in Int /\ half \in Int /\ (1 > half => half = 0) /\ half - 1 + 1 = half
      BY <2>1
    <3> HIDE DEF half
    <3>2. /\ IsFiniteSet(1 .. half)
          /\ Cardinality(1 .. half) = IF 1 > half THEN 0 ELSE half - 1 + 1
      BY <3>1, FS_Interval
    <3> QED
      BY <3>1, <3>2
  <2>7. half <= Cardinality(Buffers)
    BY <1>3, <2>5, <2>6, FS_Injection
  <2> QED
    BY <1>1, <1>3, <2>1, <2>7 DEF NestingBounded
<1> QED
  BY <1>4, <1>5

LEMMA CacheIsLatest == IndInv => CacheLatest
<1> SUFFICES ASSUME IndInv, NEW h \in Hosts, Cached(h) PROVE Lookup(h) = hist.heard[h]
  BY DEF CacheLatest
<1> DEFINE P(i) == /\ arp_cache[i].host = h
                   /\ \A j \in 1 .. i - 1 : arp_cache[j].host # h
<1>1. PICK i \in 1 .. Len(arp_cache) : arp_cache[i].host = h
  BY DEF Cached
<1>2. Len(arp_cache) \in Nat
  BY DEF IndInv, TypeOK
<1>3. P(i)
  BY <1>1, <1>2 DEF IndInv, CacheSound
<1>4. P(CHOOSE k \in 1 .. Len(arp_cache) : P(k))
  BY <1>3
<1> QED
  BY <1>4, <1>3 DEF Lookup, IndInv, CacheSound

(* In every state, however deep its calls are: every netbuf is free or     *)
(* held by one poll, the netbufs bound the recursion of rtl8139_poll(),    *)
(* and the cache has the last address of every host in it.                 *)
THEOREM StackIsSound == Spec => []StackSound
<1>1. IndInv => StackSound
  BY NestingIsBounded, CacheIsLatest DEF StackSound, IndInv
<1> QED
  BY <1>1, IndInvariant, PTL

(* ip_send() sends the datagram it was given, whatever it waited for,      *)
(* unless a segment was answered during a wait.                            *)
THEOREM SendsAsGiven == Spec => []SentAsGiven
<1>1. IndInv => SentAsGiven
  BY DEF IndInv, OwnPacket, SentAsGiven
<1> QED
  BY <1>1, IndInvariant, PTL
-----------------------------------------------------------------------------
(* The first lap of the ring.  Frame f lies at c: whole, in order, and     *)
(* the next one follows.                                                   *)
Length(f) == Sizes[frames[f].kind]

StoredAt(c, f) ==
  /\ f \in 1 .. Len(frames)
  /\ c + Length(f) <= hist.stored
  /\ \A u \in 0 .. Length(f) - 1 : mem[c + u] = [frame |-> f, unit |-> u]
  /\ IF c + Length(f) = hist.stored THEN f = Len(frames)
     ELSE mem[c + Length(f)] = [frame |-> f + 1, unit |-> 0]

Layout ==
  FirstLap =>
    /\ cbr = hist.stored % Ring
    /\ \A c \in 0 .. hist.stored - 1 : mem[c].unit = 0 => StoredAt(c, mem[c].frame)

(* The driver is where the next frame begins, or will begin; while the one *)
(* it has handed over is being answered, it is still at that one.          *)
AtFrame(n) ==
  /\ ptr < hist.stored /\ hist.stored - ptr < Ring
  /\ mem[ptr] = [frame |-> n, unit |-> 0]

CaughtUp == ptr = hist.stored % (Laps * Ring) /\ hist.seen = Len(frames)

Follows ==
  FirstLap /\ ~ hist.nested =>
    /\ hist.orderly
    /\ \A i \in Holders : /\ i = Depth - 1
                          /\ AtFrame(hist.seen) /\ stack[i].size = Length(hist.seen)
    /\ Holders = {} => CaughtUp \/ AtFrame(hist.seen + 1)

RingInv == IndInv /\ Layout /\ Follows

LEMMA RingFacts ==
  /\ Ring \in Nat \ {0} /\ Laps * Ring \in Nat \ {0} /\ Ring <= Laps * Ring
  /\ \A k \in Kinds : Sizes[k] \in Nat \ {0} /\ Sizes[k] <= Ring
  /\ \A c \in 0 .. Ring - 1 : Unwrapped(c) = c /\ c \in Cells
<1>1. Ring \in Nat \ {0} /\ Laps \in Nat \ {0} /\ Laps * Ring \in Nat \ {0} /\ Slack \in Nat /\ Longest \in Nat
  BY NetPollAssumption, Moduli, LongestIsMax
<1>2. Ring <= Laps * Ring
  BY <1>1
<1>3. \A k \in Kinds : Sizes[k] \in Nat \ {0} /\ Sizes[k] <= Ring
  BY NetPollAssumption
<1>4. ASSUME NEW c \in 0 .. Ring - 1 PROVE Unwrapped(c) = c /\ c \in Cells
  <2>1. c \in Nat /\ c < Ring + Slack /\ Ring + Slack \in Nat \ {0}
    BY <1>1
  <2>2. c % (Ring + Slack) = c
    BY <2>1
  <2> QED
    BY <2>2, <1>1 DEF Unwrapped, Cells
<1> QED
  BY <1>1, <1>2, <1>3, <1>4

(* The types the proofs about the first lap need.                          *)
LEMMA LapTypes ==
  ASSUME IndInv
  PROVE  /\ hist.stored \in Nat /\ hist.seen \in Nat /\ ptr \in Nat /\ ptr < Laps * Ring
         /\ Len(frames) \in Nat /\ cbr \in Nat
         /\ \A f \in 1 .. Len(frames) : Length(f) \in Nat \ {0} /\ Length(f) <= Ring
         /\ \A c \in Cells : mem[c].frame \in Nat /\ mem[c].unit \in Nat
<1>1. /\ hist.stored \in Nat /\ hist.seen \in Nat
      /\ Len(frames) \in Nat /\ cbr \in Nat /\ frames \in Seq(Frames)
  BY RingFacts DEF IndInv, TypeOK, HistOK
<1>2. ptr \in Nat /\ ptr < Laps * Ring
  BY RingFacts DEF IndInv, TypeOK
<1>3. \A c \in Cells : mem[c].frame \in Nat /\ mem[c].unit \in Nat
  BY DEF IndInv, TypeOK
<1>4. \A f \in 1 .. Len(frames) : frames[f].kind \in Kinds
  <2>1. \A f \in 1 .. Len(frames) : frames[f] \in Frames
    BY <1>1
  <2> QED
    BY <2>1 DEF Frames
<1> QED
  BY <1>1, <1>2, <1>3, <1>4, RingFacts DEF Length

(* At a frame, the whole of it can be read.                                *)
LEMMA FrameIsThere ==
  ASSUME IndInv, Layout, FirstLap, NEW n, AtFrame(n)
  PROVE  /\ StoredAt(ptr, n) /\ ptr \in 0 .. Ring - 1 /\ Unwrapped(ptr) = ptr
         /\ IsHeader /\ Header.frame = n /\ n \in Nat \ {0}
         /\ SizesFound = {Length(n)} /\ Whole(Length(n))
<1>1. ptr \in 0 .. hist.stored - 1 /\ ptr \in 0 .. Ring - 1 /\ hist.stored <= Ring
  BY LapTypes, RingFacts DEF AtFrame, FirstLap
<1>2. Unwrapped(ptr) = ptr
  BY <1>1, RingFacts
<1>3. mem[ptr] = [frame |-> n, unit |-> 0]
  BY DEF AtFrame
<1>4. StoredAt(ptr, n)
  BY <1>1, <1>3 DEF Layout
<1>5. n \in 1 .. Len(frames) /\ n \in Nat \ {0} /\ Length(n) \in Nat \ {0}
  BY <1>4, LapTypes DEF StoredAt
<1>6. Header = [frame |-> n, unit |-> 0]
  BY <1>2, <1>3 DEF Header
<1>7. IsHeader /\ Header.frame = n
  BY <1>5, <1>6 DEF IsHeader, Plausible
<1>8. SizesFound = {Length(n)}
  BY <1>7 DEF SizesFound, Length
<1>9. Whole(Length(n))
  <2>1. ASSUME NEW u \in 0 .. Length(n) - 1
        PROVE  mem[Unwrapped(Unwrapped(ptr) + u)] = [frame |-> n, unit |-> u]
    <3>1. ptr + u \in 0 .. Ring - 1
      <4>1. ptr + Length(n) <= hist.stored /\ hist.stored \in Nat /\ Ring \in Nat
        BY <1>4, LapTypes, RingFacts DEF StoredAt
      <4> QED
        BY <4>1, <1>1, <1>5
    <3>2. Unwrapped(ptr + u) = ptr + u
      BY <3>1, RingFacts
    <3> QED
      BY <3>2, <1>2, <1>4 DEF StoredAt
  <2> QED
    BY <2>1, <1>7 DEF Whole
<1> QED
  BY <1>1, <1>2, <1>4, <1>5, <1>7, <1>8, <1>9

(* Past it, the next frame begins, or will.                                *)
LEMMA PassedOn ==
  ASSUME IndInv, Layout, FirstLap, NEW n, AtFrame(n),
         ptr' = (ptr + Length(n)) % (Laps * Ring),
         UNCHANGED <<frames, mem>>, hist'.stored = hist.stored, hist'.seen = n
  PROVE  CaughtUp' \/ (AtFrame(hist.seen + 1))'
<1> DEFINE z == Length(n)
           all == Laps * Ring
<1>1. StoredAt(ptr, n) /\ ptr \in 0 .. Ring - 1 /\ n \in Nat
  BY FrameIsThere
<1>2. n \in 1 .. Len(frames) /\ z \in Nat \ {0} /\ ptr + z <= hist.stored /\ hist.stored \in Nat
      /\ hist.stored <= Ring /\ Ring <= all /\ all \in Nat \ {0} /\ Ring \in Nat
  BY <1>1, LapTypes, RingFacts DEF StoredAt, FirstLap
<1>3. ptr' = (ptr + z) % all
  OBVIOUS
<1> HIDE DEF z, all
<1>4. CASE ptr + z = hist.stored
  <2>1. n = Len(frames)
    BY <1>1, <1>4 DEF StoredAt, z
  <2>2. CaughtUp'
    BY <2>1, <1>3, <1>4 DEF CaughtUp, all
  <2> QED
    BY <2>2
<1>5. CASE ptr + z # hist.stored
  <2>1. mem[ptr + z] = [frame |-> n + 1, unit |-> 0]
    BY <1>1, <1>5 DEF StoredAt, z
  <2>2. ptr + z < all /\ ptr + z \in Nat /\ ptr + z < hist.stored /\ hist.stored - (ptr + z) < Ring
    BY <1>1, <1>2, <1>5
  <2>3. ptr' = ptr + z
    BY <2>2, <1>2, <1>3
  <2>4. (AtFrame(hist.seen + 1))'
    BY <2>1, <2>2, <2>3 DEF AtFrame
  <2> QED
    BY <2>4
<1> QED
  BY <1>4, <1>5

(* When all frames were handed over, the driver finds the ring empty.      *)
LEMMA CaughtUpIsEmpty ==
  ASSUME IndInv, Layout, FirstLap, CaughtUp
  PROVE  Empty /\ (hist.stored < Ring => ptr = hist.stored /\ cbr = hist.stored)
<1> DEFINE all == Laps * Ring
<1>1. cbr = hist.stored % Ring /\ ptr = hist.stored % all
  BY DEF Layout, CaughtUp
<1>2. hist.stored \in Nat /\ hist.stored <= Ring /\ Ring \in Nat \ {0} /\ all \in Nat \ {0} /\ Ring <= all
  BY LapTypes, RingFacts DEF FirstLap
<1> HIDE DEF all
<1>3. CASE hist.stored < Ring
  <2>1. cbr = hist.stored /\ ptr = hist.stored
    BY <1>1, <1>2, <1>3
  <2>2. cbr - ptr = 0 /\ 0 % Ring = 0
    BY <2>1, <1>2
  <2> QED
    BY <2>1, <2>2 DEF Empty, Used
<1>4. CASE hist.stored = Ring
  <2>1. cbr = 0
    BY <1>1, <1>2, <1>4
  <2>2. ptr = 0 \/ ptr = Ring
    BY <1>1, <1>2, <1>4
  <2>3. (0 - 0) % Ring = 0 /\ (0 - Ring) % Ring = 0
    BY <1>2
  <2> QED
    BY <2>1, <2>2, <2>3, <1>2, <1>4 DEF Empty, Used
<1> QED
  BY <1>2, <1>3, <1>4

(* No frame that was handed over waits while the driver looks for one.     *)
LEMMA NoneHeld ==
  ASSUME RingInv, FirstLap, ~ hist.nested, Looking
  PROVE  Holders = {}
<1>1. Depth \in Nat \ {0} /\ (~ Busy(stack[Depth - 1]) \/ Depth = 1)
  BY LookingIs DEF RingInv
<1>2. \A i \in Holders : i = Depth - 1 /\ i \in 1 .. Depth /\ Busy(stack[i])
  BY DEF RingInv, Follows, Holders
<1> QED
  BY <1>1, <1>2

(* What the driver finds in the ring is the next frame, and a buffer for   *)
(* it.                                                                     *)
LEMMA NextIsFound ==
  ASSUME RingInv, FirstLap, ~ hist.nested, Looking, ~ Empty
  PROVE  /\ Holders = {} /\ AtFrame(hist.seen + 1) /\ IsHeader /\ free_list # {}
         /\ SizesFound = {Length(hist.seen + 1)}
         /\ \A z \in SizesFound : Whole(z) /\ Number(z) = hist.seen + 1
         /\ Header.frame = hist.seen + 1
<1>1. Holders = {}
  BY NoneHeld
<1>2. AtFrame(hist.seen + 1)
  BY <1>1, CaughtUpIsEmpty DEF RingInv, Follows
<1>3. free_list # {}
  BY <1>1, NetPollAssumption DEF RingInv, IndInv, BuffersConserved
<1>4. /\ IsHeader /\ Header.frame = hist.seen + 1
      /\ SizesFound = {Length(hist.seen + 1)} /\ Whole(Length(hist.seen + 1))
  BY <1>2, FrameIsThere DEF RingInv
<1> QED
  BY <1>1, <1>2, <1>3, <1>4 DEF Number
-----------------------------------------------------------------------------
LEMMA RingInitHolds == Init => RingInv
<1> SUFFICES ASSUME Init PROVE RingInv
  OBVIOUS
<1>1. hist.stored = 0 /\ hist.seen = 0 /\ hist.orderly /\ cbr = 0 /\ ptr = 0 /\ frames = <<>>
  BY DEF Init
<1>2. Layout
  BY <1>1, RingFacts DEF Layout
<1>3. Holders = {}
  BY DEF Init, Holders, Depth
<1>4. CaughtUp
  BY <1>1, RingFacts DEF CaughtUp
<1> QED
  BY <1>1, <1>2, <1>3, <1>4, InitHolds DEF RingInv, Follows

(* A frame is stored behind the last one.                                  *)
LEMMA ArriveKeepsLap ==
  ASSUME RingInv, NEW f \in Traffic, Arrive(f)
  PROVE  Layout' /\ Follows'
<1> DEFINE S == hist.stored
           z == Sizes[f.kind]
           n == Len(frames) + 1
           F == Len(frames)
<1>1. f \in Frames /\ z \in Nat \ {0} /\ z <= Ring /\ Ring \in Nat \ {0}
  <2>1. f \in Frames /\ f.kind \in Kinds
    BY NetPollAssumption DEF Frames
  <2> QED
    BY <2>1, RingFacts
<1>2. S \in Nat /\ F \in Nat /\ cbr \in Nat /\ ptr \in Nat /\ hist.seen \in Nat
  BY LapTypes DEF RingInv
<1>3. /\ hist'.stored = S + z /\ hist'.seen = hist.seen /\ hist'.nested = hist.nested
      /\ hist'.orderly = hist.orderly
  BY DEF Arrive, RingInv, IndInv, HistOK
<1>4. /\ cbr' = (cbr + z) % Ring /\ UNCHANGED <<ptr, stack>>
      /\ frames' = Append(frames, f) /\ Used + z < Ring
  BY DEF Arrive
<1>5. /\ Len(frames') = n /\ frames'[n] = f
      /\ \A i \in 1 .. F : frames'[i] = frames[i]
  BY <1>1, <1>4 DEF RingInv, IndInv, TypeOK
<1>6. mem' = [c \in Cells |-> IF c \in cbr .. cbr + z - 1
                              THEN [frame |-> n, unit |-> c - cbr] ELSE mem[c]]
  BY <1>5 DEF Arrive
<1>7. /\ \A c \in 0 .. Ring - 1 : c \in Cells
      /\ \A c \in Cells : mem[c].unit \in Nat
  BY RingFacts, LapTypes DEF RingInv
<1>8. /\ Sizes[frames'[n].kind] = z
      /\ \A i \in 1 .. F : Sizes[frames'[i].kind] = Length(i)
  BY <1>5 DEF Length
<1>9. Used \in Nat
  <2>1. cbr - ptr \in Int
    BY <1>2
  <2>2. (cbr - ptr) % Ring \in 0 .. Ring - 1
    BY <2>1, <1>1, ModRange
  <2> QED
    BY <2>2, <1>1 DEF Used
<1> HIDE DEF z, n
<1>10. CASE S + z > Ring
  BY <1>3, <1>10, <1>1, <1>2 DEF Layout, Follows, FirstLap
<1>11. CASE S + z <= Ring
  <2>1. FirstLap /\ S < Ring /\ cbr = S
    <3>1. FirstLap /\ S < Ring
      BY <1>1, <1>2, <1>11 DEF FirstLap
    <3>2. cbr = S % Ring
      BY <3>1 DEF RingInv, Layout
    <3> QED
      BY <3>1, <3>2, <1>1, <1>2
  <2>2. \A c \in 0 .. S + z - 1 :
          mem'[c] = IF c < S THEN mem[c] ELSE [frame |-> n, unit |-> c - S]
    <3> SUFFICES ASSUME NEW c \in 0 .. S + z - 1
                 PROVE  mem'[c] = IF c < S THEN mem[c] ELSE [frame |-> n, unit |-> c - S]
      OBVIOUS
    <3>1. c \in 0 .. Ring - 1 /\ c \in Int
      BY <1>1, <1>2, <1>11
    <3>2. c \in Cells
      BY <3>1, <1>7
    <3>3. c \in cbr .. cbr + z - 1 <=> ~ (c < S)
      BY <3>1, <2>1, <1>1, <1>2
    <3> QED
      BY <3>2, <3>3, <2>1, <1>6
  <2>3. cbr' = (S + z) % Ring
    BY <1>4, <2>1
  <2>4. mem'[S] = [frame |-> n, unit |-> 0]
    <3>1. S \in 0 .. S + z - 1 /\ ~ (S < S) /\ S - S = 0
      BY <1>1, <1>2
    <3> QED
      BY <3>1, <2>2
  <2>5. \A c \in 0 .. S + z - 1 : c < S => mem'[c] = mem[c]
    BY <2>2
  <2>6. ASSUME NEW c \in 0 .. S - 1, mem[c].unit = 0, NEW g, g = mem[c].frame
        PROVE  /\ g \in 1 .. F /\ c + Length(g) <= S + z
               /\ \A u \in 0 .. Length(g) - 1 : mem'[c + u] = [frame |-> g, unit |-> u]
               /\ IF c + Length(g) = S + z THEN g = n
                  ELSE mem'[c + Length(g)] = [frame |-> g + 1, unit |-> 0]
    <3> DEFINE y == Length(g)
    <3>1. StoredAt(c, g)
      BY <2>6, <2>1 DEF RingInv, Layout
    <3>2. /\ g \in 1 .. F /\ c + y <= S
          /\ \A u \in 0 .. y - 1 : mem[c + u] = [frame |-> g, unit |-> u]
          /\ IF c + y = S THEN g = F ELSE mem[c + y] = [frame |-> g + 1, unit |-> 0]
      BY <3>1 DEF StoredAt
    <3>3. y \in Nat \ {0}
      BY <3>2, LapTypes DEF RingInv
    <3> HIDE DEF y
    <3>4. c + y <= S + z /\ c + y # S + z /\ c + y \in 0 .. S + z - 1 /\ c \in Nat
      BY <3>2, <3>3, <1>1, <1>2
    <3>5. ASSUME NEW u \in 0 .. y - 1 PROVE mem'[c + u] = [frame |-> g, unit |-> u]
      <4>1. c + u \in 0 .. S + z - 1 /\ c + u < S
        BY <3>2, <3>3, <3>4, <1>1, <1>2
      <4> QED
        BY <4>1, <2>5, <3>2
    <3>6. mem'[c + y] = [frame |-> g + 1, unit |-> 0]
      <4>1. CASE c + y = S
        BY <4>1, <2>4, <3>2 DEF n
      <4>2. CASE c + y # S
        <5>1. c + y < S
          BY <4>2, <3>2, <3>3, <3>4, <1>2
        <5> QED
          BY <4>2, <5>1, <2>5, <3>2, <3>4
      <4> QED
        BY <4>1, <4>2
    <3>7. g \in 1 .. F /\ c + y <= S + z /\ c + y # S + z
      BY <3>2, <3>4
    <3> QED
      BY <3>5, <3>6, <3>7 DEF y
  <2>7. \A u \in 0 .. z - 1 : mem'[S + u] = [frame |-> n, unit |-> u]
    <3> SUFFICES ASSUME NEW u \in 0 .. z - 1 PROVE mem'[S + u] = [frame |-> n, unit |-> u]
      OBVIOUS
    <3> DEFINE c == S + u
    <3>1. c \in 0 .. S + z - 1 /\ ~ (c < S) /\ c - S = u
      BY <1>1, <1>2
    <3> HIDE DEF c
    <3>2. mem'[c] = [frame |-> n, unit |-> u]
      BY <3>1, <2>2
    <3> QED
      BY <3>2 DEF c
  <2>8. ASSUME NEW c \in 0 .. S + z - 1, mem'[c].unit = 0, NEW g, g = mem'[c].frame
        PROVE  /\ g \in 1 .. n /\ c + Sizes[frames'[g].kind] <= S + z
               /\ \A u \in 0 .. Sizes[frames'[g].kind] - 1 :
                    mem'[c + u] = [frame |-> g, unit |-> u]
               /\ IF c + Sizes[frames'[g].kind] = S + z THEN g = n
                  ELSE mem'[c + Sizes[frames'[g].kind]] = [frame |-> g + 1, unit |-> 0]
    <3>1. CASE c < S
      <4>1. c \in 0 .. S - 1 /\ mem'[c] = mem[c]
        BY <3>1, <1>2, <2>5
      <4>2. /\ g \in 1 .. F /\ c + Length(g) <= S + z
            /\ \A u \in 0 .. Length(g) - 1 : mem'[c + u] = [frame |-> g, unit |-> u]
            /\ IF c + Length(g) = S + z THEN g = n
               ELSE mem'[c + Length(g)] = [frame |-> g + 1, unit |-> 0]
        BY <4>1, <2>6, <2>8
      <4>3. g \in 1 .. n /\ Sizes[frames'[g].kind] = Length(g)
        BY <4>2, <1>2, <1>8 DEF n
      <4> QED
        BY <4>2, <4>3
    <3>2. CASE ~ (c < S)
      <4>1. mem'[c] = [frame |-> n, unit |-> c - S]
        BY <3>2, <2>2
      <4>2. c = S /\ g = n
        BY <4>1, <2>8, <1>1, <1>2
      <4>3. n \in 1 .. n
        BY <1>2 DEF n
      <4>4. Sizes[frames'[g].kind] = z /\ S + z <= S + z
        BY <4>2, <1>8, <1>1, <1>2
      <4> QED
        BY <4>2, <4>3, <4>4, <2>7
    <3> QED
      BY <3>1, <3>2
  <2>9. Layout'
    <3>1. ASSUME NEW c \in 0 .. hist'.stored - 1, mem'[c].unit = 0
          PROVE  (StoredAt(c, mem[c].frame))'
      <4>1. c \in 0 .. S + z - 1
        BY <1>1, <1>2, <1>3
      <4>2. PICK g : g = mem'[c].frame
        OBVIOUS
      <4> QED
        BY <4>1, <4>2, <3>1, <2>8, <1>3, <1>5 DEF StoredAt, Length
    <3>2. cbr' = hist'.stored % Ring
      BY <1>3, <2>3
    <3> QED
      BY <3>1, <3>2 DEF Layout
  <2>10. ASSUME NEW g, AtFrame(g)
         PROVE  ptr' < hist'.stored /\ hist'.stored - ptr' < Ring
                /\ mem'[ptr'] = [frame |-> g, unit |-> 0]
    <3>1. ptr < S /\ S - ptr < Ring /\ mem[ptr] = [frame |-> g, unit |-> 0]
      BY <2>10 DEF AtFrame
    <3>2. Used = S - ptr
      <4>1. S - ptr \in Nat /\ S - ptr < Ring
        BY <3>1, <1>2
      <4>2. (S - ptr) % Ring = S - ptr
        BY <4>1, <1>1
      <4> QED
        BY <4>2, <2>1 DEF Used
    <3>3. S + z - ptr < Ring /\ ptr < S + z /\ ptr \in 0 .. S + z - 1
      BY <3>1, <3>2, <1>1, <1>2, <1>4
    <3>4. mem'[ptr] = mem[ptr]
      BY <3>1, <3>3, <2>5
    <3> QED
      BY <3>1, <3>3, <3>4, <1>1, <1>2, <1>3, <1>4
  <2>11. Follows'
    <3>1. CASE hist.nested
      BY <3>1, <1>3 DEF Follows
    <3>2. CASE ~ hist.nested
      <4>1. Holders' = Holders /\ Depth' = Depth
        BY <1>4 DEF Holders, Depth, Busy
      <4>2. hist.orderly
        BY <3>2, <2>1 DEF RingInv, Follows
      <4>3. ASSUME NEW i \in Holders
            PROVE  i = Depth - 1 /\ AtFrame(hist.seen)' /\ stack'[i].size = Sizes[frames'[hist.seen].kind]
        <5>1. i = Depth - 1 /\ AtFrame(hist.seen) /\ stack[i].size = Length(hist.seen)
          BY <3>2, <2>1 DEF RingInv, Follows
        <5>2. hist.seen \in 1 .. F
          <6>1. StoredAt(ptr, hist.seen)
            BY <5>1, <2>1, FrameIsThere DEF RingInv
          <6> QED
            BY <6>1 DEF StoredAt
        <5>3. AtFrame(hist.seen)'
          BY <5>1, <2>10, <1>3 DEF AtFrame
        <5> QED
          BY <5>1, <5>2, <5>3, <1>4, <1>8
      <4>4. ASSUME Holders = {} PROVE AtFrame(hist.seen + 1)'
        <5>1. CASE CaughtUp
          <6>1. ptr = S /\ hist.seen + 1 = n
            BY <5>1, <2>1, CaughtUpIsEmpty DEF RingInv, CaughtUp, n
          <6>2. S < S + z /\ S + z - S < Ring
            BY <1>1, <1>2, <1>4, <1>9
          <6>3. mem'[ptr'] = [frame |-> hist'.seen + 1, unit |-> 0]
            BY <6>1, <2>4, <1>3, <1>4
          <6> QED
            BY <6>1, <6>2, <6>3, <1>1, <1>2, <1>3, <1>4 DEF AtFrame
        <5>2. CASE AtFrame(hist.seen + 1)
          BY <5>2, <2>10, <1>3 DEF AtFrame
        <5> QED
          BY <5>1, <5>2, <4>4, <3>2, <2>1 DEF RingInv, Follows
      <4> QED
        BY <4>1, <4>2, <4>3, <4>4, <1>3 DEF Follows, Length
    <3> QED
      BY <3>1, <3>2
  <2> QED
    BY <2>9, <2>11
<1> QED
  BY <1>10, <1>11, <1>1, <1>2

LEMMA LayoutSame ==
  ASSUME RingInv, UNCHANGED card, hist'.stored = hist.stored
  PROVE  Layout'
<1>1. UNCHANGED <<frames, mem, cbr>>
  BY DEF card
<1> QED
  BY <1>1 DEF RingInv, Layout, FirstLap, StoredAt, Length

(* Without a frame in hand the driver stays where it is.                   *)
LEMMA FollowsSame ==
  ASSUME RingInv, UNCHANGED <<card, ptr>>, hist'.stored = hist.stored, hist'.seen = hist.seen,
         hist'.orderly = hist.orderly, hist.nested => hist'.nested,
         FirstLap /\ ~ hist'.nested => Holders = {} /\ Holders' = {}
  PROVE  Follows'
<1> SUFFICES ASSUME FirstLap', ~ hist'.nested PROVE Follows'
  BY DEF Follows
<1>1. FirstLap /\ ~ hist.nested /\ Holders = {} /\ Holders' = {}
  BY DEF FirstLap
<1>2. hist.orderly /\ (CaughtUp \/ AtFrame(hist.seen + 1))
  BY <1>1 DEF RingInv, Follows
<1>3. CaughtUp => CaughtUp'
  BY DEF CaughtUp, card
<1>4. AtFrame(hist.seen + 1) => AtFrame(hist.seen + 1)'
  BY DEF AtFrame, card
<1> QED
  BY <1>1, <1>2, <1>3, <1>4 DEF Follows

LEMMA TickKeepsLap ==
  ASSUME RingInv, Tick
  PROVE  Follows'
<1>1. UNCHANGED <<card, ptr, hist>> /\ Depth' = Depth
  BY TickIs DEF RingInv
<1>2. Holders' = Holders /\ \A i \in Holders : stack'[i] = stack[i]
  BY TickIs DEF RingInv, Holders, Busy
<1> QED
  BY <1>1, <1>2 DEF RingInv, Follows, FirstLap, CaughtUp, AtFrame, Length, card

LEMMA SendKeepsLap ==
  ASSUME RingInv, NEW h \in Hosts, Send(h)
  PROVE  Follows'
<1>1. /\ UNCHANGED <<card, isr, ptr, free_list, arp_cache, hist>>
      /\ stack = <<>> /\ stack' \in {<<>>, <<Resolve(h, 0)>>}
  BY DEF Send, Idle
<1>2. Holders = {} /\ Holders' = {}
  BY <1>1 DEF Holders, Depth, Busy, Resolve
<1> QED
  BY <1>1, <1>2, FollowsSame

(* When the wait of an answer is over, the driver goes on past its frame.  *)
LEMMA ResumedKeepsLap ==
  ASSUME RingInv, Innermost("resolve"), Resume(Outer), UNCHANGED card,
         hist'.stored = hist.stored, hist'.seen = hist.seen,
         hist'.orderly = hist.orderly, hist'.nested = hist.nested
  PROVE  Follows'
<1>1. \/ Depth = 1 /\ UNCHANGED ptr /\ Holders = {} /\ Holders' = {}
      \/ /\ Depth - 1 \in Holders /\ Advance(stack[Depth - 1].size)
         /\ Holders' = Holders \ {Depth - 1}
  BY Resumed DEF RingInv
<1>2. CASE Depth = 1 /\ UNCHANGED ptr /\ Holders = {} /\ Holders' = {}
  BY <1>2, FollowsSame
<1>3. CASE /\ Depth - 1 \in Holders /\ Advance(stack[Depth - 1].size)
           /\ Holders' = Holders \ {Depth - 1}
  <2> SUFFICES ASSUME FirstLap', ~ hist'.nested PROVE Follows'
    BY DEF Follows
  <2>1. FirstLap /\ ~ hist.nested
    BY DEF FirstLap
  <2>2. /\ hist.orderly /\ Holders' = {}
        /\ AtFrame(hist.seen) /\ stack[Depth - 1].size = Length(hist.seen)
    BY <1>3, <2>1 DEF RingInv, Follows
  <2>3. ptr' = (ptr + Length(hist.seen)) % (Laps * Ring)
    BY <1>3, <2>2 DEF Advance
  <2>4. CaughtUp' \/ (AtFrame(hist.seen + 1))'
    BY <2>1, <2>2, <2>3, PassedOn DEF RingInv, card
  <2> QED
    BY <2>2, <2>4 DEF Follows
<1> QED
  BY <1>1, <1>2, <1>3

LEMMA EthPollKeepsLap ==
  ASSUME RingInv, EthPoll
  PROVE  Follows'
<1>1. /\ stack' = Append(stack, Poll) /\ UNCHANGED <<card, ptr>>
      /\ hist'.stored = hist.stored /\ hist'.seen = hist.seen /\ hist'.orderly = hist.orderly
      /\ (hist'.nested <=> hist.nested \/ \E i \in 1 .. Depth : Busy(stack[i]))
  <2>1. (hist.nested \/ \E i \in 1 .. Depth : Busy(stack[i])) \in BOOLEAN
    BY DEF RingInv, IndInv, HistOK
  <2> QED
    BY <2>1 DEF EthPoll, RingInv, IndInv, HistOK
<1>2. ASSUME ~ hist'.nested PROVE Holders = {} /\ Holders' = {}
  <2>1. Depth \in Nat /\ \A i \in 1 .. Depth' : (i \in 1 .. Depth /\ stack'[i] = stack[i]) \/ stack'[i] = Poll
    BY <1>1 DEF Depth, RingInv, IndInv, TypeOK
  <2>2. ~ Busy(Poll)
    BY DEF Busy, Poll
  <2>3. \A i \in 1 .. Depth : ~ Busy(stack[i])
    BY <1>1, <1>2
  <2>4. \A i \in 1 .. Depth' : ~ Busy(stack'[i])
    BY <2>1, <2>2, <2>3
  <2>5. Holders' = {i \in 1 .. Depth' : Busy(stack'[i])}
    BY DEF Holders, Busy
  <2> QED
    BY <2>3, <2>4, <2>5 DEF Holders
<1> QED
  BY <1>1, <1>2, FollowsSame

LEMMA NoMoreKeepsLap ==
  ASSUME RingInv, NoMore
  PROVE  Follows'
<1>1. /\ Looking /\ stack' = Outer /\ UNCHANGED <<card, ptr, free_list, hist>>
  BY DEF NoMore
<1>2. \A i \in 1 .. Depth' : i \in 1 .. Depth /\ stack'[i] = stack[i]
  BY <1>1, PollOver DEF RingInv
<1>3. Holders' = {i \in 1 .. Depth' : Busy(stack'[i])}
  BY DEF Holders, Busy
<1>4. FirstLap /\ ~ hist.nested => Holders = {} /\ Holders' = {}
  BY <1>1, <1>2, <1>3, NoneHeld DEF Holders
<1> QED
  BY <1>1, <1>4, FollowsSame

(* In the first lap no header is bad, and no frame lacks a buffer.         *)
LEMMA BadHeaderKeepsLap ==
  ASSUME RingInv, BadHeader
  PROVE  Follows'
<1>1. FirstLap /\ ~ hist.nested => FALSE
  BY NextIsFound DEF BadHeader
<1> QED
  BY <1>1 DEF BadHeader, Follows, FirstLap

LEMMA NoBufferKeepsLap ==
  ASSUME RingInv, NoBuffer
  PROVE  Follows'
<1>1. FirstLap /\ ~ hist.nested => FALSE
  BY NextIsFound DEF NoBuffer
<1> QED
  BY <1>1 DEF NoBuffer, Follows, FirstLap

(* The next frame is handed over.                                          *)
LEMMA NotedNext ==
  ASSUME HistOK
  PROVE  /\ Noted(hist.seen + 1).seen = hist.seen + 1
         /\ Noted(hist.seen + 1).orderly = hist.orderly
BY DEF HistOK, Noted

LEMMA HandleKeepsLap ==
  ASSUME RingInv, Handle
  PROVE  Follows'
<1>1. Looking /\ ~ Empty /\ UNCHANGED <<card, free_list, stack>>
  BY DEF Handle
<1>2. PICK z \in SizesFound :
        /\ Advance(z)
        /\ \/ KindFound(z) = "outro" /\ Discard(Number(z))
           \/ KindFound(z) = "arp" /\ ArpRecv(frames[Number(z)])
           \/ KindFound(z) = "dados" /\ Answer(Number(z))
  BY DEF Handle
<1>3. /\ hist'.stored = hist.stored /\ hist'.nested = hist.nested
      /\ \/ hist'.seen = Noted(Number(z)).seen /\ hist'.orderly = Noted(Number(z)).orderly
         \/ hist'.seen = Noted(Header.frame).seen /\ hist'.orderly = Noted(Header.frame).orderly
  <2>1. CASE Discard(Number(z))
    BY <2>1 DEF Discard, Noted, RingInv, IndInv, HistOK
  <2>2. CASE ArpRecv(frames[Number(z)])
    BY <2>2 DEF ArpRecv, Noted, RingInv, IndInv, HistOK
  <2>3. CASE Answer(Number(z))
    BY <2>3 DEF Answer, Noted, RingInv, IndInv, HistOK
  <2> QED
    BY <1>2, <2>1, <2>2, <2>3
<1> SUFFICES ASSUME FirstLap', ~ hist'.nested PROVE Follows'
  BY DEF Follows
<1>4. FirstLap /\ ~ hist.nested
  BY <1>3 DEF FirstLap
<1>5. /\ Holders = {} /\ AtFrame(hist.seen + 1) /\ Header.frame = hist.seen + 1
      /\ z = Length(hist.seen + 1) /\ Number(z) = hist.seen + 1
  BY <1>1, <1>4, NextIsFound
<1>6. hist'.seen = hist.seen + 1 /\ hist'.orderly
  BY <1>3, <1>4, <1>5, NotedNext DEF RingInv, IndInv, Follows
<1>7. CaughtUp' \/ (AtFrame(hist.seen + 1))'
  <2>1. ptr' = (ptr + Length(hist.seen + 1)) % (Laps * Ring)
    BY <1>2, <1>5 DEF Advance
  <2> QED
    BY <2>1, <1>1, <1>3, <1>4, <1>5, <1>6, PassedOn DEF RingInv, card
<1>8. Holders' = {}
  BY <1>1, <1>5 DEF Holders, Depth, Busy
<1> QED
  BY <1>6, <1>7, <1>8 DEF Follows

LEMMA HandleAndWaitKeepsLap ==
  ASSUME RingInv, HandleAndWait
  PROVE  Follows'
<1>1. Looking /\ ~ Empty /\ UNCHANGED <<card, ptr>>
  BY DEF HandleAndWait
<1>2. PICK z \in SizesFound, b \in free_list :
        /\ stack' = Outer \o <<Holding(b, z), Resolve(frames[Number(z)].host, Number(z))>>
        /\ Answer(Number(z))
  BY DEF HandleAndWait
<1>3. /\ hist'.stored = hist.stored /\ hist'.nested = hist.nested
      /\ hist'.seen = Noted(Number(z)).seen /\ hist'.orderly = Noted(Number(z)).orderly
  BY <1>2 DEF Answer, Noted, RingInv, IndInv, HistOK
<1> SUFFICES ASSUME FirstLap', ~ hist'.nested PROVE Follows'
  BY DEF Follows
<1>4. FirstLap /\ ~ hist.nested
  BY <1>3 DEF FirstLap
<1>5. /\ Holders = {} /\ AtFrame(hist.seen + 1) /\ Header.frame = hist.seen + 1
      /\ z = Length(hist.seen + 1) /\ Number(z) = hist.seen + 1
  BY <1>1, <1>4, NextIsFound
<1>6. hist'.seen = hist.seen + 1 /\ hist'.orderly
  BY <1>3, <1>4, <1>5, NotedNext DEF RingInv, IndInv, Follows
<1>7. AtFrame(hist.seen)'
  BY <1>1, <1>3, <1>5, <1>6 DEF AtFrame, card
<1>8. Holders' = {Depth} /\ Depth' - 1 = Depth /\ stack'[Depth].size = z
  <2> DEFINE d == Depth
             o == Outer
             p == Holding(b, z)
             r == Resolve(frames[Number(z)].host, Number(z))
  <2>1. /\ d \in Nat \ {0} /\ o \in Seq(Calls) /\ Len(o) = d - 1
        /\ \A i \in 1 .. d - 1 : o[i] = stack[i] /\ i \in 1 .. d
    BY <1>1, LookingIs DEF RingInv
  <2>2. stack' = o \o <<p, r>>
    BY <1>2
  <2>3. \A i \in 1 .. d : ~ Busy(stack[i])
    BY <1>5 DEF Holders
  <2>4. Busy(p) /\ p.size = z /\ ~ Busy(r)
    BY DEF Holding, Resolve, Busy
  <2>5. Depth' = Len(stack') /\ Holders' = {i \in 1 .. Depth' : Busy(stack'[i])}
    BY DEF Depth, Holders, Busy
  <2> HIDE DEF d, o, p, r
  <2>6. Len(<<p, r>>) = 2 /\ <<p, r>>[1] = p /\ <<p, r>>[2] = r /\ <<p, r>> \in Seq({p, r})
    OBVIOUS
  <2>7. Len(stack') = d + 1
        /\ \A i \in 1 .. d + 1 : stack'[i] = IF i <= d - 1 THEN o[i] ELSE <<p, r>>[i - (d - 1)]
    BY <2>1, <2>2, <2>6
  <2>8. stack'[d] = p /\ stack'[d + 1] = r /\ \A i \in 1 .. d - 1 : stack'[i] = o[i]
    <3>1. d \in 1 .. d + 1 /\ d + 1 \in 1 .. d + 1 /\ d - (d - 1) = 1 /\ (d + 1) - (d - 1) = 2
      BY <2>1
    <3>2. \A i \in 1 .. d - 1 : i \in 1 .. d + 1 /\ i <= d - 1
      BY <2>1
    <3>3. ~ (d <= d - 1) /\ ~ (d + 1 <= d - 1)
      BY <2>1
    <3> QED
      BY <2>6, <2>7, <3>1, <3>2, <3>3
  <2>9. \A i \in 1 .. d + 1 : Busy(stack'[i]) <=> i = d
    <3>1. \A i \in 1 .. d + 1 : i \in 1 .. d - 1 \/ i = d \/ i = d + 1
      BY <2>1
    <3> QED
      BY <3>1, <2>1, <2>3, <2>4, <2>8
  <2>10. Holders' = {d} /\ Depth' - 1 = d /\ stack'[d].size = z
    BY <2>1, <2>4, <2>5, <2>7, <2>8, <2>9
  <2> QED
    BY <2>10 DEF d
<1>9. Length(hist.seen)' = z
  BY <1>1, <1>5, <1>6 DEF Length, card
<1>10. Holders' # {}
  BY <1>8
<1> QED
  BY <1>6, <1>7, <1>8, <1>9, <1>10 DEF Follows

LEMMA RingStepKeeps == RingInv /\ [Next]_vars => RingInv'
<1> SUFFICES ASSUME RingInv, [Next]_vars PROVE RingInv'
  OBVIOUS
<1>1. IndInv'
  BY StepKeeps DEF RingInv
<1>2. Layout' /\ Follows'
  <2>1. CASE UNCHANGED vars
    <3>1. UNCHANGED <<card, ptr, stack, hist>>
      BY <2>1 DEF vars, card
    <3>2. UNCHANGED <<frames, mem, cbr>>
      BY <2>1 DEF vars
    <3>3. Holders' = Holders /\ Depth' = Depth
      BY <3>1 DEF Holders, Depth, Busy
    <3>4. Follows'
      BY <3>1, <3>2, <3>3 DEF RingInv, Follows, FirstLap, CaughtUp, AtFrame, Length
    <3> QED
      BY <3>1, <3>4, LayoutSame
  <2>2. ASSUME NEW f \in Traffic, Arrive(f) PROVE Layout' /\ Follows'
    BY <2>2, ArriveKeepsLap
  <2>3. CASE Overflow
    <3>1. UNCHANGED <<card, ptr, stack>> /\ hist'.stored = hist.stored /\ hist'.seen = hist.seen
          /\ hist'.orderly = hist.orderly /\ hist'.nested = hist.nested
      BY <2>3 DEF Overflow, RingInv, IndInv, HistOK
    <3>2. UNCHANGED <<frames, mem, cbr>>
      BY <3>1 DEF card
    <3>3. Holders' = Holders /\ Depth' = Depth
      BY <3>1 DEF Holders, Depth, Busy
    <3>4. Follows'
      BY <3>1, <3>2, <3>3 DEF RingInv, Follows, FirstLap, CaughtUp, AtFrame, Length
    <3> QED
      BY <3>1, <3>4, LayoutSame
  <2>4. CASE Tick
    BY <2>4, TickKeepsLap, LayoutSame DEF Tick
  <2>5. ASSUME NEW h \in Hosts, Send(h) PROVE Layout' /\ Follows'
    BY <2>5, SendKeepsLap, LayoutSame DEF Send
  <2>6. CASE Resolved \/ TimedOut
    <3>1. /\ Innermost("resolve") /\ Resume(Outer) /\ UNCHANGED card
          /\ hist'.stored = hist.stored /\ hist'.seen = hist.seen
          /\ hist'.orderly = hist.orderly /\ hist'.nested = hist.nested
      BY <2>6 DEF Resolved, TimedOut, RingInv, IndInv, HistOK
    <3> QED
      BY <3>1, ResumedKeepsLap, LayoutSame
  <2>7. CASE EthPoll
    <3>1. UNCHANGED card /\ hist'.stored = hist.stored
      BY <2>7 DEF EthPoll, RingInv, IndInv, HistOK
    <3> QED
      BY <3>1, <2>7, EthPollKeepsLap, LayoutSame
  <2>8. CASE NoMore
    BY <2>8, NoMoreKeepsLap, LayoutSame DEF NoMore
  <2>9. CASE BadHeader
    BY <2>9, BadHeaderKeepsLap, LayoutSame DEF BadHeader
  <2>10. CASE NoBuffer
    BY <2>10, NoBufferKeepsLap, LayoutSame DEF NoBuffer
  <2>11. CASE Handle
    <3>1. UNCHANGED card /\ hist'.stored = hist.stored
      BY <2>11 DEF Handle, Discard, ArpRecv, Answer, Noted, RingInv, IndInv, HistOK
    <3> QED
      BY <3>1, <2>11, HandleKeepsLap, LayoutSame
  <2>12. CASE HandleAndWait
    <3>1. UNCHANGED card /\ hist'.stored = hist.stored
      BY <2>12 DEF HandleAndWait, Answer, Noted, RingInv, IndInv, HistOK
    <3> QED
      BY <3>1, <2>12, HandleAndWaitKeepsLap, LayoutSame
  <2> QED
    BY <2>1, <2>2, <2>3, <2>4, <2>5, <2>6, <2>7, <2>8, <2>9, <2>10, <2>11, <2>12
    DEF Next, Driver
<1> QED
  BY <1>1, <1>2 DEF RingInv

(* In the first lap of the ring, and while no poll is begun inside         *)
(* another, every frame that was stored is handed to recv_cb() whole, once *)
(* and in order.                                                           *)
THEOREM HandsOverOnce == Spec => []HandedOnce
<1>1. RingInv => HandedOnce
  BY DEF RingInv, Follows, HandedOnce
<1> QED
  BY <1>1, RingInitHolds, RingStepKeeps, PTL DEF Spec
=============================================================================
