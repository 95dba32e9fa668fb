------------------------------ MODULE NetPoll -------------------------------
(***************************************************************************)
(* The way of a frame through the network stack, which has no interrupt    *)
(* handler and no task of its own: the ring of the RTL8139, rtl8139_poll() *)
(* (net/rtl8139.c), the netbufs (net/netbuf.c), eth_recv(), arp_recv(),    *)
(* ip_recv() and what they call.                                           *)
(*                                                                         *)
(* A frame is handled inside the poll that finds it.  When it has to be    *)
(* answered, ip_send() may have to ask for an address, and arp_resolve()   *)
(* polls while it waits: the stack re-enters itself before the outer poll  *)
(* has advanced the read pointer.  Hence a stack of calls in progress.     *)
(*                                                                         *)
(* Lengths are in units of 16 bytes.  A cell of the ring is the n-th unit  *)
(* of some frame; the card's ring is Ring units long, and, in the WRAP     *)
(* mode that rtl8139_init() sets, the last frame may run past its end.     *)
(***************************************************************************)
EXTENDS Integers, Sequences, FiniteSets, SequencesExt

CONSTANTS
  Ring,       \* the card's receive ring: 8192 bytes
  Slack,      \* by how much the driver takes it for longer: 16 bytes
  Laps,       \* how often the card's ring fits in the 16 bits of a pointer
  Buffers,    \* the netbufs
  CacheSize,  \* ARP_CACHE_SIZE
  Hosts,      \* the machines on the network
  Macs,       \* their hardware addresses, which may change
  Traffic,    \* the frames that may arrive
  Sizes,      \* length of a frame of each kind, with its header and CRC
  Wait,       \* timer ticks arp_resolve() waits
  MaxFrames   \* bound: frames that arrive

Kinds == {"arp", "dados", "outro"}
Frames == [kind : Kinds, host : Hosts, mac : Macs]

ASSUME NetPollAssumption ==
  /\ Ring \in Nat \ {0} /\ Slack \in Nat /\ Laps \in Nat \ {0}
  /\ IsFiniteSet(Buffers) /\ Buffers # {}
  /\ CacheSize \in Nat \ {0}
  /\ Traffic \subseteq Frames
  /\ Sizes \in [Kinds -> 1 .. Ring]
  /\ \A k \in Kinds : Slack < Sizes[k]
  /\ Wait \in Nat /\ MaxFrames \in Nat

VARIABLES
  frames,     \* what has arrived, in order
  mem,        \* rx_buf
  cbr,        \* CBR, where the card writes next
  isr,        \* whether ISR has a receive bit set
  ptr,        \* rx_read_ptr, and CAPR with it
  free_list,  \* the netbufs that are free
  arp_cache,  \* the entries that are valid, in order
  ip_packet,  \* whose answer the output buffer of ip_send() holds
  stack,      \* the calls in progress, innermost last
  hist        \* for the properties: see Init

vars == <<frames, mem, cbr, isr, ptr, free_list, arp_cache, ip_packet,
          stack, hist>>
card == <<frames, mem, cbr>>
-----------------------------------------------------------------------------
(* A call in progress.  A poll holds the buffer of the frame it has handed *)
(* over, and that frame's length as its header gave it.                    *)
Poll == [op |-> "poll"]
Holding(buf, size) == [op |-> "poll", buf |-> buf, size |-> size]
Resolve(host, packet) ==
  [op |-> "resolve", host |-> host, packet |-> packet, left |-> Wait]

Depth == Len(stack)
Idle == stack = <<>>
Innermost(op) == ~ Idle /\ stack[Depth].op = op
Outer == SubSeq(stack, 1, Depth - 1)
Busy(call) == "buf" \in DOMAIN call
Looking == Innermost("poll") /\ ~ Busy(stack[Depth])

Shortest == Min({Sizes[k] : k \in Kinds})
Longest == Max({Sizes[k] : k \in Kinds})

(* No frame has number 0: its cells are memory that was never written,     *)
(* where the status bit is clear.                                          *)
Blank == [frame |-> 0, unit |-> 0]
Cells == 0 .. Ring + Longest - 1

Init ==
  /\ frames = <<>>
  /\ mem = [c \in Cells |-> Blank]
  /\ cbr = 0
  /\ isr = FALSE
  /\ ptr = 0
  /\ free_list = Buffers
  /\ arp_cache = <<>>
  /\ ip_packet = 0
  /\ stack = <<>>
  /\ hist = [lost     |-> 0,      \* frames the card had no room for
             stored   |-> 0,      \* units it has stored
             seen     |-> 0,      \* frames that were handed over in order
             orderly  |-> TRUE,   \* each one whole, once, none left out
             nested   |-> FALSE,  \* a poll was begun inside another
             mangled  |-> FALSE,  \* what was sent is not what was given
             answered |-> FALSE,  \* a segment was answered while another waited
             heard    |-> [h \in Hosts |-> 0]]  \* last address announced
-----------------------------------------------------------------------------
(* The card, as the driver programs it.                                    *)
Used == (cbr - ptr) % Ring
Empty == Used = 0

MoreTraffic == Len(frames) + hist.lost < MaxFrames

(* A frame is stored whole from CBR on, past the end of the ring if it has *)
(* to, while there is room.                                                *)
Arrive(f) ==
  /\ MoreTraffic
  /\ Used + Sizes[f.kind] < Ring
  /\ frames' = Append(frames, f)
  /\ mem' = [c \in Cells |->
               IF c \in cbr .. cbr + Sizes[f.kind] - 1
               THEN [frame |-> Len(frames'), unit |-> c - cbr] ELSE mem[c]]
  /\ cbr' = (cbr + Sizes[f.kind]) % Ring
  /\ isr' = TRUE
  /\ hist' = [hist EXCEPT !.stored = @ + Sizes[f.kind]]
  /\ UNCHANGED <<ptr, free_list, arp_cache, ip_packet, stack>>

(* RXOVW: without room the frame is lost.                                  *)
Overflow ==
  /\ MoreTraffic
  /\ \E f \in Traffic : Used + Sizes[f.kind] >= Ring
  /\ isr' = TRUE
  /\ hist' = [hist EXCEPT !.lost = @ + 1]
  /\ UNCHANGED <<card, ptr, free_list, arp_cache, ip_packet, stack>>

Tick ==
  /\ \E i \in 1 .. Depth : stack[i].op = "resolve" /\ stack[i].left > 0
  /\ stack' = [i \in 1 .. Depth |->
                 IF stack[i].op = "resolve" /\ stack[i].left > 0
                 THEN [stack[i] EXCEPT !.left = @ - 1] ELSE stack[i]]
  /\ UNCHANGED <<card, isr, ptr, free_list, arp_cache, ip_packet, hist>>
-----------------------------------------------------------------------------
(* arp_cache_add(): the entry of that address or a free one, and slot 0    *)
(* when there is neither.                                                  *)
Slot(cache, host) ==
  IF \E i \in 1 .. Len(cache) : cache[i].host = host
  THEN CHOOSE i \in 1 .. Len(cache) : cache[i].host = host
  ELSE IF Len(cache) < CacheSize THEN Len(cache) + 1 ELSE 1

CacheAdd(cache, host, mac) ==
  [i \in 1 .. Len(cache) \cup {Slot(cache, host)} |->
     IF i = Slot(cache, host) THEN [host |-> host, mac |-> mac] ELSE cache[i]]

(* arp_cache_lookup(): the first entry of the address.                     *)
Cached(host) == \E i \in 1 .. Len(arp_cache) : arp_cache[i].host = host
Lookup(host) ==
  arp_cache[CHOOSE i \in 1 .. Len(arp_cache) :
              /\ arp_cache[i].host = host
              /\ \A j \in 1 .. i - 1 : arp_cache[j].host # host].mac

SendLate(host) ==
  /\ Idle
  /\ UNCHANGED ip_packet
  /\ stack' = IF Cached(host) THEN <<>> ELSE <<Resolve(host, 0)>>
  /\ UNCHANGED <<card, isr, ptr, free_list, arp_cache, hist>>

(* arp_resolve() of a tcp_send() from outside the stack, or of a           *)
(* retransmission; with the address in the cache it sends at once.         *)
Send(host) ==
  /\ Idle
  /\ ip_packet' = 0
  /\ stack' = IF Cached(host) THEN <<>> ELSE <<Resolve(host, 0)>>
  /\ UNCHANGED <<card, isr, ptr, free_list, arp_cache, hist>>

NetbufAlloc(b) == free_list' = free_list \ {b}
NetbufForget(b) == UNCHANGED free_list
NetbufFree(b) == free_list' = free_list \cup {b}

(* What a poll does when recv_cb() is back: the buffer was given back by   *)
(* the last layer, and the pointer moves on from where it is now.          *)
AdvanceHeader(size) == ptr' = (ptr + 1) % (Laps * Ring)
AdvanceNever(size) == UNCHANGED ptr
Advance(size) == ptr' = (ptr + size) % (Laps * Ring)

Resume(calls) ==
  IF calls = <<>> \/ ~ Busy(calls[Len(calls)])
  THEN stack' = calls /\ UNCHANGED <<ptr, free_list>>
  ELSE /\ stack' = [calls EXCEPT ![Len(calls)] = Poll]
       /\ NetbufFree(calls[Len(calls)].buf)
       /\ Advance(calls[Len(calls)].size)

(* The address is there after a poll: eth_send() of what the output buffer *)
(* holds by now.                                                           *)
Resolved ==
  /\ Innermost("resolve")
  /\ Cached(stack[Depth].host)
  /\ hist' = [hist EXCEPT !.mangled = @ \/ ip_packet # stack[Depth].packet]
  /\ Resume(Outer)
  /\ UNCHANGED <<card, isr, arp_cache, ip_packet>>

TimedOut ==
  /\ Innermost("resolve")
  /\ ~ Cached(stack[Depth].host)
  /\ stack[Depth].left = 0
  /\ Resume(Outer)
  /\ UNCHANGED <<card, isr, arp_cache, ip_packet, hist>>

(* eth_poll(), by anyone who waits: it looks at the ring only when ISR has *)
(* a receive bit.                                                          *)
EthPoll ==
  /\ Idle \/ (/\ Innermost("resolve")
              /\ ~ Cached(stack[Depth].host) /\ stack[Depth].left > 0)
  /\ isr
  /\ isr' = FALSE
  /\ stack' = Append(stack, Poll)
  /\ hist' = [hist EXCEPT !.nested = @ \/ \E i \in 1 .. Depth : Busy(stack[i])]
  /\ UNCHANGED <<card, ptr, free_list, arp_cache, ip_packet>>
-----------------------------------------------------------------------------
(* The loop of rtl8139_poll().  The driver's ring is longer than the       *)
(* card's, and a frame that passes its end is put together from both ends. *)
Unwrapped(c) == c % (Ring + Slack)
Header == mem[Unwrapped(ptr)]

(* A header that makes sense is that of a frame, or the inside of one that *)
(* happens to look like it.                                                *)
Plausible == Header.frame # 0
IsHeader == Plausible /\ Header.unit = 0
SizesFound ==
  IF IsHeader THEN {Sizes[frames[Header.frame].kind]}
  ELSE IF Plausible THEN {Shortest} ELSE {}

Whole(size) ==
  /\ IsHeader
  /\ \A u \in 0 .. size - 1 :
       mem[Unwrapped(Unwrapped(ptr) + u)] = [frame |-> Header.frame, unit |-> u]

NoMore ==
  /\ Looking /\ Empty
  /\ stack' = Outer
  /\ UNCHANGED <<card, isr, ptr, free_list, arp_cache, ip_packet, hist>>

(* Status or length make no sense: everything pending is dropped.          *)
BadHeader ==
  /\ Looking /\ ~ Empty
  /\ ~ IsHeader
  /\ ptr' = cbr
  /\ stack' = Outer
  /\ UNCHANGED <<card, isr, free_list, arp_cache, ip_packet, hist>>

NoBuffer ==
  /\ Looking /\ ~ Empty
  /\ free_list = {}
  /\ \E z \in SizesFound : Advance(z)
  /\ UNCHANGED <<card, isr, free_list, arp_cache, ip_packet, stack, hist>>

(* eth_recv(): frames for others, of other protocols, or broken ones are   *)
(* given back by the layer that finds out.                                 *)
Number(size) == IF Whole(size) THEN Header.frame ELSE 0
KindFound(size) == IF Whole(size) THEN frames[Header.frame].kind ELSE "outro"

Noted(n) ==
  [hist EXCEPT !.orderly = @ /\ n = hist.seen + 1,
               !.seen = IF n = @ + 1 THEN n ELSE @]

(* arp_recv(): the sender is learnt from requests and replies alike; the   *)
(* reply to a request goes to the address in it and waits for nothing.     *)
ArpRecv(f) ==
  /\ arp_cache' = CacheAdd(arp_cache, f.host, f.mac)
  /\ hist' = [Noted(Header.frame) EXCEPT !.heard[f.host] = f.mac]

Discard(n) == hist' = Noted(n) /\ UNCHANGED arp_cache

(* The acknowledgement of a segment is built in ip_packet, over whatever   *)
(* is there.                                                               *)
Answer(n) ==
  /\ ip_packet' = n
  /\ hist' = [Noted(n) EXCEPT
               !.answered = @ \/ \E i \in 1 .. Depth : stack[i].op = "resolve"]

(* One frame that is dealt with without waiting.                           *)
Handle ==
  /\ Looking /\ ~ Empty
  /\ free_list # {}
  /\ \E z \in SizesFound :
       /\ Advance(z)
       /\ \/ /\ KindFound(z) = "outro"
             /\ Discard(Number(z))
             /\ UNCHANGED ip_packet
          \/ /\ KindFound(z) = "arp"
             /\ ArpRecv(frames[Number(z)])
             /\ UNCHANGED ip_packet
          \/ /\ KindFound(z) = "dados"
             /\ Cached(frames[Number(z)].host)
             /\ Answer(Number(z))
             /\ UNCHANGED arp_cache
  /\ UNCHANGED <<card, isr, free_list, stack>>

(* One that tcp_recv_dispatch() acknowledges to a host whose address is    *)
(* not in the cache: the buffer stays in use, ip_packet is filled, and     *)
(* arp_resolve() begins.                                                   *)
HandleAndWait ==
  /\ Looking /\ ~ Empty
  /\ \E z \in SizesFound, b \in free_list :
       /\ KindFound(z) = "dados"
       /\ ~ Cached(frames[Number(z)].host)
       /\ b = CHOOSE x \in free_list : TRUE
       /\ NetbufAlloc(b)
       /\ stack' = Outer \o <<Holding(b, z),
                              Resolve(frames[Number(z)].host, Number(z))>>
       /\ Answer(Number(z))
  /\ UNCHANGED <<card, isr, ptr, arp_cache>>

Driver == \/ NoMore \/ BadHeader \/ NoBuffer \/ Handle \/ HandleAndWait
          \/ Resolved \/ TimedOut \/ EthPoll

Next ==
  \/ \E f \in Traffic : Arrive(f)
  \/ Overflow
  \/ Tick
  \/ \E h \in Hosts : Send(h)
  \/ Driver

Spec == Init /\ [][Next]_vars

(* The timer goes on, and so does whoever is inside the stack; nobody is   *)
(* bound to call it.                                                       *)
FairSpec == Spec /\ WF_vars(Tick) /\ WF_vars(~ Idle /\ Driver)
-----------------------------------------------------------------------------
Calls ==
  {Poll} \cup {Holding(b, z) : b \in Buffers, z \in 1 .. Longest}
  \cup [op : {"resolve"}, host : Hosts, packet : 0 .. MaxFrames, left : 0 .. Wait]

TypeOK ==
  /\ frames \in Seq(Frames)
  /\ mem \in [Cells -> [frame : 0 .. MaxFrames, unit : 0 .. Longest]]
  /\ cbr \in 0 .. Ring - 1 /\ ptr \in 0 .. Laps * Ring - 1
  /\ isr \in BOOLEAN
  /\ free_list \subseteq Buffers
  /\ arp_cache \in Seq([host : Hosts, mac : Macs])
  /\ ip_packet \in 0 .. MaxFrames
  /\ stack \in Seq(Calls)

(* Every netbuf is free or holds the frame of exactly one call in          *)
(* progress: the layer that drops a frame, at whatever depth and after     *)
(* whatever timeout, gives its buffer back once (netbuf_free()).           *)
Holders == {i \in 1 .. Depth : Busy(stack[i])}
BuffersConserved ==
  /\ \A i, j \in Holders : stack[i].buf = stack[j].buf => i = j
  /\ free_list = Buffers \ {stack[i].buf : i \in Holders}

(* The recursion rtl8139_poll() -> tcp_recv_dispatch() -> arp_resolve() -> *)
(* rtl8139_poll() is bounded, by the netbufs alone: every level but the    *)
(* innermost holds one.                                                    *)
NestingBounded == Depth <= 2 * Cardinality(Buffers) + 2

(* In the first lap of the ring, and while no poll is begun inside         *)
(* another, recv_cb() is called for each frame that was stored: whole,     *)
(* once and in order.  (Both provisos are needed.)                         *)
FirstLap == hist.stored <= Ring
HandedOnce == FirstLap /\ ~ hist.nested => hist.orderly

(* An address in the ARP cache is the last one its host announced in a     *)
(* frame that was handled; no older entry of the host shadows it.          *)
CacheLatest ==
  \A h \in Hosts : Cached(h) => Lookup(h) = hist.heard[h]

(* In the first lap, whoever enters the stack comes back, however its      *)
(* waits nest and whether or not anybody answers.                          *)
CallsReturn == []FirstLap => (~ Idle ~> Idle)

(* What ip_send() hands to the card after it has waited for an address is  *)
(* the datagram it was given, whatever arrived and was learnt, dropped or  *)
(* given up meanwhile: unless a segment was answered during that wait,     *)
(* which fills the one static ip_packet anew.                              *)
SentAsGiven == hist.mangled => hist.answered

(* What holds in every state of the stack, however deep its calls are.     *)
StackSound == TypeOK /\ BuffersConserved /\ NestingBounded /\ CacheLatest
=============================================================================
