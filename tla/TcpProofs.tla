----------------------------- MODULE TcpProofs ------------------------------
(***************************************************************************)
(* Theorems about the TCP client, for any table of sockets, any size of    *)
(* the receive ring, and any number of connections, units and deliveries.  *)
(***************************************************************************)
EXTENDS Tcp, SequenceTheorems, TLAPS

SocketType == [state : States, port : 0 .. MaxConns, seq : Nat, ack : Nat,
               rx : [0 .. RxSize - 1 -> Nat],
               head : 0 .. RxSize - 1, tail : 0 .. RxSize - 1]

HistOK == hist \in [Conns -> [clean : BOOLEAN, next : Nat, got : Seq(Nat), wire : Seq(Nat)]]

(* What is in the network was sent, and a FIN is behind the last unit.     *)
NetOK ==
  \A m \in net :
    /\ m.port < next_local_port
    /\ 1 <= m.pos /\ m.pos + m.len - 1 <= peer[m.port].sent
    /\ m.flags \in {{"ACK"}, {"ACK", "FIN"}}
    /\ "FIN" \in m.flags => peer[m.port].fin /\ m.pos + m.len - 1 = peer[m.port].sent

(* A port is given once, and nothing is known of one that was not given.   *)
PortsOK ==
  /\ \A p \in Conns : p >= next_local_port => hist[p] = Fresh /\ peer[p] = Unborn
  /\ \A s \in Slots :
       /\ sockets[s].port < next_local_port
       /\ sockets[s].port = 0 => ~ Live(s) /\ Avail(sockets[s]) = 0
       /\ \A t \in Slots : s # t /\ sockets[s].port # 0 => sockets[s].port # sockets[t].port
  /\ Calling("send") \/ Calling("recv") => Now.port # 0

(* What a ring holds was sent to its port.                                 *)
RingOK ==
  \A s \in Slots : \A i \in 1 .. Avail(sockets[s]) :
    InRing(sockets[s])[i] \in 1 .. peer[sockets[s].port].sent

(* The number of a socket that may yet send, or is sending, is the one     *)
(* that the wire waits for.                                                *)
MaySend(s) ==
  \/ sockets[s].state \in {"SYN_SENT", "ESTABLISHED", "CLOSE_WAIT"}
  \/ Calling("send") /\ call.sock = s

WireOK ==
  /\ SentInOrder
  /\ \A s \in Slots : MaySend(s) =>
       sockets[s].seq = Len(hist[sockets[s].port].wire) + 1

(* A clean connection is a stream, and after its FIN a whole one.          *)
StreamOf(k, h, q) ==
  /\ k.state = "SYN_SENT" => h.clean /\ h.next = 1 /\ h.got = <<>> /\ Avail(k) = 0
  /\ k.state \in {"ESTABLISHED", "CLOSE_WAIT"} => k.ack >= 1 + Ended(k)
  /\ k.state = "ESTABLISHED" /\ h.clean => h.next = k.ack
  /\ k.state = "CLOSE_WAIT" /\ h.clean => q.fin /\ q.sent = k.ack - 2
  /\ k.state \in {"ESTABLISHED", "CLOSE_WAIT"} /\ h.clean
       => h.got \o InRing(k) = Stream(k.ack - 1 - Ended(k))

StreamOK ==
  \A s \in Slots :
    Live(s) => StreamOf(sockets[s], hist[sockets[s].port], peer[sockets[s].port])

IndInv ==
  /\ TypeOK /\ HistOK /\ NetOK /\ PortsOK /\ RingOK
  /\ HalfOpenIsCalled /\ WireOK /\ StreamOK
-----------------------------------------------------------------------------
(* The ring.                                                               *)
LEMMA ModOnce ==
  ASSUME NEW m \in Nat \ {0}, NEW a \in 0 .. 2 * m - 1
  PROVE  a % m = IF a < m THEN a ELSE a - m
OBVIOUS

LEMMA RingBasics ==
  ASSUME NEW k \in SocketType
  PROVE  /\ Avail(k) \in 0 .. RxSize - 1
         /\ RxSize \in Nat \ {0, 1}
         /\ k.head \in Nat /\ k.tail \in Nat /\ k.head < RxSize /\ k.tail < RxSize
         /\ \A i \in 1 .. RxSize : (k.head + i - 1) % RxSize =
              IF k.head + i - 1 < RxSize THEN k.head + i - 1 ELSE k.head + i - 1 - RxSize
         /\ \A i \in 1 .. RxSize : (k.head + i - 1) % RxSize \in 0 .. RxSize - 1
<1>1. RxSize \in Nat \ {0, 1} /\ k.head \in 0 .. RxSize - 1 /\ k.tail \in 0 .. RxSize - 1
  BY TcpAssumption DEF SocketType
<1>2. Avail(k) \in 0 .. RxSize - 1
  BY <1>1 DEF Avail
<1>3. ASSUME NEW i \in 1 .. RxSize
      PROVE  (k.head + i - 1) % RxSize =
               IF k.head + i - 1 < RxSize THEN k.head + i - 1 ELSE k.head + i - 1 - RxSize
  <2>1. PICK a \in 0 .. 2 * RxSize - 1 : a = k.head + i - 1
    BY <1>1
  <2>2. a % RxSize = IF a < RxSize THEN a ELSE a - RxSize
    BY <1>1, ModOnce
  <2> QED
    BY <2>1, <2>2, <1>1
<1>4. ASSUME NEW i \in 1 .. RxSize PROVE (k.head + i - 1) % RxSize \in 0 .. RxSize - 1
  BY <1>1, <1>3
<1> QED
  BY <1>1, <1>2, <1>3, <1>4

LEMMA AheadIs ==
  ASSUME NEW k \in SocketType, NEW n \in 0 .. Avail(k)
  PROVE  /\ Ahead(k, n) \in Seq(Nat) /\ Len(Ahead(k, n)) = n
         /\ \A i \in 1 .. n : Ahead(k, n)[i] = k.rx[(k.head + i - 1) % RxSize]
<1>1. Avail(k) \in 0 .. RxSize - 1 /\ RxSize \in Nat /\ n \in Nat
  BY RingBasics
<1>2. ASSUME NEW i \in 1 .. n PROVE k.rx[(k.head + i - 1) % RxSize] \in Nat
  <2>1. i \in 1 .. RxSize
    BY <1>1
  <2>2. (k.head + i - 1) % RxSize \in 0 .. RxSize - 1
    BY <2>1, RingBasics
  <2> QED
    BY <2>2 DEF SocketType
<1>3. Ahead(k, n) \in [1 .. n -> Nat]
  BY <1>2 DEF Ahead
<1> QED
  BY <1>1, <1>3 DEF Ahead

LEMMA InRingIs ==
  ASSUME NEW k \in SocketType
  PROVE  /\ InRing(k) \in Seq(Nat) /\ Len(InRing(k)) = Avail(k)
         /\ \A i \in 1 .. Avail(k) : InRing(k)[i] = k.rx[(k.head + i - 1) % RxSize]
<1>1. Avail(k) \in 0 .. Avail(k)
  BY RingBasics
<1> QED
  BY <1>1, AheadIs DEF InRing

(* A unit that has room is the last one in the ring; one that has not      *)
(* changes nothing.                                                        *)
LEMMA CopiedIs ==
  ASSUME NEW k \in SocketType, NEW v \in Nat
  PROVE  /\ Copied(k, v) \in SocketType
         /\ Copied(k, v).state = k.state /\ Copied(k, v).port = k.port
         /\ Copied(k, v).seq = k.seq /\ Copied(k, v).ack = k.ack
         /\ Avail(k) = RxSize - 1 => Copied(k, v) = k
         /\ Avail(k) < RxSize - 1 =>
              /\ Avail(Copied(k, v)) = Avail(k) + 1
              /\ InRing(Copied(k, v)) = InRing(k) \o <<v>>
<1> DEFINE R == RxSize
           j == (k.tail + 1) % R
           c == [k EXCEPT !.rx[k.tail] = v, !.tail = j]
           a == Avail(k)
<1>1. /\ R \in Nat \ {0, 1} /\ k.head \in Nat /\ k.tail \in Nat /\ k.head < R /\ k.tail < R
      /\ a \in 0 .. R - 1
  BY RingBasics
<1>2. j = IF k.tail + 1 < R THEN k.tail + 1 ELSE 0
  <2>1. k.tail + 1 \in 0 .. 2 * R - 1
    BY <1>1
  <2>2. j = IF k.tail + 1 < R THEN k.tail + 1 ELSE k.tail + 1 - R
    BY <2>1, <1>1, ModOnce
  <2> QED
    BY <2>2, <1>1
<1>3. a = IF k.tail >= k.head THEN k.tail - k.head ELSE R - k.head + k.tail
  BY DEF Avail
<1> HIDE DEF j, a
<1>4. j = k.head <=> a = R - 1
  BY <1>1, <1>2, <1>3
<1>5. Copied(k, v) = IF j = k.head THEN k ELSE c
  BY DEF Copied, j
<1>6. j \in 0 .. R - 1
  BY <1>1, <1>2
<1>7. /\ c \in SocketType /\ c.state = k.state /\ c.port = k.port /\ c.seq = k.seq /\ c.ack = k.ack
      /\ c.head = k.head /\ c.tail = j /\ c.rx = [k.rx EXCEPT ![k.tail] = v]
  BY <1>6 DEF SocketType
<1> HIDE DEF c
<1>8. CASE a = R - 1
  <2>1. Copied(k, v) = k /\ ~ (a < R - 1)
    BY <1>1, <1>4, <1>5, <1>8
  <2> QED
    BY <2>1 DEF a
<1>9. CASE a # R - 1
  <2>1. Copied(k, v) = c /\ a < R - 1
    BY <1>1, <1>4, <1>5, <1>9
  <2>2. Avail(c) = a + 1
    <3>1. Avail(c) = IF j >= k.head THEN j - k.head ELSE R - k.head + j
      BY <1>7 DEF Avail
    <3> QED
      BY <3>1, <1>1, <1>2, <1>3, <1>4, <1>9
  <2>3. /\ InRing(c) \in Seq(Nat) /\ Len(InRing(c)) = a + 1
        /\ \A i \in 1 .. a + 1 : InRing(c)[i] = c.rx[(k.head + i - 1) % R]
    BY <1>7, <2>2, InRingIs
  <2>4. /\ InRing(k) \in Seq(Nat) /\ Len(InRing(k)) = a
        /\ \A i \in 1 .. a : InRing(k)[i] = k.rx[(k.head + i - 1) % R]
    BY InRingIs DEF a
  <2>5. \A i \in 1 .. R : (k.head + i - 1) % R =
          IF k.head + i - 1 < R THEN k.head + i - 1 ELSE k.head + i - 1 - R
    BY RingBasics
  <2>6. ASSUME NEW i \in 1 .. a + 1
        PROVE  InRing(c)[i] = IF i <= a THEN InRing(k)[i] ELSE v
    <3> DEFINE x == (k.head + i - 1) % R
    <3>1. x = IF k.head + i - 1 < R THEN k.head + i - 1 ELSE k.head + i - 1 - R
      BY <1>1, <2>5
    <3>2. InRing(c)[i] = c.rx[x] /\ (i <= a => InRing(k)[i] = k.rx[x])
      <4>1. i <= a => i \in 1 .. a
        BY <1>1
      <4> QED
        BY <4>1, <2>3, <2>4
    <3> HIDE DEF x
    <3>3. x \in 0 .. R - 1 /\ (x = k.tail <=> i = a + 1)
      BY <3>1, <1>1, <1>3, <2>1
    <3>4. k.rx \in [0 .. R - 1 -> Nat]
      BY DEF SocketType
    <3>5. c.rx[x] = IF x = k.tail THEN v ELSE k.rx[x]
      BY <3>3, <3>4, <1>7
    <3> QED
      BY <3>2, <3>3, <3>5, <1>1
  <2>7. InRing(k) \o <<v>> \in Seq(Nat) /\ Len(InRing(k) \o <<v>>) = a + 1
        /\ \A i \in 1 .. a + 1 : (InRing(k) \o <<v>>)[i] = IF i <= a THEN InRing(k)[i] ELSE v
    <3> DEFINE q == InRing(k)
    <3>1. q \in Seq(Nat) /\ Len(q) = a
      BY <2>4
    <3> HIDE DEF q
    <3>2. <<v>> \in Seq(Nat) /\ Len(<<v>>) = 1 /\ <<v>>[1] = v
      OBVIOUS
    <3>3. /\ q \o <<v>> \in Seq(Nat) /\ Len(q \o <<v>>) = a + 1
          /\ \A i \in 1 .. a + 1 : (q \o <<v>>)[i] = IF i <= a THEN q[i] ELSE <<v>>[i - a]
      BY <3>1, <3>2, ConcatProperties
    <3>4. \A i \in 1 .. a + 1 : ~ (i <= a) => i - a = 1
      BY <1>1
    <3> QED
      BY <3>2, <3>3, <3>4 DEF q
  <2>8. InRing(c) = InRing(k) \o <<v>>
    <3> DEFINE s == InRing(c)
               t == InRing(k) \o <<v>>
    <3>1. s \in Seq(Nat) /\ t \in Seq(Nat) /\ Len(s) = Len(t)
      BY <2>3, <2>7
    <3>2. \A i \in 1 .. Len(s) : s[i] = t[i]
      BY <2>3, <2>6, <2>7
    <3> HIDE DEF s, t
    <3>3. s = t
      BY <3>1, <3>2, SeqEqual
    <3> QED
      BY <3>3 DEF s, t
  <2> QED
    BY <1>7, <2>1, <2>2, <2>8, <1>9 DEF a
<1> QED
  BY <1>8, <1>9

(* What a ring holds after a read follows what was read.                   *)
ReadFrom(c, k, n) ==
  /\ \A i \in 1 .. Avail(c) : i + n \in 1 .. Avail(k) /\ InRing(c)[i] = InRing(k)[i + n]
  /\ InRing(k) = Ahead(k, n) \o InRing(c)

LEMMA ReadIs ==
  ASSUME NEW k \in SocketType, NEW n \in 1 .. Avail(k),
         NEW c, c = [k EXCEPT !.head = (k.head + n) % RxSize]
  PROVE  /\ c \in SocketType /\ c.state = k.state /\ c.port = k.port /\ c.seq = k.seq /\ c.ack = k.ack
         /\ Avail(c) = Avail(k) - n /\ ReadFrom(c, k, n)
<1> DEFINE R == RxSize
           h == (k.head + n) % R
<1>1. /\ R \in Nat \ {0, 1} /\ k.head \in Nat /\ k.tail \in Nat /\ k.head < R /\ k.tail < R
      /\ Avail(k) \in 0 .. R - 1 /\ n \in Nat \ {0} /\ n <= Avail(k)
  BY RingBasics
<1>2. h = IF k.head + n < R THEN k.head + n ELSE k.head + n - R
  <2>1. k.head + n \in 0 .. 2 * R - 1
    BY <1>1
  <2> QED
    BY <2>1, <1>1, ModOnce
<1>3. Avail(k) = IF k.tail >= k.head THEN k.tail - k.head ELSE R - k.head + k.tail
  BY DEF Avail
<1>4. c = [k EXCEPT !.head = h]
  OBVIOUS
<1> HIDE DEF h
<1>5. h \in 0 .. R - 1
  BY <1>1, <1>2
<1>6. /\ c \in SocketType /\ c.state = k.state /\ c.port = k.port /\ c.seq = k.seq /\ c.ack = k.ack
      /\ c.head = h /\ c.tail = k.tail /\ c.rx = k.rx
  BY <1>4, <1>5 DEF SocketType
<1>7. Avail(c) = Avail(k) - n
  <2>1. Avail(c) = IF k.tail >= h THEN k.tail - h ELSE R - h + k.tail
    BY <1>6 DEF Avail
  <2> QED
    BY <2>1, <1>1, <1>2, <1>3
<1>8. ASSUME NEW i \in 1 .. Avail(c)
      PROVE  i + n \in 1 .. Avail(k) /\ InRing(c)[i] = InRing(k)[i + n]
  <2>1. i + n \in 1 .. Avail(k) /\ i \in 1 .. R /\ i + n \in 1 .. R /\ i \in Nat
    BY <1>1, <1>7
  <2>2. (h + i - 1) % R = IF h + i - 1 < R THEN h + i - 1 ELSE h + i - 1 - R
    <3>1. (c.head + i - 1) % R = IF c.head + i - 1 < R THEN c.head + i - 1 ELSE c.head + i - 1 - R
      BY <2>1, <1>6, RingBasics
    <3> QED
      BY <3>1, <1>6
  <2>3. (k.head + (i + n) - 1) % R =
          IF k.head + (i + n) - 1 < R THEN k.head + (i + n) - 1 ELSE k.head + (i + n) - 1 - R
    BY <2>1, RingBasics
  <2>4. (h + i - 1) % R = (k.head + (i + n) - 1) % R
    BY <2>1, <2>2, <2>3, <1>1, <1>2, <1>3, <1>7
  <2>5. InRing(c)[i] = k.rx[(h + i - 1) % R]
    BY <1>6, InRingIs
  <2>6. InRing(k)[i + n] = k.rx[(k.head + (i + n) - 1) % R]
    BY <2>1, InRingIs
  <2> QED
    BY <2>1, <2>4, <2>5, <2>6
<1>9. InRing(k) = Ahead(k, n) \o InRing(c)
  <2> DEFINE s == InRing(k)
             t == Ahead(k, n)
             u == InRing(c)
             m == Avail(k) - n
  <2>1. s \in Seq(Nat) /\ Len(s) = Avail(k) /\ t \in Seq(Nat) /\ Len(t) = n
        /\ u \in Seq(Nat) /\ Len(u) = m
    BY <1>1, <1>6, <1>7, InRingIs, AheadIs
  <2>2. \A i \in 1 .. n : t[i] = s[i]
    <3>1. \A i \in 1 .. n : i \in 1 .. Avail(k)
      BY <1>1
    <3>2. n \in 0 .. Avail(k)
      BY <1>1
    <3> QED
      BY <3>1, <3>2, AheadIs, InRingIs
  <2>3. \A i \in 1 .. Avail(k) : ~ (i <= n) => i - n \in 1 .. m /\ (i - n) + n = i
    BY <1>1
  <2>4. \A i \in 1 .. m : u[i] = s[i + n]
    BY <1>7, <1>8
  <2> HIDE DEF s, t, u, m
  <2>5. /\ t \o u \in Seq(Nat) /\ Len(t \o u) = n + m
        /\ \A i \in 1 .. n + m : (t \o u)[i] = IF i <= n THEN t[i] ELSE u[i - n]
    BY <2>1, ConcatProperties
  <2>6. n + m = Avail(k)
    BY <1>1 DEF m
  <2>7. ASSUME NEW i \in 1 .. Len(s) PROVE s[i] = (t \o u)[i]
    <3>1. i \in 1 .. Avail(k)
      BY <2>1
    <3>2. CASE i <= n
      <4>1. i \in 1 .. n
        BY <3>1, <3>2, <1>1
      <4> QED
        BY <3>1, <3>2, <4>1, <2>2, <2>5, <2>6
    <3>3. CASE ~ (i <= n)
      BY <3>1, <3>3, <2>3, <2>4, <2>5, <2>6
    <3> QED
      BY <3>2, <3>3
  <2>8. s = t \o u
    BY <2>1, <2>5, <2>6, <2>7, SeqEqual
  <2> QED
    BY <2>8 DEF s, t, u
<1>10. ReadFrom(c, k, n)
  BY <1>8, <1>9 DEF ReadFrom
<1> QED
  BY <1>6, <1>7, <1>10

LEMMA StreamIs ==
  ASSUME NEW n \in Nat
  PROVE  /\ Stream(n) \in Seq(Nat) /\ Len(Stream(n)) = n
         /\ Stream(n) \o <<n + 1>> = Stream(n + 1)
         /\ Append(Stream(n), n + 1) = Stream(n + 1)
<1>1. \A m \in Nat : Stream(m) \in Seq(Nat) /\ Len(Stream(m)) = m /\ \A i \in 1 .. m : Stream(m)[i] = i
  BY DEF Stream
<1> DEFINE s == Stream(n)
           t == Stream(n + 1)
<1>2. /\ s \in Seq(Nat) /\ Len(s) = n /\ \A i \in 1 .. n : s[i] = i
      /\ t \in Seq(Nat) /\ Len(t) = n + 1 /\ \A i \in 1 .. n + 1 : t[i] = i
  BY <1>1
<1> HIDE DEF s, t
<1>3. /\ Append(s, n + 1) \in Seq(Nat) /\ Len(Append(s, n + 1)) = n + 1
      /\ \A i \in 1 .. n : Append(s, n + 1)[i] = s[i]
      /\ Append(s, n + 1)[n + 1] = n + 1
  BY <1>2, AppendProperties
<1>4. \A i \in 1 .. n + 1 : i \in 1 .. n \/ i = n + 1
  OBVIOUS
<1>5. Append(s, n + 1) = t
  BY <1>2, <1>3, <1>4, SeqEqual
<1>6. s \o <<n + 1>> = t
  BY <1>2, <1>5, AppendIsConcat
<1> QED
  BY <1>1, <1>5, <1>6 DEF s, t

(* Accept(), unit by unit.                                                 *)
LEMMA AcceptIs ==
  ASSUME NEW k, NEW seg, seg.len \in 0 .. 2
  PROVE  Accept(k, seg) =
           [(IF seg.len = 0 THEN k
             ELSE IF seg.len = 1 THEN Copied(k, seg.pos + 1 - 1)
             ELSE Copied(Copied(k, seg.pos + 1 - 1), seg.pos + 2 - 1))
            EXCEPT !.ack = @ + seg.len]
<1> DEFINE N == 0 .. seg.len
           Rec(f) == [n \in N |-> IF n = 0 THEN k ELSE Copied(f[n - 1], seg.pos + n - 1)]
           after == CHOOSE f : f = Rec(f)
           c1 == Copied(k, seg.pos + 1 - 1)
           c2 == Copied(c1, seg.pos + 2 - 1)
           g == [n \in N |-> IF n = 0 THEN k ELSE IF n = 1 THEN c1 ELSE c2]
<1>1. g = Rec(g)
  <2>1. ASSUME NEW n \in N
        PROVE  g[n] = IF n = 0 THEN k ELSE Copied(g[n - 1], seg.pos + n - 1)
    <3>1. n = 0 \/ n = 1 \/ n = 2
      OBVIOUS
    <3>2. CASE n = 0
      BY <3>2
    <3>3. CASE n = 1
      <4>1. n - 1 = 0 /\ 0 \in N
        BY <3>3
      <4>2. g[n - 1] = k /\ g[n] = c1
        BY <3>3, <4>1
      <4> QED
        BY <3>3, <4>2
    <3>4. CASE n = 2
      <4>1. n - 1 = 1 /\ 1 \in N
        BY <3>4
      <4>2. g[n - 1] = c1 /\ g[n] = c2
        BY <3>4, <4>1
      <4> QED
        BY <3>4, <4>2
    <3> QED
      BY <3>1, <3>2, <3>3, <3>4
  <2> QED
    BY <2>1
<1>2. after = Rec(after)
  BY <1>1
<1>3. Accept(k, seg) = [after[seg.len] EXCEPT !.ack = @ + seg.len]
  BY DEF Accept
<1> HIDE DEF after, g
<1>4. \A n \in N : after[n] = IF n = 0 THEN k ELSE Copied(after[n - 1], seg.pos + n - 1)
  BY <1>2
<1>5. after[0] = k
  BY <1>4
<1>6. seg.len >= 1 => after[1] = c1
  <2>1. seg.len >= 1 => 1 \in N /\ 1 - 1 = 0
    OBVIOUS
  <2> QED
    BY <2>1, <1>4, <1>5
<1>7. seg.len >= 2 => after[2] = c2
  <2>1. seg.len >= 2 => 2 \in N /\ 2 - 1 = 1 /\ seg.len >= 1
    OBVIOUS
  <2> QED
    BY <2>1, <1>4, <1>6
<1> HIDE DEF c1, c2
<1>8. after[seg.len] = IF seg.len = 0 THEN k ELSE IF seg.len = 1 THEN c1 ELSE c2
  BY <1>5, <1>6, <1>7
<1> QED
  BY <1>3, <1>8 DEF c1, c2

(* One more unit of a stream.                                              *)
LEMMA CopiedStream ==
  ASSUME NEW k \in SocketType, NEW g \in Seq(Nat), NEW n \in Nat,
         g \o InRing(k) = Stream(n), Avail(k) < RxSize - 1
  PROVE  g \o InRing(Copied(k, n + 1)) = Stream(n + 1)
<1> DEFINE r == InRing(k)
<1>1. InRing(Copied(k, n + 1)) = r \o <<n + 1>>
  BY CopiedIs
<1>2. r \in Seq(Nat) /\ <<n + 1>> \in Seq(Nat)
  BY InRingIs
<1> HIDE DEF r
<1>3. g \o (r \o <<n + 1>>) = (g \o r) \o <<n + 1>>
  BY <1>2, ConcatAssociative
<1>4. (g \o r) \o <<n + 1>> = Stream(n + 1)
  BY StreamIs DEF r
<1> QED
  BY <1>1, <1>3, <1>4

(* What a ring may hold after a unit was copied.                           *)
LEMMA CopiedHolds ==
  ASSUME NEW k \in SocketType, NEW v \in Nat, NEW S, v \in S,
         \A i \in 1 .. Avail(k) : InRing(k)[i] \in S
  PROVE  \A i \in 1 .. Avail(Copied(k, v)) : InRing(Copied(k, v))[i] \in S
<1>1. Avail(k) \in 0 .. RxSize - 1 /\ RxSize \in Nat
  BY RingBasics
<1>2. CASE Avail(k) = RxSize - 1
  BY <1>2, CopiedIs
<1>3. CASE Avail(k) # RxSize - 1
  <2> DEFINE r == InRing(k)
             a == Avail(k)
  <2>1. Avail(k) < RxSize - 1
    BY <1>1, <1>3
  <2>2. Avail(Copied(k, v)) = a + 1 /\ InRing(Copied(k, v)) = r \o <<v>>
    BY <2>1, CopiedIs
  <2>3. r \in Seq(Nat) /\ Len(r) = a /\ <<v>> \in Seq(Nat) /\ Len(<<v>>) = 1 /\ <<v>>[1] = v
    BY InRingIs
  <2>4. \A i \in 1 .. a : r[i] \in S
    OBVIOUS
  <2> HIDE DEF r, a
  <2>5. \A i \in 1 .. a + 1 : (r \o <<v>>)[i] = IF i <= a THEN r[i] ELSE <<v>>[i - a]
    BY <2>3, ConcatProperties
  <2>6. a \in Nat
    BY <1>1 DEF a
  <2>7. \A i \in 1 .. a + 1 : (i \in 1 .. a /\ i <= a) \/ (~ (i <= a) /\ i - a = 1)
    BY <2>6
  <2>8. \A i \in 1 .. a + 1 : (r \o <<v>>)[i] \in S
    BY <2>3, <2>4, <2>5, <2>7
  <2> QED
    BY <2>2, <2>8
<1> QED
  BY <1>2, <1>3

LEMMA AckIs ==
  ASSUME NEW k \in SocketType, NEW n \in Nat, NEW c, c = [k EXCEPT !.ack = @ + n]
  PROVE  /\ c \in SocketType /\ c.state = k.state /\ c.port = k.port /\ c.seq = k.seq
         /\ c.ack = k.ack + n /\ Avail(c) = Avail(k) /\ InRing(c) = InRing(k)
<1>1. /\ c \in SocketType /\ c.state = k.state /\ c.port = k.port /\ c.seq = k.seq
      /\ c.ack = k.ack + n /\ c.head = k.head /\ c.tail = k.tail /\ c.rx = k.rx
  BY DEF SocketType
<1>2. Avail(c) = Avail(k) /\ InRing(c) = InRing(k)
  BY <1>1 DEF Avail, InRing, Ahead
<1> QED
  BY <1>1, <1>2

(* What a ring holds was there or came with the segment, and if it had     *)
(* room for the whole of the next one, it goes on as a stream.             *)
HeldFrom(c, k, seg) ==
  \A S : /\ seg.pos .. seg.pos + seg.len - 1 \subseteq S
         /\ \A i \in 1 .. Avail(k) : InRing(k)[i] \in S
         => \A i \in 1 .. Avail(c) : InRing(c)[i] \in S

StreamGoesOn(c, k, seg) ==
  \A g \in Seq(Nat) :
    /\ seg.pos \in Nat \ {0} /\ g \o InRing(k) = Stream(seg.pos - 1)
    /\ ~ NoRoom(k, seg)
    => g \o InRing(c) = Stream(seg.pos - 1 + seg.len)

(* What a segment leaves in a socket that accepts it.                      *)
LEMMA Accepted ==
  ASSUME NEW k \in SocketType, NEW seg \in Segments, NEW c, c = Accept(k, seg)
  PROVE  /\ c \in SocketType /\ c.state = k.state /\ c.port = k.port /\ c.seq = k.seq
         /\ c.ack = k.ack + seg.len /\ HeldFrom(c, k, seg) /\ StreamGoesOn(c, k, seg)
<1> DEFINE p == seg.pos
           n == seg.len
           c1 == Copied(k, p + 1 - 1)
           c2 == Copied(c1, p + 2 - 1)
           b == IF n = 0 THEN k ELSE IF n = 1 THEN c1 ELSE c2
<1>1. n \in 0 .. 2 /\ p \in Nat /\ p + 1 - 1 = p /\ p + 2 - 1 = p + 1
  BY DEF Segments
<1>2. c1 = Copied(k, p) /\ c2 = Copied(c1, p + 1) /\ c = [b EXCEPT !.ack = @ + n]
  BY <1>1, AcceptIs
<1> HIDE DEF c1, c2
<1>3. /\ c1 \in SocketType /\ c1.state = k.state /\ c1.port = k.port /\ c1.seq = k.seq /\ c1.ack = k.ack
  BY <1>1, <1>2, CopiedIs
<1>4. /\ c2 \in SocketType /\ c2.state = k.state /\ c2.port = k.port /\ c2.seq = k.seq /\ c2.ack = k.ack
  <2>1. p + 1 \in Nat
    BY <1>1
  <2>2. /\ c2 \in SocketType /\ c2.state = c1.state /\ c2.port = c1.port /\ c2.seq = c1.seq
        /\ c2.ack = c1.ack
    BY <2>1, <1>2, <1>3, CopiedIs
  <2> QED
    BY <2>2, <1>3
<1>5. /\ b \in SocketType /\ b.state = k.state /\ b.port = k.port /\ b.seq = k.seq /\ b.ack = k.ack
  BY <1>3, <1>4
<1>6. ASSUME NEW S, p .. p + n - 1 \subseteq S, \A i \in 1 .. Avail(k) : InRing(k)[i] \in S
      PROVE  \A i \in 1 .. Avail(b) : InRing(b)[i] \in S
  <2>1. ASSUME n >= 1 PROVE \A i \in 1 .. Avail(c1) : InRing(c1)[i] \in S
    <3>1. p \in S
      BY <2>1, <1>1, <1>6
    <3> QED
      BY <3>1, <1>1, <1>2, <1>6, CopiedHolds
  <2>2. ASSUME n = 2 PROVE \A i \in 1 .. Avail(c2) : InRing(c2)[i] \in S
    <3>1. p + 1 \in S /\ p + 1 \in Nat
      BY <2>2, <1>1, <1>6
    <3> QED
      BY <2>1, <2>2, <3>1, <1>1, <1>2, <1>3, CopiedHolds
  <2> QED
    BY <2>1, <2>2, <1>1, <1>6
<1>7. ASSUME NEW g \in Seq(Nat), p \in Nat \ {0}, g \o InRing(k) = Stream(p - 1), ~ NoRoom(k, seg)
      PROVE  g \o InRing(b) = Stream(p - 1 + n)
  <2>1. Avail(k) + n <= RxSize - 1 /\ Avail(k) \in Nat /\ RxSize \in Nat
    BY <1>1, <1>7, RingBasics DEF NoRoom
  <2>2. ASSUME n >= 1 PROVE Avail(c1) = Avail(k) + 1 /\ g \o InRing(c1) = Stream(p)
    <3>1. Avail(k) < RxSize - 1
      BY <2>1, <2>2, <1>1
    <3>2. p - 1 \in Nat /\ (p - 1) + 1 = p
      BY <1>7
    <3>3. Avail(c1) = Avail(k) + 1
      BY <3>1, <1>1, <1>2, CopiedIs
    <3>4. g \o InRing(Copied(k, (p - 1) + 1)) = Stream((p - 1) + 1)
      BY <3>1, <3>2, <1>7, CopiedStream
    <3> QED
      BY <3>2, <3>3, <3>4, <1>2
  <2>3. ASSUME n = 2 PROVE g \o InRing(c2) = Stream(p + 1)
    <3>1. Avail(c1) < RxSize - 1
      BY <2>1, <2>2, <2>3, <1>1
    <3>2. g \o InRing(c1) = Stream(p) /\ p \in Nat
      BY <2>2, <2>3, <1>1
    <3>3. g \o InRing(Copied(c1, p + 1)) = Stream(p + 1)
      BY <3>1, <3>2, <1>3, CopiedStream
    <3> QED
      BY <3>3, <1>2
  <2>4. CASE n = 0
    BY <2>4, <1>1, <1>7
  <2>5. CASE n = 1
    BY <2>2, <2>5, <1>1
  <2>6. CASE n = 2
    <3>1. p - 1 + 2 = p + 1
      BY <1>1
    <3> QED
      BY <2>3, <2>6, <3>1
  <2> QED
    BY <2>4, <2>5, <2>6, <1>1
<1> HIDE DEF b
<1>8. /\ c \in SocketType /\ c.state = b.state /\ c.port = b.port /\ c.seq = b.seq
      /\ c.ack = b.ack + n /\ Avail(c) = Avail(b) /\ InRing(c) = InRing(b)
  <2>1. c = [b EXCEPT !.ack = @ + n] /\ n \in Nat
    BY <1>1, <1>2 DEF b
  <2> QED
    BY <2>1, <1>5, AckIs
<1>9. /\ c \in SocketType /\ c.state = k.state /\ c.port = k.port /\ c.seq = k.seq /\ c.ack = k.ack + n
  BY <1>5, <1>8
<1>10. HeldFrom(c, k, seg)
  BY <1>6, <1>8 DEF HeldFrom
<1>11. StreamGoesOn(c, k, seg)
  BY <1>7, <1>8 DEF StreamGoesOn
<1> QED
  BY <1>9, <1>10, <1>11

(* What a socket may turn into.                                            *)
LEMMA StateSet ==
  ASSUME NEW k \in SocketType, NEW st \in States, NEW c, c = [k EXCEPT !.state = st]
  PROVE  /\ c \in SocketType /\ c.port = k.port /\ c.seq = k.seq /\ c.state = st
         /\ Avail(c) = Avail(k) /\ InRing(c) = InRing(k)
<1>1. /\ c \in SocketType /\ c.port = k.port /\ c.seq = k.seq /\ c.state = st
      /\ c.head = k.head /\ c.tail = k.tail /\ c.rx = k.rx
  BY DEF SocketType
<1> QED
  BY <1>1 DEF Avail, InRing, Ahead

LEMMA DispatchedIs ==
  ASSUME NEW k \in SocketType, NEW seg \in Segments, NEW c, c = Dispatched(k, seg)
  PROVE  /\ c \in SocketType /\ c.port = k.port /\ c.seq = k.seq /\ HeldFrom(c, k, seg)
         /\ c.state \in {"SYN_SENT", "FIN_WAIT"} => c = k
         /\ c.state = "ESTABLISHED" =>
              \/ /\ k.state = "SYN_SENT" /\ "SYN" \in seg.flags /\ c.ack = seg.pos + 1
                 /\ Avail(c) = Avail(k) /\ InRing(c) = InRing(k)
              \/ /\ k.state = "ESTABLISHED" /\ {"RST", "FIN"} \cap seg.flags = {}
                 /\ c = Accept(k, seg)
         /\ c.state = "CLOSE_WAIT" =>
              \/ k.state = "CLOSE_WAIT" /\ c = k
              \/ /\ k.state = "ESTABLISHED" /\ "RST" \notin seg.flags /\ "FIN" \in seg.flags
                 /\ c.ack = k.ack + 1 + seg.len /\ StreamGoesOn(c, k, seg)
<1>1. k.ack \in Nat /\ seg.pos \in Nat /\ k.state \in States /\ seg.len \in 0 .. 2
  BY DEF SocketType, Segments
<1>2. \A d : Avail(d) = Avail(k) /\ InRing(d) = InRing(k) => HeldFrom(d, k, seg)
  BY DEF HeldFrom
<1>3. CASE k.state = "SYN_SENT"
  <2>1. CASE {"SYN", "ACK"} \subseteq seg.flags
    <3>1. c = [k EXCEPT !.ack = seg.pos + 1, !.state = "ESTABLISHED"]
      BY <1>3, <2>1 DEF Dispatched
    <3>2. "ESTABLISHED" \in States /\ seg.pos + 1 \in Nat
      BY <1>1 DEF States
    <3>3. /\ c \in SocketType /\ c.port = k.port /\ c.seq = k.seq /\ c.state = "ESTABLISHED"
          /\ Avail(c) = Avail(k) /\ InRing(c) = InRing(k)
      <4>1. /\ c \in SocketType /\ c.port = k.port /\ c.seq = k.seq /\ c.state = "ESTABLISHED"
            /\ c.head = k.head /\ c.tail = k.tail /\ c.rx = k.rx
        BY <3>1, <3>2 DEF SocketType
      <4> QED
        BY <4>1 DEF Avail, InRing, Ahead
    <3>4. c.ack = seg.pos + 1
      BY <3>1 DEF SocketType
    <3> QED
      BY <3>3, <3>4, <1>2, <1>3, <2>1
  <2>2. CASE ~ ({"SYN", "ACK"} \subseteq seg.flags)
    <3>1. c = k
      BY <1>3, <2>2 DEF Dispatched
    <3> QED
      BY <3>1, <1>2, <1>3
  <2> QED
    BY <2>1, <2>2
<1>4. CASE k.state = "ESTABLISHED"
  <2>1. c = Established(k, seg)
    BY <1>4 DEF Dispatched
  <2>2. CASE "RST" \in seg.flags
    <3>1. c = [k EXCEPT !.state = "CLOSED"] /\ "CLOSED" \in States
      BY <2>1, <2>2 DEF Established, States
    <3>2. /\ c \in SocketType /\ c.port = k.port /\ c.seq = k.seq /\ c.state = "CLOSED"
          /\ Avail(c) = Avail(k) /\ InRing(c) = InRing(k)
      BY <3>1, <1>1, StateSet
    <3> QED
      BY <3>2, <1>2
  <2>3. CASE "RST" \notin seg.flags /\ "FIN" \in seg.flags
    <3>1. PICK d : d = [k EXCEPT !.ack = k.ack + 1, !.state = "CLOSE_WAIT"]
      OBVIOUS
    <3>2. c = Accept(d, seg)
      BY <2>1, <2>3, <3>1 DEF Established
    <3>3. "CLOSE_WAIT" \in States /\ k.ack + 1 \in Nat
      BY <1>1 DEF States
    <3>4. /\ d \in SocketType /\ d.port = k.port /\ d.seq = k.seq /\ d.state = "CLOSE_WAIT"
          /\ Avail(d) = Avail(k) /\ InRing(d) = InRing(k)
      <4>1. /\ d \in SocketType /\ d.port = k.port /\ d.seq = k.seq /\ d.state = "CLOSE_WAIT"
            /\ d.head = k.head /\ d.tail = k.tail /\ d.rx = k.rx
        BY <3>1, <3>3 DEF SocketType
      <4> QED
        BY <4>1 DEF Avail, InRing, Ahead
    <3>5. d.ack = k.ack + 1
      BY <3>1 DEF SocketType
    <3>6. /\ c \in SocketType /\ c.state = d.state /\ c.port = d.port /\ c.seq = d.seq
          /\ c.ack = d.ack + seg.len /\ HeldFrom(c, d, seg) /\ StreamGoesOn(c, d, seg)
      BY <3>2, <3>4, Accepted
    <3>7. HeldFrom(c, k, seg) /\ StreamGoesOn(c, k, seg)
      BY <3>4, <3>6 DEF HeldFrom, StreamGoesOn, NoRoom
    <3> QED
      BY <3>4, <3>5, <3>6, <3>7, <1>4, <2>3
  <2>4. CASE {"RST", "FIN"} \cap seg.flags = {}
    <3>1. c = Accept(k, seg)
      BY <2>1, <2>4 DEF Established
    <3>2. c \in SocketType /\ c.state = k.state /\ c.port = k.port /\ c.seq = k.seq /\ HeldFrom(c, k, seg)
      BY <3>1, Accepted
    <3> QED
      BY <3>1, <3>2, <1>4, <2>4
  <2> QED
    BY <2>2, <2>3, <2>4
<1>5. CASE k.state = "FIN_WAIT" /\ {"ACK", "FIN"} \cap seg.flags # {}
  <2>1. c = [k EXCEPT !.state = "CLOSED"] /\ "CLOSED" \in States
    BY <1>5 DEF Dispatched, States
  <2>2. /\ c \in SocketType /\ c.port = k.port /\ c.seq = k.seq /\ c.state = "CLOSED"
        /\ Avail(c) = Avail(k) /\ InRing(c) = InRing(k)
    BY <2>1, <1>1, StateSet
  <2> QED
    BY <2>2, <1>2
<1>6. CASE \/ k.state = "FIN_WAIT" /\ {"ACK", "FIN"} \cap seg.flags = {}
           \/ k.state \in {"CLOSED", "CLOSE_WAIT"}
  <2>1. c = k
    BY <1>6 DEF Dispatched
  <2> QED
    BY <2>1, <1>2, <1>6
<1> QED
  BY <1>1, <1>3, <1>4, <1>5, <1>6 DEF States
-----------------------------------------------------------------------------
LEMMA Typed ==
  ASSUME IndInv
  PROVE  /\ sockets \in [Slots -> SocketType] /\ next_local_port \in 1 .. MaxConns + 1
         /\ MaxConns \in Nat /\ Sockets \in Nat \ {0} /\ 0 \in Slots
         /\ call.op \in {"none", "connect", "send", "recv", "close"} /\ call.sock \in Slots
         /\ call.left \in 0 .. Limit /\ Limit \in Nat
         /\ Now \in SocketType
<1>1. sockets \in [Slots -> SocketType] /\ next_local_port \in 1 .. MaxConns + 1
  BY DEF IndInv, TypeOK, SocketType
<1>2. call \in [op : {"none", "connect", "send", "recv", "close"}, sock : Slots, left : 0 .. Limit]
  BY DEF IndInv, TypeOK
<1>3. MaxConns \in Nat /\ Sockets \in Nat \ {0} /\ 0 \in Slots /\ Limit \in Nat
  BY TcpAssumption DEF Slots
<1> QED
  BY <1>1, <1>2, <1>3 DEF Now

LEMMA ZeroedIs ==
  /\ Zeroed \in SocketType /\ Zeroed.port = 0 /\ Zeroed.state = "CLOSED"
  /\ Avail(Zeroed) = 0
<1>1. 0 \in 0 .. RxSize - 1 /\ 0 \in 0 .. MaxConns /\ 0 \in Nat
  BY TcpAssumption
<1>2. NoBytes \in [0 .. RxSize - 1 -> Nat]
  BY DEF NoBytes
<1>3. Zeroed \in SocketType /\ Zeroed.port = 0 /\ Zeroed.state = "CLOSED"
      /\ Zeroed.head = 0 /\ Zeroed.tail = 0
  BY <1>1, <1>2 DEF Zeroed, SocketType, States
<1> QED
  BY <1>3 DEF Avail

LEMMA InitHolds == Init => IndInv
<1> SUFFICES ASSUME Init PROVE IndInv
  OBVIOUS
<1>1. /\ sockets = [s \in Slots |-> Zeroed] /\ next_local_port = 1 /\ call = NoCall /\ net = {}
      /\ peer = [p \in Conns |-> Unborn] /\ hist = [p \in Conns |-> Fresh]
  BY DEF Init
<1>2. \A s \in Slots : sockets[s] = Zeroed
  BY <1>1
<1>3. TypeOK
  <2>1. sockets \in [Slots -> SocketType]
    BY <1>1, ZeroedIs
  <2>2. call \in [op : {"none", "connect", "send", "recv", "close"}, sock : Slots, left : 0 .. Limit]
    BY <1>1, TcpAssumption DEF NoCall, Slots
  <2>3. Unborn \in [syn : BOOLEAN, open : BOOLEAN, sent : Nat, fin : BOOLEAN]
    BY DEF Unborn
  <2>4. 1 \in 1 .. MaxConns + 1
    BY TcpAssumption
  <2> QED
    BY <1>1, <2>1, <2>2, <2>3, <2>4 DEF TypeOK, SocketType
<1>4. HistOK
  <2>1. Fresh \in [clean : BOOLEAN, next : Nat, got : Seq(Nat), wire : Seq(Nat)]
    BY DEF Fresh
  <2> QED
    BY <1>1, <2>1 DEF HistOK
<1>5. NetOK
  BY <1>1 DEF NetOK
<1>6. PortsOK
  BY <1>1, <1>2, ZeroedIs DEF PortsOK, Live, Calling, NoCall
<1>7. RingOK
  <2>1. \A i \in 1 .. 0 : FALSE
    OBVIOUS
  <2> QED
    BY <1>2, <2>1, ZeroedIs DEF RingOK
<1>8. HalfOpenIsCalled /\ StreamOK
  BY <1>2, ZeroedIs DEF HalfOpenIsCalled, StreamOK, Live
<1>9. WireOK
  <2>1. SentInOrder
    <3>1. Stream(0) = <<>> /\ Fresh.wire = <<>> /\ Len(<<>>) = 0
      BY DEF Stream, Fresh
    <3> QED
      BY <1>1, <3>1 DEF SentInOrder
  <2>2. \A s \in Slots : ~ MaySend(s)
    BY <1>1, <1>2, ZeroedIs DEF MaySend, Calling, NoCall
  <2> QED
    BY <2>1, <2>2 DEF WireOK
<1> QED
  BY <1>3, <1>4, <1>5, <1>6, <1>7, <1>8, <1>9 DEF IndInv
-----------------------------------------------------------------------------
(* A call begins, goes on or ends without a change to what it is about.    *)
LEMMA CallChanges ==
  ASSUME IndInv, UNCHANGED <<sockets, next_local_port, net, peer, hist>>,
         call' \in [op : {"none", "connect", "send", "recv", "close"}, sock : Slots, left : 0 .. Limit],
         HalfOpenIsCalled',
         Calling("send")' \/ Calling("recv")' => Now'.port # 0,
         Calling("send")' =>
           sockets[call'.sock].state = "ESTABLISHED" \/ (Calling("send") /\ call'.sock = call.sock)
  PROVE  IndInv'
<1>1. TypeOK' /\ HistOK' /\ NetOK' /\ RingOK' /\ StreamOK'
  <2>1. TypeOK' /\ HistOK' /\ NetOK'
    BY DEF IndInv, TypeOK, HistOK, NetOK
  <2>2. RingOK'
    BY DEF IndInv, RingOK, InRing, Ahead, Avail
  <2>3. StreamOK'
    BY DEF IndInv, StreamOK, Live
  <2> QED
    BY <2>1, <2>2, <2>3
<1>2. PortsOK'
  BY DEF IndInv, PortsOK, Live, Avail
<1>3. WireOK'
  <2>1. \A s \in Slots : MaySend(s)' => MaySend(s)
    BY DEF MaySend, Calling
  <2> QED
    BY <2>1 DEF IndInv, WireOK, SentInOrder
<1> QED
  BY <1>1, <1>2, <1>3 DEF IndInv

LEMMA TickKeeps ==
  ASSUME IndInv, Tick
  PROVE  IndInv'
<1>1. UNCHANGED <<sockets, next_local_port, net, peer, hist>>
      /\ call' = [call EXCEPT !.left = @ - 1] /\ call.left > 0
  BY DEF Tick
<1>2. call \in [op : {"none", "connect", "send", "recv", "close"}, sock : Slots, left : 0 .. Limit]
      /\ Limit \in Nat
  BY TcpAssumption DEF IndInv, TypeOK
<1>3. /\ call' \in [op : {"none", "connect", "send", "recv", "close"}, sock : Slots, left : 0 .. Limit]
      /\ call'.op = call.op /\ call'.sock = call.sock
  BY <1>1, <1>2
<1>4. HalfOpenIsCalled'
  BY <1>1, <1>3 DEF IndInv, HalfOpenIsCalled, Calling
<1>5. Calling("send")' \/ Calling("recv")' => Now'.port # 0
  BY <1>1, <1>3 DEF IndInv, PortsOK, Calling, Now
<1>6. Calling("send")' => Calling("send") /\ call'.sock = call.sock
  BY <1>3 DEF Calling
<1> QED
  BY <1>1, <1>3, <1>4, <1>5, <1>6, CallChanges

(* No call that waits for an answer is in progress: no socket is half open. *)
LEMMA NoneHalfOpen ==
  ASSUME IndInv, ~ Calling("connect"), ~ Calling("close")
  PROVE  \A s \in Slots : sockets[s].state \notin {"SYN_SENT", "FIN_WAIT"}
BY DEF IndInv, HalfOpenIsCalled

LEMMA NoCallIs ==
  /\ NoCall \in [op : {"none", "connect", "send", "recv", "close"}, sock : Slots, left : 0 .. Limit]
  /\ NoCall.op = "none"
BY TcpAssumption DEF NoCall, Slots

LEMMA SendBegins ==
  ASSUME IndInv, NEW s \in Slots, Send(s)
  PROVE  IndInv'
<1>1. /\ UNCHANGED <<sockets, next_local_port, net, peer, hist>> /\ Calling("none")
      /\ call' = [op |-> "send", sock |-> s, left |-> 0] /\ sockets[s].state = "ESTABLISHED"
  BY DEF Send
<1>2. call' \in [op : {"none", "connect", "send", "recv", "close"}, sock : Slots, left : 0 .. Limit]
  BY <1>1, TcpAssumption
<1>3. HalfOpenIsCalled'
  BY <1>1, NoneHalfOpen DEF HalfOpenIsCalled, Calling
<1>4. sockets[s].port # 0
  BY <1>1 DEF IndInv, PortsOK, Live
<1> QED
  BY <1>1, <1>2, <1>3, <1>4, CallChanges DEF Calling, Now

LEMMA RecvBegins ==
  ASSUME IndInv, NEW s \in Slots, NEW wait \in {0, Limit}, Recv(s, wait)
  PROVE  IndInv'
<1>1. /\ UNCHANGED <<sockets, next_local_port, net, peer, hist>> /\ Calling("none")
      /\ call' = [op |-> "recv", sock |-> s, left |-> wait] /\ sockets[s].port # 0
  BY DEF Recv
<1>2. call' \in [op : {"none", "connect", "send", "recv", "close"}, sock : Slots, left : 0 .. Limit]
  BY <1>1, TcpAssumption
<1>3. HalfOpenIsCalled'
  BY <1>1, NoneHalfOpen DEF HalfOpenIsCalled, Calling
<1> QED
  BY <1>1, <1>2, <1>3, CallChanges DEF Calling, Now

LEMMA CallEndsKeeps ==
  ASSUME IndInv, SendFails \/ RecvNothing
  PROVE  IndInv'
<1>1. /\ UNCHANGED <<sockets, next_local_port, net, peer, hist>> /\ call' = NoCall
      /\ Calling("send") \/ Calling("recv")
  BY DEF SendFails, RecvNothing
<1>2. HalfOpenIsCalled'
  BY <1>1, NoneHalfOpen DEF HalfOpenIsCalled, Calling
<1> QED
  BY <1>1, <1>2, NoCallIs, CallChanges DEF Calling
-----------------------------------------------------------------------------
(* One socket changes, and stays on its port.                              *)
LEMMA OneChanges ==
  ASSUME IndInv, NEW s \in Slots, NEW k \in SocketType,
         sockets' = [sockets EXCEPT ![s] = k], k.port = sockets[s].port
  PROVE  /\ sockets' \in [Slots -> SocketType] /\ sockets'[s] = k
         /\ \A t \in Slots : t # s => sockets'[t] = sockets[t]
         /\ \A t \in Slots : sockets'[t].port = sockets[t].port
         /\ \A t \in Slots : t # s /\ sockets[s].port # 0 => sockets[t].port # sockets[s].port
<1>1. /\ sockets' \in [Slots -> SocketType] /\ sockets'[s] = k
      /\ \A t \in Slots : t # s => sockets'[t] = sockets[t]
  BY Typed
<1>2. \A t \in Slots : sockets'[t].port = sockets[t].port
  BY <1>1
<1>3. \A t \in Slots : t # s /\ sockets[s].port # 0 => sockets[t].port # sockets[s].port
  BY DEF IndInv, PortsOK
<1> QED
  BY <1>1, <1>2, <1>3

LEMMA ClosedKeeps ==
  ASSUME IndInv, UNCHANGED <<next_local_port, net, peer, hist>>, call' = NoCall,
         Set(call.sock, "state", "CLOSED"), Calling("connect") \/ Calling("close")
  PROVE  IndInv'
<1> DEFINE s == call.sock
           k == [sockets[s] EXCEPT !.state = "CLOSED"]
<1>1. s \in Slots /\ sockets[s] \in SocketType
  BY Typed
<1>2. sockets' = [sockets EXCEPT ![s] = k]
  BY DEF Set
<1>3. k \in SocketType /\ k.state = "CLOSED" /\ k.port = sockets[s].port
      /\ Avail(k) = Avail(sockets[s]) /\ InRing(k) = InRing(sockets[s])
  BY <1>1, StateSet DEF States
<1> HIDE DEF k, s
<1>4. /\ sockets' \in [Slots -> SocketType] /\ sockets'[s] = k
      /\ \A t \in Slots : t # s => sockets'[t] = sockets[t]
      /\ \A t \in Slots : sockets'[t].port = sockets[t].port
  BY <1>1, <1>2, <1>3, OneChanges
<1>5. \A t \in Slots : /\ Avail(sockets'[t]) = Avail(sockets[t])
                       /\ InRing(sockets'[t]) = InRing(sockets[t])
                       /\ sockets'[t].state # "CLOSED" => sockets'[t] = sockets[t] /\ t # s
  BY <1>3, <1>4
<1>6. TypeOK' /\ HistOK' /\ NetOK'
  BY <1>4, NoCallIs DEF IndInv, TypeOK, HistOK, NetOK, SocketType
<1>7. PortsOK'
  <2>1. \A p \in Conns : p >= next_local_port' => hist'[p] = Fresh /\ peer'[p] = Unborn
    BY DEF IndInv, PortsOK
  <2>2. ASSUME NEW t \in Slots
        PROVE  /\ sockets'[t].port < next_local_port'
               /\ sockets'[t].port = 0 => ~ (sockets'[t].state # "CLOSED") /\ Avail(sockets'[t]) = 0
               /\ \A u \in Slots : t # u /\ sockets'[t].port # 0 => sockets'[t].port # sockets'[u].port
    BY <1>4, <1>5 DEF IndInv, PortsOK, Live
  <2>3. ~ (call'.op = "send") /\ ~ (call'.op = "recv")
    BY NoCallIs
  <2> QED
    BY <2>1, <2>2, <2>3 DEF PortsOK, Live, Calling, Avail
<1>8. RingOK'
  <2>1. \A t \in Slots : \A i \in 1 .. Avail(sockets'[t]) :
          InRing(sockets'[t])[i] \in 1 .. peer'[sockets'[t].port].sent
    BY <1>4, <1>5 DEF IndInv, RingOK
  <2> QED
    BY <2>1 DEF RingOK, Avail, InRing, Ahead
<1>9. HalfOpenIsCalled'
  <2>1. \A t \in Slots : t # s => sockets[t].state \notin {"SYN_SENT", "FIN_WAIT"}
    BY DEF IndInv, HalfOpenIsCalled, s, Calling
  <2> QED
    BY <1>5, <2>1 DEF HalfOpenIsCalled
<1>10. WireOK'
  <2>1. ~ (call'.op = "send")
    BY NoCallIs
  <2>2. ASSUME NEW t \in Slots, sockets'[t].state \in {"SYN_SENT", "ESTABLISHED", "CLOSE_WAIT"}
        PROVE  sockets'[t].seq = Len(hist'[sockets'[t].port].wire) + 1
    <3>1. sockets'[t] = sockets[t]
      BY <2>2, <1>5
    <3> QED
      BY <2>2, <3>1 DEF IndInv, WireOK, MaySend
  <2> QED
    BY <2>1, <2>2 DEF IndInv, WireOK, SentInOrder, MaySend, Calling
<1>11. StreamOK'
  <2>1. \A t \in Slots : sockets'[t].state # "CLOSED" =>
          StreamOf(sockets'[t], hist'[sockets'[t].port], peer'[sockets'[t].port])
    BY <1>5 DEF IndInv, StreamOK, Live
  <2> QED
    BY <2>1 DEF StreamOK, Live
<1> QED
  BY <1>6, <1>7, <1>8, <1>9, <1>10, <1>11 DEF IndInv

LEMMA ReturnsKeep ==
  ASSUME IndInv, ConnectReturns \/ CloseReturns
  PROVE  IndInv'
<1>1. /\ UNCHANGED <<next_local_port, net, peer, hist>>
      /\ call' = NoCall
      /\ Calling("connect") \/ Calling("close")
  BY DEF ConnectReturns, CloseReturns
<1>2. CASE Set(call.sock, "state", "CLOSED")
  BY <1>1, <1>2, ClosedKeeps
<1>3. CASE Calling("connect") /\ Now.state = "ESTABLISHED" /\ UNCHANGED sockets
  <2>1. HalfOpenIsCalled'
    BY <1>3 DEF IndInv, HalfOpenIsCalled, Now, Calling
  <2> QED
    BY <1>1, <1>3, <2>1, NoCallIs, CallChanges DEF Calling
<1> QED
  BY <1>2, <1>3 DEF ConnectReturns, CloseReturns

HistType == [clean : BOOLEAN, next : Nat, got : Seq(Nat), wire : Seq(Nat)]
CallType == [op : {"none", "connect", "send", "recv", "close"}, sock : Slots, left : 0 .. Limit]
PeerType == [syn : BOOLEAN, open : BOOLEAN, sent : Nat, fin : BOOLEAN]

(* A socket that is not CLOSED has a connection, and so has one that sends *)
(* or receives.                                                            *)
LEMMA PortIs ==
  ASSUME IndInv, NEW s \in Slots, sockets[s].port # 0
  PROVE  /\ sockets[s].port \in Conns /\ sockets[s].port \in Nat
         /\ sockets[s].port < next_local_port
         /\ hist[sockets[s].port] \in HistType /\ peer[sockets[s].port] \in PeerType
<1>1. sockets[s].port \in 0 .. MaxConns /\ MaxConns \in Nat
  BY Typed DEF SocketType
<1>2. sockets[s].port \in Conns /\ sockets[s].port \in Nat
  BY <1>1 DEF Conns
<1>3. sockets[s].port < next_local_port
  BY DEF IndInv, PortsOK
<1>4. hist \in [Conns -> HistType] /\ peer \in [Conns -> PeerType]
  BY DEF IndInv, TypeOK, HistOK, HistType, PeerType
<1> QED
  BY <1>2, <1>3, <1>4

LEMMA LivePort ==
  ASSUME IndInv, NEW s \in Slots, Live(s)
  PROVE  sockets[s].port # 0
BY DEF IndInv, PortsOK

(* One connection goes on: its socket and what is noted of it change.      *)
OneSocket(s, k, h, p) ==
  /\ p = sockets[s].port /\ p # 0 /\ k.port = p
  /\ sockets' = [sockets EXCEPT ![s] = k] /\ hist' = [hist EXCEPT ![p] = h]
  /\ UNCHANGED <<net, next_local_port>>

CallGoesOn(s) ==
  /\ call' \in CallType
  /\ call'.op \in {"send", "recv"} => sockets[call'.sock].port # 0
  /\ \A t \in Slots :
       /\ sockets'[t].state = "SYN_SENT" => call'.op = "connect" /\ call'.sock = t
       /\ sockets'[t].state = "FIN_WAIT" => call'.op = "close" /\ call'.sock = t
       /\ t # s /\ call'.op = "send" /\ call'.sock = t => MaySend(t)

PeerGoesOn(p) ==
  /\ peer' \in [Conns -> PeerType]
  /\ \A q \in Conns : /\ peer'[q].sent = peer[q].sent /\ peer'[q].fin = peer[q].fin
                      /\ q # p => peer'[q] = peer[q]

StaysSound(s, k, h, p) ==
  /\ \A i \in 1 .. Avail(k) : InRing(k)[i] \in 1 .. peer[p].sent
  /\ h.wire = Stream(Len(h.wire))
  /\ k.state \in {"SYN_SENT", "ESTABLISHED", "CLOSE_WAIT"} => k.seq = Len(h.wire) + 1
  /\ call'.op = "send" /\ call'.sock = s => k.seq = Len(h.wire) + 1
  /\ k.state # "CLOSED" => StreamOf(k, h, peer'[p])

LEMMA ConnectionChanges ==
  ASSUME IndInv, NEW s \in Slots, NEW k \in SocketType, NEW h \in HistType, NEW p,
         OneSocket(s, k, h, p), CallGoesOn(s), PeerGoesOn(p), StaysSound(s, k, h, p)
  PROVE  IndInv'
<1>0. /\ p = sockets[s].port /\ p # 0 /\ k.port = p
      /\ sockets' = [sockets EXCEPT ![s] = k] /\ hist' = [hist EXCEPT ![p] = h]
      /\ UNCHANGED <<net, next_local_port>>
  BY DEF OneSocket
<1>1. /\ p \in Conns /\ p \in Nat /\ p < next_local_port
      /\ hist \in [Conns -> HistType] /\ peer \in [Conns -> PeerType]
  <2>1. sockets[s].port # 0
    BY <1>0
  <2>2. p \in Conns /\ p \in Nat /\ p < next_local_port
    BY <1>0, <2>1, PortIs
  <2>3. hist \in [Conns -> HistType] /\ peer \in [Conns -> PeerType]
    BY DEF IndInv, TypeOK, HistOK, HistType, PeerType
  <2> QED
    BY <2>2, <2>3
<1>2. /\ sockets' \in [Slots -> SocketType] /\ sockets'[s] = k
      /\ \A t \in Slots : t # s => sockets'[t] = sockets[t]
      /\ \A t \in Slots : sockets'[t].port = sockets[t].port
      /\ \A t \in Slots : t # s => sockets[t].port # p
  <2>1. k.port = sockets[s].port /\ sockets[s].port # 0
    BY <1>0
  <2>2. sockets \in [Slots -> SocketType]
    BY Typed
  <2>3. sockets' \in [Slots -> SocketType] /\ sockets'[s] = k
        /\ \A t \in Slots : t # s => sockets'[t] = sockets[t]
    BY <1>0, <2>2
  <2>4. \A t \in Slots : sockets'[t].port = sockets[t].port
    BY <2>1, <2>3
  <2>5. \A t \in Slots : t # s => sockets[t].port # p
    BY <1>0, <2>1 DEF IndInv, PortsOK
  <2> QED
    BY <2>3, <2>4, <2>5
<1>3. hist' \in [Conns -> HistType] /\ hist'[p] = h /\ \A q \in Conns : q # p => hist'[q] = hist[q]
  BY <1>0, <1>1
<1>4. TypeOK'
  <2>1. next_local_port' \in 1 .. MaxConns + 1 /\ net' \subseteq Segments
    BY <1>0 DEF IndInv, TypeOK
  <2> QED
    BY <2>1, <1>2 DEF TypeOK, SocketType, CallType, PeerType, CallGoesOn, PeerGoesOn
<1>5. HistOK'
  BY <1>3 DEF HistOK, HistType
<1>6. NetOK'
  <2>1. \A m \in net : m.port \in Conns
    BY DEF IndInv, TypeOK, Segments
  <2>2. \A m \in net : peer'[m.port].sent = peer[m.port].sent /\ peer'[m.port].fin = peer[m.port].fin
    BY <2>1 DEF PeerGoesOn
  <2> QED
    BY <1>0, <2>2 DEF IndInv, NetOK
<1>7. PortsOK'
  <2>1. ASSUME NEW q \in Conns, q >= next_local_port'
        PROVE  hist'[q] = Fresh /\ peer'[q] = Unborn
    <3>1. q # p
      BY <2>1, <1>0, <1>1, Typed DEF Conns
    <3> QED
      BY <2>1, <3>1, <1>0, <1>3 DEF IndInv, PortsOK, PeerGoesOn
  <2>2. ASSUME NEW t \in Slots
        PROVE  /\ sockets'[t].port < next_local_port'
               /\ sockets'[t].port = 0 => ~ (sockets'[t].state # "CLOSED") /\ Avail(sockets'[t]) = 0
               /\ \A u \in Slots : t # u /\ sockets'[t].port # 0 => sockets'[t].port # sockets'[u].port
    BY <1>0, <1>2 DEF IndInv, PortsOK, Live
  <2>3. call'.op = "send" \/ call'.op = "recv" => sockets'[call'.sock].port # 0
    BY <1>2 DEF CallType, CallGoesOn
  <2> QED
    BY <2>1, <2>2, <2>3 DEF PortsOK, Live, Calling, Avail, Now
<1>8. RingOK'
  <2>1. ASSUME NEW t \in Slots, NEW i \in 1 .. Avail(sockets'[t])
        PROVE  InRing(sockets'[t])[i] \in 1 .. peer'[sockets'[t].port].sent
    <3>1. CASE t = s
      BY <3>1, <1>0, <1>1, <1>2 DEF PeerGoesOn, StaysSound
    <3>2. CASE t # s /\ sockets[t].port # 0
      <4>1. sockets[t].port \in Conns
        BY <3>2, PortIs
      <4> QED
        BY <3>2, <4>1, <1>2 DEF IndInv, RingOK, PeerGoesOn
    <3>3. CASE t # s /\ sockets[t].port = 0
      <4>1. Avail(sockets'[t]) = 0
        BY <3>3, <1>2 DEF IndInv, PortsOK
      <4> QED
        BY <4>1
    <3> QED
      BY <3>1, <3>2, <3>3
  <2> QED
    BY <2>1 DEF RingOK, Avail, InRing, Ahead
<1>9. HalfOpenIsCalled'
  BY DEF HalfOpenIsCalled, Calling, CallGoesOn
<1>10. WireOK'
  <2>1. \A q \in Conns : hist'[q].wire = Stream(Len(hist'[q].wire))
    BY <1>3 DEF IndInv, WireOK, SentInOrder, StaysSound
  <2>2. ASSUME NEW t \in Slots,
               \/ sockets'[t].state \in {"SYN_SENT", "ESTABLISHED", "CLOSE_WAIT"}
               \/ call'.op = "send" /\ call'.sock = t
        PROVE  sockets'[t].seq = Len(hist'[sockets'[t].port].wire) + 1
    <3>1. CASE t = s
      BY <3>1, <2>2, <1>0, <1>2, <1>3 DEF StaysSound
    <3>2. CASE t # s
      <4>1. MaySend(t)
        BY <2>2, <3>2, <1>2 DEF MaySend, CallGoesOn
      <4>2. sockets[t].port # 0
        BY <4>1, <3>2, LivePort DEF MaySend, Live, IndInv, PortsOK, Now
      <4>3. sockets[t].port \in Conns
        BY <4>2, PortIs
      <4> QED
        BY <3>2, <4>1, <4>3, <1>2, <1>3 DEF IndInv, WireOK
    <3> QED
      BY <3>1, <3>2
  <2> QED
    BY <2>1, <2>2 DEF WireOK, SentInOrder, MaySend, Calling
<1>11. StreamOK'
  <2>1. ASSUME NEW t \in Slots, sockets'[t].state # "CLOSED"
        PROVE  StreamOf(sockets'[t], hist'[sockets'[t].port], peer'[sockets'[t].port])
    <3>1. CASE t = s
      BY <3>1, <2>1, <1>0, <1>2, <1>3 DEF StaysSound
    <3>2. CASE t # s
      <4>1. Live(t)
        BY <2>1, <3>2, <1>2 DEF Live
      <4>2. sockets[t].port \in Conns
        BY <4>1, LivePort, PortIs
      <4> QED
        BY <3>2, <4>1, <4>2, <1>2, <1>3 DEF IndInv, StreamOK, PeerGoesOn
    <3> QED
      BY <3>1, <3>2
  <2> QED
    BY <2>1 DEF StreamOK, Live
<1> QED
  BY <1>4, <1>5, <1>6, <1>7, <1>8, <1>9, <1>10, <1>11 DEF IndInv

(* The unit is on the wire, and the socket's number moves on.              *)
LEMMA SendReturnsKeeps ==
  ASSUME IndInv, SendReturns
  PROVE  IndInv'
<1>1. PICK s \in Slots, j \in SocketType, p \in 0 .. MaxConns : s = call.sock /\ j = sockets[s] /\ p = j.port
  BY Typed DEF SocketType
<1>2. /\ Calling("send") /\ call' = NoCall /\ UNCHANGED <<next_local_port, net, peer>>
      /\ sockets' = [sockets EXCEPT ![s].seq = j.seq + 1]
      /\ hist' = [hist EXCEPT ![p].wire = Append(hist[p].wire, j.seq)]
  BY <1>1 DEF SendReturns, Set, Now
<1>3. p # 0
  BY <1>1, <1>2 DEF IndInv, PortsOK, Now
<1>4. p \in Conns /\ hist[p] \in HistType /\ peer \in [Conns -> PeerType]
  BY <1>1, <1>3, PortIs DEF IndInv, TypeOK, PeerType
<1>5. PICK w \in Seq(Nat) : w = hist[p].wire
  BY <1>4 DEF HistType
<1>6. w = Stream(Len(w)) /\ Len(w) \in Nat /\ j.seq = Len(w) + 1
  <2>1. MaySend(s)
    BY <1>1, <1>2 DEF MaySend
  <2>2. j.seq = Len(w) + 1
    BY <1>1, <1>5, <2>1 DEF IndInv, WireOK
  <2>3. w = Stream(Len(w))
    BY <1>4, <1>5 DEF IndInv, WireOK, SentInOrder
  <2> QED
    BY <2>2, <2>3
<1>7. Append(w, j.seq) \in Seq(Nat) /\ Append(w, j.seq) = Stream(j.seq) /\ Len(Stream(j.seq)) = j.seq
  <2>1. PICK n \in Nat : n = Len(w)
    BY <1>6
  <2>2. \A m \in Nat : Append(Stream(m), m + 1) = Stream(m + 1)
    BY StreamIs
  <2>3. \A m \in Nat : Stream(m) \in Seq(Nat) /\ Len(Stream(m)) = m
    BY StreamIs
  <2>4. j.seq \in Nat /\ j.seq = n + 1
    BY <1>6, <2>1
  <2> QED
    BY <1>6, <2>1, <2>2, <2>3, <2>4
<1>8. PICK k : k = [j EXCEPT !.seq = j.seq + 1]
  OBVIOUS
<1>9. PICK h : h = [hist[p] EXCEPT !.wire = Append(w, j.seq)]
  OBVIOUS
<1>10. /\ k \in SocketType /\ k.seq = j.seq + 1 /\ k.port = j.port /\ k.state = j.state /\ k.ack = j.ack
       /\ Avail(k) = Avail(j) /\ InRing(k) = InRing(j)
  <2>1. j.seq + 1 \in Nat
    BY <1>6
  <2>2. /\ k \in SocketType /\ k.seq = j.seq + 1 /\ k.port = j.port /\ k.state = j.state /\ k.ack = j.ack
        /\ k.head = j.head /\ k.tail = j.tail /\ k.rx = j.rx
    BY <2>1, <1>8 DEF SocketType
  <2> QED
    BY <2>2 DEF Avail, InRing, Ahead
<1>11. /\ h \in HistType /\ h.clean = hist[p].clean /\ h.next = hist[p].next /\ h.got = hist[p].got
       /\ h.wire = Append(w, j.seq)
  BY <1>4, <1>7, <1>9 DEF HistType
<1>12. sockets' = [sockets EXCEPT ![s] = k] /\ hist' = [hist EXCEPT ![p] = h]
  BY <1>1, <1>2, <1>5, <1>8, <1>9
<1>13. \A t \in Slots : sockets'[t].state \notin {"SYN_SENT", "FIN_WAIT"}
  <2>1. \A t \in Slots : sockets[t].state \notin {"SYN_SENT", "FIN_WAIT"}
    BY <1>2, NoneHalfOpen DEF Calling
  <2> QED
    BY <2>1, <1>1, <1>10, <1>12, Typed
<1>14. \A i \in 1 .. Avail(k) : InRing(k)[i] \in 1 .. peer[p].sent
  BY <1>1, <1>10 DEF IndInv, RingOK
<1>15. k.state # "CLOSED" => StreamOf(k, h, peer'[p])
  <2>1. j.state # "CLOSED" => StreamOf(j, hist[p], peer[p])
    BY <1>1 DEF IndInv, StreamOK, Live
  <2> QED
    BY <2>1, <1>2, <1>10, <1>11 DEF StreamOf, Ended
<1>16. call' \in CallType /\ call'.op = "none"
  BY <1>2, NoCallIs DEF CallType
<1>17. h.wire = Stream(Len(h.wire)) /\ k.seq = Len(h.wire) + 1
  BY <1>7, <1>10, <1>11
<1> QED
  <2>1. OneSocket(s, k, h, p)
    BY <1>1, <1>2, <1>3, <1>10, <1>12 DEF OneSocket
  <2>2. CallGoesOn(s)
    BY <1>13, <1>16 DEF CallGoesOn
  <2>3. PeerGoesOn(p)
    BY <1>2, <1>4 DEF PeerGoesOn
  <2>4. StaysSound(s, k, h, p)
    BY <1>14, <1>15, <1>17 DEF StaysSound
  <2> QED
    BY <2>1, <2>2, <2>3, <2>4, <1>1, <1>10, <1>11, ConnectionChanges

LEMMA Regroup == \A g, a, r \in Seq(Nat) : (g \o a) \o r = g \o (a \o r)
BY ConcatAssociative

(* What was read moves from the ring to what tcp_recv() has returned.      *)
LEMMA RecvReturnsKeeps ==
  ASSUME IndInv, NEW n \in 1 .. 2, RecvReturns(n)
  PROVE  IndInv'
<1>1. PICK s \in Slots, j \in SocketType, p \in 0 .. MaxConns : s = call.sock /\ j = sockets[s] /\ p = j.port
  BY Typed DEF SocketType
<1>2. /\ Calling("recv") /\ call' = NoCall /\ UNCHANGED <<next_local_port, net, peer>>
      /\ sockets' = [sockets EXCEPT ![s].head = (j.head + n) % RxSize]
      /\ hist' = [hist EXCEPT ![p].got = IF hist[p].clean THEN hist[p].got \o Ahead(j, n)
                                                          ELSE hist[p].got]
      /\ n <= Avail(j)
  BY <1>1 DEF RecvReturns, Set, Now
<1>3. p # 0
  BY <1>1, <1>2 DEF IndInv, PortsOK, Now
<1>4. p \in Conns /\ hist[p] \in HistType /\ peer \in [Conns -> PeerType]
  BY <1>1, <1>3, PortIs DEF IndInv, TypeOK, PeerType
<1>5. n \in 1 .. Avail(j) /\ n \in 0 .. Avail(j) /\ Avail(j) \in Nat
  <2>1. Avail(j) \in Nat
    BY RingBasics
  <2> QED
    BY <2>1, <1>2
<1>6. PICK g \in Seq(Nat) : g = hist[p].got
  BY <1>4 DEF HistType
<1>7. PICK a \in Seq(Nat) : a = Ahead(j, n)
  BY <1>5, AheadIs
<1>8. PICK k : k = [j EXCEPT !.head = (j.head + n) % RxSize]
  OBVIOUS
<1>9. PICK h : h = [hist[p] EXCEPT !.got = IF hist[p].clean THEN g \o a ELSE g]
  OBVIOUS
<1>10. /\ k \in SocketType /\ k.state = j.state /\ k.port = j.port /\ k.seq = j.seq /\ k.ack = j.ack
       /\ Avail(k) = Avail(j) - n
       /\ \A i \in 1 .. Avail(k) : i + n \in 1 .. Avail(j) /\ InRing(k)[i] = InRing(j)[i + n]
       /\ InRing(j) = a \o InRing(k)
  <2>1. n \in 1 .. Avail(j) /\ k = [j EXCEPT !.head = (j.head + n) % RxSize]
    BY <1>5, <1>8
  <2>2. /\ k \in SocketType /\ k.state = j.state /\ k.port = j.port /\ k.seq = j.seq /\ k.ack = j.ack
        /\ Avail(k) = Avail(j) - n
    BY <2>1, ReadIs
  <2>3. ReadFrom(k, j, n)
    BY <2>1, ReadIs
  <2> QED
    BY <2>2, <2>3, <1>7 DEF ReadFrom
<1>11. /\ h \in HistType /\ h.clean = hist[p].clean /\ h.next = hist[p].next /\ h.wire = hist[p].wire
       /\ h.clean => h.got = g \o a
  <2>1. g \o a \in Seq(Nat)
    BY ConcatProperties
  <2>2. PICK x \in Seq(Nat) : x = IF hist[p].clean THEN g \o a ELSE g
    BY <2>1
  <2>3. h = [hist[p] EXCEPT !.got = x]
    BY <2>2, <1>9
  <2>4. /\ h \in HistType /\ h.clean = hist[p].clean /\ h.next = hist[p].next
        /\ h.wire = hist[p].wire /\ h.got = x
    BY <2>3, <1>4 DEF HistType
  <2> QED
    BY <2>2, <2>4
<1>12. sockets' = [sockets EXCEPT ![s] = k] /\ hist' = [hist EXCEPT ![p] = h]
  BY <1>1, <1>2, <1>6, <1>7, <1>8, <1>9
<1>13. \A t \in Slots : sockets'[t].state \notin {"SYN_SENT", "FIN_WAIT"}
  <2>1. \A t \in Slots : sockets[t].state \notin {"SYN_SENT", "FIN_WAIT"}
    BY <1>2, NoneHalfOpen DEF Calling
  <2> QED
    BY <2>1, <1>1, <1>10, <1>12, Typed
<1>14. \A i \in 1 .. Avail(k) : InRing(k)[i] \in 1 .. peer[p].sent
  BY <1>1, <1>10 DEF IndInv, RingOK
<1>15. k.state # "CLOSED" => StreamOf(k, h, peer'[p])
  <2>1. j.state # "CLOSED" => StreamOf(j, hist[p], peer[p])
    BY <1>1 DEF IndInv, StreamOK, Live
  <2>2. j.state # "SYN_SENT"
    BY <1>1, <1>2, NoneHalfOpen DEF Calling
  <2>3. h.clean => h.got \o InRing(k) = g \o InRing(j)
    <3>1. PICK r \in Seq(Nat) : r = InRing(k)
      BY <1>10, InRingIs
    <3>2. (g \o a) \o r = g \o (a \o r)
      BY Regroup
    <3> QED
      BY <3>1, <3>2, <1>10, <1>11
  <2> QED
    BY <2>1, <2>2, <2>3, <1>2, <1>6, <1>10, <1>11 DEF StreamOf, Ended
<1>16. call' \in CallType /\ call'.op = "none"
  BY <1>2, NoCallIs DEF CallType
<1>17. /\ h.wire = Stream(Len(h.wire))
       /\ k.state \in {"SYN_SENT", "ESTABLISHED", "CLOSE_WAIT"} => k.seq = Len(h.wire) + 1
  BY <1>1, <1>4, <1>10, <1>11 DEF IndInv, WireOK, SentInOrder, MaySend
<1>18. OneSocket(s, k, h, p)
  BY <1>1, <1>2, <1>3, <1>10, <1>12 DEF OneSocket
<1>19. CallGoesOn(s)
  BY <1>13, <1>16 DEF CallGoesOn
<1>20. PeerGoesOn(p)
  BY <1>2, <1>4 DEF PeerGoesOn
<1>21. StaysSound(s, k, h, p)
  BY <1>14, <1>15, <1>16, <1>17 DEF StaysSound
<1> QED
  BY <1>1, <1>10, <1>11, <1>18, <1>19, <1>20, <1>21, ConnectionChanges

LEMMA CloseKeeps ==
  ASSUME IndInv, NEW s \in Slots, Close(s)
  PROVE  IndInv'
<1>1. PICK j \in SocketType, p \in 0 .. MaxConns : j = sockets[s] /\ p = j.port
  BY Typed DEF SocketType
<1>2. /\ Calling("none") /\ call' = [op |-> "close", sock |-> s, left |-> Limit]
      /\ UNCHANGED <<next_local_port, net, peer, hist>>
      /\ sockets' = [sockets EXCEPT ![s] = [j EXCEPT !.state = "FIN_WAIT", !.seq = j.seq + 1]]
      /\ j.state # "CLOSED"
  <2>1. sockets' = [sockets EXCEPT ![s].state = "FIN_WAIT", ![s].seq = @ + 1]
    BY DEF Close
  <2>2. sockets' = [sockets EXCEPT ![s] = [j EXCEPT !.state = "FIN_WAIT", !.seq = j.seq + 1]]
    BY <2>1, <1>1, Typed DEF SocketType
  <2> QED
    BY <2>2, <1>1 DEF Close
<1>3. p # 0 /\ p \in Conns /\ hist[p] \in HistType /\ peer \in [Conns -> PeerType]
      /\ hist \in [Conns -> HistType]
  <2>1. p # 0
    BY <1>1, <1>2, LivePort DEF Live
  <2> QED
    BY <2>1, <1>1, PortIs DEF IndInv, TypeOK, HistOK, PeerType, HistType
<1>4. PICK k : k = [j EXCEPT !.state = "FIN_WAIT", !.seq = j.seq + 1]
  OBVIOUS
<1>5. /\ k \in SocketType /\ k.state = "FIN_WAIT" /\ k.port = j.port
      /\ Avail(k) = Avail(j) /\ InRing(k) = InRing(j)
  <2>1. "FIN_WAIT" \in States /\ j.seq + 1 \in Nat
    BY DEF States, SocketType
  <2>2. /\ k \in SocketType /\ k.state = "FIN_WAIT" /\ k.port = j.port
        /\ k.head = j.head /\ k.tail = j.tail /\ k.rx = j.rx
    BY <2>1, <1>4 DEF SocketType
  <2> QED
    BY <2>2 DEF Avail, InRing, Ahead
<1>6. OneSocket(s, k, hist[p], p)
  BY <1>1, <1>2, <1>3, <1>4, <1>5 DEF OneSocket
<1>7. call' \in CallType /\ call'.op = "close" /\ call'.sock = s
  BY <1>2, TcpAssumption DEF CallType
<1>8. CallGoesOn(s)
  <2>1. \A t \in Slots : sockets[t].state \notin {"SYN_SENT", "FIN_WAIT"}
    BY <1>2, NoneHalfOpen DEF Calling
  <2>2. \A t \in Slots : sockets'[t].state \in {"SYN_SENT", "FIN_WAIT"}
                           => t = s /\ sockets'[t].state = "FIN_WAIT"
    BY <2>1, <1>2, <1>4, <1>5, Typed
  <2> QED
    BY <2>2, <1>7 DEF CallGoesOn
<1>9. PeerGoesOn(p)
  BY <1>2, <1>3 DEF PeerGoesOn
<1>10. StaysSound(s, k, hist[p], p)
  <2>1. \A i \in 1 .. Avail(k) : InRing(k)[i] \in 1 .. peer[p].sent
    BY <1>1, <1>5 DEF IndInv, RingOK
  <2>2. hist[p].wire = Stream(Len(hist[p].wire))
    BY <1>3 DEF IndInv, WireOK, SentInOrder
  <2>3. StreamOf(k, hist[p], peer'[p])
    BY <1>5 DEF StreamOf
  <2> QED
    BY <2>1, <2>2, <2>3, <1>5, <1>7 DEF StaysSound
<1> QED
  BY <1>3, <1>5, <1>6, <1>8, <1>9, <1>10, ConnectionChanges
-----------------------------------------------------------------------------
(* The far end sends: what it has sent grows, and nothing follows its FIN. *)
LEMMA PeerSendsKeeps ==
  ASSUME IndInv, NEW p \in Conns, NEW len \in 0 .. 2, NEW fin \in BOOLEAN,
         PeerSends(p, len, fin)
  PROVE  IndInv'
<1>1. PICK m : m = Segment(p, {"ACK"} \cup (IF fin THEN {"FIN"} ELSE {}), peer[p].sent + 1, len)
  OBVIOUS
<1>2. PICK n \in Nat : n = peer[p].sent
  BY DEF IndInv, TypeOK
<1>3. /\ UNCHANGED <<sockets, next_local_port, call, hist>> /\ net' = net \cup {m}
      /\ peer' = [peer EXCEPT ![p].sent = n + len, ![p].fin = fin]
      /\ peer[p].open /\ ~ peer[p].fin
  BY <1>1, <1>2 DEF PeerSends
<1>4. peer \in [Conns -> PeerType] /\ n + len \in Nat /\ len \in Nat /\ n <= n + len
  BY DEF IndInv, TypeOK, PeerType
<1>5. PICK q : q = [peer[p] EXCEPT !.sent = n + len, !.fin = fin]
  OBVIOUS
<1>6. q \in PeerType /\ q.sent = n + len /\ q.fin = fin
  BY <1>4, <1>5 DEF PeerType
<1>7. /\ peer' \in [Conns -> PeerType] /\ peer'[p] = q
      /\ \A x \in Conns : x # p => peer'[x] = peer[x]
  <2>1. peer' = [peer EXCEPT ![p] = q]
    BY <1>3, <1>4, <1>5 DEF PeerType
  <2> QED
    BY <2>1, <1>4, <1>6
<1>8. p < next_local_port
  <2>1. ~ Unborn.open
    BY DEF Unborn
  <2>2. ~ (p >= next_local_port)
    BY <2>1, <1>3 DEF IndInv, PortsOK
  <2> QED
    BY <2>2, Typed DEF Conns
<1>9. /\ m.port = p /\ m.pos = n + 1 /\ m.len = len /\ m.flags \in {{"ACK"}, {"ACK", "FIN"}}
      /\ "FIN" \in m.flags => fin
      /\ m \in Segments
  <2>1. PICK f : f = {"ACK"} \cup (IF fin THEN {"FIN"} ELSE {})
    OBVIOUS
  <2>2. f \in {{"ACK"}, {"ACK", "FIN"}} /\ ("FIN" \in f => fin) /\ f \in SUBSET {"SYN", "ACK", "FIN", "RST"}
    BY <2>1
  <2>3. m = [port |-> p, flags |-> f, pos |-> n + 1, len |-> len]
    BY <2>1, <1>1, <1>2 DEF Segment
  <2>4. n + 1 \in Nat
    OBVIOUS
  <2> QED
    BY <2>2, <2>3, <2>4 DEF Segments
<1>10. TypeOK' /\ HistOK'
  <2>1. net' \subseteq Segments
    BY <1>3, <1>9 DEF IndInv, TypeOK
  <2> QED
    BY <2>1, <1>3, <1>7 DEF IndInv, TypeOK, HistOK, PeerType
<1>11. NetOK'
  <2>1. ASSUME NEW x \in net'
        PROVE  /\ x.port < next_local_port'
               /\ 1 <= x.pos /\ x.pos + x.len - 1 <= peer'[x.port].sent
               /\ x.flags \in {{"ACK"}, {"ACK", "FIN"}}
               /\ "FIN" \in x.flags => peer'[x.port].fin /\ x.pos + x.len - 1 = peer'[x.port].sent
    <3>1. CASE x = m
      <4>1. 1 <= n + 1 /\ n + 1 + len - 1 = n + len
        BY <1>4
      <4> QED
        BY <3>1, <4>1, <1>3, <1>4, <1>6, <1>7, <1>8, <1>9
    <3>2. CASE x \in net
      <4>1. x.port \in Conns /\ x.pos \in Nat /\ x.len \in 0 .. 2
        BY <3>2 DEF IndInv, TypeOK, Segments
      <4>2. /\ x.port < next_local_port
            /\ 1 <= x.pos /\ x.pos + x.len - 1 <= peer[x.port].sent
            /\ x.flags \in {{"ACK"}, {"ACK", "FIN"}}
            /\ "FIN" \in x.flags => peer[x.port].fin /\ x.pos + x.len - 1 = peer[x.port].sent
        BY <3>2 DEF IndInv, NetOK
      <4>3. CASE x.port = p
        <5>1. "FIN" \notin x.flags
          BY <4>2, <4>3, <1>3
        <5>2. x.pos + x.len - 1 <= n + len
          BY <4>1, <4>2, <4>3, <1>2, <1>4
        <5> QED
          BY <4>2, <4>3, <5>1, <5>2, <1>3, <1>6, <1>7
      <4>4. CASE x.port # p
        BY <4>1, <4>2, <4>4, <1>3, <1>7
      <4> QED
        BY <4>3, <4>4
    <3> QED
      BY <3>1, <3>2, <1>3
  <2> QED
    BY <2>1 DEF NetOK
<1>12. PortsOK'
  <2>1. \A x \in Conns : x >= next_local_port' => hist'[x] = Fresh /\ peer'[x] = Unborn
    <3>1. \A x \in Conns : x >= next_local_port => x # p
      BY <1>8, Typed DEF Conns
    <3> QED
      BY <3>1, <1>3, <1>7 DEF IndInv, PortsOK
  <2>2. \A t \in Slots :
          /\ sockets'[t].port < next_local_port'
          /\ sockets'[t].port = 0 => ~ (sockets'[t].state # "CLOSED") /\ Avail(sockets'[t]) = 0
          /\ \A u \in Slots : t # u /\ sockets'[t].port # 0 => sockets'[t].port # sockets'[u].port
    BY <1>3 DEF IndInv, PortsOK, Live
  <2>3. call'.op = "send" \/ call'.op = "recv" => sockets'[call'.sock].port # 0
    BY <1>3 DEF IndInv, PortsOK, Calling, Now
  <2> QED
    BY <2>1, <2>2, <2>3 DEF PortsOK, Live, Calling, Avail, Now
<1>13. RingOK'
  <2>1. ASSUME NEW t \in Slots, NEW i \in 1 .. Avail(sockets[t])
        PROVE  InRing(sockets[t])[i] \in 1 .. peer'[sockets[t].port].sent
    <3>1. InRing(sockets[t])[i] \in 1 .. peer[sockets[t].port].sent
      BY DEF IndInv, RingOK
    <3>2. CASE sockets[t].port = p
      <4>1. InRing(sockets[t])[i] \in 1 .. n + len
        BY <3>1, <3>2, <1>2, <1>4
      <4> QED
        BY <3>2, <4>1, <1>6, <1>7
    <3>3. CASE sockets[t].port # p /\ sockets[t].port # 0
      BY <3>1, <3>3, <1>7, PortIs
    <3>4. CASE sockets[t].port = 0
      BY <3>4 DEF IndInv, PortsOK
    <3> QED
      BY <3>2, <3>3, <3>4
  <2> QED
    BY <2>1, <1>3 DEF RingOK, Avail, InRing, Ahead
<1>14. HalfOpenIsCalled'
  BY <1>3 DEF IndInv, HalfOpenIsCalled, Calling
<1>15. WireOK'
  BY <1>3 DEF IndInv, WireOK, SentInOrder, MaySend, Calling
<1>16. StreamOK'
  <2>1. ASSUME NEW t \in Slots, sockets[t].state # "CLOSED"
        PROVE  StreamOf(sockets[t], hist[sockets[t].port], peer'[sockets[t].port])
    <3>1. StreamOf(sockets[t], hist[sockets[t].port], peer[sockets[t].port])
      BY <2>1 DEF IndInv, StreamOK, Live
    <3>2. sockets[t].port \in Conns
      BY <2>1, LivePort, PortIs DEF Live
    <3>3. CASE sockets[t].port = p
      <4>1. ~ (sockets[t].state = "CLOSE_WAIT" /\ hist[sockets[t].port].clean)
        BY <3>1, <3>3, <1>3 DEF StreamOf
      <4> QED
        BY <3>1, <4>1 DEF StreamOf
    <3>4. CASE sockets[t].port # p
      BY <3>1, <3>2, <3>4, <1>7
    <3> QED
      BY <3>3, <3>4
  <2> QED
    BY <2>1, <1>3 DEF StreamOK, Live
<1> QED
  BY <1>10, <1>11, <1>12, <1>13, <1>14, <1>15, <1>16 DEF IndInv

(* A connection is made: a free slot, and a port that was never used.      *)
LEMMA ConnectKeeps ==
  ASSUME IndInv, Connect
  PROVE  IndInv'
<1>1. PICK s \in Closed :
        /\ sockets' = [sockets EXCEPT ![s] =
             [Zeroed EXCEPT !.state = "SYN_SENT", !.port = next_local_port, !.seq = 1]]
        /\ call' = [op |-> "connect", sock |-> s, left |-> Limit]
  BY DEF Connect
<1>2. PICK p \in Conns : p = next_local_port
  BY DEF Connect
<1>3. /\ Calling("none") /\ next_local_port' = p + 1 /\ UNCHANGED <<net, hist>>
      /\ peer' = [peer EXCEPT ![p].syn = TRUE]
  BY <1>2 DEF Connect
<1>4. PICK k : k = [Zeroed EXCEPT !.state = "SYN_SENT", !.port = p, !.seq = 1]
  OBVIOUS
<1>5. /\ k \in SocketType /\ k.state = "SYN_SENT" /\ k.port = p /\ k.seq = 1
      /\ Avail(k) = 0
  <2>1. p \in 0 .. MaxConns /\ 1 \in Nat /\ "SYN_SENT" \in States
    BY Typed DEF Conns, States
  <2>2. /\ k \in SocketType /\ k.state = "SYN_SENT" /\ k.port = p /\ k.seq = 1
        /\ k.head = 0 /\ k.tail = 0
    BY <2>1, <1>4, ZeroedIs DEF SocketType, Zeroed
  <2> QED
    BY <2>2 DEF Avail
<1>6. s \in Slots /\ sockets[s].state = "CLOSED" /\ sockets' = [sockets EXCEPT ![s] = k]
  BY <1>1, <1>2, <1>4 DEF Closed
<1>7. /\ sockets' \in [Slots -> SocketType] /\ sockets'[s] = k
      /\ \A t \in Slots : t # s => sockets'[t] = sockets[t]
  BY <1>5, <1>6, Typed
<1>8. p \in Nat /\ p \in 1 .. MaxConns /\ MaxConns \in Nat /\ hist[p] = Fresh /\ peer[p] = Unborn
  <2>1. p \in Nat /\ p \in 1 .. MaxConns /\ MaxConns \in Nat /\ p >= next_local_port
    BY <1>2, Typed DEF Conns
  <2> QED
    BY <2>1 DEF IndInv, PortsOK
<1>9. \A t \in Slots : sockets[t].port \in Nat /\ sockets[t].port < p
  BY <1>2, Typed DEF IndInv, PortsOK, SocketType
<1>10. /\ peer' \in [Conns -> PeerType]
       /\ \A x \in Conns : /\ peer'[x].sent = peer[x].sent /\ peer'[x].fin = peer[x].fin
                           /\ x # p => peer'[x] = peer[x]
  BY <1>3 DEF IndInv, TypeOK, PeerType
<1>11. call' \in CallType /\ call'.op = "connect" /\ call'.sock = s
  BY <1>1, <1>6, TcpAssumption DEF CallType
<1>12. TypeOK' /\ HistOK'
  <2>1. next_local_port' \in 1 .. MaxConns + 1
    BY <1>3, <1>8
  <2> QED
    BY <2>1, <1>3, <1>7, <1>10, <1>11 DEF IndInv, TypeOK, HistOK, SocketType, PeerType, CallType
<1>13. NetOK'
  <2>1. \A m \in net : m.port \in Conns /\ m.port \in Nat
    BY DEF IndInv, TypeOK, Segments, Conns
  <2>2. \A m \in net : m.port < p + 1
    BY <2>1, <1>2, <1>8 DEF IndInv, NetOK
  <2>3. \A m \in net : peer'[m.port].sent = peer[m.port].sent /\ peer'[m.port].fin = peer[m.port].fin
    BY <2>1, <1>10
  <2> QED
    BY <2>2, <2>3, <1>3 DEF IndInv, NetOK
<1>14. PortsOK'
  <2>1. \A x \in Conns : x >= next_local_port' => hist'[x] = Fresh /\ peer'[x] = Unborn
    <3>1. \A x \in Conns : x >= p + 1 => x >= p /\ x # p
      BY <1>8 DEF Conns
    <3> QED
      BY <3>1, <1>2, <1>3, <1>10 DEF IndInv, PortsOK
  <2>2. ASSUME NEW t \in Slots
        PROVE  /\ sockets'[t].port < next_local_port'
               /\ sockets'[t].port = 0 => ~ (sockets'[t].state # "CLOSED") /\ Avail(sockets'[t]) = 0
               /\ \A u \in Slots : t # u /\ sockets'[t].port # 0 => sockets'[t].port # sockets'[u].port
    <3>1. CASE t = s
      <4>1. p < p + 1 /\ p # 0
        BY <1>8
      <4>2. \A u \in Slots : u # s => sockets'[u].port # p
        BY <1>7, <1>8, <1>9
      <4> QED
        BY <3>1, <4>1, <4>2, <1>3, <1>5, <1>7
    <3>2. CASE t # s
      <4>1. sockets[t].port < p + 1 /\ sockets[t].port # p
        BY <1>8, <1>9
      <4>2. sockets[t].port = 0 => ~ (sockets[t].state # "CLOSED") /\ Avail(sockets[t]) = 0
        BY DEF IndInv, PortsOK, Live
      <4>3. \A u \in Slots : u # s /\ t # u /\ sockets[t].port # 0 => sockets[t].port # sockets[u].port
        BY DEF IndInv, PortsOK
      <4> QED
        BY <3>2, <4>1, <4>2, <4>3, <1>3, <1>5, <1>7
    <3> QED
      BY <3>1, <3>2
  <2> QED
    BY <2>1, <2>2, <1>11 DEF PortsOK, Live, Calling, Avail
<1>15. RingOK'
  <2>1. ASSUME NEW t \in Slots, NEW i \in 1 .. Avail(sockets'[t])
        PROVE  InRing(sockets'[t])[i] \in 1 .. peer'[sockets'[t].port].sent
    <3>1. t # s
      BY <1>5, <1>7
    <3>2. sockets'[t] = sockets[t] /\ sockets[t].port # 0
      BY <3>1, <1>7 DEF IndInv, PortsOK
    <3>3. sockets[t].port \in Conns
      BY <3>2, PortIs
    <3> QED
      BY <3>2, <3>3, <1>10 DEF IndInv, RingOK
  <2> QED
    BY <2>1 DEF RingOK, Avail, InRing, Ahead
<1>16. HalfOpenIsCalled'
  <2>1. \A t \in Slots : sockets[t].state \notin {"SYN_SENT", "FIN_WAIT"}
    BY <1>3, NoneHalfOpen DEF Calling
  <2>2. \A t \in Slots : sockets'[t].state \in {"SYN_SENT", "FIN_WAIT"}
                           => t = s /\ sockets'[t].state = "SYN_SENT"
    BY <2>1, <1>5, <1>7
  <2> QED
    BY <2>2, <1>11 DEF HalfOpenIsCalled, Calling
<1>17. WireOK'
  <2>1. ASSUME NEW t \in Slots, sockets'[t].state \in {"SYN_SENT", "ESTABLISHED", "CLOSE_WAIT"}
        PROVE  sockets'[t].seq = Len(hist'[sockets'[t].port].wire) + 1
    <3>1. CASE t = s
      <4>1. Len(Fresh.wire) = 0
        BY DEF Fresh
      <4> QED
        BY <3>1, <4>1, <1>3, <1>5, <1>7, <1>8
    <3>2. CASE t # s
      BY <2>1, <3>2, <1>3, <1>7 DEF IndInv, WireOK, MaySend
    <3> QED
      BY <3>1, <3>2
  <2> QED
    BY <2>1, <1>3, <1>11 DEF IndInv, WireOK, SentInOrder, MaySend, Calling
<1>18. StreamOK'
  <2>1. ASSUME NEW t \in Slots, sockets'[t].state # "CLOSED"
        PROVE  StreamOf(sockets'[t], hist'[sockets'[t].port], peer'[sockets'[t].port])
    <3>1. CASE t = s
      <4>1. Fresh.clean /\ Fresh.next = 1 /\ Fresh.got = <<>>
        BY DEF Fresh
      <4>2. StreamOf(k, Fresh, peer'[p])
        BY <4>1, <1>5 DEF StreamOf
      <4> QED
        BY <3>1, <4>2, <1>3, <1>5, <1>7, <1>8
    <3>2. CASE t # s
      <4>1. Live(t)
        BY <2>1, <3>2, <1>7 DEF Live
      <4>2. sockets[t].port \in Conns /\ sockets[t].port # p
        BY <4>1, <1>8, <1>9, LivePort, PortIs
      <4> QED
        BY <3>2, <4>1, <4>2, <1>3, <1>7, <1>10 DEF IndInv, StreamOK
    <3> QED
      BY <3>1, <3>2
  <2> QED
    BY <2>1 DEF StreamOK, Live
<1> QED
  BY <1>12, <1>13, <1>14, <1>15, <1>16, <1>17, <1>18 DEF IndInv
-----------------------------------------------------------------------------
(* What can arrive: what was sent, or a segment without data of a          *)
(* connection that its far end knows.                                      *)
LEMMA ArrivingIs ==
  ASSUME IndInv, NEW seg \in Arriving
  PROVE  /\ seg \in Segments /\ seg.port \in Conns
         /\ seg.pos \in Nat /\ seg.len \in 0 .. 2
         /\ "SYN" \in seg.flags => seg.pos = 0
         /\ seg.len = 0 \/ (1 <= seg.pos /\ seg.pos + seg.len - 1 <= peer[seg.port].sent)
         /\ "FIN" \in seg.flags =>
              peer[seg.port].fin /\ seg.pos + seg.len - 1 = peer[seg.port].sent
<1>1. CASE seg \in net
  <2>1. seg \in Segments /\ seg.port \in Conns /\ seg.pos \in Nat /\ seg.len \in 0 .. 2
    BY <1>1 DEF IndInv, TypeOK, Segments
  <2>2. /\ 1 <= seg.pos /\ seg.pos + seg.len - 1 <= peer[seg.port].sent
        /\ seg.flags \in {{"ACK"}, {"ACK", "FIN"}}
        /\ "FIN" \in seg.flags => peer[seg.port].fin /\ seg.pos + seg.len - 1 = peer[seg.port].sent
    BY <1>1 DEF IndInv, NetOK
  <2> QED
    BY <2>1, <2>2
<1>2. ASSUME NEW p \in Conns, NEW f \in {{"SYN", "ACK"}, {"RST"}, {"ACK"}}, seg = Segment(p, f, 0, 0)
      PROVE  /\ seg \in Segments /\ seg.port \in Conns /\ seg.pos = 0 /\ seg.len = 0
             /\ "FIN" \notin seg.flags
  <2>1. seg = [port |-> p, flags |-> f, pos |-> 0, len |-> 0]
    BY <1>2 DEF Segment
  <2>2. f \in SUBSET {"SYN", "ACK", "FIN", "RST"} /\ "FIN" \notin f
    OBVIOUS
  <2> QED
    BY <2>1, <2>2 DEF Segments
<1>3. seg \in net \/ \E p \in Conns, f \in {{"SYN", "ACK"}, {"RST"}, {"ACK"}} : seg = Segment(p, f, 0, 0)
  BY DEF Arriving
<1> QED
  BY <1>1, <1>2, <1>3

(* The stream of a connection goes on with a segment, or is not clean.     *)
LEMMA SegmentExtends ==
  ASSUME NEW j \in SocketType, NEW seg \in Segments, NEW k, k = Dispatched(j, seg),
         NEW g \in HistType, NEW h, h = Noted(g, j, seg), NEW q, StreamOf(j, g, q),
         "SYN" \in seg.flags => seg.pos = 0,
         "FIN" \in seg.flags => q.fin /\ seg.pos + seg.len - 1 = q.sent,
         k.state # "CLOSED", j.state # "CLOSED"
  PROVE  StreamOf(k, h, q)
<1>1. /\ k \in SocketType
      /\ k.state \in {"SYN_SENT", "FIN_WAIT"} => k = j
      /\ k.state = "ESTABLISHED" =>
           \/ /\ j.state = "SYN_SENT" /\ "SYN" \in seg.flags /\ k.ack = seg.pos + 1
              /\ Avail(k) = Avail(j) /\ InRing(k) = InRing(j)
           \/ /\ j.state = "ESTABLISHED" /\ {"RST", "FIN"} \cap seg.flags = {}
              /\ k = Accept(j, seg)
      /\ k.state = "CLOSE_WAIT" =>
           \/ j.state = "CLOSE_WAIT" /\ k = j
           \/ /\ j.state = "ESTABLISHED" /\ "RST" \notin seg.flags /\ "FIN" \in seg.flags
              /\ k.ack = j.ack + 1 + seg.len /\ StreamGoesOn(k, j, seg)
  BY DispatchedIs
<1>2. /\ j.ack \in Nat /\ k.ack \in Nat /\ seg.pos \in Nat /\ seg.len \in 0 .. 2 /\ seg.len \in Nat
      /\ g.next \in Nat /\ g.got \in Seq(Nat) /\ k.state \in States
  <2>1. j.ack \in Nat
    BY DEF SocketType
  <2>2. k.ack \in Nat /\ k.state \in States
    BY <1>1 DEF SocketType
  <2>3. seg.pos \in Nat /\ seg.len \in 0 .. 2 /\ seg.len \in Nat
    BY DEF Segments
  <2>4. g.next \in Nat /\ g.got \in Seq(Nat)
    BY DEF HistType
  <2> QED
    BY <2>1, <2>2, <2>3, <2>4
<1>3. j.state # "ESTABLISHED" => h = g
  BY DEF Noted
<1>4. CASE k.state \in {"SYN_SENT", "FIN_WAIT"}
  BY <1>1, <1>3, <1>4
<1>5. CASE k.state = "ESTABLISHED" /\ j.state = "SYN_SENT"
  <2>1. k.ack = 1 /\ Avail(k) = 0 /\ h = g /\ g.next = 1 /\ g.got = <<>>
    BY <1>1, <1>2, <1>3, <1>5 DEF StreamOf
  <2>2. InRing(k) \in Seq(Nat) /\ Len(InRing(k)) = 0
    BY <2>1, <1>1, InRingIs
  <2>3. PICK r \in Seq(Nat) : r = InRing(k)
    BY <2>2
  <2>4. r = <<>>
    BY <2>2, <2>3
  <2>5. <<>> \o r = Stream(0)
    BY <2>4 DEF Stream
  <2>6. k.ack - 1 - Ended(k) = 0 /\ Ended(k) = 0
    BY <2>1, <1>5 DEF Ended
  <2>7. g.got \o InRing(k) = Stream(k.ack - 1 - Ended(k))
    BY <2>1, <2>3, <2>5, <2>6
  <2> QED
    BY <2>1, <2>6, <2>7, <1>5 DEF StreamOf
<1>6. ASSUME j.state = "ESTABLISHED", "RST" \notin seg.flags, Carries(seg), h.clean,
             StreamGoesOn(k, j, seg)
      PROVE  /\ seg.pos = j.ack /\ seg.pos >= 1 /\ h.next = j.ack + seg.len
             /\ h.got \o InRing(k) = Stream(j.ack + seg.len - 1)
  <2>1. CASE g.clean /\ seg.pos = g.next /\ ~ NoRoom(j, seg)
    <3>1. h = [g EXCEPT !.next = @ + seg.len]
      BY <2>1, <1>6 DEF Noted
    <3>2. h.next = g.next + seg.len /\ h.got = g.got
      BY <3>1 DEF HistType
    <3>3. Ended(j) = 0 /\ g.next = j.ack /\ j.ack >= 1
          /\ g.got \o InRing(j) = Stream(j.ack - 1 - Ended(j))
      BY <2>1, <1>6 DEF StreamOf, Ended
    <3>4. seg.pos \in Nat \ {0} /\ j.ack - 1 - Ended(j) = seg.pos - 1
          /\ seg.pos - 1 + seg.len = j.ack + seg.len - 1
      BY <3>3, <2>1, <1>2
    <3>5. g.got \o InRing(k) = Stream(seg.pos - 1 + seg.len)
      BY <3>3, <3>4, <2>1, <1>2, <1>6 DEF StreamGoesOn
    <3> QED
      BY <3>2, <3>3, <3>4, <3>5, <2>1, <1>2
  <2>2. CASE ~ (g.clean /\ seg.pos = g.next /\ ~ NoRoom(j, seg))
    <3>1. h = g \/ h = [g EXCEPT !.clean = FALSE, !.got = <<>>, !.next = 0]
      BY <2>2, <1>6 DEF Noted
    <3>2. g.clean => h = [g EXCEPT !.clean = FALSE, !.got = <<>>, !.next = 0]
      BY <2>2, <1>6 DEF Noted
    <3>3. ~ h.clean
      BY <3>1, <3>2 DEF HistType
    <3> QED
      BY <3>3, <1>6
  <2> QED
    BY <2>1, <2>2
<1>7. CASE k.state = "ESTABLISHED" /\ j.state = "ESTABLISHED"
  <2>1. "RST" \notin seg.flags /\ "FIN" \notin seg.flags /\ k = Accept(j, seg)
    BY <1>1, <1>7
  <2>2. k.ack = j.ack + seg.len /\ StreamGoesOn(k, j, seg)
    BY <2>1, Accepted
  <2>3. Ended(k) = 0 /\ Ended(j) = 0 /\ j.ack >= 1 + Ended(j)
    BY <1>7 DEF Ended, StreamOf
  <2>4. k.ack >= 1 + Ended(k) /\ k.ack - 1 - Ended(k) = j.ack + seg.len - 1
    BY <2>2, <2>3, <1>2
  <2>5. CASE seg.len > 0
    <3>1. Carries(seg)
      BY <2>5 DEF Carries
    <3>2. h.clean => h.next = k.ack /\ h.got \o InRing(k) = Stream(k.ack - 1 - Ended(k))
      BY <3>1, <2>1, <2>2, <2>4, <1>6, <1>7
    <3> QED
      BY <3>2, <2>4, <1>7 DEF StreamOf
  <2>6. CASE ~ (seg.len > 0)
    <3>1. seg.len = 0 /\ ~ Carries(seg)
      BY <2>1, <2>6, <1>2 DEF Carries
    <3>2. h = g
      BY <3>1 DEF Noted
    <3>3. k = [j EXCEPT !.ack = @ + 0]
      BY <3>1, <2>1, AcceptIs
    <3>4. InRing(k) = InRing(j)
      BY <3>3, AckIs
    <3>5. k.ack = j.ack
      BY <3>1, <2>2, <1>2
    <3> QED
      BY <3>2, <3>4, <3>5, <2>3, <2>4, <1>7 DEF StreamOf
  <2> QED
    BY <2>5, <2>6
<1>8. CASE k.state = "CLOSE_WAIT" /\ j.state = "CLOSE_WAIT"
  BY <1>1, <1>3, <1>8
<1>9. CASE k.state = "CLOSE_WAIT" /\ j.state = "ESTABLISHED"
  <2>1. /\ "RST" \notin seg.flags /\ "FIN" \in seg.flags /\ k.ack = j.ack + 1 + seg.len
        /\ StreamGoesOn(k, j, seg)
    BY <1>1, <1>9
  <2>2. Carries(seg)
    BY <2>1 DEF Carries
  <2>3. Ended(k) = 1 /\ Ended(j) = 0 /\ j.ack >= 1 + Ended(j)
    BY <1>9 DEF Ended, StreamOf
  <2>4. /\ k.ack >= 1 + Ended(k) /\ k.ack - 1 - Ended(k) = j.ack + seg.len - 1
        /\ k.ack - 2 = j.ack + seg.len - 1
    <3>1. PICK a \in Nat, n \in Nat : a = j.ack /\ n = seg.len
      BY <1>2
    <3>2. k.ack = a + 1 + n /\ a >= 1
      BY <2>1, <2>3, <3>1
    <3> QED
      BY <2>3, <3>1, <3>2
  <2>5. h.clean => h.got \o InRing(k) = Stream(k.ack - 1 - Ended(k)) /\ seg.pos = j.ack
    BY <2>1, <2>2, <2>4, <1>6, <1>9
  <2>6. h.clean => q.fin /\ q.sent = k.ack - 2
    BY <2>1, <2>4, <2>5
  <2> QED
    BY <2>4, <2>5, <2>6, <1>9 DEF StreamOf
<1>10. k.state \in {"ESTABLISHED", "CLOSE_WAIT", "SYN_SENT", "FIN_WAIT"}
       /\ (k.state = "ESTABLISHED" => j.state \in {"SYN_SENT", "ESTABLISHED"})
       /\ (k.state = "CLOSE_WAIT" => j.state \in {"CLOSE_WAIT", "ESTABLISHED"})
  BY <1>1, <1>2 DEF States
<1> QED
  BY <1>4, <1>5, <1>7, <1>8, <1>9, <1>10

LEMMA NotedIs ==
  ASSUME NEW g \in HistType, NEW k \in SocketType, NEW seg \in Segments, NEW h, h = Noted(g, k, seg)
  PROVE  h \in HistType /\ h.wire = g.wire
<1>1. g.next + seg.len \in Nat /\ <<>> \in Seq(Nat) /\ 0 \in Nat
  BY DEF HistType, Segments
<1>2. \/ h = g \/ h = [g EXCEPT !.next = @ + seg.len]
      \/ h = [g EXCEPT !.clean = FALSE, !.got = <<>>, !.next = 0]
  BY DEF Noted
<1> QED
  BY <1>1, <1>2 DEF HistType

LEMMA DeliverKeeps ==
  ASSUME IndInv, NEW seg \in Arriving, Deliver(seg)
  PROVE  IndInv'
<1>1. PICK s \in Matching(seg) :
        /\ sockets' = [sockets EXCEPT ![s] = Dispatched(@, seg)]
        /\ hist' = [hist EXCEPT ![seg.port] = Noted(@, sockets[s], seg)]
        /\ peer' = [peer EXCEPT ![seg.port].open = @ \/ sockets'[s].state = "ESTABLISHED"]
  BY DEF Deliver
<1>2. UNCHANGED <<next_local_port, call, net>>
  BY DEF Deliver
<1>3. s \in Slots /\ Live(s) /\ sockets[s].port = seg.port
  BY <1>1 DEF Matching, Live
<1>4. PICK j \in SocketType, p \in 0 .. MaxConns : j = sockets[s] /\ p = j.port
  BY <1>3, Typed DEF SocketType
<1>5. /\ p # 0 /\ p = seg.port /\ p \in Conns /\ hist[p] \in HistType /\ peer \in [Conns -> PeerType]
      /\ hist \in [Conns -> HistType] /\ sockets \in [Slots -> SocketType]
  BY <1>3, <1>4, LivePort, PortIs, Typed DEF IndInv, TypeOK, HistOK, PeerType, HistType
<1>6. PICK k : k = Dispatched(j, seg)
  OBVIOUS
<1>7. PICK h : h = Noted(hist[p], j, seg)
  OBVIOUS
<1>8. /\ seg \in Segments /\ seg.pos \in Nat /\ seg.len \in 0 .. 2
      /\ "SYN" \in seg.flags => seg.pos = 0
      /\ seg.len = 0 \/ (1 <= seg.pos /\ seg.pos + seg.len - 1 <= peer[p].sent)
      /\ "FIN" \in seg.flags => peer[p].fin /\ seg.pos + seg.len - 1 = peer[p].sent
  BY <1>5, ArrivingIs
<1>9. h \in HistType /\ h.wire = hist[p].wire
  BY <1>5, <1>7, <1>8, NotedIs
<1>10. /\ k \in SocketType /\ k.port = j.port /\ k.seq = j.seq /\ HeldFrom(k, j, seg)
       /\ k.state \in {"SYN_SENT", "FIN_WAIT"} => k = j
       /\ k.state = "ESTABLISHED" => j.state \in {"SYN_SENT", "ESTABLISHED"}
       /\ k.state = "CLOSE_WAIT" => j.state \in {"CLOSE_WAIT", "ESTABLISHED"}
  BY <1>6, <1>8, DispatchedIs
<1>11. sockets' = [sockets EXCEPT ![s] = k] /\ hist' = [hist EXCEPT ![p] = h]
  BY <1>1, <1>4, <1>5, <1>6, <1>7
<1>12. /\ sockets'[s] = k /\ \A t \in Slots : t # s => sockets'[t] = sockets[t]
  BY <1>3, <1>5, <1>11
<1>13. OneSocket(s, k, h, p)
  BY <1>2, <1>4, <1>5, <1>10, <1>11 DEF OneSocket
<1>14. CallGoesOn(s)
  <2>1. call' = call /\ call \in CallType
    BY <1>2 DEF IndInv, TypeOK, CallType
  <2>2. call.op \in {"send", "recv"} => sockets[call.sock].port # 0
    BY DEF IndInv, PortsOK, Calling, Now
  <2>3. ASSUME NEW t \in Slots
        PROVE  /\ sockets'[t].state = "SYN_SENT" => call.op = "connect" /\ call.sock = t
               /\ sockets'[t].state = "FIN_WAIT" => call.op = "close" /\ call.sock = t
    <3>1. sockets'[t].state \in {"SYN_SENT", "FIN_WAIT"} => sockets'[t] = sockets[t]
      BY <1>4, <1>10, <1>12
    <3> QED
      BY <3>1 DEF IndInv, HalfOpenIsCalled, Calling
  <2> QED
    BY <2>1, <2>2, <2>3 DEF CallGoesOn, MaySend, Calling
<1>15. PICK o \in BOOLEAN : o = (peer[p].open \/ k.state = "ESTABLISHED")
  OBVIOUS
<1>16. PICK q : q = [peer[p] EXCEPT !.open = o]
  OBVIOUS
<1>17. /\ q \in PeerType /\ q.sent = peer[p].sent /\ q.fin = peer[p].fin
       /\ peer' = [peer EXCEPT ![p] = q]
  <2>1. q \in PeerType /\ q.sent = peer[p].sent /\ q.fin = peer[p].fin
    BY <1>5, <1>15, <1>16 DEF PeerType
  <2>2. peer' = [peer EXCEPT ![p] = q]
    BY <1>1, <1>5, <1>12, <1>15, <1>16
  <2> QED
    BY <2>1, <2>2
<1>18. PeerGoesOn(p) /\ peer'[p] = q
  BY <1>5, <1>17 DEF PeerGoesOn
<1>19. StaysSound(s, k, h, p)
  <2>1. \A i \in 1 .. Avail(k) : InRing(k)[i] \in 1 .. peer[p].sent
    <3>1. \A i \in 1 .. Avail(j) : InRing(j)[i] \in 1 .. peer[p].sent
      BY <1>3, <1>4 DEF IndInv, RingOK
    <3>2. peer[p].sent \in Nat
      BY <1>5 DEF PeerType
    <3>3. seg.pos .. seg.pos + seg.len - 1 \subseteq 1 .. peer[p].sent
      BY <3>2, <1>8
    <3> QED
      BY <3>1, <3>3, <1>10 DEF HeldFrom
  <2>2. h.wire = Stream(Len(h.wire))
    BY <1>5, <1>9 DEF IndInv, WireOK, SentInOrder
  <2>3. MaySend(s) => k.seq = Len(h.wire) + 1
    BY <1>3, <1>4, <1>9, <1>10 DEF IndInv, WireOK
  <2>4. k.state \in {"SYN_SENT", "ESTABLISHED", "CLOSE_WAIT"} => MaySend(s)
    BY <1>4, <1>10 DEF MaySend
  <2>5. call'.op = "send" /\ call'.sock = s => MaySend(s)
    BY <1>2 DEF MaySend, Calling
  <2>6. k.state # "CLOSED" => StreamOf(k, h, peer'[p])
    <3>1. StreamOf(j, hist[p], peer[p]) /\ j.state # "CLOSED"
      BY <1>3, <1>4 DEF IndInv, StreamOK, Live
    <3>2. k.state # "CLOSED" => StreamOf(k, h, peer[p])
      BY <3>1, <1>5, <1>6, <1>7, <1>8, SegmentExtends
    <3> QED
      BY <3>2, <1>17, <1>18 DEF StreamOf
  <2> QED
    BY <2>1, <2>2, <2>3, <2>4, <2>5, <2>6 DEF StaysSound
<1> QED
  BY <1>3, <1>9, <1>10, <1>13, <1>14, <1>18, <1>19, ConnectionChanges
-----------------------------------------------------------------------------
LEMMA StepKeeps == IndInv /\ [Next]_vars => IndInv'
<1> SUFFICES ASSUME IndInv, [Next]_vars PROVE IndInv'
  OBVIOUS
<1>1. ASSUME NEW p \in Conns, NEW len \in 0 .. 2, NEW fin \in BOOLEAN, PeerSends(p, len, fin)
      PROVE  IndInv'
  BY <1>1, PeerSendsKeeps
<1>2. CASE Tick
  BY <1>2, TickKeeps
<1>3. CASE Connect
  BY <1>3, ConnectKeeps
<1>4. CASE Return
  <2>1. CASE ConnectReturns \/ CloseReturns
    BY <2>1, ReturnsKeep
  <2>2. CASE SendFails \/ RecvNothing
    BY <2>2, CallEndsKeeps
  <2>3. CASE SendReturns
    BY <2>3, SendReturnsKeeps
  <2>4. ASSUME NEW n \in 1 .. 2, RecvReturns(n) PROVE IndInv'
    BY <2>4, RecvReturnsKeeps
  <2> QED
    BY <1>4, <2>1, <2>2, <2>3, <2>4 DEF Return
<1>5. ASSUME NEW s \in Slots, Send(s) \/ Close(s) PROVE IndInv'
  BY <1>5, SendBegins, CloseKeeps
<1>6. ASSUME NEW s \in Slots, NEW wait \in {0, Limit}, Recv(s, wait) PROVE IndInv'
  BY <1>6, RecvBegins
<1>7. ASSUME NEW seg \in Arriving, Deliver(seg) PROVE IndInv'
  BY <1>7, DeliverKeeps
<1>8. CASE UNCHANGED vars
  <2>1. UNCHANGED <<sockets, next_local_port, net, peer, hist>> /\ call' = call
    BY <1>8 DEF vars
  <2>2. call' \in [op : {"none", "connect", "send", "recv", "close"}, sock : Slots, left : 0 .. Limit]
    BY <2>1 DEF IndInv, TypeOK
  <2>3. HalfOpenIsCalled'
    BY <2>1 DEF IndInv, HalfOpenIsCalled, Calling
  <2>4. Calling("send")' \/ Calling("recv")' => Now'.port # 0
    BY <2>1 DEF IndInv, PortsOK, Calling, Now
  <2>5. Calling("send")' => Calling("send") /\ call'.sock = call.sock
    BY <2>1 DEF Calling
  <2> QED
    BY <2>1, <2>2, <2>3, <2>4, <2>5, CallChanges
<1> QED
  BY <1>1, <1>2, <1>3, <1>4, <1>5, <1>6, <1>7, <1>8 DEF Next

(* What is known of every state of the client: see IndInv.                 *)
THEOREM IndInvariant == Spec => []IndInv
<1> QED
  BY InitHolds, StepKeeps, PTL DEF Spec

(* Whatever the network repeats, loses or delays, a segment never reaches  *)
(* another connection than its own, the slot of an old one included, and   *)
(* no slot stays half open after its call: tcp_connect(), tcp_close(),     *)
(* tcp_recv_dispatch().                                                    *)
THEOREM SocketsAreSound == Spec => []SocketsSound
<1>1. ASSUME IndInv PROVE SocketsSound
  <2>1. OwnPort
    <3>1. \A s, t \in Slots : Live(s) /\ Live(t) /\ s # t => sockets[s].port # sockets[t].port
      BY <1>1, LivePort DEF IndInv, PortsOK
    <3>2. \A s \in Slots : \A i \in 1 .. Avail(sockets[s]) :
            InRing(sockets[s])[i] \in 1 .. peer[sockets[s].port].sent
      BY <1>1 DEF IndInv, RingOK
    <3> QED
      BY <3>1, <3>2 DEF OwnPort
  <2> QED
    BY <1>1, <2>1 DEF IndInv, SocketsSound
<1> QED
  BY <1>1, IndInvariant, PTL

(* The units that tcp_send() puts on the wire are numbered without a gap   *)
(* and without a repetition.                                               *)
THEOREM SendsInOrder == Spec => []SentInOrder
<1>1. ASSUME IndInv PROVE SentInOrder
  BY <1>1 DEF IndInv, WireOK
<1> QED
  BY <1>1, IndInvariant, PTL

(* A connection that the network left alone is read as the stream that was *)
(* sent, and tcp_recv() reports its end when all of it was read.           *)
THEOREM CleanReadsHold == Spec => []CleanReads
<1>1. ASSUME IndInv PROVE CleanReads
  <2>1. CleanStream
    <3>1. ASSUME NEW s \in Slots, sockets[s].state \in {"ESTABLISHED", "CLOSE_WAIT"}, Clean(sockets[s].port)
          PROVE  hist[sockets[s].port].got \o InRing(sockets[s])
                   = Stream(sockets[s].ack - 1 - Ended(sockets[s]))
      BY <1>1, <3>1 DEF IndInv, StreamOK, StreamOf, Live, Clean
    <3> QED
      BY <3>1 DEF CleanStream
  <2>2. CleanEnd
    <3> SUFFICES ASSUME Calling("recv"), EndOfStream, Clean(Now.port)
                 PROVE  hist[Now.port].got = Stream(peer[Now.port].sent)
      BY DEF CleanEnd
    <3>1. PICK s \in Slots, k \in SocketType, p \in 0 .. MaxConns : s = call.sock /\ k = sockets[s] /\ p = k.port
      BY <1>1, Typed DEF SocketType
    <3>2. Avail(k) = 0 /\ k.state = "CLOSE_WAIT" /\ hist[p].clean
      BY <3>1 DEF EndOfStream, Clean, Now
    <3>3. StreamOf(k, hist[p], peer[p])
      BY <1>1, <3>1, <3>2 DEF IndInv, StreamOK, Live
    <3>4. /\ Ended(k) = 1 /\ k.ack \in Nat /\ peer[p].sent = k.ack - 2
          /\ hist[p].got \o InRing(k) = Stream(k.ack - 1 - Ended(k))
      BY <3>2, <3>3 DEF StreamOf, Ended, SocketType
    <3>5. k.ack - 1 - Ended(k) = peer[p].sent
      BY <3>4
    <3>6. p \in Conns /\ hist[p] \in HistType
      BY <1>1, <3>1, <3>2, LivePort, PortIs DEF Live
    <3>7. PICK g \in Seq(Nat) : g = hist[p].got
      BY <3>6 DEF HistType
    <3>8. PICK r \in Seq(Nat) : r = InRing(k) /\ Len(r) = 0
      BY <3>2, InRingIs
    <3>9. g \o r = g
      BY <3>8
    <3> QED
      BY <3>1, <3>4, <3>5, <3>7, <3>8, <3>9 DEF Now
  <2> QED
    BY <2>1, <2>2 DEF CleanReads
<1> QED
  BY <1>1, IndInvariant, PTL
=============================================================================
