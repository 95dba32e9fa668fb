-------------------------------- MODULE Tcp --------------------------------
(***************************************************************************)
(* The TCP client (net/tcp.c): a table of sockets, one thread that         *)
(* connects, sends, receives and closes with time limits, and              *)
(* tcp_recv_dispatch(), which eth_poll() runs for every segment that       *)
(* arrives, in any call that polls, its own or not.                        *)
(*                                                                         *)
(* The network delivers what was sent to it any number of times, in any    *)
(* order, or never: a retransmission is a further delivery.  The far ends  *)
(* are TCP stacks that follow the protocol.  A connection is its local     *)
(* port, which tcp_connect() takes from a counter; the numbers of a        *)
(* stream start at 0 with the SYN, and unit i of its data has number i.    *)
(***************************************************************************)
EXTENDS Integers, Sequences, FiniteSets, SequencesExt

CONSTANTS
  Sockets,    \* slots of the table: 0 .. TCP_MAX_SOCKETS - 1
  RxSize,     \* TCP_RX_BUF_SIZE
  Limit,      \* ticks a call waits
  MaxConns,   \* bound: connections that are made
  MaxData,    \* bound: units the far end sends on each
  MaxSent,    \* bound: units that are sent to each
  MaxExtra    \* bound: by how much ack_num passes MaxData

ASSUME TcpAssumption ==
  /\ Sockets \in Nat \ {0} /\ RxSize \in Nat \ {0, 1} /\ Limit \in Nat
  /\ MaxConns \in Nat /\ MaxExtra \in Nat
  /\ MaxData \in [1 .. MaxConns -> Nat] /\ MaxSent \in [1 .. MaxConns -> Nat]

Slots == 0 .. Sockets - 1
Conns == 1 .. MaxConns
States == {"CLOSED", "SYN_SENT", "ESTABLISHED", "FIN_WAIT", "CLOSE_WAIT"}

VARIABLES
  sockets,          \* tcp_socket_t of each slot
  next_local_port,  \* the next connection, counted from 1
  call,             \* the call in progress
  net,              \* data for this host that was ever sent
  peer,             \* the far end of each connection
  hist              \* for the properties, of each connection: see Fresh

vars == <<sockets, next_local_port, call, net, peer, hist>>
-----------------------------------------------------------------------------
NoBytes == [i \in 0 .. RxSize - 1 |-> 0]
Zeroed == [state |-> "CLOSED", port |-> 0, seq |-> 0, ack |-> 0,
           rx |-> NoBytes, head |-> 0, tail |-> 0]
NoCall == [op |-> "none", sock |-> 0, left |-> 0]

(* A far end: whether it has had the SYN, the ACK of its SYN+ACK, how much *)
(* it has sent, whether it has sent its FIN.                               *)
Unborn == [syn |-> FALSE, open |-> FALSE, sent |-> 0, fin |-> FALSE]

Fresh == [clean |-> TRUE,  \* what came was what was next, and had room
          next  |-> 1,     \* what comes next, as long as that is so
          got   |-> <<>>,  \* what tcp_recv() has returned, as long
          wire  |-> <<>>]  \* numbers of the units put on the wire

Init ==
  /\ sockets = [s \in Slots |-> Zeroed]
  /\ next_local_port = 1
  /\ call = NoCall
  /\ net = {}
  /\ peer = [p \in Conns |-> Unborn]
  /\ hist = [p \in Conns |-> Fresh]

Calling(op) == call.op = op
Now == sockets[call.sock]
Expired == call.left = 0
Set(s, field, value) == sockets' = [sockets EXCEPT ![s][field] = value]

Segment(p, flags, pos, len) == [port |-> p, flags |-> flags, pos |-> pos, len |-> len]
-----------------------------------------------------------------------------
(* The far end.  Its data is sent once, in pieces, and each piece stays in *)
(* the network; the other segments may come whenever they make sense.      *)
PeerSends(p, len, fin) ==
  /\ peer[p].open /\ ~ peer[p].fin
  /\ len > 0 \/ fin
  /\ peer[p].sent + len <= MaxData[p]
  /\ net' = net \cup {Segment(p, {"ACK"} \cup (IF fin THEN {"FIN"} ELSE {}),
                              peer[p].sent + 1, len)}
  /\ peer' = [peer EXCEPT ![p].sent = @ + len, ![p].fin = fin]
  /\ UNCHANGED <<sockets, next_local_port, call, hist>>

Arriving ==
  net \cup {Segment(p, f, 0, 0) : p \in {q \in Conns : peer[q].syn},
                                f \in {{"SYN", "ACK"}, {"RST"}}}
      \cup {Segment(p, {"ACK"}, 0, 0) : p \in {q \in Conns : peer[q].open}}
-----------------------------------------------------------------------------
Tick ==
  /\ call.left > 0
  /\ call' = [call EXCEPT !.left = @ - 1]
  /\ UNCHANGED <<sockets, next_local_port, net, peer, hist>>

(* tcp_connect(): the first free slot, the next port, a SYN.               *)
Closed == {s \in Slots : sockets[s].state = "CLOSED"}

Connect ==
  /\ Calling("none")
  /\ next_local_port \in Conns
  /\ \E s \in Closed :
       /\ s = Min(Closed)
       /\ sockets' = [sockets EXCEPT ![s] =
            [Zeroed EXCEPT !.state = "SYN_SENT", !.port = next_local_port, !.seq = 1]]
       /\ call' = [op |-> "connect", sock |-> s, left |-> Limit]
  /\ peer' = [peer EXCEPT ![next_local_port].syn = TRUE]
  /\ next_local_port' = next_local_port + 1
  /\ UNCHANGED <<net, hist>>

(* What is not ESTABLISHED when the wait ends is given up.                 *)
ConnectReturns ==
  /\ Calling("connect")
  /\ Now.state # "SYN_SENT" \/ Expired
  /\ IF Now.state = "ESTABLISHED" THEN UNCHANGED sockets
                                  ELSE Set(call.sock, "state", "CLOSED")
  /\ call' = NoCall
  /\ UNCHANGED <<next_local_port, net, peer, hist>>

(* tcp_send(): the segment has the number the socket has; it moves on only *)
(* when ip_send() reports that the segment has left, and not when no        *)
(* address was found or the card gave up.  Segments arrive meanwhile.       *)
Send(s) ==
  /\ Calling("none")
  /\ sockets[s].state = "ESTABLISHED"
  /\ sockets[s].seq <= MaxSent[sockets[s].port]
  /\ call' = [op |-> "send", sock |-> s, left |-> 0]
  /\ UNCHANGED <<sockets, next_local_port, net, peer, hist>>

SendReturns ==
  /\ Calling("send")
  /\ Set(call.sock, "seq", Now.seq + 1)
  /\ hist' = [hist EXCEPT ![Now.port].wire = Append(@, Now.seq)]
  /\ call' = NoCall
  /\ UNCHANGED <<next_local_port, net, peer>>

SendFailsAdvancing ==
  /\ Calling("send")
  /\ Set(call.sock, "seq", Now.seq + 1)
  /\ call' = NoCall
  /\ UNCHANGED <<next_local_port, net, peer, hist>>

SendFails ==
  /\ Calling("send")
  /\ call' = NoCall
  /\ UNCHANGED <<sockets, next_local_port, net, peer, hist>>

(* tcp_recv(): at most max units of what is in the ring; otherwise the     *)
(* state or the clock decides.                                             *)
Avail(k) == IF k.tail >= k.head THEN k.tail - k.head
                                ELSE RxSize - k.head + k.tail
Ahead(k, n) == [i \in 1 .. n |-> k.rx[(k.head + i - 1) % RxSize]]

Recv(s, wait) ==
  /\ Calling("none")
  /\ sockets[s].port # 0
  /\ call' = [op |-> "recv", sock |-> s, left |-> wait]
  /\ UNCHANGED <<sockets, next_local_port, net, peer, hist>>

RecvReturns(n) ==
  /\ Calling("recv")
  /\ n <= Avail(Now)
  /\ Set(call.sock, "head", (Now.head + n) % RxSize)
  /\ hist' = [hist EXCEPT ![Now.port].got =
                 IF hist[Now.port].clean THEN @ \o Ahead(Now, n) ELSE @]
  /\ call' = NoCall
  /\ UNCHANGED <<next_local_port, net, peer>>

EndOfStream == Avail(Now) = 0 /\ Now.state = "CLOSE_WAIT"

RecvNothing ==
  /\ Calling("recv")
  /\ Avail(Now) = 0
  /\ Now.state \in {"CLOSE_WAIT", "CLOSED"} \/ Expired
  /\ call' = NoCall
  /\ UNCHANGED <<sockets, next_local_port, net, peer, hist>>

(* tcp_close(): a FIN, and CLOSED in the end whether or not it was heard.  *)
Close(s) ==
  /\ Calling("none")
  /\ sockets[s].state # "CLOSED"
  /\ sockets' = [sockets EXCEPT ![s].state = "FIN_WAIT", ![s].seq = @ + 1]
  /\ call' = [op |-> "close", sock |-> s, left |-> Limit]
  /\ UNCHANGED <<next_local_port, net, peer, hist>>

CloseReturnsHeard ==
  /\ Calling("close")
  /\ Now.state # "FIN_WAIT"
  /\ Set(call.sock, "state", "CLOSED")
  /\ call' = NoCall
  /\ UNCHANGED <<next_local_port, net, peer, hist>>

CloseReturns ==
  /\ Calling("close")
  /\ Now.state # "FIN_WAIT" \/ Expired
  /\ Set(call.sock, "state", "CLOSED")
  /\ call' = NoCall
  /\ UNCHANGED <<next_local_port, net, peer, hist>>
-----------------------------------------------------------------------------
(* The ring takes units while it has room for one more; those that do not  *)
(* fit are counted as received all the same.                               *)
Copied(k, pos) ==
  IF (k.tail + 1) % RxSize = k.head THEN k
  ELSE [k EXCEPT !.rx[k.tail] = pos, !.tail = (@ + 1) % RxSize]

Accept(k, seg) ==
  LET after[n \in 0 .. seg.len] ==
        IF n = 0 THEN k ELSE Copied(after[n - 1], seg.pos + n - 1)
  IN  [after[seg.len] EXCEPT !.ack = @ + seg.len]

EstablishedFinOnly(k, seg) ==
  IF "RST" \in seg.flags THEN [k EXCEPT !.state = "CLOSED"]
  ELSE IF "FIN" \in seg.flags THEN [k EXCEPT !.ack = @ + 1, !.state = "CLOSE_WAIT"]
  ELSE Accept(k, seg)

(* In ESTABLISHED: RST; FIN, which also ends the wait for more; data.      *)
Established(k, seg) ==
  IF "RST" \in seg.flags THEN [k EXCEPT !.state = "CLOSED"]
  ELSE IF "FIN" \in seg.flags
  THEN Accept([k EXCEPT !.ack = @ + 1, !.state = "CLOSE_WAIT"], seg)
  ELSE Accept(k, seg)

(* tcp_recv_dispatch(), for the socket that was found.                     *)
Dispatched(k, seg) ==
  CASE k.state = "SYN_SENT" /\ {"SYN", "ACK"} \subseteq seg.flags
         -> [k EXCEPT !.ack = seg.pos + 1, !.state = "ESTABLISHED"]
    [] k.state = "ESTABLISHED" -> Established(k, seg)
    [] k.state = "FIN_WAIT" /\ {"ACK", "FIN"} \cap seg.flags # {}
         -> [k EXCEPT !.state = "CLOSED"]
    [] OTHER -> k

MatchingAnyPort(seg) == {s \in Slots : sockets[s].state # "CLOSED"}

(* The first socket with these ports that is not CLOSED.                   *)
Matching(seg) ==
  {s \in Slots : sockets[s].state # "CLOSED" /\ sockets[s].port = seg.port}

Carries(seg) == seg.len > 0 \/ "FIN" \in seg.flags
NoRoom(k, seg) == Avail(k) + seg.len > RxSize - 1

Noted(h, k, seg) ==
  IF k.state # "ESTABLISHED" \/ "RST" \in seg.flags \/ ~ Carries(seg) \/ ~ h.clean
  THEN h
  ELSE IF seg.pos = h.next /\ ~ NoRoom(k, seg)
  THEN [h EXCEPT !.next = @ + seg.len]
  ELSE [h EXCEPT !.clean = FALSE, !.got = <<>>, !.next = 0]

Deliver(seg) ==
  /\ ~ Calling("none")
  /\ \E s \in Matching(seg) :
       /\ s = Min(Matching(seg))
       /\ sockets[s].ack <= MaxData[seg.port] + MaxExtra
       /\ sockets' = [sockets EXCEPT ![s] = Dispatched(@, seg)]
       /\ hist' = [hist EXCEPT ![seg.port] = Noted(@, sockets[s], seg)]
       /\ peer' = [peer EXCEPT ![seg.port].open =
                     @ \/ sockets'[s].state = "ESTABLISHED"]
  /\ UNCHANGED <<next_local_port, call, net>>

Return == \/ ConnectReturns \/ CloseReturns \/ RecvNothing
          \/ SendReturns \/ SendFails
          \/ \E n \in 1 .. 2 : RecvReturns(n)

Next ==
  \/ \E p \in Conns, len \in 0 .. 2, fin \in BOOLEAN : PeerSends(p, len, fin)
  \/ Tick \/ Connect \/ Return
  \/ \E s \in Slots : Send(s) \/ Close(s)
  \/ \E s \in Slots, wait \in {0, Limit} : Recv(s, wait)
  \/ \E seg \in Arriving : Deliver(seg)

Spec == Init /\ [][Next]_vars

(* The timer goes on, and so does the call that has been made.             *)
FairSpec == Spec /\ WF_vars(Tick) /\ WF_vars(Return)
-----------------------------------------------------------------------------
Segments ==
  [port : Conns, flags : SUBSET {"SYN", "ACK", "FIN", "RST"},
   pos : Nat, len : 0 .. 2]

TypeOK ==
  /\ sockets \in [Slots -> [state : States, port : 0 .. MaxConns,
                            seq : Nat, ack : Nat,
                            rx : [0 .. RxSize - 1 -> Nat],
                            head : 0 .. RxSize - 1, tail : 0 .. RxSize - 1]]
  /\ next_local_port \in 1 .. MaxConns + 1
  /\ call \in [op : {"none", "connect", "send", "recv", "close"}, sock : Slots,
               left : 0 .. Limit]
  /\ net \subseteq Segments
  /\ peer \in [Conns -> [syn : BOOLEAN, open : BOOLEAN, sent : Nat,
                         fin : BOOLEAN]]

Stream(n) == [i \in 1 .. n |-> i]
Live(s) == sockets[s].state # "CLOSED"
InRing(k) == Ahead(k, Avail(k))
Clean(p) == hist[p].clean
Ended(k) == IF k.state = "CLOSE_WAIT" THEN 1 ELSE 0

(* A connection on which the network repeated, lost and swapped nothing,   *)
(* and whose ring never was full, is a stream: what was read and what is   *)
(* in the ring are the units sent, in order, up to the one that is         *)
(* acknowledged, however the ring has wrapped and the reads were cut.      *)
CleanStream ==
  \A s \in Slots : LET k == sockets[s] IN
    k.state \in {"ESTABLISHED", "CLOSE_WAIT"} /\ Clean(k.port)
      => hist[k.port].got \o InRing(k) = Stream(k.ack - 1 - Ended(k))

(* On such a connection tcp_recv() reports the end of the stream when      *)
(* everything was read, and not before.                                    *)
CleanEnd ==
  Calling("recv") /\ EndOfStream /\ Clean(Now.port)
    => hist[Now.port].got = Stream(peer[Now.port].sent)

(* Segments that come late, after their socket was closed and its slot     *)
(* taken again, never reach another connection: what a socket holds was    *)
(* sent to the port it has now.                                            *)
OwnPort ==
  /\ \A s, t \in Slots : Live(s) /\ Live(t) /\ s # t
                           => sockets[s].port # sockets[t].port
  /\ \A s \in Slots : \A i \in 1 .. Avail(sockets[s]) :
       InRing(sockets[s])[i] \in 1 .. peer[sockets[s].port].sent

(* However a call ended, and whatever came while it waited, no slot stays  *)
(* in a state that only a waiting call leaves: the table does not fill up  *)
(* with connections that were given up.                                    *)
HalfOpenIsCalled ==
  \A s \in Slots :
    /\ sockets[s].state = "SYN_SENT" => Calling("connect") /\ call.sock = s
    /\ sockets[s].state = "FIN_WAIT" => Calling("close") /\ call.sock = s

(* The units that are put on the wire are numbered without a gap and       *)
(* without a repetition, whichever sends failed and whatever was received  *)
(* and acknowledged between them.                                          *)
SentInOrder == \A p \in Conns : hist[p].wire = Stream(Len(hist[p].wire))

(* Every call comes back, whatever the far end does or leaves undone.      *)
CallReturns == call.op # "none" ~> call.op = "none"

(* What a program reads from a connection that the network left alone.     *)
CleanReads == CleanStream /\ CleanEnd

(* What holds of the table of sockets whatever the network does.           *)
SocketsSound == TypeOK /\ OwnPort /\ HalfOpenIsCalled
=============================================================================
