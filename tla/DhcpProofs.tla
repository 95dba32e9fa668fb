----------------------------- MODULE DhcpProofs -----------------------------
(***************************************************************************)
(* Theorems about the clients over UDP, for any servers, options, names    *)
(* and number of calls.                                                    *)
(***************************************************************************)
EXTENDS Dhcp, FiniteSetTheorems, TLAPS

(* What is on its way.                                                     *)
Broadcasts == [to : {"servers"}, type : {"discover", "request"},
               server : MaybeServer, ip : MaybeServer]
Replies == [to : {"dhcp"}, type : {"offer", "ack", "nak"},
            server : Servers, ip : Servers]
Queries == [to : {"resolver"}, id : Nat, name : Names]
Answers == [to : {"dns"}, id : Nat, name : Names]

AirOK == air \subseteq Broadcasts \cup Replies \cup Queries \cup Answers

HistOK == hist \in [heard : SUBSET Servers, calls : Nat,
                    asked : Names \cup {None}, answer : Names \cup {None}]

(* The port whose handler waits, in the first slot: no two calls wait at   *)
(* the same time.                                                          *)
Waiting(op) == IF op = "dns" THEN "dns"
               ELSE IF op \in {"offer", "ack"} THEN "dhcp" ELSE None
FirstSlot == bindings = [i \in 1 .. Handlers |-> IF i = 1 THEN Waiting(call.op) ELSE None]

(* The question that is open is the last one, and what is on its way with  *)
(* its number is about its name.                                           *)
QuestionOpen ==
  /\ \A m \in air : m.to \in {"resolver", "dns"} =>
       /\ m.id <= dns.id
       /\ m.id = dns.id /\ Calling("dns") => m.name = call.name
  /\ dns.got /\ Calling("dns") => dns.result = call.name

(* What a client knows it has from servers it heard of; a server refuses   *)
(* only when two were heard of, and what it acknowledged it counts.        *)
AllOptions(s) == [o \in Options |-> IF o \in Omits[s] THEN None ELSE s]

KnownFromHeard ==
  /\ dhcp.offer => dhcp.ip \in hist.heard /\ dhcp.server \in hist.heard
  /\ dhcp.ack => dhcp.offer /\ hist.heard \cap leased # {}
  /\ Calling("ack") => dhcp.offer
  /\ hist.heard = {} => dhcp.opts = NoOptions
  /\ \A s \in Servers : hist.heard = {s} => dhcp.opts = AllOptions(s)
  /\ config.ip # None => config.ip \in hist.heard

MessagesFromHeard ==
  \A m \in air :
    /\ m.to = "servers" /\ m.type = "request" => m.server \in hist.heard /\ m.ip \in hist.heard
    /\ m.to = "dhcp" =>
         /\ m.ip = m.server
         /\ m.type = "ack" => m.server \in leased
         /\ m.type = "nak" => \E s \in hist.heard : s # m.server

IndInv ==
  /\ TypeOK /\ HistOK /\ AirOK /\ FirstSlot
  /\ QuestionOpen /\ AnswerIsForName
  /\ KnownFromHeard /\ MessagesFromHeard /\ OneServerConfig

LEMMA InitHolds == Init => IndInv
<1> SUFFICES ASSUME Init PROVE IndInv
  OBVIOUS
<1>1. TypeOK /\ HistOK /\ AirOK
  BY DhcpAssumption DEF Init, TypeOK, HistOK, AirOK, NoCall, NoOptions, MaybeServer
<1>2. FirstSlot
  BY DEF Init, FirstSlot, Waiting, NoCall, None
<1>3. QuestionOpen /\ AnswerIsForName /\ MessagesFromHeard
  BY DEF Init, QuestionOpen, AnswerIsForName, MessagesFromHeard
<1>4. KnownFromHeard /\ OneServerConfig
  BY DEF Init, KnownFromHeard, OneServerConfig, Calling, NoCall, None
<1> QED
  BY <1>1, <1>2, <1>3, <1>4 DEF IndInv

(* Binding a port when no handler waits takes the first slot.              *)
LEMMA BindTakesFirst ==
  ASSUME FirstSlot, Calling(None), NEW port \in {"dhcp", "dns"}, Bind(port)
  PROVE  bindings' = [i \in 1 .. Handlers |-> IF i = 1 THEN port ELSE None]
<1>1. bindings = [i \in 1 .. Handlers |-> None]
  BY DEF FirstSlot, Waiting, Calling, None
<1>2. {i \in DOMAIN bindings : bindings[i] \in {None, port}} = 1 .. Handlers
  BY <1>1
<1>3. \A i \in 1 .. Handlers : (\A j \in 1 .. Handlers : i <= j) <=> i = 1
  BY DhcpAssumption
<1> QED
  BY <1>1, <1>2, <1>3 DEF Bind

LEMMA SlotStep == TypeOK /\ FirstSlot /\ [Next]_vars => FirstSlot'
<1> SUFFICES ASSUME TypeOK, FirstSlot, [Next]_vars PROVE FirstSlot'
  OBVIOUS
<1>1. CASE DhcpInit
  BY <1>1, BindTakesFirst DEF DhcpInit, FirstSlot, Waiting
<1>2. CASE DhcpRequest
  BY <1>2 DEF DhcpRequest, FirstSlot, Waiting, Calling, TypeOK
<1>3. CASE DhcpNoOffer \/ DhcpNoAck \/ DhcpDone \/ DnsReturns
  BY <1>3 DEF DhcpNoOffer, DhcpNoAck, DhcpDone, DnsReturns, Unbind, NoCall,
              FirstSlot, Waiting, Calling, None
<1>4. CASE \E name \in Names : DnsResolve(name)
  <2>1. PICK name \in Names : DnsResolve(name)
    BY <1>4
  <2>2. CASE name \in LongNames
    BY <2>1, <2>2 DEF DnsResolve, FirstSlot
  <2>3. CASE name \notin LongNames
    BY <2>1, <2>3, BindTakesFirst DEF DnsResolve, FirstSlot, Waiting
  <2> QED
    BY <2>2, <2>3
<1>5. CASE Tick
  BY <1>5 DEF Tick, FirstSlot, TypeOK
<1>6. ASSUME UNCHANGED <<bindings, call>> PROVE FirstSlot'
  BY <1>6 DEF FirstSlot
<1>7. CASE \E m \in air : UdpRecv(m) \/ Resolver(m)
  BY <1>6, <1>7 DEF UdpRecv, Resolver
<1>8. CASE \E m \in air, s \in Servers : DhcpServer(s, m)
  BY <1>6, <1>8 DEF DhcpServer
<1>9. CASE UNCHANGED vars
  BY <1>6, <1>9 DEF vars
<1> QED
  BY <1>1, <1>2, <1>3, <1>4, <1>5, <1>7, <1>8, <1>9 DEF Next, Step

LEMMA OptionsTyped ==
  ASSUME NEW m \in Replies, TypeOK
  PROVE  [o \in Options |-> IF o \in OptionsOf(m) THEN m.server ELSE dhcp.opts[o]]
           \in [Options -> MaybeServer]
<1>1. m.server \in MaybeServer
  BY DEF Replies, MaybeServer
<1>2. dhcp.opts \in [Options -> MaybeServer]
  BY DEF TypeOK
<1> QED
  BY <1>1, <1>2

LEMMA HandlerTyped ==
  ASSUME TypeOK, HistOK, NEW m \in Replies, DhcpHandler(m)
  PROVE  /\ dhcp' \in [offer : BOOLEAN, ack : BOOLEAN, ip : MaybeServer,
                       server : MaybeServer, opts : [Options -> MaybeServer]]
         /\ UNCHANGED dns /\ HistOK'
<1> DEFINE d == Heard(dhcp, m)
<1>1. /\ d \in [offer : BOOLEAN, ack : BOOLEAN, ip : MaybeServer,
                  server : MaybeServer, opts : [Options -> MaybeServer]]
  BY OptionsTyped DEF TypeOK, Heard, Replies, MaybeServer
<1>2. m.ip \in MaybeServer /\ m.server \in Servers
  BY DEF Replies, MaybeServer
<1> HIDE DEF d
<1>3. dhcp' = IF m.type = "offer" /\ ~ d.offer
              THEN [d EXCEPT !.ip = m.ip, !.offer = TRUE]
              ELSE [d EXCEPT !.ack = @ \/ (m.type = "ack" /\ d.offer)]
  BY DEF DhcpHandler, d
<1>4. dhcp' \in [offer : BOOLEAN, ack : BOOLEAN, ip : MaybeServer,
                server : MaybeServer, opts : [Options -> MaybeServer]]
  <2>1. CASE m.type = "offer" /\ ~ d.offer
    BY <1>1, <1>2, <1>3, <2>1
  <2>2. CASE ~ (m.type = "offer" /\ ~ d.offer)
    <3>1. (d.ack \/ (m.type = "ack" /\ d.offer)) \in BOOLEAN
      OBVIOUS
    <3> QED
      BY <1>1, <1>3, <2>2, <3>1
  <2> QED
    BY <2>1, <2>2
<1>5. UNCHANGED dns
  BY DEF DhcpHandler
<1>6. HistOK'
  BY <1>2 DEF DhcpHandler, HistOK
<1> QED
  BY <1>4, <1>5, <1>6

LEMMA TypeStep ==
  ASSUME TypeOK, HistOK, AirOK, [Next]_vars
  PROVE  TypeOK' /\ HistOK' /\ AirOK'
<1>1. CASE DhcpInit
  <2>1. dhcp' \in [offer : BOOLEAN, ack : BOOLEAN, ip : MaybeServer,
                  server : MaybeServer, opts : [Options -> MaybeServer]]
    BY <1>1 DEF DhcpInit, TypeOK, MaybeServer
  <2>3. bindings' \in [1 .. Handlers -> {None, "dhcp", "dns"}]
    BY <1>1 DEF DhcpInit, Bind, TypeOK
  <2>4. call' \in [op : {None, "offer", "ack", "dns"}, left : 0 .. Limit, name : Names \cup {None}]
    BY <1>1, DhcpAssumption DEF DhcpInit
  <2>5. HistOK'
    <3>1. hist.calls + 1 \in Nat
      BY DEF HistOK
    <3> QED
      BY <1>1, <3>1 DEF DhcpInit, HistOK
  <2>2. AirOK'
    BY <1>1 DEF DhcpInit, AirOK, BroadcastMsg, Broadcasts, MaybeServer
  <2> QED
    BY <1>1, <2>1, <2>2, <2>3, <2>4, <2>5 DEF DhcpInit, TypeOK
<1>2. CASE DhcpRequest
  <2>0. call' \in [op : {None, "offer", "ack", "dns"}, left : 0 .. Limit, name : Names \cup {None}]
    <3>1. Limit \in 0 .. Limit
      BY DhcpAssumption
    <3> QED
      BY <1>2, <3>1 DEF DhcpRequest, TypeOK
  <2>1. TypeOK' /\ HistOK'
    BY <1>2, <2>0 DEF DhcpRequest, TypeOK, HistOK
  <2>2. AirOK'
    BY <1>2 DEF DhcpRequest, AirOK, BroadcastMsg, Broadcasts, TypeOK
  <2> QED
    BY <2>1, <2>2
<1>3. CASE DhcpNoOffer \/ DhcpNoAck \/ DhcpDone \/ DnsReturns
  <2>1. call' = NoCall /\ air' = air
    BY <1>3 DEF DhcpNoOffer, DhcpNoAck, DhcpDone, DnsReturns
  <2>2. bindings' \in [1 .. Handlers -> {None, "dhcp", "dns"}]
    BY <1>3 DEF DhcpNoOffer, DhcpNoAck, DhcpDone, DnsReturns, Unbind, TypeOK
  <2>3. config' \in [ip : MaybeServer, opts : [Options -> MaybeServer]]
    <3>1. CASE DhcpDone
      BY <3>1 DEF DhcpDone, TypeOK
    <3> QED
      BY <1>3, <3>1 DEF DhcpNoOffer, DhcpNoAck, DnsReturns, TypeOK
  <2>5. HistOK'
    <3>1. CASE DnsReturns
      <4>1. call.name \in Names \cup {None} /\ dns.result \in Names \cup {None}
        BY DEF TypeOK
      <4>2. CASE dns.got
        BY <3>1, <4>1, <4>2 DEF DnsReturns, HistOK
      <4>3. CASE ~ dns.got
        BY <3>1, <4>3 DEF DnsReturns, HistOK
      <4> QED
        BY <4>2, <4>3
    <3> QED
      BY <1>3, <3>1 DEF DhcpNoOffer, DhcpNoAck, DhcpDone, HistOK
  <2>6. UNCHANGED <<dhcp, dns, leased>>
    BY <1>3 DEF DhcpNoOffer, DhcpNoAck, DhcpDone, DnsReturns
  <2>4. call' \in [op : {None, "offer", "ack", "dns"}, left : 0 .. Limit, name : Names \cup {None}]
    BY <2>1, DhcpAssumption DEF NoCall
  <2> QED
    BY <2>1, <2>2, <2>3, <2>4, <2>5, <2>6 DEF TypeOK, AirOK
<1>4. CASE \E name \in Names : DnsResolve(name)
  <2>1. PICK name \in Names : DnsResolve(name)
    BY <1>4
  <2>2. dns' \in [id : 0 .. MaxQueries, got : BOOLEAN, result : Names \cup {None}]
    BY <2>1, DhcpAssumption DEF DnsResolve, DnsReset, TypeOK
  <2>3. bindings' \in [1 .. Handlers -> {None, "dhcp", "dns"}]
    BY <2>1 DEF DnsResolve, Bind, TypeOK
  <2>4. call' \in [op : {None, "offer", "ack", "dns"}, left : 0 .. Limit, name : Names \cup {None}]
    BY <2>1, DhcpAssumption DEF DnsResolve, TypeOK
  <2>5. AirOK'
    BY <2>1, <2>2 DEF DnsResolve, AirOK, Query, Queries
  <2> QED
    BY <2>1, <2>2, <2>3, <2>4, <2>5 DEF DnsResolve, TypeOK, HistOK
<1>5. CASE Tick
  <2>1. call.left - 1 \in 0 .. Limit
    BY <1>5, DhcpAssumption DEF Tick, TypeOK
  <2> QED
    BY <1>5, <2>1 DEF Tick, TypeOK, HistOK, AirOK
<1>6. CASE \E m \in air : UdpRecv(m)
  <2>1. PICK m \in air : UdpRecv(m)
    BY <1>6
  <2>2. m.to \in {"dhcp", "dns"}
    <3>1. m.to \in {None, "dhcp", "dns"}
      BY <2>1 DEF UdpRecv, Bound, TypeOK
    <3> QED
      BY <3>1 DEF AirOK, Broadcasts, Replies, Queries, Answers, None
  <2>3. CASE m.to = "dhcp"
    <3>1. m \in Replies
      BY <2>3 DEF AirOK, Broadcasts, Replies, Queries, Answers
    <3>2. DhcpHandler(m) /\ UNCHANGED <<bindings, config, call, air, leased>>
      BY <2>1, <2>3 DEF UdpRecv
    <3> QED
      BY <3>1, <3>2, HandlerTyped DEF TypeOK, AirOK
  <2>4. CASE m.to = "dns"
    <3>1. m \in Answers
      BY <2>4 DEF AirOK, Broadcasts, Replies, Queries, Answers
    <3>2. DnsHandler(m) /\ UNCHANGED <<bindings, config, call, air, leased>>
      BY <2>1, <2>4 DEF UdpRecv
    <3> QED
      BY <3>1, <3>2 DEF DnsHandler, TypeOK, HistOK, AirOK, Answers
  <2> QED
    BY <2>2, <2>3, <2>4
<1>7. CASE \E m \in air : Resolver(m)
  <2>1. PICK m \in air : Resolver(m)
    BY <1>7
  <2>2. m \in Queries
    BY <2>1 DEF Resolver, AirOK, Broadcasts, Replies, Queries, Answers
  <2> QED
    BY <2>1, <2>2 DEF Resolver, TypeOK, HistOK, AirOK, Answer, Answers, Queries
<1>8. CASE \E m \in air, s \in Servers : DhcpServer(s, m)
  <2>1. PICK m \in air, s \in Servers : DhcpServer(s, m)
    BY <1>8
  <2>2. /\ \E type \in {"offer", "ack", "nak"} : air' = air \cup {Reply(type, s)}
        /\ leased' \subseteq Servers
        /\ UNCHANGED <<bindings, dhcp, config, dns, call, hist>>
    BY <2>1 DEF DhcpServer, TypeOK
  <2> QED
    BY <2>2 DEF TypeOK, HistOK, AirOK, Reply, Replies
<1>9. CASE UNCHANGED vars
  BY <1>9 DEF vars, TypeOK, HistOK, AirOK
<1> QED
  BY <1>1, <1>2, <1>3, <1>4, <1>5, <1>6, <1>7, <1>8, <1>9 DEF Next, Step
(* An answer that dns_resolve() takes is to the question it asked: the     *)
(* number of a question is not used again, and what is not waited for is   *)
(* not handled.                                                            *)
LEMMA QuestionStep ==
  ASSUME TypeOK, HistOK, AirOK, FirstSlot, QuestionOpen, AnswerIsForName, [Next]_vars
  PROVE  QuestionOpen' /\ AnswerIsForName'
<1>1. CASE DhcpInit
  <2>1. /\ ~ Calling("dns")' /\ UNCHANGED dns
        /\ air' = air \cup {BroadcastMsg("discover", None, None)}
        /\ hist'.asked = hist.asked /\ hist'.answer = hist.answer
    BY <1>1 DEF DhcpInit, Calling, HistOK
  <2> QED
    BY <2>1 DEF QuestionOpen, AnswerIsForName, BroadcastMsg, Calling
<1>2. CASE DhcpRequest
  <2>1. /\ ~ Calling("dns")' /\ UNCHANGED <<dns, hist>>
        /\ air' = air \cup {BroadcastMsg("request", dhcp.server, dhcp.ip)}
    BY <1>2 DEF DhcpRequest, Calling, TypeOK
  <2> QED
    BY <2>1 DEF QuestionOpen, AnswerIsForName, BroadcastMsg, Calling
<1>3. CASE DhcpNoOffer \/ DhcpNoAck \/ DhcpDone
  <2>1. ~ Calling("dns")' /\ UNCHANGED <<dns, hist, air>>
    BY <1>3 DEF DhcpNoOffer, DhcpNoAck, DhcpDone, NoCall, Calling, None
  <2> QED
    BY <2>1 DEF QuestionOpen, AnswerIsForName, Calling
<1>4. CASE DnsReturns
  <2>1. ~ Calling("dns")' /\ UNCHANGED <<dns, air>>
    BY <1>4 DEF DnsReturns, NoCall, Calling, None
  <2>2. QuestionOpen'
    BY <2>1 DEF QuestionOpen, Calling
  <2>3. CASE dns.got
    <3>1. hist'.asked = call.name /\ hist'.answer = dns.result
      BY <1>4, <2>3 DEF DnsReturns, HistOK
    <3> QED
      BY <1>4, <2>2, <2>3, <3>1 DEF DnsReturns, QuestionOpen, AnswerIsForName
  <2>4. CASE ~ dns.got
    BY <1>4, <2>2, <2>4 DEF DnsReturns, AnswerIsForName
  <2> QED
    BY <2>3, <2>4
<1>5. CASE \E name \in Names : DnsResolve(name)
  <2>1. PICK name \in Names : DnsResolve(name)
    BY <1>5
  <2>2. dns'.id = dns.id + 1 /\ dns'.got = FALSE /\ dns.id \in Nat
    BY <2>1 DEF DnsResolve, DnsReset, TypeOK
  <2>3. \A m \in air : m.to \in {"resolver", "dns"} => m.id \in Nat
    BY DEF AirOK, Broadcasts, Replies, Queries, Answers
  <2>4. \A m \in air : m.to \in {"resolver", "dns"} => m.id <= dns'.id /\ m.id # dns'.id
    BY <2>2, <2>3 DEF QuestionOpen
  <2>5. AnswerIsForName'
    BY <2>1 DEF DnsResolve, AnswerIsForName
  <2>6. CASE name \in LongNames
    BY <2>1, <2>2, <2>4, <2>5, <2>6 DEF DnsResolve, QuestionOpen
  <2>7. CASE name \notin LongNames
    <3>1. air' = air \cup {Query(dns'.id, name)} /\ call'.name = name
      BY <2>1, <2>7 DEF DnsResolve
    <3> QED
      BY <2>2, <2>4, <2>5, <3>1 DEF QuestionOpen, Query
  <2> QED
    BY <2>6, <2>7
<1>6. CASE Tick
  <2>1. call'.op = call.op /\ call'.name = call.name /\ UNCHANGED <<dns, air, hist>>
    BY <1>6 DEF Tick, TypeOK
  <2> QED
    BY <2>1 DEF QuestionOpen, AnswerIsForName, Calling
<1>7. CASE \E m \in air : UdpRecv(m)
  <2>1. PICK m \in air : UdpRecv(m)
    BY <1>7
  <2>2. UNCHANGED <<call, air>>
    BY <2>1 DEF UdpRecv
  <2>3. CASE m.to = "dhcp"
    <3>1. UNCHANGED dns /\ hist'.asked = hist.asked /\ hist'.answer = hist.answer
      BY <2>1, <2>3 DEF UdpRecv, DhcpHandler, HistOK
    <3> QED
      BY <2>2, <3>1 DEF QuestionOpen, AnswerIsForName, Calling
  <2>4. CASE m.to # "dhcp"
    <3>1. DnsHandler(m) /\ Bound(m.to)
      BY <2>1, <2>4 DEF UdpRecv
    <3>2. m.to = "dns"
      <4>1. m.to \in {None, "dhcp", "dns"}
        BY <3>1 DEF Bound, TypeOK
      <4> QED
        BY <2>4, <4>1 DEF AirOK, Broadcasts, Replies, Queries, Answers, None
    <3>3. m.id = dns.id /\ dns'.id = dns.id /\ dns'.result = m.name /\ UNCHANGED hist
      BY <3>1 DEF DnsHandler, DnsMatches, TypeOK
    <3> QED
      BY <2>2, <3>2, <3>3 DEF QuestionOpen, AnswerIsForName, Calling
  <2> QED
    BY <2>3, <2>4
<1>8. CASE \E m \in air : Resolver(m)
  <2>1. PICK m \in air : Resolver(m)
    BY <1>8
  <2>2. air' = air \cup {Answer(m)} /\ UNCHANGED <<dns, call, hist>> /\ m.to = "resolver"
    BY <2>1 DEF Resolver
  <2> QED
    BY <2>2 DEF QuestionOpen, AnswerIsForName, Calling, Answer
<1>9. CASE \E m \in air, s \in Servers : DhcpServer(s, m)
  <2>1. \E type, s : air' = air \cup {Reply(type, s)}
    BY <1>9 DEF DhcpServer
  <2>2. UNCHANGED <<dns, call, hist>>
    BY <1>9 DEF DhcpServer
  <2> QED
    BY <2>1, <2>2 DEF QuestionOpen, AnswerIsForName, Calling, Reply
<1>10. CASE UNCHANGED vars
  BY <1>10 DEF vars, QuestionOpen, AnswerIsForName, Calling
<1> QED
  BY <1>1, <1>2, <1>3, <1>4, <1>5, <1>6, <1>7, <1>8, <1>9, <1>10 DEF Next, Step
(* A message from a server leaves the options of that server, when no      *)
(* other was heard of.                                                     *)
LEMMA HandlerKeepsHeard ==
  ASSUME TypeOK, HistOK, AirOK, KnownFromHeard, MessagesFromHeard, OneServerConfig,
         NEW m \in air, m.to = "dhcp", DhcpHandler(m),
         UNCHANGED <<config, call, air, leased>>
  PROVE  KnownFromHeard' /\ MessagesFromHeard' /\ OneServerConfig'
<1>1. /\ m \in Replies /\ m.server \in Servers /\ m.ip = m.server
      /\ m.type \in {"offer", "ack", "nak"}
      /\ m.type = "ack" => m.server \in leased
      /\ m.type = "nak" => \E s \in hist.heard : s # m.server
  BY DEF AirOK, Broadcasts, Replies, Queries, Answers, MessagesFromHeard
<1>2. hist'.heard = hist.heard \cup {m.server}
  BY DEF DhcpHandler, HistOK
<1>3. hist.heard \subseteq Servers
  BY DEF HistOK
<1> DEFINE d == Heard(dhcp, m)
<1>4. /\ d.offer = dhcp.offer /\ d.ack = dhcp.ack /\ d.ip = dhcp.ip
      /\ d.server = m.server
      /\ d.opts = [o \in Options |-> IF o \in OptionsOf(m) THEN m.server ELSE dhcp.opts[o]]
      /\ d \in [offer : BOOLEAN, ack : BOOLEAN, ip : MaybeServer,
                server : MaybeServer, opts : [Options -> MaybeServer]]
  BY <1>1, OptionsTyped DEF Heard, TypeOK, MaybeServer
<1>5. dhcp' = IF m.type = "offer" /\ ~ d.offer
              THEN [d EXCEPT !.ip = m.ip, !.offer = TRUE]
              ELSE [d EXCEPT !.ack = @ \/ (m.type = "ack" /\ d.offer)]
  BY DEF DhcpHandler
<1> HIDE DEF d
<1>6. /\ dhcp'.server = m.server
      /\ dhcp'.opts = [o \in Options |-> IF o \in OptionsOf(m) THEN m.server ELSE dhcp.opts[o]]
  BY <1>4, <1>5
<1>7. /\ dhcp'.offer <=> dhcp.offer \/ m.type = "offer"
      /\ dhcp'.ack <=> dhcp.ack \/ (m.type = "ack" /\ dhcp.offer)
      /\ dhcp'.ip = IF m.type = "offer" /\ ~ dhcp.offer THEN m.ip ELSE dhcp.ip
  <2>1. CASE m.type = "offer" /\ ~ d.offer
    BY <1>4, <1>5, <2>1
  <2>2. CASE ~ (m.type = "offer" /\ ~ d.offer)
    BY <1>4, <1>5, <2>2
  <2> QED
    BY <2>1, <2>2
<1>8. dhcp'.offer => dhcp'.ip \in hist'.heard /\ dhcp'.server \in hist'.heard
  BY <1>1, <1>2, <1>6, <1>7 DEF KnownFromHeard
<1>9. dhcp'.ack => dhcp'.offer /\ hist'.heard \cap leased' # {}
  BY <1>1, <1>2, <1>7 DEF KnownFromHeard
<1>10. Calling("ack")' => dhcp'.offer
  BY <1>7 DEF KnownFromHeard, Calling
<1>11. ASSUME NEW s \in Servers, hist'.heard = {s}
       PROVE  dhcp'.opts = AllOptions(s)
  <2>1. m.server = s /\ m.type # "nak" /\ hist.heard \subseteq {s}
    BY <1>1, <1>2, <1>11
  <2>2. OptionsOf(m) = Options \ Omits[s]
    BY <2>1 DEF OptionsOf
  <2>3. dhcp.opts = AllOptions(s) \/ dhcp.opts = NoOptions
    BY <2>1 DEF KnownFromHeard
  <2>4. \A o \in Options : o \in Omits[s] => dhcp.opts[o] = None
    BY <2>3 DEF AllOptions, NoOptions
  <2> QED
    BY <1>6, <2>1, <2>2, <2>4 DEF AllOptions
<1>12. config'.ip # None => config'.ip \in hist'.heard
  BY <1>2 DEF KnownFromHeard
<1>13. KnownFromHeard'
  BY <1>2, <1>8, <1>9, <1>10, <1>11, <1>12 DEF KnownFromHeard
<1>14. MessagesFromHeard'
  BY <1>2 DEF MessagesFromHeard
<1>15. ASSUME NEW s \in Servers, config'.ip # None, hist'.heard = {s}
       PROVE  hist.heard = {s}
  BY <1>2, <1>15 DEF KnownFromHeard
<1>16. OneServerConfig'
  BY <1>15 DEF OneServerConfig
<1> QED
  BY <1>13, <1>14, <1>16

LEMMA HeardStep ==
  ASSUME TypeOK, HistOK, AirOK, FirstSlot, KnownFromHeard, MessagesFromHeard,
         OneServerConfig, [Next]_vars
  PROVE  KnownFromHeard' /\ MessagesFromHeard' /\ OneServerConfig'
<1>1. CASE DhcpInit
  <2>1. /\ dhcp'.offer = FALSE /\ dhcp'.ack = FALSE /\ dhcp'.opts = dhcp.opts
        /\ ~ Calling("ack")' /\ UNCHANGED <<config, leased>>
        /\ air' = air \cup {BroadcastMsg("discover", None, None)}
        /\ hist'.heard = hist.heard
    BY <1>1 DEF DhcpInit, Calling, HistOK, TypeOK
  <2>2. KnownFromHeard'
    BY <2>1 DEF KnownFromHeard
  <2>3. MessagesFromHeard'
    BY <2>1 DEF MessagesFromHeard, BroadcastMsg
  <2> QED
    BY <2>1, <2>2, <2>3 DEF OneServerConfig
<1>2. CASE DhcpRequest
  <2>1. /\ UNCHANGED <<dhcp, config, leased, hist>> /\ dhcp.offer
        /\ air' = air \cup {BroadcastMsg("request", dhcp.server, dhcp.ip)}
    BY <1>2 DEF DhcpRequest
  <2>2. KnownFromHeard'
    BY <2>1 DEF KnownFromHeard
  <2>3. MessagesFromHeard'
    BY <2>1 DEF MessagesFromHeard, BroadcastMsg, KnownFromHeard
  <2> QED
    BY <2>1, <2>2, <2>3 DEF OneServerConfig
<1>3. CASE DhcpNoOffer \/ DhcpNoAck \/ DnsReturns
  <2>1. ~ Calling("ack")' /\ UNCHANGED <<dhcp, config, leased, air>> /\ hist'.heard = hist.heard
    <3>1. CASE DnsReturns
      <4>1. hist'.heard = hist.heard
        BY <3>1 DEF DnsReturns, HistOK
      <4> QED
        BY <3>1, <4>1 DEF DnsReturns, NoCall, Calling, None
    <3> QED
      BY <1>3, <3>1 DEF DhcpNoOffer, DhcpNoAck, NoCall, Calling, None
  <2> QED
    BY <2>1 DEF KnownFromHeard, MessagesFromHeard, OneServerConfig
<1>4. CASE DhcpDone
  <2>1. /\ ~ Calling("ack")' /\ UNCHANGED <<dhcp, leased, air, hist>>
        /\ config'.ip = dhcp.ip /\ config'.opts = dhcp.opts
        /\ dhcp.ack
    BY <1>4 DEF DhcpDone, NoCall, Calling, None
  <2>2. dhcp.ip \in hist.heard /\ hist.heard \cap leased # {}
    BY <2>1 DEF KnownFromHeard
  <2>3. OneServerConfig'
    BY <2>1, <2>2 DEF OneServerConfig, KnownFromHeard, AllOptions
  <2> QED
    BY <2>1, <2>2, <2>3 DEF KnownFromHeard, MessagesFromHeard
<1>5. CASE \E name \in Names : DnsResolve(name)
  <2>1. PICK name \in Names : DnsResolve(name)
    BY <1>5
  <2>2. UNCHANGED <<dhcp, config, leased, hist>> /\ (Calling("ack")' => Calling("ack"))
    BY <2>1 DEF DnsResolve, Calling
  <2>3. air' = air \/ \E id : air' = air \cup {Query(id, name)}
    BY <2>1 DEF DnsResolve
  <2>4. MessagesFromHeard'
    BY <2>2, <2>3 DEF MessagesFromHeard, Query
  <2> QED
    BY <2>2, <2>4 DEF KnownFromHeard, OneServerConfig
<1>6. CASE Tick
  <2>1. call'.op = call.op /\ UNCHANGED <<dhcp, config, leased, air, hist>>
    BY <1>6 DEF Tick, TypeOK
  <2> QED
    BY <2>1 DEF KnownFromHeard, MessagesFromHeard, OneServerConfig, Calling
<1>7. CASE \E m \in air : UdpRecv(m)
  <2>1. PICK m \in air : UdpRecv(m)
    BY <1>7
  <2>2. UNCHANGED <<config, call, air, leased>>
    BY <2>1 DEF UdpRecv
  <2>3. CASE m.to = "dhcp"
    BY <2>1, <2>2, <2>3, HandlerKeepsHeard DEF UdpRecv
  <2>4. CASE m.to # "dhcp"
    <3>1. UNCHANGED <<dhcp, hist>>
      BY <2>1, <2>4 DEF UdpRecv, DnsHandler
    <3> QED
      BY <2>2, <3>1 DEF KnownFromHeard, MessagesFromHeard, OneServerConfig, Calling
  <2> QED
    BY <2>3, <2>4
<1>8. CASE \E m \in air : Resolver(m)
  <2>1. PICK m \in air : Resolver(m)
    BY <1>8
  <2>2. UNCHANGED <<dhcp, config, leased, hist, call>> /\ air' = air \cup {Answer(m)}
    BY <2>1 DEF Resolver
  <2>3. MessagesFromHeard'
    BY <2>2 DEF MessagesFromHeard, Answer
  <2> QED
    BY <2>2, <2>3 DEF KnownFromHeard, OneServerConfig, Calling
<1>9. CASE \E m \in air, s \in Servers : DhcpServer(s, m)
  <2>1. PICK m \in air, s \in Servers : DhcpServer(s, m)
    BY <1>9
  <2>2. PICK type :
          /\ air' = air \cup {Reply(type, s)}
          /\ leased' = IF type = "ack" THEN leased \cup {s} ELSE leased
          /\ type = "nak" => m.type = "request" /\ m.server = s /\ m.ip # s
    BY <2>1 DEF DhcpServer
  <2>3. UNCHANGED <<dhcp, config, hist, call>> /\ m.to = "servers"
    BY <2>1 DEF DhcpServer
  <2>4. type = "nak" => \E i \in hist.heard : i # s
    BY <2>2, <2>3 DEF MessagesFromHeard
  <2>5. MessagesFromHeard'
    <3>1. leased \subseteq leased'
      BY <2>2
    <3>2. ASSUME NEW r \in air'
          PROVE  /\ r.to = "servers" /\ r.type = "request" => r.server \in hist'.heard /\ r.ip \in hist'.heard
                 /\ r.to = "dhcp" =>
                      /\ r.ip = r.server
                      /\ r.type = "ack" => r.server \in leased'
                      /\ r.type = "nak" => \E i \in hist'.heard : i # r.server
      <4>1. CASE r \in air
        BY <2>3, <3>1, <4>1 DEF MessagesFromHeard
      <4>2. CASE r = Reply(type, s)
        BY <2>2, <2>3, <2>4, <4>2 DEF Reply
      <4> QED
        BY <2>2, <3>2, <4>1, <4>2
    <3> QED
      BY <3>2 DEF MessagesFromHeard
  <2> QED
    BY <2>2, <2>3, <2>5 DEF KnownFromHeard, OneServerConfig, Calling
<1>10. CASE UNCHANGED vars
  BY <1>10 DEF vars, KnownFromHeard, MessagesFromHeard, OneServerConfig, Calling
<1> QED
  BY <1>1, <1>2, <1>3, <1>4, <1>5, <1>6, <1>7, <1>8, <1>9, <1>10 DEF Next, Step
-----------------------------------------------------------------------------
(* The parts hold together, in every behaviour: what was heard, what is on *)
(* its way and what the clients keep fit each other.                       *)
THEOREM IndInvariant == Spec => []IndInv
<1>1. IndInv /\ [Next]_vars => IndInv'
  BY TypeStep, SlotStep, QuestionStep, HeardStep DEF IndInv
<1> QED
  BY InitHolds, <1>1, PTL DEF Spec

(* The handlers are bound while dhcp_init() and dns_resolve() wait and at  *)
(* no other time, for any number of servers, slots and calls.              *)
THEOREM ClientsAreSound == Spec => []ClientsSound
<1>1. IndInv => ClientsSound
  <2> SUFFICES ASSUME IndInv PROVE BoundWhileWaiting
    BY DEF IndInv, ClientsSound
  <2>1. ASSUME NEW port \in {"dhcp", "dns"}
        PROVE  {i \in DOMAIN bindings : bindings[i] = port}
                 = IF Waiting(call.op) = port THEN {1} ELSE {}
    <3>1. port # None /\ 1 \in 1 .. Handlers
      BY DhcpAssumption DEF None
    <3> QED
      BY <3>1 DEF IndInv, FirstSlot
  <2>2. ASSUME NEW port \in {"dhcp", "dns"}
        PROVE  Waiting(call.op) = port
                 <=> call.op \in (IF port = "dns" THEN {"dns"} ELSE {"offer", "ack"})
    BY DEF IndInv, TypeOK, Waiting, None
  <2> QED
    BY <2>1, <2>2, FS_EmptySet, FS_Singleton DEF BoundWhileWaiting
<1> QED
  BY <1>1, IndInvariant, PTL

(* The address dns_resolve() returns is that of the name it was asked for, *)
(* however many answers to earlier questions are still on their way.       *)
THEOREM AnswersAreForNames == Spec => []AnswerIsForName
<1>1. IndInv => AnswerIsForName
  BY DEF IndInv
<1> QED
  BY <1>1, IndInvariant, PTL

(* What dhcp_init() configures when one server has spoken is that server's *)
(* address and options, and the server counts the address as taken.        *)
THEOREM OneServerConfigures == Spec => []OneServerConfig
<1>1. IndInv => OneServerConfig
  BY DEF IndInv
<1> QED
  BY <1>1, IndInvariant, PTL
=============================================================================
