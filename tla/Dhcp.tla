-------------------------------- MODULE Dhcp --------------------------------
(***************************************************************************)
(* The clients over UDP: dhcp_init() (net/dhcp.c), dns_resolve()           *)
(* (net/dns.c) and the handlers that udp_recv() (net/udp.c) calls while    *)
(* they wait.  A call that ran out of time is made again; its messages are *)
(* still on their way, and every try has the same transaction number.      *)
(*                                                                         *)
(* The network keeps what was sent to it and delivers it any number of     *)
(* times, in any order, or never.  Each server has one address for this    *)
(* host; it, and the options it gives, are named by the server.  The       *)
(* address of a host name is that name.                                    *)
(***************************************************************************)
EXTENDS Integers, FiniteSets

CONSTANTS
  Servers,     \* DHCP servers that hear the broadcasts
  Omits,       \* options that a server leaves out of its messages
  Names,       \* host names that are looked up
  LongNames,   \* those with a label of more than 63 characters
  Handlers,    \* UDP_MAX_HANDLERS
  Limit,       \* ticks a call waits
  MaxCalls,    \* bound: calls of dhcp_init()
  MaxQueries   \* bound: calls of dns_resolve()

Options == {"mask", "gateway", "dns"}

ASSUME DhcpAssumption ==
  /\ Omits \in [Servers -> SUBSET Options] /\ LongNames \subseteq Names
  /\ Handlers \in Nat \ {0, 1} /\ Limit \in Nat
  /\ MaxCalls \in Nat /\ MaxQueries \in Nat

None == "none"

VARIABLES
  bindings,   \* the handler of each slot, which is also its port
  dhcp,       \* dhcp_got_offer .. offered_dns
  config,     \* net_our_ip, net_netmask, net_gateway_ip, net_dns_ip
  dns,        \* dns_query_id, dns_got_reply, dns_result_ip
  call,       \* the call in progress and the ticks it still waits
  air,        \* every message that was ever sent
  leased,     \* the servers that count their address as this host's
  hist        \* for the properties: servers heard of, calls, last answer

vars == <<bindings, dhcp, config, dns, call, air, leased, hist>>
-----------------------------------------------------------------------------
NoOptions == [o \in Options |-> None]
NoCall == [op |-> None, left |-> 0, name |-> None]

Init ==
  /\ bindings = [i \in 1 .. Handlers |-> None]
  /\ dhcp = [offer |-> FALSE, ack |-> FALSE, ip |-> None, server |-> None,
             opts |-> NoOptions]
  /\ config = [ip |-> None, opts |-> NoOptions]
  /\ dns = [id |-> 0, got |-> FALSE, result |-> None]
  /\ call = NoCall
  /\ air = {}
  /\ leased = {}
  /\ hist = [heard |-> {}, calls |-> 0, asked |-> None, answer |-> None]

Calling(op) == call.op = op
Expired == call.left = 0

(* udp_bind(): the first slot that is free or has the port already.        *)
Bind(port) ==
  LET fit == {i \in DOMAIN bindings : bindings[i] \in {None, port}}
  IN  bindings' = [i \in DOMAIN bindings |->
                     IF i \in fit /\ \A j \in fit : i <= j THEN port
                     ELSE bindings[i]]

Unbind(port) ==
  bindings' = [i \in DOMAIN bindings |->
                 IF bindings[i] = port THEN None ELSE bindings[i]]

BroadcastMsg(type, server, ip) ==
  [to |-> "servers", type |-> type, server |-> server, ip |-> ip]
Reply(type, s) == [to |-> "dhcp", type |-> type, server |-> s, ip |-> s]
Query(id, name) == [to |-> "resolver", id |-> id, name |-> name]
Answer(q) == [to |-> "dns", id |-> q.id, name |-> q.name]
-----------------------------------------------------------------------------
Tick ==
  /\ call.left > 0
  /\ call' = [call EXCEPT !.left = @ - 1]
  /\ UNCHANGED <<bindings, dhcp, config, dns, air, leased, hist>>

(* dhcp_init() up to the wait for an OFFER.  The options of earlier tries  *)
(* are not cleared.                                                        *)
DhcpInit ==
  /\ Calling(None)
  /\ hist.calls < MaxCalls
  /\ dhcp' = [dhcp EXCEPT !.offer = FALSE, !.ack = FALSE,
                          !.ip = None, !.server = None]
  /\ Bind("dhcp")
  /\ air' = air \cup {BroadcastMsg("discover", None, None)}
  /\ call' = [op |-> "offer", left |-> Limit, name |-> None]
  /\ hist' = [hist EXCEPT !.calls = @ + 1]
  /\ UNCHANGED <<config, dns, leased>>

(* The REQUEST asks for the address of the first OFFER, of the server that *)
(* was heard last.                                                         *)
DhcpRequest ==
  /\ Calling("offer") /\ dhcp.offer
  /\ air' = air \cup {BroadcastMsg("request", dhcp.server, dhcp.ip)}
  /\ call' = [call EXCEPT !.op = "ack", !.left = Limit]
  /\ UNCHANGED <<bindings, dhcp, config, dns, leased, hist>>

DhcpNoOfferBound ==
  /\ Calling("offer") /\ ~ dhcp.offer /\ Expired
  /\ call' = NoCall
  /\ UNCHANGED <<bindings, dhcp, config, dns, air, leased, hist>>

DhcpNoOffer ==
  /\ Calling("offer") /\ ~ dhcp.offer /\ Expired
  /\ Unbind("dhcp")
  /\ call' = NoCall
  /\ UNCHANGED <<dhcp, config, dns, air, leased, hist>>

DhcpNoAck ==
  /\ Calling("ack") /\ ~ dhcp.ack /\ Expired
  /\ Unbind("dhcp")
  /\ call' = NoCall
  /\ UNCHANGED <<dhcp, config, dns, air, leased, hist>>

DhcpDone ==
  /\ Calling("ack") /\ dhcp.ack
  /\ Unbind("dhcp")
  /\ config' = [ip |-> dhcp.ip, opts |-> dhcp.opts]
  /\ call' = NoCall
  /\ UNCHANGED <<dhcp, dns, air, leased, hist>>

(* dns_resolve(): no server is known, or the name cannot be encoded, or    *)
(* the query is sent.                                                      *)
DnsReset == dns' = [id |-> dns.id + 1, got |-> FALSE, result |-> None]

DnsResolve(name) ==
  /\ Calling(None)
  /\ config.opts["dns"] # None
  /\ dns.id < MaxQueries
  /\ DnsReset
  /\ IF name \in LongNames
     THEN UNCHANGED <<bindings, call, air>>
     ELSE /\ Bind("dns")
          /\ air' = air \cup {Query(dns'.id, name)}
          /\ call' = [op |-> "dns", left |-> Limit, name |-> name]
  /\ UNCHANGED <<dhcp, config, leased, hist>>

DnsReturns ==
  /\ Calling("dns")
  /\ dns.got \/ Expired
  /\ Unbind("dns")
  /\ call' = NoCall
  /\ hist' = IF dns.got
             THEN [hist EXCEPT !.asked = call.name, !.answer = dns.result]
             ELSE hist
  /\ UNCHANGED <<dhcp, config, dns, air, leased>>
-----------------------------------------------------------------------------
(* dhcp_handler(): whatever the type of the message, its options replace   *)
(* those that are known.                                                   *)
OptionsOf(m) == IF m.type = "nak" THEN {} ELSE Options \ Omits[m.server]

Heard(d, m) ==
  [d EXCEPT !.server = m.server,
            !.opts = [o \in Options |->
                        IF o \in OptionsOf(m) THEN m.server ELSE @[o]]]

DhcpHandlerAnyType(m) ==
  /\ dhcp' = LET d == Heard(dhcp, m) IN
             IF ~ d.offer THEN [d EXCEPT !.ip = m.ip, !.offer = TRUE]
                          ELSE [d EXCEPT !.ack = TRUE]
  /\ hist' = [hist EXCEPT !.heard = @ \cup {m.server}]
  /\ UNCHANGED dns

DhcpHandler(m) ==
  /\ dhcp' = LET d == Heard(dhcp, m) IN
             IF m.type = "offer" /\ ~ d.offer
             THEN [d EXCEPT !.ip = m.ip, !.offer = TRUE]
             ELSE [d EXCEPT !.ack = @ \/ (m.type = "ack" /\ d.offer)]
  /\ hist' = [hist EXCEPT !.heard = @ \cup {m.server}]
  /\ UNCHANGED dns

(* dns_handler(): an answer to another query is not taken.                 *)
DnsMatchesAny(m) == TRUE

DnsMatches(m) == m.id = dns.id

DnsHandler(m) ==
  /\ DnsMatches(m)
  /\ dns' = [dns EXCEPT !.got = TRUE, !.result = m.name]
  /\ UNCHANGED <<dhcp, hist>>

(* udp_recv(), in the calls that poll: the handler of the port, if any.    *)
Bound(port) == \E i \in DOMAIN bindings : bindings[i] = port

UdpRecv(m) ==
  /\ ~ Calling(None)
  /\ Bound(m.to)
  /\ IF m.to = "dhcp" THEN DhcpHandler(m) ELSE DnsHandler(m)
  /\ UNCHANGED <<bindings, config, call, air, leased>>
-----------------------------------------------------------------------------
(* The servers.  One that is asked for an address that is not its own      *)
(* refuses; what is asked of another server does not concern it.           *)
DhcpServer(s, m) ==
  LET named == m.type = "request" /\ m.server = s
      type == IF m.type = "discover" THEN "offer"
              ELSE IF m.ip = s THEN "ack" ELSE "nak"
  IN  /\ m.to = "servers" /\ (m.type = "discover" \/ named)
      /\ air' = air \cup {Reply(type, s)}
      /\ leased' = IF type = "ack" THEN leased \cup {s} ELSE leased
      /\ UNCHANGED <<bindings, dhcp, config, dns, call, hist>>

Resolver(q) ==
  /\ q.to = "resolver"
  /\ air' = air \cup {Answer(q)}
  /\ UNCHANGED <<bindings, dhcp, config, dns, call, leased, hist>>

Step == DhcpRequest \/ DhcpNoOffer \/ DhcpNoAck \/ DhcpDone \/ DnsReturns

Next ==
  \/ Tick \/ DhcpInit \/ Step
  \/ \E name \in Names : DnsResolve(name)
  \/ \E m \in air : UdpRecv(m) \/ Resolver(m)
  \/ \E m \in air, s \in Servers : DhcpServer(s, m)

Spec == Init /\ [][Next]_vars
-----------------------------------------------------------------------------
MaybeServer == Servers \cup {None}

TypeOK ==
  /\ bindings \in [1 .. Handlers -> {None, "dhcp", "dns"}]
  /\ dhcp \in [offer : BOOLEAN, ack : BOOLEAN, ip : MaybeServer,
               server : MaybeServer, opts : [Options -> MaybeServer]]
  /\ config \in [ip : MaybeServer, opts : [Options -> MaybeServer]]
  /\ dns \in [id : 0 .. MaxQueries, got : BOOLEAN, result : Names \cup {None}]
  /\ call \in [op : {None, "offer", "ack", "dns"}, left : 0 .. Limit,
               name : Names \cup {None}]
  /\ leased \subseteq Servers

(* As long as one server has spoken, what dhcp_init() configures is that   *)
(* server's, the address with every option it gives, and it counts the     *)
(* address as this host's, whichever try the answers were to and however   *)
(* often or late they came.                                                *)
OneServerConfig ==
  \A s \in Servers :
    config.ip # None /\ hist.heard = {s} =>
      /\ config.ip = s /\ s \in leased
      /\ config.opts = [o \in Options |-> IF o \in Omits[s] THEN None ELSE s]

(* The address that dns_resolve() returns is that of the name it was asked *)
(* for, never the late answer to an earlier question.                      *)
AnswerIsForName == hist.answer = hist.asked

(* Whichever way the calls end, their handlers are bound while they wait   *)
(* and at no other time, in one slot.                                      *)
BoundWhileWaiting ==
  \A port \in {"dhcp", "dns"} :
    Cardinality({i \in DOMAIN bindings : bindings[i] = port})
      = IF call.op \in (IF port = "dns" THEN {"dns"} ELSE {"offer", "ack"})
        THEN 1 ELSE 0

(* What holds of the clients and the table of handlers in every state.     *)
ClientsSound == TypeOK /\ BoundWhileWaiting
=============================================================================
