----------------------------- MODULE MCNetPoll -----------------------------
(* NetPoll for TLC: a ring of eight units with frames of two and three, so  *)
(* that the fourth frame may pass its end; a gateway whose address changes, *)
(* and a neighbour who takes its place in a cache of one entry.             *)
EXTENDS NetPoll

MCSizes == [arp |-> 2, dados |-> 3, outro |-> 2]

MCTraffic ==
  {[kind |-> "arp", host |-> "gateway", mac |-> 1],
   [kind |-> "arp", host |-> "gateway", mac |-> 2],
   [kind |-> "arp", host |-> "vizinho", mac |-> 1],
   [kind |-> "dados", host |-> "gateway", mac |-> 1]}
=============================================================================
