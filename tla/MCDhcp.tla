------------------------------- MODULE MCDhcp -------------------------------
(* Dhcp for TLC: two servers, one of which gives no gateway; two tries,    *)
(* two names and a third that cannot be encoded.                           *)
EXTENDS Dhcp

MCOmits == [s \in Servers |-> IF s = "B" THEN {"gateway"} ELSE {}]
=============================================================================
