------------------------------- MODULE MCDhcp -------------------------------
(* A server that can offer two addresses and does not know how to answer   *)
(* by broadcast, and one that has none to offer and may refuse renewals.   *)
EXTENDS Dhcp

MCPool == [s \in Servers |-> IF s = "a" THEN {"a1", "a2"} ELSE {}]
MCModes == [s \in Servers |-> {"unicast"}]
=============================================================================
