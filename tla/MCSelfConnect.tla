---------------------------- MODULE MCSelfConnect ----------------------------
(* A node behind a router that sends datagrams for the router's public     *)
(* address back inside with its inner address as their source, and undoes  *)
(* that translation for the answers.                                       *)
EXTENDS SelfConnect

CONSTANTS Public, Inner

BothAddresses == {Public, Inner}
Hairpin == [a \in BothAddresses |-> IF a = Public THEN Inner ELSE Public]
=============================================================================
