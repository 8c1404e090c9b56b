------------------------------- MODULE MCMesh --------------------------------
(* Three nodes, of which B is in the configuration of the others.  A and C  *)
(* have two addresses each and reach each other directly and through the    *)
(* outer addresses, which A advertises in mapped and C in plain form, so    *)
(* that C does not recognise it.  C has the address of B in plain form too. *)
EXTENDS Mesh

CONSTANTS A, B, C, a1, a2, b, bp, c1, c2, c2p

MCMapped == [q \in Addr |-> IF q = bp THEN b ELSE IF q = c2p THEN c2 ELSE q]
MCOwner == [q \in Addr |-> IF q \in {a1, a2} THEN A ELSE IF q \in {b, bp} THEN B ELSE C]
Link == {<<a1, b>>, <<b, a1>>, <<c1, b>>, <<b, c1>>, <<a1, c1>>, <<c1, a1>>, <<a2, c2>>, <<c2, a2>>}
MCSource == [n \in Node |-> [q \in Addr |->
    IF \E p \in Addr : MCOwner[p] = n /\ <<p, q>> \in Link
    THEN CHOOSE p \in Addr : MCOwner[p] = n /\ <<p, q>> \in Link ELSE None]]
MCOwnAddrs == [n \in Node |-> CASE n = A -> {a1, a2} [] n = B -> {b} [] n = C -> {c1, c2p}]
MCConfigured == [n \in Node |-> CASE n = A -> {b} [] n = B -> {} [] n = C -> {bp}]
=============================================================================
