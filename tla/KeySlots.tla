------------------------------ MODULE KeySlots ------------------------------
(***************************************************************************)
(* What the crypto core (src/crypto/core.rs) demands of whoever rotates    *)
(* its keys.  A core stores four keys, encrypts with one of them and can   *)
(* decrypt with all of them; "an external key rotation is responsible for  *)
(* adding the key to the remote peer before switching to the key on the    *)
(* local peer for encryption".  The module says nothing about messages:    *)
(* KeyRotation shows that the rotation protocol implements it.             *)
(***************************************************************************)
EXTENDS Naturals

CONSTANTS A, B,         \* the two ends of a connection
          Key           \* the keys that can be stored

VARIABLES keys,         \* keys[n][s]: the key that node n stores in slot s
          current_key   \* current_key[n]: the slot that n encrypts with

vars == <<keys, current_key>>

Node == {A, B}
Peer(n) == IF n = A THEN B ELSE A
Slot == 0..3

Init == /\ current_key = [n \in Node |-> 0]
        /\ keys \in [Node -> [Slot -> Key]]
        /\ keys[A][0] = keys[B][0]

\* A key is added for decryption: neither end may be encrypting with the slot.
Install(n, s) ==
    /\ s # current_key[n]
    /\ s # current_key[Peer(n)]
    /\ keys'[n][s] \in Key
    /\ keys' = [keys EXCEPT ![n][s] = keys'[n][s]]
    /\ UNCHANGED current_key

\* A node takes over a key that its peer already has, and encrypts with it.
Switch(n, s) ==
    /\ keys' = [keys EXCEPT ![n][s] = keys[Peer(n)][s]]
    /\ current_key' = [current_key EXCEPT ![n] = s]

Next == \E n \in Node, s \in Slot : Install(n, s) \/ Switch(n, s)

Spec == Init /\ [][Next]_vars

(* "The crypto core assumes that the remote node will always have the       *)
(* necessary key to decrypt the message": the key a node encrypts with is   *)
(* stored by its peer, in the slot whose number the message carries.        *)
Readable ==
    \A n \in Node :
        keys[Peer(n)][current_key[n]] = keys[n][current_key[n]]
=============================================================================
