---------------------------- MODULE KeyRotation -----------------------------
(***************************************************************************)
(* The key rotation of one encrypted connection: RotationState             *)
(* (src/crypto/rotate.rs) at both ends, the key slots of the two crypto    *)
(* cores (src/crypto/core.rs), and the glue of PeerCrypto                  *)
(* (src/crypto/common.rs), over a network that loses, duplicates, delays   *)
(* and reorders packets.  A is the node that opened the connection; B, the *)
(* handshake's responder, starts the rotation.                             *)
(*                                                                         *)
(* The secret derived from a private and a public half of ephemeral X25519 *)
(* key pairs is the unordered set of the two pairs.                        *)
(***************************************************************************)
EXTENDS Integers, FiniteSets

CONSTANTS A, B,        \* the two ends of the connection
          Serial,      \* serial numbers that tell new key pairs from old ones
          MasterKey,   \* the secret negotiated by the handshake
          None,        \* Option::None
          MaxId,       \* bound: no node gets past this message id
          NetCap       \* bound: payload packets are sent while fewer are under way

VARIABLES rot,          \* rot[n]: the RotationState of node n
          keys,         \* keys[n][s]: key slot s of n's core
          current_key,  \* current_key[n]: the slot n encrypts with
          net           \* packets under way

vars == <<rot, keys, current_key, net>>

Node == {A, B}
Peer(n) == IF n = A THEN B ELSE A
Slot == 0..3
KeyPair == Node \X Nat \X Serial

derive_key(private, public) == {private, public}
CryptoKey(secret, id) == [secret |-> secret, id |-> id]

\* Random key data that nobody else knows fills the slots not yet in use.
dummy_key(n) == CryptoKey(n, 0)

-----------------------------------------------------------------------------
(* An ephemeral key pair is named by the node that made it, the message id  *)
(* it was made for and a serial number.                                     *)
Pairs(x) == IF x = None THEN {} ELSE {x}

PairsOfRotation(r) ==
    UNION { Pairs(r.proposed),
            IF r.pending = None THEN {} ELSE r.pending.secret,
            IF r.confirmed = None THEN {} ELSE {r.confirmed.public} }

PairsOfKey(k) == IF k.id = 0 THEN {} ELSE k.secret

PairsOfPacket(p) ==
    PairsOfKey(p.key) \cup
        IF p.body = None THEN {} ELSE {p.body.propose} \cup Pairs(p.body.confirm)

\* Whether anything refers to the pair, n's pending reply apart: the caller
\* is about to replace that.
InUse(n, pair) ==
    \/ pair \in PairsOfRotation([rot[n] EXCEPT !.pending = None])
    \/ pair \in PairsOfRotation(rot[Peer(n)])
    \/ \E m \in Node, s \in Slot : pair \in PairsOfKey(keys[m][s])
    \/ \E p \in net : pair \in PairsOfPacket(p)

\* create_key: a key pair that nobody has seen before.
NewKeyPairs(n, id) == { pair \in {n} \X {id} \X Serial : ~InUse(n, pair) }
create_key(n, id) == CHOOSE pair \in NewKeyPairs(n, id) : TRUE

-----------------------------------------------------------------------------
(* Rotation messages and the packets that carry them.  A packet with the    *)
(* body None carries payload.                                               *)

RotationMessage(id, propose, confirm) ==
    [message_id |-> id, propose |-> propose, confirm |-> confirm]

\* CryptoCore::encrypt: seal under the current key and name its slot.
Packet(n, body) ==
    [to |-> Peer(n), slot |-> current_key[n],
     key |-> keys[n][current_key[n]], body |-> body]

\* CryptoCore::decrypt needs the key of the packet in the slot that the packet
\* names.  It also refuses a nonce from before the window, which is the subject
\* of CryptoCore; here a packet that is refused for its age is one that is lost.
SlotHolds(n, p) == p.to = n /\ keys[n][p.slot] = p.key

\* Mutants of rotate_key: only one bit of the id selects the slot; the key is
\* used for sending at once.
rotate_keyOneBit(n, key, use_for_sending) ==
    /\ keys' = [keys EXCEPT ![n][key.id % 2] = key]
    /\ current_key' = IF use_for_sending THEN [current_key EXCEPT ![n] = key.id % 2]
                                         ELSE current_key
rotate_keyEager(n, key, use_for_sending) ==
    /\ keys' = [keys EXCEPT ![n][key.id % 4] = key]
    /\ current_key' = [current_key EXCEPT ![n] = key.id % 4]

\* CryptoCore::rotate_key
rotate_key(n, key, use_for_sending) ==
    /\ keys' = [keys EXCEPT ![n][key.id % 4] = key]
    /\ current_key' = IF use_for_sending
                        THEN [current_key EXCEPT ![n] = key.id % 4]
                        ELSE current_key

-----------------------------------------------------------------------------
\* RotationState::new at both ends.  In Init message 1 is under way.
InitialRotation(initiator, pair) ==
    [confirmed |-> None, pending |-> None, timeout |-> FALSE,
     proposed |-> IF initiator THEN pair ELSE None,
     message_id |-> IF initiator THEN 1 ELSE 0]

Init ==
    /\ keys = [n \in Node |-> [s \in Slot |->
                    IF s = 0 THEN CryptoKey(MasterKey, 0) ELSE dummy_key(n)]]
    /\ current_key = [n \in Node |-> 0]
    /\ \E pair \in {B} \X {1} \X Serial :
        /\ rot = [n \in Node |-> InitialRotation(n = B, pair)]
        /\ net = {Packet(B, RotationMessage(1, pair, None))}

-----------------------------------------------------------------------------
(* RotationState::cycle, called by PeerCrypto::every_second once every      *)
(* ROTATE_INTERVAL ticks; any number of other steps may come in between.    *)

\* The proposal is unanswered for the first time: wait one more cycle.
CycleWait(n) ==
    /\ rot[n].proposed # None
    /\ ~rot[n].timeout
    /\ rot' = [rot EXCEPT ![n].timeout = TRUE]
    /\ UNCHANGED <<keys, current_key, net>>

\* Mutant of CycleResend: the lost message is not sent again.
CycleResendNothing(n) ==
    /\ rot[n].proposed # None
    /\ rot[n].timeout
    /\ UNCHANGED vars

\* Still unanswered: repeat the last message.
CycleResend(n) ==
    /\ rot[n].proposed # None
    /\ rot[n].timeout
    /\ LET confirmed == rot[n].confirmed
           msg == IF confirmed = None
                    THEN RotationMessage(1, rot[n].proposed, None)
                    ELSE RotationMessage(confirmed.id, rot[n].proposed, confirmed.public)
       IN  net' = net \cup {Packet(n, msg)}
    /\ UNCHANGED <<rot, keys, current_key>>

\* Our turn: confirm the pending proposal, accept the key, propose anew.
CycleAdvance(n) ==
    /\ rot[n].proposed = None
    /\ rot[n].pending # None
    /\ rot[n].message_id + 2 <= MaxId
    /\ NewKeyPairs(n, rot[n].message_id + 2) # {}
    /\ LET id == rot[n].message_id + 2
           pending == rot[n].pending
           propose == create_key(n, id)
       IN  /\ rot' = [rot EXCEPT ![n] =
                        [confirmed |-> [public |-> pending.public, id |-> id],
                         pending |-> None, proposed |-> propose,
                         message_id |-> id, timeout |-> @.timeout]]
           /\ rotate_key(n, CryptoKey(pending.secret, id), FALSE)
           /\ net' = net \cup {Packet(n, RotationMessage(id, propose, pending.public))}

cycle(n) == CycleWait(n) \/ CycleResend(n) \/ CycleAdvance(n)

-----------------------------------------------------------------------------
(* PeerCrypto::handle_message for a rotation message: decrypt, then         *)
(* RotationState::process_message.  A stale message changes nothing.        *)
AcceptMessage(n, p) ==
    /\ SlotHolds(n, p)
    /\ NewKeyPairs(n, p.body.message_id) # {}
    /\ LET msg == p.body
           public == create_key(n, msg.message_id)
           confirms == msg.confirm # None /\ rot[n].proposed # None
       IN  /\ rot' = [rot EXCEPT ![n] =
                        [confirmed |-> @.confirmed,
                         pending |-> [secret |-> derive_key(public, msg.propose),
                                      public |-> public],
                         proposed |-> IF confirms THEN None ELSE @.proposed,
                         message_id |-> @.message_id, timeout |-> FALSE]]
           /\ IF confirms
                THEN rotate_key(n, CryptoKey(derive_key(rot[n].proposed, msg.confirm),
                                             msg.message_id), TRUE)
                ELSE UNCHANGED <<keys, current_key>>
    /\ UNCHANGED net   \* the network may deliver the packet again

\* Mutant of process_message: stale messages are not ignored.
process_messageStale(n, p) == p.body # None /\ AcceptMessage(n, p)

process_message(n, p) ==
    /\ p.body # None
    /\ p.body.message_id > rot[n].message_id
    /\ AcceptMessage(n, p)

\* PeerCrypto::send_message: any payload, sealed with the current key.
send_message(n) ==
    /\ Cardinality(net) < NetCap
    /\ net' = net \cup {Packet(n, None)}
    /\ UNCHANGED <<rot, keys, current_key>>

\* The network drops a packet, or its last copy has been delivered.
Lose(p) ==
    /\ net' = net \ {p}
    /\ UNCHANGED <<rot, keys, current_key>>

Next ==
    \/ \E n \in Node : cycle(n) \/ send_message(n)
    \/ \E p \in net : process_message(p.to, p) \/ Lose(p)

Spec == Init /\ [][Next]_vars

(* The event loop of either node keeps calling every_second, hence cycle;   *)
(* the network may lose any packet, but not every copy of a message that    *)
(* is sent again and again; a new copy has a new nonce.                     *)
Deliver(id) ==
    \E p \in net : /\ p.body # None
                   /\ p.body.message_id = id
                   /\ process_message(p.to, p)

Fairness ==
    /\ \A n \in Node : WF_vars(cycle(n))
    /\ \A id \in 1..MaxId : SF_vars(Deliver(id))

FairSpec == Spec /\ Fairness

-----------------------------------------------------------------------------
Confirmed == [public : KeyPair, id : Nat]
Pending == [secret : SUBSET KeyPair, public : KeyPair]
Message == [message_id : Nat, propose : KeyPair, confirm : KeyPair \cup {None}]

ASSUME RotationAssumption ==
    /\ A # B
    /\ MaxId \in Nat
    /\ NetCap \in Nat
    /\ None \notin KeyPair \cup Confirmed \cup Pending \cup Message

Secret == (SUBSET KeyPair) \cup Node \cup {MasterKey}
Key == [secret : Secret, id : Nat]

RotationState ==
    [confirmed : Confirmed \cup {None}, pending : Pending \cup {None},
     proposed : KeyPair \cup {None}, message_id : Nat, timeout : BOOLEAN]

(* Types.  In particular the current slot is one of the four, although it  *)
(* is computed from an id that grows without limit.                        *)
TypeOK ==
    /\ rot \in [Node -> RotationState]
    /\ keys \in [Node -> [Slot -> Key]]
    /\ current_key \in [Node -> Slot]
    /\ net \subseteq [to : Node, slot : Slot, key : Key, body : Message \cup {None}]

Slots == INSTANCE KeySlots

(* Whatever the network does to the rotation messages, a node only ever     *)
(* encrypts with a key that its peer has in the slot the packet names       *)
(* (core.rs: "the crypto core assumes that the remote node will always have *)
(* the necessary key to decrypt the message").                              *)
Readable == Slots!Readable

(* The rotation uses the slots of the two cores as the core demands: a slot *)
(* is never overwritten while one end encrypts with it, and a node switches *)
(* only to a key that its peer already holds.                               *)
ImplementsKeySlots == Slots!Spec

(* The two low bits of the id identify the key (rotate.rs): the slot that a *)
(* packet under way names still holds the key that the packet was sealed    *)
(* with, until one end has reached the id that reuses the slot.  Whether    *)
(* the receiver still accepts the nonce is another question: "after a       *)
(* second, old messages will not be accepted anymore" (core.rs).            *)
SlotKeepsKey ==
    \A p \in net :
        (\A n \in Node : rot[n].message_id < p.key.id + 4) => SlotHolds(p.to, p)

(* "Monotonically increasing message ids guard the communication from       *)
(* message duplication": no late or repeated rotation message makes a node  *)
(* encrypt with another key than a newer one.                               *)
SendingKey(n) == keys[n][current_key[n]]
SendingId(n) == SendingKey(n).id
KeysMoveForward ==
    \A n \in Node : SendingKey(n)' = SendingKey(n) \/ SendingId(n)' > SendingId(n)
NoKeyRollback == [][KeysMoveForward]_vars

(* The rotation never stalls: as long as a repeated message is delivered    *)
(* some day, every node gets to its next key, whatever else is lost.        *)
RotationProgress ==
    \A n \in Node, id \in 0..(MaxId - 3) :
        rot[n].message_id = id ~> SendingId(n) > id

-----------------------------------------------------------------------------
(* The inductive invariant.  The node whose message id is ahead, by exactly *)
(* one, is the leader: it has sent message m and waits for m + 1.           *)

\* The id of the newest key that messages 1 to j have established.
KeyId(j) == IF j <= 1 THEN 0 ELSE j

\* Node n encrypts with the key of that id, and its peer holds the same key.
SendsWith(n, id) ==
    /\ current_key[n] = id % 4
    /\ keys[n][id % 4].id = id
    /\ keys[Peer(n)][id % 4] = keys[n][id % 4]

\* The leader's message m has not reached its peer f.
Waiting(n, f, m) ==
    /\ rot[f].pending = None
    /\ IF m = 1
         THEN rot[f].proposed = None
         ELSE /\ rot[f].proposed # None
              /\ keys[n][m % 4] = CryptoKey({rot[f].proposed, rot[n].confirmed.public}, m)
    /\ SendsWith(f, KeyId(m - 2))

\* Message m has been processed by f, which is about to answer it.
Answering(n, f, m) ==
    /\ rot[f].proposed = None
    /\ rot[f].pending # None
    /\ rot[f].pending.secret = {rot[f].pending.public, rot[n].proposed}
    /\ SendsWith(f, KeyId(m))

\* No packet is newer than the leader's message, and every copy of that
\* message carries the leader's current proposal and confirmation.
PacketInv(n, f, m, p) ==
    /\ p.slot = p.key.id % 4
    /\ p.key.id <= IF p.to = f THEN m - 1 ELSE m
    /\ m < p.key.id + 4 => keys[p.to][p.slot] = p.key
    /\ p.body # None =>
        /\ p.body.message_id <= m
        /\ p.body.message_id = m =>
            /\ p.to = f
            /\ p.body.propose = rot[n].proposed
            /\ p.body.confirm = IF m = 1 THEN None ELSE rot[n].confirmed.public

LeaderInv(n, f, m) ==
    /\ rot[n].message_id = m
    /\ rot[f].message_id = m - 1
    /\ rot[n].proposed # None
    /\ rot[n].pending = None
    /\ IF m = 1 THEN rot[n].confirmed = None
                ELSE rot[n].confirmed # None /\ rot[n].confirmed.id = m
    /\ rot[f].confirmed # None => rot[f].confirmed.id = m - 1
    /\ SendsWith(n, KeyId(m - 1))
    /\ Waiting(n, f, m) \/ Answering(n, f, m)
    /\ \A p \in net : PacketInv(n, f, m, p)

(* The two ends stay in lock-step: their message ids differ by one, the one *)
(* that is ahead has a proposal open, the other has either not seen it or   *)
(* holds the answer, and both ends agree on every key that either of them   *)
(* is still using.                                                          *)
LockStep ==
    \E n \in Node : LeaderInv(n, Peer(n), rot[n].message_id)

=============================================================================
