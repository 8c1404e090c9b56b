------------------------- MODULE KeyRotationProofs --------------------------
(***************************************************************************)
(* Proofs about KeyRotation, for every choice of its constants: type       *)
(* correctness, the lock-step invariant and what follows from it.          *)
(***************************************************************************)
EXTENDS KeyRotation, TLAPS

(* The peer of a node is the other node.                                    *)
LEMMA PeerFacts ==
    \A n \in Node : Peer(n) \in Node /\ Peer(n) # n /\ Peer(Peer(n)) = n
  BY RotationAssumption DEF Node, Peer

(* A slot number is a remainder modulo 4.                                   *)
LEMMA SlotOfId == \A id \in Nat : id % 4 \in Slot
  BY DEF Slot

(* create_key yields a key pair as long as a serial number is left.         *)
LEMMA CreateKeyType ==
    ASSUME NEW n \in Node, NEW id \in Nat, NewKeyPairs(n, id) # {}
    PROVE  create_key(n, id) \in KeyPair
  <1>1. create_key(n, id) \in NewKeyPairs(n, id)
    BY DEF create_key
  <1>2. NewKeyPairs(n, id) \subseteq KeyPair
    BY DEF NewKeyPairs, KeyPair
  <1> QED BY <1>1, <1>2

(* Whatever a node sends is a packet for its peer.                          *)
LEMMA PacketType ==
    ASSUME TypeOK, NEW n \in Node, NEW body \in Message \cup {None}
    PROVE  Packet(n, body) \in [to : Node, slot : Slot, key : Key, body : Message \cup {None}]
  BY PeerFacts DEF TypeOK, Packet

(* rotate_key keeps the type of the slots.                                  *)
LEMMA RotateKeyType ==
    ASSUME TypeOK, NEW n \in Node, NEW secret \in Secret, NEW id \in Nat,
           NEW send \in BOOLEAN, rotate_key(n, CryptoKey(secret, id), send)
    PROVE  /\ keys' \in [Node -> [Slot -> Key]]
           /\ current_key' \in [Node -> Slot]
  <1>1. CryptoKey(secret, id) \in Key /\ CryptoKey(secret, id).id = id
    BY DEF CryptoKey, Key
  <1> QED BY <1>1, SlotOfId DEF TypeOK, rotate_key

(* The state of both ends, of their slots and of the network is well typed. *)
THEOREM TypeCorrect == Spec => []TypeOK
  <1>1. Init => TypeOK
    <2> SUFFICES ASSUME Init PROVE TypeOK
      OBVIOUS
    <2>1. PICK pair \in {B} \X {1} \X Serial :
            /\ rot = [n \in Node |-> InitialRotation(n = B, pair)]
            /\ net = {Packet(B, RotationMessage(1, pair, None))}
      BY DEF Init
    <2>2. pair \in KeyPair
      BY DEF KeyPair, Node
    <2>3. keys \in [Node -> [Slot -> Key]] /\ current_key \in [Node -> Slot]
      BY DEF Init, CryptoKey, dummy_key, Key, Secret, Slot
    <2>4. rot \in [Node -> RotationState]
      BY <2>1, <2>2 DEF InitialRotation, RotationState
    <2>5. B \in Node /\ RotationMessage(1, pair, None) \in Message
      BY <2>2 DEF RotationMessage, Message, Node
    <2>6. Packet(B, RotationMessage(1, pair, None)) \in
            [to : Node, slot : Slot, key : Key, body : Message \cup {None}]
      BY <2>3, <2>5, PeerFacts DEF Packet
    <2> QED BY <2>1, <2>3, <2>4, <2>6 DEF TypeOK
  <1>2. TypeOK /\ [Next]_vars => TypeOK'
    <2> SUFFICES ASSUME TypeOK, [Next]_vars PROVE TypeOK'
      OBVIOUS
    <2>1. ASSUME NEW n \in Node, CycleWait(n) PROVE TypeOK'
      BY <2>1 DEF TypeOK, CycleWait, RotationState
    <2>2. ASSUME NEW n \in Node, CycleResend(n) PROVE TypeOK'
      <3> DEFINE c == rot[n].confirmed
                 msg == IF c = None THEN RotationMessage(1, rot[n].proposed, None)
                        ELSE RotationMessage(c.id, rot[n].proposed, c.public)
      <3>1. msg \in Message
        BY <2>2 DEF CycleResend, TypeOK, RotationState, RotationMessage, Message, Confirmed
      <3>2. net' = net \cup {Packet(n, msg)} /\ UNCHANGED <<rot, keys, current_key>>
        BY <2>2 DEF CycleResend
      <3> QED BY <3>1, <3>2, PacketType DEF TypeOK
    <2>3. ASSUME NEW n \in Node, CycleAdvance(n) PROVE TypeOK'
      <3> DEFINE id == rot[n].message_id + 2
                 pending == rot[n].pending
                 propose == create_key(n, id)
      <3>1. /\ id \in Nat
            /\ pending \in Pending
            /\ NewKeyPairs(n, id) # {}
        BY <2>3 DEF CycleAdvance, TypeOK, RotationState
      <3>2. propose \in KeyPair
        BY <3>1, CreateKeyType
      <3>3. RotationMessage(id, propose, pending.public) \in Message
        BY <3>1, <3>2 DEF RotationMessage, Message, Pending
      <3>4. rot' \in [Node -> RotationState]
        BY <2>3, <3>1, <3>2 DEF CycleAdvance, TypeOK, RotationState, Confirmed, Pending
      <3>5. keys' \in [Node -> [Slot -> Key]] /\ current_key' \in [Node -> Slot]
        <4>1. pending.secret \in Secret
          BY <3>1 DEF Pending, Secret
        <4>2. rotate_key(n, CryptoKey(pending.secret, id), FALSE)
          BY <2>3 DEF CycleAdvance
        <4> QED BY <3>1, <4>1, <4>2, RotateKeyType
      <3>6. net' = net \cup {Packet(n, RotationMessage(id, propose, pending.public))}
        BY <2>3 DEF CycleAdvance
      <3> QED BY <3>3, <3>4, <3>5, <3>6, PacketType DEF TypeOK
    <2>4. ASSUME NEW p \in net, process_message(p.to, p) PROVE TypeOK'
      <3> DEFINE n == p.to
                 msg == p.body
                 public == create_key(n, msg.message_id)
                 confirms == msg.confirm # None /\ rot[n].proposed # None
      <3>1. n \in Node /\ msg \in Message /\ NewKeyPairs(n, msg.message_id) # {}
        BY <2>4 DEF process_message, AcceptMessage, TypeOK
      <3>2. public \in KeyPair
        BY <3>1, CreateKeyType DEF Message
      <3>3. rot' \in [Node -> RotationState]
        <4>1. [secret |-> derive_key(public, msg.propose), public |-> public] \in Pending
          BY <3>1, <3>2 DEF Pending, derive_key, Message
        <4>2. rot' = [rot EXCEPT ![n] =
                        [confirmed |-> rot[n].confirmed,
                         pending |-> [secret |-> derive_key(public, msg.propose),
                                      public |-> public],
                         proposed |-> IF confirms THEN None ELSE rot[n].proposed,
                         message_id |-> rot[n].message_id, timeout |-> FALSE]]
          BY <2>4, <3>1 DEF process_message, AcceptMessage, TypeOK, RotationState
        <4> QED BY <3>1, <4>1, <4>2 DEF TypeOK, RotationState
      <3>4. keys' \in [Node -> [Slot -> Key]] /\ current_key' \in [Node -> Slot]
        <4>1. CASE confirms
          <5>1. derive_key(rot[n].proposed, msg.confirm) \in Secret
            BY <3>1, <4>1 DEF Secret, derive_key, Message, TypeOK, RotationState
          <5>2. rotate_key(n, CryptoKey(derive_key(rot[n].proposed, msg.confirm),
                                        msg.message_id), TRUE)
            BY <2>4, <4>1 DEF process_message, AcceptMessage
          <5> QED BY <3>1, <5>1, <5>2, RotateKeyType DEF Message
        <4>2. CASE ~confirms
          BY <2>4, <4>2 DEF process_message, AcceptMessage, TypeOK
        <4> QED BY <4>1, <4>2
      <3> QED BY <2>4, <3>3, <3>4 DEF process_message, AcceptMessage, TypeOK
    <2>5. ASSUME NEW n \in Node, send_message(n) PROVE TypeOK'
      BY <2>5, PacketType DEF send_message, TypeOK
    <2>6. ASSUME NEW p \in net, Lose(p) PROVE TypeOK'
      BY <2>6 DEF Lose, TypeOK
    <2>7. CASE UNCHANGED vars
      BY <2>7 DEF vars, TypeOK
    <2> QED BY <2>1, <2>2, <2>3, <2>4, <2>5, <2>6, <2>7 DEF Next, cycle
  <1> QED BY <1>1, <1>2, PTL DEF Spec

-----------------------------------------------------------------------------
(* Slot arithmetic: ids less than four apart have different slots, and the  *)
(* keys still in use never share a slot with the one being installed.       *)
LEMMA SameSlot ==
    \A k, i \in Nat : k < i /\ k % 4 = i % 4 => k + 4 <= i
  OBVIOUS

(* The slot that message m + 1 installs a key in holds neither the key of   *)
(* message m nor the one before it.                                         *)
LEMMA KeyIdFacts ==
    ASSUME NEW m \in Nat, m >= 1
    PROVE  /\ KeyId(m - 2) \in Nat /\ KeyId(m - 1) \in Nat /\ KeyId(m) \in Nat
           /\ KeyId(m - 2) <= m /\ KeyId(m - 1) <= m - 1 /\ KeyId(m) <= m
           /\ KeyId(m - 1) % 4 # (m + 1) % 4
           /\ KeyId(m) % 4 # (m + 1) % 4
           /\ m > 1 => KeyId(m) = m /\ KeyId(m - 1) % 4 # m % 4
           /\ KeyId(m + 1) = m + 1
           /\ m = 1 => KeyId(m - 2) = 0 /\ KeyId(m - 1) = 0 /\ KeyId(m) = 0
  BY SameSlot DEF KeyId

(* Establishing LeaderInv for some node in the next state re-establishes    *)
(* the invariant.                                                           *)
LEMMA LeaderSuffices ==
    ASSUME NEW n \in Node, NEW m, LeaderInv(n, Peer(n), m)'
    PROVE  LockStep'
  BY DEF LockStep, LeaderInv

(* Conversely the invariant names a leader, whose message id is positive.   *)
LEMMA LeaderExists ==
    ASSUME TypeOK, LockStep
    PROVE  \E n \in Node, m \in Nat : m >= 1 /\ LeaderInv(n, Peer(n), m)
  <1>1. PICK n \in Node : LeaderInv(n, Peer(n), rot[n].message_id)
    BY DEF LockStep
  <1>2. rot[n].message_id \in Nat /\ rot[Peer(n)].message_id \in Nat
    BY PeerFacts DEF TypeOK, RotationState
  <1>3. rot[n].message_id >= 1
    BY <1>1, <1>2 DEF LeaderInv
  <1> QED BY <1>1, <1>2, <1>3

(* Every packet a node seals is readable by its peer, and a rotation        *)
(* message in it is either older than m or the leader's message m.          *)
LEMMA NewPacket ==
    ASSUME TypeOK, NEW n \in Node, NEW m \in Nat, m >= 1,
           LeaderInv(n, Peer(n), m),
           NEW x \in Node, NEW body \in Message \cup {None},
           body # None =>
              \/ body.message_id < m
              \/ /\ x = n
                 /\ body.message_id = m
                 /\ body.propose = rot[n].proposed
                 /\ body.confirm = IF m = 1 THEN None ELSE rot[n].confirmed.public
    PROVE  PacketInv(n, Peer(n), m, Packet(x, body))
  <1> DEFINE f == Peer(n)
             p == Packet(x, body)
  <1>1. f \in Node /\ f # n /\ Peer(f) = n /\ (x = n \/ x = f)
    BY PeerFacts, RotationAssumption DEF Peer, Node
  <1>2. p.to = Peer(x) /\ p.slot = current_key[x] /\ p.key = keys[x][current_key[x]]
        /\ p.body = body
    BY DEF Packet
  <1>3. body # None =>
            /\ p.body.message_id <= m
            /\ p.body.message_id = m =>
                /\ p.to = f
                /\ p.body.propose = rot[n].proposed
                /\ p.body.confirm = IF m = 1 THEN None ELSE rot[n].confirmed.public
    BY <1>1, <1>2 DEF Message
  <1>4. CASE x = n
    <2>1. SendsWith(n, KeyId(m - 1))
      BY DEF LeaderInv
    <2>2. /\ p.to = f /\ p.slot = KeyId(m - 1) % 4 /\ p.key.id = KeyId(m - 1)
          /\ keys[p.to][p.slot] = p.key
      BY <1>1, <1>2, <1>4, <2>1 DEF SendsWith
    <2> QED BY <1>1, <1>2, <1>3, <2>2, KeyIdFacts DEF PacketInv
  <1>5. CASE x = f
    <2>1. PICK j \in {m - 2, m} : SendsWith(f, KeyId(j))
      BY DEF LeaderInv, Waiting, Answering
    <2>2. KeyId(j) \in Nat /\ KeyId(j) <= m
      BY <2>1, KeyIdFacts
    <2>3. /\ p.to = n /\ p.slot = KeyId(j) % 4 /\ p.key.id = KeyId(j)
          /\ keys[p.to][p.slot] = p.key
      BY <1>1, <1>2, <1>5, <2>1 DEF SendsWith
    <2> QED BY <1>1, <1>2, <1>3, <2>2, <2>3 DEF PacketInv
  <1> QED BY <1>1, <1>4, <1>5

(* The parts of LeaderInv that speak of the two ends and not of the network *)
LEMMA NetworkOnly ==
    ASSUME NEW n, NEW f, NEW m, LeaderInv(n, f, m),
           UNCHANGED <<rot, keys, current_key>>,
           \A p \in net' : p \in net \/ PacketInv(n, f, m, p)
    PROVE  LeaderInv(n, f, m)'
  <1>1. \A p : PacketInv(n, f, m, p)' <=> PacketInv(n, f, m, p)
    BY DEF PacketInv
  <1> QED BY <1>1 DEF LeaderInv, Waiting, Answering, SendsWith

(* In the initial state B leads with message 1.                             *)
LEMMA InitLockStep == Init => LockStep
  <1> SUFFICES ASSUME Init PROVE LeaderInv(B, A, 1)
    BY RotationAssumption DEF LockStep, LeaderInv, Node, Peer
  <1>1. PICK pair \in {B} \X {1} \X Serial :
            /\ rot = [n \in Node |-> InitialRotation(n = B, pair)]
            /\ net = {Packet(B, RotationMessage(1, pair, None))}
    BY DEF Init
  <1>2. pair \in KeyPair /\ pair # None
    BY RotationAssumption DEF KeyPair, Node
  <1>3. /\ current_key[A] = 0 /\ current_key[B] = 0
        /\ keys[A][0] = CryptoKey(MasterKey, 0) /\ keys[B][0] = CryptoKey(MasterKey, 0)
    BY DEF Init, Node, Slot
  <1>4. SendsWith(A, 0) /\ SendsWith(B, 0) /\ KeyId(0) = 0 /\ KeyId(-1) = 0
    BY <1>3, RotationAssumption DEF SendsWith, Peer, CryptoKey, KeyId
  <1>5. /\ rot[B] = [confirmed |-> None, pending |-> None, timeout |-> FALSE,
                     proposed |-> pair, message_id |-> 1]
        /\ rot[A] = [confirmed |-> None, pending |-> None, timeout |-> FALSE,
                     proposed |-> None, message_id |-> 0]
    BY <1>1, RotationAssumption DEF InitialRotation, Node
  <1>6. Waiting(B, A, 1)
    BY <1>4, <1>5 DEF Waiting
  <1>7. ASSUME NEW p \in net PROVE PacketInv(B, A, 1, p)
    <2>1. p = [to |-> A, slot |-> 0, key |-> CryptoKey(MasterKey, 0),
               body |-> RotationMessage(1, pair, None)]
      BY <1>1, <1>3, RotationAssumption DEF Packet, Peer
    <2> QED BY <1>3, <1>5, <2>1 DEF PacketInv, RotationMessage, CryptoKey
  <1> QED BY <1>2, <1>4, <1>5, <1>6, <1>7 DEF LeaderInv

(* Waiting one more cycle changes nothing the invariant speaks of.          *)
LEMMA CycleWaitLockStep ==
    ASSUME TypeOK, NEW n \in Node, NEW m \in Nat, LeaderInv(n, Peer(n), m),
           NEW x \in Node, CycleWait(x)
    PROVE  LeaderInv(n, Peer(n), m)'
  <1> DEFINE f == Peer(n)
  <1>1. \A y \in Node : /\ rot'[y].message_id = rot[y].message_id
                        /\ rot'[y].proposed = rot[y].proposed
                        /\ rot'[y].pending = rot[y].pending
                        /\ rot'[y].confirmed = rot[y].confirmed
    BY DEF CycleWait, TypeOK, RotationState
  <1>2. UNCHANGED <<keys, current_key, net>>
    BY DEF CycleWait
  <1>3. f \in Node
    BY PeerFacts
  <1>4. \A p : PacketInv(n, f, m, p)' <=> PacketInv(n, f, m, p)
    BY <1>1, <1>2 DEF PacketInv
  <1> QED BY <1>1, <1>2, <1>3, <1>4 DEF LeaderInv, Waiting, Answering, SendsWith

(* A repeated message is the leader's message m, or an older one.           *)
LEMMA CycleResendLockStep ==
    ASSUME TypeOK, NEW n \in Node, NEW m \in Nat, m >= 1,
           LeaderInv(n, Peer(n), m), NEW x \in Node, CycleResend(x)
    PROVE  LeaderInv(n, Peer(n), m)'
  <1> DEFINE f == Peer(n)
             c == rot[x].confirmed
             msg == IF c = None THEN RotationMessage(1, rot[x].proposed, None)
                    ELSE RotationMessage(c.id, rot[x].proposed, c.public)
  <1>1. f \in Node /\ f # n /\ (x = n \/ x = f)
    BY PeerFacts, RotationAssumption DEF Peer, Node
  <1>2. net' = net \cup {Packet(x, msg)} /\ UNCHANGED <<rot, keys, current_key>>
    BY DEF CycleResend
  <1>3. msg \in Message
    BY DEF CycleResend, TypeOK, RotationState, RotationMessage, Message, Confirmed
  <1>4. CASE x = n
    <2>1. /\ msg.message_id = m
          /\ msg.propose = rot[n].proposed
          /\ msg.confirm = IF m = 1 THEN None ELSE rot[n].confirmed.public
      BY <1>4 DEF LeaderInv, RotationMessage
    <2> QED BY <1>2, <1>3, <1>4, <2>1, NewPacket, NetworkOnly
  <1>5. CASE x = f
    <2>1. rot[f].proposed # None
      BY <1>5 DEF CycleResend
    <2>2. m > 1
      BY <2>1 DEF LeaderInv, Waiting, Answering
    <2>3. msg.message_id < m
      BY <1>5, <2>2 DEF LeaderInv, RotationMessage
    <2> QED BY <1>2, <1>3, <2>3, NewPacket, NetworkOnly
  <1> QED BY <1>1, <1>4, <1>5

(* Only the follower can advance, once it has processed message m.  It      *)
(* becomes the leader, with message m + 1.                                  *)
LEMMA CycleAdvanceLockStep ==
    ASSUME TypeOK, NEW n \in Node, NEW m \in Nat, m >= 1,
           LeaderInv(n, Peer(n), m), NEW x \in Node, CycleAdvance(x)
    PROVE  /\ LeaderInv(Peer(n), n, m + 1)'
           /\ Answering(n, Peer(n), m)
           /\ \E key \in Key : keys' = [keys EXCEPT ![Peer(n)][(m + 1) % 4] = key]
           /\ UNCHANGED current_key
  <1> DEFINE f == Peer(n)
             id == m + 1
             propose == create_key(f, id)
             pending == rot[f].pending
             msg == RotationMessage(id, propose, pending.public)
             new == CryptoKey(pending.secret, id)
  <1>1. f \in Node /\ f # n /\ Peer(f) = n /\ (x = n \/ x = f)
    BY PeerFacts, RotationAssumption DEF Peer, Node
  <1>2. x = f
    BY <1>1 DEF CycleAdvance, LeaderInv
  <1>3. Answering(n, f, m)
    BY <1>2 DEF CycleAdvance, LeaderInv, Waiting
  <1>4. rot[f].message_id + 2 = id
    BY DEF LeaderInv
  <1>5. /\ rot' = [rot EXCEPT ![f] =
                    [confirmed |-> [public |-> pending.public, id |-> id],
                     pending |-> None, proposed |-> propose,
                     message_id |-> id, timeout |-> @.timeout]]
        /\ keys' = [keys EXCEPT ![f][id % 4] = new]
        /\ current_key' = current_key
        /\ net' = net \cup {Packet(f, msg)}
        /\ NewKeyPairs(f, id) # {}
    BY <1>2, <1>4 DEF CycleAdvance, rotate_key, CryptoKey
  <1>6. propose \in KeyPair /\ propose # None
    BY <1>1, <1>5, CreateKeyType, RotationAssumption
  <1>7. pending \in Pending /\ [public |-> pending.public, id |-> id] # None
    <2>1. pending \in Pending
      BY <1>1, <1>3 DEF Answering, TypeOK, RotationState
    <2>2. [public |-> pending.public, id |-> id] \in Confirmed
      BY <2>1 DEF Pending, Confirmed
    <2> QED BY <2>1, <2>2, RotationAssumption
  <1>8. id % 4 \in Slot
    BY SlotOfId
  <1>9. /\ rot'[n] = rot[n]
        /\ rot'[f].confirmed = [public |-> pending.public, id |-> id]
        /\ rot'[f].pending = None /\ rot'[f].proposed = propose
        /\ rot'[f].message_id = id
    BY <1>1, <1>5 DEF TypeOK
  <1>10. /\ keys'[n] = keys[n]
         /\ keys'[f][id % 4] = new
         /\ \A s \in Slot : s # id % 4 => keys'[f][s] = keys[f][s]
    BY <1>1, <1>5, <1>8 DEF TypeOK
  <1>11. SendsWith(f, KeyId(id - 1))'
    <2>1. SendsWith(f, KeyId(m)) /\ KeyId(m) % 4 # id % 4 /\ KeyId(m) % 4 \in Slot
      BY <1>3, KeyIdFacts, SlotOfId DEF Answering
    <2>2. keys'[f][KeyId(m) % 4] = keys[f][KeyId(m) % 4]
      BY <1>10, <2>1
    <2> QED BY <1>1, <1>5, <1>10, <2>1, <2>2 DEF SendsWith
  <1>12. Waiting(f, n, id)'
    <2>1. SendsWith(n, KeyId(m - 1)) /\ KeyId(m - 1) % 4 # id % 4
          /\ KeyId(m - 1) % 4 \in Slot
      BY KeyIdFacts, SlotOfId DEF LeaderInv
    <2>2. keys'[f][KeyId(m - 1) % 4] = keys[f][KeyId(m - 1) % 4]
      BY <1>10, <2>1
    <2>3. SendsWith(n, KeyId(id - 2))'
      BY <1>1, <1>5, <1>10, <2>1, <2>2 DEF SendsWith
    <2>4. rot[n].pending = None /\ rot[n].proposed # None
      BY DEF LeaderInv
    <2>5. new = CryptoKey({rot[n].proposed, pending.public}, id)
      BY <1>3 DEF Answering
    <2> QED BY <1>9, <1>10, <2>3, <2>4, <2>5 DEF Waiting
  <1>13. ASSUME NEW p \in net' PROVE PacketInv(f, n, id, p)'
    <2>1. CASE p \in net
      <3>1. PacketInv(n, f, m, p)
        BY <2>1 DEF LeaderInv
      <3>2. p.to \in Node /\ p.slot \in Slot /\ p.key.id \in Nat
            /\ p.body \in Message \cup {None}
        BY <2>1 DEF TypeOK, Key
      <3>3. p.to = n \/ p.to = f
        BY <1>1, <3>2, RotationAssumption DEF Node, Peer
      <3>4. p.slot = p.key.id % 4 /\ p.key.id <= IF p.to = n THEN id - 1 ELSE id
        BY <1>1, <3>1, <3>2, <3>3 DEF PacketInv
      <3>5. id < p.key.id + 4 => keys'[p.to][p.slot] = p.key
        <4> SUFFICES ASSUME id < p.key.id + 4 PROVE keys'[p.to][p.slot] = p.key
          OBVIOUS
        <4>1. keys[p.to][p.slot] = p.key
          BY <3>1, <3>2 DEF PacketInv
        <4>2. p.to = f => p.slot # id % 4
          BY <3>1, <3>2, SameSlot DEF PacketInv
        <4> QED BY <1>10, <3>2, <3>3, <4>1, <4>2
      <3>6. p.body # None => p.body.message_id <= m /\ p.body.message_id \in Nat
        BY <3>1, <3>2 DEF PacketInv, Message
      <3> QED BY <3>4, <3>5, <3>6 DEF PacketInv
    <2>2. CASE p = Packet(f, msg)
      <3>1. SendsWith(f, KeyId(m)) /\ KeyId(m) \in Nat /\ KeyId(m) <= m
        BY <1>3, KeyIdFacts DEF Answering
      <3>2. /\ p.to = n /\ p.slot = KeyId(m) % 4 /\ p.key.id = KeyId(m)
            /\ keys[n][p.slot] = p.key /\ p.body = msg
        BY <1>1, <2>2, <3>1 DEF Packet, SendsWith
      <3>3. id # 1
        OBVIOUS
      <3> QED BY <1>1, <1>9, <1>10, <3>1, <3>2, <3>3 DEF PacketInv, RotationMessage
    <2> QED BY <1>5, <2>1, <2>2
  <1>14. rot[n].confirmed # None => rot[n].confirmed.id = m
    BY DEF LeaderInv
  <1>15. rot[n].message_id = m
    BY DEF LeaderInv
  <1>16. new \in Key
    BY <1>7 DEF Pending, CryptoKey, Key, Secret
  <1>17. LeaderInv(f, n, id)'
    BY <1>6, <1>7, <1>9, <1>11, <1>12, <1>13, <1>14, <1>15 DEF LeaderInv
  <1> QED BY <1>3, <1>5, <1>16, <1>17

(* A rotation message that is not stale is a copy of the leader's message m *)
(* at the follower, which installs the key that the leader already has.     *)
LEMMA ProcessMessageLockStep ==
    ASSUME TypeOK, NEW n \in Node, NEW m \in Nat, m >= 1,
           LeaderInv(n, Peer(n), m), NEW q \in net, process_message(q.to, q)
    PROVE  /\ LeaderInv(n, Peer(n), m)'
           /\ Answering(n, Peer(n), m)'
           /\ q.to = Peer(n)
           /\ \/ UNCHANGED <<keys, current_key>>
              \/ /\ Waiting(n, Peer(n), m)
                 /\ m > 1
                 /\ keys' = [keys EXCEPT ![Peer(n)][m % 4] = keys[n][m % 4]]
                 /\ current_key' = [current_key EXCEPT ![Peer(n)] = m % 4]
  <1> DEFINE f == Peer(n)
             msg == q.body
             public == create_key(f, m)
             pending == [secret |-> derive_key(public, msg.propose), public |-> public]
             confirms == msg.confirm # None /\ rot[f].proposed # None
  <1>1. f \in Node /\ f # n /\ Peer(f) = n
    BY PeerFacts
  <1>2. q.to \in Node /\ msg \in Message /\ msg # None /\ msg.message_id \in Nat
    BY DEF process_message, AcceptMessage, TypeOK, Message
  <1>3. PacketInv(n, f, m, q)
    BY DEF LeaderInv
  <1>4. q.to = f /\ msg.message_id = m
    <2>1. q.to = n \/ q.to = f
      BY <1>1, <1>2, RotationAssumption DEF Node, Peer
    <2>2. msg.message_id > rot[q.to].message_id
      BY DEF process_message, AcceptMessage
    <2> QED BY <1>1, <1>2, <1>3, <2>1, <2>2 DEF PacketInv, LeaderInv
  <1>5. /\ msg.propose = rot[n].proposed
        /\ msg.confirm = IF m = 1 THEN None ELSE rot[n].confirmed.public
    BY <1>2, <1>3, <1>4 DEF PacketInv
  <1>6. /\ rot' = [rot EXCEPT ![f] =
                    [confirmed |-> @.confirmed, pending |-> pending,
                     proposed |-> IF confirms THEN None ELSE @.proposed,
                     message_id |-> @.message_id, timeout |-> FALSE]]
        /\ IF confirms
             THEN /\ keys' = [keys EXCEPT ![f][m % 4] =
                                CryptoKey(derive_key(rot[f].proposed, msg.confirm), m)]
                  /\ current_key' = [current_key EXCEPT ![f] = m % 4]
             ELSE UNCHANGED <<keys, current_key>>
        /\ UNCHANGED net
        /\ NewKeyPairs(f, m) # {}
    BY <1>4 DEF process_message, AcceptMessage, rotate_key, CryptoKey
  <1>7. public \in KeyPair /\ pending # None
    <2>1. public \in KeyPair
      BY <1>1, <1>6, CreateKeyType
    <2>2. pending \in Pending
      BY <1>2, <2>1 DEF Pending, derive_key, Message
    <2> QED BY <2>1, <2>2, RotationAssumption
  <1>8. /\ rot'[n] = rot[n]
        /\ rot'[f].confirmed = rot[f].confirmed /\ rot'[f].message_id = rot[f].message_id
        /\ rot'[f].pending = pending
        /\ rot'[f].proposed = IF confirms THEN None ELSE rot[f].proposed
    BY <1>1, <1>6 DEF TypeOK
  <1>9. pending.secret = {public, rot[n].proposed} /\ pending.public = public
    BY <1>5 DEF derive_key
  <1>10. confirms <=> Waiting(n, f, m) /\ m > 1
    <2>1. m > 1 => msg.confirm # None
      <3>1. rot[n].confirmed # None => rot[n].confirmed.public \in KeyPair
        BY DEF TypeOK, RotationState, Confirmed
      <3> QED BY <1>5, <3>1, RotationAssumption DEF LeaderInv
    <2>2. m = 1 => msg.confirm = None
      BY <1>5
    <2> QED BY <2>1, <2>2 DEF LeaderInv, Waiting, Answering
  <1>11. CASE confirms
    <2>1. /\ Waiting(n, f, m) /\ m > 1
          /\ keys[n][m % 4] = CryptoKey({rot[f].proposed, rot[n].confirmed.public}, m)
      BY <1>10, <1>11 DEF Waiting
    <2>2. /\ keys' = [keys EXCEPT ![f][m % 4] = keys[n][m % 4]]
          /\ current_key' = [current_key EXCEPT ![f] = m % 4]
      BY <1>5, <1>6, <1>11, <2>1 DEF derive_key
    <2>3. m % 4 \in Slot /\ KeyId(m - 1) % 4 \in Slot /\ KeyId(m - 1) % 4 # m % 4
          /\ KeyId(m) = m
      BY <2>1, KeyIdFacts, SlotOfId
    <2>4. /\ keys'[n] = keys[n]
          /\ keys'[f][m % 4] = keys[n][m % 4]
          /\ \A s \in Slot : s # m % 4 => keys'[f][s] = keys[f][s]
          /\ current_key'[n] = current_key[n] /\ current_key'[f] = m % 4
      BY <1>1, <2>2, <2>3 DEF TypeOK
    <2>5. SendsWith(n, KeyId(m - 1))'
      BY <1>1, <2>3, <2>4 DEF LeaderInv, SendsWith
    <2>6. Answering(n, f, m)'
      <3>1. SendsWith(f, KeyId(m))'
        BY <1>1, <2>1, <2>3, <2>4 DEF SendsWith, CryptoKey
      <3> QED BY <1>7, <1>8, <1>9, <1>11, <3>1 DEF Answering
    <2>7. ASSUME NEW p \in net' PROVE PacketInv(n, f, m, p)'
      <3>1. p \in net /\ PacketInv(n, f, m, p)
        BY <1>6, <2>7 DEF LeaderInv
      <3>2. p.to \in Node /\ p.slot \in Slot /\ p.key.id \in Nat
        BY <3>1 DEF TypeOK, Key
      <3>3. m < p.key.id + 4 => keys'[p.to][p.slot] = p.key
        <4> SUFFICES ASSUME m < p.key.id + 4 PROVE keys'[p.to][p.slot] = p.key
          OBVIOUS
        <4>1. keys[p.to][p.slot] = p.key
          BY <3>1, <3>2 DEF PacketInv
        <4>2. p.to = f => p.slot # m % 4
          BY <3>1, <3>2, SameSlot DEF PacketInv
        <4>3. p.to = n \/ p.to = f
          BY <1>1, <3>2, RotationAssumption DEF Node, Peer
        <4> QED BY <2>4, <3>2, <4>1, <4>2, <4>3
      <3> QED BY <1>8, <3>1, <3>3 DEF PacketInv
    <2> QED BY <1>4, <1>8, <2>1, <2>2, <2>5, <2>6, <2>7 DEF LeaderInv
  <1>12. CASE ~confirms
    <2>1. UNCHANGED <<keys, current_key, net>>
      BY <1>6, <1>12
    <2>2. rot[f].proposed = None
      BY <1>10, <1>12 DEF LeaderInv, Waiting, Answering
    <2>3. SendsWith(f, KeyId(m))
      <3>1. CASE m = 1
        BY <3>1, KeyIdFacts DEF LeaderInv, Waiting, Answering
      <3>2. CASE m # 1
        BY <1>10, <1>12, <3>2 DEF LeaderInv, Answering
      <3> QED BY <3>1, <3>2
    <2>4. Answering(n, f, m)'
      BY <1>7, <1>8, <1>9, <1>12, <2>1, <2>2, <2>3 DEF Answering, SendsWith
    <2>5. \A p : PacketInv(n, f, m, p)' <=> PacketInv(n, f, m, p)
      BY <1>8, <2>1 DEF PacketInv
    <2> QED BY <1>4, <1>8, <2>1, <2>4, <2>5 DEF LeaderInv, SendsWith
  <1> QED BY <1>11, <1>12

(* The two ends stay in lock-step: message ids differ by one, the leader's  *)
(* proposal is open, and both ends agree on the keys in use.                *)
THEOREM LockStepInvariant == Spec => []LockStep
  <1>1. TypeOK /\ LockStep /\ [Next]_vars => LockStep'
    <2> SUFFICES ASSUME TypeOK, LockStep, [Next]_vars PROVE LockStep'
      OBVIOUS
    <2>1. PICK n \in Node, m \in Nat : m >= 1 /\ LeaderInv(n, Peer(n), m)
      BY LeaderExists
    <2>2. ASSUME NEW x \in Node, CycleWait(x) PROVE LockStep'
      BY <2>1, <2>2, CycleWaitLockStep, LeaderSuffices
    <2>3. ASSUME NEW x \in Node, CycleResend(x) PROVE LockStep'
      BY <2>1, <2>3, CycleResendLockStep, LeaderSuffices
    <2>4. ASSUME NEW x \in Node, CycleAdvance(x) PROVE LockStep'
      <3>1. LeaderInv(Peer(n), Peer(Peer(n)), m + 1)'
        BY <2>1, <2>4, CycleAdvanceLockStep, PeerFacts
      <3> QED BY <3>1, LeaderSuffices, PeerFacts
    <2>5. ASSUME NEW q \in net, process_message(q.to, q) PROVE LockStep'
      BY <2>1, <2>5, ProcessMessageLockStep, LeaderSuffices
    <2>6. ASSUME NEW x \in Node, send_message(x) PROVE LockStep'
      <3>1. PacketInv(n, Peer(n), m, Packet(x, None))
        BY <2>1, NewPacket
      <3>2. LeaderInv(n, Peer(n), m)'
        BY <2>1, <2>6, <3>1, NetworkOnly DEF send_message
      <3> QED BY <3>2, LeaderSuffices
    <2>7. ASSUME NEW q \in net, Lose(q) PROVE LockStep'
      <3>1. LeaderInv(n, Peer(n), m)'
        BY <2>1, <2>7, NetworkOnly DEF Lose
      <3> QED BY <3>1, LeaderSuffices
    <2>8. CASE UNCHANGED vars
      <3>1. LeaderInv(n, Peer(n), m)'
        BY <2>1, <2>8, NetworkOnly DEF vars
      <3> QED BY <3>1, LeaderSuffices
    <2> QED BY <2>2, <2>3, <2>4, <2>5, <2>6, <2>7, <2>8 DEF Next, cycle
  <1> QED BY <1>1, InitLockStep, TypeCorrect, PTL DEF Spec

(* What a step does to the keys: nothing, or the follower installs the key  *)
(* m + 1 that nobody uses yet, or the follower switches to the key m.       *)
LEMMA KeyStep ==
    ASSUME TypeOK, LockStep, Next
    PROVE  \/ UNCHANGED <<keys, current_key>>
           \/ \E n \in Node, m \in Nat, key \in Key :
                /\ m >= 1
                /\ LeaderInv(n, Peer(n), m) /\ Answering(n, Peer(n), m)
                /\ keys' = [keys EXCEPT ![Peer(n)][(m + 1) % 4] = key]
                /\ UNCHANGED current_key
           \/ \E n \in Node, m \in Nat :
                /\ m > 1
                /\ LeaderInv(n, Peer(n), m) /\ Waiting(n, Peer(n), m)
                /\ keys' = [keys EXCEPT ![Peer(n)][m % 4] = keys[n][m % 4]]
                /\ current_key' = [current_key EXCEPT ![Peer(n)] = m % 4]
  <1>1. PICK n \in Node, m \in Nat : m >= 1 /\ LeaderInv(n, Peer(n), m)
    BY LeaderExists
  <1>2. ASSUME NEW x \in Node, CycleWait(x) \/ CycleResend(x) \/ send_message(x)
        PROVE  UNCHANGED <<keys, current_key>>
    BY <1>2 DEF CycleWait, CycleResend, send_message
  <1>3. ASSUME NEW q \in net, Lose(q) PROVE UNCHANGED <<keys, current_key>>
    BY <1>3 DEF Lose
  <1>4. ASSUME NEW x \in Node, CycleAdvance(x)
        PROVE  /\ Answering(n, Peer(n), m)
               /\ \E key \in Key : keys' = [keys EXCEPT ![Peer(n)][(m + 1) % 4] = key]
               /\ UNCHANGED current_key
    BY <1>1, <1>4, CycleAdvanceLockStep
  <1>5. ASSUME NEW q \in net, process_message(q.to, q)
        PROVE  \/ UNCHANGED <<keys, current_key>>
               \/ /\ Waiting(n, Peer(n), m)
                  /\ m > 1
                  /\ keys' = [keys EXCEPT ![Peer(n)][m % 4] = keys[n][m % 4]]
                  /\ current_key' = [current_key EXCEPT ![Peer(n)] = m % 4]
    BY <1>1, <1>5, ProcessMessageLockStep
  <1> QED BY <1>1, <1>2, <1>3, <1>4, <1>5 DEF Next, cycle

(* Either end always encrypts with a key that the other end holds in the    *)
(* slot named by the packet.                                                *)
LEMMA LockStepReadable == LockStep => Readable
  <1> SUFFICES ASSUME LockStep PROVE Readable
    OBVIOUS
  <1>1. PICK n \in Node : LeaderInv(n, Peer(n), rot[n].message_id)
    BY DEF LockStep
  <1>2. \A y \in {n, Peer(n)} : keys[Peer(y)][current_key[y]] = keys[y][current_key[y]]
    BY <1>1 DEF LeaderInv, Waiting, Answering, SendsWith
  <1>3. Node = {n, Peer(n)}
    BY RotationAssumption DEF Node, Peer
  <1>4. \A y \in Node : Slots!Peer(y) = Peer(y) /\ Slots!Node = Node
    BY DEF Slots!Peer, Slots!Node, Peer, Node
  <1> QED BY <1>2, <1>3, <1>4 DEF Readable, Slots!Readable

(* A node only ever encrypts with a key that its peer holds in the slot the *)
(* packet names, for every id and every behaviour of the network.           *)
THEOREM AlwaysReadable == Spec => []Readable
  BY LockStepInvariant, LockStepReadable, PTL

(* The slot that a packet under way names holds the key it was sealed with  *)
(* until an end reaches the message id that reuses the slot.                *)
THEOREM SlotsKeepKeys == Spec => []SlotKeepsKey
  <1>1. TypeOK /\ LockStep => SlotKeepsKey
    <2> SUFFICES ASSUME TypeOK, LockStep, NEW p \in net,
                        \A n \in Node : rot[n].message_id < p.key.id + 4
                 PROVE  SlotHolds(p.to, p)
      BY DEF SlotKeepsKey
    <2>1. PICK n \in Node, m \in Nat : m >= 1 /\ LeaderInv(n, Peer(n), m)
      BY LeaderExists
    <2> QED BY <2>1 DEF LeaderInv, PacketInv, SlotHolds
  <1> QED BY <1>1, TypeCorrect, LockStepInvariant, PTL

(* A node only ever changes the key it encrypts with for a newer one.       *)
THEOREM NeverRollsBack == Spec => NoKeyRollback
  <1>1. TypeOK /\ LockStep /\ Next => KeysMoveForward
    <2> SUFFICES ASSUME TypeOK, LockStep, Next, NEW y \in Node
                 PROVE  SendingKey(y)' = SendingKey(y) \/ SendingId(y)' > SendingId(y)
      BY DEF KeysMoveForward
    <2>1. CASE UNCHANGED <<keys, current_key>>
      BY <2>1 DEF SendingKey
    <2>2. ASSUME NEW n \in Node, NEW m \in Nat, NEW key \in Key, m >= 1,
                 LeaderInv(n, Peer(n), m), Answering(n, Peer(n), m),
                 keys' = [keys EXCEPT ![Peer(n)][(m + 1) % 4] = key],
                 UNCHANGED current_key
          PROVE  SendingKey(y)' = SendingKey(y)
      <3>1. y = Peer(n) => current_key[y] # (m + 1) % 4
        BY <2>2, KeyIdFacts DEF Answering, SendsWith
      <3> QED BY <2>2, <3>1 DEF TypeOK, SendingKey
    <2>3. ASSUME NEW n \in Node, NEW m \in Nat, m > 1,
                 LeaderInv(n, Peer(n), m), Waiting(n, Peer(n), m),
                 keys' = [keys EXCEPT ![Peer(n)][m % 4] = keys[n][m % 4]],
                 current_key' = [current_key EXCEPT ![Peer(n)] = m % 4]
          PROVE  SendingKey(y)' = SendingKey(y) \/ SendingId(y)' > SendingId(y)
      <3>1. m % 4 \in Slot /\ KeyId(m - 2) < m /\ Peer(n) \in Node
        BY <2>3, SlotOfId, PeerFacts DEF KeyId
      <3>2. keys[n][m % 4].id = m
        BY <2>3 DEF Waiting, CryptoKey
      <3>3. CASE y = Peer(n)
        <4>1. SendingId(y) = KeyId(m - 2)
          BY <2>3, <3>3 DEF Waiting, SendsWith, SendingKey, SendingId
        <4>2. SendingId(y)' = m
          BY <2>3, <3>1, <3>2, <3>3 DEF TypeOK, SendingKey, SendingId
        <4> QED BY <3>1, <4>1, <4>2
      <3>4. CASE y # Peer(n)
        BY <2>3, <3>4 DEF TypeOK, SendingKey
      <3> QED BY <3>3, <3>4
    <2> QED BY <2>1, <2>2, <2>3, KeyStep
  <1>2. TypeOK /\ LockStep /\ [Next]_vars => [KeysMoveForward]_vars
    BY <1>1
  <1> QED BY <1>2, TypeCorrect, LockStepInvariant, PTL DEF Spec, NoKeyRollback

(* The rotation protocol implements the discipline that KeySlots asks for.  *)
THEOREM RotationImplementsKeySlots == Spec => ImplementsKeySlots
  <1> USE DEF Slots!Node, Slots!Slot, Node, Slot, Slots!vars
  <1>1. Init => Slots!Init
    <2> SUFFICES ASSUME Init PROVE Slots!Init
      OBVIOUS
    <2>1. CryptoKey(MasterKey, 0) \in Key /\ \A n \in Node : dummy_key(n) \in Key
      BY DEF CryptoKey, dummy_key, Key, Secret
    <2> QED BY <2>1 DEF Init, Slots!Init
  <1>2. TypeOK /\ LockStep /\ [Next]_vars => [Slots!Next]_(Slots!vars)
    <2> SUFFICES ASSUME TypeOK, LockStep, [Next]_vars, ~UNCHANGED <<keys, current_key>>
                 PROVE  Slots!Next
      OBVIOUS
    <2>0. Next /\ \A y \in Node : Slots!Peer(y) = Peer(y)
      BY DEF vars, Slots!Peer, Peer
    <2>1. ASSUME NEW n \in Node, NEW m \in Nat, NEW key \in Key, m >= 1,
                 LeaderInv(n, Peer(n), m), Answering(n, Peer(n), m),
                 keys' = [keys EXCEPT ![Peer(n)][(m + 1) % 4] = key],
                 UNCHANGED current_key
          PROVE  Slots!Next
      <3> DEFINE f == Peer(n)
                 s == (m + 1) % 4
      <3>1. f \in Node /\ Peer(f) = n /\ s \in Slot
        BY PeerFacts, SlotOfId
      <3>2. s # current_key[f] /\ s # current_key[n]
        BY <2>1, KeyIdFacts DEF LeaderInv, Answering, SendsWith
      <3>3. keys'[f][s] = key
        BY <2>1, <3>1 DEF TypeOK
      <3>4. Slots!Install(f, s)
        BY <2>0, <2>1, <3>1, <3>2, <3>3 DEF Slots!Install
      <3> QED BY <3>1, <3>4 DEF Slots!Next
    <2>2. ASSUME NEW n \in Node, NEW m \in Nat, m > 1,
                 keys' = [keys EXCEPT ![Peer(n)][m % 4] = keys[n][m % 4]],
                 current_key' = [current_key EXCEPT ![Peer(n)] = m % 4]
          PROVE  Slots!Next
      <3>1. Peer(n) \in Node /\ Peer(Peer(n)) = n /\ m % 4 \in Slot
        BY PeerFacts, SlotOfId
      <3>2. Slots!Switch(Peer(n), m % 4)
        BY <2>0, <2>2, <3>1 DEF Slots!Switch
      <3> QED BY <3>1, <3>2 DEF Slots!Next
    <2> QED BY <2>0, <2>1, <2>2, KeyStep
  <1> QED BY <1>1, <1>2, TypeCorrect, LockStepInvariant, PTL
          DEF Spec, ImplementsKeySlots, Slots!Spec

=============================================================================
