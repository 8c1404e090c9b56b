------------------------------ MODULE Handshake ------------------------------
(***************************************************************************)
(* Two nodes that set up a connection: PeerCrypto of src/crypto/common.rs  *)
(* around the handshake of InitState, and the part of src/cloud.rs that    *)
(* hands datagrams to pending inits and peers, repeats handshake messages  *)
(* every second and drops connections.  The network may lose, duplicate,   *)
(* delay and reorder datagrams, nodes restart, and both may connect.       *)
(*                                                                         *)
(* Of the messages of an established connection only CLOSE is modelled     *)
(* here.  Node information and keepalives appear by their effect: as long  *)
(* as they get through, the peer does not time out.                        *)
(***************************************************************************)
EXTENDS InitState

CONSTANTS A, B,           \* the two nodes, each with one address
          MaxFaults       \* datagrams lost or duplicated, restarts, outages

ASSUME HandshakeAssumption == A # B /\ MaxFaults \in Nat

Node == {A, B}
Other(n) == IF n = A THEN B ELSE A

VARIABLES pending,    \* pending_inits: the InitState for the other node, or None
          peers,      \* the peer entry for the other node, or None
          net,        \* datagrams in flight
          installed,  \* hashes of InitStates whose core went into use (history)
          faults

vars == <<pending, peers, net, installed, faults>>

CloseMsg == [close : Sealed]
Packet(to, msg) == [to |-> to, msg |-> msg]
is_init_message(msg) == "stage" \in DOMAIN msg

\* What send_to puts on the wire; an empty reply is a datagram nobody reads.
Sent(n, out) == IF out = None THEN {} ELSE {Packet(Other(n), out)}

Init ==
    /\ pending = [n \in Node |-> None]
    /\ peers = [n \in Node |-> None]
    /\ net = {}
    /\ installed = {}
    /\ faults = 0

-----------------------------------------------------------------------------
(* Names.  A hash that no state and no datagram mentions can be drawn again *)
(* for a new InitState: nothing can tell it from one never drawn.           *)

HashesOfKey(key) == {pair[1] : pair \in key}
HashesOfCore(c) == IF c = None THEN {} ELSE {c.mine} \cup HashesOfKey(c.key)
HashesOfMsg(m) ==
    CASE m = None -> {}
      [] is_init_message(m) -> {m.hash} \cup
            (IF m.payload = None THEN {} ELSE HashesOfKey(m.payload.key))
      [] OTHER -> HashesOfKey(m.close.key)
HashesOfInit(i) ==
    IF i = None THEN {} ELSE {i.hash} \cup HashesOfCore(i.crypto) \cup HashesOfMsg(i.last_message)
HashesOfPeer(p) ==
    IF p = None THEN {} ELSE HashesOfInit(p.init) \cup HashesOfCore(p.core)

Mentioned(n) == HashesOfInit(pending[n]) \cup HashesOfPeer(peers[n])
InFlight == UNION {HashesOfMsg(p.msg) : p \in net}

Fresh == Hash \ (Mentioned(A) \cup Mentioned(B) \cup InFlight)

\* The same after n has dropped its pending init and its peer.
FreshAfterDrop(n) == Hash \ (Mentioned(Other(n)) \cup InFlight)

-----------------------------------------------------------------------------
(* connect_sock: a new handshake, unless one or a connection exists.        *)

\* n starts a handshake with a new InitState.
StartInit(n, hash) ==
    /\ installed' = installed \ {hash}
    /\ pending' = [pending EXCEPT ![n] = send_ping(new(hash))]

Ping(n, hash) == Sent(n, send_ping(new(hash)).last_message)

\* A configured or advertised peer, or an entry of the reconnect list.
Connect(n) ==
    /\ pending[n] = None /\ peers[n] = None
    /\ \E hash \in Fresh : StartInit(n, hash) /\ net' = net \cup Ping(n, hash)
    /\ UNCHANGED <<peers, faults>>

-----------------------------------------------------------------------------
(* handle_net_message.                                                      *)

\* The datagram is taken off the network, or is delivered again later.
Delivered(packet, out) ==
    \/ net' = (net \ {packet}) \cup out /\ UNCHANGED faults
    \/ faults < MaxFaults /\ faults' = faults + 1 /\ net' = net \cup out

\* The peer entry when the handshake succeeds: the core moves from the
\* InitState to the entry, an InitState that is CLOSING is dropped, and the
\* responder of the handshake starts the key rotation.
NewPeer(outcome) ==
    [init |-> IF outcome.init.next_stage = CLOSING THEN None
              ELSE [outcome.init EXCEPT !.crypto = None],
     core |-> outcome.init.crypto,
     rotation_initiator |-> outcome.result = "responder"]

Install(n, outcome) ==
    /\ peers' = [peers EXCEPT ![n] = NewPeer(outcome)]
    /\ installed' = installed \cup {outcome.init.hash}

\* Mutant: a fatal error leaves the pending init in place.
FailPendingKept(n, outcome) ==
    pending' = [pending EXCEPT ![n] = outcome.init]

\* handle_socket_event on CryptoInitFatal.
FailPending(n, outcome) ==
    pending' = [pending EXCEPT ![n] = None]

\* A pending init gets every datagram, and can use only handshake messages.
ReceivePending(n, packet) ==
    LET outcome == handle_init(pending[n], packet.msg) IN
    /\ pending[n] # None
    /\ IF ~is_init_message(packet.msg)
       THEN Delivered(packet, {}) /\ UNCHANGED <<pending, peers, installed>>
       ELSE /\ Delivered(packet, Sent(n, outcome.out))
            /\ CASE outcome.result = "continue" ->
                        /\ pending' = [pending EXCEPT ![n] = outcome.init]
                        /\ UNCHANGED <<peers, installed>>
                 [] outcome.result \in {"initiator", "responder"} ->
                        /\ pending' = [pending EXCEPT ![n] = None]
                        /\ Install(n, outcome)
                 [] outcome.result = "fatal" ->
                        FailPending(n, outcome) /\ UNCHANGED <<peers, installed>>

\* The peer entry keeps an InitState, to answer a late handshake message.
has_init(n) == peers[n] # None /\ peers[n].init # None

\* A peer that still keeps its InitState repeats the last message.
ReceivePeerInit(n, packet) ==
    LET outcome == handle_init(peers[n].init, packet.msg) IN
    /\ pending[n] = None /\ has_init(n)
    /\ is_init_message(packet.msg)
    /\ Delivered(packet, Sent(n, outcome.out))
    /\ IF outcome.result = "continue"
       THEN peers' = [peers EXCEPT ![n].init = outcome.init] /\ UNCHANGED installed
       ELSE Install(n, outcome)
    /\ UNCHANGED pending

\* A handshake message out of the blue gets a new InitState, which becomes a
\* pending init unless the message is not a ping.
ReceiveNew(n, packet) ==
    /\ pending[n] = None /\ ~has_init(n)
    /\ is_init_message(packet.msg)
    /\ \E hash \in Fresh :
        LET outcome == handle_init(new(hash), packet.msg) IN
        /\ Delivered(packet, Sent(n, outcome.out))
        /\ IF outcome.result = "continue"
           THEN /\ pending' = [pending EXCEPT ![n] = outcome.init]
                /\ installed' = installed \ {hash}
           ELSE UNCHANGED <<pending, installed>>
    /\ UNCHANGED peers

\* Bound: a ping for which no hash is left is lost.
DropAtBound(n, packet) ==
    /\ pending[n] = None /\ ~has_init(n) /\ is_init_message(packet.msg)
    /\ Fresh = {}
    /\ net' = net \ {packet}
    /\ UNCHANGED <<pending, peers, installed, faults>>

\* A CLOSE that decrypts removes the peer; any other is ignored.
ReceiveClose(n, packet) ==
    /\ pending[n] = None
    /\ ~is_init_message(packet.msg)
    /\ Delivered(packet, {})
    /\ IF peers[n] # None /\ Opens(peers[n].core, packet.msg.close)
       THEN peers' = [peers EXCEPT ![n] = None]
       ELSE UNCHANGED peers
    /\ UNCHANGED <<pending, installed>>

ReceivePacket(n, packet) ==
    /\ packet.to = n
    /\ \/ ReceivePending(n, packet)
       \/ ReceivePeerInit(n, packet)
       \/ ReceiveNew(n, packet)
       \/ DropAtBound(n, packet)
       \/ ReceiveClose(n, packet)

Receive(n) == \E packet \in net : ReceivePacket(n, packet)

-----------------------------------------------------------------------------
(* crypto_housekeep, and the timeout of peers in housekeep.                 *)

\* PeerCrypto::every_second on the init a peer entry keeps: CLOSING drops it.
AgedPeer(peer) ==
    IF peer = None \/ peer.init = None THEN peer
    ELSE LET init == every_second(peer.init).init
         IN  [peer EXCEPT !.init = IF init.next_stage = CLOSING THEN None ELSE init]

\* connect_sock for a peer that was just dropped.  Bound: without a hash left
\* the node does not connect.
Reconnect(n) ==
    \/ \E hash \in FreshAfterDrop(n) : StartInit(n, hash) /\ net' = net \cup Ping(n, hash)
    \/ /\ FreshAfterDrop(n) = {}
       /\ pending' = [pending EXCEPT ![n] = None]
       /\ UNCHANGED <<net, installed>>

GivesUp(n) == pending[n] # None /\ every_second(pending[n]).result = "fatal"

\* Pending inits repeat their last message.
Tick(n) ==
    /\ ~GivesUp(n)
    /\ peers' = [peers EXCEPT ![n] = AgedPeer(@)]
    /\ IF pending[n] = None
       THEN UNCHANGED <<pending, net>>
       ELSE LET outcome == every_second(pending[n])
            IN  /\ pending' = [pending EXCEPT ![n] = outcome.init]
                /\ net' = net \cup Sent(n, outcome.out)
    /\ UNCHANGED <<installed, faults>>

\* A pending init that has repeated its message too often is dropped; so is a
\* peer with the same address, and the node connects to it again.
TickGiveUp(n) ==
    /\ GivesUp(n)
    /\ IF peers[n] = None
       THEN pending' = [pending EXCEPT ![n] = None] /\ UNCHANGED <<peers, net, installed>>
       ELSE Reconnect(n) /\ peers' = [peers EXCEPT ![n] = None]
    /\ UNCHANGED faults

\* The two entries belong to one connection.
SameSession(p, q) == p # None /\ q # None /\ p.core.key = q.core.key

\* Messages of the other node reach the peer entry of n and renew its timeout.
Renewed(n) == pending[n] = None /\ SameSession(peers[n], peers[Other(n)])

PeerTimeout(n) ==
    /\ peers[n] # None
    /\ IF Renewed(n) THEN faults < MaxFaults /\ faults' = faults + 1 ELSE UNCHANGED faults
    /\ peers' = [peers EXCEPT ![n] = None]
    /\ IF pending[n] # None
       THEN UNCHANGED <<pending, net, installed>>
       ELSE Reconnect(n)

-----------------------------------------------------------------------------
(* Faults.                                                                  *)

Lose ==
    /\ faults < MaxFaults /\ faults' = faults + 1
    /\ \E packet \in net : net' = net \ {packet}
    /\ UNCHANGED <<pending, peers, installed>>

\* The node stops, with or without the CLOSE that a clean shutdown sends, and
\* starts again.
Restart(n) ==
    /\ ~(pending[n] = None /\ peers[n] = None)
    /\ faults < MaxFaults /\ faults' = faults + 1
    /\ \/ UNCHANGED net
       \/ /\ peers[n] # None
          /\ net' = net \cup {Packet(Other(n), [close |-> Seal(peers[n].core)])}
    /\ pending' = [pending EXCEPT ![n] = None]
    /\ peers' = [peers EXCEPT ![n] = None]
    /\ UNCHANGED installed

Next ==
    \/ \E n \in Node : \/ Connect(n) \/ Receive(n) \/ Tick(n) \/ TickGiveUp(n)
                       \/ PeerTimeout(n) \/ Restart(n)
    \/ Lose

Spec == Init /\ [][Next]_vars

-----------------------------------------------------------------------------
PeerEntry ==
    [init : InitStates \cup {None}, core : Core, rotation_initiator : BOOLEAN]

(* Types.  In particular an entry never lacks a core, and no message is     *)
(* made from a key that is missing.                                         *)
TypeOK ==
    /\ \A n \in Node : pending[n] = None \/ pending[n] \in InitStates
    /\ \A n \in Node : peers[n] = None \/ peers[n] \in PeerEntry
    /\ \A p \in net : p.to \in Node /\ (p.msg \in InitMsg \/ p.msg \in CloseMsg)
    /\ installed \subseteq Hash
    /\ faults \in 0 .. MaxFaults

(* An answer opens: the payload of a pong made from the pending ping, or of *)
(* a peng for the key the responder made, decrypts, so the two ends derive  *)
(* the same key and opposite halves of the nonces however pings cross.      *)
(* Only leftovers of another handshake fail to decrypt.                     *)
AnswersOpen ==
    \A p \in net :
        LET init == pending[p.to]
            msg == p.msg
        IN  init # None /\ is_init_message(msg) =>
            /\ msg.stage = STAGE_PONG /\ init.next_stage = STAGE_PONG
               /\ init.ecdh_private_key \in msg.payload.key =>
                    Opens(agree(init, init.ecdh_private_key, msg), msg.payload)
            /\ msg.stage = STAGE_PENG /\ init.next_stage = STAGE_PENG
               /\ init.crypto.key = msg.payload.key =>
                    Opens(init.crypto, msg.payload)

(* Of the two ends of a connection exactly one starts the key rotation,     *)
(* which is how KeyRotation begins.                                         *)
OneRotationInitiator ==
    SameSession(peers[A], peers[B]) =>
        peers[A].rotation_initiator # peers[B].rotation_initiator

(* ecdh_private_key.take().unwrap() finds a key: an init that accepts a     *)
(* pong holds the private key of its ping.  The state is well typed.        *)
PongFindsKey ==
    /\ TypeOK
    /\ \A n \in Node : pending[n] # None /\ pending[n].next_stage = STAGE_PONG =>
                            pending[n].ecdh_private_key # None

(* An InitState puts a core into use at most once: a duplicated pong or     *)
(* peng never installs a key a second time, with its nonces started anew.   *)
InstallsOnce(n) ==
    peers'[n] # None /\ (peers[n] = None \/ peers'[n].core # peers[n].core) =>
        peers'[n].core.mine \notin installed
KeyInstalledOnce == [][\A n \in Node : InstallsOnce(n)]_vars
=============================================================================
