----------------------------- MODULE SelfConnect -----------------------------
(***************************************************************************)
(* One node that is given an address of its own as a peer, for example     *)
(* from a beacon or from the peer list of another node, and does not know  *)
(* it as its own.  Its datagrams come back to it through a router.         *)
(***************************************************************************)
EXTENDS InitState

CONSTANTS Addr,           \* addresses under which the router delivers to the node
          TranslatedFrom  \* the source address that a datagram to an address gets

VARIABLES pending, peers, net

vars == <<pending, peers, net>>

Packet(to, msg) == [to |-> to, msg |-> msg]
Sent(addr, out) == IF out = None THEN {} ELSE {Packet(addr, out)}

Init ==
    /\ pending = [a \in Addr |-> None]
    /\ peers = {}
    /\ net = {}

\* A hash is drawn once.
Drawn == {pending[a].hash : a \in {b \in Addr : pending[b] # None}}
Fresh == Hash \ (Drawn \cup {p.msg.hash : p \in net})

connect_sock(addr) ==
    /\ addr \notin peers /\ pending[addr] = None
    /\ \E hash \in Fresh :
        LET init == send_ping(new(hash)) IN
        /\ pending' = [pending EXCEPT ![addr] = init]
        /\ net' = net \cup Sent(addr, init.last_message)
    /\ UNCHANGED peers

\* handle_net_message for the InitState of src, and what is done with its
\* result: an error drops the pending init, success makes src a peer.
HandleInit(src, init, packet) ==
    LET outcome == handle_init(init, packet.msg) IN
    /\ pending' = [pending EXCEPT
            ![src] = IF outcome.result = "continue" THEN outcome.init ELSE None]
    /\ peers' = IF outcome.result \in {"initiator", "responder"} THEN peers \cup {src} ELSE peers
    /\ net' = (net \ {packet}) \cup Sent(src, outcome.out)

\* Every datagram comes back to the node, from the translated address.
\* Bound: what a peer's own InitState does with later messages is left out.
handle_net_message(packet) ==
    LET src == TranslatedFrom[packet.to] IN
    \/ pending[src] # None /\ HandleInit(src, pending[src], packet)
    \/ /\ pending[src] = None /\ src \notin peers
       /\ \E hash \in Fresh : HandleInit(src, new(hash), packet)

Next ==
    \/ \E addr \in Addr : connect_sock(addr)
    \/ \E packet \in net : handle_net_message(packet)

Spec == Init /\ [][Next]_vars

-----------------------------------------------------------------------------
(* "If a node receives a message with its own node id, it just ignores it   *)
(* and closes the connection.  This is the way nodes avoid to connect to    *)
(* themselves": the header of src/crypto/init.rs.                           *)

\* A node never becomes a peer of itself, whatever address it is told to
\* connect to.
NeverOwnPeer == peers = {}
=============================================================================
