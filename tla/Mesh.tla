-------------------------------- MODULE Mesh ---------------------------------
(***************************************************************************)
(* Several nodes that tell each other about their peers, src/cloud.rs: a   *)
(* node connects to the nodes it is told about, learns addresses of its    *)
(* own that others see, and forgets peers that are silent or say goodbye.  *)
(* Nodes come and go, with a new node id each time.  A node may have       *)
(* several addresses, and two nodes may be connected through more than one *)
(* of them.                                                                *)
(*                                                                         *)
(* A handshake is two steps, the answer to the ping and the end, with the  *)
(* node infos of the time at which either side began it; Handshake has the *)
(* details.  Time is abstracted: a peer may time out if it is silent, and  *)
(* Cloud shows that a node is not silent while sending works.              *)
(***************************************************************************)
EXTENDS Naturals, SequencesExt

CONSTANTS None, Node, Addr,
          mapped_addr, \* an IPv4 address in its IPv6 form, any other one itself
          Owner,       \* the node that is reached at an address
          Source,      \* the address under which that node sees another one, or None
          OwnAddrs,    \* what reset_own_addresses finds
          Configured,  \* the addresses in the configuration of a node
          MaxFaults    \* bound: nodes that stop, peers and handshakes that are lost

Mapped(q) == mapped_addr[q] = q

\* Messages come from mapped addresses.  Of its own addresses a node maps that of
\* its socket only; the advertised and the forwarded ones may be plain.
ASSUME MeshAssumption ==
    /\ IsFiniteSet(Addr) /\ mapped_addr \in [Addr -> Addr]
    /\ \A q \in Addr : Mapped(mapped_addr[q]) /\ Owner[mapped_addr[q]] = Owner[q]
    /\ Owner \in [Addr -> Node] /\ Source \in [Node -> [Addr -> Addr \cup {None}]]
    /\ \A n \in Node, q \in Addr :
        Source[n][q] # None => /\ Mapped(q) /\ Mapped(Source[n][q])
                               /\ Owner[Source[n][q]] = n /\ Source[Owner[q]][Source[n][q]] = q
    /\ OwnAddrs \in [Node -> SUBSET Addr] /\ Configured \in [Node -> SUBSET Addr]
    /\ \A n \in Node : /\ \E q \in OwnAddrs[n] : Mapped(q)
                       /\ \A q \in OwnAddrs[n] : Owner[q] = n
    /\ MaxFaults \in Nat

VARIABLES up,       \* which nodes run
          life,     \* how often each has been started; with its name this is its id
          book,     \* the peers, pending inits and own addresses of each node
          faults

vars == <<up, life, book, faults>>

Id(n) == <<n, life[n]>>
NoBook(n) == [peers |-> [q \in Addr |-> None], pending |-> [q \in Addr |-> None],
              own |-> OwnAddrs[n]]

Init ==
    /\ up = [n \in Node |-> TRUE] /\ life = [n \in Node |-> 0]
    /\ book = [n \in Node |-> NoBook(n)]
    /\ faults = 0

-----------------------------------------------------------------------------
(* What the handlers do to the book s of a node n.                          *)

create_node_info(s, n) ==
    [node_id |-> Id(n), addrs |-> s.own,
     peers |-> {s.peers[q] : q \in {r \in Addr : s.peers[r] # None}}]

\* The address q is mapped, those in s.own need not be.
Known(s, q) == q \in s.own \/ s.peers[q] # None \/ s.pending[q] # None

AllMapped(addrs) == {mapped_addr[q] : q \in addrs}

\* connect_sock for each address that is not known yet.
connect_sock(s, n, addrs) ==
    LET new == {q \in AllMapped(addrs) : ~Known(s, q)}
        init == [stage |-> "pong", answered |-> FALSE, info |-> create_node_info(s, n)]
    IN  [s EXCEPT !.pending = [q \in Addr |-> IF q \in new THEN init ELSE @[q]]]

\* Mutant: known addresses are left out one by one.
connectOneByOne(s, n, addrs) == connect_sock(s, n, addrs)

\* connect: nothing is sent if any of the addresses is known.
connect(s, n, addrs) ==
    IF \E q \in AllMapped(addrs) : Known(s, q) THEN s ELSE connect_sock(s, n, addrs)

\* Mutant: a node that is told of an unknown node waits for that node to connect.
connect_to_peerNever(s, n, peer) == s

\* One round of the loop in connect_to_peers; here nothing is mapped.
connect_to_peer(s, n, peer) ==
    IF \E q \in peer.addrs : s.peers[q] # None THEN s
    ELSE IF peer.node_id = Id(n) THEN [s EXCEPT !.own = @ \cup peer.addrs]
    ELSE IF \E q \in Addr : s.peers[q] # None /\ s.peers[q].node_id = peer.node_id THEN s
    ELSE connect(s, n, peer.addrs)

\* connect_to_peers, for one list, on each of a set of books: those after k rounds
\* of the loop.
connect_to_peers(books, n, list) ==
    LET after[k \in 0 .. Len(list)] ==
            IF k = 0 THEN books ELSE {connect_to_peer(s, n, list[k]) : s \in after[k - 1]}
    IN  after[Len(list)]

\* The books after update_peer_info; the list of peers is in the order of a
\* hash map.
update_peer_info(s, n, q, info) ==
    UNION {connect_to_peers({[s EXCEPT !.peers[q].addrs = {q} \cup info.addrs]}, n, list) :
              list \in SetToSeqs(info.peers)}

add_new_peer(s, n, q, info) ==
    update_peer_info([s EXCEPT !.pending[q] = None,
                               !.peers[q] = [node_id |-> info.node_id, addrs |-> info.addrs]],
                     n, q, info)

\* The node forgets the peer and tries to connect to it again.
Reconnect(s, n, q) == connect_sock([s EXCEPT !.peers[q] = None], n, {q})

-----------------------------------------------------------------------------
(* Handshakes.  The node n has a pending init for the address q.            *)

Set(n, s) == book' = [book EXCEPT ![n] = s]
Same == UNCHANGED <<up, life, faults>>

Reaches(n, q) == up[n] /\ Source[n][q] # None /\ up[Owner[q]]

\* The init for n at the other side.
Opposite(n, q) == book[Owner[q]].pending[Source[n][q]]

Waits(init, stage) == init # None /\ init.stage = stage
Answered(init) == Waits(init, "pong") /\ init.answered

\* reconnect_to_peers, or the start of the node.
Connect(n, q) ==
    /\ up[n] /\ q \in Configured[n] /\ ~Known(book[n], mapped_addr[q])
    /\ Set(n, connect(book[n], n, {q}))
    /\ Same

\* The ping arrives and is answered, also if it crosses one of the other node.
Answer(n, q) ==
    /\ Reaches(n, q) /\ Waits(book[n].pending[q], "pong") /\ ~book[n].pending[q].answered
    /\ LET m == Owner[q]
           p == Source[n][q]
           info == IF Opposite(n, q) = None THEN create_node_info(book[m], m)
                   ELSE Opposite(n, q).info
       IN  /\ ~Waits(Opposite(n, q), "peng") /\ ~Answered(Opposite(n, q))
           /\ book' = [book EXCEPT ![n].pending[q].answered = TRUE,
                                   ![m].pending[p] = [stage |-> "peng", answered |-> FALSE,
                                                      info |-> info]]
    /\ Same

\* The other side still waits for the end of an earlier handshake.
Refused(n, q) ==
    /\ Reaches(n, q) /\ Waits(book[n].pending[q], "pong") /\ ~book[n].pending[q].answered
    /\ Waits(Opposite(n, q), "peng")
    /\ Set(n, [book[n] EXCEPT !.pending[q] = None])
    /\ Same

Matched(n, q) ==
    /\ Waits(book[n].pending[q], "pong") /\ book[n].pending[q].answered
    /\ Waits(Opposite(n, q), "peng")

\* Pong and peng arrive: each side adds the other with the info it was sent.
Establish(n, q) ==
    /\ Reaches(n, q) /\ Matched(n, q)
    /\ LET m == Owner[q]
           p == Source[n][q]
       IN  \E s \in add_new_peer(book[n], n, q, Opposite(n, q).info),
              t \in add_new_peer(book[m], m, p, book[n].pending[q].info) :
                book' = [book EXCEPT ![n] = s, ![m] = t]
    /\ Same

Hopeless(n, q) ==
    \/ ~Reaches(n, q)
    \/ book[n].pending[q].stage = "pong" /\ book[n].pending[q].answered /\ ~Matched(n, q)
    \/ book[n].pending[q].stage = "peng" /\ ~Matched(Owner[q], Source[n][q])

\* A fault, unless there is a cause.
Fault(cause) == faults' = (IF cause THEN faults ELSE faults + 1) /\ faults' <= MaxFaults

\* crypto_housekeep: too many retries.  A peer with that address goes as well.
GiveUp(n, q) ==
    /\ up[n] /\ book[n].pending[q] # None
    /\ LET s == [book[n] EXCEPT !.pending[q] = None]
       IN  Set(n, IF s.peers[q] = None THEN s ELSE Reconnect(s, n, q))
    /\ Fault(Hopeless(n, q))
    /\ UNCHANGED <<up, life>>

-----------------------------------------------------------------------------
(* Peers.                                                                   *)

\* The peer of n at q is the node that runs there and has n as its peer.
Linked(n, q) ==
    /\ Reaches(n, q)
    /\ LET there == book[Owner[q]].peers[Source[n][q]]
       IN  /\ book[n].peers[q].node_id = Id(Owner[q])
           /\ there # None /\ there.node_id = Id(n)

\* A pending init takes the messages from its address.
Hears(n, q) == book[n].peers[q] # None /\ Linked(n, q) /\ book[n].pending[q] = None

\* The other node broadcasts its node info, and n is among those it reaches.
NodeInfo(n, q) ==
    /\ Hears(n, q)
    /\ \E s \in update_peer_info(book[n], n, q, create_node_info(book[Owner[q]], Owner[q])) :
            Set(n, s)
    /\ Same

\* Mutant: a peer that times out stays in the list while the node connects.
TimeoutKeeping(n, q) ==
    /\ up[n] /\ book[n].peers[q] # None
    /\ Set(n, connect_sock(book[n], n, {q}))
    /\ Fault(~Hears(n, q))
    /\ UNCHANGED <<up, life>>

\* housekeep: the peer was silent for too long.
Timeout(n, q) ==
    /\ up[n] /\ book[n].peers[q] # None
    /\ Set(n, Reconnect(book[n], n, q))
    /\ Fault(~Hears(n, q))
    /\ UNCHANGED <<up, life>>

\* reset_own_addresses, every few minutes.
ResetOwn(n) ==
    /\ up[n] /\ book[n].own # OwnAddrs[n]
    /\ Set(n, [book[n] EXCEPT !.own = OwnAddrs[n]])
    /\ Same

-----------------------------------------------------------------------------
(* Nodes.                                                                   *)

\* A node stops.  It says goodbye to its peers, or to some, if messages are
\* lost, or to none, if it crashes; remove_peer.
Stop(m) ==
    /\ up[m] /\ Fault(FALSE)
    /\ \E told \in SUBSET {q \in Addr : Owner[q] = m} :
        book' = [n \in Node |->
            IF n = m THEN NoBook(m)
            ELSE [book[n] EXCEPT !.peers = [q \in Addr |->
                IF q \in told /\ Hears(n, q) THEN None ELSE @[q]]]]
    /\ up' = [up EXCEPT ![m] = FALSE]
    /\ UNCHANGED life

Start(n) ==
    /\ ~up[n]
    /\ up' = [up EXCEPT ![n] = TRUE] /\ life' = [life EXCEPT ![n] = @ + 1]
    /\ UNCHANGED <<book, faults>>

Step(n, q) ==
    \/ Connect(n, q) \/ Answer(n, q) \/ Refused(n, q) \/ Establish(n, q) \/ GiveUp(n, q)
    \/ NodeInfo(n, q) \/ Timeout(n, q)

Next ==
    \/ \E n \in Node, q \in Addr : Step(n, q)
    \/ \E n \in Node : ResetOwn(n) \/ Stop(n) \/ Start(n)

Spec == Init /\ [][Next]_vars

\* What is due between a node and an address happens: handshakes that can succeed
\* do, configured peers are tried again and again, node infos arrive, and
\* housekeep notices what is silent or hopeless.
FairSpec ==
    /\ Spec
    /\ \A n \in Node : \A q \in Configured[n] : WF_vars(Connect(n, q))
    /\ \A n \in Node : \A q \in {r \in Addr : Mapped(r) /\ Owner[r] # n} :
        /\ WF_vars(Answer(n, q) \/ Refused(n, q) \/ Establish(n, q))
        /\ WF_vars(NodeInfo(n, q))
        /\ WF_vars(GiveUp(n, q) /\ faults' = faults) /\ WF_vars(Timeout(n, q) /\ faults' = faults)

-----------------------------------------------------------------------------
Connected(n, m) == \E q \in Addr : Owner[q] = m /\ book[n].peers[q] # None /\ Linked(n, q)

\* Peer lists never make a node connect to itself, not under an address that
\* only others see, and not under the id it had before a restart, which others
\* still pass on.  Known addresses of its own come back with every reset, and
\* connect looks at all addresses of a node together.  Nor does a node take the
\* address of another one for its own, to which it would never connect.  Own
\* addresses in plain form are never found among them, but that of the socket is.
NeverToSelf ==
    \A n \in Node, q \in Addr :
        /\ Owner[q] = n => book[n].pending[q] = None /\ book[n].peers[q] = None
        /\ q \in book[n].own => Owner[q] = n

\* Every node gets connected to every other one, although it is told only about
\* one of them: the peer lists spread the others, after restarts and losses too.
FullMesh ==
    <>[](\A n \in Node : up[n]) =>
        []<>(\A n, m \in Node : n # m => Connected(n, m))

\* A node that has stopped is forgotten by all others, however often they pass
\* on its addresses to each other meanwhile, and under whichever addresses it
\* was a peer.
GoneForgotten ==
    \A m \in Node : <>[](~up[m]) =>
        <>[](\A n \in Node, q \in Addr : Owner[q] = m => book[n].peers[q] = None)
=============================================================================
