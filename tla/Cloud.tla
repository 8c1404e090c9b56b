-------------------------------- MODULE Cloud --------------------------------
(***************************************************************************)
(* The books of one node, src/cloud.rs: its peers and when they time out,  *)
(* the handshakes that are pending, what the claim table holds about each  *)
(* address, and housekeep, which walks over all of them and returns at the *)
(* first error.  Sending to an address may fail for a while (no route, a   *)
(* full buffer, a truncated packet).                                       *)
(*                                                                         *)
(* Points in time are kept as the seconds left until then.  A handshake is *)
(* abstracted to the stage it waits for and its retries; the details are   *)
(* in Handshake.  The table holds one claim per address; ClaimTable has    *)
(* the details.                                                            *)
(***************************************************************************)
EXTENDS Integers, FiniteSets

CONSTANTS None,
          Addr,                 \* addresses of other nodes
          PEER_TIMEOUT,         \* config.peer_timeout, 300 by default
          INTERVAL,             \* seconds between node infos, 90 by default
          MAX_FAILED_RETRIES,   \* 120 in the code
          Outages               \* which sets of addresses may be out of reach

ASSUME CloudAssumption ==
    /\ IsFiniteSet(Addr) /\ None \notin Int
    /\ PEER_TIMEOUT \in Nat /\ INTERVAL \in Nat \ {0}
    /\ MAX_FAILED_RETRIES \in Nat /\ Outages \subseteq SUBSET Addr

VARIABLES peers,       \* None, or the seconds until timeout and since the last node info
          claims,      \* None, or the seconds until the claim times out
          pending,     \* pending_inits: None, or the stage waited for and the retries
          next_peers,  \* seconds until the next node info is due
          since,       \* seconds since the last housekeep
          flaky,       \* addresses to which sending may fail, ever
          failing      \* addresses to which sending fails at the moment

vars == <<peers, claims, pending, next_peers, since, flaky, failing>>

HOUSEKEEP == 2       \* next_housekeep = now + 1, and it runs when that is in the past

NewPeer == [timeout |-> PEER_TIMEOUT, quiet |-> 0]
NewInit == [stage |-> "pong", failed_retries |-> 0]
Closed(init) == init # None /\ init.stage = "closed"

IsPeer(s, a) == s.peers[a] # None
IsPending(s, a) == s.pending[a] # None
Known(s, a) == IsPeer(s, a) \/ IsPending(s, a)

\* The books, and whether the handler goes on (TRUE) or has returned an error.
Books == [peers |-> peers, claims |-> claims, pending |-> pending,
          next_peers |-> next_peers, ok |-> TRUE]

Keep(s) ==
    /\ peers' = s.peers /\ claims' = s.claims /\ pending' = s.pending
    /\ next_peers' = s.next_peers

Init ==
    /\ peers = [a \in Addr |-> None]
    /\ claims = [a \in Addr |-> None]
    /\ pending = [a \in Addr |-> None]
    /\ next_peers = 0
    /\ since = 0
    /\ flaky \in Outages
    /\ failing = {}

-----------------------------------------------------------------------------
(* What the handlers are made of.                                           *)

\* What a loop over a set in the order of a hash map has processed when it
\* ends: everything, or up to and with the first element that fails.
Processed(set, bad) ==
    IF set \cap bad = {} THEN {set}
    ELSE {good \cup {b} : good \in SUBSET (set \ bad), b \in set \cap bad}

\* connect_sock for each of the addresses.
Connected(s, addrs) ==
    [s EXCEPT !.pending = [a \in Addr |->
        IF a \in addrs /\ ~Known(s, a) THEN NewInit ELSE @[a]]]

\* Peers and claims without those of some addresses.
Without(s, addrs) ==
    [s EXCEPT !.peers = [a \in Addr |-> IF a \in addrs THEN None ELSE @[a]],
              !.claims = [a \in Addr |-> IF a \in addrs THEN None ELSE @[a]]]

\* ClaimTable::housekeep.
TableHousekeep(s) ==
    [s EXCEPT !.claims = [a \in Addr |-> IF @[a] # None /\ @[a] < 0 THEN None ELSE @[a]]]

\* update_peer_info: the claims of a node info replace those of the peer, and
\* the node connects to the nodes it did not know.
update_peer_info(s, a, claiming, others) ==
    Connected(TableHousekeep(
        [s EXCEPT !.peers[a].timeout = PEER_TIMEOUT,
                  !.claims[a] = IF claiming THEN PEER_TIMEOUT ELSE None]), others)

-----------------------------------------------------------------------------
(* handle_net_message.                                                      *)

Same == UNCHANGED <<since, flaky, failing>>

\* A ping from an address without pending init.  A peer entry may still have
\* the InitState of its own handshake, which then answers and nothing changes.
InitPing(a) ==
    /\ ~IsPending(Books, a)
    /\ pending' = [pending EXCEPT ![a] = [stage |-> "peng", failed_retries |-> 0]]
    /\ Same /\ UNCHANGED <<peers, claims, next_peers>>

\* A ping that crosses the own one and wins.
InitYield(a) ==
    /\ IsPending(Books, a) /\ pending[a].stage = "pong"
    /\ pending' = [pending EXCEPT ![a] = [stage |-> "peng", failed_retries |-> 0]]
    /\ Same /\ UNCHANGED <<peers, claims, next_peers>>

\* The pong or peng that ends the handshake: add_new_peer.
InitSuccess(a, claiming, others) ==
    /\ IsPending(Books, a) /\ ~Closed(pending[a])
    /\ LET s == [Books EXCEPT !.pending[a] = None, !.peers[a] = NewPeer]
       IN  Keep(update_peer_info(s, a, claiming, others))
    /\ Same

\* CryptoInitFatal: handle_socket_event drops the pending init.
InitFatal(a) ==
    /\ IsPending(Books, a) /\ ~Closed(pending[a])
    /\ pending' = [pending EXCEPT ![a] = None]
    /\ Same /\ UNCHANGED <<peers, claims, next_peers>>

\* A pending init takes the messages of its address, so a peer gets them only
\* without one.
HasEar(a) == IsPeer(Books, a) /\ ~IsPending(Books, a)

NodeInfo(a, claiming, others) ==
    /\ HasEar(a)
    /\ Keep(update_peer_info(Books, a, claiming, others))
    /\ Same

Keepalive(a) ==
    /\ HasEar(a)
    /\ peers' = [peers EXCEPT ![a].timeout = PEER_TIMEOUT]
    /\ Same /\ UNCHANGED <<claims, pending, next_peers>>

\* remove_peer.
Close(a) ==
    /\ HasEar(a)
    /\ Keep(TableHousekeep(Without(Books, {a})))
    /\ Same

-----------------------------------------------------------------------------
(* housekeep.  Each part maps the books to the possible books after it.     *)

TimedOut(s) == {a \in Addr : IsPeer(s, a) /\ s.peers[a].timeout < 0}

\* Mutant: the node connects again before it removes the peer.
DropTimedOutLate(s) ==
    {IF done \cap failing = {} THEN Connected(Without(s, done), done)
     ELSE [s EXCEPT !.ok = FALSE] : done \in Processed(TimedOut(s), failing)}

\* Peers that are silent for too long are removed, and connected to again.
DropTimedOut(s) ==
    LET bad == {a \in failing : ~IsPending(s, a)}
        After(done) == Connected(TableHousekeep(Without(s, done)), done)
    IN  {[After(done) EXCEPT !.ok = done \cap bad = {}] : done \in Processed(TimedOut(s), bad)}

\* InitState::every_second.
Aged(init) ==
    CASE Closed(init) -> init
      [] ~Closed(init) /\ init.failed_retries < MAX_FAILED_RETRIES ->
            [init EXCEPT !.failed_retries = @ + 1]
      [] OTHER -> [init EXCEPT !.stage = "closed"]

\* Pending inits repeat their message.  Those that give up are noted, and lost
\* again when sending the message of another one fails.
AgePending(s) ==
    LET keys == {a \in Addr : IsPending(s, a)}
        bad == {a \in keys \cap failing :
                    ~Closed(s.pending[a]) /\ s.pending[a].failed_retries < MAX_FAILED_RETRIES}
    IN  {[s EXCEPT !.ok = keys \cap bad = {},
                   !.pending = [a \in Addr |-> IF a \in done THEN Aged(@[a]) ELSE @[a]]] :
            done \in Processed(keys, bad)}

\* Peers may have a handshake message or a rotation message to send.
AgePeers(s) ==
    {s} \cup (IF \E a \in failing : IsPeer(s, a) THEN {[s EXCEPT !.ok = FALSE]} ELSE {})

\* Handshakes that gave up are removed, and so is a peer with that address,
\* without its claims; the node connects to the peer again.
DropGivenUp(s, gave_up) ==
    LET bad == {a \in failing : IsPeer(s, a)}
        After(done) ==
            Connected([s EXCEPT !.pending = [a \in Addr |-> IF a \in done THEN None ELSE @[a]],
                                !.peers = [a \in Addr |-> IF a \in done THEN None ELSE @[a]]],
                      {a \in done : IsPeer(s, a)})
    IN  {[After(done) EXCEPT !.ok = done \cap bad = {}] : done \in Processed(gave_up, bad)}

GaveUp(s, s1) == {a \in Addr : Closed(s1.pending[a]) /\ ~Closed(s.pending[a])}

crypto_housekeep(s) ==
    UNION {IF ~s1.ok THEN {s1}
           ELSE UNION {IF ~s2.ok THEN {s2} ELSE DropGivenUp(s2, GaveUp(s, s1)) :
                        s2 \in AgePeers(s1)} :
            s1 \in AgePending(s)}

\* Mutant: the next node info is scheduled before this one is sent.
SendNodeInfoLater(s) ==
    LET all == {a \in Addr : IsPeer(s, a)}
    IN  IF s.next_peers > 0 THEN {s}
        ELSE {[s EXCEPT !.next_peers = INTERVAL, !.ok = all \cap failing = {},
                        !.peers = [a \in Addr |->
                            IF a \in done \ failing THEN [@[a] EXCEPT !.quiet = 0] ELSE @[a]]] :
                done \in Processed(all, failing)}

\* broadcast_msg of the node info, when it is due.
SendNodeInfo(s) ==
    LET all == {a \in Addr : IsPeer(s, a)}
        Informed(done) ==
            [s EXCEPT !.peers = [a \in Addr |->
                IF a \in done \ failing THEN [@[a] EXCEPT !.quiet = 0] ELSE @[a]]]
    IN  IF s.next_peers > 0 THEN {s}
        ELSE {IF all \cap failing = {} THEN [Informed(done) EXCEPT !.next_peers = INTERVAL]
              ELSE [Informed(done) EXCEPT !.ok = FALSE] : done \in Processed(all, failing)}

\* reconnect_to_peers: any entries of the reconnect list may be due.  The
\* statistics, the beacon and the own addresses follow; nothing here depends
\* on them.
Reconnect(s) == {Connected(s, due) : due \in SUBSET Addr}

Housekeep ==
    /\ since >= HOUSEKEEP
    /\ \E s1 \in DropTimedOut(Books) :
       \E s2 \in IF s1.ok THEN crypto_housekeep(TableHousekeep(s1)) ELSE {s1} :
       \E s3 \in IF s2.ok THEN SendNodeInfo(s2) ELSE {s2} :
       \E s4 \in IF s3.ok THEN Reconnect(s3) ELSE {s3} : Keep(s4)
    /\ since' = 0
    /\ UNCHANGED <<flaky, failing>>

-----------------------------------------------------------------------------
(* Time and the network.                                                    *)

\* Bound: beyond the timeout it does not matter how long a peer heard nothing.
Longer(quiet) == IF quiet > PEER_TIMEOUT THEN quiet ELSE quiet + 1

\* A second passes.  The loop in run wakes up at least once a second.
Tick ==
    /\ since < HOUSEKEEP
    /\ since' = since + 1
    /\ next_peers' = IF next_peers = 0 THEN 0 ELSE next_peers - 1
    /\ peers' = [a \in Addr |-> IF peers[a] = None THEN None
                  ELSE [timeout |-> peers[a].timeout - 1, quiet |-> Longer(peers[a].quiet)]]
    /\ claims' = [a \in Addr |-> IF claims[a] = None THEN None ELSE claims[a] - 1]
    /\ UNCHANGED <<pending, flaky, failing>>

\* Sending to some addresses starts or ceases to fail.
Outage ==
    /\ failing' \in SUBSET flaky
    /\ UNCHANGED <<peers, claims, pending, next_peers, since, flaky>>

-----------------------------------------------------------------------------
Receive(a) ==
    \/ InitPing(a) \/ InitYield(a) \/ InitFatal(a) \/ Keepalive(a) \/ Close(a)
    \/ \E claiming \in BOOLEAN, others \in SUBSET (Addr \ {a}) :
            InitSuccess(a, claiming, others) \/ NodeInfo(a, claiming, others)

Next ==
    \/ \E a \in Addr : Receive(a)
    \/ Housekeep \/ Tick \/ Outage

Spec == Init /\ [][Next]_vars

\* Time passes and the loop in run calls housekeep; the network owes nothing.
FairSpec == Spec /\ WF_vars(Tick) /\ WF_vars(Housekeep)

-----------------------------------------------------------------------------
\* How late a round of housekeep can be for a duty that every earlier round
\* may have missed because of one other address.
Late == HOUSEKEEP * Cardinality(Addr)

\* Types.  In particular a pending init never exceeds its retries, and no
\* timeout is renewed beyond the configured one.
TypeOK ==
    /\ \A a \in Addr :
        /\ peers[a] = None \/ (peers[a].timeout <= PEER_TIMEOUT /\ peers[a].quiet \in Nat)
        /\ claims[a] = None \/ claims[a] <= PEER_TIMEOUT
        /\ pending[a] = None \/ pending[a] \in
                [stage : {"pong", "peng", "closed"}, failed_retries : 0 .. MAX_FAILED_RETRIES]
    /\ next_peers \in 0 .. INTERVAL /\ since \in 0 .. HOUSEKEEP
    /\ flaky \subseteq Addr /\ failing \subseteq flaky

\* Whatever fails, a silent peer is dropped soon after its timeout, as each
\* round of housekeep drops at least one of the peers that are due, and claims
\* do not outlive theirs by more than that, although an error earlier in
\* housekeep skips the table.  While sending works, a handshake that has given
\* up is removed in the round that finds it.
NothingOverdue ==
    /\ TypeOK
    /\ \A a \in Addr : /\ peers[a] = None \/ peers[a].timeout >= -Late
                       /\ claims[a] = None \/ claims[a] >= -Late
                       /\ flaky = {} => ~Closed(pending[a])

\* "The peers will exchange information periodically", vpncloud.adoc.  The node
\* info counts as sent only when every peer got it, or joined since, although
\* broadcast_msg returns at the first peer that it can not send to.  While
\* sending works, every peer gets one before the other side, with the same
\* timeout, forgets this node.
PeersInformed ==
    \A a \in Addr : peers[a] # None =>
        /\ next_peers > 0 => peers[a].quiet <= INTERVAL - next_peers
        /\ flaky = {} => peers[a].quiet <= PEER_TIMEOUT

\* "After 5 seconds, the initialization is aborted as failed", src/crypto/init.rs:
\* a handshake that gave up does not stay pending for ever.
AbortEnds == \A a \in Addr : Closed(pending[a]) ~> ~Closed(pending[a])
=============================================================================
