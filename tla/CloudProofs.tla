----------------------------- MODULE CloudProofs -----------------------------
(***************************************************************************)
(* Proofs about Cloud, for any number of addresses, any timeouts and any   *)
(* outages: what housekeep is for happens in time, although it returns at  *)
(* the first error.                                                        *)
(***************************************************************************)
EXTENDS Cloud, TLAPS, FiniteSetTheorems

Left == {t \in Int : t <= PEER_TIMEOUT}
Peer == [timeout : Left, quiet : Nat]
Pending == [stage : {"pong", "peng", "closed"}, failed_retries : 0 .. MAX_FAILED_RETRIES]

BookSet ==
    [peers : [Addr -> Peer \cup {None}], claims : [Addr -> Left \cup {None}],
     pending : [Addr -> Pending \cup {None}], next_peers : 0 .. INTERVAL, ok : BOOLEAN]

Typed ==
    /\ Books \in BookSet /\ since \in 0 .. HOUSEKEEP
    /\ flaky \subseteq Addr /\ failing \subseteq flaky

\* The peers that were dropped after the timeout of a, a peer which is overdue:
\* those that are gone, or joined again since then.
Replaced(a) ==
    {b \in Addr : peers[b] = None \/ peers[b].timeout >= PEER_TIMEOUT + peers[a].timeout}

\* Every round that missed an overdue peer has dropped another one.
OverdueInv ==
    \A a \in Addr : peers[a] # None /\ peers[a].timeout < 0 =>
        -peers[a].timeout <= HOUSEKEEP * Cardinality(Replaced(a)) + since

\* No round misses a claim.
ClaimsInv == \A a \in Addr : claims[a] # None => claims[a] >= -since

\* No round misses a handshake that gave up, while sending works.
GivenUpInv == flaky = {} => \A a \in Addr : ~Closed(pending[a])

\* No round misses a node info that is due, while sending works.
QuietInv ==
    \A a \in Addr : peers[a] # None =>
        /\ next_peers > 0 => peers[a].quiet <= INTERVAL - next_peers
        /\ flaky = {} /\ next_peers = 0 => peers[a].quiet <= INTERVAL + since

\* A peer that is dropped does not time out again while another one is overdue.
FewPeers == PEER_TIMEOUT > 0 /\ PEER_TIMEOUT >= HOUSEKEEP * Cardinality(Addr)

\* A round of housekeep fits between a node info and the timeout.
InfoInTime == INTERVAL + HOUSEKEEP <= PEER_TIMEOUT

-----------------------------------------------------------------------------
(* What the parts of the handlers do to the books.                          *)

\* Peers only disappear or get a node info, and claims only disappear.
Fewer(s, t) ==
    \A a \in Addr :
        /\ t.peers[a] = None \/ (/\ s.peers[a] # None
                                 /\ t.peers[a].timeout = s.peers[a].timeout
                                 /\ t.peers[a].quiet \in {0, s.peers[a].quiet})
        /\ t.claims[a] \in {None, s.claims[a]}

\* No handshake gives up.
NoneGivesUp(s, t) == \A a \in Addr : Closed(t.pending[a]) => Closed(s.pending[a])

(* Peers that disappeared from the books stay away.                         *)
LEMMA FewerTransitive ==
    ASSUME NEW s, NEW t, NEW u, Fewer(s, t), Fewer(t, u)
    PROVE  Fewer(s, u)
  BY DEF Fewer

(* A new init of connect_sock is well typed and waits for an answer.        *)
LEMMA NewInitFacts == NewInit \in Pending /\ ~Closed(NewInit)
  BY CloudAssumption DEF NewInit, Pending, Closed

(* A new peer of add_new_peer is well typed.                                *)
LEMMA NewPeerFacts == NewPeer \in Peer /\ NewPeer.timeout = PEER_TIMEOUT /\ NewPeer.quiet = 0
  BY CloudAssumption DEF NewPeer, Peer, Left

(* connect_sock only adds handshakes.                                       *)
LEMMA ConnectedFacts ==
    ASSUME NEW s \in BookSet, NEW addrs, NEW t, t = Connected(s, addrs)
    PROVE  /\ t \in BookSet /\ NoneGivesUp(s, t)
           /\ t.peers = s.peers /\ t.claims = s.claims
           /\ t.next_peers = s.next_peers /\ t.ok = s.ok
  <1> DEFINE new == [a \in Addr |->
                IF a \in addrs /\ ~Known(s, a) THEN NewInit ELSE s.pending[a]]
  <1>1. new \in [Addr -> Pending \cup {None}]
    BY NewInitFacts DEF BookSet
  <1>2. \A a \in Addr : Closed(new[a]) => Closed(s.pending[a])
    BY NewInitFacts
  <1>3. t = [s EXCEPT !.pending = new]
    BY DEF Connected
  <1> HIDE DEF new
  <1>4. QED
    BY <1>1, <1>2, <1>3 DEF BookSet, NoneGivesUp

(* remove_peer takes the peers and the claims of the addresses away.        *)
LEMMA WithoutFacts ==
    ASSUME NEW s \in BookSet, NEW addrs, NEW t, t = Without(s, addrs)
    PROVE  /\ t \in BookSet /\ Fewer(s, t) /\ t.pending = s.pending
           /\ t.next_peers = s.next_peers /\ t.ok = s.ok
           /\ \A a \in Addr : a \in addrs => t.peers[a] = None
  <1> DEFINE P == [a \in Addr |-> IF a \in addrs THEN None ELSE s.peers[a]]
             C == [a \in Addr |-> IF a \in addrs THEN None ELSE s.claims[a]]
  <1>1. P \in [Addr -> Peer \cup {None}] /\ C \in [Addr -> Left \cup {None}]
    BY DEF BookSet
  <1>2. \A a \in Addr : P[a] = IF a \in addrs THEN None ELSE s.peers[a]
    OBVIOUS
  <1>3. \A a \in Addr : C[a] = IF a \in addrs THEN None ELSE s.claims[a]
    OBVIOUS
  <1>4. t = [s EXCEPT !.peers = P, !.claims = C]
    BY DEF Without
  <1> HIDE DEF P, C
  <1>5. t \in BookSet /\ t.peers = P /\ t.claims = C /\ t.pending = s.pending
        /\ t.next_peers = s.next_peers /\ t.ok = s.ok
    BY <1>1, <1>4 DEF BookSet
  <1>6. QED
    BY <1>2, <1>3, <1>5 DEF Fewer

(* ClaimTable::housekeep leaves no claim that has timed out.                *)
LEMMA TableHousekeepFacts ==
    ASSUME NEW s \in BookSet, NEW t, t = TableHousekeep(s)
    PROVE  /\ t \in BookSet /\ Fewer(s, t) /\ t.peers = s.peers /\ t.pending = s.pending
           /\ t.next_peers = s.next_peers /\ t.ok = s.ok
           /\ \A a \in Addr : t.claims[a] # None => t.claims[a] >= 0
  <1> DEFINE C == [a \in Addr |-> IF s.claims[a] # None /\ s.claims[a] < 0 THEN None
                                  ELSE s.claims[a]]
  <1>1. C \in [Addr -> Left \cup {None}]
    BY DEF BookSet
  <1>2. \A a \in Addr : C[a] \in {None, s.claims[a]}
    OBVIOUS
  <1>3. \A a \in Addr : C[a] # None => C[a] >= 0
    BY DEF BookSet, Left
  <1>4. t = [s EXCEPT !.claims = C]
    BY DEF TableHousekeep
  <1> HIDE DEF C
  <1>5. t \in BookSet /\ t.peers = s.peers /\ t.claims = C /\ t.pending = s.pending
        /\ t.next_peers = s.next_peers /\ t.ok = s.ok
    BY <1>1, <1>4 DEF BookSet
  <1>6. QED
    BY <1>2, <1>3, <1>5 DEF Fewer

(* A loop in the order of a hash map ends after all elements, or after one  *)
(* that fails.                                                              *)
LEMMA ProcessedFacts ==
    ASSUME NEW set, NEW bad, NEW done \in Processed(set, bad)
    PROVE  /\ done \subseteq set
           /\ \/ done = set /\ set \cap bad = {}
              \/ \E b \in set : b \in done /\ b \in bad
  BY DEF Processed

-----------------------------------------------------------------------------
(* The parts of housekeep.                                                  *)

NoneClosed(s) == \A a \in Addr : ~Closed(s.pending[a])

\* A part adds no peer.  When sending works it does not fail, and leaves no
\* handshake that gave up.
PartOf(s, t) ==
    /\ t \in BookSet /\ Fewer(s, t)
    /\ failing = {} => t.ok /\ (NoneClosed(s) => NoneClosed(t))

(* Each round removes at least one of the peers that have timed out.        *)
LEMMA DropTimedOutFacts ==
    ASSUME NEW s \in BookSet, NEW t \in DropTimedOut(s)
    PROVE  /\ PartOf(s, t) /\ t.next_peers = s.next_peers
           /\ \A a \in Addr : t.claims[a] # None => t.claims[a] >= 0
           /\ TimedOut(s) # {} => \E b \in TimedOut(s) : t.peers[b] = None
           /\ t.ok => \A a \in TimedOut(s) : t.peers[a] = None
  <1> DEFINE bad == {a \in failing : ~IsPending(s, a)}
             After(done) == Connected(TableHousekeep(Without(s, done)), done)
  <1>1. PICK done \in Processed(TimedOut(s), bad) :
            t = [After(done) EXCEPT !.ok = done \cap bad = {}]
    BY DEF DropTimedOut
  <1> DEFINE w == Without(s, done)
             h == TableHousekeep(w)
             c == Connected(h, done)
  <1> HIDE DEF bad
  <1>2. /\ done \subseteq TimedOut(s)
        /\ \/ done = TimedOut(s) /\ TimedOut(s) \cap bad = {}
           \/ \E b \in TimedOut(s) : b \in done /\ b \in bad
    BY <1>1, ProcessedFacts
  <1>3. /\ w \in BookSet /\ Fewer(s, w) /\ w.pending = s.pending
        /\ w.next_peers = s.next_peers
        /\ \A a \in Addr : a \in done => w.peers[a] = None
    BY WithoutFacts
  <1> HIDE DEF w
  <1>4. /\ h \in BookSet /\ Fewer(w, h) /\ h.peers = w.peers /\ h.pending = w.pending
        /\ h.next_peers = w.next_peers
        /\ \A a \in Addr : h.claims[a] # None => h.claims[a] >= 0
    BY <1>3, TableHousekeepFacts
  <1> HIDE DEF h
  <1>5. /\ c \in BookSet /\ NoneGivesUp(h, c) /\ c.peers = h.peers /\ c.claims = h.claims
        /\ c.next_peers = h.next_peers
    BY <1>4, ConnectedFacts
  <1> HIDE DEF c
  <1>6. t = [c EXCEPT !.ok = done \cap bad = {}]
    BY <1>1 DEF c, h, w
  <1>7. /\ t \in BookSet /\ t.peers = w.peers /\ t.claims = h.claims
        /\ t.pending = c.pending /\ t.next_peers = s.next_peers
        /\ t.ok <=> done \cap bad = {}
    <2> DEFINE ok == done \cap bad = {}
    <2>1. ok \in BOOLEAN
      OBVIOUS
    <2> HIDE DEF ok
    <2>2. t = [c EXCEPT !.ok = ok]
      BY <1>6 DEF ok
    <2>3. /\ t \in BookSet /\ t.peers = c.peers /\ t.claims = c.claims
          /\ t.pending = c.pending /\ t.next_peers = c.next_peers /\ t.ok = ok
      BY <1>5, <2>1, <2>2 DEF BookSet
    <2>4. QED
      BY <1>3, <1>4, <1>5, <2>3 DEF ok
  <1>8. NoneGivesUp(s, t)
    BY <1>3, <1>4, <1>5, <1>7 DEF NoneGivesUp
  <1>9. Fewer(s, t)
    <2>1. Fewer(s, h)
      BY <1>3, <1>4, FewerTransitive
    <2>2. QED
      BY <1>4, <1>7, <2>1 DEF Fewer
  <1>10. failing = {} => t.ok
    BY <1>7 DEF bad
  <1>11. \A a \in done : t.peers[a] = None
    BY <1>2, <1>3, <1>7 DEF TimedOut
  <1>12. QED
    BY <1>2, <1>4, <1>7, <1>8, <1>9, <1>10, <1>11 DEF PartOf, NoneGivesUp, NoneClosed

(* InitState::every_second counts the retries up to their maximum and then  *)
(* gives up.                                                                *)
LEMMA AgedFacts ==
    ASSUME NEW init \in Pending
    PROVE  Aged(init) \in Pending
  <1>1. CASE Closed(init)
    BY <1>1 DEF Aged
  <1>2. CASE ~Closed(init) /\ init.failed_retries < MAX_FAILED_RETRIES
    <2>1. Aged(init) = [init EXCEPT !.failed_retries = init.failed_retries + 1]
      BY <1>2 DEF Aged
    <2>2. QED
      BY <1>2, <2>1, CloudAssumption DEF Pending
  <1>3. CASE ~Closed(init) /\ ~(init.failed_retries < MAX_FAILED_RETRIES)
    <2>1. Aged(init) = [init EXCEPT !.stage = "closed"]
      BY <1>3 DEF Aged
    <2>2. QED
      BY <2>1 DEF Pending
  <1>4. QED
    BY <1>1, <1>2, <1>3

(* The loop over the pending inits changes nothing else.                    *)
LEMMA AgePendingFacts ==
    ASSUME NEW s \in BookSet, NEW t \in AgePending(s)
    PROVE  /\ t \in BookSet /\ t.peers = s.peers /\ t.claims = s.claims
           /\ t.next_peers = s.next_peers
           /\ failing = {} => t.ok
  <1> DEFINE keys == {a \in Addr : IsPending(s, a)}
             bad == {a \in keys \cap failing :
                        ~Closed(s.pending[a]) /\ s.pending[a].failed_retries < MAX_FAILED_RETRIES}
             ok == keys \cap bad = {}
  <1>1. PICK done \in Processed(keys, bad) :
            t = [s EXCEPT !.ok = ok,
                   !.pending = [a \in Addr |-> IF a \in done THEN Aged(s.pending[a])
                                               ELSE s.pending[a]]]
    BY DEF AgePending
  <1> DEFINE new == [a \in Addr |-> IF a \in done THEN Aged(s.pending[a]) ELSE s.pending[a]]
  <1>2. done \subseteq keys
    BY <1>1, ProcessedFacts
  <1>3. new \in [Addr -> Pending \cup {None}]
    BY <1>2, AgedFacts DEF BookSet, IsPending
  <1>4. ok \in BOOLEAN /\ (failing = {} => ok)
    OBVIOUS
  <1>5. t = [s EXCEPT !.ok = ok, !.pending = new]
    BY <1>1
  <1> HIDE DEF ok, new
  <1>6. QED
    BY <1>3, <1>4, <1>5 DEF BookSet

(* Handshakes that gave up are removed, all of them when sending works.     *)
LEMMA DropGivenUpFacts ==
    ASSUME NEW s \in BookSet, s.ok, NEW gave_up, NEW t \in DropGivenUp(s, gave_up)
    PROVE  /\ t \in BookSet /\ Fewer(s, t) /\ t.next_peers = s.next_peers
           /\ failing = {} =>
                /\ t.ok
                /\ \A a \in Addr : Closed(t.pending[a]) => Closed(s.pending[a]) /\ a \notin gave_up
  <1> DEFINE bad == {a \in failing : IsPeer(s, a)}
             Removed(done) ==
                [s EXCEPT !.pending = [a \in Addr |-> IF a \in done THEN None ELSE s.pending[a]],
                          !.peers = [a \in Addr |-> IF a \in done THEN None ELSE s.peers[a]]]
  <1>1. PICK done \in Processed(gave_up, bad) :
            t = [Connected(Removed(done), {a \in done : IsPeer(s, a)})
                    EXCEPT !.ok = done \cap bad = {}]
    BY DEF DropGivenUp
  <1> DEFINE ok == done \cap bad = {}
             I == [a \in Addr |-> IF a \in done THEN None ELSE s.pending[a]]
             P == [a \in Addr |-> IF a \in done THEN None ELSE s.peers[a]]
             r == Removed(done)
             c == Connected(r, {a \in done : IsPeer(s, a)})
  <1>2. failing = {} => done = gave_up /\ ok
    <2>1. \/ done = gave_up /\ gave_up \cap bad = {}
          \/ \E b \in gave_up : b \in done /\ b \in bad
      <3> HIDE DEF bad
      <3> QED
        BY <1>1, ProcessedFacts
    <2>2. failing = {} => bad = {}
      OBVIOUS
    <2>3. QED
      BY <2>1, <2>2
  <1>3. ok \in BOOLEAN
    OBVIOUS
  <1>4. I \in [Addr -> Pending \cup {None}] /\ P \in [Addr -> Peer \cup {None}]
    BY DEF BookSet
  <1>5. \A a \in Addr : I[a] = IF a \in done THEN None ELSE s.pending[a]
    OBVIOUS
  <1>6. \A a \in Addr : P[a] = IF a \in done THEN None ELSE s.peers[a]
    OBVIOUS
  <1>7. r = [s EXCEPT !.pending = I, !.peers = P]
    OBVIOUS
  <1>8. t = [c EXCEPT !.ok = ok]
    BY <1>1
  <1> HIDE DEF ok, I, P, r
  <1>9. /\ r \in BookSet /\ r.peers = P /\ r.pending = I /\ r.claims = s.claims
        /\ r.next_peers = s.next_peers
    BY <1>4, <1>7 DEF BookSet
  <1>10. /\ c \in BookSet /\ NoneGivesUp(r, c) /\ c.peers = r.peers /\ c.claims = r.claims
         /\ c.next_peers = r.next_peers
    BY <1>9, ConnectedFacts
  <1> HIDE DEF c
  <1>11. /\ t \in BookSet /\ t.peers = P /\ t.claims = s.claims /\ t.pending = c.pending
         /\ t.next_peers = s.next_peers /\ t.ok = ok
    BY <1>3, <1>8, <1>9, <1>10 DEF BookSet
  <1>12. Fewer(s, t)
    BY <1>6, <1>11 DEF Fewer
  <1>13. \A a \in Addr : Closed(t.pending[a]) => Closed(s.pending[a]) /\ a \notin done
    BY <1>5, <1>9, <1>10, <1>11 DEF NoneGivesUp, Closed
  <1>14. QED
    BY <1>2, <1>11, <1>12, <1>13

(* crypto_housekeep: a handshake that gives up in this round is removed in  *)
(* this round when sending works.                                           *)
LEMMA CryptoHousekeepFacts ==
    ASSUME NEW s \in BookSet, NEW t \in crypto_housekeep(s)
    PROVE  PartOf(s, t) /\ t.next_peers = s.next_peers
  <1>1. PICK s1 \in AgePending(s) :
            t \in IF ~s1.ok THEN {s1}
                  ELSE UNION {IF ~s2.ok THEN {s2} ELSE DropGivenUp(s2, GaveUp(s, s1)) :
                                s2 \in AgePeers(s1)}
    BY DEF crypto_housekeep
  <1>2. /\ s1 \in BookSet /\ s1.peers = s.peers /\ s1.claims = s.claims
        /\ s1.next_peers = s.next_peers
        /\ failing = {} => s1.ok
    BY AgePendingFacts
  <1>3. Fewer(s, s1)
    BY <1>2 DEF Fewer
  <1>4. CASE ~s1.ok
    <2>1. t = s1
      BY <1>1, <1>4
    <2>2. failing # {}
      BY <1>2, <1>4
    <2>3. QED
      BY <1>2, <1>3, <2>1, <2>2 DEF PartOf
  <1>5. CASE s1.ok
    <2>1. PICK s2 \in AgePeers(s1) :
              t \in IF ~s2.ok THEN {s2} ELSE DropGivenUp(s2, GaveUp(s, s1))
      BY <1>1, <1>5
    <2>2. \/ s2 = s1
          \/ failing # {} /\ s2 = [s1 EXCEPT !.ok = FALSE]
      BY DEF AgePeers
    <2>3. CASE s2 = s1
      <3>1. t \in DropGivenUp(s1, GaveUp(s, s1))
        BY <1>5, <2>1, <2>3
      <3>2. /\ t \in BookSet /\ Fewer(s1, t) /\ t.next_peers = s1.next_peers
            /\ failing = {} =>
                /\ t.ok
                /\ \A a \in Addr : Closed(t.pending[a]) =>
                        Closed(s1.pending[a]) /\ a \notin GaveUp(s, s1)
        BY <1>2, <1>5, <3>1, DropGivenUpFacts
      <3>3. Fewer(s, t)
        BY <1>3, <3>2, FewerTransitive
      <3>4. QED
        BY <1>2, <3>2, <3>3 DEF PartOf, NoneClosed, GaveUp
    <2>4. CASE failing # {} /\ s2 = [s1 EXCEPT !.ok = FALSE]
      <3>1. /\ s2 \in BookSet /\ s2.peers = s1.peers /\ s2.claims = s1.claims
            /\ s2.next_peers = s1.next_peers /\ s2.ok = FALSE
        BY <1>2, <2>4 DEF BookSet
      <3>2. t = s2
        BY <2>1, <3>1
      <3>3. QED
        BY <1>2, <1>3, <2>4, <3>1, <3>2 DEF PartOf, Fewer
    <2>5. QED
      BY <2>2, <2>3, <2>4
  <1>6. QED
    BY <1>4, <1>5

(* The next node info is scheduled only after every peer got this one.      *)
LEMMA SendNodeInfoFacts ==
    ASSUME NEW s \in BookSet, s.ok, NEW t \in SendNodeInfo(s)
    PROVE  /\ PartOf(s, t)
           /\ \/ t.next_peers = s.next_peers /\ (failing # {} \/ t.next_peers > 0)
              \/ /\ t.next_peers = INTERVAL
                 /\ \A a \in Addr : t.peers[a] # None => t.peers[a].quiet = 0
  <1>1. CASE s.next_peers > 0
    <2>1. t = s
      BY <1>1 DEF SendNodeInfo
    <2>2. QED
      BY <1>1, <2>1 DEF PartOf, Fewer
  <1>2. CASE ~(s.next_peers > 0)
    <2> DEFINE all == {a \in Addr : IsPeer(s, a)}
               Informed(done) ==
                    [s EXCEPT !.peers = [a \in Addr |->
                        IF a \in done \ failing THEN [s.peers[a] EXCEPT !.quiet = 0]
                        ELSE s.peers[a]]]
    <2>1. PICK done \in Processed(all, failing) :
              t = IF all \cap failing = {} THEN [Informed(done) EXCEPT !.next_peers = INTERVAL]
                  ELSE [Informed(done) EXCEPT !.ok = FALSE]
      BY <1>2 DEF SendNodeInfo
    <2> DEFINE P == [a \in Addr |-> IF a \in done \ failing THEN [s.peers[a] EXCEPT !.quiet = 0]
                                    ELSE s.peers[a]]
               r == Informed(done)
    <2>2. /\ done \subseteq all
          /\ all \cap failing = {} => done = all
      BY ProcessedFacts
    <2>3. \A a \in all : s.peers[a] \in Peer
      BY DEF BookSet, IsPeer
    <2>4. \A a \in all : LET q == [s.peers[a] EXCEPT !.quiet = 0] IN
            q \in Peer /\ q.timeout = s.peers[a].timeout /\ q.quiet = 0
      BY <2>3 DEF Peer
    <2>5. P \in [Addr -> Peer \cup {None}]
      BY <2>2, <2>4 DEF BookSet
    <2>6. \A a \in Addr :
            P[a] = None \/ (/\ s.peers[a] # None /\ P[a].timeout = s.peers[a].timeout
                            /\ P[a].quiet \in {0, s.peers[a].quiet})
      BY <2>2, <2>4 DEF IsPeer
    <2>7. all \cap failing = {} => \A a \in Addr : P[a] # None => P[a].quiet = 0
      BY <2>2, <2>4 DEF IsPeer
    <2>8. r = [s EXCEPT !.peers = P]
      OBVIOUS
    <2> HIDE DEF P, r
    <2>9. /\ r \in BookSet /\ r.peers = P /\ r.claims = s.claims /\ r.pending = s.pending
          /\ r.next_peers = s.next_peers /\ r.ok = s.ok
      BY <2>5, <2>8 DEF BookSet
    <2>10. CASE all \cap failing = {}
      <3>1. t = [r EXCEPT !.next_peers = INTERVAL]
        BY <2>1, <2>10 DEF r
      <3>2. INTERVAL \in 0 .. INTERVAL
        BY CloudAssumption
      <3>3. /\ t \in BookSet /\ t.peers = P /\ t.claims = s.claims /\ t.pending = s.pending
            /\ t.next_peers = INTERVAL /\ t.ok = s.ok
        BY <2>9, <3>1, <3>2 DEF BookSet
      <3>4. QED
        BY <2>6, <2>7, <2>10, <3>3 DEF PartOf, Fewer, NoneClosed
    <2>11. CASE all \cap failing # {}
      <3>1. t = [r EXCEPT !.ok = FALSE]
        BY <2>1, <2>11 DEF r
      <3>2. /\ t \in BookSet /\ t.peers = P /\ t.claims = s.claims /\ t.pending = s.pending
            /\ t.next_peers = s.next_peers
        BY <2>9, <3>1 DEF BookSet
      <3>3. failing # {}
        BY <2>11
      <3>4. QED
        BY <2>6, <3>2, <3>3 DEF PartOf, Fewer
    <2>12. QED
      BY <2>10, <2>11
  <1>3. QED
    BY <1>1, <1>2

(* A whole round of housekeep.                                              *)
LEMMA HousekeepFacts ==
    ASSUME Typed, Housekeep
    PROVE  \E t \in BookSet :
            /\ Keep(t) /\ Fewer(Books, t)
            /\ failing = {} /\ NoneClosed(Books) => NoneClosed(t)
            /\ \A a \in Addr : t.claims[a] # None => t.claims[a] >= 0
            /\ TimedOut(Books) # {} => \E b \in TimedOut(Books) : t.peers[b] = None
            /\ \/ t.next_peers = next_peers /\ (failing # {} \/ t.next_peers > 0)
               \/ /\ t.next_peers = INTERVAL
                  /\ \A a \in Addr : t.peers[a] # None => t.peers[a].quiet = 0
  <1> DEFINE Info(s, t) ==
                \/ t.next_peers = s.next_peers /\ (failing # {} \/ t.next_peers > 0)
                \/ /\ t.next_peers = INTERVAL
                   /\ \A a \in Addr : t.peers[a] # None => t.peers[a].quiet = 0
  <1> DEFINE b == Books
  <1>0. b \in BookSet /\ b.next_peers = next_peers
    BY DEF Typed, Books
  <1>1. PICK s1 \in DropTimedOut(b) :
        \E s2 \in IF s1.ok THEN crypto_housekeep(TableHousekeep(s1)) ELSE {s1} :
        \E s3 \in IF s2.ok THEN SendNodeInfo(s2) ELSE {s2} :
        \E s4 \in IF s3.ok THEN Reconnect(s3) ELSE {s3} : Keep(s4)
    BY DEF Housekeep
  <1>2. PICK s2 \in IF s1.ok THEN crypto_housekeep(TableHousekeep(s1)) ELSE {s1} :
        \E s3 \in IF s2.ok THEN SendNodeInfo(s2) ELSE {s2} :
        \E s4 \in IF s3.ok THEN Reconnect(s3) ELSE {s3} : Keep(s4)
    BY <1>1
  <1>3. PICK s3 \in IF s2.ok THEN SendNodeInfo(s2) ELSE {s2} :
        \E s4 \in IF s3.ok THEN Reconnect(s3) ELSE {s3} : Keep(s4)
    BY <1>2
  <1>4. PICK s4 \in IF s3.ok THEN Reconnect(s3) ELSE {s3} : Keep(s4)
    BY <1>3
  <1> HIDE DEF b
  <1>5. /\ PartOf(b, s1) /\ s1.next_peers = b.next_peers
        /\ \A a \in Addr : s1.claims[a] # None => s1.claims[a] >= 0
        /\ TimedOut(b) # {} => \E a \in TimedOut(b) : s1.peers[a] = None
    BY <1>0, DropTimedOutFacts
  <1>6. PartOf(s1, s2) /\ s2.next_peers = s1.next_peers
    <2>1. CASE s1.ok
      <3> DEFINE h == TableHousekeep(s1)
      <3>1. /\ h \in BookSet /\ Fewer(s1, h) /\ h.pending = s1.pending
            /\ h.next_peers = s1.next_peers
        BY <1>5, TableHousekeepFacts DEF PartOf
      <3>2. s2 \in crypto_housekeep(h)
        BY <1>2, <2>1
      <3> HIDE DEF h
      <3>3. PartOf(h, s2) /\ s2.next_peers = h.next_peers
        BY <3>1, <3>2, CryptoHousekeepFacts
      <3>4. Fewer(s1, s2)
        BY <3>1, <3>3, FewerTransitive DEF PartOf
      <3>5. QED
        BY <3>1, <3>3, <3>4 DEF PartOf, NoneClosed
    <2>2. CASE ~s1.ok
      <3>1. s2 = s1 /\ failing # {}
        BY <1>2, <1>5, <2>2 DEF PartOf
      <3>2. QED
        BY <1>5, <3>1 DEF PartOf, Fewer
    <2>3. QED
      BY <2>1, <2>2
  <1>7. PartOf(s2, s3) /\ Info(s2, s3)
    <2>1. CASE s2.ok
      <3>1. s3 \in SendNodeInfo(s2) /\ s2 \in BookSet
        BY <1>3, <1>6, <2>1 DEF PartOf
      <3>2. QED
        BY <2>1, <3>1, SendNodeInfoFacts
    <2>2. CASE ~s2.ok
      <3>1. s3 = s2 /\ failing # {}
        BY <1>3, <1>6, <2>2 DEF PartOf
      <3>2. QED
        BY <1>6, <3>1 DEF PartOf, Fewer
    <2>3. QED
      BY <2>1, <2>2
  <1>8. /\ s4 \in BookSet /\ s4.peers = s3.peers /\ s4.claims = s3.claims
        /\ s4.next_peers = s3.next_peers /\ NoneGivesUp(s3, s4)
    <2>1. CASE s3.ok
      <3>1. PICK due \in SUBSET Addr : s4 = Connected(s3, due)
        BY <1>4, <2>1 DEF Reconnect
      <3>2. s3 \in BookSet
        BY <1>7 DEF PartOf
      <3>3. QED
        BY <3>1, <3>2, ConnectedFacts
    <2>2. CASE ~s3.ok
      <3>1. s4 = s3
        BY <1>4, <2>2
      <3>2. QED
        BY <1>7, <3>1 DEF PartOf, NoneGivesUp
    <2>3. QED
      BY <2>1, <2>2
  <1>9. Fewer(s1, s4)
    <2>1. Fewer(s1, s3)
      BY <1>6, <1>7, FewerTransitive DEF PartOf
    <2>2. QED
      BY <1>8, <2>1 DEF Fewer
  <1>10. Fewer(b, s4)
    BY <1>5, <1>9, FewerTransitive DEF PartOf
  <1>11. failing = {} /\ NoneClosed(b) => NoneClosed(s4)
    BY <1>5, <1>6, <1>7, <1>8 DEF PartOf, NoneClosed, NoneGivesUp
  <1>12. \A a \in Addr : s4.claims[a] # None => s4.claims[a] >= 0
    BY <1>5, <1>9 DEF Fewer
  <1>13. TimedOut(b) # {} => \E a \in TimedOut(b) : s4.peers[a] = None
    BY <1>5, <1>9 DEF Fewer, TimedOut
  <1>14. \/ s4.next_peers = b.next_peers /\ (failing # {} \/ s4.next_peers > 0)
         \/ /\ s4.next_peers = INTERVAL
            /\ \A a \in Addr : s4.peers[a] # None => s4.peers[a].quiet = 0
    BY <1>5, <1>6, <1>7, <1>8
  <1>15. QED
    BY <1>0, <1>4, <1>8, <1>10, <1>11, <1>12, <1>13, <1>14 DEF b

-----------------------------------------------------------------------------
(* Messages and outages.                                                    *)

\* What they do to the books: a peer is dropped or renewed, a claim is dropped or
\* renewed, and no handshake gives up.
Refresh ==
    /\ Typed'
    /\ \A b \in Addr :
        /\ \/ peers'[b] \in {None, peers[b]}
           \/ /\ peers'[b].timeout = PEER_TIMEOUT
              /\ peers'[b].quiet = 0 \/ (peers[b] # None /\ peers'[b].quiet = peers[b].quiet)
        /\ claims'[b] \in {None, claims[b], PEER_TIMEOUT}
        /\ Closed(pending'[b]) => Closed(pending[b])
    /\ UNCHANGED <<next_peers, since, flaky>>

(* update_peer_info renews the peer and its claims.                         *)
LEMMA UpdateFacts ==
    ASSUME NEW s \in BookSet, NEW a \in Addr, s.peers[a] \in Peer,
           NEW claiming \in BOOLEAN, NEW others,
           NEW t, t = update_peer_info(s, a, claiming, others)
    PROVE  /\ t \in BookSet /\ NoneGivesUp(s, t) /\ t.next_peers = s.next_peers
           /\ t.peers[a].timeout = PEER_TIMEOUT /\ t.peers[a].quiet = s.peers[a].quiet
           /\ \A b \in Addr : b # a => t.peers[b] = s.peers[b]
           /\ \A b \in Addr : t.claims[b] \in {None, s.claims[b], PEER_TIMEOUT}
  <1> DEFINE q == [s.peers[a] EXCEPT !.timeout = PEER_TIMEOUT]
             P == [s.peers EXCEPT ![a] = q]
             k == IF claiming THEN PEER_TIMEOUT ELSE None
             C == [s.claims EXCEPT ![a] = k]
             r == [s EXCEPT !.peers[a].timeout = PEER_TIMEOUT,
                            !.claims[a] = IF claiming THEN PEER_TIMEOUT ELSE None]
             h == TableHousekeep(r)
  <1>1. PEER_TIMEOUT \in Left
    BY CloudAssumption DEF Left
  <1>2. q \in Peer /\ q.timeout = PEER_TIMEOUT /\ q.quiet = s.peers[a].quiet
    BY <1>1 DEF Peer
  <1>3. k \in Left \cup {None} /\ k \in {None, PEER_TIMEOUT}
    BY <1>1
  <1>4. r = [s EXCEPT !.peers = P, !.claims = C]
    OBVIOUS
  <1>5. t = Connected(h, others)
    BY DEF update_peer_info
  <1> HIDE DEF q, k, r
  <1>6. P \in [Addr -> Peer \cup {None}] /\ C \in [Addr -> Left \cup {None}]
    BY <1>2, <1>3 DEF BookSet
  <1>7. P[a] = q /\ C[a] = k /\ \A b \in Addr : b # a => P[b] = s.peers[b] /\ C[b] = s.claims[b]
    BY DEF BookSet
  <1> HIDE DEF P, C
  <1>8. /\ r \in BookSet /\ r.peers = P /\ r.claims = C /\ r.pending = s.pending
        /\ r.next_peers = s.next_peers
    BY <1>4, <1>6 DEF BookSet
  <1>9. /\ h \in BookSet /\ h.peers = P /\ h.pending = s.pending /\ h.next_peers = s.next_peers
        /\ Fewer(r, h)
    BY <1>8, TableHousekeepFacts
  <1> HIDE DEF h
  <1>10. /\ t \in BookSet /\ t.peers = P /\ t.claims = h.claims /\ NoneGivesUp(h, t)
         /\ t.next_peers = s.next_peers
    BY <1>5, <1>9, ConnectedFacts
  <1>11. \A b \in Addr : t.claims[b] \in {None, C[b]}
    BY <1>8, <1>9, <1>10 DEF Fewer
  <1>12. \A b \in Addr : t.claims[b] \in {None, s.claims[b], PEER_TIMEOUT}
    BY <1>3, <1>7, <1>11
  <1>13. QED
    BY <1>2, <1>7, <1>9, <1>10, <1>12 DEF NoneGivesUp

(* The books after a step that keeps t, when sending is left alone.         *)
LEMMA KeepTyped ==
    ASSUME Typed, NEW t \in BookSet, Keep(t), UNCHANGED <<flaky, failing>>,
           since' \in 0 .. HOUSEKEEP
    PROVE  Typed'
  <1>1. Books' \in BookSet
    BY DEF Keep, Books, BookSet
  <1>2. QED
    BY <1>1 DEF Typed

(* The books are typed.                                                     *)
LEMMA BooksFacts ==
    ASSUME Typed
    PROVE  /\ Books \in BookSet /\ Books.peers = peers /\ Books.claims = claims
           /\ Books.pending = pending /\ Books.next_peers = next_peers
           /\ peers \in [Addr -> Peer \cup {None}] /\ claims \in [Addr -> Left \cup {None}]
           /\ pending \in [Addr -> Pending \cup {None}]
           /\ next_peers \in 0 .. INTERVAL /\ since \in 0 .. HOUSEKEEP
  <1>1. Books \in BookSet /\ since \in 0 .. HOUSEKEEP
    BY DEF Typed
  <1>2. /\ Books.peers = peers /\ Books.claims = claims
        /\ Books.pending = pending /\ Books.next_peers = next_peers
    BY DEF Books
  <1>3. QED
    BY <1>1, <1>2 DEF BookSet

(* Messages that only concern a pending init.                               *)
LEMMA InitRefreshes ==
    ASSUME Typed, NEW a \in Addr, InitPing(a) \/ InitYield(a) \/ InitFatal(a)
    PROVE  Refresh
  <1> DEFINE peng == [stage |-> "peng", failed_retries |-> 0]
  <1>1. PICK v \in {peng, None} : pending' = [pending EXCEPT ![a] = v]
    BY DEF InitPing, InitYield, InitFatal
  <1>2. UNCHANGED <<peers, claims, next_peers, since, flaky, failing>>
    BY DEF InitPing, InitYield, InitFatal, Same
  <1>3. peng \in Pending /\ peng.stage # "closed"
    BY CloudAssumption DEF Pending
  <1> HIDE DEF peng
  <1>4. v \in Pending \cup {None} /\ ~Closed(v)
    BY <1>3 DEF Closed
  <1>5. pending \in [Addr -> Pending \cup {None}]
    BY BooksFacts
  <1>6. /\ pending' \in [Addr -> Pending \cup {None}]
        /\ \A b \in Addr : Closed(pending'[b]) => Closed(pending[b])
    BY <1>1, <1>4, <1>5
  <1>7. Books' \in BookSet
    BY <1>2, <1>6, BooksFacts DEF Books, BookSet
  <1>8. QED
    BY <1>2, <1>6, <1>7 DEF Refresh, Typed

(* The end of a handshake adds a peer, or replaces it.                      *)
LEMMA InitSuccessRefreshes ==
    ASSUME Typed, NEW a \in Addr, NEW claiming \in BOOLEAN, NEW others,
           InitSuccess(a, claiming, others)
    PROVE  Refresh
  <1> DEFINE s == [Books EXCEPT !.pending[a] = None, !.peers[a] = NewPeer]
             t == update_peer_info(s, a, claiming, others)
             b0 == Books
             I == [pending EXCEPT ![a] = None]
             P == [peers EXCEPT ![a] = NewPeer]
  <1>1. Keep(t) /\ UNCHANGED <<since, flaky, failing>>
    BY DEF InitSuccess, Same
  <1>2. I \in [Addr -> Pending \cup {None}] /\ P \in [Addr -> Peer \cup {None}]
    BY BooksFacts, NewPeerFacts
  <1>3. /\ \A b \in Addr : Closed(I[b]) => Closed(pending[b])
        /\ P[a] = NewPeer /\ \A b \in Addr : b # a => P[b] = peers[b]
    BY BooksFacts DEF Closed
  <1>4. s = [b0 EXCEPT !.pending = I, !.peers = P]
    BY BooksFacts
  <1>5. /\ b0 \in BookSet /\ b0.peers = peers /\ b0.claims = claims
        /\ b0.pending = pending /\ b0.next_peers = next_peers
    BY BooksFacts
  <1> HIDE DEF b0, I, P, s
  <1>6. /\ s \in BookSet /\ s.peers = P /\ s.pending = I /\ s.claims = claims
        /\ s.next_peers = next_peers
    BY <1>2, <1>4, <1>5 DEF BookSet
  <1>7. s.peers[a] \in Peer
    BY <1>3, <1>6, NewPeerFacts
  <1>8. /\ t \in BookSet /\ NoneGivesUp(s, t) /\ t.next_peers = s.next_peers
        /\ t.peers[a].timeout = PEER_TIMEOUT /\ t.peers[a].quiet = s.peers[a].quiet
        /\ \A b \in Addr : b # a => t.peers[b] = s.peers[b]
        /\ \A b \in Addr : t.claims[b] \in {None, s.claims[b], PEER_TIMEOUT}
    BY <1>6, <1>7, UpdateFacts
  <1> HIDE DEF t
  <1>9. Typed'
    BY <1>1, <1>8, KeepTyped, BooksFacts
  <1>10. /\ peers' = t.peers /\ claims' = t.claims /\ pending' = t.pending
         /\ next_peers' = next_peers
    BY <1>1, <1>6, <1>8 DEF Keep
  <1>11. \A b \in Addr : Closed(pending'[b]) => Closed(pending[b])
    BY <1>3, <1>6, <1>8, <1>10 DEF NoneGivesUp
  <1>12. peers'[a].quiet = 0
    BY <1>3, <1>6, <1>8, <1>10, NewPeerFacts
  <1>13. QED
    BY <1>1, <1>3, <1>6, <1>8, <1>9, <1>10, <1>11, <1>12 DEF Refresh

(* A node info renews a peer.                                               *)
LEMMA NodeInfoRefreshes ==
    ASSUME Typed, NEW a \in Addr, NEW claiming \in BOOLEAN, NEW others,
           NodeInfo(a, claiming, others)
    PROVE  Refresh
  <1> DEFINE b0 == Books
             t == update_peer_info(b0, a, claiming, others)
  <1>1. Keep(t) /\ UNCHANGED <<since, flaky, failing>> /\ peers[a] # None
    BY BooksFacts DEF NodeInfo, Same, HasEar, IsPeer
  <1>2. /\ b0 \in BookSet /\ b0.peers = peers /\ b0.claims = claims
        /\ b0.pending = pending /\ b0.next_peers = next_peers
    BY BooksFacts
  <1> HIDE DEF b0
  <1>3. b0.peers[a] \in Peer
    BY <1>1, <1>2 DEF BookSet
  <1>4. /\ t \in BookSet /\ NoneGivesUp(b0, t) /\ t.next_peers = b0.next_peers
        /\ t.peers[a].timeout = PEER_TIMEOUT /\ t.peers[a].quiet = b0.peers[a].quiet
        /\ \A b \in Addr : b # a => t.peers[b] = b0.peers[b]
        /\ \A b \in Addr : t.claims[b] \in {None, b0.claims[b], PEER_TIMEOUT}
    BY <1>2, <1>3, UpdateFacts
  <1> HIDE DEF t
  <1>5. Typed'
    BY <1>1, <1>4, KeepTyped, BooksFacts
  <1>6. /\ peers' = t.peers /\ claims' = t.claims /\ pending' = t.pending
        /\ next_peers' = next_peers
    BY <1>1, <1>2, <1>4 DEF Keep
  <1>7. QED
    BY <1>1, <1>2, <1>4, <1>5, <1>6 DEF Refresh, NoneGivesUp

(* So does a keepalive.                                                     *)
LEMMA KeepaliveRefreshes ==
    ASSUME Typed, NEW a \in Addr, Keepalive(a)
    PROVE  Refresh
  <1> DEFINE q == [peers[a] EXCEPT !.timeout = PEER_TIMEOUT]
  <1>1. peers' = [peers EXCEPT ![a] = q]
    BY DEF Keepalive
  <1>2. UNCHANGED <<claims, pending, next_peers, since, flaky, failing>> /\ peers[a] # None
    BY BooksFacts DEF Keepalive, Same, HasEar, IsPeer
  <1>3. peers[a] \in Peer /\ PEER_TIMEOUT \in Left
    BY <1>2, BooksFacts, CloudAssumption DEF Left
  <1>4. q \in Peer /\ q.timeout = PEER_TIMEOUT /\ q.quiet = peers[a].quiet
    BY <1>3 DEF Peer
  <1> HIDE DEF q
  <1>5. /\ peers' \in [Addr -> Peer \cup {None}]
        /\ peers'[a] = q /\ \A b \in Addr : b # a => peers'[b] = peers[b]
    BY <1>1, <1>4, BooksFacts
  <1>6. Books' \in BookSet
    BY <1>2, <1>5, BooksFacts DEF Books, BookSet
  <1>7. Typed'
    BY <1>2, <1>6 DEF Typed
  <1>8. QED
    BY <1>2, <1>4, <1>5, <1>7 DEF Refresh

(* A close message removes the peer and its claims.                         *)
LEMMA CloseRefreshes ==
    ASSUME Typed, NEW a \in Addr, Close(a)
    PROVE  Refresh
  <1> DEFINE b0 == Books
             w == Without(b0, {a})
             t == TableHousekeep(w)
  <1>1. Keep(t) /\ UNCHANGED <<since, flaky, failing>>
    BY DEF Close, Same
  <1>2. /\ b0 \in BookSet /\ b0.peers = peers /\ b0.claims = claims
        /\ b0.pending = pending /\ b0.next_peers = next_peers
    BY BooksFacts
  <1> HIDE DEF b0
  <1>3. /\ w \in BookSet /\ w.pending = pending /\ w.next_peers = next_peers
        /\ Fewer(b0, w) /\ \A b \in Addr : w.peers[b] \in {None, peers[b]}
    <2>1. \A b \in Addr : w.peers[b] \in {None, b0.peers[b]}
      BY <1>2 DEF Without, BookSet
    <2>2. QED
      BY <1>2, <2>1, WithoutFacts
  <1> HIDE DEF w
  <1>4. /\ t \in BookSet /\ t.pending = pending /\ t.next_peers = next_peers
        /\ t.peers = w.peers /\ Fewer(w, t)
    BY <1>3, TableHousekeepFacts
  <1> HIDE DEF t
  <1>5. Typed'
    BY <1>1, <1>4, KeepTyped, BooksFacts
  <1>6. /\ peers' = t.peers /\ claims' = t.claims /\ pending' = t.pending
        /\ next_peers' = next_peers
    BY <1>1, <1>4 DEF Keep
  <1>7. \A b \in Addr : t.claims[b] \in {None, claims[b]}
    BY <1>2, <1>3, <1>4 DEF Fewer
  <1>8. QED
    BY <1>1, <1>3, <1>4, <1>5, <1>6, <1>7 DEF Refresh

(* Sending starts or ceases to fail, which changes no book.                 *)
LEMMA OutageRefreshes ==
    ASSUME Typed, Outage
    PROVE  Refresh
  <1>1. Books' = Books /\ UNCHANGED <<peers, claims, pending, next_peers, since, flaky>>
    BY DEF Outage, Books
  <1>2. failing' \subseteq flaky
    BY DEF Outage
  <1>3. QED
    BY <1>1, <1>2 DEF Refresh, Typed

-----------------------------------------------------------------------------
(* The invariants.                                                          *)

Inv == Typed /\ ClaimsInv /\ GivenUpInv /\ QuietInv

(* A larger set of replaced peers has no fewer elements.                    *)
LEMMA CardMonotone ==
    ASSUME NEW S, NEW T \in SUBSET Addr, S \subseteq T
    PROVE  /\ Cardinality(S) \in Nat /\ Cardinality(T) \in Nat
           /\ Cardinality(S) <= Cardinality(T)
           /\ \A b \in T : b \notin S => Cardinality(S) + 1 <= Cardinality(T)
  <1>1. IsFiniteSet(T) /\ IsFiniteSet(S)
    BY FS_Subset, CloudAssumption
  <1>2. Cardinality(S) \in Nat /\ Cardinality(T) \in Nat
    BY <1>1, FS_CardinalityType
  <1>3. Cardinality(S) <= Cardinality(T)
    BY <1>1, FS_Subset
  <1>4. ASSUME NEW b \in T, b \notin S
        PROVE  Cardinality(S) + 1 <= Cardinality(T)
    <2>1. IsFiniteSet(S \cup {b}) /\ Cardinality(S \cup {b}) = Cardinality(S) + 1
      BY <1>1, <1>4, FS_AddElement
    <2>2. Cardinality(S \cup {b}) <= Cardinality(T)
      BY <1>1, <1>4, FS_Subset
    <2>3. QED
      BY <2>1, <2>2
  <1>5. QED
    BY <1>2, <1>3, <1>4

(* Seconds of peers and claims are integers.                                *)
LEMMA SecondsFacts ==
    ASSUME Typed
    PROVE  \A a \in Addr :
            /\ peers[a] # None => /\ peers[a].timeout \in Int /\ peers[a].timeout <= PEER_TIMEOUT
                                  /\ peers[a].quiet \in Nat
            /\ claims[a] # None => claims[a] \in Int /\ claims[a] <= PEER_TIMEOUT
  BY BooksFacts DEF Peer, Left

(* Initially there is nothing to be late for.                               *)
LEMMA InitInv == Init => Inv /\ OverdueInv
  <1> SUFFICES ASSUME Init PROVE Inv /\ OverdueInv
    OBVIOUS
  <1>1. 0 \in 0 .. INTERVAL /\ 0 \in 0 .. HOUSEKEEP
    BY CloudAssumption DEF HOUSEKEEP
  <1>2. Books \in BookSet
    BY <1>1 DEF Init, Books, BookSet
  <1>3. flaky \subseteq Addr /\ failing \subseteq flaky
    BY CloudAssumption DEF Init
  <1>4. Typed
    BY <1>1, <1>2, <1>3 DEF Typed, Init
  <1>5. \A a \in Addr : peers[a] = None /\ claims[a] = None /\ pending[a] = None
    BY DEF Init
  <1>6. QED
    BY <1>4, <1>5 DEF Inv, ClaimsInv, GivenUpInv, QuietInv, OverdueInv, Closed

(* Messages and outages make nothing late.                                  *)
LEMMA RefreshKeepsInv ==
    ASSUME Inv, Refresh
    PROVE  Inv'
  <1>1. Typed'
    BY DEF Refresh
  <1>2. ClaimsInv'
    BY BooksFacts, CloudAssumption DEF Inv, ClaimsInv, Refresh, HOUSEKEEP
  <1>3. GivenUpInv'
    BY DEF Inv, GivenUpInv, Refresh
  <1>4. QuietInv'
    BY BooksFacts, CloudAssumption DEF Inv, QuietInv, Refresh, HOUSEKEEP
  <1>5. QED
    BY <1>1, <1>2, <1>3, <1>4 DEF Inv

(* A peer that is overdue is only ever dropped by them.                     *)
LEMMA RefreshKeepsOverdue ==
    ASSUME Inv, OverdueInv, Refresh
    PROVE  OverdueInv'
  <1> SUFFICES ASSUME NEW a \in Addr, peers'[a] # None, peers'[a].timeout < 0
               PROVE  -peers'[a].timeout <= HOUSEKEEP * Cardinality(Replaced(a)') + since'
    BY DEF OverdueInv
  <1>1. peers'[a] = peers[a]
    BY CloudAssumption DEF Refresh
  <1>2. peers[a].timeout \in Int
    BY <1>1, SecondsFacts DEF Inv
  <1>3. Replaced(a) \subseteq Replaced(a)'
    <2> SUFFICES ASSUME NEW b \in Replaced(a) PROVE b \in Replaced(a)'
      OBVIOUS
    <2>1. b \in Addr /\ (peers[b] = None \/ peers[b].timeout >= PEER_TIMEOUT + peers[a].timeout)
      BY DEF Replaced
    <2>2. PEER_TIMEOUT >= PEER_TIMEOUT + peers[a].timeout
      BY <1>1, <1>2, CloudAssumption
    <2>3. peers'[b] \in {None, peers[b]} \/ peers'[b].timeout = PEER_TIMEOUT
      BY <2>1 DEF Refresh
    <2>4. peers'[b] = None \/ peers'[b].timeout >= PEER_TIMEOUT + peers[a].timeout
      BY <2>1, <2>2, <2>3
    <2>5. QED
      BY <1>1, <2>1, <2>4 DEF Replaced
  <1>4. /\ Cardinality(Replaced(a)) \in Nat /\ Cardinality(Replaced(a)') \in Nat
        /\ Cardinality(Replaced(a)) <= Cardinality(Replaced(a)')
    <2>1. Replaced(a)' \in SUBSET Addr
      BY DEF Replaced
    <2>2. QED
      BY <1>3, <2>1, CardMonotone
  <1>5. -peers[a].timeout <= HOUSEKEEP * Cardinality(Replaced(a)) + since
    BY <1>1 DEF OverdueInv
  <1>6. since' = since /\ since \in Int
    BY BooksFacts DEF Refresh, Inv
  <1>7. QED
    BY <1>1, <1>2, <1>4, <1>5, <1>6 DEF HOUSEKEEP

(* What a second does to a peer.                                            *)
LEMMA TickFacts ==
    ASSUME Typed, Tick
    PROVE  /\ Typed' /\ since' = since + 1 /\ since' \in 0 .. HOUSEKEEP
           /\ \A a \in Addr : IF peers[a] = None THEN peers'[a] = None
                ELSE /\ peers'[a].timeout = peers[a].timeout - 1
                     /\ peers'[a].quiet \in Nat /\ peers'[a].quiet <= peers[a].quiet + 1
  <1>1. since' = since + 1 /\ since' \in 0 .. HOUSEKEEP
    BY BooksFacts DEF Tick, HOUSEKEEP
  <1>2. next_peers' \in 0 .. INTERVAL
    <2>1. next_peers \in 0 .. INTERVAL /\ INTERVAL \in Nat
      BY BooksFacts, CloudAssumption
    <2>2. next_peers' = IF next_peers = 0 THEN 0 ELSE next_peers - 1
      BY DEF Tick
    <2>3. QED
      BY <2>1, <2>2
  <1> DEFINE Older(a) == [timeout |-> peers[a].timeout - 1, quiet |-> Longer(peers[a].quiet)]
  <1>3. ASSUME NEW a \in Addr, peers[a] # None
        PROVE  /\ Older(a) \in Peer /\ Older(a).timeout = peers[a].timeout - 1
               /\ Older(a).quiet \in Nat /\ Older(a).quiet <= peers[a].quiet + 1
    <2>1. /\ peers[a].timeout \in Int /\ peers[a].timeout <= PEER_TIMEOUT
          /\ peers[a].quiet \in Nat
      BY <1>3, SecondsFacts
    <2>2. Longer(peers[a].quiet) \in Nat /\ Longer(peers[a].quiet) <= peers[a].quiet + 1
      BY <2>1 DEF Longer
    <2>3. peers[a].timeout - 1 \in Left
      BY <2>1, CloudAssumption DEF Left
    <2>4. QED
      BY <2>2, <2>3 DEF Peer
  <1>4. peers' = [a \in Addr |-> IF peers[a] = None THEN None ELSE Older(a)]
    BY DEF Tick
  <1> HIDE DEF Older
  <1>5. peers' \in [Addr -> Peer \cup {None}]
    BY <1>3, <1>4
  <1>6. claims' \in [Addr -> Left \cup {None}]
    <2>1. \A a \in Addr : claims[a] # None => claims[a] - 1 \in Left
      BY SecondsFacts, CloudAssumption DEF Left
    <2>2. QED
      BY <2>1 DEF Tick
  <1>7. Books' \in BookSet
    BY <1>2, <1>5, <1>6, BooksFacts DEF Books, BookSet, Tick
  <1>8. Typed'
    BY <1>1, <1>7 DEF Typed, Tick
  <1>9. QED
    BY <1>1, <1>3, <1>4, <1>8

(* A second makes everything one second later.                              *)
LEMMA TickKeepsInv ==
    ASSUME Inv, Tick
    PROVE  Inv'
  <1>1. Typed' /\ since' = since + 1
    BY TickFacts DEF Inv
  <1>2. ClaimsInv'
    <2> SUFFICES ASSUME NEW a \in Addr, claims'[a] # None PROVE claims'[a] >= -since'
      BY DEF ClaimsInv
    <2>1. claims[a] # None /\ claims'[a] = claims[a] - 1
      BY DEF Tick
    <2>2. claims[a] \in Int /\ claims[a] >= -since
      BY <2>1, SecondsFacts DEF Inv, ClaimsInv
    <2>3. QED
      BY <1>1, <2>1, <2>2, BooksFacts DEF Inv
  <1>3. GivenUpInv'
    BY DEF Inv, GivenUpInv, Tick
  <1>4. QuietInv'
    <2> SUFFICES ASSUME NEW a \in Addr, peers'[a] # None
                 PROVE  /\ next_peers' > 0 => peers'[a].quiet <= INTERVAL - next_peers'
                        /\ flaky' = {} /\ next_peers' = 0 => peers'[a].quiet <= INTERVAL + since'
      BY DEF QuietInv
    <2>1. /\ peers[a] # None /\ peers'[a].quiet \in Nat
          /\ peers'[a].quiet <= peers[a].quiet + 1 /\ peers[a].quiet \in Nat
      BY TickFacts, SecondsFacts DEF Inv
    <2>2. /\ next_peers > 0 => peers[a].quiet <= INTERVAL - next_peers
          /\ flaky = {} /\ next_peers = 0 => peers[a].quiet <= INTERVAL + since
      BY <2>1 DEF Inv, QuietInv
    <2>3. next_peers' = (IF next_peers = 0 THEN 0 ELSE next_peers - 1) /\ flaky' = flaky
      BY DEF Tick
    <2>4. next_peers \in 0 .. INTERVAL /\ since \in 0 .. HOUSEKEEP
      BY BooksFacts DEF Inv
    <2>5. QED
      BY <1>1, <2>1, <2>2, <2>3, <2>4, CloudAssumption DEF HOUSEKEEP
  <1>5. QED
    BY <1>1, <1>2, <1>3, <1>4 DEF Inv

(* An overdue peer and those that replaced others get older together.       *)
LEMMA TickKeepsOverdue ==
    ASSUME Inv, OverdueInv, Tick
    PROVE  OverdueInv'
  <1> SUFFICES ASSUME NEW a \in Addr, peers'[a] # None, peers'[a].timeout < 0
               PROVE  -peers'[a].timeout <= HOUSEKEEP * Cardinality(Replaced(a)') + since'
    BY DEF OverdueInv
  <1>1. /\ peers[a] # None /\ peers'[a].timeout = peers[a].timeout - 1
        /\ peers[a].timeout \in Int
        /\ since' = since + 1 /\ since \in 0 .. HOUSEKEEP
    BY TickFacts, SecondsFacts, BooksFacts DEF Inv
  <1>2. Replaced(a) \subseteq Replaced(a)'
    <2> SUFFICES ASSUME NEW b \in Replaced(a) PROVE b \in Replaced(a)'
      OBVIOUS
    <2>1. b \in Addr /\ (peers[b] = None \/ peers[b].timeout >= PEER_TIMEOUT + peers[a].timeout)
      BY DEF Replaced
    <2>2. IF peers[b] = None THEN peers'[b] = None
          ELSE peers'[b].timeout = peers[b].timeout - 1 /\ peers[b].timeout \in Int
      BY <2>1, TickFacts, SecondsFacts DEF Inv
    <2>3. peers'[b] = None \/ peers'[b].timeout >= PEER_TIMEOUT + peers'[a].timeout
      BY <1>1, <2>1, <2>2, CloudAssumption
    <2>4. QED
      BY <2>1, <2>3 DEF Replaced
  <1>3. /\ Cardinality(Replaced(a)) \in Nat /\ Cardinality(Replaced(a)') \in Nat
        /\ Cardinality(Replaced(a)) <= Cardinality(Replaced(a)')
    <2>1. Replaced(a)' \in SUBSET Addr
      BY DEF Replaced
    <2>2. QED
      BY <1>2, <2>1, CardMonotone
  <1>4. peers[a].timeout < 0 =>
            -peers[a].timeout <= HOUSEKEEP * Cardinality(Replaced(a)) + since
    BY <1>1 DEF OverdueInv
  <1>5. QED
    BY <1>1, <1>3, <1>4 DEF HOUSEKEEP

(* A round of housekeep makes nothing late.                                 *)
LEMMA HousekeepKeepsInv ==
    ASSUME Inv, Housekeep
    PROVE  Inv'
  <1>1. PICK t \in BookSet :
            /\ Keep(t) /\ Fewer(Books, t)
            /\ failing = {} /\ NoneClosed(Books) => NoneClosed(t)
            /\ \A a \in Addr : t.claims[a] # None => t.claims[a] >= 0
            /\ \/ t.next_peers = next_peers /\ (failing # {} \/ t.next_peers > 0)
               \/ /\ t.next_peers = INTERVAL
                  /\ \A a \in Addr : t.peers[a] # None => t.peers[a].quiet = 0
    BY HousekeepFacts DEF Inv
  <1>2. since' = 0 /\ UNCHANGED <<flaky, failing>>
    BY DEF Housekeep
  <1>3. /\ peers' = t.peers /\ claims' = t.claims /\ pending' = t.pending
        /\ next_peers' = t.next_peers
    BY <1>1 DEF Keep
  <1>4. Typed'
    BY <1>1, <1>2, KeepTyped DEF Inv, HOUSEKEEP
  <1>5. ClaimsInv'
    BY <1>1, <1>2, <1>3 DEF ClaimsInv
  <1>6. GivenUpInv'
    <2>1. flaky = {} => failing = {}
      BY DEF Inv, Typed
    <2>2. QED
      BY <1>1, <1>2, <1>3, <2>1, BooksFacts DEF Inv, GivenUpInv, NoneClosed
  <1>7. QuietInv'
    <2> SUFFICES ASSUME NEW a \in Addr, peers'[a] # None
                 PROVE  /\ next_peers' > 0 => peers'[a].quiet <= INTERVAL - next_peers'
                        /\ flaky' = {} /\ next_peers' = 0 => peers'[a].quiet <= INTERVAL + since'
      BY DEF QuietInv
    <2>1. next_peers \in 0 .. INTERVAL
      BY BooksFacts DEF Inv
    <2>2. CASE next_peers' = INTERVAL /\ peers'[a].quiet = 0
      BY <1>2, <2>2, CloudAssumption
    <2>3. CASE next_peers' = next_peers /\ (failing # {} \/ next_peers' > 0)
      <3>1. peers[a] # None /\ peers'[a].quiet \in {0, peers[a].quiet}
        BY <1>1, <1>3, BooksFacts DEF Inv, Fewer
      <3>2. peers[a].quiet \in Nat
        BY <3>1, SecondsFacts DEF Inv
      <3>3. next_peers > 0 => peers[a].quiet <= INTERVAL - next_peers
        BY <3>1 DEF Inv, QuietInv
      <3>4. next_peers' > 0 => peers'[a].quiet <= INTERVAL - next_peers'
        BY <2>1, <2>3, <3>1, <3>2, <3>3, CloudAssumption
      <3>5. flaky' = {} => next_peers' > 0
        BY <1>2, <2>3 DEF Inv, Typed
      <3>6. QED
        BY <2>1, <2>3, <3>4, <3>5
    <2>4. QED
      BY <1>1, <1>3, <2>2, <2>3
  <1>8. QED
    BY <1>4, <1>5, <1>6, <1>7 DEF Inv

(* An overdue peer is never counted among those that replaced others.       *)
LEMMA ReplacedFacts ==
    ASSUME FewPeers, Inv, OverdueInv,
           NEW a \in Addr, peers[a] # None, peers[a].timeout < 0
    PROVE  /\ -peers[a].timeout <= HOUSEKEEP * (Cardinality(Addr) - 1) + since
           /\ PEER_TIMEOUT + peers[a].timeout >= 0
  <1>1. peers[a].timeout \in Int /\ since \in 0 .. HOUSEKEEP
    BY SecondsFacts, BooksFacts DEF Inv
  <1>2. Replaced(a) \subseteq Addr /\ a \notin Replaced(a)
    BY <1>1, CloudAssumption DEF Replaced, FewPeers
  <1>3. /\ Cardinality(Replaced(a)) \in Nat /\ Cardinality(Addr) \in Nat
        /\ Cardinality(Replaced(a)) + 1 <= Cardinality(Addr)
    BY <1>2, CardMonotone
  <1>4. -peers[a].timeout <= HOUSEKEEP * Cardinality(Replaced(a)) + since
    BY DEF OverdueInv
  <1>5. PEER_TIMEOUT \in Nat /\ PEER_TIMEOUT >= HOUSEKEEP * Cardinality(Addr)
    BY CloudAssumption DEF FewPeers
  <1>6. QED
    BY <1>1, <1>3, <1>4, <1>5 DEF HOUSEKEEP

(* A round that misses an overdue peer drops another one, which is then     *)
(* replaced for the first time since the peer is overdue.                   *)
LEMMA HousekeepKeepsOverdue ==
    ASSUME FewPeers, Inv, OverdueInv, Housekeep
    PROVE  OverdueInv'
  <1> SUFFICES ASSUME NEW a \in Addr, peers'[a] # None, peers'[a].timeout < 0
               PROVE  -peers'[a].timeout <= HOUSEKEEP * Cardinality(Replaced(a)') + since'
    BY DEF OverdueInv
  <1>1. PICK t \in BookSet :
            /\ Keep(t) /\ Fewer(Books, t)
            /\ TimedOut(Books) # {} => \E b \in TimedOut(Books) : t.peers[b] = None
    BY HousekeepFacts DEF Inv
  <1>2. since' = 0 /\ peers' = t.peers
    BY <1>1 DEF Housekeep, Keep
  <1>3. \A b \in Addr : peers'[b] = None \/ (/\ peers[b] # None
                                             /\ peers'[b].timeout = peers[b].timeout)
    BY <1>1, <1>2, BooksFacts DEF Fewer, Inv
  <1>4. peers[a] # None /\ peers'[a].timeout = peers[a].timeout
    BY <1>3
  <1>5. peers[a].timeout \in Int /\ since \in 0 .. HOUSEKEEP
    BY <1>4, SecondsFacts, BooksFacts DEF Inv
  <1>6. a \in TimedOut(Books)
    BY <1>4, BooksFacts DEF TimedOut, IsPeer, Inv
  <1>7. PICK b \in TimedOut(Books) : peers'[b] = None
    BY <1>1, <1>2, <1>6
  <1>8. b \in Addr /\ peers[b] # None /\ peers[b].timeout < 0 /\ peers[b].timeout \in Int
    BY BooksFacts, SecondsFacts DEF TimedOut, IsPeer, Inv
  <1>9. PEER_TIMEOUT + peers[a].timeout >= 0
    BY <1>4, ReplacedFacts
  <1>10. b \notin Replaced(a)
    BY <1>5, <1>8, <1>9, CloudAssumption DEF Replaced
  <1>11. Replaced(a) \subseteq Replaced(a)' /\ b \in Replaced(a)'
    BY <1>3, <1>4, <1>7, <1>8 DEF Replaced
  <1>12. /\ Cardinality(Replaced(a)) \in Nat /\ Cardinality(Replaced(a)') \in Nat
         /\ Cardinality(Replaced(a)) + 1 <= Cardinality(Replaced(a)')
    <2>1. Replaced(a)' \in SUBSET Addr
      BY DEF Replaced
    <2>2. QED
      BY <1>10, <1>11, <2>1, CardMonotone
  <1>13. -peers[a].timeout <= HOUSEKEEP * Cardinality(Replaced(a)) + since
    BY <1>4 DEF OverdueInv
  <1>14. QED
    BY <1>2, <1>4, <1>5, <1>12, <1>13 DEF HOUSEKEEP

(* Every step is a message or an outage, a round of housekeep or a second.  *)
LEMMA StepsOfCloud ==
    ASSUME Inv, [Next]_vars
    PROVE  Refresh \/ Housekeep \/ Tick
  <1>1. ASSUME NEW a \in Addr, Receive(a) PROVE Refresh
    <2>1. CASE InitPing(a) \/ InitYield(a) \/ InitFatal(a)
      BY <2>1, InitRefreshes DEF Inv
    <2>2. CASE Keepalive(a)
      BY <2>2, KeepaliveRefreshes DEF Inv
    <2>3. CASE Close(a)
      BY <2>3, CloseRefreshes DEF Inv
    <2>4. CASE \E claiming \in BOOLEAN, others \in SUBSET (Addr \ {a}) :
                    InitSuccess(a, claiming, others)
      BY <2>4, InitSuccessRefreshes DEF Inv
    <2>5. CASE \E claiming \in BOOLEAN, others \in SUBSET (Addr \ {a}) :
                    NodeInfo(a, claiming, others)
      BY <2>5, NodeInfoRefreshes DEF Inv
    <2>6. QED
      BY <1>1, <2>1, <2>2, <2>3, <2>4, <2>5 DEF Receive
  <1>2. ASSUME Outage PROVE Refresh
    BY <1>2, OutageRefreshes DEF Inv
  <1>3. ASSUME UNCHANGED vars PROVE Refresh
    BY <1>3 DEF vars, Refresh, Inv, Typed, Books
  <1>4. QED
    BY <1>1, <1>2, <1>3 DEF Next

(* TypeOK is part of the invariant.                                         *)
LEMMA InvTypeOK == Inv => TypeOK
  <1> SUFFICES ASSUME Inv PROVE TypeOK
    OBVIOUS
  <1>1. \A a \in Addr :
            /\ peers[a] = None \/ (peers[a].timeout <= PEER_TIMEOUT /\ peers[a].quiet \in Nat)
            /\ claims[a] = None \/ claims[a] <= PEER_TIMEOUT
    BY SecondsFacts DEF Inv
  <1>2. \A a \in Addr : pending[a] = None \/ pending[a] \in Pending
    BY BooksFacts DEF Inv
  <1>3. QED
    BY <1>1, <1>2, BooksFacts DEF TypeOK, Inv, Typed, Pending

(* In no state of any run of a node is anything overdue, if all peers that  *)
(* could fail one after the other do so before the first of them times out  *)
(* again: housekeep drops at least one peer in each round, whatever fails.  *)
THEOREM NothingIsOverdue ==
    ASSUME FewPeers
    PROVE  Spec => []NothingOverdue
  <1>1. Init => Inv /\ OverdueInv
    BY InitInv
  <1>2. Inv /\ OverdueInv /\ [Next]_vars => Inv' /\ OverdueInv'
    <2> SUFFICES ASSUME Inv, OverdueInv, [Next]_vars PROVE Inv' /\ OverdueInv'
      OBVIOUS
    <2>1. CASE Refresh
      BY <2>1, RefreshKeepsInv, RefreshKeepsOverdue
    <2>2. CASE Housekeep
      BY <2>2, FewPeers, HousekeepKeepsInv, HousekeepKeepsOverdue
    <2>3. CASE Tick
      BY <2>3, TickKeepsInv, TickKeepsOverdue
    <2>4. QED
      BY <2>1, <2>2, <2>3, StepsOfCloud
  <1>3. Inv /\ OverdueInv => NothingOverdue
    <2> SUFFICES ASSUME Inv, OverdueInv PROVE NothingOverdue
      OBVIOUS
    <2>1. TypeOK
      BY InvTypeOK
    <2>2. ASSUME NEW a \in Addr
          PROVE  /\ peers[a] = None \/ peers[a].timeout >= -Late
                 /\ claims[a] = None \/ claims[a] >= -Late
                 /\ flaky = {} => ~Closed(pending[a])
      <3>1. Cardinality(Addr) \in Nat /\ 1 <= Cardinality(Addr)
        <4>1. Cardinality({}) + 1 <= Cardinality(Addr) /\ Cardinality({}) \in Nat
              /\ Cardinality(Addr) \in Nat
          BY CardMonotone
        <4>2. QED
          BY <4>1
      <3>2. since \in 0 .. HOUSEKEEP
        BY BooksFacts DEF Inv
      <3>3. peers[a] # None => peers[a].timeout >= -Late
        <4> SUFFICES ASSUME peers[a] # None, peers[a].timeout < 0
                     PROVE  peers[a].timeout >= -Late
          BY <3>1, SecondsFacts DEF Late, HOUSEKEEP, Inv
        <4>1. peers[a].timeout \in Int
          BY SecondsFacts DEF Inv
        <4>2. -peers[a].timeout <= HOUSEKEEP * (Cardinality(Addr) - 1) + since
          BY FewPeers, ReplacedFacts
        <4>3. QED
          BY <3>1, <3>2, <4>1, <4>2 DEF Late, HOUSEKEEP
      <3>4. claims[a] # None => claims[a] >= -Late
        <4>1. claims[a] # None => claims[a] \in Int /\ claims[a] >= -since
          BY SecondsFacts DEF Inv, ClaimsInv
        <4>2. QED
          BY <3>1, <3>2, <4>1 DEF Late, HOUSEKEEP
      <3>5. flaky = {} => ~Closed(pending[a])
        BY DEF Inv, GivenUpInv
      <3>6. QED
        BY <3>3, <3>4, <3>5
    <2>3. QED
      BY <2>1, <2>2 DEF NothingOverdue
  <1>4. QED
    BY <1>1, <1>2, <1>3, PTL DEF Spec

(* The node info counts as sent only when every peer got it, and while      *)
(* sending works no peer waits for it until the timeout, if the interval    *)
(* and a round of housekeep fit into the timeout.                           *)
THEOREM PeersAlwaysInformed ==
    ASSUME InfoInTime
    PROVE  Spec => []PeersInformed
  <1>1. Init => Inv
    BY InitInv
  <1>2. Inv /\ [Next]_vars => Inv'
    BY StepsOfCloud, RefreshKeepsInv, HousekeepKeepsInv, TickKeepsInv
  <1>3. Inv => PeersInformed
    <2> SUFFICES ASSUME Inv, NEW a \in Addr, peers[a] # None
                 PROVE  /\ next_peers > 0 => peers[a].quiet <= INTERVAL - next_peers
                        /\ flaky = {} => peers[a].quiet <= PEER_TIMEOUT
      BY DEF PeersInformed
    <2>1. /\ next_peers > 0 => peers[a].quiet <= INTERVAL - next_peers
          /\ flaky = {} /\ next_peers = 0 => peers[a].quiet <= INTERVAL + since
      BY DEF Inv, QuietInv
    <2>2. /\ peers[a].quiet \in Nat /\ next_peers \in 0 .. INTERVAL
          /\ since \in 0 .. HOUSEKEEP
      BY SecondsFacts, BooksFacts DEF Inv
    <2>3. INTERVAL \in Nat /\ PEER_TIMEOUT \in Nat /\ INTERVAL + HOUSEKEEP <= PEER_TIMEOUT
      BY CloudAssumption, InfoInTime DEF InfoInTime
    <2>4. QED
      BY <2>1, <2>2, <2>3 DEF HOUSEKEEP
  <1>4. QED
    BY <1>1, <1>2, <1>3, PTL DEF Spec
=============================================================================
