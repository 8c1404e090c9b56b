------------------------------ MODULE MeshProofs -----------------------------
(***************************************************************************)
(* Proofs about Mesh, for any number of nodes and addresses, any topology  *)
(* and any number of restarts and losses: peer lists never make a node     *)
(* connect to itself.                                                      *)
(*                                                                         *)
(* The loop over a peer list is a recursive function, so the module begins *)
(* with induction and recursion over natural numbers, stated with sets and *)
(* functions in the place of predicates and operators.                     *)
(***************************************************************************)
EXTENDS Mesh, FiniteSetTheorems, TLAPS

(* A set of natural numbers has a least one.                                *)
LEMMA LeastNumber ==
    ASSUME NEW S \in SUBSET Nat, S # {}
    PROVE  \E m \in S : \A k \in S : m <= k
  <1> DEFINE R == OpToRel(<, Nat)
  <1>1. IsWellFoundedOn(R, Nat)
    BY NatLessThanWellFounded
  <1>2. \A x, y \in Nat : x < y => <<x, y>> \in R
    BY DEF OpToRel
  <1> HIDE DEF R
  <1>3. PICK m \in S : \A k \in S : <<k, m>> \notin R
    BY <1>1, WFMin
  <1>4. \A k \in S : ~(k < m)
    BY <1>2, <1>3
  <1>5. \A k \in S : m <= k
    BY <1>4
  <1>6. QED
    BY <1>5

(* What holds at first and after one more round of a loop holds after every *)
(* round.                                                                   *)
LEMMA EveryRound ==
    ASSUME NEW S, NEW n \in Nat, 0 \in S, \A k \in 1 .. n : k - 1 \in S => k \in S
    PROVE  0 .. n \subseteq S
  <1> SUFFICES ASSUME (0 .. n) \ S # {} PROVE FALSE
    OBVIOUS
  <1> DEFINE T == (0 .. n) \ S
  <1>1. T \in SUBSET Nat
    OBVIOUS
  <1>2. PICK m \in T : \A k \in T : m <= k
    <2> HIDE DEF T
    <2> QED
      BY <1>1, LeastNumber DEF T
  <1>3. m \in 1 .. n /\ m - 1 \in S
    BY <1>2
  <1>4. QED
    BY <1>2, <1>3

\* A run of a loop: from b, round k leads from c to G[k][c].
RunOf(f, B, b, n, G) ==
    f \in [0 .. n -> B] /\ f[0] = b /\ \A k \in 1 .. n : f[k] = G[k][f[k - 1]]

(* A loop has a run, which is what a recursive function stands for.         *)
LEMMA LoopRuns ==
    ASSUME NEW B, NEW b \in B, NEW n \in Nat, NEW G \in [1 .. n -> [B -> B]]
    PROVE  \E f : RunOf(f, B, b, n, G)
  <1> DEFINE Run(m) == \E f \in [0 .. m -> B] :
                            f[0] = b /\ \A k \in 1 .. m : f[k] = G[k][f[k - 1]]
             S == {m \in 0 .. n : Run(m)}
  <1>1. 0 \in S
    <2> DEFINE f == [k \in 0 .. 0 |-> b]
    <2>1. f \in [0 .. 0 -> B] /\ f[0] = b /\ \A k \in 1 .. 0 : f[k] = G[k][f[k - 1]]
      OBVIOUS
    <2> HIDE DEF f
    <2>2. Run(0)
      BY <2>1
    <2>3. QED
      BY <2>2
  <1>2. ASSUME NEW m \in 1 .. n, m - 1 \in S PROVE m \in S
    <2>1. PICK f \in [0 .. m - 1 -> B] :
            f[0] = b /\ \A k \in 1 .. m - 1 : f[k] = G[k][f[k - 1]]
      BY <1>2
    <2> DEFINE g == [k \in 0 .. m |-> IF k < m THEN f[k] ELSE G[m][f[m - 1]]]
    <2>2. g \in [0 .. m -> B]
      BY <2>1
    <2>3. g[0] = b /\ \A k \in 1 .. m : g[k] = G[k][g[k - 1]]
      BY <2>1
    <2> HIDE DEF g
    <2>4. Run(m)
      BY <2>2, <2>3
    <2>5. m \in 0 .. n
      OBVIOUS
    <2> HIDE DEF Run
    <2>6. QED
      BY <2>4, <2>5
  <1>3. n \in S
    <2> HIDE DEF S
    <2>1. 0 .. n \subseteq S
      BY <1>1, <1>2, EveryRound
    <2>2. QED
      BY <2>1
  <1>4. QED
    BY <1>3 DEF RunOf

-----------------------------------------------------------------------------
(* The books.                                                               *)

\* What nodes say about a node: addresses of that node and no other, among
\* them a mapped one that the node itself finds whenever it looks.
Entries ==
    {e \in [node_id : Node \X Nat, addrs : SUBSET Addr] :
        /\ \A q \in e.addrs : Owner[q] = e.node_id[1]
        /\ \E q \in e.addrs : q \in OwnAddrs[e.node_id[1]] /\ Mapped(q)}

Infos(n) ==
    {i \in [node_id : {n} \X Nat, addrs : SUBSET Addr, peers : SUBSET Entries] :
        /\ \A q \in i.addrs : Owner[q] = n
        /\ OwnAddrs[n] \subseteq i.addrs /\ IsFiniteSet(i.peers)}

Inits(n) == [stage : {"pong", "peng"}, answered : BOOLEAN, info : Infos(n)]

BookType(n) ==
    [peers : [Addr -> Entries \cup {None}], pending : [Addr -> Inits(n) \cup {None}],
     own : SUBSET Addr]

BooksOf(n) ==
    {s \in BookType(n) :
        /\ OwnAddrs[n] \subseteq s.own /\ \A q \in s.own : Owner[q] = n
        /\ \A q \in Addr : Owner[q] = n => s.pending[q] = None /\ s.peers[q] = None}

Inv ==
    /\ up \in [Node -> BOOLEAN] /\ life \in [Node -> Nat]
    /\ book = [n \in Node |-> book[n]]
    /\ \A n \in Node : book[n] \in BooksOf(n)

\* The configuration names other nodes, or addresses that the node knows as its
\* own.
OthersConfigured == \A n \in Node : \A q \in Configured[n] :
    Owner[q] # n \/ mapped_addr[q] \in OwnAddrs[n]

(* The addresses a node finds are its own, and one of them is mapped.       *)
LEMMA MeshFacts ==
    /\ \A q \in Addr : /\ Owner[q] \in Node /\ mapped_addr[q] \in Addr
                       /\ Owner[mapped_addr[q]] = Owner[q]
    /\ \A n \in Node : /\ OwnAddrs[n] \subseteq Addr /\ \E q \in OwnAddrs[n] : Mapped(q)
                       /\ \A q \in OwnAddrs[n] : Owner[q] = n
  BY MeshAssumption

(* The fields of a book.                                                    *)
LEMMA BookFacts ==
    ASSUME NEW n, NEW s \in BooksOf(n)
    PROVE  /\ s \in BookType(n)
           /\ s.peers \in [Addr -> Entries \cup {None}]
           /\ s.pending \in [Addr -> Inits(n) \cup {None}] /\ s.own \in SUBSET Addr
           /\ OwnAddrs[n] \subseteq s.own /\ \A q \in s.own : Owner[q] = n
           /\ \A q \in Addr : Owner[q] = n => s.pending[q] = None /\ s.peers[q] = None
  BY DEF BooksOf, BookType

(* create_node_info speaks the truth.                                       *)
LEMMA InfoFacts ==
    ASSUME life \in [Node -> Nat], NEW n \in Node, NEW s \in BooksOf(n)
    PROVE  create_node_info(s, n) \in Infos(n)
  <1> DEFINE D == {r \in Addr : s.peers[r] # None}
             T == {s.peers[q] : q \in D}
             f == [q \in D |-> s.peers[q]]
  <1>1. IsFiniteSet(D)
    BY FS_Subset, MeshAssumption
  <1>2. f \in Surjection(D, T)
    BY DEF Surjection
  <1>3. IsFiniteSet(T)
    <2> HIDE DEF D, T, f
    <2> QED
      BY <1>1, <1>2, FS_Surjection
  <1>4. T \in SUBSET Entries
    BY BookFacts
  <1>5. create_node_info(s, n) = [node_id |-> <<n, life[n]>>, addrs |-> s.own, peers |-> T]
    BY DEF create_node_info, Id
  <1> HIDE DEF T
  <1>6. <<n, life[n]>> \in {n} \X Nat
    OBVIOUS
  <1>7. QED
    BY <1>3, <1>4, <1>5, <1>6, BookFacts DEF Infos

(* connect_sock adds pending inits, for the addresses of other nodes if it  *)
(* is called with such.                                                     *)
LEMMA ConnectSockFacts ==
    ASSUME life \in [Node -> Nat], NEW n \in Node, NEW s \in BooksOf(n),
           NEW addrs, \A q \in AllMapped(addrs) : q \in Addr /\ ~Known(s, q) => Owner[q] # n
    PROVE  connect_sock(s, n, addrs) \in BooksOf(n)
  <1> DEFINE i == [stage |-> "pong", answered |-> FALSE, info |-> create_node_info(s, n)]
             new == {q \in AllMapped(addrs) : ~Known(s, q)}
             I == [q \in Addr |-> IF q \in new THEN i ELSE s.pending[q]]
             t == connect_sock(s, n, addrs)
  <1>1. i \in Inits(n)
    BY InfoFacts DEF Inits
  <1>2. t = [s EXCEPT !.pending = I]
    BY DEF connect_sock
  <1> HIDE DEF i
  <1>3. I \in [Addr -> Inits(n) \cup {None}]
    BY <1>1, BookFacts
  <1>4. \A q \in Addr : Owner[q] = n => I[q] = None
    BY BookFacts
  <1> HIDE DEF I, t
  <1>5. t \in BookType(n) /\ t.peers = s.peers /\ t.own = s.own /\ t.pending = I
    BY <1>2, <1>3, BookFacts DEF BookType
  <1>6. QED
    BY <1>4, <1>5, BookFacts DEF BooksOf, t

(* One round of the loop in connect_to_peers: an entry about the node       *)
(* itself, under whatever id, names an address that the node knows.         *)
LEMMA ConnectToPeerFacts ==
    ASSUME life \in [Node -> Nat], NEW n \in Node, NEW s \in BooksOf(n), NEW peer \in Entries
    PROVE  connect_to_peer(s, n, peer) \in BooksOf(n)
  <1> DEFINE t == connect_to_peer(s, n, peer)
  <1>1. /\ peer.addrs \in SUBSET Addr /\ peer.node_id \in Node \X Nat
        /\ \A q \in peer.addrs : Owner[q] = peer.node_id[1]
        /\ \E q \in peer.addrs : q \in OwnAddrs[peer.node_id[1]] /\ Mapped(q)
    BY DEF Entries
  <1>2. CASE t = s
    BY <1>2
  <1>3. CASE peer.node_id = Id(n) /\ t = [s EXCEPT !.own = s.own \cup peer.addrs]
    <2>1. peer.node_id[1] = n
      BY <1>3 DEF Id
    <2> DEFINE O == s.own \cup peer.addrs
    <2>2. O \in SUBSET Addr /\ OwnAddrs[n] \subseteq O /\ \A q \in O : Owner[q] = n
      BY <1>1, <2>1, BookFacts
    <2> HIDE DEF t, O
    <2>3. t = [s EXCEPT !.own = O]
      BY <1>3 DEF O
    <2>4. t \in BookType(n) /\ t.peers = s.peers /\ t.own = O /\ t.pending = s.pending
      BY <2>2, <2>3, BookFacts DEF BookType
    <2>5. t \in BooksOf(n)
      BY <2>2, <2>4, BookFacts DEF BooksOf
    <2>6. QED
      BY <2>5 DEF t
  <1>4. CASE /\ \A q \in AllMapped(peer.addrs) : ~Known(s, q)
             /\ t = connect_sock(s, n, peer.addrs)
    <2>1. peer.node_id[1] # n
      BY <1>1, <1>4, BookFacts DEF Known, AllMapped, Mapped
    <2>2. \A q \in AllMapped(peer.addrs) : Owner[q] # n
      BY <1>1, <2>1, MeshFacts DEF AllMapped
    <2>3. QED
      BY <1>4, <2>2, ConnectSockFacts
  <1>5. QED
    BY <1>2, <1>3, <1>4 DEF connect_to_peer, connect

(* The whole loop, for a list of any length.                                *)
LEMMA ConnectToPeersFacts ==
    ASSUME life \in [Node -> Nat], NEW n \in Node, NEW books \in SUBSET BooksOf(n),
           NEW len \in Nat, NEW list \in [1 .. len -> Entries]
    PROVE  connect_to_peers(books, n, list) \subseteq BooksOf(n)
  <1> DEFINE B == SUBSET BooksOf(n)
             Round(k, c) == {connect_to_peer(s, n, list[k]) : s \in c}
             G == [k \in 1 .. len |-> [c \in B |-> Round(k, c)]]
             IsRun(f) == f = [k \in 0 .. len |-> IF k = 0 THEN books ELSE Round(k, f[k - 1])]
             after == CHOOSE f : IsRun(f)
  <1>1. Len(list) = len
    OBVIOUS
  <1>2. connect_to_peers(books, n, list) = after[len]
    BY <1>1 DEF connect_to_peers
  <1>3. \A k \in 1 .. len, c \in B : Round(k, c) \in B
    BY ConnectToPeerFacts
  <1> HIDE DEF Round
  <1>4. G \in [1 .. len -> [B -> B]]
    BY <1>3
  <1>5. \E f : IsRun(f)
    <2>1. PICK f : RunOf(f, B, books, len, G)
      <3> HIDE DEF B, G
      <3>1. books \in B
        BY DEF B
      <3>2. QED
        BY <1>4, <3>1, LoopRuns
    <2>2. f \in [0 .. len -> B] /\ f[0] = books
      BY <2>1 DEF RunOf
    <2>3. \A k \in 1 .. len : f[k] = Round(k, f[k - 1])
      <3> SUFFICES ASSUME NEW k \in 1 .. len PROVE f[k] = Round(k, f[k - 1])
        OBVIOUS
      <3>1. f[k] = G[k][f[k - 1]] /\ k - 1 \in 0 .. len
        <4> HIDE DEF G
        <4> QED
          BY <2>1 DEF RunOf
      <3>2. f[k - 1] \in B
        BY <2>2, <3>1
      <3>3. QED
        BY <3>1, <3>2
    <2>4. IsRun(f)
      BY <2>2, <2>3
    <2>5. QED
      BY <2>4
  <1>6. IsRun(after)
    <2> HIDE DEF IsRun
    <2> QED
      BY <1>5
  <1> HIDE DEF after
  <1>7. after[0] = books /\ \A k \in 1 .. len : after[k] = Round(k, after[k - 1])
    BY <1>6
  <1> DEFINE S == {k \in 0 .. len : after[k] \in B}
  <1>8. 0 \in S /\ \A k \in 1 .. len : k - 1 \in S => k \in S
    BY <1>3, <1>7
  <1>9. len \in S
    <2> HIDE DEF S
    <2>1. 0 .. len \subseteq S
      BY <1>8, EveryRound
    <2>2. QED
      BY <2>1
  <1>10. QED
    BY <1>2, <1>9

(* update_peer_info, with what the node at the address q says.              *)
LEMMA UpdateFacts ==
    ASSUME life \in [Node -> Nat], NEW n \in Node, NEW q \in Addr, Owner[q] # n,
           NEW s \in BooksOf(n), NEW id \in {Owner[q]} \X Nat, NEW a,
           s.peers[q] = [node_id |-> id, addrs |-> a],
           NEW info \in Infos(Owner[q])
    PROVE  update_peer_info(s, n, q, info) \subseteq BooksOf(n)
  <1> DEFINE e == [node_id |-> id, addrs |-> {q} \cup info.addrs]
             P == [s.peers EXCEPT ![q] = e]
             t == [s EXCEPT !.peers[q].addrs = {q} \cup info.addrs]
  <1>1. /\ info.addrs \in SUBSET Addr /\ \A r \in info.addrs : Owner[r] = Owner[q]
        /\ OwnAddrs[Owner[q]] \subseteq info.addrs
        /\ info.peers \in SUBSET Entries /\ IsFiniteSet(info.peers)
    BY DEF Infos
  <1>2. e \in Entries
    <2>1. id \in Node \X Nat /\ id[1] = Owner[q]
      BY MeshFacts
    <2>2. \E r \in e.addrs : r \in OwnAddrs[Owner[q]] /\ Mapped(r)
      BY <1>1, MeshFacts
    <2>3. QED
      BY <1>1, <2>1, <2>2 DEF Entries
  <1>3. [s.peers[q] EXCEPT !.addrs = {q} \cup info.addrs] = e
    <2>1. \A f, x : f = [node_id |-> id, addrs |-> a] =>
                        [f EXCEPT !.addrs = x] = [node_id |-> id, addrs |-> x]
      OBVIOUS
    <2>2. QED
      BY <2>1, Zenon
  <1>4. t = [s EXCEPT !.peers = P]
    BY <1>3
  <1> HIDE DEF e
  <1>5. /\ P \in [Addr -> Entries \cup {None}]
        /\ \A r \in Addr : r # q => P[r] = s.peers[r]
    BY <1>2, BookFacts
  <1> HIDE DEF P
  <1>6. t \in BookType(n) /\ t.peers = P /\ t.own = s.own /\ t.pending = s.pending
    <2> HIDE DEF t
    <2> QED
      BY <1>4, <1>5, BookFacts DEF BookType
  <1>7. t \in BooksOf(n)
    <2> HIDE DEF t
    <2> QED
      BY <1>5, <1>6, BookFacts DEF BooksOf
  <1>8. ASSUME NEW list \in SetToSeqs(info.peers)
        PROVE  connect_to_peers({t}, n, list) \subseteq BooksOf(n)
    <2> DEFINE len == Cardinality(info.peers)
    <2>1. len \in Nat
      BY <1>1, FS_CardinalityType
    <2>2. list \in [1 .. len -> Entries]
      BY <1>1 DEF SetToSeqs
    <2> HIDE DEF len, t
    <2>3. {t} \in SUBSET BooksOf(n)
      BY <1>7
    <2>4. QED
      BY <2>1, <2>2, <2>3, ConnectToPeersFacts
  <1>9. QED
    BY <1>8 DEF update_peer_info

(* The end of a handshake adds the peer.                                    *)
LEMMA AddNewPeerFacts ==
    ASSUME life \in [Node -> Nat], NEW n \in Node, NEW q \in Addr, Owner[q] # n,
           NEW s \in BooksOf(n), NEW info \in Infos(Owner[q])
    PROVE  add_new_peer(s, n, q, info) \subseteq BooksOf(n)
  <1> DEFINE e == [node_id |-> info.node_id, addrs |-> info.addrs]
             P == [s.peers EXCEPT ![q] = e]
             I == [s.pending EXCEPT ![q] = None]
             t == [s EXCEPT !.pending[q] = None, !.peers[q] = e]
  <1>1. /\ info.addrs \in SUBSET Addr /\ \A r \in info.addrs : Owner[r] = Owner[q]
        /\ OwnAddrs[Owner[q]] \subseteq info.addrs /\ info.node_id \in {Owner[q]} \X Nat
    BY DEF Infos
  <1>2. e \in Entries
    <2>1. info.node_id \in Node \X Nat /\ info.node_id[1] = Owner[q]
      BY <1>1, MeshFacts
    <2>2. \E r \in e.addrs : r \in OwnAddrs[Owner[q]] /\ Mapped(r)
      BY <1>1, MeshFacts
    <2>3. QED
      BY <1>1, <2>1, <2>2 DEF Entries
  <1>3. t = [s EXCEPT !.pending = I, !.peers = P]
    OBVIOUS
  <1>4. /\ P \in [Addr -> Entries \cup {None}] /\ P[q] = e
        /\ \A r \in Addr : r # q => P[r] = s.peers[r]
    <2> HIDE DEF e
    <2> QED
      BY <1>2, BookFacts
  <1>5. /\ I \in [Addr -> Inits(n) \cup {None}]
        /\ \A r \in Addr : s.pending[r] = None => I[r] = None
    BY BookFacts
  <1>6. add_new_peer(s, n, q, info) = update_peer_info(t, n, q, info)
    BY DEF add_new_peer
  <1> HIDE DEF e, P, I, t
  <1>7. t \in BookType(n) /\ t.peers = P /\ t.own = s.own /\ t.pending = I
    <2>1. s \in BookType(n)
      BY BookFacts
    <2>2. P \in [Addr -> Entries \cup {None}] /\ I \in [Addr -> Inits(n) \cup {None}]
      BY <1>4, <1>5
    <2>3. QED
      BY <1>3, <2>1, <2>2 DEF BookType
  <1>8. t \in BooksOf(n)
    BY <1>4, <1>5, <1>7, BookFacts DEF BooksOf
  <1>9. t.peers[q] = [node_id |-> info.node_id, addrs |-> info.addrs]
    BY <1>4, <1>7 DEF e
  <1>10. QED
    BY <1>1, <1>6, <1>8, <1>9, UpdateFacts

(* A book without some of its peers and pending inits, or with the own      *)
(* addresses that the node finds, is still a book.                          *)
LEMMA SmallerFacts ==
    ASSUME NEW n \in Node, NEW s \in BooksOf(n), NEW t \in BookType(n),
           \A q \in Addr : t.peers[q] \in {None, s.peers[q]},
           \A q \in Addr : t.pending[q] \in {None, s.pending[q]},
           t.own \in {s.own, OwnAddrs[n]}
    PROVE  t \in BooksOf(n)
  BY BookFacts, MeshFacts DEF BooksOf

(* A peer that is lost is connected to again; it was not the node itself.   *)
LEMMA ReconnectFacts ==
    ASSUME life \in [Node -> Nat], NEW n \in Node, NEW q \in Addr, Owner[q] # n,
           NEW s \in BooksOf(n)
    PROVE  Reconnect(s, n, q) \in BooksOf(n)
  <1> DEFINE P == [s.peers EXCEPT ![q] = None]
             t == [s EXCEPT !.peers[q] = None]
  <1>1. t = [s EXCEPT !.peers = P]
    OBVIOUS
  <1>2. P \in [Addr -> Entries \cup {None}] /\ \A r \in Addr : P[r] \in {None, s.peers[r]}
    BY BookFacts
  <1> HIDE DEF P, t
  <1>3. t \in BookType(n) /\ t.peers = P /\ t.own = s.own /\ t.pending = s.pending
    BY <1>1, <1>2, BookFacts DEF BookType
  <1>4. t \in BooksOf(n)
    BY <1>2, <1>3, SmallerFacts
  <1>5. connect_sock(t, n, {q}) \in BooksOf(n)
    BY <1>4, MeshFacts, ConnectSockFacts DEF AllMapped
  <1>6. QED
    BY <1>5 DEF Reconnect, t

(* A book without one of its pending inits.                                 *)
LEMMA ForgetFacts ==
    ASSUME NEW n \in Node, NEW q \in Addr, NEW s \in BooksOf(n),
           NEW t, t = [s EXCEPT !.pending[q] = None]
    PROVE  t \in BooksOf(n)
  <1> DEFINE I == [s.pending EXCEPT ![q] = None]
  <1>1. t = [s EXCEPT !.pending = I]
    OBVIOUS
  <1>2. I \in [Addr -> Inits(n) \cup {None}] /\ \A r \in Addr : I[r] \in {None, s.pending[r]}
    BY BookFacts
  <1> HIDE DEF I
  <1>3. t \in BookType(n) /\ t.peers = s.peers /\ t.own = s.own /\ t.pending = I
    BY <1>1, <1>2, BookFacts DEF BookType
  <1>4. QED
    BY <1>2, <1>3, SmallerFacts

(* A book with another pending init, for the address of another node.       *)
LEMMA PendingFacts ==
    ASSUME NEW n \in Node, NEW q \in Addr, Owner[q] # n, NEW s \in BooksOf(n),
           NEW i \in Inits(n), NEW t, t = [s EXCEPT !.pending[q] = i]
    PROVE  t \in BooksOf(n)
  <1> DEFINE I == [s.pending EXCEPT ![q] = i]
  <1>1. t = [s EXCEPT !.pending = I]
    OBVIOUS
  <1>2. /\ I \in [Addr -> Inits(n) \cup {None}]
        /\ \A r \in Addr : r # q => I[r] = s.pending[r]
    BY BookFacts
  <1> HIDE DEF I
  <1>3. t \in BookType(n) /\ t.peers = s.peers /\ t.own = s.own /\ t.pending = I
    BY <1>1, <1>2, BookFacts DEF BookType
  <1>4. QED
    BY <1>2, <1>3, BookFacts DEF BooksOf

-----------------------------------------------------------------------------
(* The steps.                                                               *)

(* A step that changes the book of one node.                                *)
LEMMA SetKeepsInv ==
    ASSUME Inv, NEW n \in Node, NEW s \in BooksOf(n), Set(n, s), UNCHANGED <<up, life>>
    PROVE  Inv'
  BY DEF Inv, Set

(* A step that changes the books of two nodes.                              *)
LEMMA BothKeepInv ==
    ASSUME Inv, NEW n \in Node, NEW m \in Node, NEW s \in BooksOf(n), NEW t \in BooksOf(m),
           n # m, book' = [book EXCEPT ![n] = s, ![m] = t], UNCHANGED <<up, life>>
    PROVE  Inv'
  BY DEF Inv

(* Where a message of n to q arrives, and from which address.               *)
LEMMA ReachesFacts ==
    ASSUME NEW n \in Node, NEW q \in Addr, Reaches(n, q)
    PROVE  Owner[q] \in Node /\ Source[n][q] \in Addr /\ Owner[Source[n][q]] = n
  BY MeshAssumption DEF Reaches

(* A pending init, and with it the address of another node.                 *)
LEMMA WaitsFacts ==
    ASSUME Inv, NEW n \in Node, NEW q \in Addr, book[n].pending[q] # None
    PROVE  book[n].pending[q] \in Inits(n) /\ book[n].pending[q].info \in Infos(n)
           /\ Owner[q] # n
  <1>1. book[n] \in BooksOf(n)
    BY DEF Inv
  <1>2. book[n].pending[q] \in Inits(n) /\ Owner[q] # n
    BY <1>1, BookFacts
  <1>3. QED
    BY <1>2 DEF Inits

(* The node connects only to addresses of its configuration that are not    *)
(* its own.                                                                 *)
LEMMA ConnectKeepsInv ==
    ASSUME OthersConfigured, Inv, NEW n \in Node, NEW q \in Addr, Connect(n, q)
    PROVE  Inv'
  <1>1. book[n] \in BooksOf(n) /\ life \in [Node -> Nat]
    BY DEF Inv
  <1>2. ~Known(book[n], mapped_addr[q]) /\ q \in Configured[n]
    BY DEF Connect
  <1>3. Owner[mapped_addr[q]] # n
    BY <1>1, <1>2, BookFacts, MeshFacts DEF Known, OthersConfigured
  <1>4. connect_sock(book[n], n, {q}) \in BooksOf(n)
    BY <1>1, <1>3, ConnectSockFacts DEF AllMapped
  <1>5. connect(book[n], n, {q}) \in BooksOf(n)
    BY <1>1, <1>4 DEF connect
  <1>6. QED
    BY <1>5, SetKeepsInv DEF Connect, Same

(* The answer to a ping.                                                    *)
LEMMA AnswerKeepsInv ==
    ASSUME Inv, NEW n \in Node, NEW q \in Addr, Answer(n, q)
    PROVE  Inv'
  <1> DEFINE m == Owner[q]
             p == Source[n][q]
             info == IF Opposite(n, q) = None THEN create_node_info(book[m], m)
                     ELSE Opposite(n, q).info
             i == [stage |-> "peng", answered |-> FALSE, info |-> info]
             old == book[n].pending[q]
             j == [old EXCEPT !.answered = TRUE]
             s == [book[n] EXCEPT !.pending[q] = j]
             t == [book[m] EXCEPT !.pending[p] = i]
  <1>1. /\ m \in Node /\ p \in Addr /\ Owner[p] = n
    BY ReachesFacts DEF Answer
  <1>2. old \in Inits(n) /\ m # n
    BY WaitsFacts DEF Answer, Waits
  <1>3. /\ book[n] \in BooksOf(n) /\ book[m] \in BooksOf(m) /\ life \in [Node -> Nat]
        /\ book = [k \in Node |-> book[k]]
    BY <1>1 DEF Inv
  <1>4. info \in Infos(m)
    BY <1>1, <1>3, InfoFacts, WaitsFacts DEF Opposite
  <1>5. i \in Inits(m)
    BY <1>4 DEF Inits
  <1>6. j \in Inits(n)
    <2> HIDE DEF old
    <2> QED
      BY <1>2 DEF Inits
  <1>7. book' = [book EXCEPT ![n].pending[q].answered = TRUE, ![m].pending[p] = i]
    BY DEF Answer
  <1>8. book' = [book EXCEPT ![n] = s, ![m] = t]
    BY <1>1, <1>2, <1>3, <1>7
  <1> HIDE DEF info, i, j, m, p, old
  <1>9. s \in BooksOf(n)
    BY <1>2, <1>3, <1>6, PendingFacts DEF m
  <1>10. t \in BooksOf(m)
    BY <1>1, <1>2, <1>3, <1>5, PendingFacts
  <1> HIDE DEF s, t
  <1>11. QED
    BY <1>1, <1>2, <1>8, <1>9, <1>10, BothKeepInv DEF Answer, Same

(* A handshake that the other side refuses.                                 *)
LEMMA RefusedKeepsInv ==
    ASSUME Inv, NEW n \in Node, NEW q \in Addr, Refused(n, q)
    PROVE  Inv'
  <1> DEFINE b == book[n]
             s == [b EXCEPT !.pending[q] = None]
  <1>1. b \in BooksOf(n) /\ Set(n, s) /\ UNCHANGED <<up, life>>
    BY DEF Inv, Refused, Same
  <1> HIDE DEF b
  <1>2. s \in BooksOf(n)
    BY <1>1, ForgetFacts
  <1> HIDE DEF s
  <1>3. QED
    BY <1>1, <1>2, SetKeepsInv

(* The end of a handshake: each side learns about the other.                *)
LEMMA EstablishKeepsInv ==
    ASSUME Inv, NEW n \in Node, NEW q \in Addr, Establish(n, q)
    PROVE  Inv'
  <1> DEFINE m == Owner[q]
             p == Source[n][q]
  <1>1. /\ m \in Node /\ p \in Addr /\ Owner[p] = n
    BY ReachesFacts DEF Establish
  <1>2. book[n].pending[q] # None /\ book[m].pending[p] # None
    BY DEF Establish, Matched, Waits, Opposite
  <1>3. book[n].pending[q].info \in Infos(n) /\ m # n
    BY <1>2, WaitsFacts
  <1>4. book[m].pending[p].info \in Infos(m)
    BY <1>1, <1>2, WaitsFacts
  <1>5. book[n] \in BooksOf(n) /\ book[m] \in BooksOf(m) /\ life \in [Node -> Nat]
    BY <1>1 DEF Inv
  <1>6. PICK s \in add_new_peer(book[n], n, q, book[m].pending[p].info),
             t \in add_new_peer(book[m], m, p, book[n].pending[q].info) :
                book' = [book EXCEPT ![n] = s, ![m] = t]
    BY DEF Establish, Opposite
  <1>7. s \in BooksOf(n)
    BY <1>3, <1>4, <1>5, AddNewPeerFacts
  <1>8. t \in BooksOf(m)
    <2>1. book[n].pending[q].info \in Infos(Owner[p]) /\ Owner[p] # m
      BY <1>1, <1>3
    <2> HIDE DEF m, p
    <2>2. QED
      BY <1>1, <1>5, <1>6, <2>1, AddNewPeerFacts
  <1>9. QED
    BY <1>1, <1>3, <1>6, <1>7, <1>8, BothKeepInv DEF Establish, Same

(* A handshake that is given up, and the peer with that address.            *)
LEMMA GiveUpKeepsInv ==
    ASSUME Inv, NEW n \in Node, NEW q \in Addr, GiveUp(n, q)
    PROVE  Inv'
  <1> DEFINE b == book[n]
             s == [b EXCEPT !.pending[q] = None]
             t == IF s.peers[q] = None THEN s ELSE Reconnect(s, n, q)
  <1>1. /\ b \in BooksOf(n) /\ Set(n, t) /\ UNCHANGED <<up, life>> /\ life \in [Node -> Nat]
    BY DEF Inv, GiveUp
  <1>2. Owner[q] # n
    BY WaitsFacts DEF GiveUp
  <1> HIDE DEF b
  <1>3. s \in BooksOf(n)
    BY <1>1, ForgetFacts
  <1> HIDE DEF s
  <1>4. t \in BooksOf(n)
    BY <1>1, <1>2, <1>3, ReconnectFacts
  <1> HIDE DEF t
  <1>5. QED
    BY <1>1, <1>4, SetKeepsInv

(* A node info from a peer.                                                 *)
LEMMA NodeInfoKeepsInv ==
    ASSUME Inv, NEW n \in Node, NEW q \in Addr, NodeInfo(n, q)
    PROVE  Inv'
  <1> DEFINE m == Owner[q]
             info == create_node_info(book[m], m)
             e == book[n].peers[q]
  <1>1. Reaches(n, q) /\ e # None /\ e.node_id = <<m, life[m]>> /\ UNCHANGED <<up, life>>
    BY DEF NodeInfo, Hears, Linked, Id, Same
  <1>2. m \in Node
    BY <1>1, ReachesFacts
  <1>3. book[n] \in BooksOf(n) /\ book[m] \in BooksOf(m) /\ life \in [Node -> Nat]
    BY <1>2 DEF Inv
  <1>4. info \in Infos(m)
    BY <1>2, <1>3, InfoFacts
  <1>5. e \in Entries /\ m # n
    BY <1>1, <1>3, BookFacts
  <1>6. e.node_id \in {m} \X Nat
    BY <1>1, <1>2, <1>3
  <1>7. e = [node_id |-> e.node_id, addrs |-> e.addrs]
    <2> HIDE DEF e
    <2> QED
      BY <1>5 DEF Entries
  <1>8. update_peer_info(book[n], n, q, info) \subseteq BooksOf(n)
    <2> HIDE DEF info
    <2> QED
      BY <1>3, <1>4, <1>5, <1>6, <1>7, UpdateFacts
  <1>9. PICK s \in update_peer_info(book[n], n, q, info) : Set(n, s)
    BY DEF NodeInfo
  <1>10. QED
    BY <1>1, <1>8, <1>9, SetKeepsInv

(* A peer that was silent for too long.                                     *)
LEMMA TimeoutKeepsInv ==
    ASSUME Inv, NEW n \in Node, NEW q \in Addr, Timeout(n, q)
    PROVE  Inv'
  <1>1. /\ book[n] \in BooksOf(n) /\ Set(n, Reconnect(book[n], n, q))
        /\ UNCHANGED <<up, life>> /\ life \in [Node -> Nat] /\ book[n].peers[q] # None
    BY DEF Inv, Timeout
  <1>2. Owner[q] # n
    BY <1>1, BookFacts
  <1>3. Reconnect(book[n], n, q) \in BooksOf(n)
    BY <1>1, <1>2, ReconnectFacts
  <1>4. QED
    BY <1>1, <1>3, SetKeepsInv

(* The own addresses are looked up again.                                   *)
LEMMA ResetOwnKeepsInv ==
    ASSUME Inv, NEW n \in Node, ResetOwn(n)
    PROVE  Inv'
  <1> DEFINE b == book[n]
             s == [b EXCEPT !.own = OwnAddrs[n]]
  <1>1. b \in BooksOf(n) /\ Set(n, s) /\ UNCHANGED <<up, life>>
    BY DEF Inv, ResetOwn, Same
  <1> HIDE DEF b
  <1>2. s \in BookType(n) /\ s.peers = b.peers /\ s.pending = b.pending /\ s.own = OwnAddrs[n]
    BY <1>1, BookFacts, MeshFacts DEF BookType
  <1> HIDE DEF s
  <1>3. s \in BooksOf(n)
    BY <1>1, <1>2, SmallerFacts
  <1>4. QED
    BY <1>1, <1>3, SetKeepsInv

(* The empty book of a node that has just started.                          *)
LEMMA NoBookFacts ==
    ASSUME NEW n \in Node
    PROVE  NoBook(n) \in BooksOf(n)
  <1>1. NoBook(n) \in BookType(n)
    BY MeshFacts DEF NoBook, BookType
  <1>2. NoBook(n).own = OwnAddrs[n]
        /\ \A q \in Addr : NoBook(n).peers[q] = None /\ NoBook(n).pending[q] = None
    BY DEF NoBook
  <1>3. QED
    BY <1>1, <1>2, MeshFacts DEF BooksOf

(* A node stops, and some of the others hear of it.                         *)
LEMMA StopKeepsInv ==
    ASSUME Inv, NEW m \in Node, Stop(m)
    PROVE  Inv'
  <1>1. PICK told \in SUBSET {q \in Addr : Owner[q] = m} :
        book' = [n \in Node |->
            IF n = m THEN NoBook(m)
            ELSE [book[n] EXCEPT !.peers = [q \in Addr |->
                IF q \in told /\ Hears(n, q) THEN None ELSE book[n].peers[q]]]]
    BY DEF Stop
  <1>2. ASSUME NEW n \in Node, n # m PROVE book'[n] \in BooksOf(n)
    <2> DEFINE b == book[n]
               P == [q \in Addr |-> IF q \in told /\ Hears(n, q) THEN None ELSE b.peers[q]]
               s == [b EXCEPT !.peers = P]
    <2>1. book'[n] = s
      BY <1>1, <1>2
    <2>2. b \in BooksOf(n)
      BY DEF Inv
    <2> HIDE DEF b
    <2>3. P \in [Addr -> Entries \cup {None}] /\ \A q \in Addr : P[q] \in {None, b.peers[q]}
      BY <2>2, BookFacts
    <2> HIDE DEF P
    <2>4. s \in BookType(n) /\ s.peers = P /\ s.pending = b.pending /\ s.own = b.own
      BY <2>2, <2>3, BookFacts DEF BookType
    <2> HIDE DEF s
    <2>5. s \in BooksOf(n)
      BY <2>2, <2>3, <2>4, SmallerFacts
    <2>6. QED
      BY <2>1, <2>5
  <1>3. book'[m] \in BooksOf(m)
    BY <1>1, NoBookFacts
  <1>4. book' = [n \in Node |-> book'[n]]
    BY <1>1
  <1>5. up' \in [Node -> BOOLEAN] /\ life' \in [Node -> Nat]
    BY DEF Stop, Inv
  <1>6. QED
    BY <1>2, <1>3, <1>4, <1>5 DEF Inv

(* A node starts with a new id.                                             *)
LEMMA StartKeepsInv ==
    ASSUME Inv, NEW n \in Node, Start(n)
    PROVE  Inv'
  BY DEF Inv, Start

(* Whatever nodes tell each other about their peers, about themselves, or   *)
(* about nodes that have restarted meanwhile, no node ever connects to      *)
(* itself or takes the address of another one for its own, in any topology: *)
(* every entry of every peer list names a mapped address that the node it   *)
(* is about always finds, and connect looks at all addresses of an entry.   *)
THEOREM NeverConnectsToSelf ==
    ASSUME OthersConfigured
    PROVE  Spec => []NeverToSelf
  <1>1. Init => Inv
    BY NoBookFacts DEF Init, Inv
  <1>2. Inv /\ [Next]_vars => Inv'
    <2> SUFFICES ASSUME Inv, [Next]_vars PROVE Inv'
      OBVIOUS
    <2>1. ASSUME NEW n \in Node, NEW q \in Addr, Step(n, q) PROVE Inv'
      BY <2>1, OthersConfigured, ConnectKeepsInv, AnswerKeepsInv, RefusedKeepsInv,
         EstablishKeepsInv, GiveUpKeepsInv, NodeInfoKeepsInv, TimeoutKeepsInv DEF Step
    <2>2. ASSUME NEW n \in Node, ResetOwn(n) \/ Stop(n) \/ Start(n) PROVE Inv'
      BY <2>2, ResetOwnKeepsInv, StopKeepsInv, StartKeepsInv
    <2>3. CASE UNCHANGED vars
      BY <2>3 DEF vars, Inv
    <2>4. QED
      BY <2>1, <2>2, <2>3 DEF Next
  <1>3. Inv => NeverToSelf
    <2> SUFFICES ASSUME Inv, NEW n \in Node, NEW q \in Addr
                 PROVE  /\ Owner[q] = n => book[n].pending[q] = None /\ book[n].peers[q] = None
                        /\ q \in book[n].own => Owner[q] = n
      BY DEF NeverToSelf
    <2>1. book[n] \in BooksOf(n)
      BY DEF Inv
    <2>2. QED
      BY <2>1, BookFacts
  <1>4. QED
    BY <1>1, <1>2, <1>3, PTL DEF Spec
=============================================================================
