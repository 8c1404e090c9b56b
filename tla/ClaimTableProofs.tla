-------------------------- MODULE ClaimTableProofs ---------------------------
(***************************************************************************)
(* Proofs about ClaimTable and Routes, for any number of peers, addresses, *)
(* ranges and entries, any announcements and any timeouts.                 *)
(*                                                                         *)
(* The loops of the table are recursive functions, so the module begins,   *)
(* like MeshProofs, with induction and recursion over natural numbers that *)
(* are stated with sets and functions.                                     *)
(***************************************************************************)
EXTENDS ClaimTable, FiniteSetTheorems, SequenceTheorems, TLAPS

(* A set of natural numbers has a least one.                                *)
LEMMA LeastNumber ==
    ASSUME NEW S \in SUBSET Nat, S # {}
    PROVE  \E m \in S : \A k \in S : m <= k
  <1> DEFINE Less == OpToRel(<, Nat)
  <1>1. IsWellFoundedOn(Less, Nat)
    BY NatLessThanWellFounded
  <1>2. \A x, y \in Nat : x < y => <<x, y>> \in Less
    BY DEF OpToRel
  <1> HIDE DEF Less
  <1>3. PICK m \in S : \A k \in S : <<k, m>> \notin Less
    BY <1>1, WFMin
  <1>4. \A k \in S : ~(k < m)
    BY <1>2, <1>3
  <1>5. \A k \in S : m <= k
    BY <1>4
  <1>6. QED
    BY <1>5

(* What holds at first and after one more round of a loop holds after every *)
(* round.                                                                   *)
LEMMA EveryRound ==
    ASSUME NEW S, NEW n \in Nat, 0 \in S, \A k \in 1 .. n : k - 1 \in S => k \in S
    PROVE  0 .. n \subseteq S
  <1> SUFFICES ASSUME (0 .. n) \ S # {} PROVE FALSE
    OBVIOUS
  <1> DEFINE T == (0 .. n) \ S
  <1>1. T \in SUBSET Nat
    OBVIOUS
  <1>2. PICK m \in T : \A k \in T : m <= k
    <2> HIDE DEF T
    <2> QED
      BY <1>1, LeastNumber DEF T
  <1>3. m \in 1 .. n /\ m - 1 \in S
    BY <1>2
  <1>4. QED
    BY <1>2, <1>3

\* A run of a loop: from b, round k leads from c to G[k][c].
RunOf(f, B, b, n, G) ==
    f \in [0 .. n -> B] /\ f[0] = b /\ \A k \in 1 .. n : f[k] = G[k][f[k - 1]]

(* A loop has a run, which is what a recursive function stands for.         *)
LEMMA LoopRuns ==
    ASSUME NEW B, NEW b \in B, NEW n \in Nat, NEW G \in [1 .. n -> [B -> B]]
    PROVE  \E f : RunOf(f, B, b, n, G)
  <1> DEFINE Run(m) == \E f \in [0 .. m -> B] :
                            f[0] = b /\ \A k \in 1 .. m : f[k] = G[k][f[k - 1]]
             S == {m \in 0 .. n : Run(m)}
  <1>1. 0 \in S
    <2> DEFINE f == [k \in 0 .. 0 |-> b]
    <2>1. f \in [0 .. 0 -> B] /\ f[0] = b /\ \A k \in 1 .. 0 : f[k] = G[k][f[k - 1]]
      OBVIOUS
    <2> HIDE DEF f
    <2>2. Run(0)
      BY <2>1
    <2>3. QED
      BY <2>2
  <1>2. ASSUME NEW m \in 1 .. n, m - 1 \in S PROVE m \in S
    <2>1. PICK f \in [0 .. m - 1 -> B] :
            f[0] = b /\ \A k \in 1 .. m - 1 : f[k] = G[k][f[k - 1]]
      BY <1>2
    <2> DEFINE g == [k \in 0 .. m |-> IF k < m THEN f[k] ELSE G[m][f[m - 1]]]
    <2>2. g \in [0 .. m -> B]
      BY <2>1
    <2>3. g[0] = b /\ \A k \in 1 .. m : g[k] = G[k][g[k - 1]]
      BY <2>1
    <2> HIDE DEF g
    <2>4. Run(m)
      BY <2>2, <2>3
    <2>5. m \in 0 .. n
      OBVIOUS
    <2> HIDE DEF Run
    <2>6. QED
      BY <2>4, <2>5
  <1>3. n \in S
    <2> HIDE DEF S
    <2>1. 0 .. n \subseteq S
      BY <1>1, <1>2, EveryRound
    <2>2. QED
      BY <2>1
  <1>4. QED
    BY <1>3 DEF RunOf

-----------------------------------------------------------------------------
(* The abstract table.                                                      *)

(* The type invariant is preserved by every step of the table.              *)
LEMMA TypeStep ==
    ASSUME R!TypeOK, [R!Next]_(R!vars)
    PROVE  R!TypeOK'
<1>. USE TableAssumption DEF R!TypeOK, R!Entry, R!Route
<1>1. ASSUME NEW peer \in Peer, NEW named \in SUBSET Claims, R!SetClaims(peer, named)
      PROVE  R!TypeOK'
  <2>1. Items(claims)' \in SUBSET R!Entry
    BY <1>1 DEF R!SetClaims, R!Live
  <2>. QED  BY <1>1, <2>1 DEF R!SetClaims, R!LiveCache, R!Only
<1>2. ASSUME NEW peer \in Peer, R!RemoveClaims(peer)
      PROVE  R!TypeOK'
  BY <1>2 DEF R!RemoveClaims, R!Live, R!LiveCache, R!Only
<1>3. ASSUME NEW peer \in Peer, NEW addr \in Addresses, R!Learn(addr, peer)
      PROVE  R!TypeOK'
  BY <1>3 DEF R!Learn, R!Remember
<1>4. ASSUME NEW addr \in Addresses, R!Resolve(addr)
      PROVE  R!TypeOK'
  BY <1>4 DEF R!Resolve, R!Remember
<1>5. CASE R!Expire
  BY <1>5 DEF R!Expire, R!Live, R!LiveCache, R!Only
<1>6. CASE R!Tick
  BY <1>6 DEF R!Tick
<1>7. CASE UNCHANGED R!vars
  BY <1>7 DEF R!vars
<1>. QED  BY <1>1, <1>2, <1>3, <1>4, <1>5, <1>6, <1>7 DEF R!Next

(* Routes to peers other than those whose claims go away stay backed: the   *)
(* step every removal in the table has in common.                           *)
LEMMA RemovalBacked ==
    ASSUME R!TypeOK, R!Backed, NEW peers \in SUBSET Peer,
           cache' = R!LiveCache(peers),
           \A e \in Items(claims) : e.peer \in peers /\ e.timeout >= now => e \in Items(claims)'
    PROVE  R!Backed'
<1>. SUFFICES ASSUME NEW a \in DOMAIN cache', ~cache'[a].learned
              PROVE  \E e \in Items(claims)' : /\ e.peer = cache'[a].peer
                                        /\ matches(e.claim, a)
                                        /\ cache'[a].timeout <= e.timeout
  BY DEF R!Backed
<1>1. a \in DOMAIN cache /\ cache'[a] = cache[a] /\ cache[a].timeout >= now
      /\ cache[a].peer \in peers
  BY DEF R!LiveCache, R!Only
<1>2. PICK e \in Items(claims) : /\ e.peer = cache[a].peer
                          /\ matches(e.claim, a)
                          /\ cache[a].timeout <= e.timeout
  BY <1>1 DEF R!Backed
<1>3. e.timeout >= now
  BY <1>1, <1>2 DEF R!TypeOK, R!Entry, R!Route
<1>. QED  BY <1>1, <1>2, <1>3

(* Every step of the table keeps derived routes backed.                     *)
LEMMA BackedStep ==
    ASSUME R!TypeOK, R!Backed, [R!Next]_(R!vars)
    PROVE  R!Backed'
<1>1. ASSUME NEW peer \in Peer, NEW named \in SUBSET Claims, R!SetClaims(peer, named)
      PROVE  R!Backed'
  BY <1>1, RemovalBacked DEF R!SetClaims, R!Live
<1>2. ASSUME NEW peer \in Peer, R!RemoveClaims(peer)
      PROVE  R!Backed'
  BY <1>2, RemovalBacked DEF R!RemoveClaims, R!Live
<1>3. ASSUME NEW peer \in Peer, NEW addr \in Addresses, R!Learn(addr, peer)
      PROVE  R!Backed'
  BY <1>3 DEF R!Learn, R!Remember, R!Backed
<1>4. ASSUME NEW addr \in Addresses, R!Resolve(addr)
      PROVE  R!Backed'
  <2>1. PICK e \in Items(claims) :
            /\ matches(e.claim, addr)
            /\ LET t == now + cache_timeout
               IN  R!Remember(addr, [peer |-> e.peer, learned |-> FALSE,
                                   timeout |-> IF t <= e.timeout THEN t ELSE e.timeout])
    BY <1>4 DEF R!Resolve, R!MostSpecific
  <2>2. cache'[addr].peer = e.peer /\ cache'[addr].timeout <= e.timeout
    BY <2>1, TableAssumption DEF R!Remember, R!TypeOK, R!Entry
  <2>3. \A a \in DOMAIN cache' : a = addr \/ (a \in DOMAIN cache /\ cache'[a] = cache[a])
    BY <2>1 DEF R!Remember
  <2>. QED  BY <1>4, <2>1, <2>2, <2>3 DEF R!Resolve, R!Backed
<1>5. CASE R!Expire
  BY <1>5, RemovalBacked DEF R!Expire, R!Live
<1>6. CASE R!Tick
  BY <1>6 DEF R!Tick, R!Backed
<1>7. CASE UNCHANGED R!vars
  BY <1>7 DEF R!vars, R!Backed
<1>. QED  BY <1>1, <1>2, <1>3, <1>4, <1>5, <1>6, <1>7 DEF R!Next

(* Table and cache are well formed in every state of the abstract table.    *)
THEOREM RoutesTypeCorrect == R!Spec => []R!TypeOK
<1>1. R!Init => R!TypeOK
  BY DEF R!Init, R!TypeOK
<1>. QED  BY <1>1, TypeStep, PTL DEF R!Spec

(* A route that the abstract table derived from a claim is backed by a      *)
(* claim of the same peer that lives as long, so every table that           *)
(* implements it can rely on that.                                          *)
THEOREM RoutesBacked == R!Spec => []R!Backed
<1>1. R!Init => R!TypeOK /\ R!Backed
  BY DEF R!Init, R!TypeOK, R!Backed
<1>2. R!TypeOK /\ R!Backed /\ [R!Next]_(R!vars) => (R!TypeOK /\ R!Backed)'
  BY TypeStep, BackedStep
<1>. QED  BY <1>1, <1>2, PTL DEF R!Spec

-----------------------------------------------------------------------------
(* retain.                                                                  *)

\* Entries, those marked for removal included.
Entry == [peer : Peer, claim : Claims, timeout : Nat]

\* A round of retain.
Keep(cs, t, s, k) == IF cs[k].timeout >= t THEN Append(s, cs[k]) ELSE s

\* The run of the loop of retain.
RetainRun(kept, cs, t) ==
    /\ kept \in [0 .. Len(cs) -> Seq(Entry)] /\ kept[0] = <<>>
    /\ \A k \in 1 .. Len(cs) : kept[k] = Keep(cs, t, kept[k - 1], k)
    /\ retain(cs, t) = kept[Len(cs)]

(* retain goes through the list once.                                       *)
LEMMA RetainRuns ==
    ASSUME NEW cs \in Seq(Entry), NEW t \in Nat
    PROVE  \E kept : RetainRun(kept, cs, t)
  <1> DEFINE n == Len(cs)
             B == Seq(Entry)
             G == [k \in 1 .. n |-> [s \in B |-> Keep(cs, t, s, k)]]
             IsRun(f) == f = [k \in 0 .. n |-> IF k = 0 THEN <<>>
                                               ELSE Keep(cs, t, f[k - 1], k)]
             kept == CHOOSE f : IsRun(f)
  <1>1. retain(cs, t) = kept[n]
    BY DEF retain, Keep
  <1>2. n \in Nat /\ <<>> \in B /\ \A k \in 1 .. n, s \in B : Keep(cs, t, s, k) \in B
    BY DEF Keep
  <1>3. G \in [1 .. n -> [B -> B]]
    BY <1>2
  <1>4. PICK f : RunOf(f, B, <<>>, n, G)
    <2> HIDE DEF n, B, G
    <2> QED
      BY <1>2, <1>3, LoopRuns
  <1>5. f \in [0 .. n -> B] /\ f[0] = <<>>
    BY <1>4 DEF RunOf
  <1>6. \A k \in 1 .. n : f[k] = Keep(cs, t, f[k - 1], k)
    <2> SUFFICES ASSUME NEW k \in 1 .. n PROVE f[k] = Keep(cs, t, f[k - 1], k)
      OBVIOUS
    <2>1. f[k] = G[k][f[k - 1]] /\ k - 1 \in 0 .. n
      <3> HIDE DEF G
      <3> QED
        BY <1>2, <1>4 DEF RunOf
    <2>2. f[k - 1] \in B
      BY <1>5, <2>1
    <2>3. QED
      BY <2>1, <2>2
  <1> HIDE DEF n
  <1>7. IsRun(f)
    BY <1>2, <1>5, <1>6
  <1>8. IsRun(kept)
    <2> HIDE DEF IsRun
    <2> QED
      BY <1>7
  <1> HIDE DEF kept
  <1>9. kept[0] = <<>> /\ \A k \in 1 .. n : kept[k] = Keep(cs, t, kept[k - 1], k)
    BY <1>2, <1>8
  <1>10. QED
    <2> DEFINE S == {k \in 0 .. n : kept[k] \in B}
    <2>1. 0 \in S /\ \A k \in 1 .. n : k - 1 \in S => k \in S
      <3> HIDE DEF B
      <3> QED
        BY <1>2, <1>9
    <2>2. 0 .. n \subseteq S
      <3> HIDE DEF S
      <3> QED
        BY <1>2, <2>1, EveryRound
    <2>3. kept \in [0 .. n -> B]
      BY <1>8, <2>2
    <2>4. RetainRun(kept, cs, t)
      BY <1>1, <1>9, <2>3 DEF RetainRun, n
    <2>5. QED
      BY <2>4

(* The places of a range in a list are finitely many.                       *)
LEMMA HoldingFinite ==
    ASSUME NEW s \in Seq(Entry), NEW p, NEW c
    PROVE  IsFiniteSet(Holding(s, p, c))
  <1>1. IsFiniteSet(1 .. Len(s))
    BY FS_Interval
  <1>2. Holding(s, p, c) \in SUBSET (1 .. Len(s))
    BY DEF Holding
  <1>3. QED
    BY <1>1, <1>2, FS_Subset

(* An entry that is appended adds itself and its place.                     *)
LEMMA AppendFacts ==
    ASSUME NEW s \in Seq(Entry), NEW e \in Entry, NEW p, NEW c
    PROVE  /\ Items(Append(s, e)) = Items(s) \cup {e}
           /\ Cardinality(Holding(Append(s, e), p, c)) =
                Cardinality(Holding(s, p, c)) + (IF e.peer = p /\ e.claim = c THEN 1 ELSE 0)
  <1> DEFINE n == Len(s)
             r == Append(s, e)
  <1>1. n \in Nat /\ r \in Seq(Entry) /\ Len(r) = n + 1 /\ r[n + 1] = e
    OBVIOUS
  <1>2. DOMAIN s = 1 .. n /\ DOMAIN r = 1 .. n + 1 /\ \A i \in 1 .. n : r[i] = s[i]
    OBVIOUS
  <1> HIDE DEF n, r
  <1>3. 1 .. n + 1 = (1 .. n) \cup {n + 1} /\ n + 1 \notin 1 .. n
    BY <1>1
  <1>4. Items(r) = Items(s) \cup {e}
    BY <1>1, <1>2, <1>3 DEF Items
  <1>5. IsFiniteSet(Holding(s, p, c)) /\ n + 1 \notin Holding(s, p, c)
    <2>1. n + 1 \notin Holding(s, p, c)
      BY <1>2, <1>3 DEF Holding
    <2>2. QED
      BY <2>1, HoldingFinite
  <1>6. CASE e.peer = p /\ e.claim = c
    <2>1. Holding(r, p, c) = Holding(s, p, c) \cup {n + 1}
      BY <1>1, <1>2, <1>3, <1>6 DEF Holding
    <2>2. Cardinality(Holding(r, p, c)) = Cardinality(Holding(s, p, c)) + 1
      BY <1>5, <2>1, FS_AddElement
    <2>3. QED
      BY <1>4, <1>6, <2>2 DEF r
  <1>7. CASE ~(e.peer = p /\ e.claim = c)
    <2>1. Holding(r, p, c) = Holding(s, p, c)
      BY <1>1, <1>2, <1>3, <1>7 DEF Holding
    <2>2. Cardinality(Holding(s, p, c)) \in Nat
      BY <1>5, FS_CardinalityType
    <2>3. QED
      BY <1>4, <1>7, <2>1, <2>2 DEF r
  <1>8. QED
    BY <1>6, <1>7

\* Where a range is held by an entry that is not over.
LiveAt(cs, t, p, c) == {i \in Holding(cs, p, c) : cs[i].timeout >= t}

(* retain keeps the entries that are not over, each of them as often as it  *)
(* was there.                                                               *)
LEMMA RetainFacts ==
    ASSUME NEW cs \in Seq(Entry), NEW t \in Nat, NEW r, r = retain(cs, t), NEW p, NEW c
    PROVE  /\ r \in Seq(Entry)
           /\ Items(r) = {e \in Items(cs) : e.timeout >= t}
           /\ Cardinality(Holding(r, p, c)) = Cardinality(LiveAt(cs, t, p, c))
  <1> DEFINE n == Len(cs)
             Places(k) == {i \in 1 .. k : cs[i].timeout >= t}
             Of(k) == {i \in Places(k) : cs[i].peer = p /\ cs[i].claim = c}
  <1>1. PICK kept : RetainRun(kept, cs, t)
    BY RetainRuns
  <1>2. /\ n \in Nat /\ kept \in [0 .. n -> Seq(Entry)] /\ kept[0] = <<>> /\ r = kept[n]
        /\ \A k \in 1 .. n : kept[k] = Keep(cs, t, kept[k - 1], k)
    BY <1>1 DEF RetainRun
  <1>3. \A k \in 1 .. n : cs[k] \in Entry
    OBVIOUS
  <1> HIDE DEF n
  <1> DEFINE S == {k \in 0 .. n : /\ Items(kept[k]) = {cs[i] : i \in Places(k)}
                                  /\ Cardinality(Holding(kept[k], p, c)) = Cardinality(Of(k))}
  <1>4. 0 \in S
    <2>1. Places(0) = {} /\ Of(0) = {} /\ Holding(kept[0], p, c) = {} /\ Items(kept[0]) = {}
      BY <1>2 DEF Holding, Items
    <2>2. {cs[i] : i \in Places(0)} = {}
      BY <2>1
    <2> HIDE DEF Places, Of
    <2>3. /\ Items(kept[0]) = {cs[i] : i \in Places(0)}
          /\ Cardinality(Holding(kept[0], p, c)) = Cardinality(Of(0))
      BY <2>1, <2>2
    <2>4. 0 \in 0 .. n
      BY <1>2
    <2>5. QED
      BY <2>3, <2>4
  <1>5. ASSUME NEW k \in 1 .. n, k - 1 \in S PROVE k \in S
    <2> DEFINE j == k - 1
    <2>1. j \in 0 .. n /\ k \in 0 .. n /\ k \notin 1 .. j /\ 1 .. k = (1 .. j) \cup {k}
      BY <1>2
    <2>2. /\ Items(kept[j]) = {cs[i] : i \in Places(j)}
          /\ Cardinality(Holding(kept[j], p, c)) = Cardinality(Of(j))
      BY <1>5
    <2>3. kept[k] = Keep(cs, t, kept[j], k) /\ kept[j] \in Seq(Entry) /\ cs[k] \in Entry
      BY <1>2, <1>3, <2>1
    <2> HIDE DEF j
    <2>4. IsFiniteSet(Of(j)) /\ k \notin Of(j) /\ Cardinality(Of(j)) \in Nat
      <3>1. IsFiniteSet(1 .. j) /\ Of(j) \in SUBSET (1 .. j)
        BY <2>1, FS_Interval
      <3>2. IsFiniteSet(Of(j))
        BY <3>1, FS_Subset
      <3>3. QED
        BY <2>1, <3>2, FS_CardinalityType
    <2>5. CASE cs[k].timeout >= t
      <3>1. kept[k] = Append(kept[j], cs[k])
        BY <2>3, <2>5 DEF Keep
      <3>2. Places(k) = Places(j) \cup {k}
        BY <2>1, <2>5
      <3>3. Items(kept[k]) = {cs[i] : i \in Places(k)}
        <4>1. Items(kept[k]) = Items(kept[j]) \cup {cs[k]}
          BY <2>3, <3>1, AppendFacts
        <4> HIDE DEF Places
        <4>2. QED
          BY <2>2, <3>2, <4>1
      <3>4. Cardinality(Holding(kept[k], p, c)) = Cardinality(Of(k))
        <4>1. CASE cs[k].peer = p /\ cs[k].claim = c
          <5>1. Of(k) = Of(j) \cup {k}
            BY <3>2, <4>1
          <5> HIDE DEF Of
          <5>2. Cardinality(Of(k)) = Cardinality(Of(j)) + 1
            BY <2>4, <5>1, FS_AddElement
          <5>3. Cardinality(Holding(kept[k], p, c)) = Cardinality(Holding(kept[j], p, c)) + 1
            BY <2>3, <3>1, <4>1, AppendFacts
          <5>4. QED
            BY <2>2, <5>2, <5>3
        <4>2. CASE ~(cs[k].peer = p /\ cs[k].claim = c)
          <5>1. Of(k) = Of(j)
            BY <3>2, <4>2
          <5> HIDE DEF Of
          <5>2. Cardinality(Holding(kept[k], p, c)) = Cardinality(Holding(kept[j], p, c)) + 0
            BY <2>3, <3>1, <4>2, AppendFacts
          <5>3. QED
            BY <2>2, <2>4, <5>1, <5>2
        <4>3. QED
          BY <4>1, <4>2
      <3>5. QED
        BY <2>1, <3>3, <3>4
    <2>6. CASE ~(cs[k].timeout >= t)
      <3>1. kept[k] = kept[j]
        BY <2>3, <2>6 DEF Keep
      <3>2. Places(k) = Places(j)
        BY <2>1, <2>6
      <3>3. QED
        BY <2>1, <2>2, <3>1, <3>2
    <2>7. QED
      BY <2>5, <2>6
  <1>6. n \in S
    <2> HIDE DEF S
    <2>1. 0 .. n \subseteq S
      BY <1>2, <1>4, <1>5, EveryRound
    <2>2. QED
      BY <1>2, <2>1
  <1>7. DOMAIN cs = 1 .. n
    BY DEF n
  <1>8. {cs[i] : i \in Places(n)} = {e \in Items(cs) : e.timeout >= t}
    BY <1>7 DEF Items
  <1>9. Of(n) = LiveAt(cs, t, p, c)
    BY <1>7 DEF Holding, LiveAt
  <1>10. QED
    BY <1>2, <1>6, <1>8, <1>9

-----------------------------------------------------------------------------
(* The loop of set_claims.                                                  *)

(* position finds an element, if there is one.                              *)
LEMMA PositionFacts ==
    ASSUME NEW s \in Seq(Claims), NEW x, NEW pos, pos = position(s, x)
    PROVE  /\ pos \in 0 .. Len(s)
           /\ pos = 0 => x \notin Items(s)
           /\ pos # 0 => pos \in 1 .. Len(s) /\ s[pos] = x
  <1> DEFINE I == {i \in 1 .. Len(s) : s[i] = x}
  <1>1. pos = First(I)
    <2>1. {i \in DOMAIN s : s[i] = x} = I
      OBVIOUS
    <2> HIDE DEF I
    <2>2. QED
      BY <2>1 DEF position
  <1>2. CASE I = {}
    <2>1. pos = 0
      BY <1>1, <1>2 DEF First
    <2>2. QED
      BY <1>2, <2>1 DEF Items
  <1>3. CASE I # {}
    <2>1. I \in SUBSET Nat
      OBVIOUS
    <2>2. \E m \in I : \A k \in I : m <= k
      <3> HIDE DEF I
      <3> QED
        BY <1>3, <2>1, LeastNumber
    <2>3. pos \in I
      <3> HIDE DEF I
      <3> QED
        BY <1>1, <1>3, <2>2 DEF First
    <2>4. QED
      BY <2>3
  <1>4. QED
    BY <1>2, <1>3

(* The places of a range in an announcement are finitely many.              *)
LEMMA NamingFinite ==
    ASSUME NEW s \in Seq(Claims), NEW c
    PROVE  IsFiniteSet(Naming(s, c)) /\ Cardinality(Naming(s, c)) \in Nat
  <1>1. IsFiniteSet(1 .. Len(s))
    BY FS_Interval
  <1>2. Naming(s, c) \in SUBSET (1 .. Len(s))
    BY DEF Naming
  <1>3. QED
    BY <1>1, <1>2, FS_Subset, FS_CardinalityType

(* swap_remove removes one element and keeps the others as often as they    *)
(* were there.                                                              *)
LEMMA SwapRemoveFacts ==
    ASSUME NEW s \in Seq(Claims), NEW pos \in 1 .. Len(s), NEW r, r = swap_remove(s, pos), NEW c
    PROVE  /\ r \in Seq(Claims)
           /\ Items(s) = Items(r) \cup {s[pos]}
           /\ Cardinality(Naming(s, c)) =
                Cardinality(Naming(r, c)) + (IF s[pos] = c THEN 1 ELSE 0)
  <1> DEFINE n == Len(s)
             N == Naming(s, c)
  <1>1. n \in Nat /\ n # 0 /\ n - 1 \in Nat /\ DOMAIN s = 1 .. n /\ pos \in 1 .. n
    OBVIOUS
  <1>2. \A i \in 1 .. n : s[i] \in Claims
    OBVIOUS
  <1>3. r = [i \in 1 .. n - 1 |-> IF i = pos THEN s[n] ELSE s[i]]
    BY DEF swap_remove
  <1> HIDE DEF n
  <1>4. /\ r \in Seq(Claims) /\ DOMAIN r = 1 .. n - 1
        /\ \A i \in 1 .. n - 1 : r[i] = IF i = pos THEN s[n] ELSE s[i]
    <2>1. r \in [1 .. n - 1 -> Claims]
      BY <1>1, <1>2, <1>3
    <2>2. r \in Seq(Claims)
      BY <1>1, <2>1, SeqDef
    <2>3. QED
      BY <1>3, <2>2
  <1>5. 1 .. n = (1 .. n - 1) \cup {n} /\ n \notin 1 .. n - 1
    BY <1>1
  <1>6. Items(s) = Items(r) \cup {s[pos]}
    <2>1. ASSUME NEW i \in 1 .. n PROVE s[i] \in Items(r) \cup {s[pos]}
      <3>1. CASE i # n /\ i # pos
        BY <1>4, <1>5, <3>1 DEF Items
      <3>2. CASE i = n /\ n # pos
        <4>1. pos \in 1 .. n - 1 /\ r[pos] = s[n]
          BY <1>1, <1>4, <1>5, <3>2
        <4>2. QED
          BY <1>4, <3>2, <4>1 DEF Items
      <3>3. QED
        BY <3>1, <3>2
    <2>2. QED
      BY <1>1, <1>4, <1>5, <2>1 DEF Items
  <1>7. IsFiniteSet(N) /\ Cardinality(N) \in Nat
    BY NamingFinite
  <1>8. CASE pos # n /\ s[n] = c
    <2>1. pos \in 1 .. n - 1 /\ n \in N
      BY <1>1, <1>5, <1>8 DEF Naming
    <2>2. Naming(r, c) = (N \ {n}) \cup {pos}
      BY <1>1, <1>4, <1>5, <1>8, <2>1 DEF Naming
    <2>3. pos \in N \ {n} <=> s[pos] = c
      BY <1>1, <1>8, <2>1 DEF Naming
    <2> HIDE DEF N
    <2>4. IsFiniteSet(N \ {n}) /\ Cardinality(N \ {n}) = Cardinality(N) - 1
      BY <1>7, <2>1, FS_RemoveElement
    <2>5. Cardinality(Naming(r, c)) = IF pos \in N \ {n} THEN Cardinality(N \ {n})
                                      ELSE Cardinality(N \ {n}) + 1
      <3> DEFINE M == N \ {n}
      <3> HIDE DEF M
      <3>1. Naming(r, c) = M \cup {pos} /\ IsFiniteSet(M)
        BY <2>2, <2>4 DEF M
      <3>2. Cardinality(Naming(r, c)) = IF pos \in M THEN Cardinality(M) ELSE Cardinality(M) + 1
        BY <3>1, FS_AddElement
      <3>3. QED
        BY <3>2 DEF M
    <2>6. QED
      BY <1>4, <1>6, <1>7, <2>3, <2>4, <2>5 DEF N
  <1>9. CASE ~(pos # n /\ s[n] = c)
    <2>1. Naming(r, c) = N \ {pos}
      BY <1>1, <1>4, <1>5, <1>9 DEF Naming
    <2>2. pos \in N <=> s[pos] = c
      BY <1>1 DEF Naming
    <2> HIDE DEF N
    <2>3. Cardinality(N \ {pos}) = IF pos \in N THEN Cardinality(N) - 1 ELSE Cardinality(N)
      BY <1>7, FS_RemoveElement
    <2>4. QED
      BY <1>4, <1>6, <1>7, <2>1, <2>2, <2>3 DEF N
  <1>10. QED
    BY <1>8, <1>9

\* The states of the loop.
Tables == {s \in Seq(Entry) : Len(s) = Len(claims)}
Loop == [table : Tables, left : Seq(Claims), stopped : BOOLEAN]

Fresh(peer, c) == [peer |-> peer, claim |-> c, timeout |-> now + claim_timeout]
Zeroed(peer, c) == [peer |-> peer, claim |-> c, timeout |-> 0]

(* The types of the clock, of the entries and of an announcement.           *)
LEMMA TypeFacts ==
    ASSUME TypeOK
    PROVE  /\ now \in Nat /\ now > 0 /\ now + claim_timeout \in Nat /\ now + claim_timeout > 0
           /\ claims \in Seq(Entry) /\ Len(claims) \in Nat
           /\ \A i \in 1 .. Len(claims) : claims[i] \in Entry /\ claims[i].timeout # 0
           /\ \A p \in Peer, c \in Claims : Fresh(p, c) \in Entry /\ Zeroed(p, c) \in Entry
  <1>1. now \in Nat /\ now > 0 /\ now + claim_timeout \in Nat /\ now + claim_timeout > 0
    BY TableAssumption DEF TypeOK
  <1> DEFINE E == [peer : Peer, claim : Claims, timeout : Nat \ {0}]
  <1>2. claims \in Seq(E)
    BY DEF TypeOK
  <1>3. E \subseteq Entry /\ \A e \in E : e.timeout # 0
    BY DEF Entry
  <1> HIDE DEF E
  <1>4. claims \in Seq(Entry) /\ Len(claims) \in Nat
    BY <1>2, <1>3, SeqMonotonic
  <1>5. \A i \in 1 .. Len(claims) : claims[i] \in Entry /\ claims[i].timeout # 0
    BY <1>2, <1>3, ElementOfSeq
  <1>6. \A p \in Peer, c \in Claims : Fresh(p, c) \in Entry /\ Zeroed(p, c) \in Entry
    BY <1>1 DEF Fresh, Zeroed, Entry
  <1>7. QED
    BY <1>1, <1>4, <1>5, <1>6

(* An announcement is a list of ranges that peers may claim.                *)
LEMMA ListFacts ==
    ASSUME NEW list \in Announcements
    PROVE  list \in Seq(Claims) /\ Items(list) \subseteq Claims
  <1>1. list \in Seq(AddressRange)
    BY TableAssumption
  <1>2. Items(list) \subseteq Claims
    BY DEF Claims
  <1>3. Len(list) \in Nat /\ list \in [1 .. Len(list) -> AddressRange]
    BY <1>1, LenProperties
  <1>4. \A i \in 1 .. Len(list) : list[i] \in Claims
    BY <1>2, <1>3 DEF Items
  <1>5. list \in [1 .. Len(list) -> Claims]
    BY <1>3, <1>4
  <1>6. QED
    BY <1>2, <1>3, <1>5, SeqDef

(* One round of the loop: nothing, an entry that the peer announced no more *)
(* is marked, or one that it announced is refreshed.                        *)
LEMMA RefreshFacts ==
    ASSUME TypeOK, NEW peer \in Peer, NEW st \in Loop, NEW k \in 1 .. Len(claims),
           NEW t, t = Refresh(peer, st, k)
    PROVE  /\ t \in Loop
           /\ \A i \in 1 .. Len(claims) : i # k => t.table[i] = st.table[i]
           /\ \/ (st.stopped \/ st.table[k].peer # peer) /\ t = st
              \/ /\ ~st.stopped /\ st.table[k].peer = peer
                 /\ st.table[k].claim \notin Items(st.left)
                 /\ t.table[k] = Zeroed(peer, st.table[k].claim)
                 /\ t.left = st.left /\ ~t.stopped
              \/ /\ ~st.stopped /\ st.table[k].peer = peer
                 /\ st.table[k].claim \in Items(st.left)
                 /\ \E pos \in 1 .. Len(st.left) : /\ st.left[pos] = st.table[k].claim
                                                   /\ t.left = swap_remove(st.left, pos)
                 /\ t.table[k] = Fresh(peer, st.table[k].claim)
                 /\ t.stopped <=> t.left = <<>>
  <1> DEFINE e == st.table[k]
             pos == position(st.left, e.claim)
             Put(x) == [st.table EXCEPT ![k].timeout = x]
  <1>1. st.table \in Seq(Entry) /\ Len(st.table) = Len(claims) /\ st.left \in Seq(Claims)
    BY DEF Loop, Tables
  <1>2. e \in Entry /\ e.claim \in Claims
    <2>1. e \in Entry
      BY <1>1, ElementOfSeq
    <2>2. QED
      BY <2>1 DEF Entry
  <1>3. ASSUME NEW x \in Nat
        PROVE  /\ Put(x) \in Tables
               /\ Put(x)[k] = [peer |-> e.peer, claim |-> e.claim, timeout |-> x]
               /\ \A i \in 1 .. Len(claims) : i # k => Put(x)[i] = st.table[i]
    <2> DEFINE d == [e EXCEPT !.timeout = x]
    <2>1. d \in Entry /\ d = [peer |-> e.peer, claim |-> e.claim, timeout |-> x]
      BY <1>2 DEF Entry
    <2>2. Put(x) = [st.table EXCEPT ![k] = d]
      OBVIOUS
    <2> HIDE DEF d, e, Put
    <2>3. /\ Put(x) \in Seq(Entry) /\ Len(Put(x)) = Len(st.table)
          /\ \A i \in 1 .. Len(st.table) : Put(x)[i] = IF i = k THEN d ELSE st.table[i]
      BY <1>1, <2>1, <2>2, ExceptSeq
    <2>4. QED
      BY <1>1, <2>1, <2>3 DEF Tables
  <1>4. CASE st.stopped \/ e.peer # peer
    BY <1>4 DEF Refresh
  <1>5. CASE ~(st.stopped \/ e.peer # peer) /\ pos = 0
    <2> DEFINE P == Put(0)
    <2>1. t = [st EXCEPT !.table = P]
      BY <1>5 DEF Refresh
    <2>2. e.claim \notin Items(st.left)
      BY <1>1, <1>5, PositionFacts
    <2>3. P \in Tables /\ P[k] = Zeroed(peer, e.claim)
          /\ \A i \in 1 .. Len(claims) : i # k => P[i] = st.table[i]
      <3> HIDE DEF e, Put
      <3> QED
        BY <1>3, <1>5 DEF Zeroed
    <2> HIDE DEF e, P
    <2>4. t \in Loop /\ t.table = P /\ t.left = st.left /\ t.stopped = st.stopped
      BY <2>1, <2>3 DEF Loop
    <2>5. QED
      BY <1>5, <2>2, <2>3, <2>4 DEF e
  <1>6. CASE ~(st.stopped \/ e.peer # peer) /\ pos # 0
    <2> DEFINE P == Put(now + claim_timeout)
               rest == swap_remove(st.left, pos)
    <2>1. t = [table |-> P, left |-> rest, stopped |-> rest = <<>>]
      BY <1>6 DEF Refresh
    <2>2. pos \in 1 .. Len(st.left) /\ st.left[pos] = e.claim
      BY <1>1, <1>6, PositionFacts
    <2>3. rest \in Seq(Claims)
      <3> HIDE DEF pos
      <3> QED
        BY <1>1, <2>2, SwapRemoveFacts
    <2>4. P \in Tables /\ P[k] = Fresh(peer, e.claim)
          /\ \A i \in 1 .. Len(claims) : i # k => P[i] = st.table[i]
      <3>1. now + claim_timeout \in Nat
        BY TypeFacts
      <3> HIDE DEF e, Put
      <3>2. QED
        BY <1>3, <1>6, <3>1 DEF Fresh
    <2> HIDE DEF e, P, pos
    <2>5. t \in Loop /\ t.table = P /\ t.left = rest /\ (t.stopped <=> rest = <<>>)
      <3> DEFINE over == rest = <<>>
      <3>1. over \in BOOLEAN /\ t = [table |-> P, left |-> rest, stopped |-> over]
        BY <2>1
      <3> HIDE DEF over, rest
      <3>2. t \in Loop /\ t.table = P /\ t.left = rest /\ t.stopped = over
        BY <2>3, <2>4, <3>1 DEF Loop
      <3>3. QED
        BY <3>2 DEF over
    <2>6. e.claim \in Items(st.left)
      BY <1>1, <2>2 DEF Items
    <2>7. QED
      BY <1>6, <2>2, <2>4, <2>5, <2>6 DEF e
  <1>7. QED
    BY <1>4, <1>5, <1>6

\* After k rounds the entries of the peer among the first k are marked, or
\* refreshed if the list names them, or untouched once the loop has stopped.
TableInv(peer, list, k, st) ==
    \A i \in 1 .. Len(claims) :
        /\ st.table[i].peer = claims[i].peer /\ st.table[i].claim = claims[i].claim
        /\ i > k \/ claims[i].peer # peer => st.table[i] = claims[i]
        /\ i <= k /\ claims[i].peer = peer =>
            \/ st.table[i].timeout = 0
            \/ st.table[i] = Fresh(peer, claims[i].claim) /\ claims[i].claim \in Items(list)
            \/ st.stopped /\ st.table[i] = claims[i]

\* What the list names is refreshed or left to push.
NamedInv(peer, list, k, st) ==
    /\ st.stopped => st.left = <<>>
    /\ Items(st.left) \subseteq Items(list)
    /\ \A c \in Items(list) :
        c \in Items(st.left) \/ \E i \in 1 .. k : st.table[i] = Fresh(peer, c)

\* As long as the loop goes on, a range is refreshed or left as often as the
\* list names it.
Again(peer, k, st, c) == {i \in Holding(claims, peer, c) : i <= k /\ st.table[i].timeout # 0}
CountInv(peer, list, k, st) ==
    ~st.stopped =>
        \A c : Cardinality(Again(peer, k, st, c)) + Cardinality(Naming(st.left, c)) =
                    Cardinality(Naming(list, c))

LoopInv(peer, list, k, st) ==
    /\ st \in Loop
    /\ TableInv(peer, list, k, st) /\ NamedInv(peer, list, k, st) /\ CountInv(peer, list, k, st)

(* At first the whole list is left.                                         *)
LEMMA LoopBegins ==
    ASSUME TypeOK, NEW peer \in Peer, NEW list \in Seq(Claims), NEW st,
           st = [table |-> claims, left |-> list, stopped |-> FALSE]
    PROVE  LoopInv(peer, list, 0, st)
  <1>1. claims \in Tables
    BY TypeFacts DEF Tables
  <1>2. st \in Loop /\ st.table = claims /\ st.left = list /\ ~st.stopped
    BY <1>1 DEF Loop
  <1>3. TableInv(peer, list, 0, st)
    BY <1>2 DEF TableInv
  <1>4. NamedInv(peer, list, 0, st)
    BY <1>2 DEF NamedInv
  <1>5. CountInv(peer, list, 0, st)
    <2> SUFFICES ASSUME NEW c
                 PROVE  Cardinality(Again(peer, 0, st, c)) + Cardinality(Naming(st.left, c)) =
                            Cardinality(Naming(list, c))
      BY DEF CountInv
    <2>1. Again(peer, 0, st, c) = {}
      BY TypeFacts DEF Again, Holding
    <2>2. Cardinality(Naming(list, c)) \in Nat
      BY NamingFinite
    <2>3. Cardinality(Again(peer, 0, st, c)) = 0
      BY <2>1, FS_EmptySet
    <2>4. QED
      BY <1>2, <2>2, <2>3
  <1>6. QED
    BY <1>2, <1>3, <1>4, <1>5 DEF LoopInv

(* The refreshed places are finitely many.                                  *)
LEMMA AgainFinite ==
    ASSUME TypeOK, NEW peer, NEW k, NEW st, NEW c
    PROVE  IsFiniteSet(Again(peer, k, st, c)) /\ Cardinality(Again(peer, k, st, c)) \in Nat
  <1>1. Again(peer, k, st, c) \in SUBSET Holding(claims, peer, c)
    BY DEF Again
  <1>2. IsFiniteSet(Holding(claims, peer, c))
    BY TypeFacts, HoldingFinite
  <1>3. QED
    BY <1>1, <1>2, FS_Subset, FS_CardinalityType

(* A round keeps the entries as TableInv says.                              *)
LEMMA RoundKeepsTable ==
    ASSUME TypeOK, NEW peer \in Peer, NEW list \in Seq(Claims), NEW k \in 1 .. Len(claims),
           NEW st, LoopInv(peer, list, k - 1, st), NEW t, t = Refresh(peer, st, k)
    PROVE  TableInv(peer, list, k, t)
  <1> SUFFICES ASSUME NEW i \in 1 .. Len(claims)
               PROVE  /\ t.table[i].peer = claims[i].peer /\ t.table[i].claim = claims[i].claim
                      /\ i > k \/ claims[i].peer # peer => t.table[i] = claims[i]
                      /\ i <= k /\ claims[i].peer = peer =>
                          \/ t.table[i].timeout = 0
                          \/ /\ t.table[i] = Fresh(peer, claims[i].claim)
                             /\ claims[i].claim \in Items(list)
                          \/ t.stopped /\ t.table[i] = claims[i]
    BY DEF TableInv
  <1>1. st \in Loop /\ Items(st.left) \subseteq Items(list) /\ st.left \in Seq(Claims)
    BY DEF LoopInv, NamedInv, Loop
  <1>2. Len(claims) \in Nat
    BY TypeFacts
  <1>3. /\ st.table[i].peer = claims[i].peer /\ st.table[i].claim = claims[i].claim
        /\ i > k - 1 \/ claims[i].peer # peer => st.table[i] = claims[i]
        /\ i <= k - 1 /\ claims[i].peer = peer =>
            \/ st.table[i].timeout = 0
            \/ st.table[i] = Fresh(peer, claims[i].claim) /\ claims[i].claim \in Items(list)
            \/ st.stopped /\ st.table[i] = claims[i]
    BY DEF LoopInv, TableInv
  <1>4. CASE st.stopped \/ st.table[k].peer # peer
    <2>1. t = st
      BY <1>1, <1>4, RefreshFacts
    <2>2. QED
      BY <1>2, <1>3, <1>4, <2>1
  <1>5. CASE ~(st.stopped \/ st.table[k].peer # peer)
    <2>1. i # k => t.table[i] = st.table[i]
      BY <1>1, RefreshFacts
    <2>2. \/ t.table[k] = Zeroed(peer, st.table[k].claim)
          \/ t.table[k] = Fresh(peer, st.table[k].claim) /\ st.table[k].claim \in Items(st.left)
      <3>1. \/ (st.stopped \/ st.table[k].peer # peer) /\ t = st
            \/ t.table[k] = Zeroed(peer, st.table[k].claim)
            \/ /\ st.table[k].claim \in Items(st.left)
               /\ t.table[k] = Fresh(peer, st.table[k].claim)
        BY <1>1, RefreshFacts
      <3>2. QED
        BY <1>5, <3>1
    <2>3. QED
      BY <1>1, <1>2, <1>3, <1>5, <2>1, <2>2 DEF Zeroed, Fresh
  <1>6. QED
    BY <1>4, <1>5

(* A round refreshes what it takes from the list.                           *)
LEMMA RoundKeepsNamed ==
    ASSUME TypeOK, NEW peer \in Peer, NEW list \in Seq(Claims), NEW k \in 1 .. Len(claims),
           NEW st, LoopInv(peer, list, k - 1, st), NEW t, t = Refresh(peer, st, k)
    PROVE  NamedInv(peer, list, k, t)
  <1>1. /\ st \in Loop /\ Items(st.left) \subseteq Items(list) /\ st.left \in Seq(Claims)
        /\ st.stopped => st.left = <<>>
        /\ \A c \in Items(list) :
            c \in Items(st.left) \/ \E i \in 1 .. k - 1 : st.table[i] = Fresh(peer, c)
    BY DEF LoopInv, NamedInv, Loop
  <1>2. \A i \in 1 .. k - 1 : i \in 1 .. k /\ t.table[i] = st.table[i]
    <2>1. \A i \in 1 .. k - 1 : i \in 1 .. Len(claims) /\ i \in 1 .. k /\ i # k
      BY TypeFacts
    <2>2. QED
      BY <1>1, <2>1, RefreshFacts
  <1>3. CASE t.left = st.left /\ (t.stopped <=> st.stopped)
    BY <1>1, <1>2, <1>3 DEF NamedInv
  <1>4. CASE /\ \E pos \in 1 .. Len(st.left) : /\ st.left[pos] = st.table[k].claim
                                               /\ t.left = swap_remove(st.left, pos)
             /\ t.table[k] = Fresh(peer, st.table[k].claim)
             /\ t.stopped <=> t.left = <<>>
    <2>1. Items(st.left) = Items(t.left) \cup {st.table[k].claim}
      <3>1. PICK pos \in 1 .. Len(st.left) : /\ st.left[pos] = st.table[k].claim
                                             /\ t.left = swap_remove(st.left, pos)
        BY <1>4
      <3>2. Items(st.left) = Items(t.left) \cup {st.left[pos]}
        BY <1>1, <3>1, SwapRemoveFacts
      <3>3. QED
        BY <3>1, <3>2
    <2>2. k \in 1 .. k
      BY TypeFacts
    <2>3. ASSUME NEW c \in Items(list)
          PROVE  c \in Items(t.left) \/ \E i \in 1 .. k : t.table[i] = Fresh(peer, c)
      <3>1. CASE c = st.table[k].claim
        BY <1>4, <2>2, <3>1
      <3>2. CASE c # st.table[k].claim
        BY <1>1, <1>2, <2>1, <3>2
      <3>3. QED
        BY <3>1, <3>2
    <2>4. QED
      BY <1>1, <1>4, <2>1, <2>3 DEF NamedInv
  <1>5. QED
    BY <1>1, <1>3, <1>4, RefreshFacts

(* A round keeps count of what the list names.                              *)
LEMMA RoundKeepsCount ==
    ASSUME TypeOK, NEW peer \in Peer, NEW list \in Seq(Claims), NEW k \in 1 .. Len(claims),
           NEW st, LoopInv(peer, list, k - 1, st), NEW t, t = Refresh(peer, st, k)
    PROVE  CountInv(peer, list, k, t)
  <1> SUFFICES ASSUME ~t.stopped, NEW c
               PROVE  Cardinality(Again(peer, k, t, c)) + Cardinality(Naming(t.left, c)) =
                        Cardinality(Naming(list, c))
    BY DEF CountInv
  <1> DEFINE A == Again(peer, k - 1, st, c)
             H == Holding(claims, peer, c)
  <1>1. st \in Loop /\ st.left \in Seq(Claims) /\ CountInv(peer, list, k - 1, st)
    BY DEF LoopInv, Loop
  <1>2. ~st.stopped
    BY <1>1, RefreshFacts
  <1>3. Cardinality(A) + Cardinality(Naming(st.left, c)) = Cardinality(Naming(list, c))
    BY <1>1, <1>2 DEF CountInv
  <1>4. IsFiniteSet(A) /\ Cardinality(A) \in Nat
    BY AgainFinite
  <1>5. /\ H \subseteq 1 .. Len(claims)
        /\ \A i \in H : i # k => t.table[i] = st.table[i]
    <2>1. H \subseteq 1 .. Len(claims)
      BY TypeFacts DEF Holding
    <2>2. QED
      BY <1>1, <2>1, RefreshFacts
  <1>6. st.table[k].peer = claims[k].peer /\ st.table[k].claim = claims[k].claim
    BY DEF LoopInv, TableInv
  <1>7. k \in H <=> claims[k].peer = peer /\ claims[k].claim = c
    BY TypeFacts DEF Holding
  <1>8. Again(peer, k, t, c) = A \cup {i \in {k} : i \in H /\ t.table[k].timeout # 0}
    <2>1. \A i \in H : i <= k <=> i <= k - 1 \/ i = k
      BY <1>5, TypeFacts
    <2>2. \A i \in H : i <= k - 1 => i # k
      BY <1>5, TypeFacts
    <2> HIDE DEF H
    <2>3. A = {i \in H : i <= k - 1 /\ st.table[i].timeout # 0}
          /\ Again(peer, k, t, c) = {i \in H : i <= k /\ t.table[i].timeout # 0}
      BY DEF Again, H
    <2> HIDE DEF A
    <2>4. QED
      BY <1>5, <2>1, <2>2, <2>3
  <1>9. k \notin A
    BY TypeFacts DEF Again
  <1> HIDE DEF A, H
  <1>10. CASE /\ k \notin H \/ t.table[k].timeout = 0
              /\ t.left = st.left
    <2>1. Again(peer, k, t, c) = A
      BY <1>8, <1>10
    <2>2. QED
      BY <1>3, <1>10, <2>1
  <1>11. CASE /\ st.table[k].peer = peer
              /\ \E pos \in 1 .. Len(st.left) : /\ st.left[pos] = st.table[k].claim
                                                /\ t.left = swap_remove(st.left, pos)
              /\ t.table[k] = Fresh(peer, st.table[k].claim)
    <2>1. t.table[k].timeout # 0
      BY <1>11, TypeFacts DEF Fresh
    <2>2. Cardinality(Naming(st.left, c)) =
                Cardinality(Naming(t.left, c)) + (IF st.table[k].claim = c THEN 1 ELSE 0)
          /\ t.left \in Seq(Claims)
      BY <1>1, <1>11, SwapRemoveFacts
    <2>3. Cardinality(Naming(t.left, c)) \in Nat
      BY <2>2, NamingFinite
    <2>4. CASE st.table[k].claim = c
      <3>1. Again(peer, k, t, c) = A \cup {k}
        BY <1>6, <1>7, <1>8, <1>11, <2>1, <2>4
      <3>2. Cardinality(Again(peer, k, t, c)) = Cardinality(A) + 1
        BY <1>4, <1>9, <3>1, FS_AddElement
      <3>3. QED
        BY <1>3, <1>4, <2>2, <2>3, <2>4, <3>2
    <2>5. CASE st.table[k].claim # c
      <3>1. Again(peer, k, t, c) = A
        BY <1>6, <1>7, <1>8, <2>5
      <3>2. QED
        BY <1>3, <1>4, <2>2, <2>3, <2>5, <3>1
    <2>6. QED
      BY <2>4, <2>5
  <1>12. QED
    <2>1. CASE st.table[k].peer # peer
      <3>1. t = st
        BY <1>1, <2>1, RefreshFacts
      <3>2. QED
        BY <1>6, <1>7, <1>10, <2>1, <3>1
    <2>2. CASE st.table[k].peer = peer
      <3>1. \/ t.table[k] = Zeroed(peer, st.table[k].claim) /\ t.left = st.left
            \/ /\ \E pos \in 1 .. Len(st.left) : /\ st.left[pos] = st.table[k].claim
                                                 /\ t.left = swap_remove(st.left, pos)
               /\ t.table[k] = Fresh(peer, st.table[k].claim)
        BY <1>1, <1>2, <2>2, RefreshFacts
      <3>2. QED
        BY <1>10, <1>11, <2>2, <3>1 DEF Zeroed
    <2>3. QED
      BY <2>1, <2>2

(* The whole loop, for a table of any length.                               *)
LEMMA RefreshedFacts ==
    ASSUME TypeOK, NEW peer \in Peer, NEW list \in Seq(Claims)
    PROVE  LoopInv(peer, list, Len(claims), Refreshed(peer, list))
  <1> DEFINE n == Len(claims)
             b == [table |-> claims, left |-> list, stopped |-> FALSE]
             Round(k, st) == Refresh(peer, st, k)
             G == [k \in 1 .. n |-> [st \in Loop |-> Round(k, st)]]
             IsRun(f) == f = [k \in 0 .. n |-> IF k = 0 THEN b ELSE Round(k, f[k - 1])]
             after == CHOOSE f : IsRun(f)
  <1>1. Refreshed(peer, list) = after[n]
    BY DEF Refreshed
  <1>2. n \in Nat
    BY TypeFacts
  <1>3. LoopInv(peer, list, 0, b)
    BY LoopBegins
  <1>4. b \in Loop
    BY <1>3 DEF LoopInv
  <1>5. \A k \in 1 .. n, st \in Loop : Round(k, st) \in Loop
    BY RefreshFacts
  <1>6. \A k \in 1 .. n : \A st : LoopInv(peer, list, k - 1, st) => LoopInv(peer, list, k, Round(k, st))
    <2> SUFFICES ASSUME NEW k \in 1 .. n, NEW st, LoopInv(peer, list, k - 1, st)
                 PROVE  LoopInv(peer, list, k, Round(k, st))
      OBVIOUS
    <2>1. TableInv(peer, list, k, Round(k, st))
      BY RoundKeepsTable
    <2>2. NamedInv(peer, list, k, Round(k, st))
      BY RoundKeepsNamed
    <2>3. CountInv(peer, list, k, Round(k, st))
      BY RoundKeepsCount
    <2>4. st \in Loop
      BY DEF LoopInv
    <2> HIDE DEF Round
    <2>5. QED
      BY <1>5, <2>1, <2>2, <2>3, <2>4 DEF LoopInv
  <1> HIDE DEF Round, b, n
  <1>7. G \in [1 .. n -> [Loop -> Loop]]
    BY <1>5
  <1>8. PICK f : RunOf(f, Loop, b, n, G)
    <2> HIDE DEF G
    <2> QED
      BY <1>2, <1>4, <1>7, LoopRuns
  <1>9. f \in [0 .. n -> Loop] /\ f[0] = b
    BY <1>8 DEF RunOf
  <1>10. \A k \in 1 .. n : f[k] = Round(k, f[k - 1])
    <2> SUFFICES ASSUME NEW k \in 1 .. n PROVE f[k] = Round(k, f[k - 1])
      OBVIOUS
    <2>1. f[k] = G[k][f[k - 1]] /\ k - 1 \in 0 .. n
      <3> HIDE DEF G
      <3> QED
        BY <1>2, <1>8 DEF RunOf
    <2>2. f[k - 1] \in Loop
      BY <1>9, <2>1
    <2>3. QED
      BY <2>1, <2>2
  <1>11. IsRun(f)
    BY <1>2, <1>9, <1>10
  <1>12. IsRun(after)
    <2> HIDE DEF IsRun
    <2> QED
      BY <1>11
  <1> HIDE DEF after
  <1>13. after[0] = b /\ \A k \in 1 .. n : after[k] = Round(k, after[k - 1])
    BY <1>2, <1>12
  <1> DEFINE S == {k \in 0 .. n : LoopInv(peer, list, k, after[k])}
  <1>14. 0 \in S /\ \A k \in 1 .. n : k - 1 \in S => k \in S
    BY <1>2, <1>3, <1>6, <1>13
  <1>15. n \in S
    <2> HIDE DEF S
    <2>1. 0 .. n \subseteq S
      BY <1>2, <1>14, EveryRound
    <2>2. QED
      BY <1>2, <2>1
  <1>16. QED
    BY <1>1, <1>15 DEF n

-----------------------------------------------------------------------------
(* The scan of lookup.                                                      *)

(* Prefix lengths are numbers.                                              *)
LEMMA ClaimFacts == \A c \in Claims : c.prefix_len \in Nat
  <1> SUFFICES ASSUME NEW c \in Claims PROVE c.prefix_len \in Nat
    OBVIOUS
  <1>1. PICK list \in Announcements : c \in Items(list)
    BY DEF Claims
  <1>2. list \in Seq(AddressRange)
    BY TableAssumption
  <1>3. c \in AddressRange
    BY <1>1, <1>2 DEF Items
  <1>4. c.prefix_len \in Prefix
    BY <1>3 DEF AddressRange
  <1>5. QED
    BY <1>4 DEF Prefix

\* The best of the first k entries, if any of them matches.
BestInv(addr, k, best) ==
    /\ best \in 0 .. k
    /\ best # 0 => matches(claims[best].claim, addr)
    /\ \A i \in 1 .. k : matches(claims[i].claim, addr) =>
            best # 0 /\ claims[i].claim.prefix_len <= claims[best].claim.prefix_len

(* A round of the scan.                                                     *)
LEMMA RoundKeepsBest ==
    ASSUME TypeOK, NEW addr, NEW k \in 1 .. Len(claims), NEW best, BestInv(addr, k - 1, best)
    PROVE  BestInv(addr, k, Better(addr, best, k))
  <1>1. \A i \in 1 .. Len(claims) : claims[i].claim.prefix_len \in Nat
    BY TypeFacts, ClaimFacts DEF Entry
  <1>2. Len(claims) \in Nat
    BY TypeFacts
  <1>3. best \in 0 .. k - 1 /\ (best # 0 => best \in 1 .. Len(claims))
    BY <1>2 DEF BestInv
  <1>4. \A i \in 1 .. k : i \in 1 .. Len(claims) /\ (i = k \/ i \in 1 .. k - 1)
    BY <1>2
  <1>5. CASE /\ best = 0 \/ claims[k].claim.prefix_len > claims[best].claim.prefix_len
             /\ matches(claims[k].claim, addr)
    <2>1. Better(addr, best, k) = k
      BY <1>5 DEF Better
    <2>2. ASSUME NEW i \in 1 .. k, matches(claims[i].claim, addr)
          PROVE  claims[i].claim.prefix_len <= claims[k].claim.prefix_len
      <3>1. CASE i = k
        BY <1>1, <3>1
      <3>2. CASE i \in 1 .. k - 1
        <4>1. best # 0 /\ claims[i].claim.prefix_len <= claims[best].claim.prefix_len
          BY <2>2, <3>2 DEF BestInv
        <4>2. QED
          BY <1>1, <1>3, <1>4, <1>5, <4>1
      <3>3. QED
        BY <1>4, <3>1, <3>2
    <2>3. QED
      BY <1>2, <1>5, <2>1, <2>2 DEF BestInv
  <1>6. CASE ~(/\ best = 0 \/ claims[k].claim.prefix_len > claims[best].claim.prefix_len
               /\ matches(claims[k].claim, addr))
    <2>1. Better(addr, best, k) = best
      BY <1>6 DEF Better
    <2>2. ASSUME NEW i \in 1 .. k, matches(claims[i].claim, addr)
          PROVE  best # 0 /\ claims[i].claim.prefix_len <= claims[best].claim.prefix_len
      <3>1. CASE i = k
        BY <1>1, <1>3, <1>6, <2>2, <3>1
      <3>2. CASE i \in 1 .. k - 1
        BY <2>2, <3>2 DEF BestInv
      <3>3. QED
        BY <1>4, <3>1, <3>2
    <2>3. best \in 0 .. k
      BY <1>2, <1>3
    <2>4. QED
      BY <2>1, <2>2, <2>3 DEF BestInv
  <1>7. QED
    BY <1>5, <1>6

(* The scan ends with an entry for the most specific range that matches.    *)
LEMMA FoundFacts ==
    ASSUME TypeOK, NEW addr
    PROVE  BestInv(addr, Len(claims), Found(addr))
  <1> DEFINE n == Len(claims)
             B == 0 .. n
             Round(k, best) == Better(addr, best, k)
             G == [k \in 1 .. n |-> [best \in B |-> Round(k, best)]]
             IsRun(f) == f = [k \in 0 .. n |-> IF k = 0 THEN 0 ELSE Round(k, f[k - 1])]
             scan == CHOOSE f : IsRun(f)
  <1>1. Found(addr) = scan[n]
    BY DEF Found
  <1>2. n \in Nat
    BY TypeFacts
  <1>3. BestInv(addr, 0, 0) /\ 0 \in B
    BY <1>2 DEF BestInv
  <1>4. \A k \in 1 .. n, best \in B : Round(k, best) \in B
    BY <1>2 DEF Better
  <1>5. \A k \in 1 .. n : \A best : BestInv(addr, k - 1, best) => BestInv(addr, k, Round(k, best))
    BY RoundKeepsBest
  <1> HIDE DEF Round, n
  <1>6. G \in [1 .. n -> [B -> B]]
    BY <1>4
  <1>7. PICK f : RunOf(f, B, 0, n, G)
    <2> HIDE DEF G, B
    <2> QED
      BY <1>2, <1>3, <1>6, LoopRuns
  <1>8. f \in [0 .. n -> B] /\ f[0] = 0
    BY <1>7 DEF RunOf
  <1>9. \A k \in 1 .. n : f[k] = Round(k, f[k - 1])
    <2> SUFFICES ASSUME NEW k \in 1 .. n PROVE f[k] = Round(k, f[k - 1])
      OBVIOUS
    <2>1. f[k] = G[k][f[k - 1]] /\ k - 1 \in 0 .. n
      <3> HIDE DEF G
      <3> QED
        BY <1>2, <1>7 DEF RunOf
    <2>2. f[k - 1] \in B
      BY <1>8, <2>1
    <2>3. QED
      BY <2>1, <2>2
  <1>10. IsRun(f)
    BY <1>2, <1>8, <1>9
  <1>11. IsRun(scan)
    <2> HIDE DEF IsRun
    <2> QED
      BY <1>10
  <1> HIDE DEF scan
  <1>12. scan[0] = 0 /\ \A k \in 1 .. n : scan[k] = Round(k, scan[k - 1])
    BY <1>2, <1>11
  <1> DEFINE S == {k \in 0 .. n : BestInv(addr, k, scan[k])}
  <1>13. 0 \in S /\ \A k \in 1 .. n : k - 1 \in S => k \in S
    BY <1>2, <1>3, <1>5, <1>12
  <1>14. n \in S
    <2> HIDE DEF S
    <2>1. 0 .. n \subseteq S
      BY <1>2, <1>13, EveryRound
    <2>2. QED
      BY <1>2, <2>1
  <1>15. QED
    BY <1>1, <1>14 DEF n

-----------------------------------------------------------------------------
(* The calls that change claims.                                            *)

\* The entries that set_claims pushes.
Pushed(peer, left) ==
    [i \in DOMAIN left |-> [peer |-> peer, claim |-> left[i], timeout |-> now + claim_timeout]]

\* The table with the pushed entries, before housekeep.
PushedTo(peer, st, cs) ==
    /\ cs \in Seq(Entry) /\ DOMAIN cs = 1 .. Len(claims) + Len(st.left)
    /\ Len(claims) \in Nat /\ Len(st.left) \in Nat
    /\ \A i \in 1 .. Len(claims) : cs[i] = st.table[i]
    /\ \A j \in 1 .. Len(st.left) : cs[Len(claims) + j] = Fresh(peer, st.left[j])

(* Claims that are left over come after those of the loop.                  *)
LEMMA PushedFacts ==
    ASSUME TypeOK, NEW peer \in Peer, NEW st \in Loop
    PROVE  PushedTo(peer, st, st.table \o Pushed(peer, st.left))
  <1> DEFINE P == Pushed(peer, st.left)
             m == Len(st.left)
             n == Len(claims)
             cs == st.table \o P
  <1>1. st.table \in Seq(Entry) /\ Len(st.table) = n /\ st.left \in Seq(Claims)
    BY DEF Loop, Tables
  <1>2. m \in Nat /\ DOMAIN st.left = 1 .. m /\ \A j \in 1 .. m : st.left[j] \in Claims
    BY <1>1, LenProperties, ElementOfSeq
  <1> HIDE DEF m
  <1>3. P = [j \in 1 .. m |-> Fresh(peer, st.left[j])]
    BY <1>2 DEF Pushed, Fresh
  <1>4. \A j \in 1 .. m : Fresh(peer, st.left[j]) \in Entry
    BY <1>2, TypeFacts
  <1> HIDE DEF P
  <1>5. P \in [1 .. m -> Entry]
    BY <1>3, <1>4
  <1>6. P \in Seq(Entry) /\ Len(P) = m
    BY <1>2, <1>5
  <1>7. /\ cs \in Seq(Entry) /\ Len(cs) = Len(st.table) + m
        /\ \A i \in 1 .. Len(st.table) + m :
            cs[i] = IF i <= Len(st.table) THEN st.table[i] ELSE P[i - Len(st.table)]
    BY <1>1, <1>6, ConcatProperties
  <1>8. DOMAIN cs = 1 .. Len(cs)
    <2> HIDE DEF cs
    <2> QED
      BY <1>7, LenProperties
  <1>9. n \in Nat
    BY TypeFacts
  <1> HIDE DEF cs, n
  <1>10. \A i \in 1 .. n : cs[i] = st.table[i]
    BY <1>1, <1>2, <1>7, <1>9
  <1>11. \A j \in 1 .. m : cs[n + j] = Fresh(peer, st.left[j])
    <2> SUFFICES ASSUME NEW j \in 1 .. m PROVE cs[n + j] = Fresh(peer, st.left[j])
      OBVIOUS
    <2>1. n + j \in 1 .. n + m /\ ~(n + j <= n) /\ (n + j) - n = j
      BY <1>2, <1>9
    <2>2. cs[n + j] = P[j]
      BY <1>1, <1>7, <2>1
    <2>3. QED
      BY <1>3, <2>2
  <1>12. QED
    BY <1>1, <1>2, <1>7, <1>8, <1>9, <1>10, <1>11 DEF PushedTo, m, n, cs, P

(* A range of another peer is kept as often as before at most, and one of   *)
(* the peer as often as before or as often as the list names it.            *)
LEMMA NoMoreThanNamed ==
    ASSUME TypeOK, NEW peer \in Peer, NEW list \in Seq(Claims), NEW p, NEW c,
           NEW st, LoopInv(peer, list, Len(claims), st), NEW cs, PushedTo(peer, st, cs)
    PROVE  \/ Cardinality(LiveAt(cs, now, p, c)) <= Cardinality(Holding(claims, p, c))
           \/ p = peer /\ Cardinality(LiveAt(cs, now, p, c)) <= Cardinality(Naming(list, c))
  <1> DEFINE n == Len(claims)
             m == Len(st.left)
             H == Holding(claims, p, c)
             M == LiveAt(cs, now, p, c)
  <1>1. st \in Loop /\ st.left \in Seq(Claims)
    BY DEF LoopInv, Loop
  <1>2. /\ DOMAIN cs = 1 .. n + m /\ n \in Nat /\ m \in Nat
        /\ \A i \in 1 .. n : cs[i] = st.table[i]
        /\ \A j \in 1 .. m : cs[n + j] = Fresh(peer, st.left[j])
    BY DEF PushedTo
  <1>3. \A i \in 1 .. n : st.table[i].peer = claims[i].peer /\ st.table[i].claim = claims[i].claim
    BY DEF LoopInv, TableInv
  <1>4. /\ IsFiniteSet(H) /\ Cardinality(H) \in Nat
        /\ H = {i \in 1 .. n : claims[i].peer = p /\ claims[i].claim = c}
    <2>1. IsFiniteSet(H)
      BY TypeFacts, HoldingFinite
    <2>2. DOMAIN claims = 1 .. n
      BY TypeFacts, LenProperties
    <2>3. H = {i \in 1 .. n : claims[i].peer = p /\ claims[i].claim = c}
      BY <2>2 DEF Holding
    <2> HIDE DEF H
    <2>4. QED
      BY <2>1, <2>3, FS_CardinalityType
  <1>5. m = 0 \/ st.left # <<>>
    OBVIOUS
  <1>6. M = {i \in 1 .. n + m : cs[i].peer = p /\ cs[i].claim = c /\ cs[i].timeout >= now}
    BY <1>2 DEF LiveAt, Holding
  <1> HIDE DEF n, m, H, M
  <1>7. \A i \in M : i \in 1 .. n => i \in H
    BY <1>2, <1>3, <1>4, <1>6
  <1>8. \A i \in M : i \in 1 .. n \/ (i - n \in 1 .. m /\ cs[i] = Fresh(peer, st.left[i - n]))
    <2> SUFFICES ASSUME NEW i \in M, i \notin 1 .. n
                 PROVE  i - n \in 1 .. m /\ cs[i] = Fresh(peer, st.left[i - n])
      OBVIOUS
    <2>1. i - n \in 1 .. m /\ i = n + (i - n)
      BY <1>2, <1>6
    <2>2. QED
      BY <1>2, <2>1
  <1>9. CASE p # peer \/ st.stopped
    <2>1. ASSUME NEW i \in M PROVE i \in 1 .. n
      <3>1. CASE p # peer
        <4>1. cs[i].peer = p
          BY <1>6
        <4>2. \A x : Fresh(peer, x).peer = peer
          BY DEF Fresh
        <4>3. QED
          BY <1>8, <3>1, <4>1, <4>2
      <3>2. CASE st.stopped
        <4>1. m = 0
          BY <1>5, <3>2 DEF LoopInv, NamedInv
        <4>2. QED
          BY <1>2, <1>6, <4>1
      <3>3. QED
        BY <1>9, <3>1, <3>2
    <2>2. M \in SUBSET H
      BY <1>7, <2>1
    <2>3. Cardinality(M) <= Cardinality(H)
      BY <1>4, <2>2, FS_Subset
    <2>4. QED
      BY <2>3 DEF H, M
  <1>10. CASE p = peer /\ ~st.stopped
    <2> DEFINE A == Again(peer, n, st, c)
               N == Naming(st.left, c)
               f == [j \in N |-> n + j]
               F == {f[j] : j \in N}
    <2>1. IsFiniteSet(A) /\ Cardinality(A) \in Nat
      BY AgainFinite
    <2>2. IsFiniteSet(N) /\ Cardinality(N) \in Nat
      BY <1>1, NamingFinite
    <2>3. N = {j \in 1 .. m : st.left[j] = c}
      <3>1. DOMAIN st.left = 1 .. m
        BY <1>1, LenProperties DEF m
      <3>2. QED
        BY <3>1 DEF Naming
    <2>4. Cardinality(A) + Cardinality(N) = Cardinality(Naming(list, c))
      BY <1>10 DEF LoopInv, CountInv, n
    <2>5. M \subseteq A \cup F
      <3> SUFFICES ASSUME NEW i \in M PROVE i \in A \cup F
        OBVIOUS
      <3>1. cs[i].peer = p /\ cs[i].claim = c /\ cs[i].timeout >= now
        BY <1>6
      <3>2. CASE i \in 1 .. n
        <4>1. i \in H /\ cs[i] = st.table[i] /\ i <= n
          BY <1>2, <1>7, <3>2
        <4>2. cs[i].timeout # 0
          <5>1. ~(0 >= now)
            BY TypeFacts
          <5>2. QED
            BY <3>1, <5>1
        <4>3. QED
          BY <1>10, <4>1, <4>2 DEF Again, H
      <3>3. CASE i \notin 1 .. n
        <4>1. i - n \in 1 .. m /\ cs[i] = Fresh(peer, st.left[i - n])
          BY <1>8, <3>3
        <4>2. st.left[i - n] = c
          BY <3>1, <4>1 DEF Fresh
        <4>3. i - n \in N
          BY <2>3, <4>1, <4>2
        <4>4. n + (i - n) = i
          BY <1>2, <1>6
        <4>5. f[i - n] = i
          BY <4>3, <4>4
        <4>6. QED
          BY <4>3, <4>5
      <3>4. QED
        BY <3>2, <3>3
    <2>6. f \in Surjection(N, F)
      BY DEF Surjection
    <2> HIDE DEF A, N, f, F
    <2>7. IsFiniteSet(F) /\ Cardinality(F) <= Cardinality(N)
      BY <2>2, <2>6, FS_Surjection
    <2>8. A \cap F \in SUBSET A
      OBVIOUS
    <2>9. IsFiniteSet(A \cap F)
      BY <2>1, <2>8, FS_Subset
    <2>10. IsFiniteSet(A \cup F)
          /\ Cardinality(A \cup F) = Cardinality(A) + Cardinality(F) - Cardinality(A \cap F)
      BY <2>1, <2>7, FS_Union
    <2>11. Cardinality(F) \in Nat /\ Cardinality(A \cap F) \in Nat
      BY <2>7, <2>9, FS_CardinalityType
    <2>12. Cardinality(M) <= Cardinality(A \cup F) /\ Cardinality(M) \in Nat
      <3> DEFINE U == A \cup F
      <3>1. IsFiniteSet(U) /\ M \in SUBSET U
        BY <2>5, <2>10
      <3> HIDE DEF U
      <3>2. IsFiniteSet(M) /\ Cardinality(M) <= Cardinality(U)
        BY <3>1, FS_Subset
      <3>3. QED
        BY <3>2, FS_CardinalityType DEF U
    <2>13. Cardinality(M) <= Cardinality(Naming(list, c))
      BY <2>1, <2>2, <2>4, <2>7, <2>10, <2>11, <2>12
    <2>14. QED
      BY <1>10, <2>13 DEF M
  <1>11. QED
    BY <1>9, <1>10

(* What set_claims does to the table: the claims of other peers stay, those *)
(* of the peer that the list names are fresh, and others of the peer may    *)
(* stay as they are.                                                        *)
LEMMA SetClaimsFacts ==
    ASSUME TypeOK, NEW peer \in Peer, NEW list \in Announcements, set_claims(peer, list)
    PROVE  /\ claims' \in Seq(Entry)
           /\ \A e \in Items(claims) : e.peer # peer /\ e.timeout >= now => e \in Items(claims')
           /\ \A c \in Items(list) : Fresh(peer, c) \in Items(claims')
           /\ \A e \in Items(claims') :
                /\ e.timeout >= now
                /\ e \in Items(claims) \/ \E c \in Items(list) : e = Fresh(peer, c)
           /\ \A p, c :
                \/ Cardinality(Holding(claims', p, c)) <= Cardinality(Holding(claims, p, c))
                \/ /\ p = peer
                   /\ Cardinality(Holding(claims', p, c)) <= Cardinality(Naming(list, c))
  <1> DEFINE st == Refreshed(peer, list)
             cs == st.table \o Pushed(peer, st.left)
             n == Len(claims)
             m == Len(st.left)
  <1>1. list \in Seq(Claims)
    BY ListFacts
  <1>2. LoopInv(peer, list, n, st)
    BY <1>1, RefreshedFacts
  <1>3. st \in Loop /\ TableInv(peer, list, n, st) /\ NamedInv(peer, list, n, st)
    BY <1>2 DEF LoopInv
  <1>4. claims' = retain(cs, now)
    BY DEF set_claims, Pushed
  <1>5. PushedTo(peer, st, cs)
    <2> HIDE DEF st
    <2> QED
      BY <1>3, PushedFacts
  <1>6. now \in Nat /\ now > 0 /\ now + claim_timeout >= now /\ claim_timeout \in Nat
    BY TypeFacts, TableAssumption
  <1>7. DOMAIN claims = 1 .. n /\ n \in Nat
    BY TypeFacts, LenProperties
  <1>8. st.left \in Seq(Claims)
    <2> HIDE DEF st
    <2> QED
      BY <1>3 DEF Loop
  <1> HIDE DEF cs, st
  <1>9. DOMAIN st.left = 1 .. m /\ m \in Nat
    BY <1>8, LenProperties
  <1> HIDE DEF n, m
  <1>10. /\ cs \in Seq(Entry) /\ DOMAIN cs = 1 .. n + m
         /\ \A i \in 1 .. n : cs[i] = st.table[i]
         /\ \A j \in 1 .. m : cs[n + j] = Fresh(peer, st.left[j])
    BY <1>5 DEF PushedTo, n, m
  <1>11. claims' \in Seq(Entry) /\ Items(claims') = {e \in Items(cs) : e.timeout >= now}
    BY <1>4, <1>6, <1>10, RetainFacts
  <1>12. ASSUME NEW e \in Items(claims), e.peer # peer, e.timeout >= now
         PROVE  e \in Items(claims')
    <2>1. PICK i \in 1 .. n : e = claims[i]
      BY <1>7 DEF Items
    <2>2. cs[i] = claims[i]
      BY <1>3, <1>10, <1>12, <2>1 DEF TableInv, n
    <2>3. i \in DOMAIN cs
      BY <1>7, <1>9, <1>10
    <2>4. QED
      BY <1>11, <1>12, <2>1, <2>2, <2>3 DEF Items
  <1>13. ASSUME NEW c \in Items(list) PROVE Fresh(peer, c) \in Items(claims')
    <2>1. Fresh(peer, c).timeout >= now
      BY <1>6 DEF Fresh
    <2>2. CASE c \in Items(st.left)
      <3>1. PICK j \in 1 .. m : c = st.left[j]
        BY <1>9, <2>2 DEF Items
      <3>2. n + j \in DOMAIN cs /\ cs[n + j] = Fresh(peer, c)
        BY <1>7, <1>9, <1>10, <3>1
      <3>3. QED
        BY <1>11, <2>1, <3>2 DEF Items
    <2>3. ASSUME NEW i \in 1 .. n, st.table[i] = Fresh(peer, c) PROVE Fresh(peer, c) \in Items(claims')
      <3>1. i \in DOMAIN cs /\ cs[i] = Fresh(peer, c)
        BY <1>7, <1>9, <1>10, <2>3
      <3>2. QED
        BY <1>11, <2>1, <3>1 DEF Items
    <2>4. QED
      BY <1>3, <2>2, <2>3 DEF NamedInv
  <1>14. ASSUME NEW e \in Items(claims')
         PROVE  /\ e.timeout >= now
                /\ e \in Items(claims) \/ \E c \in Items(list) : e = Fresh(peer, c)
    <2>1. e.timeout >= now
      BY <1>11
    <2>2. PICK i \in 1 .. n + m : e = cs[i]
      BY <1>10, <1>11 DEF Items
    <2>3. CASE i \in 1 .. n
      <3>1. e = st.table[i] /\ e.timeout # 0
        <4>1. ~(0 >= now)
          BY <1>6
        <4>2. QED
          BY <1>10, <2>1, <2>2, <2>3, <4>1
      <3>2. \/ st.table[i] = claims[i]
            \/ st.table[i] = Fresh(peer, claims[i].claim) /\ claims[i].claim \in Items(list)
        <4>1. i <= n
          BY <1>7, <2>3
        <4>2. QED
          BY <1>3, <2>3, <3>1, <4>1 DEF TableInv, n
      <3>3. claims[i] \in Items(claims)
        BY <1>7, <2>3 DEF Items
      <3>4. QED
        BY <2>1, <3>1, <3>2, <3>3
    <2>4. CASE i \notin 1 .. n
      <3>1. i - n \in 1 .. m /\ i = n + (i - n)
        BY <1>7, <1>9, <2>4
      <3>2. e = Fresh(peer, st.left[i - n])
        BY <1>10, <2>2, <3>1
      <3>3. st.left[i - n] \in Items(list)
        BY <1>3, <1>9, <3>1 DEF NamedInv, Items
      <3>4. QED
        BY <2>1, <3>2, <3>3
    <2>5. QED
      BY <2>3, <2>4
  <1>15. ASSUME NEW p, NEW c
         PROVE  \/ Cardinality(Holding(claims', p, c)) <= Cardinality(Holding(claims, p, c))
                \/ /\ p = peer
                   /\ Cardinality(Holding(claims', p, c)) <= Cardinality(Naming(list, c))
    <2>1. Cardinality(Holding(claims', p, c)) = Cardinality(LiveAt(cs, now, p, c))
      BY <1>4, <1>6, <1>10, RetainFacts
    <2>2. \/ Cardinality(LiveAt(cs, now, p, c)) <= Cardinality(Holding(claims, p, c))
          \/ p = peer /\ Cardinality(LiveAt(cs, now, p, c)) <= Cardinality(Naming(list, c))
      BY <1>1, <1>2, <1>5, NoMoreThanNamed DEF n
    <2>3. QED
      BY <2>1, <2>2
  <1>16. QED
    BY <1>11, <1>12, <1>13, <1>14, <1>15

-----------------------------------------------------------------------------
(* The inductive invariant.                                                 *)

\* Entries last no longer than the announcement they come from allows.
AnnouncedInv ==
    \A e \in Items(claims) : /\ announced[e.peer][e.claim] # Never
                             /\ e.timeout <= announced[e.peer][e.claim] + claim_timeout

\* since is kept for the ranges in the table.
HeldInv ==
    \A p \in Peer, c \in Claims :
        since[p][c] # Never <=> \E e \in Items(claims) : e.peer = p /\ e.claim = c

\* A range in the table is newer than a derived route that it matches, or no
\* more specific than a range the route is based on.
NewerOr(a, e) ==
    \/ cache[a].timeout <= since[e.peer][e.claim] + cache_timeout
    \/ \E c \in Backing(a) : e.claim.prefix_len <= c.prefix_len

CacheInv ==
    \A a \in DOMAIN cache : ~cache[a].learned =>
        /\ cache[a].timeout <= now + cache_timeout
        /\ \A e \in Items(claims) : matches(e.claim, a) => NewerOr(a, e)

History == [Peer -> [Claims -> 0 .. now]]

Inv == /\ TypeOK /\ since \in History /\ announced \in History
       /\ cache = [a \in DOMAIN cache |-> cache[a]]
       /\ NoPileUp /\ AnnouncedInv /\ HeldInv /\ CacheInv
       /\ R!Backed

\* What the calls that end in housekeep have in common: the routes to some
\* peers stay, and what those peers announced.
Housekept(peers) ==
    /\ claims' \in Seq(Entry) /\ \A e \in Items(claims') : e.timeout >= now
    /\ cache' = R!LiveCache(peers)
    /\ now' = now
    /\ Hold
    /\ announced' \in History /\ \A p \in peers : announced'[p] = announced[p]
    /\ AnnouncedInv' /\ NoPileUp'

(* The entries of a sequence with timeouts that are not zero.               *)
LEMMA NonzeroEntries ==
    ASSUME NEW s \in Seq(Entry), \A e \in Items(s) : e.timeout # 0
    PROVE  s \in Seq([peer : Peer, claim : Claims, timeout : Nat \ {0}])
  <1> DEFINE E == [peer : Peer, claim : Claims, timeout : Nat \ {0}]
             n == Len(s)
  <1>1. n \in Nat /\ s \in [1 .. n -> Entry]
    BY LenProperties
  <1>2. \A i \in 1 .. n : s[i] \in Items(s)
    BY <1>1 DEF Items
  <1>3. \A i \in 1 .. n : s[i] \in E
    BY <1>1, <1>2 DEF Entry
  <1> HIDE DEF E, n
  <1>4. s \in [1 .. n -> E]
    BY <1>1, <1>3
  <1>5. s \in Seq(E)
    BY <1>1, <1>4, SeqDef
  <1>6. QED
    BY <1>5 DEF E

(* The routes that stay are routes that were there.                         *)
LEMMA LiveRoutes ==
    ASSUME NEW peers, cache' = R!LiveCache(peers)
    PROVE  /\ \A a \in DOMAIN cache' : /\ a \in DOMAIN cache /\ cache'[a] = cache[a]
                                       /\ cache[a].peer \in peers
           /\ cache' = [a \in DOMAIN cache' |-> cache'[a]]
  BY DEF R!LiveCache, R!Only

(* Hold keeps since up to date.                                             *)
LEMMA HoldFacts ==
    ASSUME TypeOK, since \in History, Hold, now' = now, claims' \in Seq(Entry)
    PROVE  /\ since' \in History'
           /\ HeldInv'
           /\ \A e \in Items(claims') :
                /\ e \in Entry
                /\ since'[e.peer][e.claim] =
                     IF since[e.peer][e.claim] = Never THEN now ELSE since[e.peer][e.claim]
  <1>1. now \in Nat /\ now > 0
    BY TypeFacts
  <1>2. \A p \in Peer, c \in Claims : since[p][c] \in 0 .. now
    BY DEF History
  <1>3. \A p \in Peer, c \in Claims :
            since'[p][c] = IF \A e \in Items(claims') : e.peer # p \/ e.claim # c THEN Never
                           ELSE IF since[p][c] = Never THEN now ELSE since[p][c]
    BY DEF Hold
  <1>4. since' \in [Peer -> [Claims -> 0 .. now]]
    BY <1>1, <1>2 DEF Hold, Never
  <1>5. HeldInv'
    BY <1>1, <1>3 DEF HeldInv, Never
  <1>6. \A e \in Items(claims') : e \in Entry
    <2>1. DOMAIN claims' = 1 .. Len(claims') /\ \A i \in 1 .. Len(claims') : claims'[i] \in Entry
      BY LenProperties, ElementOfSeq
    <2>2. QED
      BY <2>1 DEF Items
  <1>7. ASSUME NEW e \in Items(claims')
        PROVE  since'[e.peer][e.claim] =
                 IF since[e.peer][e.claim] = Never THEN now ELSE since[e.peer][e.claim]
    <2>1. e.peer \in Peer /\ e.claim \in Claims
      BY <1>6 DEF Entry
    <2>2. QED
      BY <1>3, <2>1
  <1>8. QED
    BY <1>4, <1>5, <1>6, <1>7 DEF History

(* Those calls keep the derived routes no staler than before.               *)
LEMMA HousekeptCache ==
    ASSUME Inv, NEW peers \in SUBSET Peer, Housekept(peers)
    PROVE  CacheInv'
  <1>1. /\ now \in Nat /\ cache_timeout \in Nat /\ now' = now
        /\ TypeOK /\ since \in History /\ HeldInv /\ CacheInv
    BY TypeFacts, TableAssumption DEF Inv, Housekept
  <1>2. /\ \A a \in DOMAIN cache' : /\ a \in DOMAIN cache /\ cache'[a] = cache[a]
                                    /\ cache[a].peer \in peers
    BY LiveRoutes DEF Housekept
  <1>3. \A e \in Items(claims') :
            /\ e \in Entry
            /\ since'[e.peer][e.claim] =
                 IF since[e.peer][e.claim] = Never THEN now ELSE since[e.peer][e.claim]
    BY <1>1, HoldFacts DEF Housekept
  <1> SUFFICES ASSUME NEW a \in DOMAIN cache', ~cache'[a].learned
               PROVE  /\ cache'[a].timeout <= now + cache_timeout
                      /\ \A e \in Items(claims') : matches(e.claim, a) => NewerOr(a, e)'
    BY <1>1 DEF CacheInv
  <1>4. /\ a \in DOMAIN cache /\ cache'[a] = cache[a] /\ cache[a].peer \in peers
        /\ ~cache[a].learned
    BY <1>2
  <1>5. cache'[a].timeout <= now + cache_timeout
    BY <1>1, <1>4 DEF CacheInv
  <1>6. Backing(a)' = Backing(a)
    BY <1>4 DEF Backing, Housekept
  <1>7. ASSUME NEW e \in Items(claims'), matches(e.claim, a) PROVE NewerOr(a, e)'
    <2>1. e.peer \in Peer /\ e.claim \in Claims
      BY <1>3 DEF Entry
    <2>2. CASE since[e.peer][e.claim] = Never
      BY <1>3, <1>5, <2>2 DEF NewerOr
    <2>3. CASE since[e.peer][e.claim] # Never
      <3>1. PICK d \in Items(claims) : d.peer = e.peer /\ d.claim = e.claim
        BY <1>1, <2>1, <2>3 DEF HeldInv
      <3>2. NewerOr(a, d)
        BY <1>1, <1>4, <1>7, <3>1 DEF CacheInv
      <3>3. since'[e.peer][e.claim] = since[d.peer][d.claim]
        BY <1>3, <2>3, <3>1
      <3>4. QED
        BY <1>4, <1>6, <3>1, <3>2, <3>3 DEF NewerOr
    <2>4. QED
      BY <2>2, <2>3
  <1>8. QED
    BY <1>5, <1>7

(* Those calls preserve all of the invariant but Backed.                    *)
LEMMA HousekeptInv ==
    ASSUME Inv, NEW peers \in SUBSET Peer, Housekept(peers), R!Backed'
    PROVE  Inv'
  <1>1. TypeOK /\ since \in History /\ now \in Nat /\ now > 0 /\ now' = now
    BY TypeFacts DEF Inv, Housekept
  <1>2. since' \in History' /\ HeldInv'
    BY <1>1, HoldFacts DEF Housekept
  <1>3. CacheInv'
    BY HousekeptCache
  <1>4. TypeOK'
    <2>1. claims' \in Seq([peer : Peer, claim : Claims, timeout : Nat \ {0}])
      <3>1. \A e \in Items(claims') : e.timeout # 0
        <4>1. ~(0 >= now)
          BY <1>1
        <4>2. QED
          BY <4>1 DEF Housekept
      <3>2. QED
        BY <3>1, NonzeroEntries DEF Housekept
    <2>2. \A a \in DOMAIN cache' : a \in DOMAIN cache /\ cache'[a] = cache[a]
      BY LiveRoutes DEF Housekept
    <2>3. QED
      BY <1>1, <2>1, <2>2 DEF TypeOK
  <1>5. cache' = [a \in DOMAIN cache' |-> cache'[a]]
    BY LiveRoutes DEF Housekept
  <1>6. announced' \in History'
    BY <1>1 DEF Housekept, History
  <1>7. QED
    BY <1>2, <1>3, <1>4, <1>5, <1>6 DEF Inv, Housekept

(* Entries and announced ranges have their types.                           *)
LEMMA ItemFacts ==
    ASSUME TypeOK
    PROVE  /\ \A e \in Items(claims) : e \in Entry /\ e.timeout # 0
           /\ \A list \in Announcements : Items(list) \subseteq Claims
  <1>1. DOMAIN claims = 1 .. Len(claims)
    BY TypeFacts, LenProperties
  <1>2. QED
    BY <1>1, TypeFacts DEF Items, Claims

(* Removing the routes to a peer is what the abstract table does.           *)
LEMMA ZeroedRoutes ==
    ASSUME TypeOK, NEW peer
    PROVE  retain_cache(ZeroCache(peer), now) = R!LiveCache(Peer \ {peer})
  <1> DEFINE Z == ZeroCache(peer)
             A == {a \in DOMAIN Z : Z[a].timeout >= now}
             B == {a \in DOMAIN cache : cache[a].timeout >= now /\ cache[a].peer \in Peer \ {peer}}
  <1>1. now \in Nat /\ ~(0 >= now)
    BY TypeFacts
  <1>2. \A a \in DOMAIN cache : cache[a] \in [peer : Peer, timeout : Nat \ {0}, learned : BOOLEAN]
    BY DEF TypeOK
  <1>3. DOMAIN Z = DOMAIN cache
    BY DEF ZeroCache
  <1>4. \A a \in DOMAIN cache :
            /\ cache[a].peer = peer => Z[a].timeout = 0
            /\ cache[a].peer # peer => Z[a] = cache[a]
    BY <1>2 DEF ZeroCache
  <1> HIDE DEF Z
  <1>5. A = B
    BY <1>1, <1>2, <1>3, <1>4
  <1>6. \A a \in B : Z[a] = cache[a]
    BY <1>4
  <1>7. [a \in A |-> Z[a]] = [a \in B |-> cache[a]]
    <2> HIDE DEF A, B
    <2> QED
      BY <1>5, <1>6
  <1>8. QED
    BY <1>7 DEF retain_cache, R!LiveCache, R!Only, Z

(* Removing the routes that are over is what the abstract table does.       *)
LEMMA ExpiredRoutes ==
    ASSUME TypeOK
    PROVE  retain_cache(cache, now) = R!LiveCache(Peer)
  <1> DEFINE A == {a \in DOMAIN cache : cache[a].timeout >= now}
             B == {a \in DOMAIN cache : cache[a].timeout >= now /\ cache[a].peer \in Peer}
  <1>1. A = B
    BY DEF TypeOK
  <1>2. [a \in A |-> cache[a]] = [a \in B |-> cache[a]]
    BY <1>1
  <1>3. QED
    BY <1>2 DEF retain_cache, R!LiveCache, R!Only

(* What announced records of a peer that announces or leaves.               *)
LEMMA AnnouncedStep ==
    ASSUME TypeOK, announced \in History, NEW peer \in Peer, NEW f \in [Claims -> 0 .. now],
           announced' = [announced EXCEPT ![peer] = f]
    PROVE  /\ announced' \in History /\ announced'[peer] = f
           /\ \A p \in Peer : p # peer => announced'[p] = announced[p]
  BY DEF History

(* set_claims preserves the bounds on the entries and on their number.      *)
LEMMA SetClaimsHousekept ==
    ASSUME Inv, NEW peer \in Peer, NEW list \in Announcements, set_claims(peer, list)
    PROVE  Housekept(Peer \ {peer})
  <1>1. /\ TypeOK /\ announced \in History /\ AnnouncedInv /\ NoPileUp
        /\ now \in Nat /\ now > 0 /\ claim_timeout \in Nat /\ now' = now
    BY TypeFacts, TableAssumption DEF Inv, set_claims
  <1>2. /\ claims' \in Seq(Entry)
        /\ \A e \in Items(claims') :
             /\ e.timeout >= now
             /\ e \in Items(claims) \/ \E c \in Items(list) : e = Fresh(peer, c)
        /\ \A p, c :
             \/ Cardinality(Holding(claims', p, c)) <= Cardinality(Holding(claims, p, c))
             \/ /\ p = peer
                /\ Cardinality(Holding(claims', p, c)) <= Cardinality(Naming(list, c))
    BY <1>1, SetClaimsFacts
  <1> DEFINE f == [c \in Claims |-> IF c \in Items(list) THEN now ELSE announced[peer][c]]
  <1>3. f \in [Claims -> 0 .. now] /\ announced' = [announced EXCEPT ![peer] = f]
    BY <1>1 DEF set_claims, History
  <1>4. \A c \in Claims : f[c] = IF c \in Items(list) THEN now ELSE announced[peer][c]
    OBVIOUS
  <1> HIDE DEF f
  <1>5. /\ announced' \in History /\ announced'[peer] = f
        /\ \A p \in Peer : p # peer => announced'[p] = announced[p]
    BY <1>1, <1>3, AnnouncedStep, Zenon
  <1>6. AnnouncedInv'
    <2> SUFFICES ASSUME NEW e \in Items(claims')
                 PROVE  /\ announced'[e.peer][e.claim] # Never
                        /\ e.timeout <= announced'[e.peer][e.claim] + claim_timeout
      BY DEF AnnouncedInv
    <2>1. CASE e \in Items(claims)
      <3>1. /\ e.peer \in Peer /\ e.claim \in Claims /\ e.timeout \in Nat
            /\ announced[e.peer][e.claim] # Never
            /\ e.timeout <= announced[e.peer][e.claim] + claim_timeout
            /\ announced[e.peer][e.claim] \in 0 .. now
        BY <1>1, <2>1, ItemFacts DEF AnnouncedInv, Entry, History
      <3>2. \/ announced'[e.peer][e.claim] = announced[e.peer][e.claim]
            \/ announced'[e.peer][e.claim] = now
        BY <1>4, <1>5, <3>1
      <3>3. QED
        BY <1>1, <3>1, <3>2 DEF Never
    <2>2. ASSUME NEW c \in Items(list), e = Fresh(peer, c)
          PROVE  /\ announced'[e.peer][e.claim] # Never
                 /\ e.timeout <= announced'[e.peer][e.claim] + claim_timeout
      <3>1. e.peer = peer /\ e.claim = c /\ e.timeout = now + claim_timeout
        BY <2>2 DEF Fresh
      <3>2. announced'[peer][c] = now
        BY <1>1, <1>4, <1>5, ItemFacts
      <3>3. QED
        BY <1>1, <3>1, <3>2 DEF Never
    <2>3. QED
      BY <1>2, <2>1, <2>2
  <1>7. NoPileUp'
    <2> SUFFICES ASSUME NEW p \in Peer, NEW c \in Claims
                 PROVE  \E l \in Announcements :
                            Cardinality(Holding(claims', p, c)) <= Cardinality(Naming(l, c))
      BY DEF NoPileUp
    <2>1. PICK l \in Announcements :
            Cardinality(Holding(claims, p, c)) <= Cardinality(Naming(l, c))
      BY <1>1 DEF NoPileUp
    <2>2. CASE Cardinality(Holding(claims', p, c)) <= Cardinality(Holding(claims, p, c))
      <3>1. /\ Cardinality(Holding(claims', p, c)) \in Nat
            /\ Cardinality(Holding(claims, p, c)) \in Nat
            /\ Cardinality(Naming(l, c)) \in Nat
        BY <1>1, <1>2, TypeFacts, ListFacts, HoldingFinite, NamingFinite, FS_CardinalityType
      <3>2. QED
        BY <2>1, <2>2, <3>1
    <2>3. QED
      BY <1>2, <2>2
  <1>8. cache' = R!LiveCache(Peer \ {peer}) /\ Hold
    BY <1>1, ZeroedRoutes DEF set_claims
  <1>9. QED
    BY <1>1, <1>2, <1>5, <1>6, <1>7, <1>8 DEF Housekept

(* set_claims is a SetClaims step of the abstract table.                    *)
LEMMA SetClaimsImplements ==
    ASSUME TypeOK, NEW peer \in Peer, NEW list \in Announcements, set_claims(peer, list)
    PROVE  R!SetClaims(peer, Items(list)) /\ Items(list) \in SUBSET Claims
  <1> DEFINE kept == {e \in Items(claims) : e.peer = peer /\ e \in Items(claims')}
             before == {e \in Items(claims) : e.peer # peer}
             news == {[peer |-> peer, claim |-> c, timeout |-> now + claim_timeout] :
                        c \in Items(list)}
  <1>1. /\ \A e \in Items(claims) : e.peer # peer /\ e.timeout >= now => e \in Items(claims')
        /\ \A c \in Items(list) : Fresh(peer, c) \in Items(claims')
        /\ \A e \in Items(claims') :
             /\ e.timeout >= now
             /\ e \in Items(claims) \/ \E c \in Items(list) : e = Fresh(peer, c)
    BY SetClaimsFacts
  <1>2. kept \in SUBSET {e \in Items(claims) : e.peer = peer}
    OBVIOUS
  <1>3. Items(claims') = R!Live(before \cup kept) \cup news
    BY <1>1 DEF R!Live, Fresh
  <1>4. cache' = R!LiveCache(Peer \ {peer}) /\ now' = now
    BY ZeroedRoutes DEF set_claims
  <1>5. Items(list) \in SUBSET Claims
    BY ItemFacts
  <1>6. \E k \in SUBSET {e \in Items(claims) : e.peer = peer} :
            Items(claims)' = R!Live(before \cup k) \cup news
    <2>1. Items(claims)' = Items(claims')
      BY DEF Items
    <2> HIDE DEF kept, before, news
    <2> QED
      BY <1>2, <1>3, <2>1
  <1>7. QED
    BY <1>4, <1>5, <1>6 DEF R!SetClaims

(* Removing entries that are over or marked leaves some of the entries.     *)
LEMMA RemovalFacts ==
    ASSUME TypeOK, NoPileUp, NEW cs \in Seq(Entry), Len(cs) = Len(claims),
           \A i \in 1 .. Len(claims) : cs[i] = claims[i] \/ cs[i].timeout = 0,
           claims' = retain(cs, now)
    PROVE  /\ claims' \in Seq(Entry) /\ NoPileUp'
           /\ Items(claims') = {e \in Items(cs) : e.timeout >= now}
           /\ \A e \in Items(claims') : e.timeout >= now /\ e \in Items(claims)
  <1> DEFINE n == Len(claims)
  <1>1. now \in Nat /\ ~(0 >= now) /\ n \in Nat /\ claims \in Seq(Entry)
    BY TypeFacts
  <1>2. DOMAIN cs = 1 .. n /\ DOMAIN claims = 1 .. n
    BY <1>1, LenProperties
  <1>3. claims' \in Seq(Entry) /\ Items(claims') = {e \in Items(cs) : e.timeout >= now}
    BY <1>1, RetainFacts
  <1>4. \A i \in 1 .. n : cs[i].timeout >= now => cs[i] = claims[i]
    BY <1>1
  <1> HIDE DEF n
  <1>5. \A e \in Items(claims') : e.timeout >= now /\ e \in Items(claims)
    BY <1>2, <1>3, <1>4 DEF Items
  <1>6. ASSUME NEW p \in Peer, NEW c \in Claims
        PROVE  \E l \in Announcements :
                    Cardinality(Holding(claims', p, c)) <= Cardinality(Naming(l, c))
    <2>1. PICK l \in Announcements :
            Cardinality(Holding(claims, p, c)) <= Cardinality(Naming(l, c))
      BY DEF NoPileUp
    <2>2. Cardinality(Holding(claims', p, c)) = Cardinality(LiveAt(cs, now, p, c))
      BY <1>1, RetainFacts
    <2>3. LiveAt(cs, now, p, c) \subseteq Holding(claims, p, c)
      BY <1>2, <1>4 DEF LiveAt, Holding
    <2>4. IsFiniteSet(Holding(claims, p, c))
      BY <1>1, HoldingFinite
    <2> DEFINE L == LiveAt(cs, now, p, c)
               H == Holding(claims, p, c)
    <2>5. /\ Cardinality(L) <= Cardinality(H)
          /\ Cardinality(L) \in Nat /\ Cardinality(H) \in Nat
      <3> HIDE DEF L, H
      <3> QED
        BY <2>3, <2>4, FS_Subset, FS_CardinalityType DEF L, H
    <2>6. Cardinality(Naming(l, c)) \in Nat
      BY ListFacts, NamingFinite
    <2>7. QED
      BY <2>1, <2>2, <2>5, <2>6
  <1>7. NoPileUp'
    BY <1>6 DEF NoPileUp
  <1>8. QED
    BY <1>3, <1>5, <1>7

(* remove_claims is a RemoveClaims step of the abstract table.              *)
LEMMA RemoveClaimsStep ==
    ASSUME Inv, NEW peer \in Peer, remove_claims(peer)
    PROVE  Housekept(Peer \ {peer}) /\ R!RemoveClaims(peer)
  <1> DEFINE cs == [i \in DOMAIN claims |->
                     IF claims[i].peer = peer THEN [claims[i] EXCEPT !.timeout = 0] ELSE claims[i]]
             n == Len(claims)
             f == [c \in Claims |-> Never]
  <1>1. /\ TypeOK /\ announced \in History /\ AnnouncedInv /\ NoPileUp
        /\ now \in Nat /\ ~(0 >= now) /\ now' = now
        /\ claims \in Seq(Entry) /\ n \in Nat
        /\ \A i \in 1 .. n : claims[i] \in Entry
    BY TypeFacts DEF Inv, remove_claims
  <1>2. DOMAIN claims = 1 .. n
    BY <1>1, LenProperties
  <1>3. claims' = retain(cs, now)
    BY DEF remove_claims
  <1> HIDE DEF n
  <1>4. \A i \in 1 .. n :
            /\ cs[i] \in Entry
            /\ claims[i].peer = peer => cs[i].timeout = 0
            /\ claims[i].peer # peer => cs[i] = claims[i]
    BY <1>1, <1>2 DEF Entry
  <1>5. DOMAIN cs = 1 .. n /\ cs = [i \in 1 .. n |-> cs[i]]
    BY <1>2
  <1> HIDE DEF cs
  <1>6. cs \in Seq(Entry) /\ Len(cs) = n
    <2>1. cs \in [1 .. n -> Entry]
      BY <1>4, <1>5
    <2>2. cs \in Seq(Entry)
      BY <1>1, <2>1, SeqDef
    <2>3. QED
      BY <1>1, <1>5, <2>2, LenProperties
  <1>7. /\ claims' \in Seq(Entry) /\ NoPileUp'
        /\ Items(claims') = {e \in Items(cs) : e.timeout >= now}
        /\ \A e \in Items(claims') : e.timeout >= now /\ e \in Items(claims)
    BY <1>1, <1>3, <1>4, <1>6, RemovalFacts DEF n
  <1>8. Items(claims') = {e \in Items(claims) : e.timeout >= now /\ e.peer # peer}
    <2>1. Items(cs) = {cs[i] : i \in 1 .. n} /\ Items(claims) = {claims[i] : i \in 1 .. n}
      BY <1>2, <1>5 DEF Items
    <2>2. ASSUME NEW e \in Items(claims') PROVE e \in Items(claims) /\ e.peer # peer
      <3>1. PICK i \in 1 .. n : e = cs[i]
        BY <1>7, <2>1
      <3>2. claims[i].peer # peer
        BY <1>1, <1>4, <1>7, <3>1
      <3>3. QED
        BY <1>4, <2>1, <3>1, <3>2
    <2>3. ASSUME NEW e \in Items(claims), e.timeout >= now, e.peer # peer
          PROVE  e \in Items(claims')
      <3>1. PICK i \in 1 .. n : e = claims[i]
        BY <2>1
      <3>2. QED
        BY <1>4, <1>7, <2>1, <2>3, <3>1
    <2>4. QED
      BY <1>7, <2>2, <2>3
  <1>9. f \in [Claims -> 0 .. now] /\ announced' = [announced EXCEPT ![peer] = f]
    BY <1>1 DEF remove_claims, Never
  <1> HIDE DEF f
  <1>10. /\ announced' \in History
         /\ \A p \in Peer : p # peer => announced'[p] = announced[p]
    BY <1>1, <1>9, AnnouncedStep
  <1>11. AnnouncedInv'
    BY <1>1, <1>8, <1>10, ItemFacts DEF AnnouncedInv, Entry
  <1>12. cache' = R!LiveCache(Peer \ {peer}) /\ Hold
    BY <1>1, ZeroedRoutes DEF remove_claims
  <1>13. Items(claims)' = R!Live({e \in Items(claims) : e.peer # peer})
    BY <1>8 DEF R!Live
  <1>14. QED
    BY <1>1, <1>7, <1>10, <1>11, <1>12, <1>13 DEF Housekept, R!RemoveClaims

(* housekeep is an Expire step of the abstract table.                       *)
LEMMA HousekeepStep ==
    ASSUME Inv, housekeep
    PROVE  Housekept(Peer) /\ R!Expire
  <1>1. /\ TypeOK /\ announced \in History /\ AnnouncedInv /\ NoPileUp
        /\ now' = now /\ announced' = announced /\ claims \in Seq(Entry)
    BY TypeFacts DEF Inv, housekeep
  <1>2. claims' = retain(claims, now)
    BY DEF housekeep
  <1>3. /\ claims' \in Seq(Entry) /\ NoPileUp'
        /\ Items(claims') = {e \in Items(claims) : e.timeout >= now}
    BY <1>1, <1>2, RemovalFacts
  <1>4. AnnouncedInv'
    BY <1>1, <1>3 DEF AnnouncedInv
  <1>5. cache' = R!LiveCache(Peer) /\ Hold
    BY <1>1, ExpiredRoutes DEF housekeep
  <1>6. Items(claims)' = R!Live(Items(claims))
    BY <1>3 DEF R!Live
  <1>7. QED
    BY <1>1, <1>3, <1>4, <1>5, <1>6 DEF Housekept, R!Expire

(* Inserting a route touches no other.                                      *)
LEMMA InsertFacts ==
    ASSUME NEW addr, NEW entry, Insert(addr, entry)
    PROVE  /\ DOMAIN cache' = DOMAIN cache \cup {addr} /\ cache'[addr] = entry
           /\ \A a \in DOMAIN cache' : a = addr \/ (a \in DOMAIN cache /\ cache'[a] = cache[a])
           /\ cache' = [a \in DOMAIN cache' |-> cache'[a]]
  BY DEF Insert

(* Learning preserves the invariant.                                         *)
LEMMA LearnStep ==
    ASSUME Inv, NEW addr \in Addresses, NEW peer \in Peer, Learn(addr, peer), R!Backed'
    PROVE  Inv'
  <1> DEFINE entry == [peer |-> peer, timeout |-> now + cache_timeout, learned |-> TRUE]
  <1>1. now \in Nat /\ now > 0 /\ cache_timeout \in Nat
    BY TypeFacts, TableAssumption DEF Inv
  <1>2. /\ DOMAIN cache' = DOMAIN cache \cup {addr} /\ cache'[addr] = entry
        /\ \A a \in DOMAIN cache' : a = addr \/ (a \in DOMAIN cache /\ cache'[a] = cache[a])
        /\ cache' = [a \in DOMAIN cache' |-> cache'[a]]
    BY InsertFacts DEF Learn
  <1>3. entry \in [peer : Peer, timeout : Nat \ {0}, learned : BOOLEAN] /\ entry.learned
    BY <1>1
  <1> HIDE DEF entry
  <1>4. /\ claims' = claims /\ now' = now /\ announced' = announced /\ since' = since
    BY DEF Learn
  <1>5. TypeOK'
    BY <1>2, <1>3, <1>4 DEF Inv, TypeOK
  <1>6. CacheInv'
    <2> SUFFICES ASSUME NEW a \in DOMAIN cache', ~cache'[a].learned
                 PROVE  /\ cache'[a].timeout <= now + cache_timeout
                        /\ \A e \in Items(claims) : matches(e.claim, a) => NewerOr(a, e)'
      BY <1>4 DEF CacheInv
    <2>1. a \in DOMAIN cache /\ cache'[a] = cache[a]
      BY <1>2, <1>3
    <2>2. Backing(a)' = Backing(a)
      BY <1>4, <2>1 DEF Backing
    <2>3. QED
      BY <1>4, <2>1, <2>2 DEF Inv, CacheInv, NewerOr
  <1>7. QED
    BY <1>2, <1>4, <1>5, <1>6 DEF Inv, History, NoPileUp, AnnouncedInv, HeldInv

(* A lookup that scans the table remembers a most specific claim.           *)
LEMMA FoundEntry ==
    ASSUME TypeOK, NEW addr, Found(addr) # 0
    PROVE  \E e \in Items(claims) :
              /\ e = claims[Found(addr)]
              /\ matches(e.claim, addr)
              /\ \A d \in Items(claims) :
                    matches(d.claim, addr) => d.claim.prefix_len <= e.claim.prefix_len
  <1> DEFINE n == Len(claims)
             k == Found(addr)
  <1>1. BestInv(addr, n, k) /\ DOMAIN claims = 1 .. n /\ n \in Nat
    BY FoundFacts, TypeFacts, LenProperties
  <1> HIDE DEF n, k
  <1>2. k \in 1 .. n /\ matches(claims[k].claim, addr)
    BY <1>1 DEF BestInv, k
  <1>3. claims[k] \in Items(claims)
    BY <1>1, <1>2 DEF Items
  <1>4. \A d \in Items(claims) :
            matches(d.claim, addr) => d.claim.prefix_len <= claims[k].claim.prefix_len
    BY <1>1 DEF BestInv, Items
  <1>5. QED
    BY <1>2, <1>3, <1>4 DEF k

(* A lookup is a Resolve step of the abstract table, or changes nothing.    *)
LEMMA LookupImplements ==
    ASSUME TypeOK, NEW addr \in Addresses, lookup(addr)
    PROVE  R!Resolve(addr) \/ UNCHANGED vars
  <1>1. CASE addr \notin DOMAIN cache /\ Found(addr) # 0
    <2>1. PICK e \in Items(claims) :
            /\ e = claims[Found(addr)]
            /\ matches(e.claim, addr)
            /\ \A d \in Items(claims) :
                    matches(d.claim, addr) => d.claim.prefix_len <= e.claim.prefix_len
      BY <1>1, FoundEntry
    <2>2. R!MostSpecific(e, addr)
      BY <2>1 DEF R!MostSpecific
    <2>3. CacheFound(addr, e) /\ claims' = claims /\ now' = now
      BY <1>1, <2>1 DEF lookup
    <2>4. R!Remember(addr, [peer |-> e.peer, learned |-> FALSE,
                            timeout |-> IF now + cache_timeout <= e.timeout
                                        THEN now + cache_timeout ELSE e.timeout])
      BY <2>3 DEF CacheFound, Insert, R!Remember
    <2>5. QED
      BY <1>1, <2>2, <2>3, <2>4 DEF R!Resolve, Items
  <1>2. CASE ~(addr \notin DOMAIN cache /\ Found(addr) # 0)
    BY <1>2 DEF lookup, vars
  <1>3. QED
    BY <1>1, <1>2

(* A lookup preserves the invariant: what it remembers is at least as       *)
(* specific as every claim that matches.                                    *)
LEMMA LookupStep ==
    ASSUME Inv, NEW addr \in Addresses, lookup(addr), addr \notin DOMAIN cache,
           Found(addr) # 0, R!Backed'
    PROVE  Inv'
  <1>1. /\ now \in Nat /\ now > 0 /\ cache_timeout \in Nat /\ TypeOK
    BY TypeFacts, TableAssumption DEF Inv
  <1>2. PICK e0 \in Items(claims) :
            /\ e0 = claims[Found(addr)]
            /\ matches(e0.claim, addr)
            /\ \A d \in Items(claims) :
                    matches(d.claim, addr) => d.claim.prefix_len <= e0.claim.prefix_len
    BY <1>1, FoundEntry
  <1> DEFINE t == IF now + cache_timeout <= e0.timeout THEN now + cache_timeout ELSE e0.timeout
             entry == [peer |-> e0.peer, learned |-> FALSE, timeout |-> t]
  <1>3. Insert(addr, entry)
    BY <1>2 DEF lookup, CacheFound
  <1>4. e0 \in Entry /\ e0.timeout # 0
    BY <1>1, ItemFacts
  <1>5. t \in Nat \ {0} /\ t <= now + cache_timeout
    BY <1>1, <1>4 DEF Entry
  <1> HIDE DEF t
  <1>6. /\ entry \in [peer : Peer, timeout : Nat \ {0}, learned : BOOLEAN]
        /\ entry.peer = e0.peer /\ entry.timeout = t
    BY <1>4, <1>5 DEF Entry
  <1> HIDE DEF entry
  <1>7. /\ DOMAIN cache' = DOMAIN cache \cup {addr} /\ cache'[addr] = entry
        /\ \A a \in DOMAIN cache' : a = addr \/ (a \in DOMAIN cache /\ cache'[a] = cache[a])
        /\ cache' = [a \in DOMAIN cache' |-> cache'[a]]
    BY <1>3, InsertFacts
  <1>8. claims' = claims /\ now' = now /\ announced' = announced /\ since' = since
    BY DEF lookup
  <1>9. TypeOK'
    BY <1>6, <1>7, <1>8 DEF Inv, TypeOK
  <1>10. CacheInv'
    <2> SUFFICES ASSUME NEW a \in DOMAIN cache', ~cache'[a].learned
                 PROVE  /\ cache'[a].timeout <= now + cache_timeout
                        /\ \A e \in Items(claims) : matches(e.claim, a) => NewerOr(a, e)'
      BY <1>8 DEF CacheInv
    <2>1. CASE a = addr
      <3>1. e0.claim \in Backing(a)'
        <4>1. announced[e0.peer][e0.claim] # Never
          BY DEF Inv, AnnouncedInv
        <4>2. e0.claim \in Claims
          BY <1>4 DEF Entry
        <4>3. QED
          BY <1>2, <1>6, <1>7, <1>8, <2>1, <4>1, <4>2 DEF Backing
      <3>2. \A e \in Items(claims) : matches(e.claim, a) => NewerOr(a, e)'
        BY <1>2, <2>1, <3>1 DEF NewerOr
      <3>3. QED
        BY <1>5, <1>6, <1>7, <2>1, <3>2
    <2>2. CASE a # addr
      <3>1. a \in DOMAIN cache /\ cache'[a] = cache[a]
        BY <1>7, <2>2
      <3>2. Backing(a)' = Backing(a)
        BY <1>8, <3>1 DEF Backing
      <3>3. QED
        BY <1>8, <3>1, <3>2 DEF Inv, CacheInv, NewerOr
    <2>3. QED
      BY <2>1, <2>2
  <1>11. QED
    BY <1>7, <1>8, <1>9, <1>10 DEF Inv, History, NoPileUp, AnnouncedInv, HeldInv

(* The clock preserves the invariant.                                       *)
LEMMA TickStep ==
    ASSUME Inv, Tick
    PROVE  Inv'
  <1>1. now \in Nat /\ cache_timeout \in Nat /\ now' = now + 1
    BY TypeFacts, TableAssumption DEF Inv, Tick
  <1>2. claims' = claims /\ cache' = cache /\ announced' = announced /\ since' = since
    BY DEF Tick
  <1>3. TypeOK'
    BY <1>1, <1>2, TableAssumption DEF Inv, TypeOK, Tick
  <1>4. 0 .. now \subseteq 0 .. now'
    BY <1>1
  <1>5. since' \in History' /\ announced' \in History'
    <2> DEFINE A == 0 .. now
               B == 0 .. now'
    <2>1. since \in [Peer -> [Claims -> A]] /\ announced \in [Peer -> [Claims -> A]]
      BY DEF Inv, History
    <2> HIDE DEF A, B
    <2>2. since \in [Peer -> [Claims -> B]] /\ announced \in [Peer -> [Claims -> B]]
      BY <1>4, <2>1 DEF A, B
    <2>3. QED
      BY <1>2, <2>2 DEF B, History
  <1>6. CacheInv'
    <2> SUFFICES ASSUME NEW a \in DOMAIN cache, ~cache[a].learned
                 PROVE  /\ cache[a].timeout <= now' + cache_timeout
                        /\ \A e \in Items(claims) : matches(e.claim, a) => NewerOr(a, e)'
      BY <1>2 DEF CacheInv
    <2>1. Backing(a)' = Backing(a)
      BY <1>2 DEF Backing
    <2>2. cache[a].timeout \in Nat
      BY DEF Inv, TypeOK
    <2>3. QED
      BY <1>1, <1>2, <2>1, <2>2 DEF Inv, CacheInv, NewerOr
  <1>7. R!Backed'
    BY <1>2 DEF Inv, R!Backed, Items
  <1>8. QED
    BY <1>2, <1>3, <1>5, <1>6, <1>7 DEF Inv, NoPileUp, AnnouncedInv, HeldInv

-----------------------------------------------------------------------------
(* The theorems.                                                            *)

(* The invariant gives the abstract table its types.                        *)
LEMMA AbstractTypes ==
    ASSUME Inv
    PROVE  R!TypeOK
  <1>1. \A e \in Items(claims) : e \in Entry
    BY ItemFacts DEF Inv
  <1>2. Items(claims) \in SUBSET R!Entry
    BY <1>1 DEF Entry, R!Entry
  <1>3. now \in Nat
    BY TypeFacts DEF Inv
  <1>4. DOMAIN cache \subseteq Addresses /\ \A a \in DOMAIN cache : cache[a] \in R!Route
    BY DEF Inv, TypeOK, R!Route
  <1>5. cache \in [DOMAIN cache -> R!Route]
    BY <1>4 DEF Inv
  <1>6. QED
    BY <1>2, <1>3, <1>4, <1>5 DEF R!TypeOK

(* Every step of the table is a step of the abstract table or changes       *)
(* nothing that it shows.                                                   *)
LEMMA StepImplements ==
    ASSUME Inv, [Next]_vars
    PROVE  [R!Next]_(R!vars)
  <1>1. TypeOK
    BY DEF Inv
  <1>2. ASSUME NEW peer \in Peer, NEW list \in Announcements, set_claims(peer, list)
        PROVE  R!Next
    BY <1>1, <1>2, SetClaimsImplements DEF R!Next
  <1>3. ASSUME NEW peer \in Peer, remove_claims(peer)
        PROVE  R!Next
    BY <1>3, RemoveClaimsStep DEF R!Next
  <1>4. ASSUME NEW peer \in Peer, NEW addr \in Addresses, Learn(addr, peer)
        PROVE  R!Next
    <2>1. R!Learn(addr, peer)
      BY <1>4 DEF Learn, Insert, R!Learn, R!Remember, Items
    <2>2. QED
      BY <2>1 DEF R!Next
  <1>5. ASSUME NEW addr \in Addresses, lookup(addr)
        PROVE  [R!Next]_(R!vars)
    <2>1. CASE R!Resolve(addr)
      BY <2>1 DEF R!Next
    <2>2. CASE UNCHANGED vars
      BY <2>2 DEF vars, R!vars, Items
    <2>3. QED
      BY <1>1, <1>5, <2>1, <2>2, LookupImplements
  <1>6. CASE housekeep
    BY <1>6, HousekeepStep DEF R!Next
  <1>7. CASE Tick
    <2>1. R!Tick
      BY <1>7 DEF Tick, R!Tick, Items
    <2>2. QED
      BY <2>1 DEF R!Next
  <1>8. CASE UNCHANGED vars
    BY <1>8 DEF vars, R!vars, Items
  <1>9. QED
    BY <1>2, <1>3, <1>4, <1>5, <1>6, <1>7, <1>8 DEF Next

(* Every step of the table preserves the invariant.                         *)
LEMMA InvStep ==
    ASSUME Inv, [Next]_vars
    PROVE  Inv'
  <1>1. R!Backed'
    BY AbstractTypes, StepImplements, BackedStep DEF Inv
  <1>2. ASSUME NEW peer \in Peer, NEW list \in Announcements, set_claims(peer, list)
        PROVE  Inv'
    BY <1>1, <1>2, SetClaimsHousekept, HousekeptInv
  <1>3. ASSUME NEW peer \in Peer, remove_claims(peer)
        PROVE  Inv'
    BY <1>1, <1>3, RemoveClaimsStep, HousekeptInv
  <1>4. ASSUME NEW peer \in Peer, NEW addr \in Addresses, Learn(addr, peer)
        PROVE  Inv'
    BY <1>1, <1>4, LearnStep
  <1>5. CASE UNCHANGED vars
    <2>1. /\ claims' = claims /\ cache' = cache /\ now' = now
          /\ announced' = announced /\ since' = since
      BY <1>5 DEF vars
    <2>2. CacheInv'
      <3>1. \A a : Backing(a)' = Backing(a)
        BY <2>1 DEF Backing
      <3>2. QED
        BY <2>1, <3>1 DEF Inv, CacheInv, NewerOr
    <2>3. TypeOK'
      BY <2>1 DEF Inv, TypeOK
    <2>4. QED
      BY <1>1, <2>1, <2>2, <2>3 DEF Inv, History, NoPileUp, AnnouncedInv, HeldInv
  <1>6. ASSUME NEW addr \in Addresses, lookup(addr)
        PROVE  Inv'
    <2>1. CASE addr \notin DOMAIN cache /\ Found(addr) # 0
      BY <1>1, <1>6, <2>1, LookupStep
    <2>2. CASE ~(addr \notin DOMAIN cache /\ Found(addr) # 0)
      <3>1. UNCHANGED vars
        BY <1>6, <2>2 DEF lookup, vars
      <3>2. QED
        BY <1>5, <3>1
    <2>3. QED
      BY <2>1, <2>2
  <1>7. CASE housekeep
    BY <1>1, <1>7, HousekeepStep, HousekeptInv
  <1>8. CASE Tick
    BY <1>8, TickStep
  <1>9. QED
    BY <1>2, <1>3, <1>4, <1>5, <1>6, <1>7, <1>8 DEF Next

(* The empty table satisfies the invariant.                                 *)
LEMMA InitInv ==
    ASSUME Init
    PROVE  Inv
  <1>1. Items(claims) = {} /\ DOMAIN cache = {} /\ now = 1
    BY DEF Init, Items
  <1>2. TypeOK
    <2>1. claims \in Seq([peer : Peer, claim : Claims, timeout : Nat \ {0}])
      BY DEF Init
    <2>2. QED
      BY <1>1, <2>1, TableAssumption DEF TypeOK
  <1>3. since \in History /\ announced \in History
    BY DEF Init, History, Never
  <1>4. NoPileUp
    <2> SUFFICES ASSUME NEW p \in Peer, NEW c \in Claims
                 PROVE  \E l \in Announcements :
                            Cardinality(Holding(claims, p, c)) <= Cardinality(Naming(l, c))
      BY DEF NoPileUp
    <2>1. PICK l \in Announcements : TRUE
      BY DEF Claims
    <2>2. Holding(claims, p, c) = {}
      BY DEF Init, Holding
    <2>3. Cardinality(Holding(claims, p, c)) = 0
      BY <2>2, FS_EmptySet
    <2>4. Cardinality(Naming(l, c)) \in Nat
      BY ListFacts, NamingFinite
    <2>5. QED
      BY <2>3, <2>4
  <1>5. AnnouncedInv /\ CacheInv /\ R!Backed
    BY <1>1 DEF AnnouncedInv, CacheInv, R!Backed
  <1>6. HeldInv
    BY <1>1 DEF Init, HeldInv, Never
  <1>7. cache = [a \in DOMAIN cache |-> cache[a]]
    BY DEF Init
  <1>8. QED
    BY <1>2, <1>3, <1>4, <1>5, <1>6, <1>7 DEF Inv

(* The invariant is inductive, so it holds of every reachable state.        *)
THEOREM Invariance == Spec => []Inv
  BY InitInv, InvStep, PTL DEF Spec

(* src/table.rs implements the abstract table, for every number of peers,   *)
(* ranges, addresses and entries: whatever the loops of set_claims and      *)
(* their break leave in the list of claims, in whatever order, the table    *)
(* shows only what Routes allows, and lookup answers with a most specific   *)
(* claim.                                                                   *)
THEOREM TableImplementsRoutes == Spec => ImplementsRoutes
  <1>1. Init => R!Init
    BY DEF Init, R!Init, Items
  <1>2. Inv /\ [Next]_vars => [R!Next]_(R!vars)
    BY StepImplements
  <1>3. Spec => R!Spec
    BY <1>1, <1>2, Invariance, PTL DEF Spec, R!Spec
  <1>4. QED
    BY <1>3 DEF ImplementsRoutes

(* A route that lookup derived from a claim is backed by a claim of the     *)
(* same peer that lives as long.                                            *)
THEOREM AlwaysBacked == Spec => []R!Backed
  <1>1. Inv => R!Backed
    BY DEF Inv
  <1>2. QED
    BY <1>1, Invariance, PTL

(* The invariant says what TableFollowsAnnouncements does.                  *)
LEMMA InvFollows ==
    ASSUME Inv
    PROVE  TableFollowsAnnouncements
  <1>1. TypeOK /\ NoPileUp /\ now \in Nat /\ cache_timeout \in Nat /\ claim_timeout \in Nat
    BY TypeFacts, TableAssumption DEF Inv
  <1> SUFFICES ASSUME NEW a \in DOMAIN cache, ~cache[a].learned
               PROVE  /\ \E c \in Backing(a) :
                           cache[a].timeout <= announced[cache[a].peer][c] + claim_timeout
                      /\ \A e \in Items(claims) :
                           /\ cache[a].timeout >= now /\ matches(e.claim, a)
                           /\ \A c \in Backing(a) : c.prefix_len < e.claim.prefix_len
                           => now <= since[e.peer][e.claim] + cache_timeout
    BY <1>1 DEF TableFollowsAnnouncements
  <1>2. cache[a].timeout \in Nat
    BY <1>1 DEF TypeOK
  <1>3. \A e \in Items(claims) :
            /\ e.peer \in Peer /\ e.claim \in Claims /\ e.timeout \in Nat
            /\ announced[e.peer][e.claim] \in 0 .. now
            /\ since[e.peer][e.claim] \in 0 .. now
            /\ e.claim.prefix_len \in Int
    <2>1. \A e \in Items(claims) : e.peer \in Peer /\ e.claim \in Claims /\ e.timeout \in Nat
      BY <1>1, ItemFacts DEF Entry
    <2>2. \A c \in Claims : c.prefix_len \in Int
      BY ClaimFacts
    <2>3. QED
      BY <2>1, <2>2 DEF Inv, History
  <1>4. \E c \in Backing(a) : cache[a].timeout <= announced[cache[a].peer][c] + claim_timeout
    <2>1. PICK e \in Items(claims) : /\ e.peer = cache[a].peer
                                     /\ matches(e.claim, a)
                                     /\ cache[a].timeout <= e.timeout
      BY DEF Inv, R!Backed
    <2>2. /\ announced[e.peer][e.claim] # Never
          /\ e.timeout <= announced[e.peer][e.claim] + claim_timeout
      BY DEF Inv, AnnouncedInv
    <2>3. e.claim \in Backing(a)
      BY <1>3, <2>1, <2>2 DEF Backing
    <2>4. QED
      BY <1>1, <1>2, <1>3, <2>1, <2>2, <2>3
  <1>5. ASSUME NEW e \in Items(claims), cache[a].timeout >= now, matches(e.claim, a),
               \A c \in Backing(a) : c.prefix_len < e.claim.prefix_len
        PROVE  now <= since[e.peer][e.claim] + cache_timeout
    <2>1. NewerOr(a, e)
      BY <1>5 DEF Inv, CacheInv
    <2>2. ~ \E c \in Backing(a) : e.claim.prefix_len <= c.prefix_len
      <3>1. \A c \in Backing(a) : c.prefix_len \in Int
        BY ClaimFacts DEF Backing
      <3>2. QED
        BY <1>3, <1>5, <3>1
    <2>3. QED
      BY <1>1, <1>2, <1>3, <1>5, <2>1, <2>2 DEF NewerOr
  <1>6. QED
    BY <1>4, <1>5

(* The table follows what peers announce: no pile-up of repeated            *)
(* announcements, no derived route that outlives the announcement it comes  *)
(* from by more than claim_timeout, and no more specific claim hidden by    *)
(* the cache for longer than cache_timeout.                                 *)
THEOREM AlwaysFollowsAnnouncements == Spec => []TableFollowsAnnouncements
  BY InvFollows, Invariance, PTL

=============================================================================
