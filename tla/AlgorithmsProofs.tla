-------------------------- MODULE AlgorithmsProofs ---------------------------
(***************************************************************************)
(* Proofs about the algorithms of a node: address ranges of any size, any  *)
(* frames, packets, timeouts and sources of a configuration.  What belongs *)
(* to the crypto is in CryptoCoreProofs.                                   *)
(*                                                                         *)
(* The loops are recursive functions, so the module begins, like           *)
(* ClaimTableProofs, with induction over natural numbers that is stated    *)
(* with sets and functions.                                                *)
(*                                                                         *)
(* It ends with the timer of PortForwarding, for every lease time, number  *)
(* of ports, margin, number of faults and of rounds of housekeep that fail. *)
(***************************************************************************)
EXTENDS Algorithms, PortForwarding, SequenceTheorems, WellFoundedInduction, TLAPS

(* A set of natural numbers has a least one.                                *)
LEMMA LeastNumber ==
    ASSUME NEW S \in SUBSET Nat, S # {}
    PROVE  \E m \in S : \A k \in S : m <= k
  <1> DEFINE Less == OpToRel(<, Nat)
  <1>1. IsWellFoundedOn(Less, Nat)
    BY NatLessThanWellFounded, Zenon
  <1>2. \A x, y \in Nat : x < y => <<x, y>> \in Less
    BY DEF OpToRel
  <1> HIDE DEF Less
  <1>3. PICK m \in S : \A k \in S : <<k, m>> \notin Less
    BY <1>1, WFMin, Zenon
  <1>4. \A k \in S : ~(k < m)
    BY <1>2, <1>3, Zenon
  <1>5. \A k \in S : m <= k
    BY <1>4
  <1>6. QED
    BY <1>5

(* What holds at first and after one more round of a loop holds after every *)
(* round.                                                                   *)
LEMMA EveryRound ==
    ASSUME NEW S, NEW n \in Nat, 0 \in S, \A k \in 1 .. n : k - 1 \in S => k \in S
    PROVE  0 .. n \subseteq S
  <1> SUFFICES ASSUME (0 .. n) \ S # {} PROVE FALSE
    OBVIOUS
  <1> DEFINE T == (0 .. n) \ S
  <1>1. T \in SUBSET Nat
    OBVIOUS
  <1>2. PICK m \in T : \A k \in T : m <= k
    <2> HIDE DEF T
    <2> QED
      BY <1>1, LeastNumber, Zenon DEF T
  <1>3. m \in 1 .. n /\ m - 1 \in S
    BY <1>2
  <1>4. QED
    BY <1>2, <1>3

\* A run of a loop: from b, round k leads from c to G[k][c].
RunOf(f, B, b, n, G) ==
    f \in [0 .. n -> B] /\ f[0] = b /\ \A k \in 1 .. n : f[k] = G[k][f[k - 1]]

(* A loop has a run, which is what a recursive function stands for.         *)
LEMMA LoopRuns ==
    ASSUME NEW B, NEW b \in B, NEW n \in Nat, NEW G \in [1 .. n -> [B -> B]]
    PROVE  \E f : RunOf(f, B, b, n, G)
  <1> DEFINE Run(m) == \E f \in [0 .. m -> B] :
                            f[0] = b /\ \A k \in 1 .. m : f[k] = G[k][f[k - 1]]
             S == {m \in 0 .. n : Run(m)}
  <1>1. 0 \in S
    <2> DEFINE f == [k \in 0 .. 0 |-> b]
    <2>1. f \in [0 .. 0 -> B] /\ f[0] = b /\ \A k \in 1 .. 0 : f[k] = G[k][f[k - 1]]
      OBVIOUS
    <2> HIDE DEF f
    <2>2. Run(0)
      BY <2>1
    <2>3. QED
      BY <2>2
  <1>2. ASSUME NEW m \in 1 .. n, m - 1 \in S PROVE m \in S
    <2>1. PICK f \in [0 .. m - 1 -> B] :
            f[0] = b /\ \A k \in 1 .. m - 1 : f[k] = G[k][f[k - 1]]
      BY <1>2
    <2> DEFINE g == [k \in 0 .. m |-> IF k < m THEN f[k] ELSE G[m][f[m - 1]]]
    <2>2. g \in [0 .. m -> B]
      BY <2>1
    <2>3. g[0] = b /\ \A k \in 1 .. m : g[k] = G[k][g[k - 1]]
      BY <2>1
    <2> HIDE DEF g
    <2>4. Run(m)
      BY <2>2, <2>3
    <2>5. m \in 0 .. n
      OBVIOUS
    <2> HIDE DEF Run
    <2>6. QED
      BY <2>4, <2>5
  <1>3. n \in S
    <2> HIDE DEF S
    <2>1. 0 .. n \subseteq S
      BY <1>1, <1>2, EveryRound, Zenon
    <2>2. QED
      BY <2>1
  <1>4. QED
    BY <1>3 DEF RunOf

(* What a loop preserves.                                                   *)
LEMMA Preserved ==
    ASSUME NEW B, NEW n \in Nat, NEW f, f[0] \in B, \A k \in 1 .. n : f[k - 1] \in B => f[k] \in B
    PROVE  \A k \in 0 .. n : f[k] \in B
  <1> DEFINE S == {k \in 0 .. n : f[k] \in B}
  <1>1. 0 \in S /\ \A k \in 1 .. n : k - 1 \in S => k \in S
    OBVIOUS
  <1>2. 0 .. n \subseteq S
    <2> HIDE DEF S
    <2> QED BY <1>1, EveryRound
  <1> QED BY <1>2

\* The numbers that the digits so far stand for.
ValueRun(n, digits, base) ==
    /\ n \in [0 .. Len(digits) -> Nat] /\ n[0] = 0
    /\ \A i \in 1 .. Len(digits) : n[i] = n[i - 1] * base + digits[i]
    /\ ValueOf(digits, base) = n[Len(digits)]

\* One digit more.
Shifted(digits, base, c, k) == c * base + digits[k]

(* Which questions there are.                                               *)
LEMMA Topics ==
    ASSUME [Ask]_question, question' # question
    PROVE  /\ question'.about = "range" => AskRange
           /\ question'.about = "data" => AskData
           /\ question'.about = "algorithms" => AskAlgorithms
           /\ question'.about = "frames" => AskFrames
           /\ question'.about = "packet" => AskPacket
           /\ question'.about = "timeouts" => AskTimeouts
           /\ question'.about = "reconnect" => AskReconnect \/ Round
           /\ question'.about = "config" => AskConfig
           /\ question'.about = "old" => AskOldConfig
  <1>1. AskRange => question'.about = "range"
    BY DEF AskRange
  <1>2. AskData => question'.about = "data"
    BY DEF AskData
  <1>3. AskAlgorithms => question'.about = "algorithms"
    BY DEF AskAlgorithms
  <1>4. AskFrames => question'.about = "frames"
    BY DEF AskFrames
  <1>5. AskPacket => question'.about = "packet"
    BY DEF AskPacket
  <1>6. AskTimeouts => question'.about = "timeouts"
    BY DEF AskTimeouts
  <1>7. AskReconnect => question'.about = "reconnect"
    BY DEF AskReconnect
  <1>8. Round => question'.about = "reconnect"
    BY DEF Round
  <1>9. AskAgain => question'.about = "nothing"
    BY DEF AskAgain, Nothing
  <1>10. AskConfig => question'.about = "config"
    BY DEF AskConfig
  <1>11. AskOldConfig => question'.about = "old"
    BY DEF AskOldConfig
  <1> QED BY <1>1, <1>2, <1>3, <1>4, <1>5, <1>6, <1>7, <1>8, <1>9, <1>10, <1>11 DEF Ask

-----------------------------------------------------------------------------
(* Ranges.                                                                  *)

(* leading_zeros counts the bits before the first one that differs.         *)
LEMMA LeadingZeros ==
    ASSUME NEW x \in Byte, NEW y \in Byte
    PROVE  /\ x = y <=> Differing(x, y) = {}
           /\ x = y => leading_zeros(x, y) = ByteBits
           /\ x # y => /\ leading_zeros(x, y) \in 0 .. ByteBits - 1
                       /\ x[leading_zeros(x, y) + 1] # y[leading_zeros(x, y) + 1]
           /\ \A j \in 1 .. ByteBits : j <= leading_zeros(x, y) => x[j] = y[j]
  <1> DEFINE D == Differing(x, y)
             first == CHOOSE i \in D : \A j \in D : i <= j
  <1>1. ByteBits \in Nat /\ D \in SUBSET Nat
    BY RangesAssumption DEF Differing
  <1>2. \A j \in 1 .. ByteBits : j \in D <=> x[j] # y[j]
    BY DEF Differing
  <1>3. D \subseteq 1 .. ByteBits
    BY DEF Differing
  <1>4. x = y <=> D = {}
    <2>1. x = [j \in 1 .. ByteBits |-> x[j]] /\ y = [j \in 1 .. ByteBits |-> y[j]]
      BY DEF Byte
    <2>2. D = {} => [j \in 1 .. ByteBits |-> x[j]] = [j \in 1 .. ByteBits |-> y[j]]
      BY <1>2
    <2> QED BY <1>2, <1>3, <2>1, <2>2, Zenon
  <1>5. leading_zeros(x, y) = IF D = {} THEN ByteBits ELSE first - 1
    BY DEF leading_zeros
  <1> HIDE DEF D
  <1>6. D # {} => first \in D /\ \A j \in D : first <= j
    BY <1>1, LeastNumber, Zenon
  <1> HIDE DEF first
  <1>7. CASE D = {}
    BY <1>1, <1>2, <1>4, <1>5, <1>7 DEF D
  <1>8. CASE D # {}
    <2>1. first \in 1 .. ByteBits /\ leading_zeros(x, y) = first - 1
      BY <1>3, <1>5, <1>6, <1>8, Zenon
    <2>2. x[first] # y[first] /\ leading_zeros(x, y) + 1 = first
      BY <1>2, <1>6, <1>8, <2>1
    <2>3. ASSUME NEW j \in 1 .. ByteBits, j <= leading_zeros(x, y) PROVE x[j] = y[j]
      BY <1>1, <1>2, <1>6, <1>8, <2>1, <2>3
    <2>4. x # y /\ D = Differing(x, y)
      BY <1>4, <1>8 DEF D
    <2>5. leading_zeros(x, y) \in 0 .. ByteBits - 1
      BY <1>1, <2>1
    <2> QED BY <1>8, <2>2, <2>3, <2>4, <2>5
  <1> QED BY <1>7, <1>8

\* The bytes from i on that differ, and what the loop of matches adds from byte
\* i on, in closed form.
DifferentFrom(base, addr, i) == {k \in i .. Len(addr) : base[k] # addr[k]}

Matched(base, addr, i) ==
    LET D == DifferentFrom(base, addr, i)
        first == CHOOSE k \in D : \A l \in D : k <= l
    IN  IF D = {} THEN (Len(addr) + 1 - i) * ByteBits
        ELSE (first - i) * ByteBits + leading_zeros(base[first], addr[first])

(* The loop of matches adds all bits of the bytes that agree and the        *)
(* leading zeros of the first one that differs, and then it ends.           *)
LEMMA MatchLen ==
    ASSUME NEW n \in Nat, NEW base \in [1 .. n -> Byte], NEW addr \in [1 .. n -> Byte]
    PROVE  match_len(base, addr) = Matched(base, addr, 1)
  <1> DEFINE Z(i) == leading_zeros(base[i], addr[i])
             Last(i) == Differing(base[i], addr[i]) # {}
             IsRun(f) == f = [i \in 1 .. n + 1 |-> IF i > n THEN 0
                                                 ELSE IF Last(i) THEN Z(i) ELSE Z(i) + f[i + 1]]
             from == CHOOSE f : IsRun(f)
             h == [i \in 1 .. n + 1 |-> Matched(base, addr, i)]
             D(i) == DifferentFrom(base, addr, i)
             first(i) == CHOOSE k \in D(i) : \A l \in D(i) : k <= l
  <1>1. Len(addr) = n /\ ByteBits \in Nat
    BY RangesAssumption
  <1>2. match_len(base, addr) = from[1]
    BY <1>1, Zenon DEF match_len
  <1>3. \A i \in 1 .. n + 1 : /\ D(i) \in SUBSET Nat
                              /\ D(i) = {k \in i .. n : base[k] # addr[k]}
    BY <1>1 DEF DifferentFrom
  <1>4. \A i \in 1 .. n + 1 : h[i] = IF D(i) = {} THEN (n + 1 - i) * ByteBits
                                     ELSE (first(i) - i) * ByteBits + Z(first(i))
    <2> SUFFICES ASSUME NEW i \in 1 .. n + 1
                 PROVE  Matched(base, addr, i) = IF D(i) = {} THEN (n + 1 - i) * ByteBits
                                                 ELSE (first(i) - i) * ByteBits + Z(first(i))
      OBVIOUS
    <2>1. Matched(base, addr, i) = IF D(i) = {} THEN (Len(addr) + 1 - i) * ByteBits
                                   ELSE (first(i) - i) * ByteBits + Z(first(i))
      BY DEF Matched
    <2> HIDE DEF D, first, Z
    <2> QED BY <1>1, <2>1
  <1> HIDE DEF D, h, Z, Last
  <1>5. \A i \in 1 .. n + 1 : D(i) # {} => first(i) \in D(i) /\ \A l \in D(i) : first(i) <= l
    BY <1>3, LeastNumber
  <1> HIDE DEF first
  <1>6. ASSUME NEW i \in 1 .. n
        PROVE  h[i] = IF Last(i) THEN Z(i) ELSE Z(i) + h[i + 1]
    <2>1. base[i] \in Byte /\ addr[i] \in Byte /\ i + 1 \in 1 .. n + 1 /\ i \in 1 .. n + 1
      OBVIOUS
    <2>2. CASE base[i] # addr[i]
      <3>1. i \in D(i)
        BY <1>3, <2>1, <2>2
      <3>2. first(i) = i
        BY <1>3, <1>5, <2>1, <3>1
      <3>3. Z(i) \in Nat /\ Last(i)
        BY <1>1, <2>1, <2>2, LeadingZeros DEF Z, Last
      <3>4. h[i] = (i - i) * ByteBits + Z(i)
        BY <1>4, <2>1, <3>1, <3>2
      <3> QED BY <1>1, <3>3, <3>4
    <2>3. CASE base[i] = addr[i]
      <3>1. D(i) = D(i + 1)
        <4>1. D(i) = {k \in i .. n : base[k] # addr[k]}
          BY <1>3, <2>1
        <4>2. D(i + 1) = {k \in i + 1 .. n : base[k] # addr[k]}
          BY <1>3, <2>1
        <4> QED BY <2>3, <4>1, <4>2
      <3>2. Z(i) = ByteBits /\ ~Last(i)
        BY <2>1, <2>3, LeadingZeros DEF Z, Last
      <3>3. CASE D(i) = {}
        <4>1. h[i] = (n + 1 - i) * ByteBits /\ h[i + 1] = (n + 1 - (i + 1)) * ByteBits
          BY <1>4, <2>1, <3>1, <3>3
        <4> QED BY <1>1, <3>2, <4>1
      <3>4. CASE D(i) # {}
        <4>1. first(i) = first(i + 1)
          BY <3>1 DEF first
        <4>2. first(i) \in 1 .. n /\ first(i) > i
          BY <1>3, <1>5, <2>1, <2>3, <3>4
        <4>3. Z(first(i)) \in Int
          BY <1>1, <4>2, LeadingZeros DEF Z
        <4>4. /\ h[i] = (first(i) - i) * ByteBits + Z(first(i))
              /\ h[i + 1] = (first(i) - (i + 1)) * ByteBits + Z(first(i))
          BY <1>4, <2>1, <3>1, <3>4, <4>1
        <4> QED BY <1>1, <3>2, <4>2, <4>3, <4>4
      <3> QED BY <3>3, <3>4
    <2> QED BY <2>2, <2>3
  <1>7. h[n + 1] = 0 /\ DOMAIN h = 1 .. n + 1
    <2>1. D(n + 1) = {}
      BY <1>3
    <2> QED BY <1>1, <1>4, <2>1 DEF h
  <1>8. IsRun(h)
    <2>1. h = [i \in 1 .. n + 1 |-> h[i]]
      BY DEF h
    <2>2. \A i \in 1 .. n + 1 : h[i] = IF i > n THEN 0 ELSE IF Last(i) THEN Z(i) ELSE Z(i) + h[i + 1]
      BY <1>6, <1>7
    <2> QED BY <2>1, <2>2, Zenon
  <1>9. IsRun(from)
    <2> HIDE DEF IsRun
    <2> QED BY <1>8
  <1> HIDE DEF from
  <1>10. /\ from[n + 1] = 0
         /\ \A i \in 1 .. n : from[i] = IF Last(i) THEN Z(i) ELSE Z(i) + from[i + 1]
    <2>1. \A i \in 1 .. n + 1 : from[i] = IF i > n THEN 0
                                         ELSE IF Last(i) THEN Z(i) ELSE Z(i) + from[i + 1]
      BY <1>9, Zenon
    <2> QED BY <2>1
  <1>11. from[1] = h[1]
    <2> DEFINE S == {k \in 0 .. n : from[n + 1 - k] = h[n + 1 - k]}
    <2>1. 0 \in S
      BY <1>7, <1>10
    <2>2. ASSUME NEW k \in 1 .. n, k - 1 \in S PROVE k \in S
      <3>1. n + 1 - k \in 1 .. n /\ (n + 1 - k) + 1 = n + 1 - (k - 1)
        OBVIOUS
      <3> QED BY <1>6, <1>10, <2>2, <3>1
    <2>3. 0 .. n \subseteq S
      <3> HIDE DEF S
      <3> QED BY <2>1, <2>2, EveryRound, Zenon
    <2> QED BY <2>3
  <1> QED BY <1>2, <1>11 DEF h

(* Multiples of a natural number.                                           *)
LEMMA Products ==
    ASSUME NEW a \in Nat, NEW b \in Nat, NEW c \in Nat
    PROVE  a * c \in Nat /\ (a + 1) * c = a * c + c /\ (a <= b => a * c <= b * c)
  <1>1. a * c \in Nat /\ (a + 1) * c = a * c + c
    OBVIOUS
  <1>2. ASSUME a <= b PROVE a * c <= b * c
    <2>1. (b - a) * c = b * c - a * c /\ (b - a) * c \in Nat
      BY <1>2
    <2> QED BY <1>1, <2>1
  <1> QED BY <1>1, <1>2

(* A range matches the addresses that agree with its base in prefix_len     *)
(* bits.                                                                    *)
LEMMA MatchesAgreeing ==
    ASSUME NEW range \in AddressRange, NEW addr \in Address
    PROVE  matches(range, addr) <=> /\ Len(addr) = Len(range.base)
                                    /\ range.prefix_len <= Len(addr) * ByteBits
                                    /\ Agree(range.base, addr, range.prefix_len)
  <1>1. PICK n \in 1 .. MaxLen : addr \in [1 .. n -> Byte]
    BY DEF Address
  <1>2. PICK m \in 1 .. MaxLen : range.base \in [1 .. m -> Byte]
    BY DEF Address, AddressRange
  <1> DEFINE base == range.base
             p == range.prefix_len
             D == DifferentFrom(base, addr, 1)
             first == CHOOSE k \in D : \A l \in D : k <= l
             B == ByteBits
             lz == leading_zeros(base[first], addr[first])
  <1>3. /\ n \in Nat /\ Len(addr) = n /\ Len(base) = m
        /\ p \in Nat /\ B \in Nat /\ DOMAIN addr = 1 .. n
    BY <1>1, <1>2, RangesAssumption DEF AddressRange, Prefix
  <1>4. SUFFICES ASSUME m = n PROVE match_len(base, addr) >= p <=> p <= n * B /\ Agree(base, addr, p)
    BY <1>3 DEF matches
  <1>5. /\ D \in SUBSET Nat
        /\ \A k \in 1 .. n : k \in D <=> base[k] # addr[k]
        /\ D \subseteq 1 .. n
    BY <1>3 DEF DifferentFrom
  <1>6. match_len(base, addr) = IF D = {} THEN n * B ELSE (first - 1) * B + lz
    <2>1. match_len(base, addr) = Matched(base, addr, 1)
      BY <1>1, <1>2, <1>3, <1>4, MatchLen
    <2>2. Matched(base, addr, 1) = IF D = {} THEN (Len(addr) + 1 - 1) * B ELSE (first - 1) * B + lz
      BY DEF Matched
    <2> HIDE DEF D, first, lz
    <2> QED BY <1>3, <2>1, <2>2
  <1>7. Agree(base, addr, p) <=>
            \A i \in 1 .. n, j \in 1 .. B : (i - 1) * B + j <= p => addr[i][j] = base[i][j]
    BY <1>3 DEF Agree
  <1> HIDE DEF base, p, D, B
  <1>8. D # {} => first \in D /\ \A l \in D : first <= l
    BY <1>5, LeastNumber, Zenon
  <1> HIDE DEF first
  <1>9. CASE D = {}
    <2>1. Agree(base, addr, p)
      BY <1>5, <1>7, <1>9
    <2>2. n * B \in Nat
      BY <1>3
    <2> QED BY <1>3, <1>6, <1>9, <2>1, <2>2
  <1>10. CASE D # {}
    <2>1. first \in 1 .. n /\ base[first] # addr[first] /\ \A k \in 1 .. first - 1 : base[k] = addr[k]
      <3>1. first \in D /\ \A l \in D : first <= l
        BY <1>8, <1>10
      <3>2. first \in 1 .. n /\ base[first] # addr[first]
        BY <1>5, <3>1
      <3>3. ASSUME NEW k \in 1 .. first - 1 PROVE base[k] = addr[k]
        <4>1. k \in 1 .. n /\ k < first
          BY <1>3, <3>2
        <4> QED BY <1>5, <3>1, <3>2, <4>1
      <3> QED BY <3>2, <3>3
    <2>2. base[first] \in Byte /\ addr[first] \in Byte
      BY <1>1, <1>2, <1>4, <2>1 DEF base
    <2>3. /\ lz \in 0 .. B - 1
          /\ base[first][lz + 1] # addr[first][lz + 1]
          /\ \A j \in 1 .. B : j <= lz => base[first][j] = addr[first][j]
      BY <2>1, <2>2, LeadingZeros DEF B
    <2> HIDE DEF lz
    <2> DEFINE L == (first - 1) * B + lz
    <2>4. /\ (first - 1) * B \in Nat /\ first * B \in Nat /\ n * B \in Nat
          /\ L < first * B /\ first * B <= n * B
      <3>1. first - 1 \in Nat /\ first \in Nat /\ first <= n /\ (first - 1) + 1 = first
        BY <1>3, <2>1
      <3>2. (first - 1) * B \in Nat /\ first * B = (first - 1) * B + B
        BY <1>3, <3>1, Products
      <3>3. first * B <= n * B /\ n * B \in Nat
        BY <1>3, <3>1, Products
      <3> QED BY <1>3, <2>3, <3>2, <3>3
    <2>5. ASSUME L >= p PROVE p <= n * B /\ Agree(base, addr, p)
      <3>1. p <= n * B
        BY <1>3, <2>3, <2>4, <2>5
      <3>2. ASSUME NEW i \in 1 .. n, NEW j \in 1 .. B, (i - 1) * B + j <= p
            PROVE  addr[i][j] = base[i][j]
        <4>1. (i - 1) * B \in Nat
          BY <1>3, Products
        <4>2. CASE i < first
          BY <1>3, <2>1, <4>2
        <4>3. CASE i = first
          BY <1>3, <2>3, <2>4, <2>5, <3>2, <4>3
        <4>4. CASE i > first
          <5>1. first * B <= (i - 1) * B
            BY <1>3, <2>1, <4>4, Products
          <5>2. first * B \in Int
            BY <1>3, <2>1
          <5> QED BY <1>3, <2>3, <2>4, <2>5, <3>2, <4>1, <5>1, <5>2
        <4> QED BY <1>3, <2>1, <4>2, <4>3, <4>4
      <3> QED BY <1>7, <3>1, <3>2
    <2>6. ASSUME ~(L >= p) PROVE ~Agree(base, addr, p)
      <3>1. lz + 1 \in 1 .. B /\ (first - 1) * B + (lz + 1) <= p
        BY <1>3, <2>3, <2>4, <2>6
      <3> QED BY <1>7, <2>1, <2>3, <3>1
    <2> QED BY <1>6, <1>10, <2>5, <2>6
  <1> QED BY <1>9, <1>10

(* For addresses and ranges of any size: Range::matches decides whether an  *)
(* address agrees with the base of a range in the first prefix_len bits.    *)
THEOREM RangesMatchPrefixes == Questions => []MatchesPrefix
  <1>1. Unasked => MatchesPrefix
    BY DEF Unasked, Nothing, MatchesPrefix, About
  <1>2. MatchesPrefix /\ [Ask]_question => MatchesPrefix'
    <2> SUFFICES ASSUME MatchesPrefix, [Ask]_question PROVE MatchesPrefix'
      OBVIOUS
    <2>1. CASE question' = question
      BY <2>1 DEF MatchesPrefix, About
    <2>2. CASE question'.about = "range" /\ question' # question
      <3>1. PICK r \in AddressRange, a \in Address :
                question' = [about |-> "range", range |-> r, addr |-> a]
        BY <2>2, Topics DEF AskRange
      <3> QED BY <3>1, MatchesAgreeing DEF MatchesPrefix
    <2> QED BY <2>1, <2>2 DEF MatchesPrefix, About
  <1> QED BY <1>1, <1>2, PTL DEF Questions

-----------------------------------------------------------------------------
(* Timers.                                                                  *)

(* Sixteen bits are enough for the default timeout.                        *)
LEMMA Width == U16 \in Nat /\ 300 < U16
  BY DEF U16

(* Of the interval the node is configured with, the low 16 bits are kept.   *)
LEMMA Frequency ==
    ASSUME NEW own \in Nat, NEW keepalive \in Nat \cup {Absent}
    PROVE  update_freq(keepalive, own) \in Nat
  <1> DEFINE k == IF keepalive # Absent THEN keepalive ELSE AtLeastOne(own \div 2 - 60)
  <1>1. own \div 2 - 60 \in Int
    BY SMT
  <1>2. AtLeastOne(own \div 2 - 60) \in Int
    BY <1>1, SMT DEF AtLeastOne
  <1>3. k \in Int
    BY <1>2, SMT
  <1> HIDE DEF k
  <1>4. k % U16 \in Nat
    BY <1>3, Width, SMT
  <1> QED BY <1>4 DEF update_freq, u16, k

(* Half a timeout of a peer less a minute: in the range of u16 nothing      *)
(* wraps, and a round of housekeep is left.                                 *)
LEMMA HalfTimeout ==
    ASSUME NEW m \in 120 .. U16 - 1
    PROVE  /\ AtLeastOne(u16(m \div 2 - 60)) \in Nat
           /\ AtLeastOne(u16(m \div 2 - 60)) + 2 <= m
           /\ m = 300 => AtLeastOne(u16(m \div 2 - 60)) = 90
           /\ u16(AtLeastOne(m \div 2 - 60)) \in Nat
           /\ u16(AtLeastOne(m \div 2 - 60)) + 2 <= m
  <1>1. m \div 2 - 60 \in 0 .. U16 - 1 /\ m \div 2 <= m
    BY Width, SMT
  <1>2. u16(m \div 2 - 60) = m \div 2 - 60
    BY <1>1, Width, SMT DEF u16
  <1>3. AtLeastOne(m \div 2 - 60) \in 0 .. U16 - 1
    BY <1>1, Width, SMT DEF AtLeastOne
  <1>4. u16(AtLeastOne(m \div 2 - 60)) = AtLeastOne(m \div 2 - 60)
    BY <1>3, Width, SMT DEF u16
  <1> QED BY <1>1, <1>2, <1>4, Width, SMT DEF AtLeastOne

(* The interval until the next node info is the own one, or what the        *)
(* shortest timeout of a peer allows.                                       *)
LEMMA Intervals ==
    ASSUME NEW freq \in Nat, NEW timeouts \in SUBSET (120 .. U16 - 1)
    PROVE  /\ interval(freq, timeouts) \in Nat
           /\ interval(freq, timeouts) <= freq
           /\ timeouts = {} => interval(freq, timeouts) <= 90
           /\ \A t \in timeouts : interval(freq, timeouts) + 2 <= t
  <1> DEFINE least == CHOOSE t \in timeouts : \A u \in timeouts : t <= u
             m == IF timeouts = {} THEN 300 ELSE least
             w == AtLeastOne(u16(m \div 2 - 60))
  <1>1. timeouts # {} => least \in timeouts /\ \A u \in timeouts : least <= u
    <2>1. timeouts \in SUBSET Nat
      BY Width, SMT
    <2>2. timeouts # {} => \E t \in timeouts : \A u \in timeouts : t <= u
      BY <2>1, LeastNumber
    <2> QED BY <2>2, Zenon
  <1>2. interval(freq, timeouts) = Lesser(freq, w)
    BY DEF interval, DEFAULT_PEER_TIMEOUT
  <1> HIDE DEF least
  <1>3. /\ m \in 120 .. U16 - 1
        /\ timeouts = {} => m = 300
        /\ \A t \in timeouts : m <= t /\ t \in Nat
    <2>1. CASE timeouts = {}
      BY <2>1, Width, SMT
    <2>2. CASE timeouts # {}
      <3>1. m = least
        BY <2>2, Zenon
      <3> HIDE DEF m
      <3>2. \A t \in timeouts : t \in 120 .. U16 - 1 /\ t \in Nat
        BY Width, SMT
      <3>3. \A t \in timeouts : m <= t
        BY <1>1, <2>2, <3>1, Zenon
      <3>4. m \in timeouts
        BY <1>1, <2>2, <3>1, Zenon
      <3> QED BY <2>2, <3>2, <3>3, <3>4, Zenon
    <2> QED BY <2>1, <2>2, Zenon
  <1> HIDE DEF m
  <1>4. w \in Nat /\ w + 2 <= m /\ (m = 300 => w = 90)
    BY <1>3, HalfTimeout
  <1> HIDE DEF w
  <1> QED BY <1>2, <1>3, <1>4, SMT DEF Lesser

(* For all timeouts and keepalives, of any number of peers: every peer      *)
(* hears from the node before it forgets the node.                          *)
THEOREM PeersHearInTime == Questions => []HeardInTime
  <1>1. Unasked => HeardInTime
    BY DEF Unasked, Nothing, HeardInTime, About
  <1>2. HeardInTime /\ [Ask]_question => HeardInTime'
    <2> SUFFICES ASSUME HeardInTime, [Ask]_question PROVE HeardInTime'
      OBVIOUS
    <2>1. CASE question' = question
      BY <2>1 DEF HeardInTime, About
    <2>2. CASE question'.about = "timeouts" /\ question' # question
      <3>1. PICK own \in OwnTimeouts, keepalive \in Keepalives,
                 timeouts \in SUBSET PeerTimeouts, joining \in PeerTimeouts :
                question' = [about |-> "timeouts", own |-> own, keepalive |-> keepalive,
                             timeouts |-> timeouts, joining |-> joining]
        BY <2>2, Topics DEF AskTimeouts
      <3> DEFINE freq == update_freq(keepalive, own)
                 wait == interval(freq, timeouts)
                 asOwn == {t \in PeerTimeouts : t = own /\ keepalive = Absent}
      <3>2. own \in Nat /\ keepalive \in Nat \cup {Absent} /\ PeerTimeouts \subseteq SHORTEST .. U16 - 1
        BY InputsAssumption
      <3>3. freq \in Nat
        BY <3>2, Frequency, Zenon
      <3> HIDE DEF freq
      <3>4. /\ wait \in Nat /\ wait <= freq
            /\ timeouts = {} => wait <= 90
            /\ \A t \in timeouts : wait + HOUSEKEEP <= t
        BY <3>2, <3>3, Intervals DEF SHORTEST, HOUSEKEEP
      <3>5. ASSUME NEW t \in asOwn PROVE wait + HOUSEKEEP <= t
        <4>1. t = own /\ keepalive = Absent /\ own \in 120 .. U16 - 1
          BY <3>2, <3>5 DEF SHORTEST
        <4>2. freq + HOUSEKEEP <= own
          BY <4>1, HalfTimeout DEF freq, update_freq, HOUSEKEEP
        <4> QED BY <3>3, <3>4, <4>1, <4>2 DEF HOUSEKEEP
      <3>6. joining \in 120 .. U16 - 1 /\ \A t \in timeouts \cup asOwn : t \in Nat
        BY <3>2 DEF SHORTEST
      <3> HIDE DEF wait
      <3>7. /\ \A t \in timeouts : wait + HOUSEKEEP <= t
            /\ timeouts = {} => wait + HOUSEKEEP <= joining
            /\ (\E t \in timeouts \cup asOwn : t <= joining) => wait + HOUSEKEEP <= joining
        BY <3>4, <3>5, <3>6 DEF HOUSEKEEP
      <3>8. /\ question'.timeouts = timeouts /\ question'.joining = joining
            /\ wait = interval(update_freq(question'.keepalive, question'.own), question'.timeouts)
            /\ asOwn = {t \in PeerTimeouts : t = question'.own /\ question'.keepalive = Absent}
        BY <3>1 DEF wait, freq
      <3> HIDE DEF asOwn
      <3> QED BY <3>7, <3>8, Zenon DEF HeardInTime
    <2> QED BY <2>1, <2>2 DEF HeardInTime, About
  <1> QED BY <1>1, <1>2, PTL DEF Questions

-----------------------------------------------------------------------------
(* The reconnect list.                                                      *)

\* The tries count the attempts modulo eleven, and the interval doubles with
\* every eleventh one.
BackOffInv ==
    About("reconnect") =>
        /\ question.attempts \in Nat /\ question.mapped \in BOOLEAN
        /\ question.entry \in [tries : 0 .. 10, timeout : Nat, next : Nat]
        /\ question.entry.tries = question.attempts % 11
        /\ question.entry.timeout = Doubling[Lesser(question.attempts \div 11 + 1, 13)]
        /\ question.entry.next <= question.entry.timeout
        /\ question.ready => question.entry.next = 1 /\ question.attempts = 0

(* The table of intervals begins with a second and ends with an hour.       *)
LEMMA Intervals13 == Len(Doubling) = 13 /\ Doubling[1] = 1 /\ Lesser(1, 13) = 1
  BY DEF Doubling, Lesser

(* The table of intervals: an entry is twice the one before, up to an hour. *)
LEMMA TwiceAsLong ==
    ASSUME NEW i \in 1 .. 13
    PROVE  /\ Doubling[i] \in Nat
           /\ Lesser(Doubling[i], MAX_RECONNECT_INTERVAL) = Doubling[i]
           /\ Lesser(Doubling[i] * 2, MAX_RECONNECT_INTERVAL) = Doubling[Lesser(i + 1, 13)]
  BY SMT DEF Doubling, Lesser, MAX_RECONNECT_INTERVAL

(* An eleventh attempt begins the next interval.                            *)
LEMMA Elevenths ==
    ASSUME NEW n \in Nat
    PROVE  /\ n % 11 \in 0 .. 10 /\ n \div 11 \in Nat /\ n \div 10 \in Nat /\ n \div 11 <= n \div 10
           /\ n % 11 = 10 => (n + 1) % 11 = 0 /\ (n + 1) \div 11 = n \div 11 + 1
           /\ n % 11 # 10 => (n + 1) % 11 = (n % 11) + 1 /\ (n + 1) \div 11 = n \div 11
  BY SMT

(* For any rounds of reconnect_to_peers, however late: the interval doubles *)
(* with every ten or eleven attempts, up to an hour, and starts again when  *)
(* the node is found connected.                                             *)
THEOREM IntervalDoubles == Questions => []BackOffDoubles
  <1> DEFINE Step(n) == Lesser(n \div 11 + 1, 13)
  <1>1. Unasked => BackOffInv
    BY DEF Unasked, Nothing, BackOffInv, About
  <1>2. BackOffInv /\ [Ask]_question => BackOffInv'
    <2> SUFFICES ASSUME BackOffInv, [Ask]_question PROVE BackOffInv'
      OBVIOUS
    <2>1. CASE question' = question
      BY <2>1 DEF BackOffInv, About
    <2>2. CASE AskReconnect
      <3>1. PICK mapped \in BOOLEAN :
                question' = [about |-> "reconnect", entry |-> add_reconnect_peer, attempts |-> 0,
                             mapped |-> mapped, ready |-> FALSE, missed |-> FALSE]
        BY <2>2, Zenon DEF AskReconnect
      <3>2. Doubling[Lesser(0 \div 11 + 1, 13)] = 1
        BY Intervals13
      <3> QED BY <3>1, <3>2 DEF BackOffInv, About, add_reconnect_peer
    <2>3. CASE Round
      <3> DEFINE entry == question.entry
                 n == question.attempts
      <3>1. PICK connected \in BOOLEAN, seconds \in Seconds :
                LET found == connected /\ question.mapped
                    due == entry.next <= seconds
                IN  question' = [about |-> "reconnect",
                                 entry |-> Reconnected(entry, seconds, connected, question.mapped),
                                 attempts |-> IF found THEN 0 ELSE IF due THEN n + 1 ELSE n,
                                 mapped |-> question.mapped, ready |-> found,
                                 missed |-> question.missed \/ (connected /\ ~found)]
        BY <2>3 DEF Round
      <3>2. /\ n \in Nat /\ question.mapped \in BOOLEAN
            /\ entry \in [tries : 0 .. 10, timeout : Nat, next : Nat]
            /\ entry.tries = n % 11
        BY <2>3 DEF Round, BackOffInv
      <3>3. entry.timeout = Doubling[Step(n)] /\ entry.next <= entry.timeout
        BY <2>3 DEF Round, BackOffInv
      <3>4. seconds \in Nat
        BY InputsAssumption
      <3>5. Step(n) \in 1 .. 13 /\ Step(n + 1) \in 1 .. 13
        BY <3>2, Elevenths DEF Lesser
      <3> DEFINE later == [entry EXCEPT !.next = IF @ > seconds THEN @ - seconds ELSE 0]
                 after == question'.entry
      <3>6. /\ later \in [tries : 0 .. 10, timeout : Nat, next : Nat]
            /\ later.tries = entry.tries /\ later.timeout = entry.timeout
            /\ later.next = IF entry.next > seconds THEN entry.next - seconds ELSE 0
        BY <3>2, <3>4
      <3>7. Reconnected(entry, seconds, connected, question.mapped) =
                IF connected /\ question.mapped THEN [tries |-> 0, timeout |-> 1, next |-> 1]
                ELSE IF later.next > 0 THEN later ELSE BackOff(later)
        BY DEF Reconnected
      <3> HIDE DEF later, entry, n, Step
      <3> SUFFICES /\ question'.attempts \in Nat
                   /\ after \in [tries : 0 .. 10, timeout : Nat, next : Nat]
                   /\ after.tries = question'.attempts % 11
                   /\ after.timeout = Doubling[Step(question'.attempts)]
                   /\ after.next <= after.timeout
                   /\ question'.ready => after.next = 1 /\ question'.attempts = 0
        BY <3>1, <3>2 DEF BackOffInv, Step
      <3>8. CASE connected /\ question.mapped
        <4>1. question'.attempts = 0 /\ after = [tries |-> 0, timeout |-> 1, next |-> 1]
          BY <3>1, <3>7, <3>8
        <4>2. Doubling[Step(0)] = 1 /\ 0 % 11 = 0
          BY Intervals13 DEF Step
        <4> QED BY <4>1, <4>2
      <3>9. CASE ~(connected /\ question.mapped) /\ entry.next > seconds
        <4>1. later.next > 0 /\ later.next <= entry.next
          BY <3>2, <3>4, <3>6, <3>9
        <4>2. question'.attempts = n /\ after = later /\ ~question'.ready
          BY <3>1, <3>2, <3>4, <3>7, <3>9, <4>1
        <4> QED BY <3>2, <3>3, <3>6, <4>1, <4>2
      <3>10. CASE ~(connected /\ question.mapped) /\ ~(entry.next > seconds)
        <4>1. question'.attempts = n + 1 /\ after = BackOff(later) /\ ~question'.ready
          BY <3>1, <3>2, <3>4, <3>6, <3>7, <3>10
        <4>2. CASE n % 11 = 10
          <5>1. after = [tries |-> 0, timeout |-> Lesser(entry.timeout * 2, MAX_RECONNECT_INTERVAL),
                         next |-> Lesser(entry.timeout * 2, MAX_RECONNECT_INTERVAL)]
            BY <3>2, <3>6, <4>1, <4>2 DEF BackOff
          <5>2. (n + 1) % 11 = 0 /\ Step(n + 1) = Lesser(Step(n) + 1, 13)
            BY <3>2, <4>2, Elevenths DEF Step, Lesser
          <5>3. Lesser(entry.timeout * 2, MAX_RECONNECT_INTERVAL) = Doubling[Step(n + 1)]
            BY <3>3, <3>5, <5>2, TwiceAsLong
          <5>4. Doubling[Step(n + 1)] \in Nat
            BY <3>5, TwiceAsLong
          <5> QED BY <3>2, <4>1, <5>1, <5>2, <5>3, <5>4
        <4>3. CASE n % 11 # 10
          <5>1. after = [tries |-> (n % 11) + 1,
                         timeout |-> Lesser(entry.timeout, MAX_RECONNECT_INTERVAL),
                         next |-> Lesser(entry.timeout, MAX_RECONNECT_INTERVAL)]
            BY <3>2, <3>6, <4>1, <4>3 DEF BackOff
          <5>2. (n + 1) % 11 = (n % 11) + 1 /\ Step(n + 1) = Step(n) /\ (n % 11) + 1 \in 0 .. 10
            BY <3>2, <4>3, Elevenths DEF Step
          <5>3. Lesser(entry.timeout, MAX_RECONNECT_INTERVAL) = Doubling[Step(n + 1)]
            BY <3>3, <3>5, <5>2, TwiceAsLong
          <5>4. Doubling[Step(n + 1)] \in Nat
            BY <3>5, TwiceAsLong
          <5> QED BY <3>2, <4>1, <5>1, <5>2, <5>3, <5>4
        <4> QED BY <4>2, <4>3
      <3> QED BY <3>8, <3>9, <3>10
    <2> QED BY <2>1, <2>2, <2>3, Topics DEF BackOffInv, About
  <1>3. BackOffInv => BackOffDoubles
    <2> SUFFICES ASSUME BackOffInv, About("reconnect") PROVE BackOffDoubles
      BY DEF BackOffDoubles
    <2> DEFINE n == question.attempts
               entry == question.entry
    <2>1. /\ n \in Nat /\ entry.next \in Nat /\ entry.next <= entry.timeout
          /\ entry.timeout = Doubling[Step(n)]
          /\ question.ready => entry.next = 1 /\ n = 0
      BY DEF BackOffInv
    <2> HIDE DEF n, entry
    <2>2. n \div 11 \in n \div 11 .. n \div 10 /\ Step(n) \in 1 .. 13
      BY <2>1, Elevenths DEF Lesser
    <2> HIDE DEF Step
    <2>3. Lesser(entry.timeout, MAX_RECONNECT_INTERVAL) = entry.timeout
      BY <2>1, <2>2, TwiceAsLong
    <2>4. \E k \in n \div 11 .. n \div 10 : entry.timeout = Doubling[Lesser(k + 1, Len(Doubling))]
      BY <2>1, <2>2, Intervals13 DEF Step
    <2> QED BY <2>1, <2>3, <2>4, Zenon DEF BackOffDoubles, n, entry
  <1> QED BY <1>1, <1>2, <1>3, PTL DEF Questions

-----------------------------------------------------------------------------
(* Frames and packets.                                                      *)

(* What Frame::parse finds in a frame without a tag.                        *)
LEMMA PlainFrame ==
    ASSUME NEW d, NEW s, NEW t, t # TAGGED
    PROVE  parse(<<d, s, t>>) = << <<s>>, <<d>> >>
  BY DEF parse

(* Concatenation of cells.                                                  *)
LEMMA ThreeCells ==
    ASSUME NEW x, NEW y, NEW z
    PROVE  <<x, y>> \o <<z>> = <<x, y, z>>
  <1> DEFINE S == {x, y, z}
  <1>1. <<x, y>> \in Seq(S) /\ <<z>> \in Seq(S) /\ <<x, y, z>> \in Seq(S)
    OBVIOUS
  <1> DEFINE p == <<x, y>> \o <<z>>
             q == <<x, y, z>>
  <1> HIDE DEF S
  <1>2. p \in Seq(S) /\ Len(p) = 3 /\ Len(q) = 3
    BY <1>1, ConcatProperties
  <1>3. \A i \in 1 .. 3 : p[i] = q[i]
    BY <1>1, ConcatProperties
  <1> HIDE DEF p, q
  <1>4. p = q
    BY <1>1, <1>2, <1>3, SeqEqual DEF q
  <1> QED BY <1>4 DEF p, q

(* What Frame::parse finds in a frame with a tag.                           *)
LEMMA TaggedFrame ==
    ASSUME NEW d, NEW s, NEW b, NEW c, NEW t
    PROVE  parse(<<d, s, TAGGED, b, c, t>>) = << <<Masked(b), c, s>>, <<Masked(b), c, d>> >>
  <1> DEFINE vlan == <<Masked(b), c>>
  <1>1. SubSeq(vlan, 1, 1) # <<0, 0>>
    <2>1. Len(SubSeq(vlan, 1, 1)) = 1 /\ Len(<<0, 0>>) = 2
      OBVIOUS
    <2> QED BY <2>1
  <1>2. vlan \o <<s>> = <<Masked(b), c, s>> /\ vlan \o <<d>> = <<Masked(b), c, d>>
    BY ThreeCells
  <1> QED BY <1>1, <1>2 DEF parse

\* Eight bits, and the twelve of the id of a VLAN.
Octet == 0 .. 255
VlanId(a, b) == (a % 16) * 256 + b

(* Twelve bits tell the ids of VLANs apart.                                 *)
LEMMA VlanIds ==
    ASSUME NEW a \in Octet, NEW b \in Octet, NEW c \in Octet, NEW d \in Octet
    PROVE  /\ VlanId(a, b) = VlanId(c, d) <=> Masked(a) = Masked(c) /\ b = d
           /\ VlanId(a, b) # -1
  BY SMT DEF Masked, Octet, VlanId

(* A frame is a plain or a tagged one.                                      *)
LEMMA Frames ==
    ASSUME NEW f \in Frame
    PROVE  \/ f[3] # TAGGED /\ f = <<f[1], f[2], f[3]>>
           \/ /\ f[3] = TAGGED /\ f = <<f[1], f[2], TAGGED, f[4], f[5], f[6]>>
              /\ f[4] \in Octet /\ f[5] \in Octet
  <1>1. CASE f \in Macs \X Macs \X (EtherTypes \ {TAGGED})
    BY <1>1
  <1>2. CASE f \in Macs \X Macs \X {TAGGED} \X SomeBytes \X SomeBytes \X EtherTypes
    <2>1. f = <<f[1], f[2], f[3], f[4], f[5], f[6]>>
      BY <1>2
    <2>2. f[3] = TAGGED /\ f[4] \in SomeBytes /\ f[5] \in SomeBytes
      BY <1>2
    <2>3. SomeBytes \subseteq Octet
      BY InputsAssumption DEF Octet
    <2> QED BY <2>1, <2>2, <2>3, Zenon
  <1> QED BY <1>1, <1>2, Zenon DEF Frame

(* A tagged frame, a plain one, and what is cut off of them.                *)
LEMMA CutFrames ==
    ASSUME NEW f \in Frame, NEW n \in Nat, n <= IF f[3] = TAGGED THEN 4 ELSE 2
    PROVE  parse(SubSeq(f, 1, n)) = <<>>
  <1>1. CASE f[3] # TAGGED
    <2>1. f = <<f[1], f[2], f[3]>> /\ n <= 2
      BY <1>1, Frames
    <2>2. Len(SubSeq(f, 1, n)) < 3
      BY <2>1
    <2> QED BY <2>2 DEF parse
  <1>2. CASE f[3] = TAGGED
    <2>1. f = <<f[1], f[2], TAGGED, f[4], f[5], f[6]>> /\ n <= 4
      BY <1>2, Frames
    <2>2. /\ Len(SubSeq(f, 1, n)) = n
          /\ n >= 3 => SubSeq(f, 1, n)[3] = TAGGED
      BY <2>1
    <2> QED BY <2>1, <2>2 DEF parse
  <1> QED BY <1>1, <1>2

(* The VLAN of a tagged frame.                                              *)
LEMMA Tags ==
    ASSUME NEW f \in Frame, f[3] = TAGGED
    PROVE  /\ f[4] \in Octet /\ f[5] \in Octet
           /\ Vlan(f) = VlanId(f[4], f[5]) /\ Vlan(f) # -1
  <1>1. f[4] \in Octet /\ f[5] \in Octet
    BY Frames, Zenon
  <1>2. Vlan(f) = VlanId(f[4], f[5])
    BY DEF Vlan, VlanId
  <1>3. VlanId(f[4], f[5]) # -1
    BY <1>1, VlanIds, Zenon
  <1> QED BY <1>1, <1>2, <1>3, Zenon

(* Two frames: parse gives equal addresses to the same stations.            *)
LEMMA SameStation ==
    ASSUME NEW f \in Frame, NEW g \in Frame, NEW i \in 1 .. 2, NEW j \in 1 .. 2
    PROVE  parse(f)[i] = parse(g)[j] <=> f[3 - i] = g[3 - j] /\ Vlan(f) = Vlan(g)
  <1> DEFINE Plain(h) == h[3] # TAGGED
             At(h, k) == IF Plain(h) THEN <<h[3 - k]>> ELSE <<Masked(h[4]), h[5], h[3 - k]>>
  <1>1. ASSUME NEW h \in Frame, NEW k \in 1 .. 2 PROVE parse(h)[k] = At(h, k)
    <2>1. CASE Plain(h)
      <3>1. parse(h) = << <<h[2]>>, <<h[1]>> >>
        BY <2>1, Frames, PlainFrame
      <3> QED BY <2>1, <3>1
    <2>2. CASE ~Plain(h)
      <3>1. parse(h) = << <<Masked(h[4]), h[5], h[2]>>, <<Masked(h[4]), h[5], h[1]>> >>
        BY <2>2, Frames, TaggedFrame
      <3> QED BY <2>2, <3>1
    <2> QED BY <2>1, <2>2
  <1>2. CASE Plain(f) /\ Plain(g)
    <2>1. Vlan(f) = Vlan(g)
      BY <1>2 DEF Vlan
    <2>2. parse(f)[i] = <<f[3 - i]>> /\ parse(g)[j] = <<g[3 - j]>>
      BY <1>1, <1>2, Zenon
    <2> QED BY <2>1, <2>2
  <1>3. CASE ~Plain(f) /\ ~Plain(g)
    <2>1. Vlan(f) = Vlan(g) <=> Masked(f[4]) = Masked(g[4]) /\ f[5] = g[5]
      <3>1. /\ f[4] \in Octet /\ f[5] \in Octet
            /\ g[4] \in Octet /\ g[5] \in Octet
        BY <1>3, Tags, Zenon
      <3>2. Vlan(f) = VlanId(f[4], f[5]) /\ Vlan(g) = VlanId(g[4], g[5])
        BY <1>3, Tags, Zenon
      <3>3. VlanId(f[4], f[5]) = VlanId(g[4], g[5]) <=>
                Masked(f[4]) = Masked(g[4]) /\ f[5] = g[5]
        BY <3>1, VlanIds
      <3> QED BY <3>2, <3>3, Zenon
    <2>2. parse(f)[i] = <<Masked(f[4]), f[5], f[3 - i]>>
      BY <1>1, <1>3, Zenon
    <2>3. parse(g)[j] = <<Masked(g[4]), g[5], g[3 - j]>>
      BY <1>1, <1>3, Zenon
    <2> QED BY <2>1, <2>2, <2>3
  <1>4. ASSUME NEW h \in Frame, NEW k \in Frame, Plain(h), ~Plain(k)
        PROVE  /\ Vlan(h) # Vlan(k)
               /\ \A m, n \in 1 .. 2 : parse(h)[m] # parse(k)[n]
    <2>1. Vlan(h) = -1 /\ Vlan(k) # -1
      BY <1>4, Tags DEF Vlan
    <2>2. ASSUME NEW m \in 1 .. 2, NEW n \in 1 .. 2 PROVE parse(h)[m] # parse(k)[n]
      <3>1. parse(h)[m] = <<h[3 - m]>> /\ parse(k)[n] = <<Masked(k[4]), k[5], k[3 - n]>>
        BY <1>1, <1>4, Zenon
      <3>2. Len(<<h[3 - m]>>) # Len(<<Masked(k[4]), k[5], k[3 - n]>>)
        OBVIOUS
      <3> QED BY <3>1, <3>2
    <2> QED BY <2>1, <2>2
  <1> HIDE DEF Plain
  <1> QED BY <1>2, <1>3, <1>4

(* A packet: source and destination are adjacent.                           *)
LEMMA PacketAddresses ==
    ASSUME NEW packet \in Seq(Nat), packet # <<>>
    PROVE  LET size == IF packet[1] = 4 THEN 1 ELSE IF packet[1] = 6 THEN 4 ELSE 0
               header == IF packet[1] = 4 THEN 5 ELSE 10
           IN  IF size = 0 \/ Len(packet) < header THEN parse_packet(packet) = <<>>
               ELSE parse_packet(packet)[1] \o parse_packet(packet)[2]
                       = SubSeq(packet, header - 2 * size + 1, header)
  <1>1. CASE packet[1] = 4 /\ Len(packet) >= 5
    <2>1. parse_packet(packet) = <<SubSeq(packet, 4, 4), SubSeq(packet, 5, 5)>>
      BY <1>1 DEF parse_packet
    <2>2. SubSeq(packet, 4, 4) \o SubSeq(packet, 5, 5) = SubSeq(packet, 4, 5)
      BY <1>1, ConcatAdjacentSubSeq
    <2> QED BY <1>1, <2>1, <2>2
  <1>2. CASE packet[1] = 6 /\ Len(packet) >= 10
    <2>1. parse_packet(packet) = <<SubSeq(packet, 3, 6), SubSeq(packet, 7, 10)>>
      BY <1>2 DEF parse_packet
    <2>2. SubSeq(packet, 3, 6) \o SubSeq(packet, 7, 10) = SubSeq(packet, 3, 10)
      BY <1>2, ConcatAdjacentSubSeq
    <2> QED BY <1>2, <2>1, <2>2
  <1>3. CASE ~(packet[1] = 4 /\ Len(packet) >= 5) /\ ~(packet[1] = 6 /\ Len(packet) >= 10)
    <2>1. parse_packet(packet) = <<>>
      BY <1>3 DEF parse_packet
    <2> QED BY <1>3, <2>1
  <1> QED BY <1>1, <1>2, <1>3, Zenon

(* For all frames and packets: parse tells stations apart by MAC address    *)
(* and VLAN, an id of 0 left open, finds the addresses of a packet, and     *)
(* refuses what is cut off.                                                 *)
THEOREM AddressesAreFound == Questions => []AddressesFound
  <1>1. Unasked => AddressesFound
    BY DEF Unasked, Nothing, AddressesFound, About
  <1>2. AddressesFound /\ [Ask]_question => AddressesFound'
    <2> SUFFICES ASSUME AddressesFound, [Ask]_question PROVE AddressesFound'
      OBVIOUS
    <2>1. CASE question' = question
      BY <2>1, Zenon DEF AddressesFound, About
    <2>2. CASE question'.about = "frames" /\ question' # question
      <3>1. PICK f \in Frame, g \in Frame : question' = [about |-> "frames", frames |-> <<f, g>>]
        BY <2>2, Topics DEF AskFrames
      <3>2. question'.frames[1] = f /\ question'.frames[2] = g /\ question'.about = "frames"
        BY <3>1
      <3>3. \A i, j \in 1 .. 2 :
                parse(f)[i] = parse(g)[j] <=> f[3 - i] = g[3 - j] /\ Vlan(f) = Vlan(g)
        BY SameStation
      <3>4. \A n \in 0 .. IF f[3] = TAGGED THEN 4 ELSE 2 : parse(SubSeq(f, 1, n)) = <<>>
        <4>1. ASSUME NEW n \in 0 .. IF f[3] = TAGGED THEN 4 ELSE 2
              PROVE  n \in Nat /\ n <= IF f[3] = TAGGED THEN 4 ELSE 2
          BY <4>1
        <4> QED BY <4>1, CutFrames
      <3> QED BY <3>2, <3>3, <3>4 DEF AddressesFound, About
    <2>3. CASE question'.about = "packet" /\ question' # question
      <3>1. PICK packet \in Packets : question' = [about |-> "packet", packet |-> packet]
        BY <2>3, Topics DEF AskPacket
      <3>2. packet \in Seq(Nat) /\ packet # <<>>
        BY InputsAssumption
      <3>3. question'.packet = packet /\ question'.about = "packet"
        BY <3>1
      <3> QED BY <3>2, <3>3, PacketAddresses, Zenon DEF AddressesFound, About
    <2> QED BY <2>1, <2>2, <2>3, Zenon DEF AddressesFound, About
  <1> QED BY <1>1, <1>2, PTL DEF Questions

-----------------------------------------------------------------------------
(* The configuration.                                                       *)

(* An option is of one kind.                                                *)
LEMMA Kinds ==
    /\ \A f \in Collected : /\ f \in Field /\ f \notin Scalar \cup Optional \cup Switch
                            /\ f \notin {"algorithms", "hooks", "hook", "daemonize"}
    /\ \A f \in Switch : /\ f \in Field /\ f \notin Scalar \cup Optional
                         /\ f \notin {"algorithms", "hooks", "hook"}
    /\ \A f \in Scalar \cup Optional : /\ f \in Field
                                       /\ f \notin {"algorithms", "hooks", "daemonize"}
    /\ \A f \in Scalar : f \notin Optional
    /\ "hook" \in Optional /\ "daemonize" \in Switch /\ {"algorithms", "hooks"} \subseteq Field
    /\ \A f \in OnByDefault : f \in Switch
    /\ \A f \in Field : f \in Scalar \cup Optional \cup Collected \cup Switch \cup {"algorithms", "hooks"}
  <1>1. /\ \A f \in Collected : /\ f \notin Scalar \cup Optional \cup Switch
                                /\ f \notin {"algorithms", "hooks", "hook", "daemonize"}
        /\ \A f \in Switch : /\ f \notin Scalar \cup Optional
                             /\ f \notin {"algorithms", "hooks", "hook"}
    BY DEF Collected, Scalar, Optional, Switch
  <1>2. \A f \in Scalar \cup Optional : f \notin {"algorithms", "hooks", "daemonize"}
    BY DEF Scalar, Optional
  <1>3. \A f \in Scalar : f \notin Optional
    BY DEF Scalar, Optional
  <1>4. "hook" \in Optional /\ "daemonize" \in Switch
    BY DEF Optional, Switch
  <1>5. \A f \in OnByDefault : f \in Switch
    BY DEF OnByDefault, Switch
  <1> QED BY <1>1, <1>2, <1>3, <1>4, <1>5 DEF Field

(* What is given without options is what there is by default.               *)
LEMMA Defaults ==
    /\ \A f \in Scalar \cup Optional : default[f] = IF f \in Scalar THEN <<"default", f>> ELSE Absent
    /\ \A f \in Collected \cup {"algorithms"} : default[f] = <<>>
    /\ \A f \in Switch : default[f] \in BOOLEAN
    /\ default["daemonize"] = FALSE /\ default["hooks"] = NoHooks
  <1>1. \A f \in Scalar \cup Optional : default[f] = IF f \in Scalar THEN <<"default", f>> ELSE Absent
    BY Kinds, Zenon DEF default
  <1>2. \A f \in Collected \cup {"algorithms"} : default[f] = <<>>
    BY Kinds, Zenon DEF default
  <1>3. \A f \in Switch : default[f] = IF f \in OnByDefault THEN TRUE ELSE FALSE
    BY Kinds, Zenon DEF default
  <1>4. default["hooks"] = NoHooks
    BY Kinds, Zenon DEF default
  <1>5. default["daemonize"] = FALSE
    BY Kinds, <1>3, Zenon DEF OnByDefault
  <1>6. \A f \in Switch : default[f] \in BOOLEAN
    BY <1>3, Zenon
  <1> QED BY <1>1, <1>2, <1>4, <1>5, <1>6

(* The same for arguments.                                                  *)
LEMMA Nones ==
    /\ \A f \in Scalar \cup Optional : NoArgs[f] = Absent
    /\ \A f \in Collected \cup {"algorithms", "hooks"} : NoArgs[f] = <<>>
    /\ \A f \in Switch : NoArgs[f] = FALSE
  BY Kinds, Zenon DEF NoArgs

(* Inserting into an empty map.                                             *)
LEMMA InsertedFirst ==
    ASSUME NEW hooks, IsHooks(hooks)
    PROVE  Inserted(NoHooks, hooks) = hooks /\ Inserted(hooks, NoHooks) = hooks
  <1>1. DOMAIN NoHooks = {}
    BY DEF NoHooks
  <1>2. hooks = [event \in DOMAIN hooks |-> hooks[event]]
    BY DEF IsHooks
  <1>3. Inserted(NoHooks, hooks) = [event \in DOMAIN hooks |-> hooks[event]]
    BY <1>1 DEF Inserted
  <1>4. Inserted(hooks, NoHooks) = [event \in DOMAIN hooks |-> hooks[event]]
    BY <1>1 DEF Inserted
  <1> QED BY <1>2, <1>3, <1>4

(* merge_file, starting from the defaults.                                  *)
LEMMA MergedFile ==
    ASSUME NEW file, IsFile(file)
    PROVE  /\ \A f \in Scalar \cup Optional : merge_file(default, file)[f] = Or(file[f], default[f])
           /\ \A f \in Collected : /\ merge_file(default, file)[f] = Or(file[f], <<>>)
                                   /\ merge_file(default, file)[f] \in Seq(Values)
           /\ \A f \in Switch : /\ merge_file(default, file)[f] \in BOOLEAN
                                /\ f # "daemonize" => merge_file(default, file)[f] = Or(file[f], default[f])
           /\ merge_file(default, file)["daemonize"] = FALSE
           /\ merge_file(default, file)["algorithms"] = file["algorithms"]
           /\ merge_file(default, file)["hooks"] = file["hooks"]
  <1> DEFINE c == merge_file(default, file)
  <1>1. \A f \in Scalar \cup Optional : c[f] = Or(file[f], default[f])
    BY Kinds DEF merge_file
  <1>2. ASSUME NEW f \in Collected PROVE c[f] = Or(file[f], <<>>) /\ c[f] \in Seq(Values)
    <2>1. c[f] = default[f] \o Or(file[f], <<>>)
      BY Kinds, Zenon DEF merge_file
    <2>2. Or(file[f], <<>>) \in Seq(Values)
      BY DEF IsFile, Or
    <2>3. default[f] = <<>>
      BY Defaults
    <2> QED BY <2>1, <2>2, <2>3
  <1>3. ASSUME NEW f \in Switch, f # "daemonize" PROVE c[f] = Or(file[f], default[f])
    BY <1>3, Kinds DEF merge_file
  <1>4. c["daemonize"] = FALSE
    BY Kinds, Defaults DEF merge_file
  <1>5. \A f \in Switch : c[f] \in BOOLEAN
    BY <1>3, <1>4, Defaults, Zenon DEF IsFile, Or
  <1>6. c["algorithms"] = file["algorithms"]
    BY Kinds, Defaults DEF merge_file, OrEmpty
  <1>7. c["hooks"] = file["hooks"]
    <2>1. c["hooks"] = Inserted(default["hooks"], file["hooks"])
      BY Kinds DEF merge_file
    <2> QED BY <2>1, Defaults, InsertedFirst DEF IsFile
  <1> QED BY <1>1, <1>2, <1>3, <1>4, <1>5, <1>6, <1>7

-----------------------------------------------------------------------------
(* The --hook options.                                                      *)

HookOption == [event : Events \cup {Absent}, script : Scripts]
HookMap == UNION {[E -> Scripts] : E \in SUBSET Events}
HookOf(hooks, event) == IF event \in DOMAIN hooks THEN hooks[event] ELSE Absent

(* A map of hooks.                                                          *)
LEMMA HookMaps == ASSUME NEW hooks PROVE hooks \in HookMap <=> IsHooks(hooks)
  <1>1. ASSUME hooks \in HookMap PROVE IsHooks(hooks)
    <2>1. PICK E \in SUBSET Events : hooks \in [E -> Scripts]
      BY <1>1 DEF HookMap
    <2> QED BY <2>1 DEF IsHooks
  <1>2. ASSUME IsHooks(hooks) PROVE hooks \in HookMap
    BY <1>2 DEF IsHooks, HookMap
  <1> QED BY <1>1, <1>2

(* One --hook option replaces the general hook or the one for its event.    *)
LEMMA OneHook ==
    ASSUME NEW h \in HookOption, NEW S, Scripts \subseteq S, NEW g \in [hooks : HookMap, hook : S]
    PROVE  /\ insert_hook(h, g) \in [hooks : HookMap, hook : S]
           /\ insert_hook(h, g).hook = IF h.event = Absent THEN h.script ELSE g.hook
           /\ \A event \in Events :
                HookOf(insert_hook(h, g).hooks, event) =
                    IF h.event = event THEN h.script ELSE HookOf(g.hooks, event)
  <1>1. /\ h.event \in Events \cup {Absent} /\ h.script \in Scripts
        /\ g.hooks \in HookMap /\ g.hook \in S /\ Absent \notin Events
    BY ConfigAssumption DEF HookOption
  <1>2. CASE h.event = Absent
    <2>1. insert_hook(h, g) = [hooks |-> g.hooks, hook |-> h.script]
      BY <1>2 DEF insert_hook
    <2> QED BY <1>1, <1>2, <2>1
  <1>3. CASE h.event # Absent
    <2> DEFINE one == [event \in {h.event} |-> h.script]
               new == Inserted(g.hooks, one)
    <2>1. insert_hook(h, g) = [hooks |-> new, hook |-> g.hook]
      BY <1>3 DEF insert_hook
    <2>2. PICK E \in SUBSET Events : g.hooks \in [E -> Scripts]
      BY <1>1 DEF HookMap
    <2>3. new = [event \in E \cup {h.event} |-> IF event = h.event THEN h.script ELSE g.hooks[event]]
      BY <2>2 DEF Inserted
    <2>4. E \cup {h.event} \in SUBSET Events
      BY <1>1, <1>3
    <2>5. new \in [E \cup {h.event} -> Scripts]
      BY <1>1, <2>2, <2>3
    <2> HIDE DEF new
    <2>6. new \in HookMap
      BY <2>4, <2>5 DEF HookMap
    <2>7. \A event \in Events :
            HookOf(new, event) = IF h.event = event THEN h.script ELSE HookOf(g.hooks, event)
      BY <2>2, <2>3 DEF HookOf
    <2> QED BY <1>1, <1>3, <2>1, <2>6, <2>7
  <1> QED BY <1>2, <1>3

\* The maps that the loop over the --hook options goes through.
HookRun(run, config, options) ==
    /\ run[0] = [hooks |-> config["hooks"], hook |-> config["hook"]]
    /\ \A k \in 1 .. Len(options) : run[k] = insert_hook(options[k], run[k - 1])
    /\ \A k \in 0 .. Len(options) :
            run[k] \in [hooks : HookMap, hook : Scripts \cup {config["hook"]}]
    /\ insert_hooks(config, options) = run[Len(options)]

\* A round of the loop.
HookRound(options, g, k) == insert_hook(options[k], g)

(* The loop goes through the options once.                                  *)
LEMMA HookRuns ==
    ASSUME NEW config, IsHooks(config["hooks"]), NEW options \in Seq(HookOption)
    PROVE  \E run : HookRun(run, config, options)
  <1> DEFINE n == Len(options)
             first == [hooks |-> config["hooks"], hook |-> config["hook"]]
             B == [hooks : HookMap, hook : Scripts \cup {config["hook"]}]
             G == [k \in 1 .. n |-> [g \in B |-> HookRound(options, g, k)]]
             IsRun(f) == f = [k \in 0 .. n |-> IF k = 0 THEN first ELSE HookRound(options, f[k - 1], k)]
             run == CHOOSE f : IsRun(f)
  <1>1. insert_hooks(config, options) = run[n]
    BY Zenon DEF insert_hooks, HookRound
  <1>2. n \in Nat /\ first \in B
    BY HookMaps
  <1>3. \A k \in 1 .. n, g \in B : HookRound(options, g, k) \in B
    <2> SUFFICES ASSUME NEW k \in 1 .. n, NEW g \in B PROVE insert_hook(options[k], g) \in B
      BY DEF HookRound
    <2> DEFINE S == Scripts \cup {config["hook"]}
               h == options[k]
    <2>1. h \in HookOption /\ Scripts \subseteq S /\ g \in [hooks : HookMap, hook : S]
      OBVIOUS
    <2> HIDE DEF S, h
    <2>2. insert_hook(h, g) \in [hooks : HookMap, hook : S]
      BY <2>1, OneHook, Zenon
    <2> QED BY <2>2 DEF S, h
  <1> HIDE DEF B, first
  <1>4. G \in [1 .. n -> [B -> B]]
    BY <1>3
  <1>5. PICK f : RunOf(f, B, first, n, G)
    <2> HIDE DEF n, G
    <2> QED BY <1>2, <1>4, LoopRuns
  <1>6. f \in [0 .. n -> B] /\ f[0] = first
    BY <1>5 DEF RunOf
  <1>7. \A k \in 1 .. n : f[k] = HookRound(options, f[k - 1], k)
    <2>1. \A k \in 1 .. n : f[k] = G[k][f[k - 1]] /\ f[k - 1] \in B
      BY <1>2, <1>5, <1>6 DEF RunOf
    <2> QED BY <2>1, Zenon
  <1>8. IsRun(f)
    BY <1>2, <1>6, <1>7
  <1>9. IsRun(run)
    <2> HIDE DEF IsRun
    <2> QED BY <1>8
  <1> HIDE DEF run
  <1>10. run[0] = first /\ \A k \in 1 .. n : run[k] = HookRound(options, run[k - 1], k)
    BY <1>2, <1>9
  <1>11. \A k \in 0 .. n : run[k] \in B
    BY <1>2, <1>3, <1>10, Preserved, Zenon
  <1> QED BY <1>1, <1>10, <1>11 DEF HookRun, HookRound, B, first, n

(* What is replaced by every option for an event is what the last one says. *)
LEMMA LastGiven ==
    ASSUME NEW args, args["hooks"] \in Seq(HookOption), NEW event, NEW v,
           \A k \in 1 .. Len(args["hooks"]) :
                v[k] = IF args["hooks"][k].event = event THEN args["hooks"][k].script ELSE v[k - 1]
    PROVE  v[Len(args["hooks"])] = Or(LastHook(args, event), v[0])
  <1> DEFINE options == args["hooks"]
             n == Len(options)
             Last(i, k) == /\ options[i].event = event /\ v[k] = options[i].script
                           /\ \A j \in 1 .. k : options[j].event = event => j <= i
             S == {k \in 0 .. n : \/ v[k] = v[0] /\ \A j \in 1 .. k : options[j].event # event
                                  \/ \E i \in 1 .. k : Last(i, k)}
             given == {i \in DOMAIN options : options[i].event = event}
  <1>1. n \in Nat /\ DOMAIN options = 1 .. n /\ \A i \in 1 .. n : options[i].script \in Scripts
    <2>1. n \in Nat /\ DOMAIN options = 1 .. n /\ \A i \in 1 .. n : options[i] \in HookOption
      OBVIOUS
    <2>2. \A h \in HookOption : h.script \in Scripts
      BY DEF HookOption
    <2> QED BY <2>1, <2>2
  <1>2. Absent \notin Scripts
    BY ConfigAssumption
  <1>3. LastHook(args, event) =
            IF given = {} THEN Absent
            ELSE options[CHOOSE i \in given : \A j \in given : j <= i].script
    BY DEF LastHook
  <1> HIDE DEF options, n
  <1>4. 0 \in S
    BY <1>1
  <1>5. ASSUME NEW k \in 1 .. n, k - 1 \in S PROVE k \in S
    <2>1. k \in Nat /\ k \in 1 .. k /\ k \in 0 .. n /\ k - 1 \in Nat
          /\ \A j \in 1 .. k : j = k \/ j \in 1 .. k - 1
      BY <1>1
    <2>2. CASE options[k].event = event
      <3>1. v[k] = options[k].script
        BY <2>2 DEF options, n
      <3>2. Last(k, k)
        BY <2>1, <2>2, <3>1
      <3> HIDE DEF Last
      <3> QED BY <2>1, <3>2
    <2>3. CASE options[k].event # event
      <3>1. v[k] = v[k - 1]
        BY <2>3 DEF options, n
      <3>2. CASE v[k - 1] = v[0] /\ \A j \in 1 .. k - 1 : options[j].event # event
        BY <2>1, <2>3, <3>1, <3>2
      <3>3. CASE \E i \in 1 .. k - 1 : Last(i, k - 1)
        <4>1. PICK i \in 1 .. k - 1 : Last(i, k - 1)
          BY <3>3
        <4>2. i \in 1 .. k /\ Last(i, k)
          BY <2>1, <2>3, <3>1, <4>1
        <4> HIDE DEF Last
        <4> QED BY <2>1, <4>2
      <3> QED BY <1>5, <3>2, <3>3
    <2> QED BY <2>2, <2>3
  <1>6. n \in S
    <2>1. 0 .. n \subseteq S
      <3> HIDE DEF S
      <3> QED BY <1>1, <1>4, <1>5, EveryRound, Zenon
    <2> QED BY <1>1, <2>1
  <1>7. CASE v[n] = v[0] /\ \A j \in 1 .. n : options[j].event # event
    <2>1. given = {}
      BY <1>1, <1>7
    <2> QED BY <1>3, <1>7, <2>1 DEF Or, options, n
  <1>8. CASE \E i \in 1 .. n : Last(i, n)
    <2>1. PICK i \in 1 .. n : Last(i, n)
      BY <1>8
    <2>2. i \in given /\ \A j \in given : j <= i
      BY <1>1, <2>1
    <2>3. \A j \in given : j \in Nat
      BY <1>1
    <2> HIDE DEF given
    <2> DEFINE m == CHOOSE l \in given : \A j \in given : j <= l
    <2>4. m = i
      <3>1. m \in given /\ \A j \in given : j <= m
        BY <2>2, Zenon
      <3> HIDE DEF m
      <3> QED BY <2>2, <2>3, <3>1
    <2>5. LastHook(args, event) = options[i].script
      BY <1>3, <2>2, <2>4, Zenon
    <2> QED BY <1>1, <1>2, <2>1, <2>5 DEF Or, options, n
  <1> QED BY <1>6, <1>7, <1>8

(* The hooks after merge_args: the last option for an event counts.         *)
LEMMA HooksGiven ==
    ASSUME NEW config, IsHooks(config["hooks"]), NEW args, args["hooks"] \in Seq(HookOption)
    PROVE  /\ IsHooks(insert_hooks(config, args["hooks"]).hooks)
           /\ insert_hooks(config, args["hooks"]).hook = Or(LastHook(args, Absent), config["hook"])
           /\ \A event \in Events :
                HookOf(insert_hooks(config, args["hooks"]).hooks, event) =
                    Or(LastHook(args, event), HookOf(config["hooks"], event))
           /\ args["hooks"] = <<>> => insert_hooks(config, args["hooks"]).hooks = config["hooks"]
  <1> DEFINE options == args["hooks"]
             n == Len(options)
             S == Scripts \cup {config["hook"]}
  <1>1. PICK run : HookRun(run, config, options)
    BY HookRuns
  <1>2. /\ run[0].hooks = config["hooks"] /\ run[0].hook = config["hook"]
        /\ insert_hooks(config, options) = run[n]
    BY <1>1 DEF HookRun
  <1>3. /\ n \in Nat /\ \A k \in 0 .. n : run[k] \in [hooks : HookMap, hook : S]
        /\ \A k \in 1 .. n : options[k] \in HookOption /\ run[k] = insert_hook(options[k], run[k - 1])
    BY <1>1 DEF HookRun
  <1> HIDE DEF n, S
  <1>4. \A k \in 1 .. n :
            /\ run[k].hook = IF options[k].event = Absent THEN options[k].script ELSE run[k - 1].hook
            /\ \A event \in Events :
                HookOf(run[k].hooks, event) =
                    IF options[k].event = event THEN options[k].script
                    ELSE HookOf(run[k - 1].hooks, event)
    <2> SUFFICES ASSUME NEW k \in 1 .. n
                 PROVE  /\ run[k].hook = IF options[k].event = Absent THEN options[k].script
                                         ELSE run[k - 1].hook
                        /\ \A event \in Events :
                            HookOf(run[k].hooks, event) =
                                IF options[k].event = event THEN options[k].script
                                ELSE HookOf(run[k - 1].hooks, event)
      OBVIOUS
    <2> DEFINE h == options[k]
               g == run[k - 1]
    <2>1. h \in HookOption /\ g \in [hooks : HookMap, hook : S] /\ Scripts \subseteq S
          /\ run[k] = insert_hook(h, g)
      BY <1>3 DEF S
    <2> HIDE DEF h, g, options
    <2>2. insert_hook(h, g).hook = IF h.event = Absent THEN h.script ELSE g.hook
      BY <2>1, OneHook
    <2>3. ASSUME NEW event \in Events
          PROVE  HookOf(insert_hook(h, g).hooks, event) =
                    IF h.event = event THEN h.script ELSE HookOf(g.hooks, event)
      BY <2>1, OneHook
    <2> QED BY <2>1, <2>2, <2>3 DEF h, g
  <1>5. run[n].hook = Or(LastHook(args, Absent), run[0].hook)
    <2> DEFINE v == [k \in 0 .. n |-> run[k].hook]
    <2>1. \A k \in 1 .. n : v[k] = IF options[k].event = Absent THEN options[k].script ELSE v[k - 1]
      BY <1>3, <1>4
    <2>2. v[n] = run[n].hook /\ v[0] = run[0].hook
      BY <1>3
    <2> HIDE DEF v
    <2>3. v[n] = Or(LastHook(args, Absent), v[0])
      BY <2>1, LastGiven DEF n
    <2> QED BY <2>2, <2>3
  <1>6. ASSUME NEW event \in Events
        PROVE  HookOf(run[n].hooks, event) = Or(LastHook(args, event), HookOf(run[0].hooks, event))
    <2> DEFINE v == [k \in 0 .. n |-> HookOf(run[k].hooks, event)]
    <2>1. \A k \in 1 .. n : v[k] = IF options[k].event = event THEN options[k].script ELSE v[k - 1]
      BY <1>3, <1>4
    <2>2. v[n] = HookOf(run[n].hooks, event) /\ v[0] = HookOf(run[0].hooks, event)
      BY <1>3
    <2> HIDE DEF v
    <2>3. v[n] = Or(LastHook(args, event), v[0])
      BY <2>1, LastGiven DEF n
    <2> QED BY <2>2, <2>3
  <1>7. IsHooks(run[n].hooks)
    BY <1>3, HookMaps
  <1>8. options = <<>> => n = 0
    BY DEF n
  <1> QED BY <1>2, <1>5, <1>6, <1>7, <1>8

\* The configuration that main runs with, in terms of its sources.
MainIs(m, file, args) ==
    /\ \A f \in Scalar \cup (Optional \ {"hook"}) : m[f] = Or(args[f], Or(file[f], default[f]))
    /\ \A f \in Collected : m[f] = Or(file[f], <<>>) \o args[f] /\ m[f] \in Seq(Values)
    /\ \A f \in Switch : m[f] \in BOOLEAN /\ (~args[f] => m[f] = merge_file(default, file)[f])
    /\ m["algorithms"] = OrEmpty(args["algorithms"], file["algorithms"])
    /\ m["hook"] = Or(LastHook(args, Absent), file["hook"])
    /\ IsHooks(m["hooks"])
    /\ args["hooks"] = <<>> => m["hooks"] = file["hooks"]
    /\ \A event \in Events :
            HookOf(m["hooks"], event) = Or(LastHook(args, event), HookOf(file["hooks"], event))

(* merge_file and merge_args together.                                      *)
LEMMA MainConfig ==
    ASSUME NEW file, IsFile(file), NEW args, IsArgs(args)
    PROVE  MainIs(main(file, args), file, args)
  <1> DEFINE c == merge_file(default, file)
             m == merge_args(c, args)
             R == insert_hooks(c, args["hooks"])
  <1>1. main(file, args) = m
    BY DEF main
  <1>2. c["hooks"] = file["hooks"] /\ c["hook"] = file["hook"] /\ IsHooks(c["hooks"])
    BY MergedFile, Kinds, Defaults, Zenon DEF IsFile, Or
  <1>3. args["hooks"] \in Seq(HookOption)
    BY DEF IsArgs, HookOption
  <1> HIDE DEF c
  <1>4. m["hooks"] = R.hooks /\ m["hook"] = R.hook
    BY Kinds DEF merge_args
  <1> HIDE DEF R
  <1>5. /\ IsHooks(R.hooks) /\ R.hook = Or(LastHook(args, Absent), c["hook"])
        /\ \A event \in Events :
                HookOf(R.hooks, event) = Or(LastHook(args, event), HookOf(c["hooks"], event))
        /\ args["hooks"] = <<>> => R.hooks = c["hooks"]
    BY <1>2, <1>3, HooksGiven, Zenon DEF R
  <1>6. \A f \in Scalar \cup (Optional \ {"hook"}) : m[f] = Or(args[f], Or(file[f], default[f]))
    <2>1. "hook" \notin Scalar
      BY Kinds
    <2>2. \A f \in Scalar \cup (Optional \ {"hook"}) : m[f] = Or(args[f], c[f])
      BY <2>1, Kinds, Zenon DEF merge_args
    <2> QED BY <2>2, MergedFile, Zenon DEF c
  <1>7. ASSUME NEW f \in Collected PROVE m[f] = Or(file[f], <<>>) \o args[f] /\ m[f] \in Seq(Values)
    <2>1. m[f] = c[f] \o args[f]
      BY Kinds, Zenon DEF merge_args
    <2>2. c[f] = Or(file[f], <<>>) /\ c[f] \in Seq(Values) /\ args[f] \in Seq(Values)
      BY MergedFile, Zenon DEF c, IsArgs
    <2>3. c[f] \o args[f] \in Seq(Values)
      BY <2>2, ConcatProperties
    <2> HIDE DEF m
    <2> QED BY <2>1, <2>2, <2>3
  <1>8. ASSUME NEW f \in Switch PROVE m[f] \in BOOLEAN /\ (~args[f] => m[f] = c[f])
    <2>1. m[f] = IF ~args[f] THEN c[f] ELSE IF f \in OnByDefault THEN FALSE ELSE TRUE
      BY Kinds, Zenon DEF merge_args
    <2>2. c[f] \in BOOLEAN
      BY MergedFile, Zenon DEF c
    <2> QED BY <2>1, <2>2, Zenon
  <1>9. m["algorithms"] = OrEmpty(args["algorithms"], file["algorithms"])
    <2>1. m["algorithms"] = OrEmpty(args["algorithms"], c["algorithms"])
      BY Kinds DEF merge_args
    <2> QED BY <2>1, MergedFile, Zenon DEF c
  <1> HIDE DEF m
  <1>10. /\ m["hook"] = Or(LastHook(args, Absent), file["hook"]) /\ IsHooks(m["hooks"])
         /\ args["hooks"] = <<>> => m["hooks"] = file["hooks"]
         /\ \A event \in Events :
                HookOf(m["hooks"], event) = Or(LastHook(args, event), HookOf(file["hooks"], event))
    BY <1>2, <1>4, <1>5
  <1> QED BY <1>1, <1>6, <1>7, <1>8, <1>9, <1>10, Zenon DEF c, MainIs

(* Arguments that give nothing.                                             *)
LEMMA NothingGiven == IsArgs(NoArgs) /\ LastHook(NoArgs, Absent) = Absent
  <1>1. IsArgs(NoArgs)
    <2>1. \A f \in Collected : NoArgs[f] \in Seq(Values)
      BY Nones, EmptySeq, Zenon
    <2>2. \A f \in Switch : NoArgs[f] \in BOOLEAN
      BY Nones, Zenon
    <2>3. NoArgs["hooks"] \in Seq([event : Events \cup {Absent}, script : Scripts])
      BY Nones, EmptySeq, Zenon
    <2> QED BY <2>1, <2>2, <2>3 DEF IsArgs
  <1>2. NoArgs["hooks"] = <<>>
    BY Nones
  <1>3. LastHook(NoArgs, Absent) = Absent
    BY <1>2 DEF LastHook
  <1> QED BY <1>1, <1>3

(* What the wizard writes is read back.                                     *)
LEMMA WizardFile ==
    ASSUME NEW file, IsFile(file), NEW args, IsArgs(args)
    PROVE  main(into_config_file(main(file, args)), NoArgs)
                = [main(file, args) EXCEPT !["daemonize"] = FALSE]
  <1> DEFINE c == main(file, args)
             w == into_config_file(c)
             m == main(w, NoArgs)
  <1>1. c = [f \in Field |-> c[f]] /\ m = [f \in Field |-> m[f]]
    BY Zenon DEF main, merge_args
  <1>2. /\ \A f \in Scalar \cup (Optional \ {"hook"}) : c[f] = Or(args[f], Or(file[f], default[f]))
        /\ \A f \in Collected : c[f] \in Seq(Values)
        /\ \A f \in Switch : c[f] \in BOOLEAN
        /\ IsHooks(c["hooks"])
    <2>1. MainIs(c, file, args)
      BY MainConfig
    <2> HIDE DEF c
    <2> QED BY <2>1, Zenon DEF MainIs
  <1> HIDE DEF c
  <1>3. w["daemonize"] = Absent /\ \A f \in Field : f # "daemonize" => w[f] = c[f]
    BY <1>1, Kinds DEF into_config_file
  <1>4. /\ \A f \in Scalar \cup Optional \cup Collected : w[f] = c[f]
        /\ \A f \in Switch : w[f] = c[f] \/ w[f] = Absent
        /\ w["algorithms"] = c["algorithms"] /\ w["hooks"] = c["hooks"] /\ w["hook"] = c["hook"]
    BY <1>3, Kinds
  <1> HIDE DEF w
  <1>5. IsFile(w)
    BY <1>2, <1>4 DEF IsFile
  <1>6. MainIs(m, w, NoArgs)
    BY <1>5, NothingGiven, MainConfig
  <1> HIDE DEF m
  <1>7. ASSUME NEW f \in Scalar \cup (Optional \ {"hook"}) PROVE m[f] = c[f]
    <2>1. m[f] = Or(c[f], default[f])
      BY <1>4, <1>6, Nones DEF Or, MainIs
    <2> QED BY <1>2, <2>1 DEF Or
  <1>8. ASSUME NEW f \in Collected PROVE m[f] = c[f]
    <2>1. c[f] # Absent /\ c[f] \in Seq(Values)
      BY <1>2, ConfigAssumption
    <2>2. m[f] = c[f] \o <<>>
      BY <1>4, <1>6, <2>1, Nones, Zenon DEF Or, MainIs
    <2> QED BY <2>1, <2>2
  <1>9. ASSUME NEW f \in Switch PROVE m[f] = IF f = "daemonize" THEN FALSE ELSE c[f]
    <2>1. m[f] = merge_file(default, w)[f]
      BY <1>6, Nones DEF MainIs
    <2>2. CASE f = "daemonize"
      BY <1>5, <2>1, <2>2, MergedFile, Zenon
    <2>3. CASE f # "daemonize"
      <3>1. m[f] = Or(w[f], default[f])
        BY <1>5, <2>1, <2>3, MergedFile, Zenon
      <3>2. w[f] = c[f] /\ c[f] # Absent
        BY <1>2, <1>3, <2>3, Kinds, ConfigAssumption
      <3> QED BY <2>3, <3>1, <3>2 DEF Or
    <2> QED BY <2>2, <2>3, Zenon
  <1>10. m["algorithms"] = c["algorithms"] /\ m["hooks"] = c["hooks"] /\ m["hook"] = c["hook"]
    BY <1>4, <1>6, Nones, NothingGiven, Zenon DEF Or, OrEmpty, MainIs
  <1>11. \A f \in Field : m[f] = IF f = "daemonize" THEN FALSE ELSE c[f]
    BY <1>7, <1>8, <1>9, <1>10, Kinds, Zenon
  <1>12. m = [c EXCEPT !["daemonize"] = FALSE]
    BY <1>1, <1>11, Kinds, Zenon
  <1> QED BY <1>12 DEF m, w, c

(* An old file keeps its meaning.                                           *)
LEMMA OldMeaning ==
    ASSUME NEW old, IsFile(convert(old))
    PROVE  LET config == main(convert(old), NoArgs)
           IN  /\ \A f \in OldField \ (Dropped \cup {"port"}) : old[f] # Absent => config[f] = old[f]
               /\ config["algorithms"] = <<>>
               /\ old["port"] # Absent /\ old["listen"] = Absent => config["listen"] = old["port"]
               /\ config["password"] # Absent /\ config["beacon_password"] = old["password"]
  <1> DEFINE file == convert(old)
             c == main(file, NoArgs)
             Known == (Scalar \cup (Optional \ {"hook"})) \cup Collected \cup (Switch \ {"daemonize"})
  <1>1. \A f \in OldField \ (Dropped \cup {"port"}) : f \in Known
    BY DEF OldField, Dropped, Scalar, Optional, Collected, Switch
  <1>2. \A f \in Known : f \in Field
    BY Kinds
  <1>3. {"password", "beacon_password"} \subseteq Optional \ {"hook"} /\ "listen" \in Scalar
    BY DEF Optional, Scalar
  <1>4. /\ file["password"] = Or(old["password"], "none")
        /\ file["beacon_password"] = old["password"]
        /\ file["listen"] = Or(old["listen"], old["port"])
    BY <1>3, Kinds DEF convert
  <1>5. "beacon_password" \notin OldField /\ "algorithms" \notin OldField
    BY DEF OldField, Dropped
  <1>6. file["algorithms"] = <<>>
    BY <1>5, Kinds DEF convert, EmptyFile
  <1> HIDE DEF Known
  <1>7. ASSUME NEW f \in OldField \ (Dropped \cup {"port"}), old[f] # Absent PROVE file[f] = old[f]
    <2>1. CASE f \in {"password", "listen"}
      BY <1>4, <1>7, <2>1 DEF Or
    <2>2. CASE f \notin {"password", "listen"}
      BY <1>1, <1>2, <1>5, <2>2 DEF convert
    <2> QED BY <2>1, <2>2
  <1> HIDE DEF file
  <1>8. MainIs(c, file, NoArgs)
    BY NothingGiven, MainConfig DEF file
  <1> HIDE DEF c
  <1>9. \A f \in Scalar \cup (Optional \ {"hook"}) : c[f] = Or(file[f], default[f])
    BY <1>8, Nones DEF Or, MainIs
  <1>10. ASSUME NEW f \in OldField \ (Dropped \cup {"port"}), old[f] # Absent PROVE c[f] = old[f]
    <2>1. file[f] = old[f] /\ file[f] # Absent
      BY <1>7, <1>10
    <2>2. CASE f \in Scalar \cup (Optional \ {"hook"})
      BY <1>9, <2>1, <2>2 DEF Or
    <2>3. CASE f \in Collected
      <3>1. file[f] \in Seq(Values)
        BY <2>1, <2>3 DEF IsFile, file
      <3>2. c[f] = file[f] \o <<>>
        BY <1>8, <2>1, <2>3, Nones, Zenon DEF Or, MainIs
      <3> QED BY <2>1, <3>1, <3>2
    <2>4. CASE f \in Switch \ {"daemonize"}
      <3>1. c[f] = merge_file(default, file)[f]
        BY <1>8, <2>4, Nones DEF MainIs
      <3>2. c[f] = Or(file[f], default[f])
        BY <2>4, <3>1, MergedFile, Zenon DEF file
      <3> QED BY <2>1, <3>2 DEF Or
    <2> QED BY <1>1, <2>2, <2>3, <2>4 DEF Known
  <1>11. c["listen"] = Or(file["listen"], default["listen"])
    BY <1>3, <1>9
  <1>12. old["port"] # Absent /\ old["listen"] = Absent => c["listen"] = old["port"]
    BY <1>4, <1>11 DEF Or
  <1>13. default["password"] = Absent /\ default["beacon_password"] = Absent
    BY <1>3, Defaults, Kinds, Zenon
  <1>14. c["beacon_password"] = old["password"]
    BY <1>3, <1>4, <1>9, <1>13 DEF Or
  <1>15. c["password"] # Absent
    <2>1. c["password"] = Or(file["password"], default["password"])
      BY <1>3, <1>9
    <2>2. file["password"] # Absent
      BY <1>4, ConfigAssumption DEF Or
    <2> QED BY <2>1, <2>2 DEF Or
  <1>16. c["algorithms"] = <<>>
    BY <1>8, <1>6, Nones DEF MainIs, OrEmpty
  <1> QED BY <1>10, <1>12, <1>14, <1>15, <1>16 DEF c, file

(* call_hook runs the script of the last argument for an event, or else the *)
(* one of the file, or else the general one.                                *)
LEMMA HookFound ==
    ASSUME NEW file, IsFile(file), NEW args, IsArgs(args), NEW event \in Events
    PROVE  call_hook(main(file, args), event) =
                Or(LastHook(args, event), Or(FileHook(file, event),
                   Or(LastHook(args, Absent), file["hook"])))
  <1> DEFINE c == main(file, args)
  <1>1. MainIs(c, file, args)
    BY MainConfig
  <1> HIDE DEF c
  <1>2. /\ c["hook"] = Or(LastHook(args, Absent), file["hook"]) /\ IsHooks(c["hooks"])
        /\ HookOf(c["hooks"], event) = Or(LastHook(args, event), HookOf(file["hooks"], event))
    BY <1>1 DEF MainIs
  <1>3. HookOf(file["hooks"], event) = FileHook(file, event)
    BY DEF HookOf, FileHook
  <1>4. event \in DOMAIN c["hooks"] => c["hooks"][event] # Absent
    BY <1>2, ConfigAssumption DEF IsHooks
  <1>5. call_hook(c, event) = Or(HookOf(c["hooks"], event), c["hook"])
    BY <1>4 DEF call_hook, HookOf, Or
  <1> QED BY <1>2, <1>3, <1>5 DEF Or, c

(* ConfigSurvives is what the code does for every file and all arguments.   *)
THEOREM OptionsSurvive == Questions => []ConfigSurvives
  <1>1. Unasked => ConfigSurvives
    BY DEF Unasked, Nothing, ConfigSurvives, About
  <1>2. ConfigSurvives /\ [Ask]_question => ConfigSurvives'
    <2> SUFFICES ASSUME ConfigSurvives, [Ask]_question PROVE ConfigSurvives'
      OBVIOUS
    <2>1. CASE UNCHANGED question
      BY <2>1, Zenon DEF ConfigSurvives, About
    <2>2. CASE question' # question
      <3>1. ASSUME question'.about = "config" PROVE ConfigSurvives'
        <4>1. PICK file \in Files, args \in Arguments :
                    question' = [about |-> "config", file |-> file, args |-> args]
          BY <2>2, <3>1, Topics DEF AskConfig
        <4>2. IsFile(file) /\ IsArgs(args)
          BY ConfigAssumption
        <4> DEFINE c == main(file, args)
        <4>3. /\ main(into_config_file(c), NoArgs) = [c EXCEPT !["daemonize"] = FALSE]
              /\ MainIs(c, file, args)
          BY <4>2, WizardFile, MainConfig, Zenon
        <4> HIDE DEF c
        <4>4. \A event \in Events :
                call_hook(c, event) =
                    Or(LastHook(args, event), Or(FileHook(file, event),
                       Or(LastHook(args, Absent), file["hook"])))
          BY <4>2, HookFound, Zenon DEF c
        <4>5. question'.file = file /\ question'.args = args /\ question'.about # "old"
          BY <4>1
        <4> QED BY <4>3, <4>4, <4>5, Zenon DEF ConfigSurvives, About, MainIs, c
      <3>2. ASSUME question'.about = "old" PROVE ConfigSurvives'
        <4>1. PICK old \in OldFiles : question' = [about |-> "old", old |-> old]
          BY <2>2, <3>2, Topics DEF AskOldConfig
        <4>2. IsFile(convert(old))
          BY ConfigAssumption
        <4>3. question'.old = old /\ question'.about # "config"
          BY <4>1
        <4> QED BY <4>2, <4>3, OldMeaning, Zenon DEF ConfigSurvives, About
      <3>3. ASSUME question'.about # "config", question'.about # "old" PROVE ConfigSurvives'
        BY <3>3, Zenon DEF ConfigSurvives, About
      <3> QED BY <3>1, <3>2, <3>3
    <2> QED BY <2>1, <2>2
  <1> QED BY <1>1, <1>2, PTL DEF Questions

-----------------------------------------------------------------------------
(* The lease of a forwarding, which check_extend extends in time.           *)

\* The phases: no forwarding while there are attempts left, and an extension is
\* scheduled only for a forwarding.
ForwardPhaseInv ==
    /\ running \in BOOLEAN /\ trouble \in BOOLEAN /\ permanent_only \in BOOLEAN
    /\ taken \subseteq Port
    /\ attempt # Absent => external = Absent
    /\ external = Absent => next_extension = Absent

\* What is left of the lease n seconds before the extension is due.
Remaining(n) == IF n = Absent THEN PERMANENT ELSE IF n + MARGIN > 0 THEN n + MARGIN ELSE Absent

\* The clock of the router and the one of the node agree: the lease ends MARGIN
\* after the extension is due, unless check_extend comes before that.
LeaseInv ==
    running /\ external # Absent /\ ~trouble => router[external] = Remaining(next_extension)

ForwardInv == TypeOK /\ ForwardPhaseInv /\ LeaseInv

-----------------------------------------------------------------------------
(* What the router grants is a lease that it knows how to keep.             *)
LEMMA LeaseFacts ==
    /\ LEASE_TIME \in Nat \ {0} /\ MARGIN \in Nat /\ MARGIN <= LEASE_TIME /\ MaxSkipped \in Nat
    /\ PERMANENT \in Int /\ PERMANENT # Absent /\ PERMANENT < 0
    /\ \A n \in Int : n # Absent
    /\ LEASE_TIME \in 1 .. LEASE_TIME
  BY ForwardingAssumption DEF PERMANENT

(* get_forwarding asks only for external ports that exist.                  *)
LEMMA AskedFacts ==
    ASSUME NEW i \in ATTEMPTS, NEW asked \in Asked(i) PROVE Offer(asked) \subseteq Port
  <1>1. asked \in 0 .. PORTS - 1
    BY ForwardingAssumption DEF Asked, ATTEMPTS
  <1> QED BY <1>1, ForwardingAssumption DEF Offer, Port

(* A lease that the router grants, wherever, leaves the router's table     *)
(* well typed.                                                              *)
LEMMA GrantedFacts ==
    ASSUME TypeOK, ForwardPhaseInv, NEW p \in Port, NEW lease \in {Lease, LEASE_TIME}
    PROVE  /\ Granted(p, lease) \in [Port -> (1 .. LEASE_TIME) \cup {Absent, PERMANENT}]
           /\ Granted(p, lease)[p] = lease
           /\ Lease = IF permanent_only THEN PERMANENT ELSE LEASE_TIME
  <1>1. lease \in (1 .. LEASE_TIME) \cup {PERMANENT}
    BY LeaseFacts DEF Lease
  <1> QED BY <1>1 DEF TypeOK, Granted, Lease

(* An attempt of get_any_forwarding that succeeds schedules the extension   *)
(* MARGIN before the end of the lease, or none for a permanent one.         *)
LEMMA SuccessKeepsInv ==
    ASSUME ForwardInv, NEW p \in Port, attempt # Absent, Success(p) PROVE ForwardInv'
  <1>1. /\ router' = Granted(p, Lease) /\ external' = p /\ attempt' = Absent
        /\ next_extension' = IF Lease > 0 THEN Lease - MARGIN ELSE Absent
        /\ trouble' = FALSE
        /\ UNCHANGED <<permanent_only, taken, since, skipped, running, faults>>
    BY DEF Success
  <1>2. next_extension' = IF permanent_only THEN Absent ELSE LEASE_TIME - MARGIN
    BY <1>1, LeaseFacts DEF Lease
  <1>3. router' \in [Port -> (1 .. LEASE_TIME) \cup {Absent, PERMANENT}]
    BY <1>1, GrantedFacts DEF ForwardInv
  <1>4. router'[p] = IF permanent_only THEN PERMANENT ELSE LEASE_TIME
    BY <1>1, GrantedFacts DEF ForwardInv
  <1>5. TypeOK'
    BY <1>1, <1>2, <1>3, LeaseFacts DEF ForwardInv, TypeOK, Late, HOUSEKEEP
  <1>6. ForwardPhaseInv'
    <2>1. p # Absent
      BY LeaseFacts DEF Port
    <2> QED BY <1>1, <2>1, Zenon DEF ForwardInv, ForwardPhaseInv
  <1>7. LeaseInv'
    BY <1>1, <1>2, <1>4, LeaseFacts DEF LeaseInv, Remaining
  <1> QED BY <1>5, <1>6, <1>7 DEF ForwardInv

(* One that fails may leave a lease behind, but of no forwarding of the     *)
(* node.                                                                    *)
LEMMA FailureKeepsInv ==
    ASSUME ForwardInv, attempt # Absent, NEW asked \in Asked(attempt), Failure(asked) PROVE ForwardInv'
  <1>1. attempt \in ATTEMPTS /\ external = Absent /\ next_extension = Absent
    BY DEF ForwardInv, TypeOK, ForwardPhaseInv
  <1>2. /\ attempt' \in ATTEMPTS \cup {Absent}
        /\ UNCHANGED <<permanent_only, taken, external, next_extension, since, skipped, running, trouble>>
    BY DEF Failure
  <1>3. faults' \in 0 .. MaxFaults
    BY ForwardingAssumption DEF Failure, Fault, ForwardInv, TypeOK
  <1>4. router' \in [Port -> (1 .. LEASE_TIME) \cup {Absent, PERMANENT}]
    <2>1. CASE router' = router
      BY <2>1 DEF ForwardInv, TypeOK
    <2>2. ASSUME NEW p \in Offer(asked), router' = Granted(p, Lease)
          PROVE  router' \in [Port -> (1 .. LEASE_TIME) \cup {Absent, PERMANENT}]
      BY <1>1, <2>2, AskedFacts, GrantedFacts DEF ForwardInv
    <2> QED BY <2>1, <2>2 DEF Failure
  <1>5. TypeOK'
    BY <1>1, <1>2, <1>3, <1>4 DEF ForwardInv, TypeOK
  <1>6. ForwardPhaseInv'
    BY <1>1, <1>2 DEF ForwardInv, ForwardPhaseInv
  <1>7. LeaseInv'
    BY <1>1, <1>2 DEF LeaseInv
  <1> QED BY <1>5, <1>6, <1>7 DEF ForwardInv

(* check_extend renews the lease when it is due, and both clocks start      *)
(* again.                                                                   *)
LEMMA ExtendKeepsInv == ASSUME ForwardInv, check_extend PROVE ForwardInv'
  <1>1. /\ attempt = Absent /\ running /\ since' = 0 /\ skipped' = 0
        /\ UNCHANGED <<permanent_only, taken, attempt, external, running>>
    BY DEF check_extend, Looping
  <1>2. CASE ~Due
    <2>1. UNCHANGED <<router, next_extension, faults, trouble>>
      BY <1>2 DEF check_extend
    <2>2. next_extension = Absent \/ next_extension \in 0 .. LEASE_TIME - MARGIN
      BY <1>2, LeaseFacts DEF Due, ForwardInv, TypeOK, Late, HOUSEKEEP
    <2>3. TypeOK'
      BY <1>1, <2>1, <2>2, LeaseFacts DEF ForwardInv, TypeOK, Late, HOUSEKEEP
    <2>4. ForwardPhaseInv' /\ LeaseInv'
      BY <1>1, <2>1 DEF ForwardInv, ForwardPhaseInv, LeaseInv
    <2> QED BY <2>3, <2>4 DEF ForwardInv
  <1>3. CASE Due
    <2>1. external \in Port
      BY <1>3 DEF Due, ForwardInv, TypeOK, ForwardPhaseInv
    <2>2. /\ router' \in {router, Granted(external, LEASE_TIME)}
          /\ ~trouble' => router' = Granted(external, LEASE_TIME)
          /\ next_extension' = LEASE_TIME - MARGIN
          /\ trouble' \in BOOLEAN
      BY <1>3, Zenon DEF check_extend, ScheduleExtension
    <2>3. faults' \in 0 .. MaxFaults
      BY <1>3, ForwardingAssumption DEF check_extend, Fault, ForwardInv, TypeOK
    <2>4. /\ Granted(external, LEASE_TIME) \in [Port -> (1 .. LEASE_TIME) \cup {Absent, PERMANENT}]
          /\ Granted(external, LEASE_TIME)[external] = LEASE_TIME
      BY <2>1, GrantedFacts DEF ForwardInv
    <2>5. TypeOK'
      BY <1>1, <2>2, <2>3, <2>4, LeaseFacts DEF ForwardInv, TypeOK, Late, HOUSEKEEP
    <2>6. ForwardPhaseInv'
      BY <1>1, <2>1, <2>2, LeaseFacts DEF ForwardInv, ForwardPhaseInv, Port
    <2>7. LeaseInv'
      BY <1>1, <2>2, <2>4, LeaseFacts DEF LeaseInv, Remaining
    <2> QED BY <2>5, <2>6, <2>7 DEF ForwardInv
  <1> QED BY <1>2, <1>3

(* A second brings both clocks on; the lease ends when the node's shows      *)
(* -MARGIN.                                                                 *)
LEMMA TickKeepsInv == ASSUME ForwardInv, Tick PROVE ForwardInv'
  <1>1. /\ Looping => since < HOUSEKEEP
        /\ since' = IF Looping THEN since + 1 ELSE since
        /\ router' = [p \in Port |-> Ended(router[p])]
        /\ next_extension' = IF next_extension = Absent \/ ~running THEN next_extension
                             ELSE next_extension - 1
        /\ UNCHANGED <<permanent_only, taken, attempt, external, skipped, running, faults, trouble>>
    BY DEF Tick
  <1>2. next_extension # Absent /\ running => Looping
    BY DEF ForwardInv, TypeOK, ForwardPhaseInv, Looping
  <1>3. router' \in [Port -> (1 .. LEASE_TIME) \cup {Absent, PERMANENT}]
    <2>1. ASSUME NEW p \in Port PROVE Ended(router[p]) \in (1 .. LEASE_TIME) \cup {Absent, PERMANENT}
      <3>1. router[p] \in (1 .. LEASE_TIME) \cup {Absent, PERMANENT}
        BY DEF ForwardInv, TypeOK
      <3> QED BY <3>1, LeaseFacts DEF Ended
    <2> QED BY <1>1, <2>1
  <1>4. since' \in 0 .. HOUSEKEEP
    BY <1>1 DEF ForwardInv, TypeOK, HOUSEKEEP
  <1>5. next_extension' = Absent \/ next_extension' \in -Late' .. LEASE_TIME - MARGIN
    BY <1>1, <1>2, LeaseFacts DEF ForwardInv, TypeOK, Late, HOUSEKEEP
  <1>6. TypeOK'
    BY <1>1, <1>3, <1>4, <1>5 DEF ForwardInv, TypeOK
  <1>7. ForwardPhaseInv'
    BY <1>1 DEF ForwardInv, ForwardPhaseInv
  <1>8. LeaseInv'
    <2> SUFFICES ASSUME running, external # Absent, ~trouble
                 PROVE  router'[external] = Remaining(next_extension')
      BY <1>1 DEF LeaseInv
    <2>1. router'[external] = Ended(Remaining(next_extension))
      BY <1>1 DEF ForwardInv, TypeOK, LeaseInv
    <2>2. CASE next_extension = Absent
      BY <1>1, <2>1, <2>2, LeaseFacts DEF Remaining, Ended
    <2>3. CASE next_extension # Absent
      <3>1. next_extension \in Int /\ next_extension' = next_extension - 1
        BY <1>1, <2>3, LeaseFacts DEF ForwardInv, TypeOK, Late, HOUSEKEEP
      <3> QED BY <2>1, <3>1, LeaseFacts DEF Remaining, Ended
    <2> QED BY <2>2, <2>3
  <1> QED BY <1>6, <1>7, <1>8 DEF ForwardInv

(* The rest: without a forwarding, in trouble, or at the end there is no    *)
(* lease to keep, and a round of housekeep that fails leaves it alone.      *)
LEMMA OthersKeepInv ==
    ASSUME ForwardInv, NoGateway \/ HousekeepFails \/ Stop \/ RouterRestarts \/ UNCHANGED vars
    PROVE  ForwardInv'
  <1>1. CASE NoGateway
    <2>1. faults' \in 0 .. MaxFaults
      BY <1>1, ForwardingAssumption DEF NoGateway, Fault, ForwardInv, TypeOK
    <2> QED BY <1>1, <2>1 DEF NoGateway, ForwardInv, TypeOK, ForwardPhaseInv, LeaseInv, Late
  <1>2. CASE Stop
    <2>1. faults' \in 0 .. MaxFaults
      BY <1>2, ForwardingAssumption DEF Stop, Fault, ForwardInv, TypeOK
    <2>2. router' \in [Port -> (1 .. LEASE_TIME) \cup {Absent, PERMANENT}]
      BY <1>2 DEF Stop, ForwardInv, TypeOK
    <2>3. /\ running' = FALSE
          /\ UNCHANGED <<permanent_only, taken, attempt, external, next_extension, since, skipped, trouble>>
      BY <1>2 DEF Stop
    <2> QED BY <2>1, <2>2, <2>3, Zenon DEF ForwardInv, TypeOK, ForwardPhaseInv, LeaseInv, Late
  <1>3. CASE RouterRestarts
    <2>1. faults' \in 0 .. MaxFaults
      BY <1>3, ForwardingAssumption DEF RouterRestarts, Fault, ForwardInv, TypeOK
    <2>2. /\ router' \in [Port -> (1 .. LEASE_TIME) \cup {Absent, PERMANENT}] /\ trouble' = TRUE
          /\ UNCHANGED <<permanent_only, taken, attempt, external, next_extension, since, skipped, running>>
      BY <1>3 DEF RouterRestarts
    <2> QED BY <2>1, <2>2 DEF ForwardInv, TypeOK, ForwardPhaseInv, LeaseInv, Late
  <1>4. CASE UNCHANGED vars
    BY <1>4 DEF vars, ForwardInv, TypeOK, ForwardPhaseInv, LeaseInv, Late
  <1>5. CASE HousekeepFails
    <2>1. /\ since = HOUSEKEEP /\ since' = 0 /\ skipped < MaxSkipped /\ skipped' = skipped + 1
          /\ UNCHANGED <<router, permanent_only, taken, attempt, external, next_extension>>
          /\ UNCHANGED <<running, faults, trouble>>
      BY <1>5 DEF HousekeepFails
    <2>2. skipped' \in 0 .. MaxSkipped /\ Late' = Late
      BY <2>1, LeaseFacts DEF ForwardInv, TypeOK, Late, HOUSEKEEP
    <2> QED BY <2>1, <2>2 DEF ForwardInv, TypeOK, ForwardPhaseInv, LeaseInv, HOUSEKEEP
  <1> QED BY <1>1, <1>2, <1>3, <1>4, <1>5

(* As long as the router does what it grants and housekeep gets to         *)
(* check_extend within MARGIN seconds, the node that runs has its           *)
(* forwarding: every lease is extended before it ends.                      *)
THEOREM LeaseNeverLapses == Spec => []LeaseKept
  <1>1. Init => ForwardInv
    <2> SUFFICES ASSUME Init PROVE ForwardInv
      OBVIOUS
    <2>1. /\ router \in [Port -> {Absent}] /\ attempt = 1 /\ external = Absent
          /\ next_extension = Absent /\ since = 0 /\ skipped = 0 /\ faults = 0
          /\ MaxFaults \in Nat /\ MaxSkipped \in Nat
      BY ForwardingAssumption DEF Init
    <2>2. TypeOK
      BY <2>1 DEF TypeOK, ATTEMPTS, HOUSEKEEP
    <2>3. ForwardPhaseInv /\ LeaseInv
      BY Zenon DEF Init, ForwardPhaseInv, LeaseInv
    <2> QED BY <2>2, <2>3 DEF ForwardInv
  <1>2. ForwardInv /\ [Next]_vars => ForwardInv'
    <2> SUFFICES ASSUME ForwardInv, get_forwarding PROVE ForwardInv'
      BY ExtendKeepsInv, TickKeepsInv, OthersKeepInv DEF Next
    <2>1. attempt \in ATTEMPTS /\ attempt # Absent
      BY DEF ForwardInv, TypeOK, get_forwarding
    <2>2. PICK asked \in Asked(attempt) : Failure(asked) \/ \E p \in Offer(asked) : Success(p)
      BY DEF get_forwarding
    <2> QED BY <2>1, <2>2, AskedFacts, FailureKeepsInv, SuccessKeepsInv
  <1>3. ForwardInv => LeaseKept
    <2> SUFFICES ASSUME ForwardInv, running, external # Absent, ~trouble, Late < MARGIN
                 PROVE  router[external] # Absent
      BY DEF ForwardInv, LeaseKept, Forwarded
    <2>1. next_extension # Absent => next_extension \in Int /\ next_extension + MARGIN > 0
      <3>1. Late \in Nat
        BY DEF ForwardInv, TypeOK, Late, HOUSEKEEP
      <3>2. next_extension = Absent \/ next_extension \in -Late .. LEASE_TIME - MARGIN
        BY DEF ForwardInv, TypeOK
      <3> QED BY <3>1, <3>2, LeaseFacts
    <2>2. router[external] = Remaining(next_extension)
      BY DEF ForwardInv, LeaseInv
    <2> QED BY <2>1, <2>2, LeaseFacts DEF Remaining
  <1> QED BY <1>1, <1>2, <1>3, PTL DEF Spec
=============================================================================
