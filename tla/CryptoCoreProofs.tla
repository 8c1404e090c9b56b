-------------------------- MODULE CryptoCoreProofs --------------------------
(***************************************************************************)
(* Proofs about CryptoCore, for nonces of every width: replay protection,  *)
(* tolerance of reordering, uniqueness of nonces, no reflection.           *)
(*                                                                         *)
(* They are followed by those about the other algorithms of the crypto:    *)
(* which cipher both nodes select, for any algorithms and speeds, and keys *)
(* as text, for data of any length.  Their loops need the same induction   *)
(* as those of AlgorithmsProofs.                                           *)
(***************************************************************************)
EXTENDS CryptoCore, Algorithms, SequenceTheorems, WellFoundedInduction, TLAPS

(* Each half of the nonces is at least twice as big as the part that is     *)
(* transferred.                                                             *)
LEMMA HalfFacts ==
    /\ Half \in Nat /\ Low \in Nat /\ Low >= 1 /\ Half >= 2 * Low
    /\ \A h \in BOOLEAN : msb(h) \in {0, Half}
    /\ \A h \in BOOLEAN : msb(~h) = IF h THEN 0 ELSE Half
  BY CoreAssumption DEF Half, msb

(* Incrementing a nonce that is not the last one adds 1.                    *)
LEMMA IncrementFacts ==
    \A nonce \in Nonce : /\ increment(nonce) \in Nonce
                         /\ nonce < 2 * Half - 1 => increment(nonce) = nonce + 1
  BY HalfFacts DEF increment, Nonce

(* The nonce that a receiver deduces lies at the start of the peer's half.  *)
LEMMA DeducedFacts ==
    ASSUME NEW n \in Node, nonce_half \in [Node -> BOOLEAN], NEW p \in Packet
    PROVE  /\ DeducedNonce(n, p) \in Nonce
           /\ DeducedNonce(n, p) >= msb(~nonce_half[n])
           /\ DeducedNonce(n, p) < msb(~nonce_half[n]) + Low
           /\ DeducedNonce(n, p) < 2 * Half - 1
  <1>1. nonce_half[n] \in BOOLEAN /\ p.nonce \in Nat
    BY DEF Packet, Nonce
  <1>2. transferred(p.nonce) \in 0..(Low - 1)
    BY <1>1, HalfFacts DEF transferred
  <1> QED BY <1>1, <1>2, HalfFacts DEF DeducedNonce, Nonce

(* The state is well typed.                                                 *)
THEOREM TypeCorrect == Spec => []TypeOK
  <1>1. Init => TypeOK
    <2> SUFFICES ASSUME Init PROVE TypeOK
      OBVIOUS
    <2>1. PICK r \in [Node -> 0..(Start - 1)] :
            send_nonce = [n \in Node |-> msb(nonce_half[n]) + r[n]]
      BY DEF Init
    <2>2. \A n \in Node : nonce_half[n] \in BOOLEAN
      BY DEF Init
    <2>3. send_nonce \in [Node -> Nonce]
      BY <2>1, <2>2, HalfFacts, CoreAssumption DEF Nonce
    <2>4. 0 \in Nonce /\ 0 \in 0..MaxSend /\ 0 \in 0..MaxTick
      BY HalfFacts, CoreAssumption DEF Nonce
    <2> QED BY <2>3, <2>4 DEF Init, TypeOK
  <1>2. TypeOK /\ [Next]_vars => TypeOK'
    <2> SUFFICES ASSUME TypeOK, [Next]_vars PROVE TypeOK'
      OBVIOUS
    <2>1. ASSUME NEW n \in Node, encrypt(n) PROVE TypeOK'
      <3>1. sent' \in [Node -> 0..MaxSend] /\ sent'[n] \in Nat
        BY <2>1, CoreAssumption DEF encrypt, TypeOK
      <3>2. send_nonce' \in [Node -> Nonce]
        BY <2>1, IncrementFacts DEF encrypt, TypeOK
      <3>3. sealed' \subseteq Packet
        BY <2>1, <3>1, <3>2 DEF encrypt, TypeOK, Packet
      <3>4. opened' \in [Node -> SUBSET [packet : sealed', tick : 0..MaxTick]]
        BY <2>1 DEF encrypt, TypeOK
      <3> QED BY <2>1, <3>1, <3>2, <3>3, <3>4 DEF encrypt, TypeOK, window
    <2>2. ASSUME NEW n \in Node, every_second(n) PROVE TypeOK'
      BY <2>2, IncrementFacts, CoreAssumption DEF every_second, update_min_nonce, TypeOK
    <2>3. ASSUME NEW n \in Node, NEW p \in sealed, decrypt(n, p) PROVE TypeOK'
      <3>1. CASE UNCHANGED vars
        BY <3>1 DEF vars, window, TypeOK
      <3>2. CASE Accepts(n, p)
        <4>1. p.nonce \in Nonce
          BY DEF TypeOK, Packet
        <4>2. seen_nonce' \in [Node -> Nonce]
          BY <2>3, <3>2, <4>1 DEF decrypt, TypeOK
        <4>3. opened' \in [Node -> SUBSET [packet : sealed', tick : 0..MaxTick]]
          BY <2>3, <3>2 DEF decrypt, Open, TypeOK
        <4> QED BY <2>3, <3>2, <4>2, <4>3 DEF decrypt, Open, TypeOK
      <3> QED BY <2>3, <3>1, <3>2 DEF decrypt
    <2>4. CASE UNCHANGED vars
      BY <2>4 DEF vars, window, TypeOK
    <2> QED BY <2>1, <2>2, <2>3, <2>4 DEF Next
  <1> QED BY <1>1, <1>2, PTL DEF Spec

(* The nonces of either end stay within its half.                           *)
LEMMA HalvesApart ==
    ASSUME TypeOK, NonceInv, NEW p \in sealed
    PROVE  /\ p.from \in Node
           /\ p.nonce > msb(nonce_half[p.from])
           /\ p.nonce < msb(nonce_half[p.from]) + Half
  <1>1. p.from \in Node /\ p.nonce \in Nat /\ p.seq \in 1..sent[p.from]
    BY DEF TypeOK, Packet, Nonce, NonceInv
  <1>2. /\ sent[p.from] \in 0..MaxSend /\ nonce_half[p.from] \in BOOLEAN
        /\ send_nonce[p.from] \in Nat
    BY <1>1 DEF TypeOK, Nonce
  <1>3. /\ send_nonce[p.from] >= msb(nonce_half[p.from]) + sent[p.from]
        /\ send_nonce[p.from] < msb(nonce_half[p.from]) + Start + sent[p.from]
        /\ p.nonce - p.seq = send_nonce[p.from] - sent[p.from]
    BY <1>1 DEF NonceInv
  <1> QED BY <1>1, <1>2, <1>3, HalfFacts, CoreAssumption

(* The send nonce counts the messages sealed.                               *)
THEOREM NonceInvariant == Spec => []NonceInv
  <1>1. Init => NonceInv
    <2> SUFFICES ASSUME Init PROVE NonceInv
      OBVIOUS
    <2>1. PICK r \in [Node -> 0..(Start - 1)] :
            send_nonce = [n \in Node |-> msb(nonce_half[n]) + r[n]]
      BY DEF Init
    <2>2. \A n \in Node : nonce_half[n] \in BOOLEAN
      BY DEF Init
    <2> QED BY <2>1, <2>2, HalfFacts, CoreAssumption DEF Init, NonceInv
  <1>2. TypeOK /\ NonceInv /\ [Next]_vars => NonceInv'
    <2> SUFFICES ASSUME TypeOK, NonceInv, [Next]_vars PROVE NonceInv'
      OBVIOUS
    <2>1. ASSUME NEW n \in Node, encrypt(n) PROVE NonceInv'
      <3>1. /\ sent[n] \in 0..MaxSend /\ send_nonce[n] \in Nonce
            /\ nonce_half[n] \in BOOLEAN /\ nonce_half' = nonce_half
            /\ sent[n] < MaxSend
        BY <2>1 DEF TypeOK, encrypt
      <3>2. send_nonce[n] < 2 * Half - 1
        <4>1. send_nonce[n] < msb(nonce_half[n]) + Start + sent[n]
          BY DEF NonceInv
        <4>2. msb(nonce_half[n]) \in {0, Half}
          BY <3>1, HalfFacts
        <4> QED BY <3>1, <4>1, <4>2, HalfFacts, CoreAssumption DEF Nonce
      <3>3. increment(send_nonce[n]) = send_nonce[n] + 1
        BY <3>1, <3>2, IncrementFacts
      <3>4. /\ sent' = [sent EXCEPT ![n] = sent[n] + 1]
            /\ send_nonce' = [send_nonce EXCEPT ![n] = send_nonce[n] + 1]
            /\ sealed' = sealed \cup
                 {[from |-> n, seq |-> sent[n] + 1, nonce |-> send_nonce[n] + 1]}
        BY <2>1, <3>3 DEF encrypt, TypeOK
      <3>5. ASSUME NEW m \in Node
            PROVE  /\ send_nonce'[m] >= msb(nonce_half[m]) + sent'[m]
                   /\ send_nonce'[m] < msb(nonce_half[m]) + Start + sent'[m]
                   /\ send_nonce'[m] - sent'[m] = send_nonce[m] - sent[m]
                   /\ 1..sent[m] \subseteq 1..sent'[m]
        <4>1. /\ sent[m] \in Nat /\ send_nonce[m] \in Nat /\ nonce_half[m] \in BOOLEAN
              /\ send_nonce[m] >= msb(nonce_half[m]) + sent[m]
              /\ send_nonce[m] < msb(nonce_half[m]) + Start + sent[m]
          BY DEF TypeOK, Nonce, NonceInv
        <4>2. \/ sent'[m] = sent[m] /\ send_nonce'[m] = send_nonce[m]
              \/ sent'[m] = sent[m] + 1 /\ send_nonce'[m] = send_nonce[m] + 1
          BY <3>4 DEF TypeOK
        <4> QED BY <4>1, <4>2, HalfFacts, CoreAssumption
      <3>6. ASSUME NEW p \in sealed'
            PROVE  /\ p.seq \in 1..sent'[p.from]
                   /\ p.nonce - p.seq = send_nonce'[p.from] - sent'[p.from]
        <4>1. CASE p \in sealed
          <5>1. p.from \in Node
            BY <4>1 DEF TypeOK, Packet
          <5> QED BY <3>5, <4>1, <5>1 DEF NonceInv
        <4>2. CASE p = [from |-> n, seq |-> sent[n] + 1, nonce |-> send_nonce[n] + 1]
          <5>1. sent'[n] = sent[n] + 1 /\ send_nonce'[n] = send_nonce[n] + 1
            BY <3>4 DEF TypeOK
          <5> QED BY <3>1, <4>2, <5>1 DEF Nonce
        <4> QED BY <3>4, <4>1, <4>2
      <3> QED BY <3>1, <3>5, <3>6 DEF NonceInv
    <2>2. ASSUME NEW n \in Node, every_second(n) PROVE NonceInv'
      BY <2>2 DEF every_second, NonceInv
    <2>3. ASSUME NEW n \in Node, NEW p \in sealed, decrypt(n, p) PROVE NonceInv'
      BY <2>3 DEF decrypt, Open, NonceInv, vars
    <2>4. CASE UNCHANGED vars
      BY <2>4 DEF vars, NonceInv
    <2> QED BY <2>1, <2>2, <2>3, <2>4 DEF Next
  <1> QED BY <1>1, <1>2, TypeCorrect, PTL DEF Spec

(* Both ends seal with the same key, but never twice with the same nonce.   *)
THEOREM NoncesUnique == Spec => []UniqueNonces
  <1>1. TypeOK /\ NonceInv => UniqueNonces
    <2> SUFFICES ASSUME TypeOK, NonceInv, NEW p \in sealed, NEW q \in sealed,
                        p.nonce = q.nonce
                 PROVE  p = q
      BY DEF UniqueNonces
    <2>1. p \in Packet /\ q \in Packet
      BY DEF TypeOK
    <2>2. nonce_half[p.from] = nonce_half[q.from]
      <3>1. nonce_half[p.from] \in BOOLEAN /\ nonce_half[q.from] \in BOOLEAN
        BY <2>1 DEF TypeOK, Packet
      <3>2. msb(nonce_half[p.from]) = msb(nonce_half[q.from])
        BY <2>1, <3>1, HalvesApart, HalfFacts DEF Packet, Nonce
      <3> QED BY <3>1, <3>2, HalfFacts DEF msb
    <2>3. p.from = q.from
      BY <2>1, <2>2 DEF NonceInv, Packet, Node
    <2>4. p.seq = q.seq
      <3>1. p.nonce - p.seq = q.nonce - q.seq
        BY <2>3 DEF NonceInv
      <3> QED BY <2>1, <3>1 DEF Packet, Nonce
    <2> QED BY <2>1, <2>3, <2>4 DEF Packet
  <1> QED BY <1>1, TypeCorrect, NonceInvariant, PTL

(* The window moves past everything that has been opened.                   *)
THEOREM WindowInvariant == Spec => []WindowInv
  <1>1. Init => WindowInv
    BY HalfFacts DEF Init, WindowInv
  <1>2. TypeOK /\ WindowInv /\ [Next]_vars => WindowInv'
    <2> SUFFICES ASSUME TypeOK, WindowInv, [Next]_vars PROVE WindowInv'
      OBVIOUS
    <2>1. ASSUME NEW n \in Node, encrypt(n) PROVE WindowInv'
      BY <2>1 DEF encrypt, WindowInv, window, DeducedNonce
    <2>2. ASSUME NEW n \in Node, every_second(n) PROVE WindowInv'
      <3>1. /\ tick' = [tick EXCEPT ![n] = tick[n] + 1]
            /\ min_nonce' = [min_nonce EXCEPT ![n] = next_min_nonce[n]]
            /\ next_min_nonce' = [next_min_nonce EXCEPT ![n] = seen_nonce[n] + 1]
            /\ UNCHANGED <<nonce_half, seen_nonce, opened>>
        <4>1. increment(seen_nonce[n]) = seen_nonce[n] + 1
          BY IncrementFacts DEF TypeOK, WindowInv
        <4> QED BY <2>2, <4>1 DEF every_second, update_min_nonce, TypeOK
      <3>2. ASSUME NEW m \in Node, NEW o \in opened'[m]
            PROVE  /\ o.packet.nonce = DeducedNonce(m, o.packet)'
                   /\ o.packet.nonce <= seen_nonce'[m]
                   /\ o.tick <= tick'[m]
                   /\ o.tick + 1 <= tick'[m] => o.packet.nonce < next_min_nonce'[m]
                   /\ o.tick + 2 <= tick'[m] => o.packet.nonce < min_nonce'[m]
        <4>1. o \in opened[m] /\ o.tick \in Nat /\ tick[m] \in Nat
              /\ o.packet.nonce \in Nat /\ seen_nonce[m] \in Nat
          BY <3>1, <3>2 DEF TypeOK, Packet, Nonce
        <4>2. /\ o.packet.nonce = DeducedNonce(m, o.packet)
              /\ o.packet.nonce <= seen_nonce[m]
              /\ o.tick <= tick[m]
              /\ o.tick + 1 <= tick[m] => o.packet.nonce < next_min_nonce[m]
              /\ o.tick + 2 <= tick[m] => o.packet.nonce < min_nonce[m]
          BY <4>1 DEF WindowInv
        <4>3. DeducedNonce(m, o.packet)' = DeducedNonce(m, o.packet)
          BY <3>1 DEF DeducedNonce
        <4>4. CASE m = n
          <5>1. /\ tick'[m] = tick[m] + 1
                /\ min_nonce'[m] = next_min_nonce[m]
                /\ next_min_nonce'[m] = seen_nonce[m] + 1
                /\ seen_nonce'[m] = seen_nonce[m]
            BY <3>1, <4>4 DEF TypeOK
          <5> QED BY <4>1, <4>2, <4>3, <5>1
        <4>5. CASE m # n
          BY <3>1, <4>2, <4>3, <4>5 DEF TypeOK
        <4> QED BY <4>4, <4>5
      <3> QED BY <3>1, <3>2 DEF WindowInv
    <2>3. ASSUME NEW n \in Node, NEW p \in sealed, decrypt(n, p) PROVE WindowInv'
      <3>1. CASE UNCHANGED vars
        BY <3>1 DEF vars, window, WindowInv, DeducedNonce
      <3>2. CASE Accepts(n, p)
        <4>1. /\ p.nonce \in Nat /\ p.nonce = DeducedNonce(n, p)
              /\ p.nonce < 2 * Half - 1
          BY <3>2, DeducedFacts DEF Accepts, TypeOK, Packet, Nonce
        <4>2. /\ seen_nonce' = [seen_nonce EXCEPT ![n] =
                                 IF seen_nonce[n] < p.nonce THEN p.nonce ELSE seen_nonce[n]]
              /\ opened' = [opened EXCEPT ![n] =
                             opened[n] \cup {[packet |-> p, tick |-> tick[n]]}]
              /\ UNCHANGED <<nonce_half, min_nonce, next_min_nonce, tick>>
          BY <2>3, <3>2 DEF decrypt, Open, vars, window, TypeOK
        <4>3. ASSUME NEW m \in Node
              PROVE  /\ seen_nonce'[m] < 2 * Half - 1
                     /\ seen_nonce[m] <= seen_nonce'[m]
                     /\ m = n => p.nonce <= seen_nonce'[m]
          <5>1. seen_nonce[m] \in Nat /\ seen_nonce[m] < 2 * Half - 1
            BY DEF TypeOK, Nonce, WindowInv
          <5> QED BY <4>1, <4>2, <5>1 DEF TypeOK
        <4>4. ASSUME NEW m \in Node, NEW o \in opened'[m]
              PROVE  /\ o.packet.nonce = DeducedNonce(m, o.packet)'
                     /\ o.packet.nonce <= seen_nonce'[m]
                     /\ o.tick <= tick'[m]
                     /\ o.tick + 1 <= tick'[m] => o.packet.nonce < next_min_nonce'[m]
                     /\ o.tick + 2 <= tick'[m] => o.packet.nonce < min_nonce'[m]
          <5>1. DeducedNonce(m, o.packet)' = DeducedNonce(m, o.packet)
            BY <4>2 DEF DeducedNonce
          <5>2. CASE o \in opened[m]
            <6>1. o.packet.nonce \in Nat /\ seen_nonce[m] \in Nat /\ seen_nonce'[m] \in Int
              BY <4>1, <4>2, <5>2 DEF TypeOK, Packet, Nonce
            <6> QED BY <4>2, <4>3, <5>1, <5>2, <6>1 DEF WindowInv
          <5>3. CASE m = n /\ o = [packet |-> p, tick |-> tick[n]]
            <6>1. tick[n] \in Nat
              BY DEF TypeOK
            <6> QED BY <4>1, <4>2, <4>3, <5>1, <5>3, <6>1
          <5> QED BY <4>2, <4>4, <5>2, <5>3 DEF TypeOK
        <4> QED BY <4>3, <4>4 DEF WindowInv
      <3> QED BY <2>3, <3>1, <3>2 DEF decrypt
    <2>4. CASE UNCHANGED vars
      BY <2>4 DEF vars, window, WindowInv, DeducedNonce
    <2> QED BY <2>1, <2>2, <2>3, <2>4 DEF Next
  <1> QED BY <1>1, <1>2, TypeCorrect, PTL DEF Spec

(* A message cannot be opened again after two calls of every_second.        *)
THEOREM NoLateReplay == Spec => []ReplayWindow
  <1>1. TypeOK /\ WindowInv => ReplayWindow
    <2> SUFFICES ASSUME TypeOK, WindowInv, NEW n \in Node, NEW o \in opened[n],
                        tick[n] >= o.tick + 2
                 PROVE  ~Accepts(n, o.packet)
      BY DEF ReplayWindow
    <2>1. o.tick \in Nat /\ tick[n] \in Nat /\ min_nonce[n] \in Nat /\ o.packet.nonce \in Nat
      BY DEF TypeOK, Packet, Nonce
    <2> QED BY <2>1 DEF WindowInv, Accepts
  <1> QED BY <1>1, TypeCorrect, WindowInvariant, PTL

(* A node never opens what it has sealed itself.                            *)
THEOREM NeverReflected == Spec => []NoReflection
  <1>1. TypeOK /\ NonceInv /\ WindowInv => NoReflection
    <2> SUFFICES ASSUME TypeOK, NonceInv, WindowInv, NEW n \in Node, NEW o \in opened[n],
                        o.packet.from = n
                 PROVE  FALSE
      BY DEF NoReflection
    <2>1. o.packet \in sealed /\ o.packet \in Packet /\ nonce_half[n] \in BOOLEAN
      BY DEF TypeOK
    <2>2. /\ o.packet.nonce \in Nat
          /\ o.packet.nonce > msb(nonce_half[n])
          /\ o.packet.nonce < msb(nonce_half[n]) + Half
      BY <2>1, HalvesApart DEF Packet, Nonce
    <2>3. /\ o.packet.nonce >= msb(~nonce_half[n])
          /\ o.packet.nonce < msb(~nonce_half[n]) + Low
      BY <2>1, DeducedFacts DEF WindowInv, TypeOK
    <2> QED BY <2>1, <2>2, <2>3, HalfFacts DEF msb
  <1> QED BY <1>1, TypeCorrect, NonceInvariant, WindowInvariant, PTL

(* Whatever the window has moved past was opened in time.                   *)
THEOREM GraceInvariant == Spec => []GraceInv
  <1>1. Init => GraceInv
    BY DEF Init, GraceInv
  <1>2. TypeOK /\ WindowInv /\ GraceInv /\ [Next]_vars => GraceInv'
    <2> SUFFICES ASSUME TypeOK, WindowInv, GraceInv, [Next]_vars, NEW m \in Node
                 PROVE  /\ seen_nonce'[m] # 0 => OpenedBefore(m, seen_nonce[m], 0)'
                        /\ next_min_nonce'[m] > 1 => OpenedBefore(m, next_min_nonce[m] - 1, 1)'
                        /\ min_nonce'[m] > 1 => OpenedBefore(m, min_nonce[m] - 1, 2)'
      BY DEF GraceInv
    <2>0. /\ seen_nonce[m] # 0 => OpenedBefore(m, seen_nonce[m], 0)
          /\ next_min_nonce[m] > 1 => OpenedBefore(m, next_min_nonce[m] - 1, 1)
          /\ min_nonce[m] > 1 => OpenedBefore(m, min_nonce[m] - 1, 2)
          /\ seen_nonce[m] \in Nat /\ next_min_nonce[m] \in Nat /\ min_nonce[m] \in Nat
          /\ tick[m] \in Nat
      BY DEF GraceInv, TypeOK, Nonce
    <2>1. CASE /\ UNCHANGED <<seen_nonce, next_min_nonce, min_nonce, tick>>
               /\ opened[m] \subseteq opened'[m]
      BY <2>0, <2>1 DEF OpenedBefore
    <2>2. ASSUME NEW n \in Node, encrypt(n)
          PROVE  /\ UNCHANGED <<seen_nonce, next_min_nonce, min_nonce, tick>>
                 /\ opened[m] \subseteq opened'[m]
      BY <2>2 DEF encrypt, window
    <2>3. ASSUME NEW n \in Node, every_second(n), m # n
          PROVE  /\ seen_nonce'[m] = seen_nonce[m] /\ min_nonce'[m] = min_nonce[m]
                 /\ next_min_nonce'[m] = next_min_nonce[m]
                 /\ tick'[m] = tick[m] /\ opened'[m] = opened[m]
      BY <2>3 DEF every_second, update_min_nonce, TypeOK
    <2>4. ASSUME every_second(m)
          PROVE  /\ seen_nonce'[m] # 0 => OpenedBefore(m, seen_nonce[m], 0)'
                 /\ next_min_nonce'[m] > 1 => OpenedBefore(m, next_min_nonce[m] - 1, 1)'
                 /\ min_nonce'[m] > 1 => OpenedBefore(m, min_nonce[m] - 1, 2)'
      <3>1. increment(seen_nonce[m]) = seen_nonce[m] + 1
        BY IncrementFacts DEF TypeOK, WindowInv
      <3>2. /\ seen_nonce'[m] = seen_nonce[m] /\ min_nonce'[m] = next_min_nonce[m]
            /\ next_min_nonce'[m] = seen_nonce[m] + 1
            /\ tick'[m] = tick[m] + 1 /\ opened'[m] = opened[m]
        BY <2>4, <3>1 DEF every_second, update_min_nonce, TypeOK
      <3>3. seen_nonce'[m] # 0 => OpenedBefore(m, seen_nonce[m], 0)'
        BY <2>0, <3>2 DEF OpenedBefore, TypeOK
      <3>4. next_min_nonce'[m] > 1 => OpenedBefore(m, next_min_nonce[m] - 1, 1)'
        <4> SUFFICES ASSUME seen_nonce[m] # 0 PROVE OpenedBefore(m, next_min_nonce[m] - 1, 1)'
          BY <2>0, <3>2
        <4>1. PICK o \in opened[m] : o.packet.nonce = seen_nonce[m] /\ o.tick + 0 <= tick[m]
          BY <2>0 DEF OpenedBefore
        <4>2. o.tick \in Nat
          BY DEF TypeOK
        <4>3. o \in opened'[m] /\ o.packet.nonce = next_min_nonce'[m] - 1 /\ o.tick + 1 <= tick'[m]
          BY <2>0, <3>2, <4>1, <4>2
        <4> QED BY <4>3 DEF OpenedBefore
      <3>5. min_nonce'[m] > 1 => OpenedBefore(m, min_nonce[m] - 1, 2)'
        <4> SUFFICES ASSUME next_min_nonce[m] > 1 PROVE OpenedBefore(m, min_nonce[m] - 1, 2)'
          BY <3>2
        <4>1. PICK o \in opened[m] : /\ o.packet.nonce = next_min_nonce[m] - 1
                                     /\ o.tick + 1 <= tick[m]
          BY <2>0 DEF OpenedBefore
        <4>2. o.tick \in Nat
          BY DEF TypeOK
        <4>3. o \in opened'[m] /\ o.packet.nonce = min_nonce'[m] - 1 /\ o.tick + 2 <= tick'[m]
          BY <2>0, <3>2, <4>1, <4>2
        <4> QED BY <4>3 DEF OpenedBefore
      <3> QED BY <3>3, <3>4, <3>5
    <2>5. ASSUME NEW n \in Node, NEW p \in sealed, decrypt(n, p), Accepts(n, p)
          PROVE  /\ seen_nonce'[m] # 0 => OpenedBefore(m, seen_nonce[m], 0)'
                 /\ next_min_nonce'[m] > 1 => OpenedBefore(m, next_min_nonce[m] - 1, 1)'
                 /\ min_nonce'[m] > 1 => OpenedBefore(m, min_nonce[m] - 1, 2)'
      <3>1. /\ seen_nonce' = [seen_nonce EXCEPT ![n] =
                               IF seen_nonce[n] < p.nonce THEN p.nonce ELSE seen_nonce[n]]
            /\ opened' = [opened EXCEPT ![n] =
                           opened[n] \cup {[packet |-> p, tick |-> tick[n]]}]
            /\ UNCHANGED <<min_nonce, next_min_nonce, tick>>
        BY <2>5 DEF decrypt, Open, TypeOK
      <3>2. opened[m] \subseteq opened'[m]
        BY <3>1 DEF TypeOK
      <3>3. CASE seen_nonce'[m] = seen_nonce[m]
        BY <2>0, <3>1, <3>2, <3>3 DEF OpenedBefore
      <3>4. CASE m = n /\ seen_nonce'[m] = p.nonce
        <4>1. [packet |-> p, tick |-> tick[m]] \in opened'[m]
          BY <3>1, <3>4 DEF TypeOK
        <4>2. OpenedBefore(m, seen_nonce[m], 0)'
          BY <2>0, <3>1, <3>4, <4>1 DEF OpenedBefore
        <4> QED BY <2>0, <3>1, <3>2, <4>2 DEF OpenedBefore
      <3> QED BY <3>1, <3>3, <3>4 DEF TypeOK
    <2>6. ASSUME UNCHANGED vars
          PROVE  /\ UNCHANGED <<seen_nonce, next_min_nonce, min_nonce, tick>>
                 /\ opened[m] \subseteq opened'[m]
      BY <2>6 DEF vars, window
    <2>7. CASE \E n \in Node : every_second(n)
      BY <2>0, <2>3, <2>4, <2>7 DEF OpenedBefore
    <2>8. CASE \E n \in Node : \E p \in sealed : decrypt(n, p)
      BY <2>1, <2>5, <2>6, <2>8 DEF decrypt
    <2> QED BY <2>1, <2>2, <2>6, <2>7, <2>8 DEF Next
  <1> QED BY <1>1, <1>2, TypeCorrect, WindowInvariant, PTL DEF Spec

(* A message whose nonce fits in the transferred bytes is deduced right.    *)
LEMMA DeducedRight ==
    ASSUME TypeOK, NonceInv, NEW n \in Node, NEW p \in sealed,
           p.from # n, p.nonce % Half < Low
    PROVE  DeducedNonce(n, p) = p.nonce
  <1>1. p.from \in Node /\ p.nonce \in Nat /\ nonce_half[n] \in BOOLEAN
        /\ nonce_half[p.from] \in BOOLEAN
    BY DEF TypeOK, Packet, Nonce
  <1>2. nonce_half[p.from] = ~nonce_half[n]
    BY <1>1 DEF NonceInv, Node
  <1>3. msb(nonce_half[p.from]) = msb(~nonce_half[n])
    BY <1>2
  <1>4. msb(nonce_half[p.from]) \in {0, Half}
    BY <1>1, HalfFacts
  <1> DEFINE k == p.nonce - msb(nonce_half[p.from])
  <1>5. k \in Nat /\ k < Half
    BY <1>1, <1>4, HalvesApart, HalfFacts
  <1>6. p.nonce % Half = k
    BY <1>1, <1>4, <1>5, HalfFacts
  <1>7. k % Low = k
    BY <1>5, <1>6, HalfFacts
  <1>8. transferred(p.nonce) = p.nonce - msb(nonce_half[p.from])
    BY <1>6, <1>7 DEF transferred
  <1> QED BY <1>1, <1>3, <1>4, <1>8, HalfFacts DEF DeducedNonce

(* The peer's message is refused only if it or a later one was opened       *)
(* before the last but one call of every_second.                            *)
THEOREM ReorderingTolerated == Spec => []LateMessagesAccepted
  <1>1. TypeOK /\ NonceInv /\ GraceInv => LateMessagesAccepted
    <2> SUFFICES ASSUME TypeOK, NonceInv, GraceInv, NEW n \in Node, NEW p \in sealed,
                        p.from # n, p.nonce % Half < Low, ~Accepts(n, p)
                 PROVE  \E o \in opened[n] : o.packet.nonce >= p.nonce /\ tick[n] >= o.tick + 2
      BY DEF LateMessagesAccepted
    <2>1. p.nonce \in Nat /\ min_nonce[n] \in Nat /\ tick[n] \in Nat
      BY DEF TypeOK, Packet, Nonce
    <2>2. p.nonce < min_nonce[n]
      BY <2>1, DeducedRight DEF Accepts
    <2>3. p.nonce >= 1
      <3>1. nonce_half[p.from] \in BOOLEAN
        BY HalvesApart DEF TypeOK
      <3> QED BY <2>1, <3>1, HalvesApart, HalfFacts
    <2>4. PICK o \in opened[n] : o.packet.nonce = min_nonce[n] - 1 /\ o.tick + 2 <= tick[n]
      BY <2>1, <2>2, <2>3 DEF GraceInv, OpenedBefore
    <2>5. o.tick \in Nat
      BY DEF TypeOK
    <2> QED BY <2>1, <2>2, <2>4, <2>5
  <1> QED BY <1>1, TypeCorrect, NonceInvariant, GraceInvariant, PTL

-----------------------------------------------------------------------------
(* Loops.                                                                   *)

(* A set of natural numbers has a least one.                                *)
LEMMA LeastNumber ==
    ASSUME NEW S \in SUBSET Nat, S # {}
    PROVE  \E m \in S : \A k \in S : m <= k
  <1> DEFINE Less == OpToRel(<, Nat)
  <1>1. IsWellFoundedOn(Less, Nat)
    BY NatLessThanWellFounded, Zenon
  <1>2. \A x, y \in Nat : x < y => <<x, y>> \in Less
    BY DEF OpToRel
  <1> HIDE DEF Less
  <1>3. PICK m \in S : \A k \in S : <<k, m>> \notin Less
    BY <1>1, WFMin, Zenon
  <1>4. \A k \in S : ~(k < m)
    BY <1>2, <1>3, Zenon
  <1>5. \A k \in S : m <= k
    BY <1>4
  <1>6. QED
    BY <1>5

(* What holds at first and after one more round of a loop holds after every *)
(* round.                                                                   *)
LEMMA EveryRound ==
    ASSUME NEW S, NEW n \in Nat, 0 \in S, \A k \in 1 .. n : k - 1 \in S => k \in S
    PROVE  0 .. n \subseteq S
  <1> SUFFICES ASSUME (0 .. n) \ S # {} PROVE FALSE
    OBVIOUS
  <1> DEFINE T == (0 .. n) \ S
  <1>1. T \in SUBSET Nat
    OBVIOUS
  <1>2. PICK m \in T : \A k \in T : m <= k
    <2> HIDE DEF T
    <2> QED
      BY <1>1, LeastNumber, Zenon DEF T
  <1>3. m \in 1 .. n /\ m - 1 \in S
    BY <1>2
  <1>4. QED
    BY <1>2, <1>3

\* A run of a loop: from b, round k leads from c to G[k][c].
RunOf(f, U, b, n, G) ==
    f \in [0 .. n -> U] /\ f[0] = b /\ \A k \in 1 .. n : f[k] = G[k][f[k - 1]]

(* A loop has a run, which is what a recursive function stands for.         *)
LEMMA LoopRuns ==
    ASSUME NEW U, NEW b \in U, NEW n \in Nat, NEW G \in [1 .. n -> [U -> U]]
    PROVE  \E f : RunOf(f, U, b, n, G)
  <1> DEFINE Run(m) == \E f \in [0 .. m -> U] :
                            f[0] = b /\ \A k \in 1 .. m : f[k] = G[k][f[k - 1]]
             S == {m \in 0 .. n : Run(m)}
  <1>1. 0 \in S
    <2> DEFINE f == [k \in 0 .. 0 |-> b]
    <2>1. f \in [0 .. 0 -> U] /\ f[0] = b /\ \A k \in 1 .. 0 : f[k] = G[k][f[k - 1]]
      OBVIOUS
    <2> HIDE DEF f
    <2>2. Run(0)
      BY <2>1
    <2>3. QED
      BY <2>2
  <1>2. ASSUME NEW m \in 1 .. n, m - 1 \in S PROVE m \in S
    <2>1. PICK f \in [0 .. m - 1 -> U] :
            f[0] = b /\ \A k \in 1 .. m - 1 : f[k] = G[k][f[k - 1]]
      BY <1>2
    <2> DEFINE g == [k \in 0 .. m |-> IF k < m THEN f[k] ELSE G[m][f[m - 1]]]
    <2>2. g \in [0 .. m -> U]
      BY <2>1
    <2>3. g[0] = b /\ \A k \in 1 .. m : g[k] = G[k][g[k - 1]]
      BY <2>1
    <2> HIDE DEF g
    <2>4. Run(m)
      BY <2>2, <2>3
    <2>5. m \in 0 .. n
      OBVIOUS
    <2> HIDE DEF Run
    <2>6. QED
      BY <2>4, <2>5
  <1>3. n \in S
    <2> HIDE DEF S
    <2>1. 0 .. n \subseteq S
      BY <1>1, <1>2, EveryRound, Zenon
    <2>2. QED
      BY <2>1
  <1>4. QED
    BY <1>3 DEF RunOf

(* What a loop preserves.                                                   *)
LEMMA Preserved ==
    ASSUME NEW U, NEW n \in Nat, NEW f, f[0] \in U, \A k \in 1 .. n : f[k - 1] \in U => f[k] \in U
    PROVE  \A k \in 0 .. n : f[k] \in U
  <1> DEFINE S == {k \in 0 .. n : f[k] \in U}
  <1>1. 0 \in S /\ \A k \in 1 .. n : k - 1 \in S => k \in S
    OBVIOUS
  <1>2. 0 .. n \subseteq S
    <2> HIDE DEF S
    <2> QED BY <1>1, EveryRound
  <1> QED BY <1>2

\* The numbers that the digits so far stand for.
ValueRun(n, digits, base) ==
    /\ n \in [0 .. Len(digits) -> Nat] /\ n[0] = 0
    /\ \A i \in 1 .. Len(digits) : n[i] = n[i - 1] * base + digits[i]
    /\ ValueOf(digits, base) = n[Len(digits)]

\* One digit more.
Shifted(digits, base, c, k) == c * base + digits[k]

(* The questions about the crypto.                                          *)
LEMMA CryptoTopics ==
    ASSUME [Ask]_question, question' # question
    PROVE  /\ question'.about = "data" => AskData
           /\ question'.about = "algorithms" => AskAlgorithms
  <1>1. AskRange => question'.about = "range"
    BY DEF AskRange
  <1>2. AskData => question'.about = "data"
    BY DEF AskData
  <1>3. AskAlgorithms => question'.about = "algorithms"
    BY DEF AskAlgorithms
  <1>4. AskFrames => question'.about = "frames"
    BY DEF AskFrames
  <1>5. AskPacket => question'.about = "packet"
    BY DEF AskPacket
  <1>6. AskTimeouts => question'.about = "timeouts"
    BY DEF AskTimeouts
  <1>7. AskReconnect => question'.about = "reconnect"
    BY DEF AskReconnect
  <1>8. Round => question'.about = "reconnect"
    BY DEF Round
  <1>9. AskAgain => question'.about = "nothing"
    BY DEF AskAgain, Nothing
  <1>10. AskConfig => question'.about = "config"
    BY DEF AskConfig
  <1>11. AskOldConfig => question'.about = "old"
    BY DEF AskOldConfig
  <1> QED BY <1>1, <1>2, <1>3, <1>4, <1>5, <1>6, <1>7, <1>8, <1>9, <1>10, <1>11 DEF Ask

-----------------------------------------------------------------------------
(* The selection of an algorithm.                                           *)

\* A list of algorithms with measured speeds.
Lists == Seq((1 .. 3) \X Nat)

\* A list in which every algorithm has its speed wherever it is listed.
ListOf(s, speed) == s \in Lists /\ \A i \in 1 .. Len(s) : s[i][2] = speed[s[i][1]]

\* A round of parse_algorithms.
Listed(allowed, speed, s, k) ==
    IF allowed[k] = 0 THEN s ELSE Append(s, <<allowed[k], speed[k]>>)

(* parse_algorithms lists algorithms with speeds.                           *)
LEMMA Parsed ==
    ASSUME NEW names \in Seq(0 .. 3), NEW speed \in [DOMAIN Allowed(names) -> Nat]
    PROVE  /\ parse_algorithms(names, speed).algorithm_speeds \in Lists
           /\ parse_algorithms(names, speed).allow_unencrypted \in BOOLEAN
  <1> DEFINE allowed == Allowed(names)
             n == Len(allowed)
             U == Lists
             G == [k \in 1 .. n |-> [s \in U |-> Listed(allowed, speed, s, k)]]
             IsRun(f) == f = [k \in 0 .. n |-> IF k = 0 THEN <<>>
                                               ELSE Listed(allowed, speed, f[k - 1], k)]
             algos == CHOOSE f : IsRun(f)
  <1>1. /\ parse_algorithms(names, speed).algorithm_speeds = algos[n]
        /\ parse_algorithms(names, speed).allow_unencrypted \in BOOLEAN
    BY Zenon DEF parse_algorithms, Listed
  <1>2. allowed \in Seq(0 .. 3)
    <2>1. <<1, 2, 3>> \in Seq(0 .. 3)
      OBVIOUS
    <2> QED BY <2>1, Zenon DEF Allowed, DEFAULT_ALGORITHMS
  <1> HIDE DEF allowed
  <1>3. n \in Nat /\ <<>> \in U /\ speed \in [1 .. n -> Nat]
    BY <1>2 DEF Lists, allowed
  <1>4. ASSUME NEW k \in 1 .. n, NEW s \in U PROVE Listed(allowed, speed, s, k) \in U
    <2>1. allowed[k] \in 0 .. 3 /\ speed[k] \in Nat
      BY <1>2, <1>3
    <2> QED BY <2>1 DEF Listed, Lists
  <1> HIDE DEF U
  <1>5. G \in [1 .. n -> [U -> U]]
    BY <1>4
  <1>6. PICK f : RunOf(f, U, <<>>, n, G)
    <2> HIDE DEF n, G
    <2> QED BY <1>3, <1>5, LoopRuns
  <1>7. f \in [0 .. n -> U] /\ f[0] = <<>>
    BY <1>6 DEF RunOf
  <1>8. ASSUME NEW k \in 1 .. n PROVE f[k] = Listed(allowed, speed, f[k - 1], k)
    <2>1. f[k] = G[k][f[k - 1]] /\ k - 1 \in 0 .. n
      <3> HIDE DEF G
      <3> QED BY <1>3, <1>6 DEF RunOf
    <2>2. f[k - 1] \in U
      BY <1>7, <2>1
    <2> QED BY <2>1, <2>2
  <1> HIDE DEF n
  <1>9. IsRun(f)
    BY <1>3, <1>7, <1>8
  <1>10. IsRun(algos)
    <2> HIDE DEF IsRun
    <2> QED BY <1>9
  <1> HIDE DEF algos
  <1>11. algos[0] = <<>> /\ \A k \in 1 .. n : algos[k] = Listed(allowed, speed, algos[k - 1], k)
    BY <1>3, <1>10
  <1>12. algos[n] \in U
    <2> DEFINE S == {k \in 0 .. n : algos[k] \in U}
    <2>1. 0 \in S /\ \A k \in 1 .. n : k - 1 \in S => k \in S
      BY <1>3, <1>4, <1>11
    <2>2. 0 .. n \subseteq S
      <3> HIDE DEF S
      <3> QED BY <1>3, <2>1, EveryRound, Zenon
    <2> QED BY <1>3, <2>2
  <1> QED BY <1>1, <1>12 DEF U

\* The algorithms in both lists, their minimal speeds, and the fastest of them.
Both(m, t) == {a \in 1 .. 3 : Places(m, a) # {} /\ Places(t, a) # {}}
MinimalOf(mine, theirs, a) == Slower(mine[a], theirs[a])
BestOf(m, t, mine, theirs) ==
    {a \in Both(m, t) : \A b \in Both(m, t) : MinimalOf(mine, theirs, b) <= MinimalOf(mine, theirs, a)}

(* The first place of an algorithm in a list.                               *)
LEMMA FirstPlace ==
    ASSUME NEW s \in Lists, NEW a, Places(s, a) # {}
    PROVE  /\ Place(s, a) \in 1 .. Len(s) /\ s[Place(s, a)][1] = a
           /\ s[Place(s, a)][2] \in Nat
           /\ \A i \in 1 .. Len(s) : s[i][1] = a => Place(s, a) <= i
  <1> DEFINE Q == Places(s, a)
             p == CHOOSE i \in Q : \A j \in Q : i <= j
  <1>1. DOMAIN s = 1 .. Len(s) /\ Len(s) \in Nat
    BY DEF Lists
  <1>2. Q = {i \in 1 .. Len(s) : s[i][1] = a}
    BY <1>1 DEF Places
  <1>3. Q \in SUBSET Nat
    BY <1>1, <1>2
  <1>4. p = Place(s, a) /\ Q # {}
    BY DEF Place
  <1> HIDE DEF Q
  <1>5. \E i \in Q : \A j \in Q : i <= j
    BY <1>3, <1>4, LeastNumber
  <1>6. p \in Q /\ \A j \in Q : p <= j
    BY <1>5, Zenon
  <1> HIDE DEF p
  <1> QED BY <1>2, <1>4, <1>6 DEF Lists

(* Of finitely many places with numbers, one is the first with the greatest *)
(* number.                                                                  *)
LEMMA FirstOfGreatest ==
    ASSUME NEW n \in Nat, NEW v \in [1 .. n -> Nat], NEW C \in SUBSET (1 .. n), C # {}
    PROVE  \E i \in C : \A j \in C : v[j] < v[i] \/ (v[j] = v[i] /\ i <= j)
  <1> DEFINE Bounds(k) == {b \in Nat : \A i \in 1 .. k : v[i] <= b}
             S == {k \in 0 .. n : Bounds(k) # {}}
  <1>1. 0 \in S
    <2>1. 0 \in Bounds(0)
      OBVIOUS
    <2> QED BY <2>1
  <1>2. ASSUME NEW k \in 1 .. n, k - 1 \in S PROVE k \in S
    <2>1. PICK b \in Nat : \A i \in 1 .. k - 1 : v[i] <= b
      BY <1>2
    <2>2. \A i \in 1 .. k : i \in 1 .. k - 1 \/ i = k
      OBVIOUS
    <2>3. b + v[k] \in Bounds(k)
      BY <2>1, <2>2
    <2> QED BY <2>3
  <1>3. 0 .. n \subseteq S
    <2> HIDE DEF S
    <2> QED BY <1>1, <1>2, EveryRound, Zenon
  <1>4. PICK b \in Nat : \A i \in 1 .. n : v[i] <= b
    <2>1. n \in S
      <3> HIDE DEF S
      <3> QED BY <1>3
    <2> QED BY <2>1
  <1> DEFINE T == {c \in Nat : \A i \in C : v[i] <= c}
  <1>5. PICK c \in T : \A d \in T : c <= d
    <2>1. b \in T /\ T \in SUBSET Nat
      BY <1>4
    <2> HIDE DEF T
    <2> QED BY <2>1, LeastNumber
  <1>6. c \in Nat /\ \A i \in C : v[i] \in Nat /\ v[i] <= c
    BY <1>5
  <1> DEFINE F == {i \in C : v[i] = c}
  <1>7. F # {}
    <2> SUFFICES ASSUME \A i \in C : v[i] # c PROVE FALSE
      OBVIOUS
    <2>1. \A i \in C : v[i] < c
      BY <1>6
    <2>2. PICK i : i \in C
      OBVIOUS
    <2>3. c - 1 \in Nat /\ \A j \in C : v[j] <= c - 1
      BY <1>6, <2>1, <2>2
    <2>4. c - 1 \in T
      BY <2>3
    <2> QED BY <1>5, <1>6, <2>4
  <1>8. PICK i \in F : \A j \in F : i <= j
    <2>1. C \in SUBSET Nat /\ F \in SUBSET C
      BY 1 .. n \in SUBSET Nat
    <2> HIDE DEF F
    <2> QED BY <1>7, <2>1, LeastNumber
  <1> QED BY <1>6, <1>8

\* Of the entries whose algorithm is in both lists, the first with the greatest
\* minimal speed.
Winner(m, t, i) ==
    /\ m[i][1] \in Both(m, t)
    /\ \A j \in 1 .. Len(m) : m[j][1] \in Both(m, t) =>
            \/ Minimal(m, t, j) < Minimal(m, t, i)
            \/ Minimal(m, t, j) = Minimal(m, t, i) /\ i <= j

\* The node selects the winner of its list m, if there is something in common.
SelectsWinner(own, peer, m, t) ==
    /\ Both(m, t) = {} => select_algorithm(own, peer) = Absent
    /\ Both(m, t) # {} => \E i \in 1 .. Len(m) :
            Winner(m, t, i) /\ select_algorithm(own, peer) = <<m[i][1], Minimal(m, t, i)>>

(* A node selects the winner of its own list.                               *)
LEMMA SelectedEntry ==
    ASSUME NEW own, NEW peer, NEW m \in Lists, NEW t \in Lists,
           m = own.algorithm_speeds, t = peer.algorithm_speeds,
           ~(own.allow_unencrypted /\ peer.allow_unencrypted)
    PROVE  SelectsWinner(own, peer, m, t)
  <1> DEFINE common == {i \in DOMAIN m : Places(t, m[i][1]) # {}}
             best == Fastest(m, t, common)
             Wins(i) == \A j \in common : \/ Minimal(m, t, j) < Minimal(m, t, i)
                                          \/ Minimal(m, t, j) = Minimal(m, t, i) /\ i <= j
  <1>1. select_algorithm(own, peer) = IF common = {} THEN Absent
                                      ELSE <<m[best][1], Minimal(m, t, best)>>
    BY Zenon DEF select_algorithm
  <1>2. DOMAIN m = 1 .. Len(m) /\ Len(m) \in Nat
    BY DEF Lists
  <1>3. \A i \in 1 .. Len(m) : m[i][1] \in 1 .. 3 /\ m[i][2] \in Nat
    BY DEF Lists
  <1>4. \A i \in 1 .. Len(m) : i \in common <=> m[i][1] \in Both(m, t)
    BY <1>2, <1>3 DEF Both, Places
  <1>5. common \in SUBSET (1 .. Len(m))
    BY <1>2
  <1>6. Both(m, t) # {} => common # {}
    <2> SUFFICES ASSUME NEW a \in Both(m, t) PROVE common # {}
      OBVIOUS
    <2>1. Places(m, a) # {}
      BY DEF Both
    <2>2. Place(m, a) \in 1 .. Len(m) /\ m[Place(m, a)][1] = a
      BY <2>1, FirstPlace
    <2> HIDE DEF common
    <2> QED BY <1>4, <2>2
  <1> HIDE DEF common
  <1>7. CASE Both(m, t) = {}
    <2>1. common = {}
      BY <1>4, <1>5, <1>7
    <2> QED BY <1>1, <1>7, <2>1 DEF SelectsWinner
  <1>8. CASE Both(m, t) # {}
    <2>1. ASSUME NEW i \in common PROVE Minimal(m, t, i) \in Nat
      <3>1. m[i][2] \in Nat /\ Places(t, m[i][1]) # {}
        BY <1>3, <1>4, <1>5 DEF Both
      <3>2. t[Place(t, m[i][1])][2] \in Nat
        BY <3>1, FirstPlace
      <3> QED BY <3>1, <3>2 DEF Minimal, Slower
    <2> DEFINE v == [i \in 1 .. Len(m) |-> IF i \in common THEN Minimal(m, t, i) ELSE 0]
    <2>2. v \in [1 .. Len(m) -> Nat] /\ \A i \in common : v[i] = Minimal(m, t, i)
      BY <1>5, <2>1
    <2> HIDE DEF v
    <2>3. PICK i \in common : \A j \in common : v[j] < v[i] \/ (v[j] = v[i] /\ i <= j)
      BY <1>2, <1>5, <1>6, <1>8, <2>2, FirstOfGreatest
    <2>4. Wins(i)
      BY <2>2, <2>3
    <2>5. best \in common /\ Wins(best)
      <3>1. best = CHOOSE k \in common : Wins(k)
        BY Zenon DEF Fastest
      <3> HIDE DEF best, Wins
      <3> QED BY <2>4, <3>1, Zenon
    <2>6. select_algorithm(own, peer) = <<m[best][1], Minimal(m, t, best)>>
      BY <1>1, <2>5
    <2> HIDE DEF best
    <2>7. best \in 1 .. Len(m) /\ Winner(m, t, best)
      BY <1>4, <1>5, <2>5 DEF Winner
    <2> QED BY <1>8, <2>6, <2>7 DEF SelectsWinner
  <1> QED BY <1>7, <1>8

(* If every algorithm has one speed, the node selects one of the fastest,   *)
(* the one that it lists first.                                             *)
LEMMA Selected ==
    ASSUME NEW own, NEW peer, NEW mine \in [1 .. 3 -> Nat], NEW theirs \in [1 .. 3 -> Nat],
           NEW m, NEW t, m = own.algorithm_speeds, t = peer.algorithm_speeds,
           ListOf(m, mine), ListOf(t, theirs), Both(m, t) # {},
           ~(own.allow_unencrypted /\ peer.allow_unencrypted)
    PROVE  \E a \in BestOf(m, t, mine, theirs) :
                /\ select_algorithm(own, peer) = <<a, MinimalOf(mine, theirs, a)>>
                /\ \A b \in BestOf(m, t, mine, theirs) : Place(m, a) <= Place(m, b)
  <1> DEFINE Min(a) == MinimalOf(mine, theirs, a)
             Top == BestOf(m, t, mine, theirs)
  <1>1. m \in Lists /\ t \in Lists
    BY DEF ListOf
  <1>2. PICK best \in 1 .. Len(m) :
            Winner(m, t, best) /\ select_algorithm(own, peer) = <<m[best][1], Minimal(m, t, best)>>
    <2>1. SelectsWinner(own, peer, m, t)
      BY <1>1, SelectedEntry
    <2> QED BY <2>1 DEF SelectsWinner
  <1>3. ASSUME NEW i \in 1 .. Len(m), m[i][1] \in Both(m, t) PROVE Minimal(m, t, i) = Min(m[i][1])
    <2> DEFINE p == Place(t, m[i][1])
    <2>1. Places(t, m[i][1]) # {}
      BY <1>3 DEF Both
    <2>2. p \in 1 .. Len(t) /\ t[p][1] = m[i][1]
      BY <1>1, <2>1, FirstPlace
    <2> HIDE DEF p
    <2>3. m[i][2] = mine[m[i][1]] /\ t[p][2] = theirs[m[i][1]]
      BY <2>2, Zenon DEF ListOf
    <2> QED BY <2>3, Zenon DEF Minimal, MinimalOf, p
  <1>4. ASSUME NEW a \in Both(m, t)
        PROVE  /\ Place(m, a) \in 1 .. Len(m) /\ m[Place(m, a)][1] = a /\ Min(a) \in Nat
               /\ \A i \in 1 .. Len(m) : m[i][1] = a => Place(m, a) <= i
    <2>1. Places(m, a) # {} /\ a \in 1 .. 3
      BY DEF Both
    <2> QED BY <1>1, <2>1, FirstPlace DEF MinimalOf, Slower
  <1> HIDE DEF Min
  <1> DEFINE a == m[best][1]
  <1>5. a \in Both(m, t) /\ Minimal(m, t, best) = Min(a) /\ select_algorithm(own, peer) = <<a, Min(a)>>
    BY <1>2, <1>3, Zenon DEF Winner
  <1>6. ASSUME NEW b \in Both(m, t)
        PROVE  Min(b) < Min(a) \/ (Min(b) = Min(a) /\ best <= Place(m, b))
    <2> HIDE DEF a
    <2> DEFINE p == Place(m, b)
    <2>1. p \in 1 .. Len(m) /\ m[p][1] = b
      BY <1>4
    <2> HIDE DEF p
    <2>2. Minimal(m, t, p) = Min(b)
      BY <1>3, <2>1, Zenon
    <2>3. Minimal(m, t, p) < Minimal(m, t, best) \/ (Minimal(m, t, p) = Minimal(m, t, best) /\ best <= p)
      BY <1>2, <2>1, Zenon DEF Winner
    <2> QED BY <1>5, <2>2, <2>3, Zenon DEF p
  <1>7. Place(m, a) <= best
    BY <1>4, <1>5
  <1> HIDE DEF a
  <1>8. Top = {c \in Both(m, t) : \A b \in Both(m, t) : Min(b) <= Min(c)}
    BY Zenon DEF BestOf, Min
  <1> HIDE DEF Top
  <1>9. a \in Top
    BY <1>4, <1>5, <1>6, <1>8
  <1>10. ASSUME NEW b \in Top PROVE Place(m, a) <= Place(m, b)
    <2>1. b \in Both(m, t) /\ Min(a) <= Min(b)
      BY <1>5, <1>8
    <2>2. best <= Place(m, b)
      BY <1>4, <1>5, <1>6, <2>1
    <2>3. Place(m, a) \in Nat /\ Place(m, b) \in Nat /\ best \in Nat
      BY <1>1, <1>4, <1>5, <2>1 DEF Lists
    <2> QED BY <1>7, <2>2, <2>3
  <1> QED BY <1>5, <1>9, <1>10 DEF Top, Min

(* A list that gives every algorithm one speed.                             *)
LEMMA ListWithSpeeds ==
    ASSUME NEW s \in Lists,
           \A i, j \in DOMAIN s : s[i][1] = s[j][1] => s[i][2] = s[j][2]
    PROVE  \E speed \in [1 .. 3 -> Nat] : ListOf(s, speed)
  <1> DEFINE speed == [a \in 1 .. 3 |-> IF Places(s, a) # {} THEN s[Place(s, a)][2] ELSE 0]
  <1>1. speed \in [1 .. 3 -> Nat]
    <2>1. ASSUME NEW a \in 1 .. 3, Places(s, a) # {} PROVE s[Place(s, a)][2] \in Nat
      BY <2>1, FirstPlace
    <2> QED BY <2>1
  <1>2. ASSUME NEW i \in 1 .. Len(s) PROVE s[i][2] = speed[s[i][1]]
    <2> DEFINE a == s[i][1]
               p == Place(s, a)
    <2>1. a \in 1 .. 3 /\ i \in DOMAIN s /\ DOMAIN s = 1 .. Len(s)
      BY DEF Lists
    <2>2. Places(s, a) # {}
      BY <2>1 DEF Places
    <2>3. p \in 1 .. Len(s) /\ s[p][1] = a
      BY <2>2, FirstPlace
    <2>4. speed[a] = s[p][2]
      BY <2>1, <2>2
    <2> HIDE DEF p, speed
    <2>5. s[p][2] = s[i][2]
      BY <2>1, <2>3
    <2> QED BY <2>4, <2>5
  <1> HIDE DEF speed
  <1>3. ListOf(s, speed)
    BY <1>2 DEF ListOf
  <1> QED BY <1>1, <1>3

\* Both nodes select the same of the fastest algorithms, unless they list them in
\* different order.
Agreed(own, peer, m, t, mine, theirs) ==
    \E a \in BestOf(m, t, mine, theirs) :
        /\ select_algorithm(own, peer) = <<a, MinimalOf(mine, theirs, a)>>
        /\ (\A b, c \in BestOf(m, t, mine, theirs) :
                Place(m, b) < Place(m, c) <=> Place(t, b) < Place(t, c))
           => select_algorithm(peer, own) = select_algorithm(own, peer)

(* Two nodes, each with one speed for each algorithm.                       *)
LEMMA BothSelected ==
    ASSUME NEW own, NEW peer, NEW mine \in [1 .. 3 -> Nat], NEW theirs \in [1 .. 3 -> Nat],
           NEW m, NEW t, m = own.algorithm_speeds, t = peer.algorithm_speeds,
           ListOf(m, mine), ListOf(t, theirs), Both(m, t) # {},
           ~(own.allow_unencrypted /\ peer.allow_unencrypted)
    PROVE  Agreed(own, peer, m, t, mine, theirs)
  <1> DEFINE Top == BestOf(m, t, mine, theirs)
  <1>1. Both(t, m) = Both(m, t) /\ BestOf(t, m, theirs, mine) = Top
    <2>1. Both(t, m) = Both(m, t)
      BY DEF Both
    <2>2. \A a \in Both(m, t) : MinimalOf(mine, theirs, a) = MinimalOf(theirs, mine, a)
      BY DEF MinimalOf, Slower, Both
    <2> QED BY <2>1, <2>2 DEF BestOf
  <1>2. PICK a \in Top : /\ select_algorithm(own, peer) = <<a, MinimalOf(mine, theirs, a)>>
                         /\ \A b \in Top : Place(m, a) <= Place(m, b)
    BY Selected
  <1>3. PICK b \in Top : /\ select_algorithm(peer, own) = <<b, MinimalOf(theirs, mine, b)>>
                         /\ \A c \in Top : Place(t, b) <= Place(t, c)
    <2>1. ~(peer.allow_unencrypted /\ own.allow_unencrypted) /\ Both(t, m) # {}
      BY <1>1
    <2> QED BY <1>1, <2>1, Selected
  <1>4. a \in Both(m, t) /\ b \in Both(m, t) /\ m \in Lists /\ t \in Lists
    BY DEF BestOf, ListOf
  <1> HIDE DEF Top
  <1>5. /\ Place(m, a) \in Nat /\ Place(m, b) \in Nat /\ Place(t, a) \in Nat /\ Place(t, b) \in Nat
        /\ m[Place(m, a)][1] = a /\ m[Place(m, b)][1] = b
    <2>1. \A c \in Both(m, t) : Places(m, c) # {} /\ Places(t, c) # {}
      BY DEF Both
    <2>2. \A c \in Both(m, t) : Place(m, c) \in Nat /\ m[Place(m, c)][1] = c
      BY <1>4, <2>1, FirstPlace
    <2>3. \A c \in Both(m, t) : Place(t, c) \in Nat
      BY <1>4, <2>1, FirstPlace
    <2> QED BY <1>4, <2>2, <2>3, Zenon
  <1>6. (\A c, d \in Top : Place(m, c) < Place(m, d) <=> Place(t, c) < Place(t, d)) => a = b
    <2>1. a # b => Place(m, a) < Place(m, b)
      BY <1>2, <1>5
    <2>2. ~(Place(t, a) < Place(t, b))
      BY <1>3, <1>5
    <2> QED BY <2>1, <2>2
  <1>7. a = b => select_algorithm(own, peer) = select_algorithm(peer, own)
    BY <1>2, <1>3, <1>4 DEF MinimalOf, Slower, Both
  <1> QED BY <1>2, <1>6, <1>7 DEF Agreed, Top

(* For all lists of algorithms and all speeds: a node selects an algorithm  *)
(* that both list.  If neither has measured an algorithm twice with         *)
(* different results, it is one with the greatest minimal speed, and the    *)
(* same for both nodes, if not two algorithms tie that they list in         *)
(* different order.                                                         *)
THEOREM SameAlgorithm == Questions => []BothSelectSame
  <1>1. Unasked => BothSelectSame
    BY DEF Unasked, Nothing, BothSelectSame, About
  <1>2. BothSelectSame /\ [Ask]_question => BothSelectSame'
    <2> SUFFICES ASSUME BothSelectSame, [Ask]_question PROVE BothSelectSame'
      OBVIOUS
    <2>1. CASE question' = question
      BY <2>1, Zenon DEF BothSelectSame, About, SameOrder, Best, Shared, MinimalSpeed, OneSpeed
    <2>2. CASE question'.about = "algorithms" /\ question' # question
      <3>1. PICK x \in Names, y \in Names :
                \E my_speed \in [DOMAIN Allowed(x) -> Speeds],
                   their_speed \in [DOMAIN Allowed(y) -> Speeds] :
                    question' = [about |-> "algorithms", mine |-> parse_algorithms(x, my_speed),
                                 theirs |-> parse_algorithms(y, their_speed)]
        BY <2>2, CryptoTopics DEF AskAlgorithms
      <3> DEFINE own == question'.mine
                 peer == question'.theirs
                 m == own.algorithm_speeds
                 t == peer.algorithm_speeds
      <3>2. m \in Lists /\ t \in Lists
        <4>1. PICK my_speed \in [DOMAIN Allowed(x) -> Speeds],
                   their_speed \in [DOMAIN Allowed(y) -> Speeds] :
                        own = parse_algorithms(x, my_speed) /\ peer = parse_algorithms(y, their_speed)
          BY <3>1
        <4>2. /\ x \in Seq(0 .. 3) /\ my_speed \in [DOMAIN Allowed(x) -> Nat]
              /\ y \in Seq(0 .. 3) /\ their_speed \in [DOMAIN Allowed(y) -> Nat]
          <5>1. Speeds \subseteq Nat /\ Names \subseteq Seq(0 .. 3)
            BY InputsAssumption, Zenon
          <5>2. ASSUME NEW D, NEW f \in [D -> Speeds] PROVE f \in [D -> Nat]
            <6>1. \A i \in D : f[i] \in Nat
              BY <5>1, Zenon
            <6>2. f = [i \in D |-> f[i]]
              BY Zenon
            <6> QED BY <6>1, <6>2, Zenon
          <5> QED BY <5>1, <5>2, Zenon
        <4> QED BY <4>1, <4>2, Parsed
      <3> HIDE DEF own, peer
      <3>3. Shared' = Both(m, t)
        BY DEF Shared, Both, own, peer
      <3>4. SameOrder' <=> \A a, b \in Best' : Place(m, a) < Place(m, b) <=> Place(t, a) < Place(t, b)
        BY DEF SameOrder, own, peer
      <3>5. CASE own.allow_unencrypted /\ peer.allow_unencrypted
        <4>1. select_algorithm(own, peer) = <<>> /\ select_algorithm(peer, own) = <<>>
          BY <3>5 DEF select_algorithm
        <4> QED BY <3>5, <4>1 DEF BothSelectSame, own, peer
      <3>6. CASE ~(own.allow_unencrypted /\ peer.allow_unencrypted)
        <4>1. SelectsWinner(own, peer, m, t) /\ SelectsWinner(peer, own, t, m)
          BY <3>2, <3>6, SelectedEntry
        <4>2. Both(t, m) = Both(m, t)
          BY DEF Both
        <4>3. CASE Both(m, t) = {}
          <5>1. select_algorithm(own, peer) = Absent /\ select_algorithm(peer, own) = Absent
            BY <4>1, <4>2, <4>3 DEF SelectsWinner
          <5> QED BY <3>3, <3>6, <4>3, <5>1 DEF BothSelectSame, own, peer
        <4>4. CASE Both(m, t) # {}
          <5> DEFINE one_speed == OneSpeed(own) /\ OneSpeed(peer)
          <5>1. select_algorithm(own, peer)[1] \in Shared'
            <6> HIDE DEF m, t
            <6> QED BY <3>3, <4>1, <4>4 DEF SelectsWinner, Winner
          <5>2. ASSUME one_speed
                PROVE  \E a \in Best' : /\ select_algorithm(own, peer) = <<a, MinimalSpeed(a)'>>
                                        /\ SameOrder' => select_algorithm(own, peer) = select_algorithm(peer, own)
            <6>1. PICK mine \in [1 .. 3 -> Nat], theirs \in [1 .. 3 -> Nat] :
                        ListOf(m, mine) /\ ListOf(t, theirs)
              BY <3>2, <5>2, ListWithSpeeds DEF OneSpeed
            <6>2. Agreed(own, peer, m, t, mine, theirs)
              BY <3>6, <4>4, <6>1, BothSelected
            <6> HIDE DEF m, t
            <6>3. \A a \in Both(m, t) : MinimalSpeed(a)' = MinimalOf(mine, theirs, a)
              <7> SUFFICES ASSUME NEW a \in Both(m, t)
                           PROVE  MinimalSpeed(a)' = MinimalOf(mine, theirs, a)
                OBVIOUS
              <7>1. Places(m, a) # {} /\ Places(t, a) # {}
                BY DEF Both
              <7>2. /\ Place(m, a) \in 1 .. Len(m) /\ m[Place(m, a)][1] = a
                    /\ Place(t, a) \in 1 .. Len(t) /\ t[Place(t, a)][1] = a
                BY <3>2, <7>1, FirstPlace
              <7>3. m[Place(m, a)][2] = mine[a] /\ t[Place(t, a)][2] = theirs[a]
                BY <6>1, <7>2, Zenon DEF ListOf
              <7>4. MinimalSpeed(a)' = Slower(m[Place(m, a)][2], t[Place(t, a)][2])
                BY DEF MinimalSpeed, m, t, own, peer
              <7> QED BY <7>3, <7>4 DEF MinimalOf
            <6>4. Best' = BestOf(m, t, mine, theirs)
              <7>1. Best' = {a \in Shared' : \A b \in Shared' : MinimalSpeed(b)' <= MinimalSpeed(a)'}
                BY DEF Best
              <7> QED BY <3>3, <6>3, <7>1 DEF BestOf
            <6>5. \A a \in Best' : a \in Both(m, t)
              BY <6>4 DEF BestOf
            <6> QED BY <3>4, <6>2, <6>3, <6>4, <6>5, Zenon DEF Agreed
          <5> DEFINE selected == select_algorithm(question.mine, question.theirs)
          <5>3. selected' = select_algorithm(own, peer)
            BY DEF own, peer
          <5>4. ASSUME one_speed
                PROVE  /\ selected'[1] \in Best' /\ selected'[2] = MinimalSpeed(selected[1])'
                       /\ SameOrder' => selected' = select_algorithm(peer, own)
            <6>1. PICK a \in Best' : /\ selected' = <<a, MinimalSpeed(a)'>>
                                     /\ SameOrder' => selected' = select_algorithm(peer, own)
              BY <5>2, <5>3, <5>4
            <6> HIDE DEF selected
            <6>2. selected'[1] = a /\ selected'[2] = MinimalSpeed(a)'
              BY <6>1
            <6>3. MinimalSpeed(selected[1])' = MinimalSpeed(a)'
              BY <6>2 DEF MinimalSpeed
            <6> QED BY <6>1, <6>2, <6>3
          <5>5. selected'[1] \in Shared' /\ Shared' # {}
            BY <3>3, <4>4, <5>1, <5>3
          <5>6. one_speed <=> (OneSpeed(question.mine) /\ OneSpeed(question.theirs))'
            BY DEF OneSpeed, own, peer
          <5>7. /\ (OneSpeed(question.mine) /\ OneSpeed(question.theirs))' =>
                        /\ selected'[1] \in Best' /\ selected'[2] = MinimalSpeed(selected[1])'
                        /\ SameOrder' => selected' = select_algorithm(question.theirs, question.mine)'
                /\ ~(question'.mine.allow_unencrypted /\ question'.theirs.allow_unencrypted)
            BY <3>6, <5>4, <5>6, Zenon DEF own, peer
          <5> HIDE DEF m, t
          <5> QED BY <5>5, <5>7, Zenon DEF BothSelectSame
        <4> QED BY <4>3, <4>4
      <3> QED BY <3>5, <3>6
    <2> QED BY <2>1, <2>2 DEF BothSelectSame, About
  <1> QED BY <1>1, <1>2, PTL DEF Questions

-----------------------------------------------------------------------------
(* Text in base 62.                                                         *)

\* Eight bits.
Octet == 0 .. 255

(* ValueOf goes through the digits once.                                    *)
LEMMA ValueRuns ==
    ASSUME NEW digits \in Seq(Nat), NEW base \in Nat
    PROVE  \E n : ValueRun(n, digits, base)
  <1> DEFINE l == Len(digits)
             U == Nat
             G == [k \in 1 .. l |-> [c \in U |-> Shifted(digits, base, c, k)]]
             IsRun(f) == f = [k \in 0 .. l |-> IF k = 0 THEN 0 ELSE Shifted(digits, base, f[k - 1], k)]
             n == CHOOSE f : IsRun(f)
  <1>1. ValueOf(digits, base) = n[l]
    BY Zenon DEF ValueOf, Shifted
  <1>2. l \in Nat /\ 0 \in U /\ \A k \in 1 .. l, c \in U : Shifted(digits, base, c, k) \in U
    BY DEF Shifted
  <1> HIDE DEF U
  <1>3. G \in [1 .. l -> [U -> U]]
    BY <1>2
  <1>4. PICK f : RunOf(f, U, 0, l, G)
    <2> HIDE DEF l, G
    <2> QED BY <1>2, <1>3, LoopRuns
  <1>5. f \in [0 .. l -> U] /\ f[0] = 0
    BY <1>4 DEF RunOf
  <1>6. ASSUME NEW k \in 1 .. l PROVE f[k] = Shifted(digits, base, f[k - 1], k)
    <2>1. f[k] = G[k][f[k - 1]] /\ k - 1 \in 0 .. l
      <3> HIDE DEF G
      <3> QED BY <1>2, <1>4 DEF RunOf
    <2>2. f[k - 1] \in U
      BY <1>5, <2>1
    <2> QED BY <2>1, <2>2
  <1> HIDE DEF l
  <1>7. IsRun(f)
    BY <1>2, <1>5, <1>6
  <1>8. IsRun(n)
    <2> HIDE DEF IsRun
    <2> QED BY <1>7
  <1> HIDE DEF n
  <1>9. n[0] = 0 /\ \A k \in 1 .. l : n[k] = Shifted(digits, base, n[k - 1], k)
    BY <1>2, <1>8
  <1>10. \A k \in 0 .. l : n[k] \in U
    BY <1>2, <1>9, Preserved, Zenon
  <1>11. n \in [0 .. l -> U]
    BY <1>8, <1>10
  <1> QED BY <1>1, <1>9, <1>11 DEF ValueRun, Shifted, U, l

\* Little-endian digits: V[j] is what those from the j-th on stand for.
Horner(V, b, base) ==
    /\ V \in [1 .. Len(b) + 1 -> Nat] /\ V[Len(b) + 1] = 0
    /\ \A j \in 1 .. Len(b) : V[j] = b[j] + base * V[j + 1]

(* The buffer of to_base62 and of from_base62 is turned round in the end.   *)
LEMMA ReversedDigits ==
    ASSUME NEW S, NEW s \in Seq(S)
    PROVE  /\ Reversed(s) \in Seq(S) /\ Len(Reversed(s)) = Len(s)
           /\ \A i \in 1 .. Len(s) : Reversed(s)[i] = s[Len(s) + 1 - i]
           /\ Reversed(Reversed(s)) = s
  <1> DEFINE l == Len(s)
             r == Reversed(s)
             q == Reversed(r)
  <1>1. l \in Nat /\ \A i \in 1 .. l : s[i] \in S
    OBVIOUS
  <1>2. /\ r \in Seq(S) /\ Len(r) = l
        /\ \A i \in 1 .. l : r[i] = s[l + 1 - i]
    BY <1>1 DEF Reversed
  <1> HIDE DEF r
  <1>3. /\ q \in Seq(S) /\ Len(q) = l
        /\ \A i \in 1 .. l : q[i] = r[l + 1 - i]
    BY <1>2 DEF Reversed
  <1>4. \A i \in 1 .. l : q[i] = s[i]
    BY <1>2, <1>3
  <1> HIDE DEF q
  <1>5. q = s
    BY <1>3, <1>4, SeqEqual
  <1> QED BY <1>2, <1>5 DEF q, r

(* From either end, digits stand for the same number.                       *)
LEMMA HornerValue ==
    ASSUME NEW base \in Nat, NEW b \in Seq(Nat), NEW V, Horner(V, b, base)
    PROVE  ValueOf(Reversed(b), base) = V[1]
  <1> DEFINE r == Reversed(b)
             l == Len(b)
  <1>1. r \in Seq(Nat) /\ Len(r) = l /\ \A i \in 1 .. l : r[i] = b[l + 1 - i]
    BY ReversedDigits
  <1>2. PICK n : ValueRun(n, r, base)
    BY <1>1, ValueRuns
  <1> HIDE DEF r, l
  <1>3. /\ n[0] = 0 /\ ValueOf(r, base) = n[l] /\ l \in Nat
        /\ \A i \in 1 .. l : n[i] = n[i - 1] * base + r[i]
    BY <1>1, <1>2 DEF ValueRun, l
  <1> DEFINE S == {k \in 0 .. l : n[k] = V[l + 1 - k]}
  <1>4. 0 \in S
    BY <1>3 DEF Horner, l
  <1>5. ASSUME NEW k \in 1 .. l, k - 1 \in S PROVE k \in S
    <2> DEFINE j == l + 1 - k
    <2>1. j \in 1 .. l /\ n[k - 1] = V[j + 1]
      BY <1>3, <1>5
    <2>2. V[j] = b[j] + base * V[j + 1] /\ V[j + 1] \in Nat /\ b[j] \in Nat
      <3>1. j + 1 \in 1 .. l + 1
        BY <1>3, <2>1
      <3> HIDE DEF j
      <3>2. V \in [1 .. l + 1 -> Nat] /\ b \in Seq(Nat)
        BY DEF Horner, l
      <3>3. V[j] = b[j] + base * V[j + 1]
        BY <2>1, Zenon DEF Horner, l
      <3>4. V[j + 1] \in Nat
        BY <3>1, <3>2, Zenon
      <3>5. b[j] \in Nat
        BY <2>1, <3>2 DEF l
      <3> QED BY <3>3, <3>4, <3>5, Zenon
    <2>3. n[k] = n[k - 1] * base + b[j]
      BY <1>1, <1>3, <2>1
    <2> HIDE DEF j
    <2>4. n[k] = V[j]
      BY <2>1, <2>2, <2>3
    <2> QED BY <2>4 DEF j
  <1>6. l \in S
    <2> HIDE DEF S
    <2>1. 0 .. l \subseteq S
      BY <1>3, <1>4, <1>5, EveryRound, Zenon
    <2> QED BY <1>3, <2>1
  <1> QED BY <1>3, <1>6 DEF r

\* The digits of a base, and the bases and factors of the two conversions.
Digit(base) == 0 .. base - 1
Conversion(base, factor) == (base = 62 /\ factor = 16) \/ (base = 256 /\ factor = 62)

\* An item of the buffer, and what is carried on from it.
Sum(b, factor, c, k) == c + b[k] * factor
Carried(b, base, factor, c, k) == Sum(b, factor, c, k) \div base

(* A round of the loop: the digit fits, the carry is less than the factor,  *)
(* and neither is lost.                                                     *)
LEMMA Carry ==
    ASSUME NEW base, NEW factor, Conversion(base, factor), NEW b \in Seq(Digit(base)),
           NEW k \in 1 .. Len(b), NEW c \in Digit(factor)
    PROVE  /\ Carried(b, base, factor, c, k) \in Digit(factor)
           /\ Sum(b, factor, c, k) % base \in Digit(base)
           /\ c + b[k] * factor = (Sum(b, factor, c, k) % base) + base * Carried(b, base, factor, c, k)
           /\ Carried(b, base, factor, c, k) = 0 /\ b[k] # 0 => Sum(b, factor, c, k) % base # 0
  <1> DEFINE x == b[k]
  <1>1. x \in Digit(base)
    OBVIOUS
  <1> HIDE DEF x
  <1>2. CASE base = 62 /\ factor = 16
    <2> DEFINE q == (c + x * 16) \div 62
               r == (c + x * 16) % 62
    <2>1. x \in 0 .. 61 /\ c \in 0 .. 15
      BY <1>1, <1>2 DEF Digit
    <2>2. /\ q \in 0 .. 15 /\ r \in 0 .. 61 /\ c + x * 16 = r + 62 * q
          /\ q = 0 /\ x # 0 => r # 0
      BY <2>1, SMT
    <2>3. Carried(b, base, factor, c, k) = q /\ Sum(b, factor, c, k) % base = r
      BY <1>2, Zenon DEF Sum, Carried, x
    <2> HIDE DEF q, r
    <2>4. q \in Digit(factor) /\ r \in Digit(base) /\ c + x * factor = r + base * q
      BY <1>2, <2>2 DEF Digit
    <2> QED BY <2>2, <2>3, <2>4, Zenon DEF x
  <1>3. CASE base = 256 /\ factor = 62
    <2> DEFINE q == (c + x * 62) \div 256
               r == (c + x * 62) % 256
    <2>1. x \in 0 .. 255 /\ c \in 0 .. 61
      BY <1>1, <1>3 DEF Digit
    <2>2. /\ q \in 0 .. 61 /\ r \in 0 .. 255 /\ c + x * 62 = r + 256 * q
          /\ q = 0 /\ x # 0 => r # 0
      BY <2>1, SMT
    <2>3. Carried(b, base, factor, c, k) = q /\ Sum(b, factor, c, k) % base = r
      BY <1>3, Zenon DEF Sum, Carried, x
    <2> HIDE DEF q, r
    <2>4. q \in Digit(factor) /\ r \in Digit(base) /\ c + x * factor = r + base * q
      BY <1>3, <2>2 DEF Digit
    <2> QED BY <2>2, <2>3, <2>4, Zenon DEF x
  <1> QED BY <1>2, <1>3 DEF Conversion

\* The run of the loop of MultAdd, and its result.
MultAddRun(d, b, base, factor, digit) ==
    LET n == Len(b)
        items == [i \in 1 .. n |-> Sum(b, factor, d[i - 1], i) % base]
    IN  /\ d \in [0 .. n -> Digit(factor)] /\ d[0] = digit
        /\ \A i \in 1 .. n : d[i] = Carried(b, base, factor, d[i - 1], i)
        /\ MultAdd(b, base, factor, digit) = IF d[n] > 0 THEN Append(items, d[n]) ELSE items

(* MultAdd goes through the buffer once.                                    *)
LEMMA MultAddRuns ==
    ASSUME NEW base, NEW factor, Conversion(base, factor), NEW b \in Seq(Digit(base)),
           NEW digit \in Digit(factor)
    PROVE  \E d : MultAddRun(d, b, base, factor, digit)
  <1> DEFINE l == Len(b)
             U == Digit(factor)
             G == [k \in 1 .. l |-> [c \in U |-> Carried(b, base, factor, c, k)]]
             IsRun(f) == f = [k \in 0 .. l |-> IF k = 0 THEN digit
                                               ELSE Carried(b, base, factor, f[k - 1], k)]
             d == CHOOSE f : IsRun(f)
             items == [i \in 1 .. l |-> Sum(b, factor, d[i - 1], i) % base]
  <1>1. MultAdd(b, base, factor, digit) = IF d[l] > 0 THEN Append(items, d[l]) ELSE items
    BY Zenon DEF MultAdd, Carried, Sum
  <1>2. l \in Nat /\ digit \in U
    OBVIOUS
  <1>3. \A k \in 1 .. l, c \in U : Carried(b, base, factor, c, k) \in U
    BY Carry
  <1> HIDE DEF U
  <1>4. G \in [1 .. l -> [U -> U]]
    BY <1>3
  <1>5. PICK f : RunOf(f, U, digit, l, G)
    <2> HIDE DEF l, G
    <2> QED BY <1>2, <1>4, LoopRuns
  <1>6. f \in [0 .. l -> U] /\ f[0] = digit
    BY <1>5 DEF RunOf
  <1>7. ASSUME NEW k \in 1 .. l PROVE f[k] = Carried(b, base, factor, f[k - 1], k)
    <2>1. f[k] = G[k][f[k - 1]] /\ k - 1 \in 0 .. l
      <3> HIDE DEF G
      <3> QED BY <1>2, <1>5 DEF RunOf
    <2>2. f[k - 1] \in U
      BY <1>6, <2>1
    <2> QED BY <2>1, <2>2
  <1> HIDE DEF l
  <1>8. IsRun(f)
    BY <1>2, <1>6, <1>7
  <1>9. IsRun(d)
    <2> HIDE DEF IsRun
    <2> QED BY <1>8
  <1> HIDE DEF d
  <1>10. d[0] = digit /\ \A k \in 1 .. l : d[k] = Carried(b, base, factor, d[k - 1], k)
    BY <1>2, <1>9
  <1>11. \A k \in 0 .. l : d[k] \in U
    BY <1>2, <1>3, <1>10, Preserved, Zenon
  <1>12. d \in [0 .. l -> U]
    BY <1>9, <1>11
  <1>13. MultAddRun(d, b, base, factor, digit)
    BY <1>1, <1>10, <1>12 DEF MultAddRun, U, l
  <1> QED BY <1>13

\* A buffer stands for a number and has no more digits than needed.
Number(b, base, v) ==
    /\ b \in Seq(Digit(base)) /\ (Len(b) > 0 => b[Len(b)] # 0)
    /\ \E V : Horner(V, b, base) /\ V[1] = v

(* What a digit, the carry and the rest of the buffer add up to.            *)
LEMMA HornerStep ==
    ASSUME NEW base, NEW factor, Conversion(base, factor), NEW v \in Nat,
           NEW x \in Nat, NEW y \in Nat, NEW c \in Nat, NEW d \in Nat,
           c + x * factor = y + base * d
    PROVE  factor * (x + base * v) + c = y + base * (factor * v + d)
  <1>1. CASE base = 62 /\ factor = 16
    <2>1. c + x * 16 = y + 62 * d
      BY <1>1
    <2>2. 16 * (x + 62 * v) + c = y + 62 * (16 * v + d)
      BY <2>1, SMT
    <2> QED BY <1>1, <2>2
  <1>2. CASE base = 256 /\ factor = 62
    <2>1. c + x * 62 = y + 256 * d
      BY <1>2
    <2>2. 62 * (x + 256 * v) + c = y + 256 * (62 * v + d)
      BY <2>1, SMT
    <2> QED BY <1>2, <2>2
  <1> QED BY <1>1, <1>2 DEF Conversion

(* The digits of both conversions are numbers.                              *)
LEMMA DigitsAre ==
    ASSUME NEW base, NEW factor, Conversion(base, factor)
    PROVE  /\ base \in Nat /\ factor \in Nat
           /\ Digit(factor) \subseteq Digit(base) /\ Digit(base) \subseteq Nat
  BY DEF Conversion, Digit

(* What MultAdd leaves in the buffer.                                       *)
LEMMA MultAddItems ==
    ASSUME NEW base, NEW factor, Conversion(base, factor), NEW b \in Seq(Digit(base)),
           NEW digit, NEW d, MultAddRun(d, b, base, factor, digit)
    PROVE  LET n == Len(b)
               e == MultAdd(b, base, factor, digit)
           IN  /\ e \in Seq(Digit(base))
               /\ Len(e) = IF d[n] > 0 THEN n + 1 ELSE n
               /\ d[n] > 0 => e[n + 1] = d[n]
               /\ \A i \in 1 .. n : e[i] = Sum(b, factor, d[i - 1], i) % base
  <1> DEFINE n == Len(b)
             e == MultAdd(b, base, factor, digit)
             items == [i \in 1 .. n |-> Sum(b, factor, d[i - 1], i) % base]
             D == Digit(base)
  <1>1. n \in Nat /\ d[n] \in Digit(factor) /\ d[n] \in D
    BY DigitsAre DEF MultAddRun
  <1>2. e = IF d[n] > 0 THEN Append(items, d[n]) ELSE items
    BY DEF MultAddRun
  <1>3. \A i \in 1 .. n : Sum(b, factor, d[i - 1], i) % base \in D
    <2> SUFFICES ASSUME NEW i \in 1 .. n PROVE Sum(b, factor, d[i - 1], i) % base \in D
      OBVIOUS
    <2>1. d[i - 1] \in Digit(factor)
      BY DEF MultAddRun
    <2> QED BY <2>1, Carry
  <1> HIDE DEF D, e, n
  <1>4. /\ items \in Seq(D) /\ Len(items) = n
        /\ \A i \in 1 .. n : items[i] = Sum(b, factor, d[i - 1], i) % base
    BY <1>1, <1>3
  <1> HIDE DEF items
  <1>5. CASE d[n] > 0
    <2>1. e = Append(items, d[n])
      BY <1>2, <1>5
    <2>2. e \in Seq(D) /\ Len(e) = n + 1 /\ e[n + 1] = d[n] /\ \A i \in 1 .. n : e[i] = items[i]
      BY <1>1, <1>4, <2>1
    <2> QED BY <1>4, <1>5, <2>2 DEF D, e, n
  <1>6. CASE ~(d[n] > 0)
    BY <1>2, <1>4, <1>6 DEF D, e, n
  <1> QED BY <1>5, <1>6

(* MultAdd multiplies the number in the buffer and adds the digit; the      *)
(* buffer grows by at most one place and the last place is not 0.           *)
LEMMA MultAddNumber ==
    ASSUME NEW base, NEW factor, Conversion(base, factor), NEW b, NEW v \in Nat,
           Number(b, base, v), NEW digit \in Digit(factor)
    PROVE  /\ Number(MultAdd(b, base, factor, digit), base, factor * v + digit)
           /\ Len(MultAdd(b, base, factor, digit)) <= Len(b) + 1
  <1> DEFINE n == Len(b)
             e == MultAdd(b, base, factor, digit)
  <1>1. b \in Seq(Digit(base)) /\ (n > 0 => b[n] # 0) /\ n \in Nat
    BY DEF Number
  <1>2. PICK V : Horner(V, b, base) /\ V[1] = v
    BY DEF Number
  <1>3. PICK d : MultAddRun(d, b, base, factor, digit)
    BY <1>1, MultAddRuns
  <1>4. /\ e \in Seq(Digit(base)) /\ Len(e) = IF d[n] > 0 THEN n + 1 ELSE n
        /\ d[n] > 0 => e[n + 1] = d[n]
        /\ \A i \in 1 .. n : e[i] = Sum(b, factor, d[i - 1], i) % base
    BY <1>1, <1>3, MultAddItems
  <1>5. base \in Nat /\ factor \in Nat /\ Digit(factor) \subseteq Nat /\ Digit(base) \subseteq Nat
    BY DigitsAre, Zenon
  <1> HIDE DEF n, e
  <1>6. /\ d[0] = digit /\ \A i \in 0 .. n : d[i] \in Digit(factor) /\ d[i] \in Nat
        /\ \A i \in 1 .. n : d[i] = Carried(b, base, factor, d[i - 1], i)
    <2>1. d \in [0 .. n -> Digit(factor)]
      BY <1>3, Zenon DEF MultAddRun, n
    <2>2. d[0] = digit /\ \A i \in 1 .. n : d[i] = Carried(b, base, factor, d[i - 1], i)
      BY <1>3, Zenon DEF MultAddRun, n
    <2> QED BY <1>5, <2>1, <2>2, Zenon
  <1>7. ASSUME NEW i \in 1 .. n
        PROVE  /\ d[i - 1] + b[i] * factor = e[i] + base * d[i]
               /\ d[i - 1] \in Nat /\ d[i] \in Nat /\ b[i] \in Nat /\ e[i] \in Nat
               /\ d[i] = 0 /\ b[i] # 0 => e[i] # 0
    <2>1. i - 1 \in 0 .. n /\ i \in 0 .. n /\ i \in 1 .. Len(b) /\ i \in 1 .. Len(e)
      BY <1>1, <1>4 DEF n
    <2>2. d[i - 1] \in Digit(factor) /\ d[i - 1] \in Nat /\ d[i] \in Nat
      BY <1>6, <2>1, Zenon
    <2>3. b[i] \in Nat
      BY <1>1, <1>5, <2>1
    <2>4. e[i] \in Nat
      BY <1>4, <1>5, <2>1
    <2>5. e[i] = Sum(b, factor, d[i - 1], i) % base /\ d[i] = Carried(b, base, factor, d[i - 1], i)
      BY <1>4, <1>6
    <2>6. /\ d[i - 1] + b[i] * factor = (Sum(b, factor, d[i - 1], i) % base)
                                            + base * Carried(b, base, factor, d[i - 1], i)
          /\ Carried(b, base, factor, d[i - 1], i) = 0 /\ b[i] # 0
                => Sum(b, factor, d[i - 1], i) % base # 0
      BY <1>1, <2>1, <2>2, Carry
    <2> QED BY <2>2, <2>3, <2>4, <2>5, <2>6, Zenon
  <1>8. /\ V \in [1 .. n + 1 -> Nat] /\ V[n + 1] = 0
        /\ \A j \in 1 .. n : V[j] = b[j] + base * V[j + 1]
    BY <1>2, Zenon DEF Horner, n
  <1> DEFINE W == [j \in 1 .. Len(e) + 1 |-> IF j <= n + 1 THEN factor * V[j] + d[j - 1] ELSE 0]
  <1>9. \A j \in 1 .. n + 1 : /\ j \in 1 .. Len(e) + 1
                              /\ W[j] = factor * V[j] + d[j - 1] /\ W[j] \in Nat
    <2> SUFFICES ASSUME NEW j \in 1 .. n + 1
                 PROVE  /\ j \in 1 .. Len(e) + 1
                        /\ W[j] = factor * V[j] + d[j - 1] /\ W[j] \in Nat
      BY Zenon
    <2>1. j \in 1 .. Len(e) + 1 /\ j - 1 \in 0 .. n
      BY <1>1, <1>4
    <2>2. V[j] \in Nat /\ d[j - 1] \in Nat
      BY <1>6, <1>8, <2>1, Zenon
    <2>3. W[j] = factor * V[j] + d[j - 1]
      BY <1>1, <2>1
    <2>4. factor * V[j] + d[j - 1] \in Nat
      BY <1>5, <2>2
    <2> QED BY <2>1, <2>3, <2>4, Zenon
  <1>10. Len(e) = n + 1 => W[n + 2] = 0 /\ n + 2 \in 1 .. Len(e) + 1
    BY <1>1
  <1>11. W[n + 1] = d[n] /\ d[n] \in Nat
    <2>1. n + 1 \in 1 .. n + 1 /\ n \in 0 .. n /\ (n + 1) - 1 = n
      BY <1>1
    <2>2. W[n + 1] = factor * V[n + 1] + d[(n + 1) - 1]
      BY <1>9, <2>1, Zenon
    <2>3. d[n] \in Nat
      BY <1>6, <2>1, Zenon
    <2> QED BY <1>5, <1>8, <2>1, <2>2, <2>3
  <1>12. \A j \in 1 .. Len(e) + 1 : W[j] \in Nat
    <2>1. CASE Len(e) = n
      BY <1>9, <2>1
    <2>2. CASE Len(e) = n + 1
      <3>1. \A j \in 1 .. Len(e) + 1 : j \in 1 .. n + 1 \/ j = n + 2
        BY <1>1, <2>2
      <3> HIDE DEF W
      <3> QED BY <1>9, <1>10, <2>2, <3>1
    <2> QED BY <1>4, <2>1, <2>2, Zenon
  <1>13. DOMAIN W = 1 .. Len(e) + 1 /\ W \in [1 .. Len(e) + 1 -> Nat]
    BY <1>12
  <1> HIDE DEF W
  <1>14. W[Len(e) + 1] = 0
    <2>1. CASE d[n] > 0
      BY <1>1, <1>4, <1>10, <2>1
    <2>2. CASE ~(d[n] > 0)
      BY <1>1, <1>4, <1>11, <2>2
    <2> QED BY <2>1, <2>2
  <1>15. ASSUME NEW j \in 1 .. Len(e) PROVE W[j] = e[j] + base * W[j + 1]
    <2>1. CASE j <= n
      <3>1. j \in 1 .. n /\ j \in 1 .. n + 1 /\ j + 1 \in 1 .. n + 1 /\ (j + 1) - 1 = j
        BY <1>1, <1>4, <2>1
      <3>2. W[j] = factor * V[j] + d[j - 1]
        BY <1>9, <3>1, Zenon
      <3>3. W[j + 1] = factor * V[j + 1] + d[j]
        BY <1>9, <3>1
      <3>4. V[j] = b[j] + base * V[j + 1] /\ V[j + 1] \in Nat
        BY <1>8, <3>1, Zenon
      <3>5. factor * (b[j] + base * V[j + 1]) + d[j - 1] = e[j] + base * (factor * V[j + 1] + d[j])
        <4>1. /\ d[j - 1] + b[j] * factor = e[j] + base * d[j]
              /\ d[j - 1] \in Nat /\ d[j] \in Nat /\ b[j] \in Nat /\ e[j] \in Nat
          BY <1>7, <3>1, Zenon
        <4> DEFINE x == b[j]
                   y == e[j]
                   c == d[j - 1]
                   r == d[j]
                   u == V[j + 1]
        <4>2. x \in Nat /\ y \in Nat /\ c \in Nat /\ r \in Nat /\ u \in Nat
          BY <3>4, <4>1, Zenon
        <4>3. c + x * factor = y + base * r
          BY <4>1, Zenon
        <4> HIDE DEF x, y, c, r, u
        <4>4. factor * (x + base * u) + c = y + base * (factor * u + r)
          BY <4>2, <4>3, HornerStep
        <4> QED BY <4>4 DEF x, y, c, r, u
      <3> QED BY <3>2, <3>3, <3>4, <3>5, Zenon
    <2>2. CASE ~(j <= n)
      <3>1. j = n + 1 /\ Len(e) = n + 1 /\ d[n] > 0 /\ j + 1 = n + 2
        BY <1>1, <1>4, <2>2
      <3>2. W[j] = d[n] /\ e[j] = d[n] /\ W[j + 1] = 0
        BY <1>4, <1>10, <1>11, <3>1
      <3> QED BY <1>5, <1>11, <3>2
    <2> QED BY <2>1, <2>2
  <1>16. Horner(W, e, base)
    BY <1>13, <1>14, <1>15, Zenon DEF Horner
  <1>17. W[1] = factor * v + digit
    <2>1. 1 \in 1 .. n + 1 /\ 1 - 1 = 0
      BY <1>1
    <2>2. W[1] = factor * V[1] + d[1 - 1]
      BY <1>9, <2>1, Zenon
    <2> QED BY <1>2, <1>6, <2>1, <2>2
  <1>18. Len(e) > 0 => e[Len(e)] # 0
    <2>1. CASE d[n] > 0
      BY <1>4, <2>1
    <2>2. CASE ~(d[n] > 0) /\ n > 0
      <3>1. n \in 1 .. n /\ d[n] = 0 /\ b[n] # 0 /\ Len(e) = n
        BY <1>1, <1>4, <1>11, <2>2
      <3> QED BY <1>7, <3>1
    <2>3. CASE ~(d[n] > 0) /\ ~(n > 0)
      BY <1>1, <1>4, <2>3
    <2> QED BY <2>1, <2>2, <2>3
  <1>19. Number(e, base, factor * v + digit)
    BY <1>4, <1>16, <1>17, <1>18, Zenon DEF Number
  <1>20. Len(e) <= n + 1
    BY <1>1, <1>4
  <1> QED BY <1>19, <1>20 DEF e, n

(* A buffer without leading 0 stands for more than 0 in every place.        *)
LEMMA PositiveBelow ==
    ASSUME NEW base \in Nat \ {0}, NEW b \in Seq(Nat), NEW V, Horner(V, b, base),
           Len(b) > 0 => b[Len(b)] # 0
    PROVE  \A j \in 1 .. Len(b) : V[j] > 0
  <1> DEFINE n == Len(b)
             S == {k \in 0 .. n : k > 0 => V[n + 1 - k] > 0}
  <1>1. n \in Nat /\ (n > 0 => b[n] # 0) /\ \A j \in 1 .. n : b[j] \in Nat
    OBVIOUS
  <1>2. /\ V[n + 1] = 0 /\ \A j \in 1 .. n + 1 : V[j] \in Nat
        /\ \A j \in 1 .. n : V[j] = b[j] + base * V[j + 1]
    BY Zenon DEF Horner
  <1> HIDE DEF n
  <1>3. 0 \in S
    BY <1>1
  <1>4. ASSUME NEW k \in 1 .. n, k - 1 \in S PROVE k \in S
    <2> DEFINE j == n + 1 - k
    <2>1. j \in 1 .. n /\ j + 1 \in 1 .. n + 1 /\ j + 1 = n + 1 - (k - 1) /\ (k = 1 => j = n)
      BY <1>1
    <2> HIDE DEF j
    <2>2. V[j] = b[j] + base * V[j + 1] /\ V[j + 1] \in Nat /\ b[j] \in Nat
      BY <1>1, <1>2, <2>1, Zenon
    <2>3. V[j] > 0
      <3>1. CASE k = 1
        <4>1. b[j] # 0 /\ V[j + 1] = 0
          BY <1>1, <1>2, <2>1, <3>1
        <4> QED BY <2>2, <4>1
      <3>2. CASE k # 1
        <4>1. V[j + 1] > 0
          BY <1>1, <1>4, <2>1, <3>2
        <4> DEFINE u == base * V[j + 1]
        <4>2. u \in Nat /\ u > 0 /\ V[j] = b[j] + u
          BY <2>2, <4>1
        <4> HIDE DEF u
        <4> QED BY <2>2, <4>2
      <3> QED BY <3>1, <3>2
    <2> QED BY <2>3 DEF j
  <1>5. 0 .. n \subseteq S
    <2> HIDE DEF S
    <2> QED BY <1>1, <1>3, <1>4, EveryRound, Zenon
  <1> SUFFICES ASSUME NEW j \in 1 .. n PROVE V[j] > 0
    BY DEF n
  <1>6. n + 1 - j \in 1 .. n /\ n + 1 - (n + 1 - j) = j
    BY <1>1
  <1> QED BY <1>5, <1>6

(* The last digit of a number and the rest of it are unique.                *)
LEMMA SameDigit ==
    ASSUME NEW base, NEW factor, Conversion(base, factor), NEW x \in Digit(base),
           NEW y \in Digit(base), NEW u \in Nat, NEW v \in Nat, x + base * u = y + base * v
    PROVE  x = y /\ u = v
  <1>1. CASE base = 62
    <2>1. x \in 0 .. 61 /\ y \in 0 .. 61 /\ x + 62 * u = y + 62 * v
      BY <1>1 DEF Digit
    <2> QED BY <2>1, SMT
  <1>2. CASE base = 256
    <2>1. x \in 0 .. 255 /\ y \in 0 .. 255 /\ x + 256 * u = y + 256 * v
      BY <1>2 DEF Digit
    <2> QED BY <2>1, SMT
  <1> QED BY <1>1, <1>2 DEF Conversion

(* A number has one buffer, of which the shorter of two would be a part.    *)
LEMMA SameItems ==
    ASSUME NEW base, NEW factor, Conversion(base, factor),
           NEW b \in Seq(Digit(base)), NEW c \in Seq(Digit(base)), Len(b) <= Len(c),
           Len(c) > 0 => c[Len(c)] # 0,
           NEW V, NEW W, Horner(V, b, base), Horner(W, c, base), V[1] = W[1]
    PROVE  b = c
  <1> DEFINE n == Len(b)
             m == Len(c)
             S == {k \in 0 .. n : V[k + 1] = W[k + 1]}
  <1>1. n \in Nat /\ m \in Nat /\ n <= m
    OBVIOUS
  <1>2. base \in Nat /\ Digit(base) \subseteq Nat /\ base # 0
    <2>1. base # 0
      BY DEF Conversion
    <2> QED BY <2>1, DigitsAre
  <1>3. /\ V[n + 1] = 0 /\ \A j \in 1 .. n + 1 : V[j] \in Nat
        /\ \A j \in 1 .. n : V[j] = b[j] + base * V[j + 1]
    BY Zenon DEF Horner
  <1>4. /\ \A j \in 1 .. m + 1 : W[j] \in Nat
        /\ \A j \in 1 .. m : W[j] = c[j] + base * W[j + 1]
    BY Zenon DEF Horner
  <1>5. /\ \A j \in 1 .. n : b[j] \in Digit(base)
        /\ \A j \in 1 .. m : c[j] \in Digit(base)
    OBVIOUS
  <1>6. c \in Seq(Nat)
    BY <1>1, <1>2, <1>5, SeqDef
  <1> HIDE DEF n, m
  <1>7. ASSUME NEW k \in 1 .. n, V[k] = W[k] PROVE b[k] = c[k] /\ V[k + 1] = W[k + 1]
    <2>1. k \in 1 .. m /\ k + 1 \in 1 .. n + 1 /\ k + 1 \in 1 .. m + 1
      BY <1>1
    <2>2. V[k] = b[k] + base * V[k + 1] /\ W[k] = c[k] + base * W[k + 1]
      BY <1>3, <1>4, <2>1, Zenon
    <2>3. /\ b[k] \in Digit(base) /\ c[k] \in Digit(base)
          /\ V[k + 1] \in Nat /\ W[k + 1] \in Nat
      BY <1>3, <1>4, <1>5, <2>1, Zenon
    <2>4. b[k] + base * V[k + 1] = c[k] + base * W[k + 1]
      BY <1>7, <2>2, Zenon
    <2> DEFINE x == b[k]
               y == c[k]
               u == V[k + 1]
               v == W[k + 1]
    <2>5. x \in Digit(base) /\ y \in Digit(base) /\ u \in Nat /\ v \in Nat
      BY <2>3, Zenon
    <2>6. x + base * u = y + base * v
      BY <2>4, Zenon
    <2> HIDE DEF x, y, u, v
    <2>7. x = y /\ u = v
      BY <2>5, <2>6, SameDigit
    <2> QED BY <2>7 DEF x, y, u, v
  <1>8. 0 .. n \subseteq S
    <2>1. 0 \in S
      BY <1>1
    <2>2. ASSUME NEW k \in 1 .. n, k - 1 \in S PROVE k \in S
      <3>1. V[k] = W[k]
        BY <2>2
      <3> QED BY <1>7, <3>1
    <2> HIDE DEF S
    <2> QED BY <1>1, <2>1, <2>2, EveryRound
  <1>9. ~(n < m)
    <2> SUFFICES ASSUME n < m PROVE FALSE
      OBVIOUS
    <2>1. n + 1 \in 1 .. m /\ n \in 0 .. n
      BY <1>1
    <2>2. W[n + 1] > 0
      BY <1>2, <1>6, <2>1, PositiveBelow DEF m
    <2>3. V[n + 1] = W[n + 1]
      BY <1>8, <2>1
    <2> QED BY <1>3, <2>2, <2>3
  <1>10. \A k \in 1 .. n : b[k] = c[k]
    <2> SUFFICES ASSUME NEW k \in 1 .. n PROVE b[k] = c[k]
      OBVIOUS
    <2>1. k - 1 \in S
      BY <1>1, <1>8
    <2>2. V[k] = W[k]
      BY <2>1
    <2> QED BY <1>7, <2>2
  <1> QED BY <1>1, <1>9, <1>10, SeqEqual DEF n, m

(* A number has one buffer.                                                 *)
LEMMA SameBuffer ==
    ASSUME NEW base, NEW factor, Conversion(base, factor), NEW b, NEW c, NEW v,
           Number(b, base, v), Number(c, base, v)
    PROVE  b = c
  <1>1. PICK V : Horner(V, b, base) /\ V[1] = v
    BY DEF Number
  <1>2. PICK W : Horner(W, c, base) /\ W[1] = v
    BY DEF Number
  <1>3. /\ b \in Seq(Digit(base)) /\ (Len(b) > 0 => b[Len(b)] # 0)
        /\ c \in Seq(Digit(base)) /\ (Len(c) > 0 => c[Len(c)] # 0)
    BY DEF Number
  <1>4. Len(b) <= Len(c) \/ Len(c) <= Len(b)
    BY <1>3
  <1>5. V[1] = W[1]
    BY <1>1, <1>2
  <1>6. CASE Len(b) <= Len(c)
    BY <1>1, <1>2, <1>3, <1>5, <1>6, SameItems
  <1>7. CASE Len(c) <= Len(b)
    BY <1>1, <1>2, <1>3, <1>5, <1>7, SameItems
  <1> QED BY <1>4, <1>6, <1>7

(* MultAdd keeps digits of the base in the buffer.                          *)
LEMMA MultAddDigits ==
    ASSUME NEW base, NEW factor, Conversion(base, factor), NEW b \in Seq(Digit(base)),
           NEW digit \in Digit(factor)
    PROVE  MultAdd(b, base, factor, digit) \in Seq(Digit(base))
  <1>1. PICK d : MultAddRun(d, b, base, factor, digit)
    BY MultAddRuns
  <1> QED BY <1>1, MultAddItems

\* Two hexadecimal digits of a byte.
AddByte(b, data, k) ==
    base62_add_mult_16(base62_add_mult_16(b, data[k] \div 16), data[k] % 16)

\* The buffer of to_base62 in its rounds.
TextRun(buf, data) ==
    /\ buf[0] = <<>> /\ \A k \in 1 .. Len(data) : buf[k] = AddByte(buf[k - 1], data, k)
    /\ to_base62(data) = Reversed(buf[Len(data)])

(* Half of a byte is less than 16.                                          *)
LEMMA Halves ==
    ASSUME NEW data \in Seq(Octet), NEW k \in 1 .. Len(data)
    PROVE  /\ data[k] \div 16 \in Digit(16) /\ data[k] % 16 \in Digit(16) /\ data[k] \in Nat
           /\ \A v \in Nat : 16 * (16 * v + (data[k] \div 16)) + (data[k] % 16) = v * 256 + data[k]
  <1> DEFINE x == data[k]
  <1>1. x \in Octet
    OBVIOUS
  <1> HIDE DEF x
  <1>2. x \in 0 .. 255
    BY <1>1 DEF Octet
  <1>3. /\ x \div 16 \in 0 .. 15 /\ x % 16 \in 0 .. 15 /\ x \in Nat
        /\ \A v \in Nat : 16 * (16 * v + (x \div 16)) + (x % 16) = v * 256 + x
    BY <1>2, SMT
  <1> QED BY <1>3 DEF x, Digit

(* to_base62 goes through the data once.                                    *)
LEMMA TextRuns ==
    ASSUME NEW data \in Seq(Octet)
    PROVE  \E buf : TextRun(buf, data)
  <1> DEFINE l == Len(data)
             U == Seq(Digit(62))
             G == [k \in 1 .. l |-> [b \in U |-> AddByte(b, data, k)]]
             IsRun(f) == f = [k \in 0 .. l |-> IF k = 0 THEN <<>> ELSE AddByte(f[k - 1], data, k)]
             buf == CHOOSE f : IsRun(f)
  <1>1. to_base62(data) = Reversed(buf[l])
    BY Zenon DEF to_base62, AddByte
  <1>2. l \in Nat /\ <<>> \in U
    OBVIOUS
  <1>3. ASSUME NEW k \in 1 .. l, NEW b \in U PROVE AddByte(b, data, k) \in U
    <2>1. Conversion(62, 16) /\ data[k] \div 16 \in Digit(16) /\ data[k] % 16 \in Digit(16)
      BY Halves DEF Conversion
    <2>2. MultAdd(b, 62, 16, data[k] \div 16) \in U
      BY <2>1, MultAddDigits
    <2>3. MultAdd(MultAdd(b, 62, 16, data[k] \div 16), 62, 16, data[k] % 16) \in U
      BY <2>1, <2>2, MultAddDigits
    <2> QED BY <2>3 DEF AddByte, base62_add_mult_16
  <1> HIDE DEF U
  <1>4. G \in [1 .. l -> [U -> U]]
    BY <1>3
  <1>5. PICK f : RunOf(f, U, <<>>, l, G)
    <2> HIDE DEF l, G
    <2> QED BY <1>2, <1>4, LoopRuns
  <1>6. f \in [0 .. l -> U] /\ f[0] = <<>>
    BY <1>5 DEF RunOf
  <1>7. ASSUME NEW k \in 1 .. l PROVE f[k] = AddByte(f[k - 1], data, k)
    <2>1. f[k] = G[k][f[k - 1]] /\ k - 1 \in 0 .. l
      <3> HIDE DEF G
      <3> QED BY <1>2, <1>5 DEF RunOf
    <2>2. f[k - 1] \in U
      BY <1>6, <2>1
    <2> QED BY <2>1, <2>2
  <1> HIDE DEF l
  <1>8. IsRun(f)
    BY <1>2, <1>6, <1>7
  <1>9. IsRun(buf)
    <2> HIDE DEF IsRun
    <2> QED BY <1>8
  <1> HIDE DEF buf
  <1>10. buf[0] = <<>> /\ \A k \in 1 .. l : buf[k] = AddByte(buf[k - 1], data, k)
    BY <1>2, <1>9
  <1>11. TextRun(buf, data)
    BY <1>1, <1>10 DEF TextRun, l
  <1> QED BY <1>11

\* The buffer of from_base62 in its rounds.
BytesRun(buf, text) ==
    /\ buf[0] = <<>>
    /\ \A k \in 1 .. Len(text) : buf[k] = MultAdd(buf[k - 1], 256, 62, text[k])
    /\ from_base62(text) = Reversed(buf[Len(text)])

(* from_base62 goes through the text once.                                  *)
LEMMA BytesRuns ==
    ASSUME NEW text \in Seq(Digit(62))
    PROVE  \E buf : BytesRun(buf, text)
  <1> DEFINE l == Len(text)
             U == Seq(Digit(256))
             G == [k \in 1 .. l |-> [b \in U |-> MultAdd(b, 256, 62, text[k])]]
             IsRun(f) == f = [k \in 0 .. l |-> IF k = 0 THEN <<>>
                                               ELSE MultAdd(f[k - 1], 256, 62, text[k])]
             buf == CHOOSE f : IsRun(f)
  <1>1. from_base62(text) = Reversed(buf[l])
    BY Zenon DEF from_base62
  <1>2. l \in Nat /\ <<>> \in U
    OBVIOUS
  <1>3. ASSUME NEW k \in 1 .. l, NEW b \in U PROVE MultAdd(b, 256, 62, text[k]) \in U
    <2>1. Conversion(256, 62) /\ text[k] \in Digit(62)
      BY DEF Conversion
    <2> QED BY <2>1, MultAddDigits
  <1> HIDE DEF U
  <1>4. G \in [1 .. l -> [U -> U]]
    BY <1>3
  <1>5. PICK f : RunOf(f, U, <<>>, l, G)
    <2> HIDE DEF l, G
    <2> QED BY <1>2, <1>4, LoopRuns
  <1>6. f \in [0 .. l -> U] /\ f[0] = <<>>
    BY <1>5 DEF RunOf
  <1>7. ASSUME NEW k \in 1 .. l PROVE f[k] = MultAdd(f[k - 1], 256, 62, text[k])
    <2>1. f[k] = G[k][f[k - 1]] /\ k - 1 \in 0 .. l
      <3> HIDE DEF G
      <3> QED BY <1>2, <1>5 DEF RunOf
    <2>2. f[k - 1] \in U
      BY <1>6, <2>1
    <2> QED BY <2>1, <2>2
  <1> HIDE DEF l
  <1>8. IsRun(f)
    BY <1>2, <1>6, <1>7
  <1>9. IsRun(buf)
    <2> HIDE DEF IsRun
    <2> QED BY <1>8
  <1> HIDE DEF buf
  <1>10. buf[0] = <<>> /\ \A k \in 1 .. l : buf[k] = MultAdd(buf[k - 1], 256, 62, text[k])
    BY <1>2, <1>9
  <1>11. BytesRun(buf, text)
    BY <1>1, <1>10 DEF BytesRun, l
  <1> QED BY <1>11

(* The empty buffer stands for 0.                                           *)
LEMMA EmptyNumber ==
    ASSUME NEW base
    PROVE  Number(<<>>, base, 0)
  <1> DEFINE V == [j \in 1 .. 1 |-> 0]
  <1>1. Horner(V, <<>>, base) /\ V[1] = 0
    BY DEF Horner
  <1> HIDE DEF V
  <1>2. <<>> \in Seq(Digit(base)) /\ ~(Len(<<>>) > 0)
    OBVIOUS
  <1> QED BY <1>1, <1>2 DEF Number

(* The buffer of to_base62 stands for the data so far; two places for every *)
(* byte are enough.                                                         *)
LEMMA TextNumber ==
    ASSUME NEW data \in Seq(Octet), NEW buf, TextRun(buf, data), NEW n, ValueRun(n, data, 256)
    PROVE  /\ Number(buf[Len(data)], 62, n[Len(data)])
           /\ Len(buf[Len(data)]) <= 2 * Len(data)
  <1> DEFINE l == Len(data)
             S == {k \in 0 .. l : Number(buf[k], 62, n[k]) /\ Len(buf[k]) <= 2 * k}
  <1>1. l \in Nat /\ Conversion(62, 16)
    BY DEF Conversion
  <1>2. buf[0] = <<>> /\ \A k \in 1 .. l : buf[k] = AddByte(buf[k - 1], data, k)
    BY DEF TextRun
  <1>3. /\ n[0] = 0 /\ \A k \in 0 .. l : n[k] \in Nat
        /\ \A k \in 1 .. l : n[k] = n[k - 1] * 256 + data[k]
    BY DEF ValueRun
  <1>4. 0 \in S
    BY <1>1, <1>2, <1>3, EmptyNumber
  <1>5. ASSUME NEW k \in 1 .. l, k - 1 \in S PROVE k \in S
    <2> DEFINE b == buf[k - 1]
               v == n[k - 1]
               x == data[k] \div 16
               y == data[k] % 16
               c == MultAdd(b, 62, 16, x)
               e == MultAdd(c, 62, 16, y)
    <2>1. Number(b, 62, v) /\ v \in Nat /\ Len(b) <= 2 * (k - 1) /\ Len(b) \in Nat
      <3>1. k - 1 \in 0 .. l
        BY <1>1
      <3> QED BY <1>3, <1>5, <3>1 DEF Number
    <2>2. /\ x \in Digit(16) /\ y \in Digit(16) /\ x \in Nat /\ y \in Nat
          /\ 16 * (16 * v + x) + y = v * 256 + data[k]
      <3>1. x \in Digit(16) /\ y \in Digit(16) /\ 16 * (16 * v + x) + y = v * 256 + data[k]
        BY <2>1, Halves
      <3> HIDE DEF x, y
      <3> QED BY <3>1 DEF Digit
    <2>3. buf[k] = e
      BY <1>2 DEF AddByte, base62_add_mult_16
    <2>4. n[k] = 16 * (16 * v + x) + y
      BY <1>3, <2>2
    <2> HIDE DEF b, v, x, y, c, e
    <2>5. Number(c, 62, 16 * v + x) /\ Len(c) <= Len(b) + 1
      BY <1>1, <2>1, <2>2, MultAddNumber DEF c
    <2>6. 16 * v + x \in Nat /\ Len(c) \in Nat
      BY <2>1, <2>2, <2>5 DEF Number
    <2>7. Number(e, 62, 16 * (16 * v + x) + y) /\ Len(e) <= Len(c) + 1
      <3> DEFINE w == 16 * v + x
      <3>1. w \in Nat /\ Number(c, 62, w)
        BY <2>5, <2>6
      <3> HIDE DEF w
      <3>2. Number(e, 62, 16 * w + y) /\ Len(e) <= Len(c) + 1
        BY <1>1, <2>2, <3>1, MultAddNumber DEF e
      <3> QED BY <3>2 DEF w
    <2>8. Len(e) \in Nat
      BY <2>7 DEF Number
    <2>9. Len(e) <= 2 * k
      BY <2>1, <2>5, <2>6, <2>7, <2>8
    <2>10. Number(buf[k], 62, n[k]) /\ Len(buf[k]) <= 2 * k
      BY <2>3, <2>4, <2>7, <2>9
    <2> QED BY <1>1, <2>10
  <1>6. 0 .. l \subseteq S
    <2> HIDE DEF S
    <2> QED BY <1>1, <1>4, <1>5, EveryRound, Zenon
  <1> QED BY <1>1, <1>6

(* The buffer of from_base62 stands for the text so far.                    *)
LEMMA BytesNumber ==
    ASSUME NEW text \in Seq(Digit(62)), NEW buf, BytesRun(buf, text), NEW n, ValueRun(n, text, 62)
    PROVE  Number(buf[Len(text)], 256, n[Len(text)])
  <1> DEFINE l == Len(text)
             S == {k \in 0 .. l : Number(buf[k], 256, n[k])}
  <1>1. l \in Nat /\ Conversion(256, 62) /\ Digit(62) \subseteq Nat
    BY DEF Conversion, Digit
  <1>2. buf[0] = <<>> /\ \A k \in 1 .. l : buf[k] = MultAdd(buf[k - 1], 256, 62, text[k])
    BY DEF BytesRun
  <1>3. /\ n[0] = 0 /\ \A k \in 0 .. l : n[k] \in Nat
        /\ \A k \in 1 .. l : n[k] = n[k - 1] * 62 + text[k]
    BY DEF ValueRun
  <1>4. 0 \in S
    BY <1>1, <1>2, <1>3, EmptyNumber
  <1>5. ASSUME NEW k \in 1 .. l, k - 1 \in S PROVE k \in S
    <2> DEFINE b == buf[k - 1]
               v == n[k - 1]
               x == text[k]
    <2>1. Number(b, 256, v) /\ v \in Nat /\ x \in Digit(62) /\ x \in Nat
      <3>1. k - 1 \in 0 .. l
        BY <1>1
      <3> QED BY <1>1, <1>3, <1>5, <3>1
    <2>2. buf[k] = MultAdd(b, 256, 62, x) /\ n[k] = v * 62 + x
      BY <1>2, <1>3
    <2> HIDE DEF b, v, x
    <2>3. Number(MultAdd(b, 256, 62, x), 256, 62 * v + x)
      BY <1>1, <2>1, MultAddNumber
    <2>4. n[k] = 62 * v + x
      BY <2>1, <2>2
    <2>5. Number(buf[k], 256, n[k])
      BY <2>2, <2>3, <2>4
    <2> QED BY <1>1, <2>5
  <1>6. 0 .. l \subseteq S
    <2> HIDE DEF S
    <2> QED BY <1>1, <1>4, <1>5, EveryRound, Zenon
  <1> QED BY <1>1, <1>6

(* A buffer that is turned round stands for its number.                     *)
LEMMA NumberReversed ==
    ASSUME NEW base, NEW factor, Conversion(base, factor), NEW b, NEW v, Number(b, base, v)
    PROVE  /\ Reversed(b) \in Seq(Digit(base)) /\ Len(Reversed(b)) = Len(b)
           /\ ValueOf(Reversed(b), base) = v
  <1>1. b \in Seq(Digit(base))
    BY DEF Number
  <1>2. PICK V : Horner(V, b, base) /\ V[1] = v
    BY DEF Number
  <1>3. base \in Nat /\ Digit(base) \subseteq Nat
    BY DigitsAre
  <1>4. b \in Seq(Nat)
    BY <1>1, <1>3, SeqMonotonic
  <1> QED BY <1>1, <1>2, <1>3, <1>4, HornerValue, ReversedDigits

(* A key that does not begin with 0 is the buffer of its number.            *)
LEMMA DataNumber ==
    ASSUME NEW data \in Seq(Octet), Len(data) > 0, data[1] # 0, NEW n, ValueRun(n, data, 256)
    PROVE  Number(Reversed(data), 256, n[Len(data)])
  <1> DEFINE l == Len(data)
             b == Reversed(data)
             V == [j \in 1 .. l + 1 |-> n[l + 1 - j]]
  <1>1. l \in Nat /\ l > 0 /\ Octet = Digit(256) /\ Octet \subseteq Nat
    BY DEF Octet, Digit
  <1>2. b \in Seq(Octet) /\ Len(b) = l /\ \A i \in 1 .. l : b[i] = data[l + 1 - i]
    BY ReversedDigits
  <1>3. /\ n \in [0 .. l -> Nat] /\ n[0] = 0
        /\ \A k \in 1 .. l : n[k] = n[k - 1] * 256 + data[k]
    BY DEF ValueRun
  <1> HIDE DEF l, b
  <1>4. V \in [1 .. l + 1 -> Nat] /\ V[l + 1] = 0 /\ V[1] = n[l]
    BY <1>1, <1>3
  <1>5. ASSUME NEW j \in 1 .. l PROVE V[j] = b[j] + 256 * V[j + 1]
    <2> DEFINE k == l + 1 - j
    <2>1. k \in 1 .. l /\ V[j] = n[k] /\ V[j + 1] = n[k - 1] /\ b[j] = data[k]
      BY <1>1, <1>2
    <2> HIDE DEF k
    <2>2. n[k] = n[k - 1] * 256 + data[k] /\ n[k - 1] \in Nat
      BY <1>1, <1>3, <2>1
    <2>3. b[j] \in Nat
      BY <1>1, <1>2
    <2> QED BY <2>1, <2>2, <2>3
  <1> HIDE DEF V
  <1>6. Horner(V, b, 256)
    BY <1>2, <1>4, <1>5 DEF Horner
  <1>7. b[Len(b)] # 0
    BY <1>1, <1>2
  <1>8. Number(b, 256, n[l])
    BY <1>1, <1>2, <1>4, <1>6, <1>7 DEF Number
  <1> QED BY <1>8 DEF b, l

(* The text of data, and what is read from it.                              *)
LEMMA TextOfData ==
    ASSUME NEW data \in Seq(Octet)
    PROVE  LET text == to_base62(data)
               back == from_base62(text)
           IN  /\ text \in Seq(Digit(62)) /\ Len(text) <= 2 * Len(data)
               /\ back \in Seq(Digit(256))
               /\ ValueOf(text, 62) = ValueOf(data, 256) /\ ValueOf(back, 256) = ValueOf(data, 256)
               /\ Len(data) > 0 /\ data[1] # 0 => back = data
  <1> DEFINE text == to_base62(data)
             back == from_base62(text)
             v == ValueOf(data, 256)
  <1>1. Conversion(62, 16) /\ Conversion(256, 62) /\ Digit(62) \subseteq Nat /\ Octet \subseteq Nat
    BY DEF Conversion, Digit, Octet
  <1>2. PICK n : ValueRun(n, data, 256)
    <2>1. data \in Seq(Nat)
      BY <1>1, SeqMonotonic, Zenon
    <2> QED BY <2>1, ValueRuns
  <1>3. n[Len(data)] = v
    BY <1>2 DEF ValueRun
  <1>4. PICK buf : TextRun(buf, data)
    BY TextRuns
  <1> DEFINE b == buf[Len(data)]
  <1>5. Number(b, 62, v) /\ Len(b) <= 2 * Len(data)
    BY <1>2, <1>3, <1>4, TextNumber
  <1>6. text = Reversed(b)
    BY <1>4 DEF TextRun
  <1> HIDE DEF text, b, v
  <1>7. text \in Seq(Digit(62)) /\ Len(text) = Len(b) /\ ValueOf(text, 62) = v
    BY <1>1, <1>5, <1>6, NumberReversed
  <1>8. PICK m : ValueRun(m, text, 62)
    <2>1. text \in Seq(Nat)
      BY <1>1, <1>7, SeqMonotonic
    <2> QED BY <2>1, ValueRuns
  <1>9. m[Len(text)] = v
    BY <1>7, <1>8 DEF ValueRun
  <1>10. PICK bytes : BytesRun(bytes, text)
    BY <1>7, BytesRuns
  <1> DEFINE c == bytes[Len(text)]
  <1>11. Number(c, 256, v)
    BY <1>7, <1>8, <1>9, <1>10, BytesNumber
  <1>12. back = Reversed(c)
    BY <1>10 DEF BytesRun
  <1> HIDE DEF back, c
  <1>13. back \in Seq(Digit(256)) /\ ValueOf(back, 256) = v
    BY <1>1, <1>11, <1>12, NumberReversed
  <1>14. ASSUME Len(data) > 0, data[1] # 0 PROVE back = data
    <2>1. Number(Reversed(data), 256, v)
      BY <1>2, <1>3, <1>14, DataNumber
    <2>2. c = Reversed(data)
      BY <1>1, <1>11, <2>1, SameBuffer
    <2> QED BY <1>12, <2>2, ReversedDigits
  <1> QED BY <1>5, <1>7, <1>13, <1>14 DEF text, back, v

(* For data of any length: the text stands for the same number, its buffer  *)
(* is long enough, and keys survive, unless their first byte is 0.          *)
THEOREM KeysSurvive == Questions => []KeysSurviveText
  <1>1. Unasked => KeysSurviveText
    BY DEF Unasked, Nothing, KeysSurviveText, About
  <1>2. KeysSurviveText /\ [Ask]_question => KeysSurviveText'
    <2> SUFFICES ASSUME KeysSurviveText, [Ask]_question PROVE KeysSurviveText'
      OBVIOUS
    <2>1. CASE question' = question
      BY <2>1, Zenon DEF KeysSurviveText, About
    <2>2. CASE question'.about = "data" /\ question' # question
      <3>1. PICK n \in 0 .. MaxData : \E d \in [1 .. n -> SomeBytes] :
                question' = [about |-> "data", data |-> d]
        BY <2>2, CryptoTopics DEF AskData
      <3> DEFINE data == question'.data
      <3>2. data \in Seq(Octet)
        <4>1. n \in Nat /\ SomeBytes \subseteq Octet
          BY InputsAssumption DEF Octet
        <4>2. data \in [1 .. n -> SomeBytes]
          BY <3>1
        <4> QED BY <4>1, <4>2
      <3> HIDE DEF data
      <3> DEFINE text == to_base62(data)
                 back == from_base62(text)
      <3>3. /\ text \in Seq(Digit(62)) /\ Len(text) <= 2 * Len(data)
            /\ back \in Seq(Digit(256))
            /\ ValueOf(text, 62) = ValueOf(data, 256) /\ ValueOf(back, 256) = ValueOf(data, 256)
            /\ Len(data) > 0 /\ data[1] # 0 => back = data
        BY <3>2, TextOfData
      <3>4. Len(data) = KEY_LEN /\ data[1] # 0 => parse_key(generate_key(data)) = data
        <4> SUFFICES ASSUME Len(data) = KEY_LEN, data[1] # 0
                     PROVE  parse_key(generate_key(data)) = data
          OBVIOUS
        <4>1. back = data
          BY <3>3, Base62Assumption
        <4> QED BY <4>1, Zenon DEF parse_key, generate_key
      <3> HIDE DEF text, back
      <3>5. \A i \in DOMAIN text : text[i] < 62
        <4>1. \A x \in Digit(62) : x < 62
          BY DEF Digit
        <4>2. \A i \in DOMAIN text : text[i] \in Digit(62)
          BY <3>3
        <4> QED BY <4>1, <4>2, Zenon
      <3>6. \A i \in DOMAIN back : back[i] < 256
        <4>1. \A x \in Digit(256) : x < 256
          BY DEF Digit
        <4>2. \A i \in DOMAIN back : back[i] \in Digit(256)
          BY <3>3
        <4> QED BY <4>1, <4>2, Zenon
      <3> QED BY <3>3, <3>4, <3>5, <3>6, Zenon DEF KeysSurviveText, data, text, back
    <2> QED BY <2>1, <2>2, Zenon DEF KeysSurviveText, About
  <1> QED BY <1>1, <1>2, PTL DEF Questions
=============================================================================
