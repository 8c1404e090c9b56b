---------------------------- MODULE CryptoCore ------------------------------
(***************************************************************************)
(* Nonces and replay protection of the crypto core (src/crypto/core.rs):   *)
(* the life of one key, shared by both ends of a connection, from the      *)
(* moment both have it in a slot until it is replaced.  Which slot holds   *)
(* which key is the subject of KeyRotation.                                *)
(*                                                                         *)
(* The 12 bytes of a nonce are scaled down to a half bit (the most         *)
(* significant byte, 0x00 or 0x80), High values for the four bytes that    *)
(* are never transferred and Low values for the seven that are.            *)
(***************************************************************************)
EXTENDS Integers

CONSTANTS A, B,       \* the two ends of the connection
          Low,        \* how many nonces the transferred bytes distinguish
          High,       \* how many values the other bytes of the nonce have
          Start,      \* a random nonce starts below this value
          MaxSend,    \* bound: messages that either end seals with the key
          MaxTick     \* bound: calls of every_second at either end

VARIABLES nonce_half,      \* nonce_half[n]: n's nonces have their msb set
          send_nonce,      \* the four nonces of the key, at each end
          min_nonce, next_min_nonce, seen_nonce,
          sealed,          \* the messages sealed so far; the network may deliver
                           \* any of them to anyone, any number of times
          sent, tick,      \* counters: messages sealed, seconds passed at each end
          opened           \* history: what each end has opened, and when

window == <<min_nonce, next_min_nonce, seen_nonce>>
vars == <<nonce_half, send_nonce, window, sealed, sent, tick, opened>>

Node == {A, B}
Half == Low * High
Nonce == 0..(2 * Half - 1)

ASSUME CoreAssumption ==
    /\ A # B
    /\ Low \in Nat \ {0} /\ High \in Nat \ {0, 1} /\ Start \in Nat \ {0}
    /\ MaxSend \in Nat /\ MaxTick \in Nat
    /\ Start + MaxSend <= Half

\* Mutant: both ends use the lower half.
msbSame(half) == 0

\* Nonce::set_msb, as a number to add to the other bytes.
msb(half) == IF half THEN Half ELSE 0

\* Nonce::increment
increment(nonce) == (nonce + 1) % (2 * Half)

\* CryptoKey::new at both ends.
Init ==
    /\ nonce_half \in {h \in [Node -> BOOLEAN] : h[A] # h[B]}
    /\ \E r \in [Node -> 0..(Start - 1)] :
            send_nonce = [n \in Node |-> msb(nonce_half[n]) + r[n]]
    /\ min_nonce = [n \in Node |-> 0]
    /\ next_min_nonce = [n \in Node |-> 0]
    /\ seen_nonce = [n \in Node |-> 0]
    /\ sealed = {}
    /\ sent = [n \in Node |-> 0]
    /\ tick = [n \in Node |-> 0]
    /\ opened = [n \in Node |-> {}]

\* Mutant of encrypt: the nonce is not advanced.
encryptSameNonce(n) ==
    /\ sent[n] < MaxSend
    /\ sent' = [sent EXCEPT ![n] = @ + 1]
    /\ sealed' = sealed \cup {[from |-> n, seq |-> sent'[n], nonce |-> send_nonce[n]]}
    /\ UNCHANGED <<nonce_half, send_nonce, window, tick, opened>>

encrypt(n) ==
    /\ sent[n] < MaxSend
    /\ sent' = [sent EXCEPT ![n] = @ + 1]
    /\ send_nonce' = [send_nonce EXCEPT ![n] = increment(@)]
    /\ sealed' = sealed \cup {[from |-> n, seq |-> sent'[n], nonce |-> send_nonce'[n]]}
    /\ UNCHANGED <<nonce_half, window, tick, opened>>

\* Neither the msb of the nonce nor its high bytes are transferred.
transferred(nonce) == (nonce % Half) % Low

\* The receiver takes the high bytes to be zero and the msb to be the
\* opposite of its own.
DeducedNonce(n, p) == msb(~nonce_half[n]) + transferred(p.nonce)

\* decrypt_with_key: the nonce is not too old and is the one that was used.
Accepts(n, p) ==
    /\ DeducedNonce(n, p) >= min_nonce[n]
    /\ DeducedNonce(n, p) = p.nonce

Open(n, p) ==
    /\ opened' = [opened EXCEPT ![n] = @ \cup {[packet |-> p, tick |-> tick[n]]}]
    /\ UNCHANGED <<nonce_half, send_nonce, min_nonce, next_min_nonce, sealed, sent, tick>>

\* Mutant of decrypt: the last nonce is remembered instead of the biggest.
decryptLast(n, p) ==
    IF Accepts(n, p)
      THEN /\ seen_nonce' = [seen_nonce EXCEPT ![n] = p.nonce]
           /\ Open(n, p)
      ELSE UNCHANGED vars

\* A message that is refused changes nothing.
decrypt(n, p) ==
    IF Accepts(n, p)
      THEN /\ seen_nonce' = [seen_nonce EXCEPT ![n] = IF @ < p.nonce THEN p.nonce ELSE @]
           /\ Open(n, p)
      ELSE UNCHANGED vars

\* Mutant of update_min_nonce: the biggest nonce seen becomes the minimum at
\* once, without the second of grace.
update_min_nonceEager(n) ==
    /\ min_nonce' = [min_nonce EXCEPT ![n] = increment(seen_nonce[n])]
    /\ next_min_nonce' = [next_min_nonce EXCEPT ![n] = increment(seen_nonce[n])]

\* CryptoKey::update_min_nonce
update_min_nonce(n) ==
    /\ min_nonce' = [min_nonce EXCEPT ![n] = next_min_nonce[n]]
    /\ next_min_nonce' = [next_min_nonce EXCEPT ![n] = increment(seen_nonce[n])]

every_second(n) ==
    /\ tick[n] < MaxTick
    /\ tick' = [tick EXCEPT ![n] = @ + 1]
    /\ update_min_nonce(n)
    /\ UNCHANGED <<nonce_half, send_nonce, seen_nonce, sealed, sent, opened>>

Next ==
    \E n \in Node :
        \/ encrypt(n)
        \/ every_second(n)
        \/ \E p \in sealed : decrypt(n, p)

Spec == Init /\ [][Next]_vars

-----------------------------------------------------------------------------
Packet == [from : Node, seq : Nat, nonce : Nonce]

(* Types.  In particular every nonce fits into its 12 bytes, and only what  *)
(* was sealed is ever opened.                                               *)
TypeOK ==
    /\ nonce_half \in [Node -> BOOLEAN]
    /\ send_nonce \in [Node -> Nonce]
    /\ min_nonce \in [Node -> Nonce]
    /\ next_min_nonce \in [Node -> Nonce]
    /\ seen_nonce \in [Node -> Nonce]
    /\ sealed \subseteq Packet
    /\ sent \in [Node -> 0..MaxSend]
    /\ tick \in [Node -> 0..MaxTick]
    /\ opened \in [Node -> SUBSET [packet : sealed, tick : 0..MaxTick]]

(* "After a second, old messages will not be accepted anymore" (core.rs):   *)
(* once a message has been opened, it cannot be opened again after two      *)
(* calls of every_second, whatever arrives in between and in what order.    *)
ReplayWindow ==
    \A n \in Node : \A o \in opened[n] :
        tick[n] >= o.tick + 2 => ~Accepts(n, o.packet)

(* "Reordering can happen within one second": the peer's message is only    *)
(* ever refused when that or a later message has been opened before the     *)
(* last but one call of every_second.  (The nonce must still fit in the     *)
(* bytes that are transferred.)                                             *)
LateMessagesAccepted ==
    \A n \in Node : \A p \in sealed :
        p.from # n /\ p.nonce % Half < Low /\ ~Accepts(n, p) =>
            \E o \in opened[n] : o.packet.nonce >= p.nonce /\ tick[n] >= o.tick + 2

(* No two messages are ever sealed with the same nonce, although both ends  *)
(* seal with the same key.                                                  *)
UniqueNonces == \A p, q \in sealed : p.nonce = q.nonce => p = q

(* A node never opens a message that it has sealed itself, even if the      *)
(* network sends it back.                                                   *)
NoReflection == \A n \in Node : \A o \in opened[n] : o.packet.from # n

-----------------------------------------------------------------------------
(* The inductive invariant, in three parts.                                 *)

(* Nonces count the messages that an end has sealed, within its half.       *)
NonceInv ==
    /\ nonce_half[A] # nonce_half[B]
    /\ \A n \in Node :
        /\ send_nonce[n] >= msb(nonce_half[n]) + sent[n]
        /\ send_nonce[n] < msb(nonce_half[n]) + Start + sent[n]
    /\ \A p \in sealed :
        /\ p.seq \in 1..sent[p.from]
        /\ p.nonce - p.seq = send_nonce[p.from] - sent[p.from]

(* The window moves past everything that has been opened.                   *)
WindowInv ==
    \A n \in Node :
        /\ seen_nonce[n] < 2 * Half - 1
        /\ \A o \in opened[n] :
            /\ o.packet.nonce = DeducedNonce(n, o.packet)
            /\ o.packet.nonce <= seen_nonce[n]
            /\ o.tick <= tick[n]
            /\ o.tick + 1 <= tick[n] => o.packet.nonce < next_min_nonce[n]
            /\ o.tick + 2 <= tick[n] => o.packet.nonce < min_nonce[n]

(* Something was opened in time for every value of the window above 1.      *)
OpenedBefore(n, nonce, ticks) ==
    \E o \in opened[n] : o.packet.nonce = nonce /\ o.tick + ticks <= tick[n]

GraceInv ==
    \A n \in Node :
        /\ seen_nonce[n] # 0 => OpenedBefore(n, seen_nonce[n], 0)
        /\ next_min_nonce[n] > 1 => OpenedBefore(n, next_min_nonce[n] - 1, 1)
        /\ min_nonce[n] > 1 => OpenedBefore(n, min_nonce[n] - 1, 2)

=============================================================================
