------------------------------ MODULE InitState ------------------------------
(***************************************************************************)
(* One end of the three-way handshake, src/crypto/init.rs, as functions    *)
(* from a state and an event to the next state, the message to send and    *)
(* the result.                                                             *)
(*                                                                         *)
(* A salted node id hash is drawn for every InitState and names it.  An    *)
(* ECDH key pair is named by the hash of the InitState that creates it and *)
(* the stage of the message that carries its public half: an InitState     *)
(* creates at most one per stage.  A master key is the pair of key pairs   *)
(* it was agreed from.  Signatures and the choice of the algorithm are     *)
(* abstracted: both nodes trust each other and agree on an algorithm.      *)
(***************************************************************************)
EXTENDS Integers

CONSTANTS None,                   \* Option::None
          Hash,                   \* salted node id hashes, a set of numbers
          MAX_FAILED_RETRIES,     \* 120 in the code
          CLOSE_TIME              \* 60 in the code

ASSUME InitAssumption ==
    Hash \subseteq Nat /\ None \notin Nat /\ MAX_FAILED_RETRIES \in Nat /\ CLOSE_TIME \in Nat

STAGE_PING == 1
STAGE_PONG == 2
STAGE_PENG == 3
WAITING_TO_CLOSE == 4
CLOSING == 5

KeyPair == Hash \X {STAGE_PING, STAGE_PONG}
MasterKey == {{x, y} : x \in KeyPair, y \in KeyPair}

\* The core a master key was turned into; mine names the InitState that made
\* it, half is the half of the nonces it sends with.
Core == [mine : Hash, key : MasterKey, half : BOOLEAN]

\* Something encrypted: under which key and with a nonce of which half.
Sealed == [key : MasterKey, half : BOOLEAN]
Seal(core) == [key |-> core.key, half |-> core.half]

\* The nonce that the receiver deduces is one of the other half.
Opens(core, seal) == core.key = seal.key /\ core.half # seal.half

InitMsg == [stage : {STAGE_PING, STAGE_PONG, STAGE_PENG}, hash : Hash,
            pub : KeyPair \cup {None}, payload : Sealed \cup {None}]

InitStates ==
    [hash : Hash, next_stage : STAGE_PING .. CLOSING,
     ecdh_private_key : KeyPair \cup {None}, last_message : InitMsg \cup {None},
     crypto : Core \cup {None}, failed_retries : 0 .. MAX_FAILED_RETRIES,
     close_time : 0 .. CLOSE_TIME]

\* None is none of the records and key pairs.
ASSUME NoneAssumption == None \notin InitStates \cup Core \cup InitMsg \cup Sealed \cup KeyPair

new(hash) ==
    [hash |-> hash, next_stage |-> STAGE_PING, ecdh_private_key |-> None,
     last_message |-> None, crypto |-> None, failed_retries |-> 0, close_time |-> CLOSE_TIME]

send_ping(init) ==
    LET pair == <<init.hash, STAGE_PING>>
    IN  [init EXCEPT !.ecdh_private_key = pair, !.next_stage = STAGE_PONG,
                     !.last_message = [stage |-> STAGE_PING, hash |-> init.hash,
                                       pub |-> pair, payload |-> None]]

\* Mutant: both ends send with nonces of the same half.
agreeSameHalf(init, pair, msg) ==
    [mine |-> init.hash, key |-> {pair, msg.pub}, half |-> TRUE]

\* derive_master_key and CryptoCore::new.
agree(init, pair, msg) ==
    [mine |-> init.hash, key |-> {pair, msg.pub}, half |-> init.hash > msg.hash]

-----------------------------------------------------------------------------
(* handle_init.  The result is "continue", "fatal" (CryptoInitFatal),       *)
(* "initiator" or "responder" (Success with is_initiator TRUE or FALSE).    *)

Outcome(init, out, result) == [init |-> init, out |-> out, result |-> result]

handle_ping(init, msg) ==
    LET pair == <<init.hash, STAGE_PONG>>
        core == agree(init, pair, msg)
        pong == [stage |-> STAGE_PONG, hash |-> init.hash, pub |-> pair, payload |-> Seal(core)]
    IN  Outcome([init EXCEPT !.crypto = core, !.last_message = pong, !.next_stage = STAGE_PENG],
                pong, "continue")

\* Mutant: the state still waits for a pong, with the key in place.
handle_pongAgain(init, msg) ==
    LET core == agree(init, init.ecdh_private_key, msg)
        peng == [stage |-> STAGE_PENG, hash |-> init.hash, pub |-> None, payload |-> Seal(core)]
    IN  IF Opens(core, msg.payload)
        THEN Outcome([init EXCEPT !.crypto = core, !.last_message = peng,
                                  !.close_time = CLOSE_TIME], peng, "initiator")
        ELSE Outcome(init, None, "fatal")

handle_pong(init, msg) ==
    LET core == agree(init, init.ecdh_private_key, msg)
        keyed == [init EXCEPT !.ecdh_private_key = None, !.crypto = core]
        peng == [stage |-> STAGE_PENG, hash |-> init.hash, pub |-> None, payload |-> Seal(core)]
    IN  IF Opens(core, msg.payload)
        THEN Outcome([keyed EXCEPT !.last_message = peng, !.next_stage = WAITING_TO_CLOSE,
                                   !.close_time = CLOSE_TIME], peng, "initiator")
        ELSE Outcome(keyed, None, "fatal")

\* Mutant: the responder takes the part of the initiator.
handle_pengSwapped(init, msg) ==
    IF Opens(init.crypto, msg.payload)
    THEN Outcome([init EXCEPT !.next_stage = CLOSING], None, "initiator")
    ELSE Outcome(init, None, "fatal")

handle_peng(init, msg) ==
    IF Opens(init.crypto, msg.payload)
    THEN Outcome([init EXCEPT !.next_stage = CLOSING], None, "responder")
    ELSE Outcome(init, None, "fatal")

Process(init, msg) ==
    LET i == [init EXCEPT !.failed_retries = 0]
    IN  CASE msg.stage = STAGE_PING -> handle_ping(i, msg)
          [] msg.stage = STAGE_PONG -> handle_pong(i, msg)
          [] msg.stage = STAGE_PENG -> handle_peng(i, msg)

\* Mutant: a ping that crosses the own ping is answered by both or by none.
yieldsNever(init, msg) == msg.hash > init.hash /\ init.hash > msg.hash

\* Of two pings that cross, the one with the greater hash wins.
yields(init, msg) == msg.hash > init.hash

SALTED_NODE_ID_HASH_LEN == 20
SHA256_LEN == 32

\* Whether a hash was drawn for the id of the own node: the slice of the
\* message is compared with the whole digest, and slices of different length
\* are never equal.
check_salted_node_id_hash(hash) == SALTED_NODE_ID_HASH_LEN = SHA256_LEN

FromSelf(init, msg) == msg.hash = init.hash \/ check_salted_node_id_hash(msg.hash)

handle_init(init, msg) ==
    CASE FromSelf(init, msg) -> Outcome(init, None, "fatal")
      [] ~FromSelf(init, msg) /\ msg.stage = init.next_stage -> Process(init, msg)
      [] ~FromSelf(init, msg) /\ msg.stage # init.next_stage ->
            IF init.next_stage = STAGE_PONG /\ msg.stage = STAGE_PING
            THEN IF yields(init, msg)
                 THEN Process([init EXCEPT !.next_stage = STAGE_PING, !.last_message = None,
                                           !.ecdh_private_key = None], msg)
                 ELSE Outcome(init, None, "continue")
            ELSE IF init.next_stage = CLOSING THEN Outcome(init, None, "continue")
            ELSE IF init.last_message # None
            THEN Outcome(init, init.last_message, "continue")
            ELSE Outcome(init, None, "fatal")

\* The InitState after a second, the message it repeats, and "fatal" when it
\* gives up.
every_second(init) ==
    CASE init.next_stage = WAITING_TO_CLOSE ->
            Outcome(IF init.close_time = 0 THEN [init EXCEPT !.next_stage = CLOSING]
                                           ELSE [init EXCEPT !.close_time = @ - 1],
                    None, "continue")
      [] init.next_stage = CLOSING -> Outcome(init, None, "continue")
      [] init.next_stage < WAITING_TO_CLOSE ->
            IF init.failed_retries < MAX_FAILED_RETRIES
            THEN Outcome([init EXCEPT !.failed_retries = @ + 1], init.last_message, "continue")
            ELSE Outcome([init EXCEPT !.next_stage = CLOSING], None, "fatal")
=============================================================================
