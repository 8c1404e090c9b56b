--------------------------- MODULE HandshakeProofs ---------------------------
(***************************************************************************)
(* Proofs about Handshake, for any hashes, retries and faults: whatever    *)
(* the network loses, repeats and reorders, whenever nodes restart and     *)
(* however their pings cross, both ends of a connection agree.             *)
(***************************************************************************)
EXTENDS Handshake, TLAPS

\* What an InitState named h makes of the InitState it talks to: the core and
\* the messages of the responder for the ping of x, and of the initiator for
\* the pong of y.
RespCore(h, x) == [mine |-> h, key |-> {<<h, STAGE_PONG>>, <<x, STAGE_PING>>}, half |-> h > x]
InitCore(h, y) == [mine |-> h, key |-> {<<h, STAGE_PING>>, <<y, STAGE_PONG>>}, half |-> h > y]

PingMsg(h) ==
    [stage |-> STAGE_PING, hash |-> h, pub |-> <<h, STAGE_PING>>, payload |-> None]
PongMsg(h, x) ==
    [stage |-> STAGE_PONG, hash |-> h, pub |-> <<h, STAGE_PONG>>, payload |-> Seal(RespCore(h, x))]
PengMsg(h, y) ==
    [stage |-> STAGE_PENG, hash |-> h, pub |-> None, payload |-> Seal(InitCore(h, y))]

\* The messages of an InitState.
MsgFrom(h) ==
    {PingMsg(h)} \cup {PongMsg(h, x) : x \in Hash \ {h}} \cup {PengMsg(h, y) : y \in Hash \ {h}}

\* A pending init waits for a pong with its private key, or for a peng with the
\* core that its pong was made with.
PendingOk(i) ==
    /\ i \in InitStates
    /\ \/ /\ i.next_stage = STAGE_PONG /\ i.ecdh_private_key = <<i.hash, STAGE_PING>>
          /\ i.last_message = PingMsg(i.hash)
       \/ /\ i.next_stage = STAGE_PENG
          /\ \E x \in Hash \ {i.hash} :
                i.crypto = RespCore(i.hash, x) /\ i.last_message = PongMsg(i.hash, x)

\* The peer entry of a responder has no InitState; the one of an initiator may
\* still have it, to repeat its peng.
PeerOk(p) ==
    /\ p \in PeerEntry
    /\ \E z \in Hash \ {p.core.mine} :
        \/ /\ p.rotation_initiator = TRUE /\ p.init = None
           /\ p.core = RespCore(p.core.mine, z)
        \/ /\ p.rotation_initiator = FALSE /\ p.core = InitCore(p.core.mine, z)
           /\ p.init # None => /\ p.init.hash = p.core.mine
                               /\ p.init.next_stage = WAITING_TO_CLOSE
                               /\ p.init.last_message = PengMsg(p.core.mine, z)

\* The names of the InitStates that a node has, or has had for its peer entry.
OwnOf(i, p) == {h \in Hash : \/ i # None /\ h = i.hash
                             \/ p # None /\ h = p.core.mine}
Own(n) == OwnOf(pending[n], peers[n])

\* A datagram is a CLOSE or from an InitState that its receiver does not have.
PacketOk(p) ==
    /\ p.to \in Node
    /\ p.msg \in CloseMsg \/ \E h \in Hash \ Own(p.to) : p.msg \in MsgFrom(h)

Inv ==
    /\ pending = [n \in Node |-> pending[n]] /\ peers = [n \in Node |-> peers[n]]
    /\ \A n \in Node : pending[n] # None => PendingOk(pending[n]) /\ pending[n].hash \notin installed
    /\ \A n \in Node : peers[n] # None => PeerOk(peers[n])
    /\ \A p \in net : PacketOk(p)
    /\ Own(A) \cap Own(B) = {}
    /\ installed \subseteq Hash /\ faults \in 0 .. MaxFaults

-----------------------------------------------------------------------------
(* Messages.                                                                *)

(* A core and its seal are what the types say.                              *)
LEMMA CoreFacts ==
    ASSUME NEW h \in Hash, NEW x \in Hash
    PROVE  /\ RespCore(h, x) \in Core /\ InitCore(h, x) \in Core
           /\ Seal(RespCore(h, x)) \in Sealed /\ Seal(InitCore(h, x)) \in Sealed
  <1>1. <<h, STAGE_PING>> \in KeyPair /\ <<h, STAGE_PONG>> \in KeyPair
        /\ <<x, STAGE_PING>> \in KeyPair /\ <<x, STAGE_PONG>> \in KeyPair
    BY DEF KeyPair
  <1>2. {<<h, STAGE_PING>>, <<x, STAGE_PONG>>} \in MasterKey
        /\ {<<h, STAGE_PONG>>, <<x, STAGE_PING>>} \in MasterKey
    BY <1>1 DEF MasterKey
  <1>3. (h > x) \in BOOLEAN
    BY InitAssumption
  <1> QED BY <1>2, <1>3 DEF RespCore, InitCore, Seal, Core, Sealed

(* So are the messages of an InitState, which carry its name.               *)
LEMMA MsgFacts ==
    ASSUME NEW h \in Hash, NEW m \in MsgFrom(h)
    PROVE  m \in InitMsg /\ m.hash = h
  <1>1. CASE m = PingMsg(h)
    BY <1>1 DEF PingMsg, InitMsg, KeyPair
  <1>2. ASSUME NEW x \in Hash \ {h}, m = PongMsg(h, x) PROVE m \in InitMsg /\ m.hash = h
    BY <1>2, CoreFacts DEF PongMsg, InitMsg, KeyPair
  <1>3. ASSUME NEW y \in Hash \ {h}, m = PengMsg(h, y) PROVE m \in InitMsg /\ m.hash = h
    BY <1>3, CoreFacts DEF PengMsg, InitMsg, KeyPair
  <1> QED BY <1>1, <1>2, <1>3 DEF MsgFrom

(* is_init_message tells handshake messages from a CLOSE.                   *)
LEMMA KindFacts ==
    /\ \A m \in InitMsg : is_init_message(m) /\ m # None
    /\ \A m \in CloseMsg : ~is_init_message(m)
  <1>1. \A m \in InitMsg : is_init_message(m)
    BY DEF is_init_message, InitMsg
  <1>2. \A m \in CloseMsg : ~is_init_message(m)
    BY DEF is_init_message, CloseMsg
  <1> QED BY <1>1, <1>2, NoneAssumption

(* The name of the InitState is among the hashes that a message in flight,  *)
(* a pending init or a peer entry mentions.                                 *)
LEMMA MentionFacts ==
    /\ \A m \in InitMsg : m.hash \in HashesOfMsg(m)
    /\ \A i, p : OwnOf(i, p) \subseteq HashesOfInit(i) \cup (IF p = None THEN {} ELSE {p.core.mine})
    /\ \A p : PeerOk(p) => p.core.mine \in HashesOfPeer(p) \/ p = None
  <1>1. \A m \in InitMsg : m.hash \in HashesOfMsg(m)
    BY KindFacts DEF HashesOfMsg
  <1>2. \A i, p : OwnOf(i, p) \subseteq HashesOfInit(i) \cup (IF p = None THEN {} ELSE {p.core.mine})
    BY DEF OwnOf, HashesOfInit
  <1>3. \A p : PeerOk(p) => p.core.mine \in HashesOfPeer(p) \/ p = None
    <2> SUFFICES ASSUME NEW p, PeerOk(p), p # None PROVE p.core.mine \in HashesOfPeer(p)
      OBVIOUS
    <2>1. p.core # None
      BY NoneAssumption DEF PeerOk, PeerEntry
    <2> QED BY <2>1 DEF HashesOfPeer, HashesOfCore
  <1> QED BY <1>1, <1>2, <1>3

-----------------------------------------------------------------------------
(* handle_init and every_second.                                            *)

(* No InitState takes a message of another one for its own.                 *)
LEMMA FromOther ==
    ASSUME NEW i, NEW h \in Hash, NEW m \in MsgFrom(h), i.hash # h PROVE ~FromSelf(i, m)
  BY MsgFacts DEF FromSelf, check_salted_node_id_hash, SALTED_NODE_ID_HASH_LEN, SHA256_LEN

(* The stages of the messages are told apart.                               *)
LEMMA StageFacts ==
    ASSUME NEW h \in Hash, NEW m \in MsgFrom(h)
    PROVE  /\ m.stage \in {STAGE_PING, STAGE_PONG, STAGE_PENG}
           /\ m.stage = STAGE_PING => m = PingMsg(h)
           /\ m.stage = STAGE_PONG => \E x \in Hash \ {h} : m = PongMsg(h, x)
           /\ m.stage = STAGE_PENG => \E y \in Hash \ {h} : m = PengMsg(h, y)
  BY DEF MsgFrom, PingMsg, PongMsg, PengMsg, STAGE_PING, STAGE_PONG, STAGE_PENG

(* handle_ping agrees on a core with the sender of the ping, and answers    *)
(* with a pong that is sealed with it.                                      *)
LEMMA PingAnswered ==
    ASSUME NEW i \in InitStates, NEW x \in Hash \ {i.hash},
           NEW outcome, outcome = handle_ping(i, PingMsg(x))
    PROVE  /\ outcome.result = "continue" /\ outcome.out = PongMsg(i.hash, x)
           /\ PendingOk(outcome.init) /\ outcome.init.hash = i.hash
  <1> DEFINE core == RespCore(i.hash, x)
             pong == PongMsg(i.hash, x)
             init == [i EXCEPT !.crypto = core, !.last_message = pong, !.next_stage = STAGE_PENG]
  <1>1. i.hash \in Hash /\ core \in Core /\ pong \in InitMsg
    BY CoreFacts, MsgFacts DEF InitStates, MsgFrom
  <1>2. agree(i, <<i.hash, STAGE_PONG>>, PingMsg(x)) = core
    BY DEF agree, RespCore, PingMsg
  <1>3. outcome = [init |-> init, out |-> pong, result |-> "continue"]
    BY <1>2 DEF handle_ping, PongMsg, Outcome
  <1>4. /\ init \in InitStates /\ init.hash = i.hash /\ init.next_stage = STAGE_PENG
        /\ init.crypto = core /\ init.last_message = pong
    <2> HIDE DEF core, pong
    <2>1. STAGE_PENG \in STAGE_PING .. CLOSING
      BY DEF STAGE_PING, STAGE_PENG, CLOSING
    <2> QED BY <1>1, <2>1 DEF InitStates
  <1> HIDE DEF init
  <1>5. PendingOk(init)
    BY <1>4 DEF PendingOk
  <1> QED BY <1>3, <1>4, <1>5

(* A new InitState keeps a ping as pending init, and nothing else.          *)
LEMMA NewHandles ==
    ASSUME NEW hash \in Hash, NEW h \in Hash, h # hash, NEW m \in MsgFrom(h),
           NEW outcome, outcome = handle_init(new(hash), m)
    PROVE  /\ outcome.result \in {"continue", "fatal"}
           /\ outcome.result = "continue" => PendingOk(outcome.init) /\ outcome.init.hash = hash
           /\ outcome.out # None => outcome.result = "continue" /\ outcome.out \in MsgFrom(hash)
  <1> DEFINE i == new(hash)
  <1>1. /\ i \in InitStates /\ i.hash = hash /\ i.next_stage = STAGE_PING
        /\ i.last_message = None /\ i.failed_retries = 0
        /\ [i EXCEPT !.failed_retries = 0] = i
    BY InitAssumption DEF new, InitStates, STAGE_PING, CLOSING
  <1>2. ~FromSelf(i, m)
    BY <1>1, FromOther
  <1>3. outcome = handle_init(i, m)
    OBVIOUS
  <1> HIDE DEF i
  <1>4. CASE m.stage = STAGE_PING
    <2>1. m = PingMsg(h)
      BY <1>4, StageFacts
    <2>2. handle_init(i, m) = Process(i, m)
      BY <1>1, <1>2, <1>4 DEF handle_init
    <2>3. Process(i, m) = handle_ping(i, PingMsg(h))
      BY <1>1, <1>4, <2>1 DEF Process, STAGE_PING, STAGE_PONG, STAGE_PENG
    <2>4. PongMsg(hash, h) \in MsgFrom(hash)
      BY DEF MsgFrom
    <2> QED BY <1>1, <1>3, <2>2, <2>3, <2>4, PingAnswered
  <1>5. CASE m.stage # STAGE_PING
    <2>1. handle_init(i, m) = Outcome(i, None, "fatal")
      BY <1>1, <1>2, <1>5 DEF handle_init, STAGE_PING, STAGE_PONG, CLOSING
    <2> QED BY <1>3, <2>1 DEF Outcome
  <1> QED BY <1>4, <1>5

(* The InitState that a peer entry keeps repeats its peng, whatever it gets.*)
LEMMA PeerInitHandles ==
    ASSUME NEW i \in InitStates, i.next_stage = WAITING_TO_CLOSE, i.last_message # None,
           NEW h \in Hash, h # i.hash, NEW m \in MsgFrom(h)
    PROVE  handle_init(i, m) = Outcome(i, i.last_message, "continue")
  <1>1. ~FromSelf(i, m) /\ m.stage \in {STAGE_PING, STAGE_PONG, STAGE_PENG}
    BY FromOther, StageFacts
  <1> QED BY <1>1 DEF handle_init, STAGE_PING, STAGE_PONG, STAGE_PENG, WAITING_TO_CLOSE, CLOSING

(* A message that is not the one a pending init waits for makes it repeat   *)
(* its own.                                                                 *)
LEMMA PendingRepeats ==
    ASSUME NEW i, PendingOk(i), NEW h \in Hash, h # i.hash, NEW m \in MsgFrom(h),
           m.stage # i.next_stage, ~(i.next_stage = STAGE_PONG /\ m.stage = STAGE_PING)
    PROVE  /\ handle_init(i, m) = Outcome(i, i.last_message, "continue")
           /\ i.last_message \in MsgFrom(i.hash)
  <1>1. ~FromSelf(i, m)
    BY FromOther
  <1>2. /\ i.last_message \in MsgFrom(i.hash) /\ i.hash \in Hash
        /\ i.next_stage \in {STAGE_PONG, STAGE_PENG}
    BY DEF PendingOk, MsgFrom, InitStates
  <1>3. i.last_message # None
    BY <1>2, MsgFacts, NoneAssumption
  <1> QED BY <1>1, <1>2, <1>3 DEF handle_init, STAGE_PONG, STAGE_PENG, CLOSING

(* Pings that cross: the own one is withdrawn for one with a greater hash,  *)
(* and stands against one with a smaller.                                   *)
LEMMA PendingCrosses ==
    ASSUME NEW i, PendingOk(i), i.next_stage = STAGE_PONG, NEW h \in Hash, h # i.hash,
           NEW outcome, outcome = handle_init(i, PingMsg(h))
    PROVE  /\ outcome.result = "continue"
           /\ PendingOk(outcome.init) /\ outcome.init.hash = i.hash
           /\ outcome.out # None => outcome.out \in MsgFrom(i.hash)
  <1> DEFINE m == PingMsg(h)
  <1>1. m \in MsgFrom(h) /\ m.stage = STAGE_PING
    BY DEF MsgFrom, PingMsg
  <1>2. ~FromSelf(i, m)
    BY <1>1, FromOther
  <1>3. i \in InitStates
    BY DEF PendingOk
  <1>4. outcome = handle_init(i, m)
    OBVIOUS
  <1> HIDE DEF m
  <1>5. CASE yields(i, m)
    <2> DEFINE j == [i EXCEPT !.next_stage = STAGE_PING, !.last_message = None,
                              !.ecdh_private_key = None]
               k == [j EXCEPT !.failed_retries = 0]
    <2>1. STAGE_PING \in STAGE_PING .. CLOSING /\ 0 \in 0 .. MAX_FAILED_RETRIES
      BY InitAssumption DEF STAGE_PING, CLOSING
    <2>2. j \in InitStates /\ j.hash = i.hash
      BY <1>3, <2>1 DEF InitStates
    <2> HIDE DEF j
    <2>3. k \in InitStates /\ k.hash = i.hash
      BY <2>1, <2>2 DEF InitStates
    <2> HIDE DEF k
    <2>4. outcome = Process(j, m)
      BY <1>1, <1>2, <1>4, <1>5 DEF handle_init, j, STAGE_PING, STAGE_PONG
    <2>5. Process(j, m) = handle_ping(k, m)
      BY <1>1 DEF Process, k, STAGE_PING, STAGE_PONG, STAGE_PENG
    <2>6. PongMsg(i.hash, h) \in MsgFrom(i.hash)
      BY DEF MsgFrom
    <2> QED BY <2>3, <2>4, <2>5, <2>6, PingAnswered DEF m
  <1>6. CASE ~yields(i, m)
    BY <1>1, <1>2, <1>4, <1>6 DEF handle_init, Outcome, STAGE_PING, STAGE_PONG
  <1> QED BY <1>5, <1>6

(* The pong that ends the handshake for the initiator.                      *)
LEMMA PongEnds ==
    ASSUME NEW i, PendingOk(i), i.next_stage = STAGE_PONG,
           NEW h \in Hash, h # i.hash, NEW x \in Hash \ {h},
           NEW outcome, outcome = handle_init(i, PongMsg(h, x))
    PROVE  /\ outcome.result \in {"initiator", "fatal"} /\ outcome.init.hash = i.hash
           /\ outcome.result = "initiator" =>
                PeerOk(NewPeer(outcome)) /\ NewPeer(outcome).core.mine = i.hash
           /\ outcome.out # None => outcome.out \in MsgFrom(i.hash)
  <1> DEFINE m == PongMsg(h, x)
             core == InitCore(i.hash, h)
             peng == PengMsg(i.hash, h)
             k == [i EXCEPT !.failed_retries = 0]
             keyed == [k EXCEPT !.ecdh_private_key = None, !.crypto = core]
             done == [keyed EXCEPT !.last_message = peng, !.next_stage = WAITING_TO_CLOSE,
                                   !.close_time = CLOSE_TIME]
             kept == [done EXCEPT !.crypto = None]
  <1>1. m \in MsgFrom(h) /\ m.stage = STAGE_PONG /\ m.pub = <<h, STAGE_PONG>> /\ m.hash = h
    BY DEF MsgFrom, PongMsg
  <1>2. ~FromSelf(i, m)
    BY <1>1, FromOther
  <1>3. i \in InitStates /\ i.hash \in Hash /\ i.ecdh_private_key = <<i.hash, STAGE_PING>>
    BY DEF PendingOk, InitStates, STAGE_PONG, STAGE_PENG
  <1>4. core \in Core /\ peng \in InitMsg /\ peng \in MsgFrom(i.hash)
    BY <1>3, CoreFacts, MsgFacts DEF MsgFrom
  <1>5. outcome = handle_init(i, m)
    OBVIOUS
  <1> HIDE DEF m
  <1>6. /\ WAITING_TO_CLOSE \in STAGE_PING .. CLOSING /\ 0 \in 0 .. MAX_FAILED_RETRIES
        /\ CLOSE_TIME \in 0 .. CLOSE_TIME
    BY InitAssumption DEF STAGE_PING, WAITING_TO_CLOSE, CLOSING
  <1>7. k \in InitStates /\ k.hash = i.hash /\ k.ecdh_private_key = <<i.hash, STAGE_PING>>
    BY <1>3, <1>6 DEF InitStates
  <1> HIDE DEF k
  <1>8. agree(k, k.ecdh_private_key, m) = core
    BY <1>1, <1>7 DEF agree, InitCore
  <1>9. /\ outcome = handle_pong(k, m)
        /\ Seal(core) = peng.payload
    BY <1>1, <1>2, <1>5 DEF handle_init, Process, k, PengMsg, STAGE_PING, STAGE_PONG, STAGE_PENG
  <1>10. outcome = IF Opens(core, m.payload) THEN Outcome(done, peng, "initiator")
                                             ELSE Outcome(keyed, None, "fatal")
    BY <1>7, <1>8, <1>9 DEF handle_pong, PengMsg
  <1> HIDE DEF core, peng
  <1>11. keyed \in InitStates /\ keyed.hash = i.hash /\ keyed.crypto = core
    BY <1>4, <1>7 DEF InitStates
  <1> HIDE DEF keyed
  <1>12. /\ done \in InitStates /\ done.hash = i.hash /\ done.crypto = core
         /\ done.last_message = peng /\ done.next_stage = WAITING_TO_CLOSE
    BY <1>4, <1>6, <1>11 DEF InitStates
  <1> HIDE DEF done
  <1>13. /\ kept \in InitStates /\ kept.hash = i.hash
         /\ kept.last_message = peng /\ kept.next_stage = WAITING_TO_CLOSE
    BY <1>12 DEF InitStates
  <1> HIDE DEF kept
  <1>14. CASE Opens(core, m.payload)
    <2>1. outcome = [init |-> done, out |-> peng, result |-> "initiator"]
      BY <1>10, <1>14 DEF Outcome
    <2>2. NewPeer(outcome) = [init |-> kept, core |-> core, rotation_initiator |-> FALSE]
      <3>1. /\ outcome.init = done /\ (outcome.result = "responder") = FALSE
            /\ outcome.init.next_stage # CLOSING
        BY <1>12, <2>1 DEF WAITING_TO_CLOSE, CLOSING
      <3> QED BY <1>12, <3>1, Zenon DEF NewPeer, kept
    <2>3. core.mine = i.hash
      BY DEF core, InitCore
    <2>4. NewPeer(outcome) \in PeerEntry
      BY <1>4, <1>13, <2>2 DEF PeerEntry
    <2>5. PeerOk(NewPeer(outcome))
      BY <1>13, <2>2, <2>3, <2>4 DEF PeerOk, core, peng
    <2> QED BY <1>4, <1>12, <2>1, <2>2, <2>3, <2>5
  <1>15. CASE ~Opens(core, m.payload)
    BY <1>10, <1>11, <1>15 DEF Outcome
  <1> QED BY <1>14, <1>15

(* The peng that ends it for the responder.                                 *)
LEMMA PengEnds ==
    ASSUME NEW i, PendingOk(i), i.next_stage = STAGE_PENG,
           NEW h \in Hash, h # i.hash, NEW y \in Hash \ {h},
           NEW outcome, outcome = handle_init(i, PengMsg(h, y))
    PROVE  /\ outcome.result \in {"responder", "fatal"} /\ outcome.init.hash = i.hash
           /\ outcome.result = "responder" =>
                PeerOk(NewPeer(outcome)) /\ NewPeer(outcome).core.mine = i.hash
           /\ outcome.out = None
  <1> DEFINE m == PengMsg(h, y)
             k == [i EXCEPT !.failed_retries = 0]
             done == [k EXCEPT !.next_stage = CLOSING]
  <1>1. m \in MsgFrom(h) /\ m.stage = STAGE_PENG
    BY DEF MsgFrom, PengMsg
  <1>2. ~FromSelf(i, m)
    BY <1>1, FromOther
  <1>3. PICK x \in Hash \ {i.hash} : i.crypto = RespCore(i.hash, x)
    BY DEF PendingOk, STAGE_PONG, STAGE_PENG
  <1>4. outcome = handle_init(i, m)
    OBVIOUS
  <1> HIDE DEF m
  <1>5. i \in InitStates /\ i.hash \in Hash /\ RespCore(i.hash, x) \in Core
    BY CoreFacts DEF PendingOk, InitStates
  <1>6. k.hash = i.hash /\ k.crypto = RespCore(i.hash, x) /\ k \in InitStates
    BY <1>3, <1>5, InitAssumption DEF InitStates
  <1> HIDE DEF k
  <1>7. done.hash = i.hash /\ done.crypto = RespCore(i.hash, x) /\ done.next_stage = CLOSING
    BY <1>6 DEF InitStates
  <1> HIDE DEF done
  <1>8. outcome = handle_peng(k, m)
    BY <1>1, <1>2, <1>4 DEF handle_init, Process, k, STAGE_PING, STAGE_PONG, STAGE_PENG
  <1>9. CASE Opens(k.crypto, m.payload)
    <2>1. outcome = [init |-> done, out |-> None, result |-> "responder"]
      BY <1>8, <1>9 DEF handle_peng, Outcome, done
    <2>2. NewPeer(outcome) =
            [init |-> None, core |-> RespCore(i.hash, x), rotation_initiator |-> TRUE]
      <3>1. /\ outcome.init = done /\ (outcome.result = "responder") = TRUE
            /\ outcome.init.next_stage = CLOSING
        BY <1>7, <2>1
      <3> QED BY <1>7, <3>1, Zenon DEF NewPeer
    <2>3. RespCore(i.hash, x).mine = i.hash
      BY DEF RespCore
    <2>4. NewPeer(outcome) \in PeerEntry
      BY <1>5, <2>2 DEF PeerEntry
    <2>5. PeerOk(NewPeer(outcome))
      BY <2>2, <2>3, <2>4 DEF PeerOk
    <2> QED BY <1>7, <2>1, <2>2, <2>3, <2>5
  <1>10. CASE ~Opens(k.crypto, m.payload)
    BY <1>6, <1>8, <1>10 DEF handle_peng, Outcome
  <1> QED BY <1>9, <1>10

(* Together: what handle_init makes of a pending init.                      *)
LEMMA PendingHandles ==
    ASSUME NEW i, PendingOk(i), NEW h \in Hash, h # i.hash, NEW m \in MsgFrom(h),
           NEW outcome, outcome = handle_init(i, m)
    PROVE  /\ outcome.result \in {"continue", "initiator", "responder", "fatal"}
           /\ outcome.init.hash = i.hash
           /\ outcome.result = "continue" => PendingOk(outcome.init)
           /\ outcome.result \in {"initiator", "responder"} =>
                PeerOk(NewPeer(outcome)) /\ NewPeer(outcome).core.mine = i.hash
           /\ outcome.out # None => outcome.out \in MsgFrom(i.hash)
  <1>1. CASE i.next_stage = STAGE_PONG /\ m.stage = STAGE_PING
    <2>1. m = PingMsg(h)
      BY <1>1, StageFacts
    <2> QED BY <1>1, <2>1, PendingCrosses
  <1>2. CASE i.next_stage = STAGE_PONG /\ m.stage = STAGE_PONG
    <2>1. PICK x \in Hash \ {h} : m = PongMsg(h, x)
      BY <1>2, StageFacts
    <2> QED BY <1>2, <2>1, PongEnds
  <1>3. CASE i.next_stage = STAGE_PENG /\ m.stage = STAGE_PENG
    <2>1. PICK y \in Hash \ {h} : m = PengMsg(h, y)
      BY <1>3, StageFacts
    <2> QED BY <1>3, <2>1, PengEnds
  <1>4. CASE /\ m.stage # i.next_stage
             /\ ~(i.next_stage = STAGE_PONG /\ m.stage = STAGE_PING)
    BY <1>4, PendingRepeats DEF Outcome
  <1>5. i.next_stage \in {STAGE_PONG, STAGE_PENG}
    BY DEF PendingOk
  <1> QED BY <1>1, <1>2, <1>3, <1>4, <1>5

(* every_second makes a pending init repeat its message, or give up.        *)
LEMMA PendingAges ==
    ASSUME NEW i, PendingOk(i), NEW outcome, outcome = every_second(i), outcome.result # "fatal"
    PROVE  /\ PendingOk(outcome.init) /\ outcome.init.hash = i.hash
           /\ outcome.out \in MsgFrom(i.hash)
  <1> DEFINE j == [i EXCEPT !.failed_retries = i.failed_retries + 1]
  <1>1. /\ i \in InitStates /\ i.next_stage \in {STAGE_PONG, STAGE_PENG}
        /\ i.last_message \in MsgFrom(i.hash)
    BY DEF PendingOk, MsgFrom
  <1>2. /\ i.failed_retries < MAX_FAILED_RETRIES
        /\ outcome = Outcome(j, i.last_message, "continue")
    BY <1>1 DEF every_second, Outcome, STAGE_PONG, STAGE_PENG, WAITING_TO_CLOSE, CLOSING
  <1>3. i.failed_retries + 1 \in 0 .. MAX_FAILED_RETRIES
    BY <1>1, <1>2, InitAssumption DEF InitStates
  <1>4. /\ j \in InitStates /\ j.hash = i.hash /\ j.next_stage = i.next_stage
        /\ j.ecdh_private_key = i.ecdh_private_key /\ j.crypto = i.crypto
        /\ j.last_message = i.last_message
    BY <1>1, <1>3 DEF InitStates
  <1> HIDE DEF j
  <1>5. PendingOk(j)
    BY <1>4 DEF PendingOk
  <1> QED BY <1>1, <1>2, <1>4, <1>5 DEF Outcome

(* A peer entry keeps its core when its InitState ages and is dropped.      *)
LEMMA PeerAges ==
    ASSUME NEW p, p # None, PeerOk(p)
    PROVE  PeerOk(AgedPeer(p)) /\ AgedPeer(p).core = p.core
  <1> DEFINE i == p.init
             init == every_second(i).init
             j == IF init.next_stage = CLOSING THEN None ELSE init
             q == [p EXCEPT !.init = j]
  <1>0. p \in PeerEntry
    BY DEF PeerOk
  <1>1. CASE i = None
    BY <1>1 DEF AgedPeer
  <1>2. CASE i # None
    <2>1. /\ i \in InitStates /\ p.rotation_initiator = FALSE
          /\ i.hash = p.core.mine /\ i.next_stage = WAITING_TO_CLOSE
      BY <1>0, <1>2 DEF PeerOk, PeerEntry
    <2>2. init = IF i.close_time = 0 THEN [i EXCEPT !.next_stage = CLOSING]
                                     ELSE [i EXCEPT !.close_time = i.close_time - 1]
      <3> HIDE DEF i
      <3> QED BY <2>1 DEF every_second, Outcome, WAITING_TO_CLOSE, CLOSING
    <2>3. CASE i.close_time = 0
      <3>1. j = None
        BY <2>1, <2>2, <2>3 DEF InitStates
      <3> HIDE DEF j
      <3>2. AgedPeer(p) = q
        BY <1>2 DEF AgedPeer, j
      <3>3. /\ q \in PeerEntry /\ q.init = None /\ q.core = p.core
            /\ q.rotation_initiator = p.rotation_initiator
        BY <1>0, <3>1 DEF PeerEntry
      <3> HIDE DEF q
      <3> QED BY <3>2, <3>3 DEF PeerOk
    <2>4. CASE i.close_time # 0
      <3>1. i.close_time - 1 \in 0 .. CLOSE_TIME
        BY <2>1, <2>4, InitAssumption DEF InitStates
      <3>2. /\ init \in InitStates /\ init.hash = i.hash
            /\ init.next_stage = WAITING_TO_CLOSE /\ init.last_message = i.last_message
        BY <2>1, <2>2, <2>4, <3>1 DEF InitStates
      <3>3. j = init
        BY <3>2 DEF WAITING_TO_CLOSE, CLOSING
      <3> HIDE DEF j
      <3>4. AgedPeer(p) = q
        BY <1>2 DEF AgedPeer, j
      <3> HIDE DEF init
      <3>5. /\ q \in PeerEntry /\ q.init = init /\ q.core = p.core
            /\ q.rotation_initiator = p.rotation_initiator
        BY <1>0, <3>2, <3>3 DEF PeerEntry
      <3> HIDE DEF q
      <3> QED BY <1>2, <3>2, <3>4, <3>5 DEF PeerOk
    <2> QED BY <2>3, <2>4
  <1> QED BY <1>1, <1>2

-----------------------------------------------------------------------------
(* Names.                                                                   *)

(* There are two nodes.                                                     *)
LEMMA NodeFacts ==
    ASSUME NEW n \in Node
    PROVE  /\ Other(n) \in Node /\ Other(n) # n /\ Node = {n, Other(n)}
           /\ Other(Other(n)) = n
  BY HandshakeAssumption DEF Node, Other

(* What a node calls its own, the other one does not.                       *)
LEMMA OwnFacts ==
    ASSUME Inv, NEW n \in Node
    PROVE  /\ Own(n) \subseteq Hash /\ Own(n) \subseteq Mentioned(n)
           /\ Own(n) \cap Own(Other(n)) = {}
  <1>1. Own(n) \subseteq Hash
    BY DEF Own, OwnOf
  <1>2. Own(n) \subseteq Mentioned(n)
    <2>1. OwnOf(pending[n], peers[n]) \subseteq HashesOfInit(pending[n]) \cup HashesOfPeer(peers[n])
      BY MentionFacts DEF Inv
    <2> QED BY <2>1 DEF Own, Mentioned
  <1>3. Own(n) \cap Own(Other(n)) = {}
    BY DEF Inv, Node, Other
  <1> QED BY <1>1, <1>2, <1>3

(* A name that is drawn for a new InitState belongs to nobody and is in no  *)
(* datagram.                                                                *)
LEMMA FreshFacts ==
    ASSUME Inv, NEW n \in Node
    PROVE  /\ Fresh \subseteq FreshAfterDrop(n)
           /\ Fresh \cap Own(n) = {}
           /\ FreshAfterDrop(n) \subseteq Hash
           /\ FreshAfterDrop(n) \cap Own(Other(n)) = {}
           /\ \A q \in net, h \in FreshAfterDrop(n) : q.msg \notin MsgFrom(h)
  <1>1. Fresh \subseteq FreshAfterDrop(n)
    BY DEF Fresh, FreshAfterDrop, Node, Other
  <1>2. Fresh \cap Own(n) = {}
    BY OwnFacts DEF Fresh, Node
  <1>3. FreshAfterDrop(n) \subseteq Hash /\ FreshAfterDrop(n) \cap Own(Other(n)) = {}
    BY OwnFacts, NodeFacts DEF FreshAfterDrop
  <1>4. ASSUME NEW q \in net, NEW h \in FreshAfterDrop(n), q.msg \in MsgFrom(h) PROVE FALSE
    <2>1. h \in HashesOfMsg(q.msg)
      BY <1>3, <1>4, MsgFacts, MentionFacts
    <2> QED BY <1>4, <2>1 DEF FreshAfterDrop, InFlight
  <1> QED BY <1>1, <1>2, <1>3, <1>4

\* A step of one node to the pending init i and the peer entry p: it draws only
\* fresh names, sends only messages of InitStates it has, and what it keeps is
\* in order; a core that it puts into use was not in use before.
StepOf(n, i, p, fresh) ==
    /\ pending' = [pending EXCEPT ![n] = i] /\ peers' = [peers EXCEPT ![n] = p]
    /\ i # None => PendingOk(i) /\ i.hash \notin installed'
    /\ p # None => PeerOk(p)
    /\ p # None /\ (peers[n] = None \/ p.core # peers[n].core) => p.core.mine \notin installed
    /\ fresh \subseteq FreshAfterDrop(n)
    /\ OwnOf(i, p) \subseteq Own(n) \cup fresh
    /\ \A q \in net' : \/ q \in net
                       \/ /\ q.to = Other(n)
                          /\ \/ q.msg \in CloseMsg
                             \/ \E h \in Own(n) \cup fresh : q.msg \in MsgFrom(h)
    /\ installed' \subseteq installed \cup Own(n)
    /\ faults' \in 0 .. MaxFaults

Good == Inv' /\ \A m \in Node : InstallsOnce(m)

(* Such a step keeps the invariant, and no core is installed again.         *)
LEMMA LocalStep ==
    ASSUME Inv, NEW n \in Node, NEW i, NEW p, NEW fresh, StepOf(n, i, p, fresh) PROVE Good
  <1> DEFINE o == Other(n)
  <1>1. o \in Node /\ o # n /\ Node = {n, o}
    BY NodeFacts
  <1>2. /\ pending'[n] = i /\ peers'[n] = p /\ pending'[o] = pending[o] /\ peers'[o] = peers[o]
        /\ pending' = [m \in Node |-> pending'[m]] /\ peers' = [m \in Node |-> peers'[m]]
    BY <1>1 DEF Inv, StepOf
  <1>3. Own(n)' = OwnOf(i, p) /\ Own(o)' = Own(o)
    BY <1>2 DEF Own
  <1>4. /\ Own(n)' \cap Own(o)' = {} /\ Own(n) \subseteq Hash /\ fresh \subseteq Hash
        /\ fresh \cap Own(o) = {} /\ Own(n) \cap Own(o) = {}
    BY <1>3, OwnFacts, FreshFacts DEF StepOf
  <1>5. ASSUME NEW m \in Node, pending'[m] # None
        PROVE  PendingOk(pending'[m]) /\ pending'[m].hash \notin installed'
    <2>1. CASE m = n
      BY <1>2, <1>5, <2>1 DEF StepOf
    <2>2. CASE m = o
      <3>1. /\ pending[o] # None /\ PendingOk(pending[o]) /\ pending[o].hash \notin installed
            /\ pending[o].hash \in Hash
        BY <1>2, <1>5, <2>2 DEF Inv, PendingOk, InitStates
      <3>2. pending[o].hash \in Own(o)
        BY <3>1 DEF Own, OwnOf
      <3> QED BY <1>2, <1>4, <2>2, <3>1, <3>2 DEF StepOf
    <2> QED BY <1>1, <2>1, <2>2
  <1>6. ASSUME NEW m \in Node, peers'[m] # None PROVE PeerOk(peers'[m])
    BY <1>1, <1>2, <1>6 DEF Inv, StepOf
  <1>7. ASSUME NEW q \in net' PROVE PacketOk(q)'
    <2>1. CASE q \in net
      <3>1. q.to \in Node /\ (q.msg \in CloseMsg \/ \E h \in Hash \ Own(q.to) : q.msg \in MsgFrom(h))
        BY <2>1 DEF Inv, PacketOk
      <3>2. ASSUME NEW h \in Hash \ Own(q.to), q.msg \in MsgFrom(h) PROVE h \notin Own(q.to)'
        <4>1. CASE q.to = n
          BY <1>3, <2>1, <3>2, <4>1, FreshFacts DEF StepOf
        <4>2. CASE q.to = o
          BY <1>3, <3>2, <4>2
        <4> QED BY <1>1, <3>1, <4>1, <4>2
      <3> QED BY <3>1, <3>2 DEF PacketOk
    <2>2. CASE q.to = o /\ q.msg \in CloseMsg
      BY <1>1, <2>2 DEF PacketOk
    <2>3. ASSUME q.to = o, NEW h \in Own(n) \cup fresh, q.msg \in MsgFrom(h) PROVE PacketOk(q)'
      <3>1. h \in Hash \ Own(o)'
        BY <1>3, <1>4
      <3> QED BY <1>1, <2>3, <3>1 DEF PacketOk
    <2> QED BY <2>1, <2>2, <2>3 DEF StepOf
  <1>8. installed' \subseteq Hash
    BY <1>4 DEF Inv, StepOf
  <1>9. Own(A)' \cap Own(B)' = {}
    BY <1>1, <1>4 DEF Node
  <1>10. \A m \in Node : InstallsOnce(m)
    BY <1>1, <1>2 DEF InstallsOnce, StepOf
  <1> QED BY <1>2, <1>5, <1>6, <1>7, <1>8, <1>9, <1>10 DEF Inv, StepOf, Good

-----------------------------------------------------------------------------
(* The actions, one by one.                                                 *)

(* What is not assigned stays.                                              *)
LEMMA EntryFacts ==
    ASSUME Inv, NEW n \in Node
    PROVE  /\ pending = [pending EXCEPT ![n] = pending[n]]
           /\ peers = [peers EXCEPT ![n] = peers[n]]
           /\ Own(n) = OwnOf(pending[n], peers[n])
           /\ pending[n] # None => pending[n].hash \in Own(n) /\ pending[n].hash \in Hash
           /\ peers[n] # None => peers[n].core.mine \in Own(n) /\ peers[n].core.mine \in Hash
  <1>1. pending = [pending EXCEPT ![n] = pending[n]] /\ peers = [peers EXCEPT ![n] = peers[n]]
    BY DEF Inv
  <1>2. pending[n] # None => pending[n].hash \in Hash
    BY DEF Inv, PendingOk, InitStates
  <1>3. peers[n] # None => peers[n].core.mine \in Hash
    BY DEF Inv, PeerOk, PeerEntry, Core
  <1> QED BY <1>1, <1>2, <1>3 DEF Own, OwnOf

(* A datagram that is delivered may stay, and answers join it.              *)
LEMMA DeliveredFacts ==
    ASSUME Inv, NEW packet, NEW out, Delivered(packet, out)
    PROVE  /\ \A q \in net' : q \in net \/ q \in out
           /\ faults' \in 0 .. MaxFaults
  BY HandshakeAssumption DEF Inv, Delivered

(* What send_to puts on the wire is for the other node.                     *)
LEMMA SentFacts ==
    ASSUME NEW n, NEW out, NEW q \in Sent(n, out)
    PROVE  out # None /\ q.to = Other(n) /\ q.msg = out
  BY DEF Sent, Packet

(* A new InitState that has sent its ping.                                  *)
LEMMA PingFacts ==
    ASSUME NEW hash \in Hash
    PROVE  /\ PendingOk(send_ping(new(hash))) /\ send_ping(new(hash)).hash = hash
           /\ send_ping(new(hash)).last_message \in MsgFrom(hash)
  <1> DEFINE i == send_ping(new(hash))
  <1>1. new(hash) \in InitStates /\ new(hash).hash = hash
    BY InitAssumption DEF new, InitStates, STAGE_PING, CLOSING
  <1>2. /\ PingMsg(hash) \in InitMsg /\ PingMsg(hash) \in MsgFrom(hash)
        /\ <<hash, STAGE_PING>> \in KeyPair /\ STAGE_PONG \in STAGE_PING .. CLOSING
    BY MsgFacts DEF MsgFrom, KeyPair, STAGE_PING, STAGE_PONG, CLOSING
  <1>3. i = [new(hash) EXCEPT !.ecdh_private_key = <<hash, STAGE_PING>>, !.next_stage = STAGE_PONG,
                              !.last_message = PingMsg(hash)]
    BY <1>1 DEF send_ping, PingMsg
  <1>4. /\ i \in InitStates /\ i.hash = hash /\ i.next_stage = STAGE_PONG
        /\ i.ecdh_private_key = <<hash, STAGE_PING>> /\ i.last_message = PingMsg(hash)
    BY <1>1, <1>2, <1>3 DEF InitStates
  <1> HIDE DEF i
  <1>5. PendingOk(i)
    BY <1>4 DEF PendingOk
  <1> QED BY <1>2, <1>4, <1>5 DEF i

(* connect_sock with a name that nobody has, for a peer that is unknown or  *)
(* was just dropped.                                                        *)
LEMMA StartInitGood ==
    ASSUME Inv, NEW n \in Node, NEW hash \in FreshAfterDrop(n), StartInit(n, hash),
           net' = net \cup Ping(n, hash), peers' = [peers EXCEPT ![n] = None],
           faults' \in 0 .. MaxFaults
    PROVE  Good
  <1> DEFINE i == send_ping(new(hash))
  <1>1. hash \in Hash
    BY FreshFacts
  <1>2. /\ PendingOk(i) /\ i.hash = hash /\ i.last_message \in MsgFrom(hash)
        /\ pending' = [pending EXCEPT ![n] = i] /\ installed' = installed \ {hash}
        /\ Ping(n, hash) = Sent(n, i.last_message)
    BY <1>1, PingFacts DEF StartInit, Ping
  <1> HIDE DEF i
  <1>3. OwnOf(i, None) \subseteq {hash}
    BY <1>2 DEF OwnOf
  <1>4. ASSUME NEW q \in net', q \notin net
        PROVE  q.to = Other(n) /\ q.msg \in MsgFrom(hash)
    BY <1>2, <1>4, SentFacts
  <1>5. hash \in Own(n) \cup {hash}
    OBVIOUS
  <1>6. StepOf(n, i, None, {hash})
    BY <1>2, <1>3, <1>4, <1>5 DEF StepOf
  <1> QED BY <1>6, LocalStep

(* connect_sock starts a handshake.                                         *)
LEMMA ConnectGood == ASSUME Inv, NEW n \in Node, Connect(n) PROVE Good
  <1>1. PICK hash \in Fresh : StartInit(n, hash) /\ net' = net \cup Ping(n, hash)
    BY DEF Connect
  <1>2. peers[n] = None /\ peers' = peers /\ faults' = faults /\ faults \in 0 .. MaxFaults
    BY DEF Connect, Inv
  <1>3. peers' = [peers EXCEPT ![n] = None]
    BY <1>2, EntryFacts
  <1> QED BY <1>1, <1>2, <1>3, FreshFacts, StartInitGood

(* A message of another InitState, or a CLOSE.                              *)
LEMMA PacketFacts ==
    ASSUME Inv, NEW n \in Node, NEW packet \in net, packet.to = n, is_init_message(packet.msg)
    PROVE  \E h \in Hash \ Own(n) : packet.msg \in MsgFrom(h)
  <1>1. PacketOk(packet)
    BY DEF Inv
  <1> QED BY <1>1, KindFacts DEF PacketOk

(* A pending init handles a datagram: it goes on, ends and hands its core   *)
(* to the peer entry, or is dropped by handle_socket_event.                 *)
LEMMA ReceivePendingGood ==
    ASSUME Inv, NEW n \in Node, NEW packet \in net, packet.to = n, ReceivePending(n, packet)
    PROVE  Good
  <1> DEFINE i == pending[n]
             outcome == handle_init(i, packet.msg)
  <1>1. i # None /\ PendingOk(i) /\ i.hash \notin installed /\ i.hash \in Own(n) /\ i.hash \in Hash
    BY EntryFacts DEF ReceivePending, Inv
  <1>2. CASE ~is_init_message(packet.msg)
    <2>1. Delivered(packet, {}) /\ UNCHANGED <<pending, peers, installed>>
      BY <1>2 DEF ReceivePending
    <2>2. \A q \in net' : q \in net
      BY <2>1, DeliveredFacts
    <2>3. StepOf(n, pending[n], peers[n], {})
      BY <1>1, <2>1, <2>2, DeliveredFacts, EntryFacts DEF StepOf, Inv
    <2> QED BY <2>3, LocalStep
  <1>3. CASE is_init_message(packet.msg)
    <2>1. PICK h \in Hash \ Own(n) : packet.msg \in MsgFrom(h)
      BY <1>3, PacketFacts
    <2>2. h # i.hash
      BY <1>1, <2>1
    <2>3. outcome = handle_init(i, packet.msg)
      OBVIOUS
    <2>4. /\ Delivered(packet, Sent(n, outcome.out))
          /\ \/ /\ outcome.result = "continue" /\ pending' = [pending EXCEPT ![n] = outcome.init]
                /\ UNCHANGED <<peers, installed>>
             \/ /\ outcome.result \in {"initiator", "responder"}
                /\ pending' = [pending EXCEPT ![n] = None]
                /\ Install(n, outcome)
             \/ /\ outcome.result = "fatal" /\ pending' = [pending EXCEPT ![n] = None]
                /\ UNCHANGED <<peers, installed>>
      <3>1. outcome.result \in {"continue", "initiator", "responder", "fatal"}
        BY <1>1, <2>1, <2>2, PendingHandles
      <3> QED BY <1>3, <3>1 DEF ReceivePending, FailPending
    <2> HIDE DEF outcome, i
    <2>5. /\ outcome.init.hash = i.hash
          /\ outcome.result = "continue" => PendingOk(outcome.init)
          /\ outcome.result \in {"initiator", "responder"} =>
                PeerOk(NewPeer(outcome)) /\ NewPeer(outcome).core.mine = i.hash
          /\ outcome.out # None => outcome.out \in MsgFrom(i.hash)
      BY <1>1, <2>1, <2>2, <2>3, PendingHandles
    <2>6. ASSUME NEW q \in net', q \notin net
          PROVE  q.to = Other(n) /\ \E g \in Own(n) \cup {} : q.msg \in MsgFrom(g)
      BY <1>1, <2>4, <2>5, <2>6, DeliveredFacts, SentFacts
    <2>7. faults' \in 0 .. MaxFaults
      BY <2>4, DeliveredFacts
    <2>8. CASE outcome.result = "continue"
      <3>1. OwnOf(outcome.init, peers[n]) \subseteq Own(n)
        BY <1>1, <2>5, EntryFacts DEF OwnOf
      <3>2. pending' = [pending EXCEPT ![n] = outcome.init] /\ peers' = peers /\ installed' = installed
        BY <2>4, <2>8
      <3>3. StepOf(n, outcome.init, peers[n], {})
        BY <1>1, <2>5, <2>6, <2>7, <2>8, <3>1, <3>2, EntryFacts DEF StepOf, Inv
      <3> QED BY <3>3, LocalStep
    <2>9. CASE outcome.result \in {"initiator", "responder"}
      <3>1. /\ pending' = [pending EXCEPT ![n] = None]
            /\ peers' = [peers EXCEPT ![n] = NewPeer(outcome)]
            /\ installed' = installed \cup {i.hash}
        BY <2>4, <2>5, <2>9 DEF Install
      <3>2. OwnOf(None, NewPeer(outcome)) \subseteq Own(n)
        BY <1>1, <2>5, <2>9 DEF OwnOf
      <3>3. StepOf(n, None, NewPeer(outcome), {})
        BY <1>1, <2>5, <2>6, <2>7, <2>9, <3>1, <3>2 DEF StepOf
      <3> QED BY <3>3, LocalStep
    <2>10. CASE outcome.result = "fatal"
      <3>1. pending' = [pending EXCEPT ![n] = None] /\ peers' = peers /\ installed' = installed
        BY <2>4, <2>10
      <3>2. OwnOf(None, peers[n]) \subseteq Own(n)
        BY EntryFacts DEF OwnOf
      <3>3. StepOf(n, None, peers[n], {})
        BY <2>6, <2>7, <3>1, <3>2, EntryFacts DEF StepOf, Inv
      <3> QED BY <3>3, LocalStep
    <2> QED BY <2>4, <2>8, <2>9, <2>10
  <1> QED BY <1>2, <1>3

(* A peer entry that keeps its InitState repeats the peng and changes       *)
(* nothing.                                                                 *)
LEMMA ReceivePeerInitGood ==
    ASSUME Inv, NEW n \in Node, NEW packet \in net, packet.to = n, ReceivePeerInit(n, packet)
    PROVE  Good
  <1> DEFINE i == peers[n].init
             outcome == handle_init(i, packet.msg)
  <1>1. /\ peers[n] # None /\ i # None /\ is_init_message(packet.msg) /\ pending[n] = None
        /\ PeerOk(peers[n])
    BY DEF ReceivePeerInit, has_init, Inv
  <1>2. /\ i \in InitStates /\ i.hash = peers[n].core.mine /\ i.next_stage = WAITING_TO_CLOSE
        /\ i.last_message \in MsgFrom(i.hash)
    BY <1>1 DEF PeerOk, PeerEntry, MsgFrom
  <1>3. i.hash \in Hash /\ i.hash \in Own(n)
    BY <1>1, <1>2, EntryFacts
  <1>4. i.last_message # None
    BY <1>2, <1>3, MsgFacts, NoneAssumption
  <1>5. PICK h \in Hash \ Own(n) : packet.msg \in MsgFrom(h)
    BY <1>1, PacketFacts
  <1>6. outcome = Outcome(i, i.last_message, "continue")
    BY <1>2, <1>3, <1>4, <1>5, PeerInitHandles
  <1>7. outcome.result = "continue" /\ outcome.init = i /\ outcome.out = i.last_message
    BY <1>6 DEF Outcome
  <1>8. /\ Delivered(packet, Sent(n, i.last_message)) /\ UNCHANGED <<pending, installed>>
        /\ peers' = [peers EXCEPT ![n].init = i]
    BY <1>7 DEF ReceivePeerInit
  <1>9. [peers[n] EXCEPT !.init = peers[n].init] = peers[n]
    BY <1>1 DEF PeerOk, PeerEntry
  <1>10. peers' = [peers EXCEPT ![n] = peers[n]]
    BY <1>8, <1>9
  <1>11. ASSUME NEW q \in net', q \notin net
         PROVE  q.to = Other(n) /\ \E g \in Own(n) \cup {} : q.msg \in MsgFrom(g)
    BY <1>2, <1>3, <1>8, <1>11, DeliveredFacts, SentFacts
  <1>12. faults' \in 0 .. MaxFaults
    BY <1>8, DeliveredFacts
  <1>13. StepOf(n, pending[n], peers[n], {})
    BY <1>1, <1>8, <1>10, <1>11, <1>12, EntryFacts DEF StepOf
  <1> QED BY <1>13, LocalStep

(* A handshake message out of the blue gets an InitState with a fresh name. *)
LEMMA ReceiveNewGood ==
    ASSUME Inv, NEW n \in Node, NEW packet \in net, packet.to = n, ReceiveNew(n, packet)
    PROVE  Good
  <1>1. PICK hash \in Fresh :
            LET outcome == handle_init(new(hash), packet.msg) IN
            /\ Delivered(packet, Sent(n, outcome.out))
            /\ IF outcome.result = "continue"
               THEN /\ pending' = [pending EXCEPT ![n] = outcome.init]
                    /\ installed' = installed \ {hash}
               ELSE UNCHANGED <<pending, installed>>
    BY DEF ReceiveNew
  <1> DEFINE outcome == handle_init(new(hash), packet.msg)
  <1>2. peers' = peers /\ pending[n] = None /\ is_init_message(packet.msg)
    BY DEF ReceiveNew
  <1>3. PICK h \in Hash \ Own(n) : packet.msg \in MsgFrom(h)
    BY <1>2, PacketFacts
  <1>4. hash \in Hash /\ hash \in FreshAfterDrop(n) /\ h # hash
    BY <1>3, FreshFacts
  <1>5. outcome = handle_init(new(hash), packet.msg)
    OBVIOUS
  <1>6. /\ Delivered(packet, Sent(n, outcome.out))
        /\ IF outcome.result = "continue"
           THEN pending' = [pending EXCEPT ![n] = outcome.init] /\ installed' = installed \ {hash}
           ELSE UNCHANGED <<pending, installed>>
    BY <1>1
  <1> HIDE DEF outcome
  <1>7. /\ outcome.result = "continue" => PendingOk(outcome.init) /\ outcome.init.hash = hash
        /\ outcome.out # None => outcome.out \in MsgFrom(hash)
    BY <1>3, <1>4, <1>5, NewHandles
  <1>8. ASSUME NEW q \in net', q \notin net
        PROVE  q.to = Other(n) /\ \E g \in Own(n) \cup {hash} : q.msg \in MsgFrom(g)
    BY <1>6, <1>7, <1>8, DeliveredFacts, SentFacts
  <1>9. faults' \in 0 .. MaxFaults
    BY <1>6, DeliveredFacts
  <1>10. CASE outcome.result = "continue"
    <2>1. OwnOf(outcome.init, peers[n]) \subseteq Own(n) \cup {hash}
      BY <1>7, <1>10, EntryFacts DEF OwnOf
    <2>2. pending' = [pending EXCEPT ![n] = outcome.init] /\ installed' = installed \ {hash}
      BY <1>6, <1>10
    <2>3. StepOf(n, outcome.init, peers[n], {hash})
      BY <1>2, <1>4, <1>7, <1>8, <1>9, <1>10, <2>1, <2>2, EntryFacts DEF StepOf, Inv
    <2> QED BY <2>3, LocalStep
  <1>11. CASE outcome.result # "continue"
    <2>1. UNCHANGED <<pending, installed>>
      BY <1>6, <1>11
    <2>2. StepOf(n, pending[n], peers[n], {hash})
      BY <1>2, <1>4, <1>8, <1>9, <2>1, EntryFacts DEF StepOf, Inv
    <2> QED BY <2>2, LocalStep
  <1> QED BY <1>10, <1>11

(* A CLOSE removes the peer entry at most.                                  *)
LEMMA ReceiveRestGood ==
    ASSUME Inv, NEW n \in Node, NEW packet \in net,
           DropAtBound(n, packet) \/ ReceiveClose(n, packet)
    PROVE  Good
  <1>1. CASE DropAtBound(n, packet)
    <2>1. UNCHANGED <<pending, peers, installed, faults>> /\ \A q \in net' : q \in net
      BY <1>1 DEF DropAtBound
    <2>2. StepOf(n, pending[n], peers[n], {})
      BY <2>1, EntryFacts DEF StepOf, Inv
    <2> QED BY <2>2, LocalStep
  <1>2. CASE ReceiveClose(n, packet)
    <2>1. UNCHANGED <<pending, installed>> /\ Delivered(packet, {})
      BY <1>2 DEF ReceiveClose
    <2>2. faults' \in 0 .. MaxFaults /\ \A q \in net' : q \in net
      BY <2>1, DeliveredFacts
    <2>3. CASE peers' = peers
      <3>1. StepOf(n, pending[n], peers[n], {})
        BY <2>1, <2>2, <2>3, EntryFacts DEF StepOf, Inv
      <3> QED BY <3>1, LocalStep
    <2>4. CASE peers' = [peers EXCEPT ![n] = None]
      <3>1. OwnOf(pending[n], None) \subseteq Own(n)
        BY EntryFacts DEF OwnOf
      <3>2. StepOf(n, pending[n], None, {})
        BY <2>1, <2>2, <2>4, <3>1, EntryFacts DEF StepOf, Inv
      <3> QED BY <3>2, LocalStep
    <2> QED BY <1>2, <2>3, <2>4 DEF ReceiveClose
  <1> QED BY <1>1, <1>2

(* crypto_housekeep: pending inits repeat their message, and peer entries   *)
(* drop InitStates that are CLOSING.                                        *)
LEMMA TickGood == ASSUME Inv, NEW n \in Node, Tick(n) PROVE Good
  <1> DEFINE p == AgedPeer(peers[n])
  <1>1. /\ peers' = [peers EXCEPT ![n] = p] /\ UNCHANGED <<installed, faults>>
        /\ faults \in 0 .. MaxFaults
    BY DEF Tick, Inv
  <1>2. peers[n] = None => p = None
    BY DEF AgedPeer
  <1>3. peers[n] # None => PeerOk(p) /\ p.core = peers[n].core
    BY PeerAges DEF Inv
  <1> HIDE DEF p
  <1>4. \A i : OwnOf(i, p) \subseteq OwnOf(i, peers[n])
    BY <1>2, <1>3 DEF OwnOf
  <1>5. CASE pending[n] = None
    <2>1. UNCHANGED <<pending, net>>
      BY <1>5 DEF Tick
    <2>2. StepOf(n, pending[n], p, {})
      BY <1>1, <1>2, <1>3, <1>4, <1>5, <2>1, EntryFacts DEF StepOf
    <2> QED BY <2>2, LocalStep
  <1>6. CASE pending[n] # None
    <2> DEFINE i == pending[n]
               outcome == every_second(i)
    <2>1. /\ PendingOk(i) /\ i.hash \notin installed /\ i.hash \in Own(n) /\ i.hash \in Hash
      BY <1>6, EntryFacts DEF Inv
    <2>2. /\ outcome.result # "fatal" /\ pending' = [pending EXCEPT ![n] = outcome.init]
          /\ net' = net \cup Sent(n, outcome.out)
      BY <1>6 DEF Tick, GivesUp
    <2>3. /\ PendingOk(outcome.init) /\ outcome.init.hash = i.hash
          /\ outcome.out \in MsgFrom(i.hash)
      BY <2>1, <2>2, PendingAges
    <2> HIDE DEF outcome
    <2>4. ASSUME NEW q \in net', q \notin net
          PROVE  q.to = Other(n) /\ \E g \in Own(n) \cup {} : q.msg \in MsgFrom(g)
      BY <2>1, <2>2, <2>3, <2>4, SentFacts
    <2>5. OwnOf(outcome.init, peers[n]) \subseteq Own(n)
      BY <2>1, <2>3, EntryFacts DEF OwnOf
    <2>6. StepOf(n, outcome.init, p, {})
      BY <1>1, <1>2, <1>3, <1>4, <2>1, <2>2, <2>3, <2>4, <2>5 DEF StepOf
    <2> QED BY <2>6, LocalStep
  <1> QED BY <1>5, <1>6

(* The peer of a node is dropped, and the node connects to it again.        *)
LEMMA ReconnectGood ==
    ASSUME Inv, NEW n \in Node, Reconnect(n), peers' = [peers EXCEPT ![n] = None],
           faults' \in 0 .. MaxFaults
    PROVE  Good
  <1>1. ASSUME NEW hash \in FreshAfterDrop(n), StartInit(n, hash), net' = net \cup Ping(n, hash)
        PROVE  Good
    BY <1>1, StartInitGood
  <1>2. CASE pending' = [pending EXCEPT ![n] = None] /\ UNCHANGED <<net, installed>>
    <2>1. OwnOf(None, None) = {}
      BY DEF OwnOf
    <2>2. StepOf(n, None, None, {})
      BY <1>2, <2>1 DEF StepOf
    <2> QED BY <2>2, LocalStep
  <1> QED BY <1>1, <1>2 DEF Reconnect

(* A handshake gives up, a peer times out, or the node starts again.        *)
LEMMA DropGood ==
    ASSUME Inv, NEW n \in Node, TickGiveUp(n) \/ PeerTimeout(n) \/ Restart(n) PROVE Good
  <1>0. faults \in 0 .. MaxFaults /\ OwnOf(None, None) = {} /\ OwnOf(pending[n], None) \subseteq Own(n)
    BY EntryFacts DEF Inv, OwnOf
  <1>1. CASE TickGiveUp(n)
    <2>1. faults' = faults
      BY <1>1 DEF TickGiveUp
    <2>2. CASE peers[n] = None
      <3>1. pending' = [pending EXCEPT ![n] = None] /\ UNCHANGED <<peers, net, installed>>
        BY <1>1, <2>2 DEF TickGiveUp
      <3>2. StepOf(n, None, peers[n], {})
        BY <1>0, <2>1, <2>2, <3>1, EntryFacts DEF StepOf
      <3> QED BY <3>2, LocalStep
    <2>3. CASE peers[n] # None
      BY <1>0, <1>1, <2>1, <2>3, ReconnectGood DEF TickGiveUp
    <2> QED BY <2>2, <2>3
  <1>2. CASE PeerTimeout(n)
    <2>1. faults' \in 0 .. MaxFaults /\ peers' = [peers EXCEPT ![n] = None]
      BY <1>0, <1>2, HandshakeAssumption DEF PeerTimeout
    <2>2. CASE pending[n] # None
      <3>1. UNCHANGED <<pending, net, installed>>
        BY <1>2, <2>2 DEF PeerTimeout
      <3>2. StepOf(n, pending[n], None, {})
        BY <1>0, <2>1, <2>2, <3>1, EntryFacts DEF StepOf, Inv
      <3> QED BY <3>2, LocalStep
    <2>3. CASE pending[n] = None
      BY <1>2, <2>1, <2>3, ReconnectGood DEF PeerTimeout
    <2> QED BY <2>2, <2>3
  <1>3. CASE Restart(n)
    <2>1. /\ pending' = [pending EXCEPT ![n] = None] /\ peers' = [peers EXCEPT ![n] = None]
          /\ UNCHANGED installed
      BY <1>3 DEF Restart
    <2>2. faults' \in 0 .. MaxFaults
      BY <1>0, <1>3, HandshakeAssumption DEF Restart
    <2>3. ASSUME NEW q \in net', q \notin net PROVE q.to = Other(n) /\ q.msg \in CloseMsg
      <3>1. peers[n] # None /\ q = Packet(Other(n), [close |-> Seal(peers[n].core)])
        BY <1>3, <2>3 DEF Restart
      <3>2. peers[n].core \in Core
        BY <3>1 DEF Inv, PeerOk, PeerEntry
      <3>3. Seal(peers[n].core) \in Sealed
        BY <3>2 DEF Seal, Sealed, Core
      <3> QED BY <3>1, <3>3 DEF Packet, CloseMsg
    <2>4. StepOf(n, None, None, {})
      BY <1>0, <2>1, <2>2, <2>3 DEF StepOf
    <2> QED BY <2>4, LocalStep
  <1> QED BY <1>1, <1>2, <1>3

(* Every step of the two nodes and the network keeps the invariant, and     *)
(* puts no core into use a second time.                                     *)
LEMMA NextGood == Inv /\ [Next]_vars => Good
  <1> SUFFICES ASSUME Inv, [Next]_vars PROVE Good
    OBVIOUS
  <1>1. ASSUME NEW n \in Node, Receive(n) PROVE Good
    <2>1. PICK packet \in net : ReceivePacket(n, packet)
      BY <1>1 DEF Receive
    <2> QED BY <2>1, ReceivePendingGood, ReceivePeerInitGood, ReceiveNewGood, ReceiveRestGood
            DEF ReceivePacket
  <1>2. CASE Lose \/ UNCHANGED vars
    <2>1. A \in Node
      BY DEF Node
    <2>2. /\ UNCHANGED <<pending, peers, installed>> /\ faults' \in 0 .. MaxFaults
          /\ \A q \in net' : q \in net
      BY <1>2, HandshakeAssumption DEF Inv, Lose, vars
    <2>3. StepOf(A, pending[A], peers[A], {})
      BY <2>1, <2>2, EntryFacts DEF StepOf, Inv
    <2> QED BY <2>1, <2>3, LocalStep
  <1> QED BY <1>1, <1>2, ConnectGood, TickGood, DropGood DEF Next

-----------------------------------------------------------------------------
(* What follows.                                                            *)

(* The invariant holds in every reachable state.                            *)
LEMMA Invariance == Spec => []Inv
  <1>1. Init => Inv
    <2> SUFFICES ASSUME Init PROVE Inv
      OBVIOUS
    <2>1. /\ A \in Node /\ B \in Node /\ \A n \in Node : pending[n] = None /\ peers[n] = None
      BY DEF Init, Node
    <2>2. Own(A) = {} /\ Own(B) = {}
      BY <2>1 DEF Own, OwnOf
    <2>3. faults \in 0 .. MaxFaults
      BY HandshakeAssumption DEF Init
    <2> QED BY <2>1, <2>2, <2>3 DEF Init, Inv
  <1>2. Inv /\ [Next]_vars => Inv'
    BY NextGood DEF Good
  <1> QED BY <1>1, <1>2, PTL DEF Spec

(* Two cores for the same key, of different InitStates, are those of an     *)
(* initiator and a responder, and send with nonces of different halves.     *)
LEMMA SameKey ==
    ASSUME NEW g \in Hash, NEW h \in Hash, g # h, NEW x \in Hash, NEW y \in Hash
    PROVE  /\ RespCore(g, x).key # RespCore(h, y).key
           /\ InitCore(g, x).key # InitCore(h, y).key
           /\ RespCore(g, x).key = InitCore(h, y).key => x = h /\ y = g
           /\ RespCore(g, h).half # InitCore(h, g).half
  <1>1. g \in Nat /\ h \in Nat
    BY InitAssumption
  <1>2. (g > h) # (h > g)
    BY <1>1
  <1>3. RespCore(g, h).half # InitCore(h, g).half
    BY <1>2 DEF RespCore, InitCore
  <1>4. ASSUME NEW a, NEW b
        PROVE  /\ <<a, STAGE_PING>> # <<b, STAGE_PONG>>
               /\ <<a, STAGE_PING>> = <<b, STAGE_PING>> => a = b
               /\ <<a, STAGE_PONG>> = <<b, STAGE_PONG>> => a = b
    BY DEF STAGE_PING, STAGE_PONG
  <1> DEFINE resp(a, b) == {<<a, STAGE_PONG>>, <<b, STAGE_PING>>}
             init(a, b) == {<<a, STAGE_PING>>, <<b, STAGE_PONG>>}
  <1>5. RespCore(g, x).key = resp(g, x) /\ RespCore(h, y).key = resp(h, y)
        /\ InitCore(g, x).key = init(g, x) /\ InitCore(h, y).key = init(h, y)
    BY DEF RespCore, InitCore
  <1>6. <<g, STAGE_PONG>> \in resp(g, x) /\ <<g, STAGE_PONG>> \notin resp(h, y)
    BY <1>4
  <1>7. <<g, STAGE_PING>> \in init(g, x) /\ <<g, STAGE_PING>> \notin init(h, y)
    BY <1>4
  <1>8. /\ <<g, STAGE_PONG>> \in init(h, y) => y = g
        /\ <<h, STAGE_PING>> \in resp(g, x) => x = h
        /\ <<g, STAGE_PONG>> \in resp(g, x) /\ <<h, STAGE_PING>> \in init(h, y)
    BY <1>4
  <1> HIDE DEF resp, init
  <1> QED BY <1>3, <1>5, <1>6, <1>7, <1>8

(* ecdh_private_key.take().unwrap() never fails: an init that accepts a     *)
(* pong holds the key of its ping, and the state is well typed.             *)
THEOREM PongAlwaysFindsKey == Spec => []PongFindsKey
  <1>1. Inv => PongFindsKey
    <2> SUFFICES ASSUME Inv PROVE PongFindsKey
      OBVIOUS
    <2>1. ASSUME NEW p \in net PROVE p.to \in Node /\ (p.msg \in InitMsg \/ p.msg \in CloseMsg)
      BY MsgFacts DEF Inv, PacketOk
    <2>2. TypeOK
      BY <2>1 DEF Inv, TypeOK, PendingOk, PeerOk
    <2>3. ASSUME NEW n \in Node, pending[n] # None, pending[n].next_stage = STAGE_PONG
          PROVE  pending[n].ecdh_private_key # None
      <3>1. pending[n].ecdh_private_key = <<pending[n].hash, STAGE_PING>>
        BY <2>3 DEF Inv, PendingOk, STAGE_PONG, STAGE_PENG
      <3>2. pending[n].ecdh_private_key \in KeyPair
        BY <2>3, <3>1 DEF Inv, PendingOk, InitStates, KeyPair
      <3> QED BY <3>2, NoneAssumption
    <2> QED BY <2>2, <2>3 DEF PongFindsKey
  <1> QED BY <1>1, Invariance, PTL

(* However pings cross and datagrams are repeated, the pong made from the   *)
(* pending ping and the peng for the key of the responder decrypt: both     *)
(* ends derive the same key and opposite halves of the nonces.              *)
THEOREM AnswersAlwaysOpen == Spec => []AnswersOpen
  <1>1. Inv => AnswersOpen
    <2> SUFFICES ASSUME Inv, NEW p \in net, pending[p.to] # None, is_init_message(p.msg)
                 PROVE  LET init == pending[p.to]
                            msg == p.msg
                        IN  /\ msg.stage = STAGE_PONG /\ init.next_stage = STAGE_PONG
                               /\ init.ecdh_private_key \in msg.payload.key =>
                                    Opens(agree(init, init.ecdh_private_key, msg), msg.payload)
                            /\ msg.stage = STAGE_PENG /\ init.next_stage = STAGE_PENG
                               /\ init.crypto.key = msg.payload.key =>
                                    Opens(init.crypto, msg.payload)
      BY DEF AnswersOpen
    <2> DEFINE i == pending[p.to]
               m == p.msg
    <2>1. p.to \in Node /\ PendingOk(i)
      BY DEF Inv, PacketOk
    <2>2. PICK h \in Hash \ Own(p.to) : m \in MsgFrom(h)
      BY <2>1, PacketFacts
    <2>3. h # i.hash /\ i.hash \in Hash /\ h \in Hash
      BY <2>1, <2>2, EntryFacts
    <2> HIDE DEF i, m
    <2>4. ASSUME m.stage = STAGE_PONG, i.next_stage = STAGE_PONG, i.ecdh_private_key \in m.payload.key
          PROVE  Opens(agree(i, i.ecdh_private_key, m), m.payload)
      <3>1. PICK x \in Hash \ {h} : m = PongMsg(h, x)
        BY <2>2, <2>4, StageFacts
      <3>2. /\ m.hash = h /\ m.pub = <<h, STAGE_PONG>> /\ m.payload = Seal(RespCore(h, x))
            /\ i.ecdh_private_key = <<i.hash, STAGE_PING>>
        BY <2>1, <2>4, <3>1 DEF PongMsg, PendingOk, STAGE_PONG, STAGE_PENG
      <3>3. x = i.hash
        BY <2>4, <3>2 DEF Seal, RespCore, STAGE_PING, STAGE_PONG
      <3>4. agree(i, i.ecdh_private_key, m) = InitCore(i.hash, h)
        BY <3>2 DEF agree, InitCore
      <3>5. RespCore(h, i.hash).half # InitCore(i.hash, h).half
        BY <2>3, SameKey
      <3>6. RespCore(h, i.hash).key = InitCore(i.hash, h).key
        BY DEF RespCore, InitCore
      <3> QED BY <3>2, <3>3, <3>4, <3>5, <3>6 DEF Opens, Seal
    <2>5. ASSUME m.stage = STAGE_PENG, i.next_stage = STAGE_PENG, i.crypto.key = m.payload.key
          PROVE  Opens(i.crypto, m.payload)
      <3>1. PICK y \in Hash \ {h} : m = PengMsg(h, y)
        BY <2>2, <2>5, StageFacts
      <3>2. PICK x \in Hash \ {i.hash} : i.crypto = RespCore(i.hash, x)
        BY <2>1, <2>5 DEF PendingOk, STAGE_PONG, STAGE_PENG
      <3>3. m.payload = Seal(InitCore(h, y))
        BY <3>1 DEF PengMsg
      <3>4. RespCore(i.hash, x).key = InitCore(h, y).key
        BY <2>5, <3>2, <3>3 DEF Seal
      <3>5. x = h /\ y = i.hash /\ RespCore(i.hash, h).half # InitCore(h, i.hash).half
        BY <2>3, <3>4, SameKey
      <3> QED BY <2>5, <3>2, <3>3, <3>5 DEF Opens, Seal
    <2> QED BY <2>4, <2>5 DEF i, m
  <1> QED BY <1>1, Invariance, PTL

(* Exactly one end of a connection starts the key rotation.                 *)
THEOREM ExactlyOneInitiator == Spec => []OneRotationInitiator
  <1>1. Inv => OneRotationInitiator
    <2> SUFFICES ASSUME Inv, peers[A] # None, peers[B] # None, peers[A].core.key = peers[B].core.key
                 PROVE  peers[A].rotation_initiator # peers[B].rotation_initiator
      BY DEF OneRotationInitiator, SameSession
    <2> DEFINE g == peers[A].core.mine
               h == peers[B].core.mine
    <2>1. A \in Node /\ B \in Node /\ PeerOk(peers[A]) /\ PeerOk(peers[B])
      BY DEF Inv, Node
    <2>2. g \in Own(A) /\ h \in Own(B) /\ g \in Hash /\ h \in Hash
      BY <2>1, EntryFacts
    <2>3. g # h
      BY <2>2 DEF Inv
    <2>4. PICK x \in Hash :
            \/ peers[A].rotation_initiator = TRUE /\ peers[A].core = RespCore(g, x)
            \/ peers[A].rotation_initiator = FALSE /\ peers[A].core = InitCore(g, x)
      BY <2>1 DEF PeerOk
    <2>5. PICK y \in Hash :
            \/ peers[B].rotation_initiator = TRUE /\ peers[B].core = RespCore(h, y)
            \/ peers[B].rotation_initiator = FALSE /\ peers[B].core = InitCore(h, y)
      BY <2>1 DEF PeerOk
    <2> HIDE DEF g, h
    <2>6. RespCore(g, x).key # RespCore(h, y).key /\ InitCore(g, x).key # InitCore(h, y).key
      BY <2>2, <2>3, SameKey
    <2> QED BY <2>4, <2>5, <2>6
  <1> QED BY <1>1, Invariance, PTL

(* No step puts a core into use whose InitState already did: a duplicated   *)
(* pong or peng never starts the nonces of a key anew.                      *)
THEOREM KeyNeverInstalledAgain == Spec => KeyInstalledOnce
  <1>1. Inv /\ [Next]_vars => [\A n \in Node : InstallsOnce(n)]_vars
    BY NextGood DEF Good
  <1> QED BY <1>1, Invariance, PTL DEF Spec, KeyInstalledOnce
=============================================================================
