---------------------------- MODULE HandshakeLive ----------------------------
(***************************************************************************)
(* Handshake with the timing that its progress depends on.  Time passes in *)
(* beats.  Every BEATS beats each node runs housekeep, node B later than A *)
(* by SHIFT beats.  A datagram is delivered before the end of the beat     *)
(* after the one it was sent in: a round trip is shorter than the seconds  *)
(* that the handshake waits.  A peer times out when PEER_TIMEOUT calls of  *)
(* housekeep have passed without a message of the other node reaching it,  *)
(* and a node that has no connection tries again after PAUSE calls: the    *)
(* reconnect interval, which doubles, outgrows the life of a pending init. *)
(***************************************************************************)
EXTENDS Handshake

CONSTANTS BEATS, SHIFT, PEER_TIMEOUT, PAUSE

ASSUME LiveAssumption ==
    /\ BEATS \in Nat /\ SHIFT \in 1 .. BEATS - 1
    /\ PEER_TIMEOUT \in Nat /\ PAUSE \in Nat

VARIABLES beat,
          old,        \* datagrams sent before this beat
          silent,     \* calls of housekeep since a peer entry was last renewed
          rest        \* calls of housekeep until the node connects again

liveVars == <<vars, beat, old, silent, rest>>

LiveInit ==
    /\ Init
    /\ beat = 0 /\ old = {}
    /\ silent = [n \in Node |-> 0] /\ rest = [n \in Node |-> 0]

\* Between the beats.  A new peer entry starts with its full timeout.
Untimed(action) ==
    /\ action
    /\ old' = old \cap net'
    /\ silent' = [n \in Node |-> IF peers'[n] # peers[n] THEN 0 ELSE silent[n]]
    /\ UNCHANGED beat

LiveConnect(n) ==
    rest[n] = 0 /\ Untimed(Connect(n)) /\ rest' = [rest EXCEPT ![n] = PAUSE]
LiveReceive(n) == Untimed(Receive(n)) /\ UNCHANGED rest
LiveReceiveOld(n) ==
    Untimed(\E packet \in old : ReceivePacket(n, packet)) /\ UNCHANGED rest
LiveRestart(n) == Untimed(Restart(n)) /\ rest' = [rest EXCEPT ![n] = 0]
LiveLose == Untimed(Lose) /\ UNCHANGED rest

\* housekeep drops peers that timed out, then runs crypto_housekeep.
LiveTick(n) ==
    /\ IF peers[n] = None \/ Renewed(n)
       THEN (Tick(n) \/ TickGiveUp(n)) /\ silent' = [silent EXCEPT ![n] = 0]
       ELSE IF silent[n] < PEER_TIMEOUT
       THEN (Tick(n) \/ TickGiveUp(n)) /\ silent' = [silent EXCEPT ![n] = @ + 1]
       ELSE PeerTimeout(n) /\ silent' = [silent EXCEPT ![n] = 0]
    /\ rest' = [rest EXCEPT ![n] = IF @ = 0 THEN 0 ELSE @ - 1]

NewBeat ==
    /\ old = {}
    /\ beat' = (beat + 1) % BEATS
    /\ CASE beat' = 0 -> LiveTick(A)
         [] beat' = SHIFT -> LiveTick(B)
         [] OTHER -> UNCHANGED <<vars, silent, rest>>
    /\ old' = net'

LiveNext ==
    \/ \E n \in Node : LiveConnect(n) \/ LiveReceive(n) \/ LiveRestart(n)
    \/ LiveLose
    \/ NewBeat

\* Housekeep runs, the network delivers, and node A has B in its peer list.
Fairness ==
    /\ WF_liveVars(LiveConnect(A))
    /\ \A n \in Node : WF_liveVars(LiveReceiveOld(n))
    /\ WF_liveVars(NewBeat)

FairSpec == LiveInit /\ [][LiveNext]_liveVars /\ Fairness

Connected == SameSession(peers[A], peers[B]) /\ pending[A] = None /\ pending[B] = None

(* Whatever was lost, duplicated or restarted, crossed or left over, the    *)
(* two nodes end up with one connection between them, and keep it.          *)
EventuallyConnected == <>[]Connected
=============================================================================
