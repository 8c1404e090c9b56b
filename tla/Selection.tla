------------------------------ MODULE Selection ------------------------------
(***************************************************************************)
(* How two nodes select an algorithm: select_algorithm of                  *)
(* src/crypto/init.rs and parse_algorithms of src/crypto/common.rs.        *)
(* AES128, AES256 and ChaCha20 are 1 to 3, no encryption is 0.             *)
(***************************************************************************)
EXTENDS Integers, Sequences, Option

DEFAULT_ALGORITHMS == <<1, 2, 3>>

Allowed(names) == IF names = <<>> THEN DEFAULT_ALGORITHMS ELSE names

\* parse_algorithms and Crypto::new: the algorithms that are allowed, in the
\* order of the configuration, each with the speed that was measured for this
\* entry of the list.  An algorithm that is listed twice is measured twice.
parse_algorithms(names, speed) ==
    LET allowed == Allowed(names)
        algos[i \in 0 .. Len(allowed)] ==
            IF i = 0 THEN <<>>
            ELSE IF allowed[i] = 0 THEN algos[i - 1]
            ELSE Append(algos[i - 1], <<allowed[i], speed[i]>>)
    IN  [algorithm_speeds |-> algos[Len(allowed)],
         allow_unencrypted |-> \E i \in DOMAIN allowed : allowed[i] = 0]

Slower(s, t) == IF s < t THEN s ELSE t

\* Where an algorithm is listed, and the first of these places.
Places(speeds, a) == {i \in DOMAIN speeds : speeds[i][1] = a}
Place(speeds, a) == CHOOSE i \in Places(speeds, a) : \A j \in Places(speeds, a) : i <= j

\* Mutant: the own speed counts.
MinimalOwn(own, peer, i) == own[i][2]

\* The minimal speed of the algorithm that is listed at place i.
Minimal(own, peer, i) == Slower(own[i][2], peer[Place(peer, own[i][1])][2])

\* The comparison of max_by never says equal, so the first of the fastest wins.
Fastest(own, peer, common) ==
    CHOOSE i \in common : \A j \in common :
        \/ Minimal(own, peer, j) < Minimal(own, peer, i)
        \/ Minimal(own, peer, j) = Minimal(own, peer, i) /\ i <= j

\* <<>> for no encryption, Absent for the error that there is nothing in common.
select_algorithm(own, peer) ==
    LET mine == own.algorithm_speeds
        theirs == peer.algorithm_speeds
        common == {i \in DOMAIN mine : Places(theirs, mine[i][1]) # {}}
        best == Fastest(mine, theirs, common)
    IN  IF own.allow_unencrypted /\ peer.allow_unencrypted THEN <<>>
        ELSE IF common = {} THEN Absent
        ELSE <<mine[best][1], Minimal(mine, theirs, best)>>
=============================================================================
