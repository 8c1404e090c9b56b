------------------------------- MODULE MCCloud -------------------------------
(* Sending to no address or to both may fail.  Addresses are               *)
(* interchangeable.  No action reads how long a peer heard nothing, and     *)
(* when sending may fail no property asks for more than one interval.       *)
EXTENDS Cloud, TLC

AddrSymmetry == Permutations(Addr)

NoneOrAll == {{}, Addr}
One == {{CHOOSE a \in Addr : TRUE}}

Capped == [a \in Addr |-> IF peers[a] = None THEN None
             ELSE [peers[a] EXCEPT !.quiet = IF @ > INTERVAL THEN INTERVAL + 1 ELSE @]]
WithoutHistory ==
    <<IF flaky = {} THEN peers ELSE Capped, claims, pending, next_peers, since, flaky, failing>>
=============================================================================
