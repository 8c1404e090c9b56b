------------------------------- MODULE Timers --------------------------------
(***************************************************************************)
(* How long a node waits, in seconds and with the widths of the integers:  *)
(* until it sends its node info again (get_keepalive in src/config.rs and  *)
(* housekeep in src/cloud.rs), and until it tries a configured peer again  *)
(* (reconnect_to_peers in src/cloud.rs).                                   *)
(***************************************************************************)
EXTENDS Integers, Option

DEFAULT_PEER_TIMEOUT == 300
MAX_RECONNECT_INTERVAL == 3600
HOUSEKEEP == 2            \* seconds between rounds of housekeep

U16 == 65536
u16(n) == n % U16
AtLeastOne(n) == IF n = 0 THEN 1 ELSE n
Lesser(m, n) == IF m < n THEN m ELSE n

-----------------------------------------------------------------------------
(* Node infos.  Subtractions of unsigned numbers wrap in a release build.   *)

\* update_freq: get_keepalive, 32 bits wide, of which the node keeps 16.
update_freq(keepalive, peer_timeout) ==
    u16(IF keepalive # Absent THEN keepalive ELSE AtLeastOne(peer_timeout \div 2 - 60))

\* Mutant: only the own timeout counts.
intervalOwn(freq, timeouts) == freq

\* Seconds until the next node info is due, given what the peers have published.
interval(freq, timeouts) ==
    LET min_peer_timeout == IF timeouts = {} THEN DEFAULT_PEER_TIMEOUT
                            ELSE CHOOSE t \in timeouts : \A u \in timeouts : t <= u
    IN  Lesser(freq, AtLeastOne(u16(min_peer_timeout \div 2 - 60)))

-----------------------------------------------------------------------------
(* An entry of the reconnect list: its tries, its timeout, and the seconds  *)
(* until the next attempt.                                                  *)

add_reconnect_peer == [tries |-> 0, timeout |-> 1, next |-> 0]

\* Mutant: the interval grows without limit.
BackOffUnlimited(entry) ==
    LET timeout == IF entry.tries = 10 THEN entry.timeout * 2 ELSE entry.timeout
    IN  [tries |-> IF entry.tries = 10 THEN 0 ELSE entry.tries + 1,
         timeout |-> timeout, next |-> timeout]

\* The entry was due and is scheduled again.
BackOff(entry) ==
    LET full == entry.tries + 1 > 10
        timeout == Lesser(IF full THEN entry.timeout * 2 ELSE entry.timeout, MAX_RECONNECT_INTERVAL)
    IN  [tries |-> IF full THEN 0 ELSE entry.tries + 1, timeout |-> timeout, next |-> timeout]

\* The entry after a round of reconnect_to_peers, seconds after the last one.
\* The keys of peers are mapped addresses; the entry has what resolve returned.
Reconnected(entry, seconds, connected, mapped) ==
    LET later == [entry EXCEPT !.next = IF @ > seconds THEN @ - seconds ELSE 0]
    IN  IF connected /\ mapped THEN [tries |-> 0, timeout |-> 1, next |-> 1]
        ELSE IF later.next > 0 THEN later
        ELSE BackOff(later)
=============================================================================
