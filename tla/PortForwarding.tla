--------------------------- MODULE PortForwarding ----------------------------
(***************************************************************************)
(* The port forwarding that a node requests from its router,               *)
(* src/port_forwarding.rs: it tries external ports until the router        *)
(* accepts one, extends the lease shortly before it ends, and removes the  *)
(* forwarding when it stops.  The router forgets leases that end, may      *)
(* support permanent leases only, may refuse, and its answer may be lost   *)
(* after it has acted.                                                     *)
(***************************************************************************)
EXTENDS Timers

CONSTANTS LEASE_TIME,      \* 1800 in the code
          MARGIN,          \* the lease is extended this long before it ends: 60
          PORTS,           \* how many values a port has, 65536
          port,            \* the listen port
          MaxFaults,       \* bound: answers that are lost, calls that fail
          MaxSkipped       \* bound: rounds of housekeep in a row that fail early

ASSUME ForwardingAssumption ==
    /\ LEASE_TIME \in Nat \ {0} /\ MARGIN \in 0 .. LEASE_TIME /\ PORTS \in Nat \ {0}
    /\ port \in 1 .. PORTS - 1 /\ MaxFaults \in Nat /\ MaxSkipped \in Nat
    /\ Absent \notin Int

Port == 1 .. PORTS - 1
PERMANENT == -1            \* a forwarding without lease
ATTEMPTS == 1 .. 11        \* the calls of get_forwarding in get_any_forwarding

VARIABLES router,          \* Absent, or what is left of the lease of each port
          permanent_only,  \* the router supports permanent leases only
          taken,           \* external ports that the router gives to others
          attempt,         \* the next attempt of get_any_forwarding, Absent when it is over
          external,        \* external_addr.port(), Absent without forwarding
          next_extension,  \* seconds until the extension is due, Absent for never
          since,           \* seconds since the last housekeep
          skipped,         \* rounds of housekeep since the last call of check_extend
          running, faults,
          trouble          \* the router failed since it last granted the lease (history)

vars == <<router, permanent_only, taken, attempt, external, next_extension, since,
          skipped, running, faults, trouble>>

Init ==
    /\ router = [p \in Port |-> Absent]
    /\ permanent_only \in BOOLEAN /\ taken \in SUBSET Port
    /\ attempt = 1 /\ external = Absent /\ next_extension = Absent
    /\ since = 0 /\ skipped = 0 /\ running = TRUE /\ faults = 0 /\ trouble = FALSE

-----------------------------------------------------------------------------
(* The router.                                                              *)

Granted(p, lease) == [router EXCEPT ![p] = lease]
Fault == faults < MaxFaults /\ faults' = faults + 1

\* The ports an attempt may ask for; 0 asks for any.  The sum wraps.
Asked(i) ==
    CASE i = 1 -> {port}
      [] i = 2 -> {0}
      [] i \in 3 .. 6 -> {(port + i - 2) % PORTS}
      [] i \in 7 .. 11 -> 0 .. PORTS - 1

\* The ports that the router may give to someone who asks for p.
Offer(p) == (IF p = 0 THEN Port ELSE {p}) \ taken

\* Mutant: a permanent forwarding is requested from any router.
LeasePermanent == PERMANENT

\* get_forwarding asks for a lease, and for a permanent one if the router
\* supports nothing else.
Lease == IF permanent_only THEN PERMANENT ELSE LEASE_TIME

-----------------------------------------------------------------------------
(* PortForwarding::new and get_any_forwarding, before the main loop runs.   *)

\* No router, or one that does not tell its address.
NoGateway ==
    /\ attempt = 1 /\ Fault
    /\ attempt' = Absent
    /\ UNCHANGED <<router, permanent_only, taken, external, next_extension, since, skipped, running, trouble>>

Success(p) ==
    /\ router' = Granted(p, Lease)
    /\ external' = p /\ attempt' = Absent
    /\ next_extension' = IF Lease > 0 THEN Lease - MARGIN ELSE Absent
    /\ trouble' = FALSE
    /\ UNCHANGED <<permanent_only, taken, since, skipped, running, faults>>

\* The router refuses, or grants the port and the answer is lost.
Failure(asked) ==
    /\ \/ Offer(asked) = {} /\ UNCHANGED <<router, faults>>
       \/ Fault /\ UNCHANGED router
       \/ Fault /\ \E p \in Offer(asked) : router' = Granted(p, Lease)
    /\ attempt' = IF attempt + 1 \in ATTEMPTS THEN attempt + 1 ELSE Absent
    /\ UNCHANGED <<permanent_only, taken, external, next_extension, since, skipped, running, trouble>>

get_forwarding ==
    /\ attempt # Absent
    /\ \E asked \in Asked(attempt) : Failure(asked) \/ \E p \in Offer(asked) : Success(p)

-----------------------------------------------------------------------------
(* check_extend, from housekeep, and the end.                               *)

\* The main loop runs.
Looping == attempt = Absent /\ running

\* Mutant: the lease is extended when it has ended.
DueLate == next_extension # Absent /\ next_extension + MARGIN < 0

Due == next_extension # Absent /\ next_extension <= 0

\* Mutant: after a failure there is no other attempt.
ScheduleExtensionOnce == next_extension' = IF trouble' THEN Absent ELSE LEASE_TIME - MARGIN

\* The next extension is due a lease later, whether this one worked or not.
ScheduleExtension == next_extension' = LEASE_TIME - MARGIN

check_extend ==
    /\ Looping /\ since = HOUSEKEEP
    /\ since' = 0 /\ skipped' = 0
    /\ IF ~Due
       THEN UNCHANGED <<router, next_extension, faults, trouble>>
       ELSE /\ \/ /\ router' = Granted(external, LEASE_TIME)
                  /\ trouble' = FALSE /\ UNCHANGED faults
               \/ Fault /\ trouble' = TRUE /\ router' \in {router, Granted(external, LEASE_TIME)}
            /\ ScheduleExtension
    /\ UNCHANGED <<permanent_only, taken, attempt, external, running>>

\* Before it gets to check_extend, housekeep returns with the error of a send: to a
\* peer that timed out, or in crypto_housekeep, for as long as a handshake is
\* pending whose messages cannot be sent.
HousekeepFails ==
    /\ Looping /\ since = HOUSEKEEP /\ skipped < MaxSkipped
    /\ since' = 0 /\ skipped' = skipped + 1
    /\ UNCHANGED <<router, permanent_only, taken, attempt, external, next_extension, running, faults, trouble>>

\* The node stops: drop calls deactivate.  Without a clean end it does not.
Stop ==
    /\ Looping
    /\ running' = FALSE
    /\ \/ external # Absent /\ router' = [router EXCEPT ![external] = Absent] /\ UNCHANGED faults
       \/ external = Absent /\ UNCHANGED <<router, faults>>
       \/ Fault /\ UNCHANGED router
    /\ UNCHANGED <<permanent_only, taken, attempt, external, next_extension, since, skipped, trouble>>

-----------------------------------------------------------------------------
Ended(lease) == IF lease = Absent \/ lease = PERMANENT THEN lease
                ELSE IF lease = 1 THEN Absent ELSE lease - 1

\* A second passes; leases that end are forgotten.
Tick ==
    /\ Looping => since < HOUSEKEEP
    /\ since' = IF Looping THEN since + 1 ELSE since
    /\ router' = [p \in Port |-> Ended(router[p])]
    /\ next_extension' = IF next_extension = Absent \/ ~running THEN next_extension
                         ELSE next_extension - 1
    /\ UNCHANGED <<permanent_only, taken, attempt, external, skipped, running, faults, trouble>>

\* The router restarts and forgets everything.
RouterRestarts ==
    /\ Fault /\ router' = [p \in Port |-> Absent] /\ trouble' = TRUE
    /\ UNCHANGED <<permanent_only, taken, attempt, external, next_extension, since, skipped, running>>

Next == NoGateway \/ get_forwarding \/ check_extend \/ HousekeepFails \/ Stop \/ Tick \/ RouterRestarts

Spec == Init /\ [][Next]_vars

\* Time passes and run calls housekeep, which gets to check_extend again at last.
FairSpec == Spec /\ WF_vars(get_forwarding) /\ WF_vars(Tick) /\ WF_vars(check_extend)

-----------------------------------------------------------------------------
\* Seconds since the last call of check_extend.
Late == HOUSEKEEP * skipped + since

\* Types.  In particular an extension is never scheduled later than the margin
\* before the end of the lease.
TypeOK ==
    /\ router \in [Port -> (1 .. LEASE_TIME) \cup {Absent, PERMANENT}]
    /\ attempt \in ATTEMPTS \cup {Absent} /\ external \in Port \cup {Absent}
    /\ next_extension = Absent \/ next_extension \in -Late .. LEASE_TIME - MARGIN
    /\ since \in 0 .. HOUSEKEEP /\ skipped \in 0 .. MaxSkipped /\ faults \in 0 .. MaxFaults

Forwarded == external # Absent /\ router[external] # Absent

\* The lease never lapses while the node runs and the router does not fail, as
\* long as housekeep has got to check_extend within the margin, which may take it
\* several rounds.  The state is well typed.
LeaseKept ==
    /\ TypeOK
    /\ running /\ external # Absent /\ ~trouble /\ Late < MARGIN => Forwarded

\* A forwarding with a lease comes back after the router has failed or
\* restarted, as soon as an extension works again.
ComesBack == []<>(~running \/ external = Absent \/ permanent_only \/ Forwarded)

\* What a node that has stopped leaves behind, after lost answers and failed
\* removals, ends with its lease.
LeasesEnd == (~running /\ ~permanent_only) ~> \A p \in Port : router[p] = Absent
=============================================================================
