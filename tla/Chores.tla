------------------------------- MODULE Chores --------------------------------
(***************************************************************************)
(* The last chores of a round of housekeep, src/cloud.rs: statistics, the  *)
(* peers of the last beacon, storing and loading beacons.  Each may fail,  *)
(* and then the round ends there.  The counters behind the statistics are  *)
(* those of src/traffic.rs, one entry per peer, per pair of addresses and  *)
(* for what was dropped; of the counters of an entry the packets of the    *)
(* period are modelled.  Between the statistics and the beacon the main    *)
(* loop empties BeaconMailbox, step by step beside the threads that fill   *)
(* it.  Points in time are kept as the seconds left until then.            *)
(***************************************************************************)
EXTENDS BeaconMailbox

CONSTANTS None,
          Key,               \* keys of traffic entries
          Dropped,           \* the entry that is always there
          STATS_INTERVAL,    \* 60 in the code
          BEACON_INTERVAL,   \* config.beacon_interval, 3600 by default
          CLEANUP_IDLE,      \* 5 in the code
          Outages,           \* which sets of chores may fail together
          MaxCount           \* bound: packets counted for each entry

ASSUME ChoresAssumption ==
    /\ Dropped \in Key /\ IsFiniteSet(Reader)
    /\ STATS_INTERVAL \in Nat /\ BEACON_INTERVAL \in Nat /\ CLEANUP_IDLE \in Nat \ {0}
    /\ Outages \subseteq SUBSET {"network", "stats_file", "statsd", "connect", "store", "load"}
    /\ MaxCount \in [Key -> Nat] /\ None \notin [packets : Nat, idle : Nat]

VARIABLES traffic,      \* None, or the packets of this period and how many periods
                        \* the entry has been idle
          next_stats,   \* seconds until next_stats_out
          next_beacon,
          since,        \* seconds since the last housekeep
          loader,       \* config.beacon_load: a file, a command that ends before the
                        \* next one is due, or one that may take longer
          flaky,        \* the chores that may fail, ever
          failing,      \* the chores that fail at the moment
          stored,       \* the last round of housekeep stored a beacon
          counted,      \* all packets ever counted (history)
          reported      \* packets reported to the statsd server (history)

config == <<loader, flaky>>
books == <<traffic, next_stats, next_beacon, stored, reported>>
vars == <<mailbox, books, since, config, failing, counted>>

HOUSEKEEP == 2          \* seconds between rounds of housekeep

NewEntry == [packets |-> 0, idle |-> 0]
Packets(entry) == IF entry = None THEN 0 ELSE entry.packets

Init ==
    /\ MailInit
    /\ traffic = [k \in Key |-> IF k = Dropped THEN NewEntry ELSE None]
    /\ next_stats = STATS_INTERVAL /\ next_beacon = 0
    /\ since = 0 /\ stored = FALSE
    /\ loader \in {"file", "prompt command", "slow command"}
    /\ flaky \in Outages /\ failing = {}
    /\ counted = [k \in Key |-> 0] /\ reported = [k \in Key |-> 0]

-----------------------------------------------------------------------------
(* TrafficStats.                                                            *)

\* count_in and count_out.
Count(k) ==
    /\ counted[k] < MaxCount[k]
    /\ counted' = [counted EXCEPT ![k] = @ + 1]
    /\ LET entry == IF traffic[k] = None THEN NewEntry ELSE traffic[k]
       IN  traffic' = [traffic EXCEPT ![k] = [entry EXCEPT !.packets = @ + 1]]
    /\ UNCHANGED <<mailbox, next_stats, next_beacon, stored, reported, since, config, failing>>

\* Bound: beyond the limit it does not matter how long an entry was idle.
Idler(idle) == IF idle < CLEANUP_IDLE THEN idle + 1 ELSE idle

\* TrafficEntry::period.
Period(entry) == [packets |-> 0, idle |-> IF entry.packets = 0 THEN Idler(entry.idle) ELSE 0]

\* Mutant: idle entries are kept.
cleanupNever(k, entry) == entry

cleanup(k, entry) == IF k = Dropped \/ entry.idle < CLEANUP_IDLE THEN entry ELSE None

\* TrafficStats::period.
period(entries) ==
    [k \in Key |-> IF entries[k] = None THEN None ELSE cleanup(k, Period(entries[k]))]

-----------------------------------------------------------------------------
(* housekeep.                                                               *)

Fails(chore) == chore \in failing

\* The statsd server gets the packets of the period.
Report == reported' = [k \in Key |-> reported[k] + Packets(traffic[k])]

NewPeriod == next_stats' = STATS_INTERVAL /\ traffic' = period(traffic)

\* Mutant: the report is sent before the file is written.
StatsSwapped(ok) ==
    IF next_stats >= 0 THEN ok /\ UNCHANGED <<traffic, next_stats, reported>>
    ELSE IF Fails("statsd") THEN ~ok /\ UNCHANGED <<traffic, next_stats, reported>>
    ELSE IF Fails("stats_file") THEN ~ok /\ Report /\ UNCHANGED <<traffic, next_stats>>
    ELSE ok /\ Report /\ NewPeriod

\* write_out_stats, send_stats_to_statsd, and a new period; ok tells whether
\* the round goes on.
Stats(ok) ==
    IF next_stats >= 0 THEN ok /\ UNCHANGED <<traffic, next_stats, reported>>
    ELSE IF Fails("stats_file") \/ Fails("statsd")
    THEN ~ok /\ UNCHANGED <<traffic, next_stats, reported>>
    ELSE ok /\ Report /\ NewPeriod

\* The round begins; what comes before the statistics may fail as well.
Begin ==
    /\ since = HOUSEKEEP /\ main = "idle"
    /\ stored' = FALSE
    /\ \/ /\ ~Fails("network") /\ Stats(TRUE)
          /\ LoadFlag /\ UNCHANGED since
       \/ /\ ~Fails("network") /\ Stats(FALSE)
          /\ since' = 0 /\ UNCHANGED mailbox
       \/ /\ Fails("network") /\ UNCHANGED <<traffic, next_stats, reported>>
          /\ since' = 0 /\ UNCHANGED mailbox
    /\ UNCHANGED <<next_beacon, config, failing, counted>>

\* get_cmd_results, and the node connects to the peers it returns.
Results ==
    /\ \/ SwapOut /\ UNCHANGED since
       \/ StoreFalse(TRUE) /\ ~Fails("connect") /\ UNCHANGED since
       \/ StoreFalse(FALSE) /\ Fails("connect") /\ since' = 0
    /\ UNCHANGED <<books, config, failing, counted>>

\* Mutant: the beacon is loaded before it is stored.
BeaconLoadFirst ==
    LET done == next_beacon < 0 /\ ~Fails("load") /\ ~Fails("store")
    IN  /\ main = "beacon"
        /\ stored' = done
        /\ IF done /\ loader # "file" THEN \E r \in Reader : read_from_cmd(r) ELSE NoCommand
        /\ next_beacon' = IF done THEN BEACON_INTERVAL ELSE next_beacon
        /\ since' = 0
        /\ UNCHANGED <<traffic, next_stats, reported, config, failing, counted>>

\* store_beacon, then load_beacon: from a file, whose peers the node connects
\* to, or by starting a command.  The round ends.
Beacon ==
    LET due == next_beacon < 0
        loads == due /\ ~Fails("store") /\ ~Fails("load")
    IN  /\ main = "beacon"
        /\ stored' = (due /\ ~Fails("store"))
        /\ IF loads /\ loader # "file" THEN \E r \in Reader : read_from_cmd(r) ELSE NoCommand
        /\ next_beacon' = IF loads /\ ~(loader = "file" /\ Fails("connect"))
                          THEN BEACON_INTERVAL ELSE next_beacon
        /\ since' = 0
        /\ UNCHANGED <<traffic, next_stats, reported, config, failing, counted>>

Housekeep == Begin \/ Results \/ Beacon

-----------------------------------------------------------------------------
(* Surroundings.                                                            *)

\* A thread of read_from_cmd goes on.
Thread(r) == ReaderStep(r) /\ UNCHANGED <<books, since, config, failing, counted>>

\* What is due stays due: how long does not matter.
Less(left) == IF left < 0 THEN left ELSE left - 1

Tick ==
    /\ since < HOUSEKEEP
    /\ loader = "prompt command" /\ next_beacon <= 0 => Running = {}
    /\ since' = since + 1
    /\ next_stats' = Less(next_stats) /\ next_beacon' = Less(next_beacon)
    /\ UNCHANGED <<mailbox, traffic, stored, reported, config, failing, counted>>

\* Chores start or cease to fail: a full disk, a name that does not resolve.
Outage ==
    /\ failing' \in SUBSET flaky
    /\ UNCHANGED <<mailbox, books, since, config, counted>>

Next ==
    \/ \E k \in Key : Count(k)
    \/ Housekeep \/ Tick \/ Outage
    \/ \E r \in Reader : Thread(r)

Spec == Init /\ [][Next]_vars

\* Time passes and run calls housekeep; a command ends; nobody repairs what
\* fails.
FairSpec ==
    /\ Spec
    /\ WF_vars(Tick) /\ WF_vars(Housekeep)
    /\ \A r \in Reader : WF_vars(Thread(r))

-----------------------------------------------------------------------------
\* Types.  The entry for dropped traffic is always there.
TypeOK ==
    /\ \A k \in Key :
        traffic[k] = None \/ traffic[k] \in [packets : 0 .. MaxCount[k], idle : 0 .. CLEANUP_IDLE]
    /\ traffic[Dropped] # None
    /\ next_stats \in -1 .. STATS_INTERVAL /\ next_beacon \in -1 .. BEACON_INTERVAL
    /\ stored \in BOOLEAN /\ since \in 0 .. HOUSEKEEP /\ failing \subseteq flaky

\* "All values refer to the traffic during the last minute", vpncloud.adoc:
\* every packet is reported once, by the first report that succeeds after it,
\* whichever reports fail and whichever entries are cleaned up in between.  The
\* state is well typed.
ReportedOnce ==
    /\ TypeOK
    /\ \A k \in Key : counted[k] = reported[k] + Packets(traffic[k])

\* The chores before the beacon, and storing it, succeed.
StatsWork == flaky \subseteq {"connect", "load"}

\* Entries of peers and addresses that are gone are dropped in the end, so the
\* statistics do not grow without limit, as long as they can be written out:
\* period is only called after that.
IdleForgotten == StatsWork => \A k \in Key \ {Dropped} : <>[](traffic[k] = None)

\* "Periodically store beacons containing the address of this node",
\* vpncloud.adoc: the node stores beacons again and again even if what they
\* contain cannot be loaded or connected to, and whatever the threads do.
BeaconsGoOn == StatsWork => []<>stored

\* The peers that a command printed are loaded at last, if no other command
\* was started before and the chores in front of get_cmd_results succeed:
\* read_from_cmd hands over through the flag and the list, although it updates
\* them separately.
PeersLoaded ==
    StatsWork /\ loader = "prompt command" =>
        \A r \in Reader : r \in result ~> r \in loaded
=============================================================================
