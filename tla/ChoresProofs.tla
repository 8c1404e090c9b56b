---------------------------- MODULE ChoresProofs ----------------------------
(***************************************************************************)
(* Proofs about Chores and BeaconMailbox, for any number of commands,      *)
(* traffic entries and packets, any intervals and any outages; and, in the *)
(* second part, about the codec of init messages.                          *)
(***************************************************************************)
EXTENDS Chores, Transport, SequenceTheorems, WellFoundedInduction, TLAPS

\* The mailbox as the main loop and the threads leave it: only between swapping
\* the list out and clearing the flag does the main loop hold one, and the
\* peers of a command that has not ended are nowhere.
MailInv ==
    /\ InOnePlace
    /\ taken # {} => main = "store"
    /\ \A r \in Reader : thread[r] = "command" => r \notin result \cup taken \cup loaded

-----------------------------------------------------------------------------
(* What happens to the mailbox in a step: one of its own actions, or        *)
(* nothing.                                                                 *)
MailStep ==
    \/ LoadFlag \/ SwapOut \/ StoreFalse(TRUE) \/ StoreFalse(FALSE) \/ NoCommand
    \/ \E r \in Reader : read_from_cmd(r) \/ ReaderStep(r)

(* Every step of the node moves the mailbox by one of its own actions, if   *)
(* at all: housekeep and the threads of read_from_cmd touch it nowhere else.*)
LEMMA StepsOfMailbox == [Next]_vars => MailStep \/ UNCHANGED mailbox
  BY DEF Next, vars, Count, Housekeep, Begin, Results, Beacon, Tick, Outage, Thread, MailStep

(* The peers of a command are in one place at most, and nowhere before it   *)
(* ends: FutureResult, with its flag and its list updated one after the     *)
(* other, keeps them apart however the threads and the main loop interleave.*)
LEMMA MailInvInductive == MailInv /\ (MailStep \/ UNCHANGED mailbox) => MailInv'
  <1> SUFFICES ASSUME MailInv, MailStep \/ UNCHANGED mailbox PROVE MailInv'
    OBVIOUS
  <1> USE DEF MailInv, InOnePlace, MailTypeOK
  <1>1. CASE LoadFlag
    BY <1>1 DEF LoadFlag
  <1>2. CASE SwapOut
    BY <1>2 DEF SwapOut, Empty
  <1>3. ASSUME NEW connected \in BOOLEAN, StoreFalse(connected) PROVE MailInv'
    BY <1>3 DEF StoreFalse, Empty
  <1>4. CASE NoCommand
    BY <1>4 DEF NoCommand
  <1>5. ASSUME NEW r \in Reader, read_from_cmd(r) PROVE MailInv'
    BY <1>5 DEF read_from_cmd
  <1>6. ASSUME NEW r \in Reader, CommandFails(r) PROVE MailInv'
    BY <1>6 DEF CommandFails
  <1>7. ASSUME NEW r \in Reader, SwapIn(r) PROVE MailInv'
    BY <1>7 DEF SwapIn
  <1>8. ASSUME NEW r \in Reader, StoreTrue(r) PROVE MailInv'
    BY <1>8 DEF StoreTrue
  <1>9. CASE UNCHANGED mailbox
    BY <1>9 DEF mailbox
  <1> QED
    BY <1>1, <1>2, <1>3, <1>4, <1>5, <1>6, <1>7, <1>8, <1>9 DEF MailStep, ReaderStep

(* For any number of commands that overlap: housekeep never connects twice  *)
(* to the peers that one command printed.                                   *)
THEOREM PeersInOnePlace == Spec => []InOnePlace
  <1>1. Init => MailInv
    BY DEF Init, MailInit, MailInv, InOnePlace, MailTypeOK, Empty
  <1>2. MailInv /\ [Next]_vars => MailInv'
    BY StepsOfMailbox, MailInvInductive
  <1>3. MailInv => InOnePlace
    BY DEF MailInv
  <1> QED BY <1>1, <1>2, <1>3, PTL DEF Spec

-----------------------------------------------------------------------------
(* The entries of a key: within its bound, and told apart from no entry.    *)
Entry(k) == [packets : 0 .. MaxCount[k], idle : 0 .. CLEANUP_IDLE]

(* What count_in and count_out insert is an entry without packets.          *)
LEMMA EntryFacts ==
    ASSUME NEW k \in Key
    PROVE  /\ None \notin Entry(k)
           /\ MaxCount[k] \in Nat
           /\ NewEntry \in Entry(k) /\ NewEntry.packets = 0
           /\ \A entry \in Entry(k) : entry.packets \in 0 .. MaxCount[k] /\ entry.idle \in 0 .. CLEANUP_IDLE
  <1>1. MaxCount[k] \in Nat
    BY ChoresAssumption
  <1>2. Entry(k) \subseteq [packets : Nat, idle : Nat]
    BY <1>1, ChoresAssumption DEF Entry
  <1> QED BY <1>1, <1>2, ChoresAssumption DEF Entry, NewEntry

(* A new period starts every entry at zero packets.                         *)
LEMMA PeriodFacts ==
    ASSUME NEW k \in Key, NEW entry \in Entry(k)
    PROVE  Period(entry) \in Entry(k) /\ Period(entry).packets = 0
  <1>1. entry.idle \in 0 .. CLEANUP_IDLE /\ MaxCount[k] \in Nat
    BY EntryFacts
  <1>2. Idler(entry.idle) \in 0 .. CLEANUP_IDLE
    BY <1>1, ChoresAssumption DEF Idler
  <1> QED BY <1>1, <1>2, ChoresAssumption DEF Period, Entry

(* period, with its cleanup, forgets the packets of the period and nothing  *)
(* else that counts, and never the entry for dropped traffic.               *)
LEMMA periodFacts ==
    ASSUME NEW entries, NEW k \in Key, entries[k] = None \/ entries[k] \in Entry(k)
    PROVE  /\ Packets(period(entries)[k]) = 0
           /\ period(entries)[k] = None \/ period(entries)[k] \in Entry(k)
           /\ k = Dropped /\ entries[k] # None => period(entries)[k] # None
  <1>1. CASE entries[k] = None
    BY <1>1 DEF period, Packets
  <1>2. CASE entries[k] # None
    <2>1. /\ Period(entries[k]) \in Entry(k) /\ Period(entries[k]).packets = 0
          /\ Period(entries[k]) # None
      BY <1>2, PeriodFacts, EntryFacts
    <2>2. period(entries)[k] = cleanup(k, Period(entries[k]))
      BY <1>2 DEF period
    <2> QED BY <2>1, <2>2 DEF cleanup, Packets
  <1> QED BY <1>1, <1>2

\* The part of the books that is about packets.
AccountsInv ==
    /\ traffic = [k \in Key |-> traffic[k]] /\ traffic[Dropped] # None
    /\ counted \in [Key -> Nat] /\ reported \in [Key -> Nat]
    /\ \A k \in Key : /\ traffic[k] = None \/ traffic[k] \in Entry(k)
                      /\ counted[k] = reported[k] + Packets(traffic[k])
                      /\ counted[k] <= MaxCount[k]

\* The part that is about time, and the rest.
ClockInv ==
    /\ next_stats \in -1 .. STATS_INTERVAL /\ next_beacon \in -1 .. BEACON_INTERVAL
    /\ since \in 0 .. HOUSEKEEP
FlagsInv == stored \in BOOLEAN /\ failing \subseteq flaky

(* Counting a packet in count_in or count_out: it is there to be reported.  *)
LEMMA CountKeepsAccounts ==
    ASSUME AccountsInv, NEW j \in Key, Count(j) PROVE AccountsInv'
  <1> DEFINE entry == IF traffic[j] = None THEN NewEntry ELSE traffic[j]
             counts == [entry EXCEPT !.packets = entry.packets + 1]
  <1>1. /\ entry \in Entry(j) /\ entry.packets = Packets(traffic[j])
    BY EntryFacts DEF AccountsInv, Packets
  <1> HIDE DEF entry
  <1>2. /\ counted[j] \in Nat /\ reported[j] \in Nat /\ counted[j] < MaxCount[j]
        /\ counted[j] = reported[j] + entry.packets
        /\ MaxCount[j] \in Nat /\ entry.packets \in Nat
    BY <1>1, EntryFacts DEF AccountsInv, Count
  <1>3. counts \in Entry(j) /\ counts.packets = entry.packets + 1 /\ counts # None
    <2>1. counts \in Entry(j) /\ counts.packets = entry.packets + 1
      BY <1>1, <1>2 DEF Entry
    <2> QED BY <2>1, EntryFacts
  <1>4. /\ traffic' = [traffic EXCEPT ![j] = counts]
        /\ counted' = [counted EXCEPT ![j] = counted[j] + 1]
        /\ reported' = reported
    BY DEF Count, entry
  <1> HIDE DEF counts
  <1>5. ASSUME NEW k \in Key
        PROVE  /\ traffic'[k] = IF k = j THEN counts ELSE traffic[k]
               /\ counted'[k] = IF k = j THEN counted[j] + 1 ELSE counted[k]
    BY <1>4 DEF AccountsInv
  <1>6. Packets(counts) = entry.packets + 1
    BY <1>3 DEF Packets
  <1> QED BY <1>2, <1>3, <1>4, <1>5, <1>6, ChoresAssumption DEF AccountsInv

(* A report that succeeds, and the new period after it: what is reported    *)
(* leaves the entries.                                                      *)
LEMMA PeriodKeepsAccounts ==
    ASSUME AccountsInv, Report, NewPeriod, UNCHANGED counted PROVE AccountsInv'
  <1>1. /\ traffic' = period(traffic) /\ counted' = counted
        /\ reported' = [k \in Key |-> reported[k] + Packets(traffic[k])]
    BY DEF Report, NewPeriod
  <1>2. ASSUME NEW k \in Key
        PROVE  /\ traffic'[k] = None \/ traffic'[k] \in Entry(k)
               /\ Packets(traffic'[k]) = 0
               /\ k = Dropped => traffic'[k] # None
    BY <1>1, periodFacts DEF AccountsInv
  <1>3. ASSUME NEW k \in Key PROVE reported'[k] = counted[k] /\ counted[k] \in Nat
    BY <1>1 DEF AccountsInv
  <1>4. traffic' = [k \in Key |-> traffic'[k]]
    BY <1>1 DEF period
  <1>5. reported' \in [Key -> Nat]
    BY <1>1, <1>3
  <1> QED BY <1>1, <1>2, <1>3, <1>4, <1>5, ChoresAssumption DEF AccountsInv

(* No other step touches the accounts: a chore that fails, in whichever     *)
(* place, has neither reported nor forgotten anything.                      *)
LEMMA StepsOfAccounts ==
    [Next]_vars => \/ \E k \in Key : Count(k)
                   \/ Report /\ NewPeriod /\ UNCHANGED counted
                   \/ UNCHANGED <<traffic, counted, reported>>
  <1> SUFFICES ASSUME [Next]_vars, ~\E k \in Key : Count(k)
               PROVE  \/ Report /\ NewPeriod /\ UNCHANGED counted
                      \/ UNCHANGED <<traffic, counted, reported>>
    OBVIOUS
  <1>1. CASE Begin
    BY <1>1 DEF Begin, Stats
  <1>2. CASE Results \/ Beacon \/ Tick \/ Outage
    BY <1>2 DEF Results, Beacon, Tick, Outage, books
  <1>3. ASSUME NEW r \in Reader, Thread(r) PROVE UNCHANGED <<traffic, counted, reported>>
    BY <1>3 DEF Thread, books
  <1>4. CASE UNCHANGED vars
    BY <1>4 DEF vars, books
  <1> QED BY <1>1, <1>2, <1>3, <1>4 DEF Next, Housekeep

(* The timers of housekeep stay within their intervals.                     *)
LEMMA StepKeepsClock == ClockInv /\ [Next]_vars => ClockInv'
  <1> SUFFICES ASSUME ClockInv, [Next]_vars PROVE ClockInv'
    OBVIOUS
  <1>0. STATS_INTERVAL \in Nat /\ BEACON_INTERVAL \in Nat
    BY ChoresAssumption
  <1>1. ASSUME NEW k \in Key, Count(k) PROVE ClockInv'
    BY <1>1 DEF Count, ClockInv
  <1>2. CASE Begin
    <2>1. next_stats' \in {next_stats, STATS_INTERVAL}
      BY <1>2 DEF Begin, Stats, NewPeriod
    <2>2. next_beacon' = next_beacon /\ since' \in {since, 0}
      BY <1>2 DEF Begin
    <2> QED BY <1>0, <2>1, <2>2 DEF ClockInv, HOUSEKEEP
  <1>3. CASE Results
    <2>1. UNCHANGED <<next_stats, next_beacon>> /\ since' \in {since, 0}
      BY <1>3 DEF Results, books
    <2> QED BY <2>1 DEF ClockInv, HOUSEKEEP
  <1>4. CASE Beacon
    <2>1. UNCHANGED next_stats /\ next_beacon' \in {next_beacon, BEACON_INTERVAL} /\ since' = 0
      BY <1>4 DEF Beacon
    <2> QED BY <1>0, <2>1 DEF ClockInv, HOUSEKEEP
  <1>5. CASE Tick
    <2>1. /\ since < HOUSEKEEP /\ since' = since + 1
          /\ next_stats' = Less(next_stats) /\ next_beacon' = Less(next_beacon)
      BY <1>5 DEF Tick
    <2> QED BY <1>0, <2>1 DEF ClockInv, HOUSEKEEP, Less
  <1>6. CASE Outage
    BY <1>6 DEF Outage, books, ClockInv
  <1>7. ASSUME NEW r \in Reader, Thread(r) PROVE ClockInv'
    BY <1>7 DEF Thread, books, ClockInv
  <1>8. CASE UNCHANGED vars
    BY <1>8 DEF vars, books, ClockInv
  <1> QED BY <1>1, <1>2, <1>3, <1>4, <1>5, <1>6, <1>7, <1>8 DEF Next, Housekeep

(* Only what may fail fails.                                                *)
LEMMA StepKeepsFlags == FlagsInv /\ [Next]_vars => FlagsInv'
  <1> SUFFICES ASSUME FlagsInv, [Next]_vars PROVE FlagsInv'
    OBVIOUS
  <1> USE DEF FlagsInv, config, books
  <1>1. ASSUME NEW k \in Key, Count(k) PROVE FlagsInv'
    BY <1>1 DEF Count
  <1>2. CASE Begin
    BY <1>2 DEF Begin
  <1>3. CASE Results
    BY <1>3 DEF Results
  <1>4. CASE Beacon
    <2>1. stored' \in BOOLEAN /\ failing' = failing /\ flaky' = flaky
      BY <1>4 DEF Beacon
    <2> QED BY <2>1
  <1>5. CASE Tick
    BY <1>5 DEF Tick
  <1>6. CASE Outage
    BY <1>6 DEF Outage
  <1>7. ASSUME NEW r \in Reader, Thread(r) PROVE FlagsInv'
    BY <1>7 DEF Thread
  <1>8. CASE UNCHANGED vars
    BY <1>8 DEF vars
  <1> QED BY <1>1, <1>2, <1>3, <1>4, <1>5, <1>6, <1>7, <1>8 DEF Next, Housekeep

(* Every packet that count_in and count_out counted is reported to the      *)
(* statsd server or waits in its entry, once: no failing chore and no       *)
(* cleanup loses one or reports it twice.                                   *)
THEOREM PacketsReportedOnce == Spec => []ReportedOnce
  <1>1. Init => AccountsInv /\ ClockInv /\ FlagsInv
    <2> SUFFICES ASSUME Init PROVE AccountsInv /\ ClockInv /\ FlagsInv
      OBVIOUS
    <2>1. ASSUME NEW k \in Key
          PROVE  /\ traffic[k] = None \/ traffic[k] \in Entry(k)
                 /\ Packets(traffic[k]) = 0
                 /\ k = Dropped => traffic[k] # None
                 /\ counted[k] = 0 /\ reported[k] = 0 /\ MaxCount[k] \in Nat
      BY EntryFacts DEF Init, Packets
    <2>2. Dropped \in Key /\ STATS_INTERVAL \in Nat /\ BEACON_INTERVAL \in Nat
      BY ChoresAssumption
    <2>3. /\ traffic = [k \in Key |-> traffic[k]]
          /\ counted \in [Key -> Nat] /\ reported \in [Key -> Nat]
      BY DEF Init
    <2>4. AccountsInv
      BY <2>1, <2>2, <2>3 DEF AccountsInv
    <2>5. ClockInv
      <3>1. next_stats = STATS_INTERVAL /\ next_beacon = 0 /\ since = 0
        BY DEF Init
      <3> QED BY <2>2, <3>1 DEF ClockInv, HOUSEKEEP
    <2>6. FlagsInv
      BY DEF Init, FlagsInv
    <2> QED BY <2>4, <2>5, <2>6
  <1>2. AccountsInv /\ [Next]_vars => AccountsInv'
    <2> SUFFICES ASSUME AccountsInv, UNCHANGED <<traffic, counted, reported>> PROVE AccountsInv'
      BY StepsOfAccounts, CountKeepsAccounts, PeriodKeepsAccounts
    <2> QED BY DEF AccountsInv, Entry, Packets
  <1>3. AccountsInv /\ ClockInv /\ FlagsInv => ReportedOnce
    BY DEF AccountsInv, ClockInv, FlagsInv, ReportedOnce, TypeOK, Entry
  <1> QED BY <1>1, <1>2, <1>3, StepKeepsClock, StepKeepsFlags, PTL DEF Spec

-----------------------------------------------------------------------------
(* The codec of init messages, for any fields, keys and salts.  Its loops   *)
(* are recursive functions, so it begins with induction over natural        *)
(* numbers that is stated with sets.                                        *)

(* A set of natural numbers has a least one.                                *)
LEMMA LeastNumber ==
    ASSUME NEW S \in SUBSET Nat, S # {}
    PROVE  \E m \in S : \A k \in S : m <= k
  <1> DEFINE Below == OpToRel(<, Nat)
  <1>1. IsWellFoundedOn(Below, Nat)
    BY NatLessThanWellFounded, Zenon
  <1>2. \A x, y \in Nat : x < y => <<x, y>> \in Below
    BY DEF OpToRel
  <1> HIDE DEF Below
  <1>3. PICK m \in S : \A k \in S : <<k, m>> \notin Below
    BY <1>1, WFMin, Zenon
  <1>4. \A k \in S : ~(k < m)
    BY <1>2, <1>3, Zenon
  <1>5. \A k \in S : m <= k
    BY <1>4
  <1>6. QED
    BY <1>5

(* What holds at first and after one more round of a loop holds after every *)
(* round.                                                                   *)
LEMMA EveryRound ==
    ASSUME NEW S, NEW n \in Nat, 0 \in S, \A k \in 1 .. n : k - 1 \in S => k \in S
    PROVE  0 .. n \subseteq S
  <1> SUFFICES ASSUME (0 .. n) \ S # {} PROVE FALSE
    OBVIOUS
  <1> DEFINE T == (0 .. n) \ S
  <1>1. T \in SUBSET Nat
    OBVIOUS
  <1>2. PICK m \in T : \A k \in T : m <= k
    <2> HIDE DEF T
    <2> QED
      BY <1>1, LeastNumber, Zenon DEF T
  <1>3. m \in 1 .. n /\ m - 1 \in S
    BY <1>2
  <1>4. QED
    BY <1>2, <1>3

\* A run of the loop over the fields.
IsReading(f, r, n) ==
    f = [k \in 0 .. n |-> IF k = 0 THEN r ELSE read_round(f[k - 1])]

(* The loop has a run.                                                      *)
LEMMA Readings ==
    ASSUME NEW r, NEW n \in Nat
    PROVE  \E f : IsReading(f, r, n)
  <1> DEFINE S == {m \in 0 .. n : \E f : IsReading(f, r, m)}
  <1>1. 0 \in S
    <2> DEFINE f == [k \in 0 .. 0 |-> r]
    <2>1. f = [k \in 0 .. 0 |-> IF k = 0 THEN r ELSE read_round(f[k - 1])]
      OBVIOUS
    <2> HIDE DEF f
    <2>2. IsReading(f, r, 0)
      BY <2>1, Zenon DEF IsReading
    <2> QED BY <2>2
  <1>2. ASSUME NEW m \in 1 .. n, m - 1 \in S PROVE m \in S
    <2>1. PICK f : IsReading(f, r, m - 1)
      BY <1>2
    <2> DEFINE g == [k \in 0 .. m |-> IF k < m THEN f[k] ELSE read_round(f[m - 1])]
    <2>2. \A k \in 0 .. m - 1 : f[k] = IF k = 0 THEN r ELSE read_round(f[k - 1])
      BY <2>1 DEF IsReading
    <2>3. \A k \in 0 .. m : g[k] = IF k = 0 THEN r ELSE read_round(g[k - 1])
      BY <2>2
    <2>4. g = [k \in 0 .. m |-> g[k]]
      OBVIOUS
    <2> HIDE DEF g
    <2>5. g = [k \in 0 .. m |-> IF k = 0 THEN r ELSE read_round(g[k - 1])]
      BY <2>3, <2>4
    <2>6. IsReading(g, r, m)
      BY <2>5, Zenon DEF IsReading
    <2> QED BY <2>6
  <1> HIDE DEF S
  <1>3. 0 .. n \subseteq S
    BY <1>1, <1>2, EveryRound
  <1> QED BY <1>3 DEF S

(* Rounds gives the end of a run.                                           *)
LEMMA RoundsRead ==
    ASSUME NEW r, NEW n \in Nat
    PROVE  \E f : /\ Rounds(r, n) = f[n] /\ f[0] = r
                  /\ \A k \in 1 .. n : f[k] = read_round(f[k - 1])
  <1> DEFINE run == CHOOSE f : IsReading(f, r, n)
  <1>1. Rounds(r, n) = run[n]
    BY Zenon DEF Rounds, IsReading
  <1>2. IsReading(run, r, n)
    BY Readings, Zenon
  <1> HIDE DEF run
  <1>3. run[0] = r /\ \A k \in 1 .. n : run[k] = read_round(run[k - 1])
    BY <1>2 DEF IsReading
  <1> QED BY <1>1, <1>3

(* Once the loop is over it stays as it is.                                 *)
LEMMA StaysOver ==
    ASSUME NEW n \in Nat, NEW j \in 0 .. n, NEW f,
           \A k \in 1 .. n : f[k] = read_round(f[k - 1]),
           f[j].ok = FALSE \/ f[j].ended = TRUE
    PROVE  f[n] = f[j]
  <1> DEFINE S == {k \in 0 .. n : k >= j => f[k] = f[j]}
  <1>1. 0 \in S
    OBVIOUS
  <1>2. ASSUME NEW k \in 1 .. n, k - 1 \in S PROVE k \in S
    <2>1. CASE k <= j
      BY <2>1
    <2>2. CASE k > j
      <3>1. f[k - 1] = f[j] /\ f[k] = read_round(f[k - 1])
        BY <1>2, <2>2
      <3>2. f[k] = f[k - 1]
        BY <3>1, Zenon DEF read_round
      <3> QED BY <3>1, <3>2
    <2> QED BY <2>1, <2>2
  <1> HIDE DEF S
  <1>3. 0 .. n \subseteq S
    BY <1>1, <1>2, EveryRound
  <1> QED BY <1>3 DEF S

-----------------------------------------------------------------------------
\* All cells are of a kind.
OfKind(body, kind) == \A i \in 1 .. Len(body) : body[i][1] = kind

\* The body of a field, as write_to writes it.
IsField(part, body) ==
    \/ part = PART_STAGE /\ Len(body) = 1 /\ OfKind(body, "num")
    \/ part = PART_SALTED_NODE_ID_HASH /\ Len(body) = 1 /\ OfKind(body, "id")
    \/ part = PART_ECDH_PUBLIC_KEY /\ OfKind(body, "ecdh")
    \/ part = PART_PAYLOAD /\ OfKind(body, "payload")
    \/ part = PART_ALGORITHMS /\ OfKind(body, "num") /\ (Len(body) \div ENTRY) * ENTRY = Len(body)

(* read_exact gives the cells that come first, or fails if they are too few. *)
LEMMA CellsRead ==
    ASSUME NEW S, NEW cells \in Seq(S), NEW body \in Seq(S), NEW kind, OfKind(body, kind),
           \A i \in 1 .. Len(body) : i <= Len(cells) => cells[i] = body[i]
    PROVE  ReadCells(cells, Len(body), kind) =
               IF Len(cells) >= Len(body) THEN Read(body, From(cells, Len(body) + 1)) ELSE Failed
  <1>1. Len(cells) \in Nat /\ Len(body) \in Nat
    OBVIOUS
  <1>2. CASE Len(cells) >= Len(body)
    <2>1. \A i \in 1 .. Len(body) : cells[i][1] = kind
      BY <1>1, <1>2 DEF OfKind
    <2>2. SubSeq(cells, 1, Len(body)) = body
      <3> DEFINE t == SubSeq(cells, 1, Len(body))
      <3>1. t \in Seq(S) /\ Len(t) = Len(body) /\ \A i \in 1 .. Len(t) : t[i] = cells[i]
        BY <1>1, <1>2
      <3> HIDE DEF t
      <3>2. t = body
        BY <1>1, <1>2, <3>1, SeqEqual
      <3> QED BY <3>2 DEF t
    <2> QED BY <1>2, <2>1, <2>2, Zenon DEF ReadCells
  <1>3. CASE ~(Len(cells) >= Len(body))
    BY <1>3, Zenon DEF ReadCells
  <1> QED BY <1>2, <1>3

(* A field is read back, or refused if it is cut off.                       *)
LEMMA FieldRead ==
    ASSUME NEW S, NEW cells \in Seq(S), NEW body \in Seq(S), NEW part, IsField(part, body),
           \A i \in 1 .. Len(body) : i <= Len(cells) => cells[i] = body[i]
    PROVE  read_field(part, cells, Len(body)) =
               IF Len(cells) >= Len(body) THEN Read(body, From(cells, Len(body) + 1)) ELSE Failed
  <1>1. /\ PART_STAGE # PART_SALTED_NODE_ID_HASH /\ PART_STAGE # PART_ECDH_PUBLIC_KEY
        /\ PART_STAGE # PART_PAYLOAD /\ PART_STAGE # PART_ALGORITHMS
        /\ PART_SALTED_NODE_ID_HASH # PART_ECDH_PUBLIC_KEY
        /\ PART_SALTED_NODE_ID_HASH # PART_PAYLOAD /\ PART_SALTED_NODE_ID_HASH # PART_ALGORITHMS
        /\ PART_ECDH_PUBLIC_KEY # PART_PAYLOAD /\ PART_ECDH_PUBLIC_KEY # PART_ALGORITHMS
        /\ PART_PAYLOAD # PART_ALGORITHMS
    BY DEF PART_STAGE, PART_SALTED_NODE_ID_HASH, PART_ECDH_PUBLIC_KEY, PART_PAYLOAD,
           PART_ALGORITHMS, Num
  <1> DEFINE n == Len(body)
             Result == IF Len(cells) >= n THEN Read(body, From(cells, n + 1)) ELSE Failed
  <1>2. ASSUME NEW kind, OfKind(body, kind) PROVE ReadCells(cells, n, kind) = Result
    BY <1>2, CellsRead
  <1> SUFFICES read_field(part, cells, n) = Result
    OBVIOUS
  <1> HIDE DEF Result
  <1>3. CASE part = PART_STAGE /\ n = 1 /\ OfKind(body, "num")
    BY <1>2, <1>3, Zenon DEF read_field
  <1>4. CASE part = PART_SALTED_NODE_ID_HASH /\ n = 1 /\ OfKind(body, "id")
    BY <1>1, <1>2, <1>4, Zenon DEF read_field
  <1>5. CASE part = PART_ECDH_PUBLIC_KEY /\ OfKind(body, "ecdh")
    BY <1>1, <1>2, <1>5, Zenon DEF read_field
  <1>6. CASE part = PART_PAYLOAD /\ OfKind(body, "payload")
    BY <1>1, <1>2, <1>6, Zenon DEF read_field
  <1>7. CASE part = PART_ALGORITHMS /\ OfKind(body, "num") /\ (n \div ENTRY) * ENTRY = n
    BY <1>1, <1>2, <1>7, Zenon DEF read_field
  <1> QED BY <1>3, <1>4, <1>5, <1>6, <1>7, Zenon DEF IsField

-----------------------------------------------------------------------------
(* A piece of the cells.                                                    *)
LEMMA Piece ==
    ASSUME NEW S, NEW cells \in Seq(S), NEW p \in Nat \ {0}, NEW m \in 0 .. Len(cells), p <= m + 1
    PROVE  /\ SubSeq(cells, p, m) \in Seq(S) /\ Len(SubSeq(cells, p, m)) = m - p + 1
           /\ \A i \in 1 .. m - p + 1 : SubSeq(cells, p, m)[i] = cells[p + i - 1]
  <1>1. Len(cells) \in Nat /\ \A i \in p .. m : cells[i] \in S
    OBVIOUS
  <1> QED BY <1>1, SubSeqProperties

(* The cells from one on.                                                   *)
LEMMA Remaining ==
    ASSUME NEW S, NEW cells \in Seq(S), NEW k \in Nat \ {0}, k <= Len(cells) + 1
    PROVE  /\ From(cells, k) \in Seq(S) /\ Len(From(cells, k)) = Len(cells) - k + 1
           /\ \A i \in 1 .. Len(cells) - k + 1 : From(cells, k)[i] = cells[k + i - 1]
  <1>1. Len(cells) \in 0 .. Len(cells)
    OBVIOUS
  <1> QED BY <1>1, Piece DEF From

\* A field stands at position p of the cells.
Holds(cells, p, part, body) ==
    /\ p + 1 + Len(body) <= Len(cells)
    /\ cells[p] = part /\ cells[p + 1] = Num(Len(body))
    /\ \A i \in 1 .. Len(body) : cells[p + 1 + i] = body[i]

\* The loop has read v and has reached position p of cells that are cut off
\* after m, or has failed if they do not reach that far.
At(r, v, cells, p, m) ==
    IF m < p - 1 THEN r.ok = FALSE
    ELSE r = [ok |-> TRUE, ended |-> FALSE, value |-> v, left |-> SubSeq(cells, p, m)]

(* A round reads the field that it has reached.                             *)
LEMMA FieldRound ==
    ASSUME NEW S, NEW cells \in Seq(S), NEW body \in Seq(S), NEW part, IsField(part, body),
           NEW p \in Nat \ {0}, NEW m \in 0 .. Len(cells), NEW r, NEW v,
           Holds(cells, p, part, body), At(r, v, cells, p, m)
    PROVE  At(read_round(r), StoredField(v, part, body), cells, p + 2 + Len(body), m)
  <1> DEFINE n == Len(body)
             left == SubSeq(cells, p, m)
  <1>1. n \in Nat /\ Len(cells) \in Nat /\ m \in Nat
    OBVIOUS
  <1>2. part # PART_END_INIT
    BY DEF IsField, PART_STAGE, PART_SALTED_NODE_ID_HASH, PART_ECDH_PUBLIC_KEY, PART_PAYLOAD,
           PART_ALGORITHMS, PART_END_INIT, Num
  <1>3. CASE m < p - 1
    <2>1. r.ok = FALSE
      BY <1>3, Zenon DEF At
    <2>2. read_round(r) = r
      BY <2>1, Zenon DEF read_round
    <2>3. m < (p + 2 + n) - 1
      BY <1>1, <1>3
    <2> QED BY <2>1, <2>2, <2>3, Zenon DEF At
  <1>4. CASE ~(m < p - 1)
    <2>1. r = [ok |-> TRUE, ended |-> FALSE, value |-> v, left |-> left]
      BY <1>4, Zenon DEF At
    <2>2. /\ left \in Seq(S) /\ Len(left) = m - p + 1
          /\ \A i \in 1 .. Len(left) : left[i] = cells[p + i - 1]
      BY <1>1, <1>4, Piece
    <2> DEFINE len == ReadOne(From(left, 2), "num")
               got == read_field(left[1], len.left, len.value[2])
               failed == [r EXCEPT !.ok = FALSE]
    <2>3. failed.ok = FALSE
      BY <2>1
    <2> HIDE DEF left
    <2>4. /\ r.ok = TRUE /\ r.ended = FALSE /\ r.left = left
      BY <2>1
    <2>5. CASE m = p - 1
      <3>1. left = <<>>
        BY <1>1, <2>2, <2>5
      <3>2. read_round(r) = failed
        BY <2>4, <3>1, Zenon DEF read_round
      <3>3. m < (p + 2 + n) - 1
        BY <1>1, <2>5
      <3> QED BY <2>3, <3>2, <3>3, Zenon DEF At
    <2>6. CASE m >= p
      <3>1. left # <<>> /\ left[1] = part
        <4>1. Len(left) # 0 /\ 1 \in 1 .. Len(left) /\ p + 1 - 1 = p
          BY <1>1, <2>2, <2>6
        <4>2. left[1] = cells[p]
          BY <2>2, <4>1
        <4>3. left # <<>>
          BY <4>1
        <4> QED BY <4>2, <4>3, Zenon DEF Holds
      <3>2. From(left, 2) \in Seq(S) /\ Len(From(left, 2)) = m - p
            /\ \A i \in 1 .. m - p : From(left, 2)[i] = cells[p + i]
        <4> DEFINE t == From(left, 2)
        <4>1. 2 \in Nat \ {0} /\ 2 <= Len(left) + 1 /\ Len(left) - 2 + 1 = m - p
          BY <1>1, <2>2, <2>6
        <4>2. /\ t \in Seq(S) /\ Len(t) = Len(left) - 2 + 1
              /\ \A i \in 1 .. Len(left) - 2 + 1 : t[i] = left[2 + i - 1]
          BY <2>2, <4>1, Remaining
        <4> HIDE DEF t
        <4>3. ASSUME NEW i \in 1 .. m - p PROVE t[i] = cells[p + i]
          <5>1. 2 + i - 1 \in 1 .. Len(left) /\ p + (2 + i - 1) - 1 = p + i
            BY <1>1, <2>2, <2>6
          <5>2. left[2 + i - 1] = cells[p + i]
            BY <2>2, <5>1
          <5> QED BY <4>1, <4>2, <5>2
        <4>4. t \in Seq(S) /\ Len(t) = m - p /\ \A i \in 1 .. m - p : t[i] = cells[p + i]
          BY <4>1, <4>2, <4>3, Zenon
        <4> QED BY <4>4 DEF t
      <3>3. CASE m = p
        <4>1. Len(From(left, 2)) = 0
          BY <1>1, <3>2, <3>3
        <4>2. ~(0 >= 1)
          OBVIOUS
        <4>3. ReadCells(From(left, 2), 1, "num") = Failed
          BY <4>1, <4>2, Zenon DEF ReadCells
        <4>4. len.ok = FALSE
          BY <4>3 DEF ReadOne, Failed
        <4>5. read_round(r) = failed
          BY <1>2, <2>4, <3>1, <4>4, Zenon DEF read_round
        <4>6. m < (p + 2 + n) - 1
          BY <1>1, <3>3
        <4> QED BY <2>3, <4>5, <4>6, Zenon DEF At
      <3>4. CASE m > p
        <4> DEFINE rest == SubSeq(cells, p + 2, m)
        <4>1. /\ rest \in Seq(S) /\ Len(rest) = m - p - 1
              /\ \A i \in 1 .. m - p - 1 : rest[i] = cells[p + 1 + i]
          <5>1. p + 2 \in Nat \ {0} /\ p + 2 <= m + 1 /\ m - (p + 2) + 1 = m - p - 1
            BY <1>1, <3>4
          <5>2. /\ rest \in Seq(S) /\ Len(rest) = m - (p + 2) + 1
                /\ \A i \in 1 .. m - (p + 2) + 1 : rest[i] = cells[(p + 2) + i - 1]
            BY <1>1, <5>1, Piece
          <5>3. \A i \in 1 .. m - p - 1 : (p + 2) + i - 1 = p + 1 + i
            OBVIOUS
          <5> HIDE DEF rest
          <5> QED BY <5>1, <5>2, <5>3, Zenon
        <4>2. len = Read(Num(n), rest)
          <5>1. From(left, 2)[1] = Num(n)
            <6>1. 1 \in 1 .. m - p
              BY <1>1, <3>4
            <6> QED BY <3>2, <6>1, Zenon DEF Holds
          <5>2. From(From(left, 2), 2) = rest
            <6> DEFINE t == From(left, 2)
                       u == From(t, 2)
            <6>1. /\ u \in Seq(S) /\ Len(u) = m - p - 1
                  /\ \A i \in 1 .. m - p - 1 : u[i] = t[i + 1]
              <7> HIDE DEF t
              <7>1. t \in Seq(S) /\ Len(t) = m - p
                BY <3>2 DEF t
              <7>2. 2 \in Nat \ {0} /\ 2 <= Len(t) + 1 /\ Len(t) - 2 + 1 = m - p - 1
                BY <1>1, <3>4, <7>1
              <7>3. /\ u \in Seq(S) /\ Len(u) = Len(t) - 2 + 1
                    /\ \A i \in 1 .. Len(t) - 2 + 1 : u[i] = t[2 + i - 1]
                BY <7>1, <7>2, Remaining
              <7>4. \A i \in 1 .. m - p - 1 : 2 + i - 1 = i + 1
                OBVIOUS
              <7> HIDE DEF u
              <7> QED BY <7>2, <7>3, <7>4, Zenon
            <6> HIDE DEF u
            <6>2. ASSUME NEW i \in 1 .. m - p - 1 PROVE u[i] = cells[p + 1 + i]
              <7>1. i + 1 \in 1 .. m - p /\ p + (i + 1) = p + 1 + i
                BY <1>1, <3>4
              <7>2. t[i + 1] = cells[p + 1 + i]
                BY <3>2, <7>1, Zenon
              <7> QED BY <6>1, <7>2, Zenon
            <6> HIDE DEF rest
            <6>3. u = rest
              BY <4>1, <6>1, <6>2, SeqEqual
            <6> QED BY <6>3 DEF u
          <5> HIDE DEF rest
          <5>3. ReadCells(From(left, 2), 1, "num") = Read(SubSeq(From(left, 2), 1, 1), rest)
            <6>1. Len(From(left, 2)) >= 1 /\ From(left, 2)[1][1] = "num" /\ 1 + 1 = 2
              BY <1>1, <3>2, <3>4, <5>1 DEF Num
            <6>2. \A i \in 1 .. 1 : From(left, 2)[i][1] = "num"
              BY <6>1
            <6> QED BY <5>2, <6>1, <6>2, Zenon DEF ReadCells
          <5>4. SubSeq(From(left, 2), 1, 1)[1] = Num(n)
            BY <1>1, <3>2, <3>4, <5>1
          <5> DEFINE cell == ReadCells(From(left, 2), 1, "num")
          <5>5. cell.ok = TRUE /\ cell.value[1] = Num(n) /\ cell.left = rest
            BY <5>3, <5>4 DEF Read
          <5> QED BY <5>5, Zenon DEF ReadOne
        <4> HIDE DEF rest
        <4>3. len.ok = TRUE /\ len.left = rest /\ len.value[2] = n
          BY <4>2 DEF Read, Num
        <4> HIDE DEF len
        <4>4. got = IF Len(rest) >= n THEN Read(body, From(rest, n + 1)) ELSE Failed
          <5>1. \A i \in 1 .. n : i <= Len(rest) => rest[i] = body[i]
            <6> SUFFICES ASSUME NEW i \in 1 .. n, i <= Len(rest) PROVE rest[i] = body[i]
              OBVIOUS
            <6>1. i \in 1 .. m - p - 1
              BY <1>1, <3>4, <4>1
            <6> QED BY <4>1, <6>1, Zenon DEF Holds
          <5>2. read_field(part, rest, n) =
                    IF Len(rest) >= n THEN Read(body, From(rest, n + 1)) ELSE Failed
            BY <4>1, <5>1, FieldRead
          <5> QED BY <3>1, <4>3, <5>2, Zenon
        <4>5. CASE Len(rest) >= n
          <5>1. got = Read(body, From(rest, n + 1))
            BY <4>4, <4>5, Zenon
          <5>2. From(rest, n + 1) = SubSeq(cells, p + 2 + n, m)
            <6> DEFINE t == From(rest, n + 1)
                       u == SubSeq(cells, p + 2 + n, m)
            <6>1. /\ t \in Seq(S) /\ Len(t) = m - p - 1 - n
                  /\ \A i \in 1 .. m - p - 1 - n : t[i] = rest[n + i]
              <7>1. n + 1 \in Nat \ {0} /\ n + 1 <= Len(rest) + 1
                    /\ Len(rest) - (n + 1) + 1 = m - p - 1 - n
                BY <1>1, <3>4, <4>1, <4>5
              <7>2. /\ t \in Seq(S) /\ Len(t) = Len(rest) - (n + 1) + 1
                    /\ \A i \in 1 .. Len(rest) - (n + 1) + 1 : t[i] = rest[(n + 1) + i - 1]
                BY <4>1, <7>1, Remaining
              <7>3. \A i \in 1 .. m - p - 1 - n : (n + 1) + i - 1 = n + i
                BY <1>1
              <7> HIDE DEF t, n
              <7> QED BY <7>1, <7>2, <7>3, Zenon
            <6>2. /\ u \in Seq(S) /\ Len(u) = m - p - 1 - n
                  /\ \A i \in 1 .. m - p - 1 - n : u[i] = cells[p + 1 + n + i]
              <7> DEFINE q == p + 2 + n
              <7>1. q \in Nat \ {0} /\ q <= m + 1 /\ m - q + 1 = m - p - 1 - n
                BY <1>1, <3>4, <4>1, <4>5
              <7>2. \A i \in Nat : q + i - 1 = p + 1 + n + i
                BY <1>1
              <7> HIDE DEF q
              <7>3. /\ SubSeq(cells, q, m) \in Seq(S) /\ Len(SubSeq(cells, q, m)) = m - q + 1
                    /\ \A i \in 1 .. m - q + 1 : SubSeq(cells, q, m)[i] = cells[q + i - 1]
                BY <7>1, Piece
              <7> QED BY <7>1, <7>2, <7>3 DEF q
            <6> HIDE DEF t, u
            <6>3. \A i \in 1 .. m - p - 1 - n : t[i] = u[i]
              BY <1>1, <3>4, <4>1, <4>5, <6>1, <6>2
            <6>4. t = u
              BY <6>1, <6>2, <6>3, SeqEqual
            <6> QED BY <6>4 DEF t, u
          <5>3. got.ok = TRUE /\ got.value = body /\ got.left = SubSeq(cells, p + 2 + n, m)
            BY <5>1, <5>2 DEF Read
          <5> HIDE DEF got
          <5>4. read_round(r) = [r EXCEPT !.left = got.left, !.value = StoredField(@, part, got.value)]
            BY <1>2, <2>4, <3>1, <4>3, <5>3, Zenon DEF read_round, len, got
          <5>5. read_round(r) = [ok |-> TRUE, ended |-> FALSE, value |-> StoredField(v, part, body),
                                 left |-> SubSeq(cells, p + 2 + n, m)]
            BY <2>1, <5>3, <5>4
          <5>6. ~(m < (p + 2 + n) - 1)
            BY <1>1, <4>1, <4>5
          <5> QED BY <5>5, <5>6, Zenon DEF At
        <4>6. CASE ~(Len(rest) >= n)
          <5>1. got.ok = FALSE
            BY <4>4, <4>6 DEF Failed
          <5>2. read_round(r) = failed
            BY <1>2, <2>4, <3>1, <5>1, Zenon DEF read_round, len
          <5>3. m < (p + 2 + n) - 1
            BY <1>1, <4>1, <4>6
          <5> QED BY <2>3, <5>2, <5>3, Zenon DEF At
        <4> QED BY <4>5, <4>6
      <3> QED BY <1>1, <2>6, <3>3, <3>4
    <2> QED BY <1>1, <1>4, <2>5, <2>6
  <1> QED BY <1>3, <1>4

(* The round that reaches the end of the fields is the last one.            *)
LEMMA LastRound ==
    ASSUME NEW S, NEW cells \in Seq(S), NEW p \in 1 .. Len(cells), NEW m \in 0 .. Len(cells),
           NEW r, NEW v, cells[p] = PART_END_INIT, At(r, v, cells, p, m)
    PROVE  IF m < p THEN read_round(r).ok = FALSE
           ELSE read_round(r) = [ok |-> TRUE, ended |-> TRUE, value |-> v,
                                 left |-> SubSeq(cells, p + 1, m)]
  <1> DEFINE left == SubSeq(cells, p, m)
  <1>1. Len(cells) \in Nat /\ m \in Nat
    OBVIOUS
  <1>2. CASE m < p - 1
    <2>1. r.ok = FALSE /\ m < p
      BY <1>1, <1>2 DEF At
    <2> QED BY <2>1, Zenon DEF read_round
  <1>3. CASE ~(m < p - 1)
    <2>1. r = [ok |-> TRUE, ended |-> FALSE, value |-> v, left |-> left]
      BY <1>3, Zenon DEF At
    <2>2. /\ left \in Seq(S) /\ Len(left) = m - p + 1
          /\ \A i \in 1 .. Len(left) : left[i] = cells[p + i - 1]
      BY <1>1, <1>3, Piece
    <2> HIDE DEF left
    <2>3. r.ok = TRUE /\ r.ended = FALSE /\ r.left = left
      BY <2>1
    <2>4. CASE m < p
      <3>1. left = <<>>
        BY <1>1, <1>3, <2>2, <2>4
      <3>2. read_round(r) = [r EXCEPT !.ok = FALSE]
        BY <2>3, <3>1, Zenon DEF read_round
      <3>3. read_round(r).ok = FALSE
        BY <2>1, <3>2
      <3> QED BY <2>4, <3>3
    <2>5. CASE ~(m < p)
      <3>1. left # <<>> /\ left[1] = PART_END_INIT
        BY <1>1, <2>2, <2>5
      <3>2. read_round(r) = [r EXCEPT !.left = From(@, 2), !.ended = TRUE]
        BY <2>3, <3>1, Zenon DEF read_round
      <3>3. From(left, 2) = SubSeq(cells, p + 1, m)
        <4> DEFINE t == From(left, 2)
                   u == SubSeq(cells, p + 1, m)
        <4>1. /\ t \in Seq(S) /\ Len(t) = m - p
              /\ \A i \in 1 .. m - p : t[i] = left[i + 1]
          <5>1. 2 \in Nat \ {0} /\ 2 <= Len(left) + 1 /\ Len(left) - 2 + 1 = m - p
            BY <1>1, <2>2, <2>5
          <5>2. /\ t \in Seq(S) /\ Len(t) = Len(left) - 2 + 1
                /\ \A i \in 1 .. Len(left) - 2 + 1 : t[i] = left[2 + i - 1]
            BY <2>2, <5>1, Remaining
          <5>3. \A i \in 1 .. m - p : 2 + i - 1 = i + 1
            OBVIOUS
          <5> HIDE DEF t
          <5> QED BY <5>1, <5>2, <5>3, Zenon
        <4>2. /\ u \in Seq(S) /\ Len(u) = m - p
              /\ \A i \in 1 .. m - p : u[i] = cells[p + i]
          <5>1. p + 1 \in Nat \ {0} /\ p + 1 <= m + 1 /\ m - (p + 1) + 1 = m - p
            BY <1>1, <2>5
          <5>2. /\ u \in Seq(S) /\ Len(u) = m - (p + 1) + 1
                /\ \A i \in 1 .. m - (p + 1) + 1 : u[i] = cells[(p + 1) + i - 1]
            BY <1>1, <5>1, Piece
          <5>3. \A i \in 1 .. m - p : (p + 1) + i - 1 = p + i
            OBVIOUS
          <5> HIDE DEF u
          <5> QED BY <5>1, <5>2, <5>3, Zenon
        <4> HIDE DEF t, u
        <4>3. \A i \in 1 .. m - p : t[i] = u[i]
          <5> SUFFICES ASSUME NEW i \in 1 .. m - p PROVE t[i] = u[i]
            OBVIOUS
          <5>1. i + 1 \in 1 .. Len(left) /\ p + (i + 1) - 1 = p + i
            BY <1>1, <2>2, <2>5
          <5>2. left[i + 1] = cells[p + i]
            BY <2>2, <5>1
          <5> QED BY <4>1, <4>2, <5>2
        <4>4. t = u
          BY <4>1, <4>2, <4>3, SeqEqual
        <4> QED BY <4>4 DEF t, u
      <3> QED BY <2>1, <2>5, <3>2, <3>3
    <2> QED BY <2>4, <2>5
  <1> QED BY <1>2, <1>3

-----------------------------------------------------------------------------
\* A round of the loop over the entries of a list of algorithms.
Decoded(entries, algos, i) ==
    IF entries[i][1] \in 1 .. 3 THEN Append(algos, entries[i]) ELSE algos

\* What the loop has after round k, of speeds behind an entry for no encryption
\* or not.
Sofar(speeds, first, k) ==
    IF first THEN IF k = 0 THEN <<>> ELSE SubSeq(speeds, 1, k - 1) ELSE SubSeq(speeds, 1, k)

(* The loop over the entries appends the known algorithms one by one.       *)
LEMMA DecodedRound ==
    ASSUME NEW a \in [algorithm_speeds : Seq((1 .. 3) \X Nat), allow_unencrypted : BOOLEAN],
           NEW k \in 1 .. Len(Entries(a))
    PROVE  LET done(j) == Sofar(a.algorithm_speeds, a.allow_unencrypted, j)
           IN  done(k) = Decoded(Entries(a), done(k - 1), k)
  <1> DEFINE s == a.algorithm_speeds
             done(j) == Sofar(s, a.allow_unencrypted, j)
             E == (1 .. 3) \X Nat
  <1>1. s \in Seq(E) /\ Len(s) \in Nat /\ a.allow_unencrypted \in BOOLEAN
    OBVIOUS
  <1>2. ASSUME NEW j \in 1 .. Len(s) PROVE Append(SubSeq(s, 1, j - 1), s[j]) = SubSeq(s, 1, j)
    BY <1>1, SubSeqRecursiveSecond
  <1>3. \A j \in 1 .. Len(s) : s[j] \in E /\ s[j][1] \in 1 .. 3
    BY <1>1
  <1> HIDE DEF s, E
  <1>4. CASE a.allow_unencrypted
    <2>1. Entries(a) = <<<<0, INFINITY>>>> \o s
      BY <1>4, Zenon DEF Entries, s
    <2>2. CASE k = 1
      <3>1. Entries(a)[k] = <<0, INFINITY>>
        BY <1>1, <2>1, <2>2
      <3>2. done(k) = <<>> /\ done(k - 1) = <<>>
        BY <1>1, <1>4, <2>2 DEF Sofar
      <3>3. Entries(a)[k][1] \notin 1 .. 3
        BY <3>1
      <3> QED BY <3>2, <3>3, Zenon DEF Decoded, s
    <2>3. CASE k # 1
      <3>1. Entries(a)[k] = s[k - 1] /\ k - 1 \in 1 .. Len(s)
        BY <1>1, <2>1, <2>3
      <3>2. done(k) = SubSeq(s, 1, k - 1) /\ done(k - 1) = SubSeq(s, 1, (k - 1) - 1)
        BY <1>4, <2>3, <3>1 DEF Sofar
      <3> QED BY <1>2, <1>3, <3>1, <3>2, Zenon DEF Decoded, s
    <2> QED BY <2>2, <2>3
  <1>5. CASE ~a.allow_unencrypted
    <2>1. Entries(a) = <<>> \o s
      BY <1>5, Zenon DEF Entries, s
    <2>2. Entries(a) = s
      BY <1>1, <2>1
    <2>3. done(k) = SubSeq(s, 1, k) /\ done(k - 1) = SubSeq(s, 1, k - 1)
      BY <1>5, Zenon DEF Sofar
    <2> QED BY <1>2, <1>3, <2>2, <2>3, Zenon DEF Decoded, s
  <1> QED BY <1>4, <1>5

(* The two cells of an entry.                                               *)
LEMMA Halves ==
    /\ \A n \in Nat : (2 * n) \div 2 = n /\ n * 2 = 2 * n
    /\ \A n \in Nat : \A i \in 1 .. 2 * n : (i + 1) \div 2 \in 1 .. n
    /\ \A i \in Nat : 2 - (i % 2) = 1 \/ 2 - (i % 2) = 2
  OBVIOUS

(* encode and decode of a list of algorithms: no encryption and unknown     *)
(* algorithms are told apart from the others.                               *)
LEMMA AlgorithmsRead ==
    ASSUME NEW a \in [algorithm_speeds : Seq((1 .. 3) \X Nat), allow_unencrypted : BOOLEAN]
    PROVE  LET body == encode_algorithms(a)
           IN  /\ body \in Seq({Num(n) : n \in Nat}) /\ OfKind(body, "num")
               /\ (Len(body) \div ENTRY) * ENTRY = Len(body)
               /\ decode_algorithms(body) = a
  <1> DEFINE body == encode_algorithms(a)
             e == Entries(a)
             n == Len(e)
             s == a.algorithm_speeds
             done(k) == Sofar(s, a.allow_unencrypted, k)
  <1>1. s \in Seq((1 .. 3) \X Nat) /\ Len(s) \in Nat /\ a.allow_unencrypted \in BOOLEAN
    OBVIOUS
  <1>2. /\ e \in Seq((0 .. 3) \X Nat) /\ n \in Nat
        /\ n = IF a.allow_unencrypted THEN Len(s) + 1 ELSE Len(s)
        /\ (\E i \in 1 .. n : e[i][1] = 0) = a.allow_unencrypted
    <2>0. s \in Seq((0 .. 3) \X Nat) /\ \A j \in 1 .. Len(s) : s[j][1] # 0
      <3>1. (1 .. 3) \X Nat \subseteq (0 .. 3) \X Nat
        OBVIOUS
      <3>2. s \in Seq((0 .. 3) \X Nat)
        <4> DEFINE S == (1 .. 3) \X Nat
                   T == (0 .. 3) \X Nat
        <4> HIDE DEF S, T
        <4>1. s \in Seq(S) /\ S \subseteq T
          BY <1>1, <3>1 DEF S, T
        <4>2. s \in Seq(T)
          BY <4>1, SeqMonotonic
        <4> QED BY <4>2 DEF T
      <3>3. \A j \in 1 .. Len(s) : s[j][1] \in 1 .. 3
        BY <1>1
      <3> QED BY <3>2, <3>3
    <2> HIDE DEF s
    <2>1. CASE a.allow_unencrypted
      <3>1. e = <<<<0, INFINITY>>>> \o s
        BY <2>1, Zenon DEF Entries, s
      <3>2. <<<<0, INFINITY>>>> \in Seq((0 .. 3) \X Nat)
        BY DEF INFINITY
      <3>3. e \in Seq((0 .. 3) \X Nat) /\ n = Len(s) + 1 /\ e[1] = <<0, INFINITY>>
        BY <1>1, <2>0, <3>1, <3>2
      <3> HIDE DEF e
      <3>4. \E i \in 1 .. n : e[i][1] = 0
        BY <1>1, <3>3
      <3> QED BY <1>1, <2>1, <3>3, <3>4
    <2>2. CASE ~a.allow_unencrypted
      <3>1. e = <<>> \o s
        BY <2>2, Zenon DEF Entries, s
      <3>2. e = s
        BY <1>1, <2>0, <3>1
      <3> QED BY <1>1, <2>0, <2>2, <3>2
    <2> QED BY <2>1, <2>2
  <1>3. ASSUME NEW k \in 1 .. n PROVE done(k) = Decoded(e, done(k - 1), k)
    BY DecodedRound
  <1>4. done(0) = <<>> /\ done(n) = s
    <2>1. CASE a.allow_unencrypted
      <3>1. SubSeq(s, 1, n - 1) = s
        BY <1>1, <1>2, <2>1
      <3>2. n # 0
        BY <1>1, <1>2, <2>1
      <3> QED BY <2>1, <3>1, <3>2, Zenon DEF Sofar
    <2>2. CASE ~a.allow_unencrypted
      <3>1. SubSeq(s, 1, n) = s /\ SubSeq(s, 1, 0) = <<>>
        BY <1>1, <1>2, <2>2
      <3> QED BY <2>2, <3>1, Zenon DEF Sofar
    <2> QED BY <2>1, <2>2
  <1> HIDE DEF e, done
  <1>5. /\ body = [i \in 1 .. 2 * n |-> Num(e[(i + 1) \div 2][2 - (i % 2)])]
    BY Zenon DEF encode_algorithms, ENTRY, e
  <1>6. ASSUME NEW i \in 1 .. 2 * n
        PROVE  body[i] \in {Num(k) : k \in Nat} /\ body[i][1] = "num"
    <2> DEFINE j == (i + 1) \div 2
    <2>1. j \in 1 .. n /\ i \in Nat
      BY <1>2, Halves
    <2> HIDE DEF j
    <2>2. e[j][2 - (i % 2)] \in Nat
      <3>1. e[j] \in (0 .. 3) \X Nat
        BY <1>2, <2>1
      <3>2. e[j][1] \in Nat /\ e[j][2] \in Nat
        BY <3>1
      <3> QED BY <2>1, <3>2, Halves, Zenon
    <2>3. body[i] = Num(e[j][2 - (i % 2)])
      BY <1>5 DEF j
    <2>4. body[i][1] = "num"
      BY <2>3 DEF Num
    <2> QED BY <2>2, <2>3, <2>4, Zenon
  <1>7. /\ body \in Seq({Num(k) : k \in Nat}) /\ Len(body) = 2 * n
    <2> DEFINE T == {Num(k) : k \in Nat}
    <2>1. 2 * n \in Nat
      BY <1>2
    <2>2. \A i \in 1 .. 2 * n : body[i] \in T
      BY <1>6
    <2> HIDE DEF T, n
    <2>3. body = [i \in 1 .. 2 * n |-> body[i]]
      BY <1>5
    <2> HIDE DEF body
    <2>4. body \in [1 .. 2 * n -> T]
      BY <2>2, <2>3
    <2>5. body \in Seq(T) /\ Len(body) = 2 * n
      BY <2>1, <2>4
    <2> QED BY <2>5 DEF T
  <1>8. ASSUME NEW i \in 1 .. n PROVE <<body[2 * i - 1][2], body[2 * i][2]>> = e[i]
    <2>1. /\ 2 * i - 1 \in 1 .. 2 * n /\ 2 * i \in 1 .. 2 * n
          /\ ((2 * i - 1) + 1) \div 2 = i /\ (2 * i + 1) \div 2 = i
          /\ 2 - ((2 * i - 1) % 2) = 1 /\ 2 - ((2 * i) % 2) = 2
      BY <1>2
    <2>2. body[2 * i - 1] = Num(e[i][1]) /\ body[2 * i] = Num(e[i][2])
      BY <1>5, <2>1
    <2>3. e[i] \in (0 .. 3) \X Nat
      BY <1>2
    <2> QED BY <2>2, <2>3 DEF Num
  <1>9. [i \in 1 .. Len(body) \div 2 |-> <<body[2 * i - 1][2], body[2 * i][2]>>] = e
    <2>1. Len(body) \div 2 = n
      BY <1>2, <1>7, Halves, Zenon
    <2>2. e = [i \in 1 .. n |-> e[i]]
      BY <1>2
    <2> HIDE DEF n, body
    <2> QED BY <1>8, <2>1, <2>2
  <1> DEFINE IsRun(f) == f = [i \in 0 .. n |-> IF i = 0 THEN <<>> ELSE Decoded(e, f[i - 1], i)]
             algos == CHOOSE f : IsRun(f)
  <1>10. decode_algorithms(body) = [algorithm_speeds |-> algos[n],
                                    allow_unencrypted |-> \E i \in 1 .. n : e[i][1] = 0]
    <2> HIDE DEF body
    <2>1. DOMAIN e = 1 .. n
      BY <1>2
    <2> DEFINE en == [i \in 1 .. Len(body) \div 2 |-> <<body[2 * i - 1][2], body[2 * i][2]>>]
    <2>2. en = e
      BY <1>9
    <2>3. decode_algorithms(body) =
            LET al[i \in 0 .. Len(en)] ==
                    IF i = 0 THEN <<>> ELSE Decoded(en, al[i - 1], i)
            IN  [algorithm_speeds |-> al[Len(en)],
                 allow_unencrypted |-> \E i \in DOMAIN en : en[i][1] = 0]
      BY Zenon DEF decode_algorithms, ENTRY, Decoded
    <2> QED BY <2>1, <2>2, <2>3, Zenon
  <1>11. IsRun(algos)
    <2> DEFINE f == [i \in 0 .. n |-> done(i)]
    <2>1. \A i \in 0 .. n : f[i] = IF i = 0 THEN <<>> ELSE Decoded(e, f[i - 1], i)
      BY <1>2, <1>3, <1>4
    <2>2. f = [i \in 0 .. n |-> f[i]]
      OBVIOUS
    <2> HIDE DEF f, n
    <2>3. IsRun(f)
      BY <2>1, <2>2
    <2> HIDE DEF IsRun
    <2> QED BY <2>3, Zenon
  <1>12. algos[n] = done(n)
    <2> HIDE DEF algos
    <2> DEFINE S == {k \in 0 .. n : algos[k] = done(k)}
    <2>1. \A i \in 0 .. n : algos[i] = IF i = 0 THEN <<>> ELSE Decoded(e, algos[i - 1], i)
      <3> HIDE DEF n
      <3> QED BY <1>11
    <2>2. 0 \in S
      BY <1>2, <1>4, <2>1
    <2>3. ASSUME NEW k \in 1 .. n, k - 1 \in S PROVE k \in S
      <3>1. algos[k] = Decoded(e, algos[k - 1], k) /\ algos[k - 1] = done(k - 1)
        BY <1>2, <2>1, <2>3
      <3>2. algos[k] = done(k)
        BY <1>3, <3>1, Zenon
      <3> QED BY <1>2, <3>2
    <2> HIDE DEF S, n
    <2>4. 0 .. n \subseteq S
      BY <1>2, <2>2, <2>3, EveryRound
    <2> QED BY <1>2, <2>4 DEF S
  <1> HIDE DEF algos
  <1>13. decode_algorithms(body) = [algorithm_speeds |-> s, allow_unencrypted |-> a.allow_unencrypted]
    BY <1>2, <1>4, <1>10, <1>12, Zenon
  <1>14. a = [algorithm_speeds |-> s, allow_unencrypted |-> a.allow_unencrypted]
    OBVIOUS
  <1>15. OfKind(body, "num")
    <2> HIDE DEF body
    <2> QED BY <1>6, <1>7 DEF OfKind
  <1>16. (Len(body) \div ENTRY) * ENTRY = Len(body)
    <2> HIDE DEF body
    <2>1. (2 * n) \div 2 = n /\ n * 2 = 2 * n
      BY <1>2, Halves, Zenon
    <2> QED BY <1>7, <2>1, Zenon DEF ENTRY
  <1> HIDE DEF body
  <1>17. decode_algorithms(body) = a
    BY <1>13, <1>14, Zenon
  <1> QED BY <1>7, <1>15, <1>16, <1>17, Zenon DEF body

-----------------------------------------------------------------------------
\* The cells begin with s.
Begins(cells, s) == Len(s) <= Len(cells) /\ \A i \in 1 .. Len(s) : cells[i] = s[i]

(* What begins with two pieces begins with the first one.                   *)
LEMMA BeginsLess ==
    ASSUME NEW S, NEW cells \in Seq(S), NEW s \in Seq(S), NEW t \in Seq(S), Begins(cells, s \o t)
    PROVE  Begins(cells, s)
  <1>1. /\ Len(s) \in Nat /\ Len(t) \in Nat /\ Len(cells) \in Nat
        /\ Len(s \o t) = Len(s) + Len(t)
        /\ \A i \in 1 .. Len(s) : (s \o t)[i] = s[i]
    BY ConcatProperties
  <1>2. \A i \in 1 .. Len(s) : i \in 1 .. Len(s \o t)
    BY <1>1
  <1> QED BY <1>1, <1>2 DEF Begins

\* After some rounds, less than there are cells, position p is reached.
Reached(f, v, cells, p, m) ==
    \E k \in 0 .. m - 1 : k <= p - 3 /\ At(f[k], v, cells, p, m)

(* The loop reads on over a field that a stage has or does not have.        *)
LEMMA ReadsOn ==
    ASSUME NEW S, NEW cells \in Seq(S), NEW s \in Seq(S), Len(s) >= 2,
           NEW present \in BOOLEAN, NEW part \in S, NEW body,
           present => /\ body \in Seq(S) /\ IsField(part, body) /\ Num(Len(body)) \in S
                      /\ Begins(cells, s \o Part(part, body)),
           NEW m \in 2 .. Len(cells), NEW f, NEW v,
           \A k \in 1 .. m - 1 : f[k] = read_round(f[k - 1]),
           Reached(f, v, cells, Len(s) + 1, m)
    PROVE  Reached(f, IF present THEN StoredField(v, part, body) ELSE v, cells,
                   Len(s \o PartIf(present, part, body)) + 1, m)
  <1>1. CASE ~present
    <2>1. s \o <<>> = s
      OBVIOUS
    <2> QED BY <1>1, <2>1, Zenon DEF PartIf
  <1>2. CASE present
    <2> DEFINE p == Len(s) + 1
               n == Len(body)
               w == s \o Part(part, body)
    <2>1. Len(s) \in Nat /\ n \in Nat /\ Len(cells) \in Nat /\ m \in Nat /\ p \in Nat \ {0}
      BY <1>2
    <2>2. /\ Len(w) = Len(s) + 2 + n
          /\ w[p] = part /\ w[p + 1] = Num(n) /\ \A i \in 1 .. n : w[p + 1 + i] = body[i]
      <3> DEFINE b == <<part, Num(n)>>
                 t == b \o body
      <3>1. b \in Seq(S) /\ Len(b) = 2 /\ b[1] = part /\ b[2] = Num(n)
        BY <1>2
      <3> HIDE DEF b
      <3>2. /\ t \in Seq(S) /\ Len(t) = 2 + n
            /\ \A i \in 1 .. 2 + n : t[i] = IF i <= 2 THEN b[i] ELSE body[i - 2]
        <4> HIDE DEF n
        <4>1. body \in Seq(S) /\ Len(body) = n
          BY <1>2 DEF n
        <4>2. /\ t \in Seq(S) /\ Len(t) = Len(b) + Len(body)
              /\ \A i \in 1 .. Len(b) + Len(body) :
                    t[i] = IF i <= Len(b) THEN b[i] ELSE body[i - Len(b)]
          BY <3>1, <4>1, ConcatProperties
        <4> QED BY <3>1, <4>1, <4>2, Zenon
      <3> HIDE DEF t
      <3>3. t[1] = part /\ t[2] = Num(n) /\ \A i \in 1 .. n : t[2 + i] = body[i]
        <4>1. t[1] = b[1] /\ t[2] = b[2]
          BY <2>1, <3>2
        <4>2. ASSUME NEW i \in 1 .. n PROVE t[2 + i] = body[i]
          <5>1. 2 + i \in 1 .. 2 + n /\ ~(2 + i <= 2) /\ (2 + i) - 2 = i
            BY <2>1
          <5> QED BY <3>2, <5>1
        <4> QED BY <3>1, <4>1, <4>2
      <3>4. w = s \o t
        BY Zenon DEF Part, t, b
      <3>5. /\ Len(w) = Len(s) + (2 + n)
            /\ \A i \in 1 .. Len(s) + (2 + n) : w[i] = IF i <= Len(s) THEN s[i] ELSE t[i - Len(s)]
        <4>1. /\ Len(s \o t) = Len(s) + Len(t)
              /\ \A i \in 1 .. Len(s) + Len(t) :
                    (s \o t)[i] = IF i <= Len(s) THEN s[i] ELSE t[i - Len(s)]
          BY <3>2, ConcatProperties
        <4> QED BY <3>2, <3>4, <4>1, Zenon
      <3> HIDE DEF w
      <3>6. ASSUME NEW i \in 1 .. 2 + n PROVE w[Len(s) + i] = t[i]
        <4>1. /\ Len(s) + i \in 1 .. Len(s) + (2 + n) /\ ~(Len(s) + i <= Len(s))
              /\ (Len(s) + i) - Len(s) = i
          BY <2>1
        <4> QED BY <3>5, <4>1
      <3>7. 1 \in 1 .. 2 + n /\ 2 \in 1 .. 2 + n /\ p + 1 = Len(s) + 2
            /\ Len(s) + (2 + n) = Len(s) + 2 + n
        BY <2>1
      <3>8. w[p] = part /\ w[p + 1] = Num(n)
        BY <3>3, <3>6, <3>7
      <3>9. ASSUME NEW i \in 1 .. n PROVE w[p + 1 + i] = body[i]
        <4>1. 2 + i \in 1 .. 2 + n /\ p + 1 + i = Len(s) + (2 + i)
          BY <2>1
        <4> QED BY <3>3, <3>6, <4>1
      <3> QED BY <3>5, <3>7, <3>8, <3>9
    <2> HIDE DEF w
    <2>3. Begins(cells, w)
      BY <1>2, Zenon DEF w
    <2>4. Holds(cells, p, part, body)
      <3>1. p \in 1 .. Len(w) /\ p + 1 \in 1 .. Len(w) /\ p + 1 + n <= Len(w)
            /\ \A i \in 1 .. n : p + 1 + i \in 1 .. Len(w)
        BY <2>1, <2>2
      <3>2. cells[p] = part /\ cells[p + 1] = Num(n) /\ \A i \in 1 .. n : cells[p + 1 + i] = body[i]
        BY <2>2, <2>3, <3>1, Zenon DEF Begins
      <3>3. p + 1 + n <= Len(cells)
        BY <2>1, <2>2, <2>3 DEF Begins
      <3> QED BY <3>2, <3>3, Zenon DEF Holds
    <2> HIDE DEF p
    <2>5. PICK k \in 0 .. m - 1 : k <= p - 3 /\ At(f[k], v, cells, p, m)
      BY Zenon DEF Reached, p
    <2> DEFINE q == p + 2 + n
               u == StoredField(v, part, body)
    <2>6. \E j \in 0 .. m - 1 : j <= q - 3 /\ At(f[j], u, cells, q, m)
      <3>1. CASE m < p - 1
        <4>1. m < q - 1 /\ k <= q - 3
          BY <2>1, <2>5, <3>1
        <4>2. f[k].ok = FALSE
          BY <2>5, <3>1, Zenon DEF At
        <4>3. At(f[k], u, cells, q, m)
          BY <4>1, <4>2, Zenon DEF At
        <4> QED BY <4>1, <4>3
      <3>2. CASE ~(m < p - 1)
        <4>1. k + 1 \in 1 .. m - 1 /\ k + 1 \in 0 .. m - 1 /\ k + 1 <= q - 3 /\ (k + 1) - 1 = k
          BY <2>1, <2>5, <3>2
        <4>2. f[k + 1] = read_round(f[k])
          BY <4>1
        <4>3. m \in 0 .. Len(cells) /\ p \in Nat \ {0}
          BY <2>1 DEF p
        <4>4. At(read_round(f[k]), u, cells, q, m)
          BY <1>2, <2>4, <2>5, <4>3, FieldRound
        <4> QED BY <4>1, <4>2, <4>4
      <3> QED BY <3>1, <3>2
    <2>7. q = Len(w) + 1
      <3>1. Len(w) = Len(s) + 2 + n
        BY <2>2
      <3> QED BY <2>1, <3>1 DEF p
    <2> HIDE DEF q
    <2>8. Reached(f, u, cells, Len(w) + 1, m)
      BY <2>6, <2>7, Zenon DEF Reached
    <2> QED BY <1>2, <2>8, Zenon DEF PartIf, w
  <1> QED BY <1>1, <1>2

(* The loop ends behind the end of the fields, or fails before.             *)
LEMMA ReadsToEnd ==
    ASSUME NEW S, NEW cells \in Seq(S), NEW s \in Seq(S), Len(s) >= 2, PART_END_INIT \in S,
           Begins(cells, s \o <<PART_END_INIT>>),
           NEW m \in 2 .. Len(cells), NEW f, NEW v,
           \A k \in 1 .. m - 1 : f[k] = read_round(f[k - 1]),
           Reached(f, v, cells, Len(s) + 1, m)
    PROVE  IF m < Len(s) + 1 THEN f[m - 1].ok = FALSE
           ELSE f[m - 1] = [ok |-> TRUE, ended |-> TRUE, value |-> v,
                            left |-> SubSeq(cells, Len(s) + 2, m)]
  <1> DEFINE p == Len(s) + 1
  <1>1. Len(s) \in Nat /\ Len(cells) \in Nat /\ m \in Nat /\ m - 1 \in Nat
        /\ m \in 0 .. Len(cells) /\ p + 1 = Len(s) + 2
    OBVIOUS
  <1>2. cells[p] = PART_END_INIT /\ p \in 1 .. Len(cells)
    <2> DEFINE w == s \o <<PART_END_INIT>>
    <2>1. Len(w) = p /\ w[p] = PART_END_INIT
      BY <1>1
    <2> HIDE DEF w
    <2>2. Begins(cells, w)
      BY DEF w
    <2>3. p \in 1 .. Len(w)
      BY <1>1, <2>1
    <2> QED BY <1>1, <2>1, <2>2, <2>3 DEF Begins
  <1>3. PICK k \in 0 .. m - 1 : k <= p - 3 /\ At(f[k], v, cells, p, m)
    BY Zenon DEF Reached
  <1> HIDE DEF p
  <1> SUFFICES IF m < p THEN f[m - 1].ok = FALSE
               ELSE f[m - 1] = [ok |-> TRUE, ended |-> TRUE, value |-> v,
                                left |-> SubSeq(cells, p + 1, m)]
    BY <1>1, Zenon DEF p
  <1>4. CASE m < p - 1
    <2>1. f[k].ok = FALSE /\ m < p
      BY <1>1, <1>2, <1>3, <1>4 DEF At
    <2>2. f[m - 1] = f[k]
      BY <1>1, <2>1, StaysOver
    <2> QED BY <2>1, <2>2, Zenon
  <1>5. CASE ~(m < p - 1)
    <2>1. k + 1 \in 1 .. m - 1 /\ k + 1 \in 0 .. m - 1 /\ (k + 1) - 1 = k
      BY <1>1, <1>2, <1>3, <1>5
    <2>2. f[k + 1] = read_round(f[k])
      BY <2>1
    <2>3. IF m < p THEN f[k + 1].ok = FALSE
          ELSE f[k + 1] = [ok |-> TRUE, ended |-> TRUE, value |-> v,
                           left |-> SubSeq(cells, p + 1, m)]
      BY <1>1, <1>2, <1>3, <2>2, LastRound
    <2>4. f[k + 1].ok = FALSE \/ f[k + 1].ended = TRUE
      <3>1. CASE m < p
        BY <2>3, <3>1, Zenon
      <3>2. CASE ~(m < p)
        BY <2>3, <3>2
      <3> QED BY <3>1, <3>2
    <2>5. f[m - 1] = f[k + 1]
      <3> DEFINE j == k + 1
                 n == m - 1
      <3>1. f[j].ok = FALSE \/ f[j].ended = TRUE
        BY <2>4
      <3>2. \A i \in 1 .. n : f[i] = read_round(f[i - 1])
        OBVIOUS
      <3>3. n \in Nat /\ j \in 0 .. n
        BY <1>1, <2>1
      <3> HIDE DEF j, n
      <3>4. f[n] = f[j]
        BY <3>1, <3>2, <3>3, StaysOver, Zenon
      <3> QED BY <3>4 DEF j, n
    <2> QED BY <2>3, <2>5, Zenon
  <1> QED BY <1>4, <1>5

-----------------------------------------------------------------------------
\* What the loop has read.
Fields(stage, hash, ecdh, algorithms, payload) ==
    [stage |-> stage, salted_node_id_hash |-> hash, ecdh_public_key |-> ecdh,
     algorithms |-> algorithms, encrypted_payload |-> payload]

\* A set with the cells of a message that a key signs.
HasCells(S, key, salt) ==
    /\ \A n \in Nat : Num(n) \in S
    /\ {"id"} \X Nat \subseteq S /\ {"ecdh"} \X Nat \subseteq S /\ {"payload"} \X Nat \subseteq S
    /\ <<"salt", salt>> \in S /\ calculate_hash(key, salt) \in S

(* The bodies of the fields of a message.                                   *)
LEMMA Bodies ==
    ASSUME NEW msg, IsMessage(msg), NEW key, NEW salt, NEW S, HasCells(S, key, salt)
    PROVE  /\ <<Num(msg.stage)>> \in Seq(S) /\ IsField(PART_STAGE, <<Num(msg.stage)>>)
           /\ <<msg.salted_node_id_hash>> \in Seq(S)
           /\ IsField(PART_SALTED_NODE_ID_HASH, <<msg.salted_node_id_hash>>)
           /\ msg.stage # STAGE_PENG =>
                /\ <<msg.ecdh_public_key>> \in Seq(S)
                /\ IsField(PART_ECDH_PUBLIC_KEY, <<msg.ecdh_public_key>>)
                /\ encode_algorithms(msg.algorithms) \in Seq(S)
                /\ IsField(PART_ALGORITHMS, encode_algorithms(msg.algorithms))
                /\ decode_algorithms(encode_algorithms(msg.algorithms)) = msg.algorithms
           /\ msg.stage # STAGE_PING =>
                /\ msg.encrypted_payload \in Seq(S)
                /\ IsField(PART_PAYLOAD, msg.encrypted_payload)
  <1>1. msg.stage \in Nat
    BY DEF IsMessage, STAGE_PING, STAGE_PONG, STAGE_PENG
  <1>2. <<Num(msg.stage)>> \in Seq(S) /\ IsField(PART_STAGE, <<Num(msg.stage)>>)
    <2>1. Num(msg.stage) \in S
      BY <1>1 DEF HasCells
    <2>2. Len(<<Num(msg.stage)>>) = 1 /\ OfKind(<<Num(msg.stage)>>, "num")
      BY DEF OfKind, Num
    <2> QED BY <2>1, <2>2 DEF IsField
  <1>3. /\ <<msg.salted_node_id_hash>> \in Seq(S)
        /\ IsField(PART_SALTED_NODE_ID_HASH, <<msg.salted_node_id_hash>>)
    <2> DEFINE x == msg.salted_node_id_hash
    <2>1. x \in {"id"} \X Nat
      BY DEF IsMessage
    <2>2. x \in S /\ x[1] = "id"
      BY <2>1 DEF HasCells
    <2> HIDE DEF x
    <2>3. Len(<<x>>) = 1 /\ OfKind(<<x>>, "id") /\ <<x>> \in Seq(S)
      BY <2>2 DEF OfKind
    <2> QED BY <2>3, Zenon DEF IsField, x
  <1>4. ASSUME msg.stage # STAGE_PENG
        PROVE  /\ <<msg.ecdh_public_key>> \in Seq(S)
               /\ IsField(PART_ECDH_PUBLIC_KEY, <<msg.ecdh_public_key>>)
    <2> DEFINE x == msg.ecdh_public_key
    <2>1. x \in {"ecdh"} \X Nat
      BY <1>4 DEF IsMessage
    <2>2. x \in S /\ x[1] = "ecdh"
      BY <2>1 DEF HasCells
    <2> HIDE DEF x
    <2>3. OfKind(<<x>>, "ecdh") /\ <<x>> \in Seq(S)
      BY <2>2 DEF OfKind
    <2> QED BY <2>3, Zenon DEF IsField, x
  <1>5. ASSUME msg.stage # STAGE_PENG
        PROVE  /\ encode_algorithms(msg.algorithms) \in Seq(S)
               /\ IsField(PART_ALGORITHMS, encode_algorithms(msg.algorithms))
               /\ decode_algorithms(encode_algorithms(msg.algorithms)) = msg.algorithms
    <2> DEFINE a == msg.algorithms
               body == encode_algorithms(a)
               T == {Num(n) : n \in Nat}
    <2>1. a \in [algorithm_speeds : Seq((1 .. 3) \X Nat), allow_unencrypted : BOOLEAN]
      BY <1>5 DEF IsMessage
    <2> HIDE DEF a
    <2>2. /\ body \in Seq(T) /\ OfKind(body, "num")
          /\ (Len(body) \div ENTRY) * ENTRY = Len(body)
          /\ decode_algorithms(body) = a
      BY <2>1, AlgorithmsRead
    <2>3. T \subseteq S
      BY DEF HasCells
    <2> HIDE DEF T, body
    <2>4. body \in Seq(S)
      BY <2>2, <2>3, SeqMonotonic
    <2> QED BY <2>2, <2>4, Zenon DEF IsField, a, body
  <1>6. ASSUME msg.stage # STAGE_PING
        PROVE  msg.encrypted_payload \in Seq(S) /\ IsField(PART_PAYLOAD, msg.encrypted_payload)
    <2> DEFINE x == msg.encrypted_payload
               T == {"payload"} \X Nat
    <2>1. x \in Seq(T)
      BY <1>6 DEF IsMessage
    <2>2. T \subseteq S /\ \A y \in T : y[1] = "payload"
      BY DEF HasCells
    <2> HIDE DEF T, x
    <2>3. x \in Seq(S)
      BY <2>1, <2>2, SeqMonotonic
    <2>4. OfKind(x, "payload")
      <3>1. \A i \in 1 .. Len(x) : x[i] \in T
        BY <2>1
      <3> QED BY <2>2, <3>1, Zenon DEF OfKind
    <2> QED BY <2>3, <2>4, Zenon DEF IsField, x
  <1> QED BY <1>2, <1>3, <1>4, <1>5, <1>6, Zenon

(* A part, or none, consists of cells.                                      *)
LEMMA PartCells ==
    ASSUME NEW S, \A n \in Nat : Num(n) \in S, NEW part \in S, NEW present \in BOOLEAN, NEW body,
           present => body \in Seq(S)
    PROVE  PartIf(present, part, body) \in Seq(S)
  <1>1. CASE present
    <2>1. body \in Seq(S) /\ Len(body) \in Nat
      BY <1>1
    <2>2. <<part, Num(Len(body))>> \in Seq(S)
      BY <2>1
    <2> QED BY <1>1, <2>1, <2>2 DEF PartIf, Part
  <1>2. CASE ~present
    BY <1>2 DEF PartIf
  <1> QED BY <1>1, <1>2

\* The fields of a message, the first n cells, are read from cells that are cut
\* off after m, if those are enough.
ReadBack(msg, n, cells, m) ==
    LET fields == read_fields(SubSeq(cells, 3, m), NoFields)
    IN  IF m < n THEN fields.ok = FALSE
        ELSE fields = [ok |-> TRUE, ended |-> TRUE, value |-> msg,
                       left |-> SubSeq(cells, n + 1, m)]

(* The loop over the fields reads a message back, or fails if the cells are *)
(* cut off before the end of the fields.                                    *)
LEMMA FieldsRead ==
    ASSUME NEW msg, IsMessage(msg), NEW key, NEW salt, NEW S, HasCells(S, key, salt),
           NEW cells \in Seq(S), Begins(cells, signed_data(msg, key, salt)),
           NEW m \in 2 .. Len(cells)
    PROVE  ReadBack(msg, Len(signed_data(msg, key, salt)), cells, m)
  <1> DEFINE late == msg.stage # STAGE_PENG
             pays == msg.stage # STAGE_PING
             b1 == <<Num(msg.stage)>>
             b2 == <<msg.salted_node_id_hash>>
             b3 == <<msg.ecdh_public_key>>
             b4 == encode_algorithms(msg.algorithms)
             b5 == msg.encrypted_payload
             w0 == <<<<"salt", salt>>, calculate_hash(key, salt)>>
             w1 == w0 \o PartIf(TRUE, PART_STAGE, b1)
             w2 == w1 \o PartIf(TRUE, PART_SALTED_NODE_ID_HASH, b2)
             w3 == w2 \o PartIf(late, PART_ECDH_PUBLIC_KEY, b3)
             w4 == w3 \o PartIf(late, PART_ALGORITHMS, b4)
             w5 == w4 \o PartIf(pays, PART_PAYLOAD, b5)
             v0 == Fields(Absent, Absent, Absent, Absent, Absent)
             v1 == Fields(msg.stage, Absent, Absent, Absent, Absent)
             v2 == Fields(msg.stage, msg.salted_node_id_hash, Absent, Absent, Absent)
             v3 == Fields(msg.stage, msg.salted_node_id_hash, msg.ecdh_public_key, Absent, Absent)
             v4 == Fields(msg.stage, msg.salted_node_id_hash, msg.ecdh_public_key,
                          msg.algorithms, Absent)
             start == [ok |-> TRUE, ended |-> FALSE, value |-> v0, left |-> SubSeq(cells, 3, m)]
  <1>1. signed_data(msg, key, salt) = w5 \o <<PART_END_INIT>>
    BY Zenon DEF signed_data, PartIf
  <1>2. /\ b1 \in Seq(S) /\ IsField(PART_STAGE, b1)
        /\ b2 \in Seq(S) /\ IsField(PART_SALTED_NODE_ID_HASH, b2)
        /\ late => /\ b3 \in Seq(S) /\ IsField(PART_ECDH_PUBLIC_KEY, b3)
                   /\ b4 \in Seq(S) /\ IsField(PART_ALGORITHMS, b4)
                   /\ decode_algorithms(b4) = msg.algorithms
        /\ pays => b5 \in Seq(S) /\ IsField(PART_PAYLOAD, b5)
    BY Bodies, Zenon
  <1>3. /\ PART_STAGE \in S /\ PART_SALTED_NODE_ID_HASH \in S /\ PART_ECDH_PUBLIC_KEY \in S
        /\ PART_ALGORITHMS \in S /\ PART_PAYLOAD \in S /\ PART_END_INIT \in S
        /\ \A n \in Nat : Num(n) \in S
    BY DEF HasCells, PART_STAGE, PART_SALTED_NODE_ID_HASH, PART_ECDH_PUBLIC_KEY,
           PART_ALGORITHMS, PART_PAYLOAD, PART_END_INIT
  <1>4. /\ late \in BOOLEAN /\ pays \in BOOLEAN
        /\ ~late => msg.ecdh_public_key = Absent /\ msg.algorithms = Absent
        /\ ~pays => msg.encrypted_payload = Absent
    BY DEF IsMessage
  <1>5. msg = Fields(msg.stage, msg.salted_node_id_hash, msg.ecdh_public_key,
                     msg.algorithms, msg.encrypted_payload)
    BY DEF IsMessage, Fields
  <1>6. /\ StoredField(v0, PART_STAGE, b1) = v1
        /\ StoredField(v1, PART_SALTED_NODE_ID_HASH, b2) = v2
        /\ (IF late THEN StoredField(v2, PART_ECDH_PUBLIC_KEY, b3) ELSE v2) = v3
        /\ (IF late THEN StoredField(v3, PART_ALGORITHMS, b4) ELSE v3) = v4
        /\ (IF pays THEN StoredField(v4, PART_PAYLOAD, b5) ELSE v4) = msg
    <2> HIDE DEF b4, late, pays
    <2>1. StoredField(v0, PART_STAGE, b1) = v1
      BY DEF StoredField, Fields, PART_STAGE,
         PART_SALTED_NODE_ID_HASH, PART_ECDH_PUBLIC_KEY, PART_PAYLOAD, PART_ALGORITHMS, Num
    <2>2. StoredField(v1, PART_SALTED_NODE_ID_HASH, b2) = v2
      BY DEF StoredField, Fields, PART_STAGE,
         PART_SALTED_NODE_ID_HASH, PART_ECDH_PUBLIC_KEY, PART_PAYLOAD, PART_ALGORITHMS, Num
    <2>3. StoredField(v2, PART_ECDH_PUBLIC_KEY, b3) = v3
      BY DEF StoredField, Fields, PART_STAGE,
         PART_SALTED_NODE_ID_HASH, PART_ECDH_PUBLIC_KEY, PART_PAYLOAD, PART_ALGORITHMS, Num
    <2>4. late => StoredField(v3, PART_ALGORITHMS, b4) = v4
      <3>1. StoredField(v3, PART_ALGORITHMS, b4) =
                Fields(msg.stage, msg.salted_node_id_hash, msg.ecdh_public_key,
                       decode_algorithms(b4), Absent)
        BY DEF StoredField, Fields, PART_STAGE, PART_SALTED_NODE_ID_HASH, PART_ECDH_PUBLIC_KEY,
               PART_PAYLOAD, PART_ALGORITHMS, Num
      <3> QED BY <1>2, <3>1, Zenon
    <2>5. StoredField(v4, PART_PAYLOAD, b5) = msg
      BY <1>5 DEF StoredField, Fields, PART_STAGE,
         PART_SALTED_NODE_ID_HASH, PART_ECDH_PUBLIC_KEY, PART_PAYLOAD, PART_ALGORITHMS, Num
    <2>6. (~late => v2 = v3 /\ v3 = v4) /\ (~pays => v4 = msg)
      BY <1>4, <1>5, Zenon
    <2> QED BY <2>1, <2>2, <2>3, <2>4, <2>5, <2>6, Zenon
  <1>7. w0 \in Seq(S) /\ Len(w0) = 2
    BY DEF HasCells
  <1> HIDE DEF late, pays, b1, b2, b3, b4, b5, w0, v0, v1, v2, v3, v4
  <1>8. /\ PartIf(TRUE, PART_STAGE, b1) \in Seq(S)
        /\ PartIf(TRUE, PART_SALTED_NODE_ID_HASH, b2) \in Seq(S)
        /\ PartIf(late, PART_ECDH_PUBLIC_KEY, b3) \in Seq(S)
        /\ PartIf(late, PART_ALGORITHMS, b4) \in Seq(S)
        /\ PartIf(pays, PART_PAYLOAD, b5) \in Seq(S)
        /\ <<PART_END_INIT>> \in Seq(S)
    <2>1. PartIf(TRUE, PART_STAGE, b1) \in Seq(S)
      BY <1>2, <1>3, PartCells
    <2>2. PartIf(TRUE, PART_SALTED_NODE_ID_HASH, b2) \in Seq(S)
      BY <1>2, <1>3, PartCells
    <2>3. PartIf(late, PART_ECDH_PUBLIC_KEY, b3) \in Seq(S)
      BY <1>2, <1>3, <1>4, PartCells
    <2>4. PartIf(late, PART_ALGORITHMS, b4) \in Seq(S)
      BY <1>2, <1>3, <1>4, PartCells
    <2>5. PartIf(pays, PART_PAYLOAD, b5) \in Seq(S)
      BY <1>2, <1>3, <1>4, PartCells
    <2>6. <<PART_END_INIT>> \in Seq(S)
      BY <1>3
    <2> QED BY <2>1, <2>2, <2>3, <2>4, <2>5, <2>6
  <1>9. /\ w1 \in Seq(S) /\ Len(w1) >= 2 /\ w2 \in Seq(S) /\ Len(w2) >= 2
        /\ w3 \in Seq(S) /\ Len(w3) >= 2 /\ w4 \in Seq(S) /\ Len(w4) >= 2
        /\ w5 \in Seq(S) /\ Len(w5) >= 2
    <2>1. ASSUME NEW s \in Seq(S), Len(s) >= 2, NEW t \in Seq(S)
          PROVE  s \o t \in Seq(S) /\ Len(s \o t) >= 2
      BY <2>1
    <2>2. w1 \in Seq(S) /\ Len(w1) >= 2
      <3>1. Len(w0) >= 2
        BY <1>7
      <3> QED BY <1>7, <1>8, <2>1, <3>1, Zenon
    <2> HIDE DEF w1
    <2>3. w2 \in Seq(S) /\ Len(w2) >= 2
      BY <1>8, <2>1, <2>2
    <2> HIDE DEF w2
    <2>4. w3 \in Seq(S) /\ Len(w3) >= 2
      BY <1>8, <2>1, <2>3
    <2> HIDE DEF w3
    <2>5. w4 \in Seq(S) /\ Len(w4) >= 2
      BY <1>8, <2>1, <2>4
    <2> HIDE DEF w4
    <2>6. w5 \in Seq(S) /\ Len(w5) >= 2
      BY <1>8, <2>1, <2>5
    <2> QED BY <2>2, <2>3, <2>4, <2>5, <2>6
  <1>10. /\ Begins(cells, w5 \o <<PART_END_INIT>>) /\ Begins(cells, w5) /\ Begins(cells, w4)
         /\ Begins(cells, w3) /\ Begins(cells, w2) /\ Begins(cells, w1)
    <2>1. Begins(cells, w5 \o <<PART_END_INIT>>)
      BY <1>1, Zenon
    <2>2. Begins(cells, w5)
      <3> HIDE DEF w5
      <3> QED BY <1>8, <1>9, <2>1, BeginsLess
    <2>3. Begins(cells, w4)
      <3> HIDE DEF w4
      <3> QED BY <1>8, <1>9, <2>2, BeginsLess
    <2>4. Begins(cells, w3)
      <3> HIDE DEF w3
      <3> QED BY <1>8, <1>9, <2>3, BeginsLess DEF w4
    <2>5. Begins(cells, w2)
      <3> HIDE DEF w2
      <3> QED BY <1>8, <1>9, <2>4, BeginsLess DEF w3
    <2>6. Begins(cells, w1)
      <3> HIDE DEF w1
      <3> QED BY <1>8, <1>9, <2>5, BeginsLess DEF w2
    <2> QED BY <2>1, <2>2, <2>3, <2>4, <2>5, <2>6
  <1>11. PICK f : /\ read_fields(SubSeq(cells, 3, m), NoFields) = f[m - 1] /\ f[0] = start
                  /\ \A k \in 1 .. m - 1 : f[k] = read_round(f[k - 1])
    <2>1. Len(SubSeq(cells, 3, m)) + 1 = m - 1 /\ m - 1 \in Nat
      BY Piece
    <2>2. read_fields(SubSeq(cells, 3, m), NoFields) = Rounds(start, m - 1)
      BY <2>1, Zenon DEF read_fields, NoFields, Fields, v0
    <2> HIDE DEF start
    <2> QED BY <2>1, <2>2, RoundsRead
  <1>12. Reached(f, v0, cells, Len(w0) + 1, m)
    <2>1. Len(w0) + 1 = 3 /\ 0 <= 3 - 3 /\ 0 \in 0 .. m - 1 /\ ~(m < 3 - 1)
      BY <1>7
    <2>2. At(f[0], v0, cells, 3, m)
      BY <1>11, <2>1, Zenon DEF At
    <2> QED BY <2>1, <2>2, Zenon DEF Reached
  <1> HIDE DEF start, w1, w2, w3, w4, w5
  <1>13. Reached(f, v1, cells, Len(w1) + 1, m)
    <2>1. Num(Len(b1)) \in S
      BY <1>2, <1>3
    <2>2. Begins(cells, w0 \o Part(PART_STAGE, b1))
      BY <1>10, Zenon DEF w1, PartIf
    <2>3. Len(w0) >= 2
      BY <1>7
    <2>4. Reached(f, IF TRUE THEN StoredField(v0, PART_STAGE, b1) ELSE v0, cells,
                  Len(w0 \o PartIf(TRUE, PART_STAGE, b1)) + 1, m)
      BY <1>2, <1>3, <1>7, <1>11, <1>12, <2>1, <2>2, <2>3, ReadsOn
    <2> QED BY <1>6, <2>4, Zenon DEF w1
  <1>14. Reached(f, v2, cells, Len(w2) + 1, m)
    <2>1. Num(Len(b2)) \in S
      BY <1>2, <1>3
    <2>2. Begins(cells, w1 \o Part(PART_SALTED_NODE_ID_HASH, b2))
      BY <1>10, Zenon DEF w2, PartIf
    <2>3. Reached(f, IF TRUE THEN StoredField(v1, PART_SALTED_NODE_ID_HASH, b2) ELSE v1, cells,
                  Len(w1 \o PartIf(TRUE, PART_SALTED_NODE_ID_HASH, b2)) + 1, m)
      BY <1>2, <1>3, <1>9, <1>11, <1>13, <2>1, <2>2, ReadsOn
    <2> QED BY <1>6, <2>3, Zenon DEF w2
  <1>15. Reached(f, v3, cells, Len(w3) + 1, m)
    <2>1. late => Num(Len(b3)) \in S
      BY <1>2, <1>3
    <2>2. late => Begins(cells, w2 \o Part(PART_ECDH_PUBLIC_KEY, b3))
      BY <1>10, Zenon DEF w3, PartIf
    <2>3. Reached(f, IF late THEN StoredField(v2, PART_ECDH_PUBLIC_KEY, b3) ELSE v2, cells,
                  Len(w2 \o PartIf(late, PART_ECDH_PUBLIC_KEY, b3)) + 1, m)
      BY <1>2, <1>3, <1>4, <1>9, <1>11, <1>14, <2>1, <2>2, ReadsOn
    <2> QED BY <1>6, <2>3, Zenon DEF w3
  <1>16. Reached(f, v4, cells, Len(w4) + 1, m)
    <2>1. late => Num(Len(b4)) \in S
      BY <1>2, <1>3
    <2>2. late => Begins(cells, w3 \o Part(PART_ALGORITHMS, b4))
      BY <1>10, Zenon DEF w4, PartIf
    <2>3. Reached(f, IF late THEN StoredField(v3, PART_ALGORITHMS, b4) ELSE v3, cells,
                  Len(w3 \o PartIf(late, PART_ALGORITHMS, b4)) + 1, m)
      BY <1>2, <1>3, <1>4, <1>9, <1>11, <1>15, <2>1, <2>2, ReadsOn
    <2> QED BY <1>6, <2>3, Zenon DEF w4
  <1>17. Reached(f, msg, cells, Len(w5) + 1, m)
    <2>1. pays => Num(Len(b5)) \in S
      BY <1>2, <1>3
    <2>2. pays => Begins(cells, w4 \o Part(PART_PAYLOAD, b5))
      BY <1>10, Zenon DEF w5, PartIf
    <2>3. Reached(f, IF pays THEN StoredField(v4, PART_PAYLOAD, b5) ELSE v4, cells,
                  Len(w4 \o PartIf(pays, PART_PAYLOAD, b5)) + 1, m)
      BY <1>2, <1>3, <1>4, <1>9, <1>11, <1>16, <2>1, <2>2, ReadsOn
    <2> QED BY <1>6, <2>3, Zenon DEF w5
  <1>18. IF m < Len(w5) + 1 THEN f[m - 1].ok = FALSE
         ELSE f[m - 1] = [ok |-> TRUE, ended |-> TRUE, value |-> msg,
                          left |-> SubSeq(cells, Len(w5) + 2, m)]
    BY <1>3, <1>9, <1>10, <1>11, <1>17, ReadsToEnd
  <1>19. /\ Len(signed_data(msg, key, salt)) = Len(w5) + 1
         /\ Len(signed_data(msg, key, salt)) + 1 = Len(w5) + 2
    BY <1>1, <1>8, <1>9
  <1> QED BY <1>11, <1>18, <1>19, Zenon DEF ReadBack

-----------------------------------------------------------------------------
(* What is signed consists of cells, and begins with salt and hash.         *)
LEMMA SignedCells ==
    ASSUME NEW msg, IsMessage(msg), NEW key, NEW salt, NEW S, HasCells(S, key, salt)
    PROVE  LET data == signed_data(msg, key, salt)
           IN  /\ data \in Seq(S) /\ Len(data) >= 2
               /\ data[1] = <<"salt", salt>> /\ data[2] = calculate_hash(key, salt)
  <1> DEFINE late == msg.stage # STAGE_PENG
             pays == msg.stage # STAGE_PING
             w0 == <<<<"salt", salt>>, calculate_hash(key, salt)>>
             p1 == PartIf(TRUE, PART_STAGE, <<Num(msg.stage)>>)
             p2 == PartIf(TRUE, PART_SALTED_NODE_ID_HASH, <<msg.salted_node_id_hash>>)
             p3 == PartIf(late, PART_ECDH_PUBLIC_KEY, <<msg.ecdh_public_key>>)
             p4 == PartIf(late, PART_ALGORITHMS, encode_algorithms(msg.algorithms))
             p5 == PartIf(pays, PART_PAYLOAD, msg.encrypted_payload)
             Good(s) == s \in Seq(S) /\ Len(s) >= 2
                        /\ s[1] = <<"salt", salt>> /\ s[2] = calculate_hash(key, salt)
  <1>1. signed_data(msg, key, salt) = ((((((w0 \o p1) \o p2) \o p3) \o p4) \o p5) \o <<PART_END_INIT>>)
    BY Zenon DEF signed_data, PartIf
  <1>2. Good(w0)
    BY DEF HasCells
  <1>3. /\ PART_STAGE \in S /\ PART_SALTED_NODE_ID_HASH \in S /\ PART_ECDH_PUBLIC_KEY \in S
        /\ PART_ALGORITHMS \in S /\ PART_PAYLOAD \in S /\ PART_END_INIT \in S
        /\ \A n \in Nat : Num(n) \in S
    BY DEF HasCells, PART_STAGE, PART_SALTED_NODE_ID_HASH, PART_ECDH_PUBLIC_KEY,
           PART_ALGORITHMS, PART_PAYLOAD, PART_END_INIT
  <1>4. p1 \in Seq(S) /\ p2 \in Seq(S)
    BY <1>3, Bodies, PartCells
  <1>5. p3 \in Seq(S) /\ p4 \in Seq(S) /\ p5 \in Seq(S)
    <2>1. late \in BOOLEAN /\ pays \in BOOLEAN
      OBVIOUS
    <2>2. late => <<msg.ecdh_public_key>> \in Seq(S) /\ encode_algorithms(msg.algorithms) \in Seq(S)
      BY Bodies, Zenon
    <2>3. pays => msg.encrypted_payload \in Seq(S)
      BY Bodies, Zenon
    <2> HIDE DEF late, pays
    <2>4. p3 \in Seq(S)
      BY <1>3, <2>1, <2>2, PartCells
    <2>5. p4 \in Seq(S)
      BY <1>3, <2>1, <2>2, PartCells
    <2>6. p5 \in Seq(S)
      BY <1>3, <2>1, <2>3, PartCells
    <2> QED BY <2>4, <2>5, <2>6
  <1>6. <<PART_END_INIT>> \in Seq(S)
    BY <1>3
  <1>7. ASSUME NEW s, Good(s), NEW t \in Seq(S) PROVE Good(s \o t)
    BY <1>7
  <1> HIDE DEF Good, w0, p1, p2, p3, p4, p5
  <1>8. Good(((w0 \o p1) \o p2) \o p3)
    BY <1>2, <1>4, <1>5, <1>7, Zenon
  <1>9. Good((((((w0 \o p1) \o p2) \o p3) \o p4) \o p5) \o <<PART_END_INIT>>)
    BY <1>5, <1>6, <1>7, <1>8, Zenon
  <1> QED BY <1>1, <1>9 DEF Good

(* A message keeps its fields when it is complete.                          *)
LEMMA CompleteMessage ==
    ASSUME NEW msg, IsMessage(msg)
    PROVE  Complete(msg) = msg
  <1>1. msg = Fields(msg.stage, msg.salted_node_id_hash, msg.ecdh_public_key,
                     msg.algorithms, msg.encrypted_payload)
    BY DEF IsMessage, Fields
  <1>2. /\ STAGE_PING # STAGE_PONG /\ STAGE_PING # STAGE_PENG /\ STAGE_PONG # STAGE_PENG
        /\ msg.stage \in {STAGE_PING, STAGE_PONG, STAGE_PENG}
    BY DEF IsMessage, STAGE_PING, STAGE_PONG, STAGE_PENG
  <1>3. /\ msg.salted_node_id_hash # Absent
        /\ msg.ecdh_public_key = Absent <=> msg.stage = STAGE_PENG
        /\ msg.algorithms = Absent <=> msg.stage = STAGE_PENG
        /\ msg.encrypted_payload = Absent <=> msg.stage = STAGE_PING
    BY Zenon DEF IsMessage
  <1>4. CASE msg.stage = STAGE_PING
    <2>1. [msg EXCEPT !.encrypted_payload = Absent] = msg
      BY <1>1, <1>3, <1>4 DEF Fields
    <2> QED BY <1>2, <1>3, <1>4, <2>1, Zenon DEF Complete
  <1>5. CASE msg.stage = STAGE_PONG
    BY <1>2, <1>3, <1>5, Zenon DEF Complete
  <1>6. CASE msg.stage = STAGE_PENG
    <2>1. [msg EXCEPT !.ecdh_public_key = Absent, !.algorithms = Absent] = msg
      BY <1>1, <1>3, <1>6 DEF Fields
    <2> QED BY <1>2, <1>3, <1>6, <2>1, Zenon DEF Complete
  <1> QED BY <1>2, <1>4, <1>5, <1>6

(* read_from of a message that is written, whatever follows, up to the cell *)
(* where it is cut off.                                                     *)
LEMMA MessageRead ==
    ASSUME NEW msg, IsMessage(msg), msg # Absent, NEW key, NEW salt,
           NEW S, HasCells(S, key, salt),
           Sign(key, signed_data(msg, key, salt)) \in S,
           NEW rest \in Seq(S), NEW trusted, IsSequence(trusted),
           NEW m \in 0 .. Len(write_to(msg, key, salt) \o rest)
    PROVE  LET cells == write_to(msg, key, salt) \o rest
               known == \E i \in DOMAIN trusted : trusted[i] = key
           IN  read_from(SubSeq(cells, 1, m), trusted) =
                   IF m >= Len(write_to(msg, key, salt)) /\ known THEN Read(msg, key) ELSE Failed
  <1> DEFINE data == signed_data(msg, key, salt)
             n == Len(data)
             sig == <<Num(1), Sign(key, data)>>
             cells == (data \o sig) \o rest
             c == SubSeq(cells, 1, m)
             fields == read_fields(From(c, 3), NoFields)
             found == {i \in DOMAIN trusted : calculate_hash(trusted[i], c[1][2]) = c[2]}
             known == \E i \in DOMAIN trusted : trusted[i] = key
             theirs == trusted[CHOOSE i \in found : \A j \in found : i <= j]
             signed == FirstOf(c, Len(c) - Len(fields.left))
  <1>1. write_to(msg, key, salt) = data \o sig
    BY Zenon DEF write_to
  <1>2. /\ data \in Seq(S) /\ n \in Nat /\ n >= 2
        /\ data[1] = <<"salt", salt>> /\ data[2] = calculate_hash(key, salt)
    <2>1. /\ data \in Seq(S) /\ Len(data) >= 2
          /\ data[1] = <<"salt", salt>> /\ data[2] = calculate_hash(key, salt)
      BY SignedCells, Zenon
    <2> HIDE DEF data
    <2>2. Len(data) \in Nat
      BY <2>1
    <2> QED BY <2>1, <2>2, Zenon
  <1>3. sig \in Seq(S) /\ Len(sig) = 2 /\ sig[1] = Num(1) /\ sig[2] = Sign(key, data)
    BY DEF HasCells
  <1> HIDE DEF data, sig
  <1>4. /\ data \o sig \in Seq(S) /\ Len(data \o sig) = n + 2
        /\ \A i \in 1 .. n : (data \o sig)[i] = data[i]
        /\ (data \o sig)[n + 1] = Num(1) /\ (data \o sig)[n + 2] = Sign(key, data)
    <2> DEFINE t == data \o sig
    <2> HIDE DEF n, t
    <2>1. n \in Nat /\ Len(data) = n
      BY <1>2 DEF n
    <2>2. /\ t \in Seq(S) /\ Len(t) = n + 2
          /\ \A i \in 1 .. n + 2 : t[i] = IF i <= n THEN data[i] ELSE sig[i - n]
      <3>1. /\ data \o sig \in Seq(S) /\ Len(data \o sig) = Len(data) + Len(sig)
            /\ \A i \in 1 .. Len(data) + Len(sig) :
                  (data \o sig)[i] = IF i <= Len(data) THEN data[i] ELSE sig[i - Len(data)]
        BY <1>2, <1>3, ConcatProperties
      <3> QED BY <1>3, <2>1, <3>1, Zenon DEF t
    <2>3. \A i \in 1 .. n : t[i] = data[i]
      BY <2>1, <2>2
    <2>4. t[n + 1] = sig[1] /\ t[n + 2] = sig[2]
      BY <2>1, <2>2
    <2> QED BY <1>3, <2>2, <2>3, <2>4, Zenon DEF t
  <1>5. /\ cells \in Seq(S) /\ Len(cells) \in Nat /\ Len(cells) >= n + 2
        /\ \A i \in 1 .. n + 2 : cells[i] = (data \o sig)[i]
    <2> DEFINE t == data \o sig
    <2>1. t \in Seq(S) /\ Len(t) = n + 2
      BY <1>4
    <2> HIDE DEF t, n
    <2>2. /\ t \o rest \in Seq(S) /\ Len(t \o rest) = Len(t) + Len(rest)
          /\ \A i \in 1 .. Len(t) + Len(rest) :
                (t \o rest)[i] = IF i <= Len(t) THEN t[i] ELSE rest[i - Len(t)]
      BY <2>1, ConcatProperties
    <2>3. Len(rest) \in Nat /\ n \in Nat
      BY <1>2 DEF n
    <2>4. /\ t \o rest \in Seq(S) /\ Len(t \o rest) \in Nat /\ Len(t \o rest) >= n + 2
          /\ \A i \in 1 .. n + 2 : (t \o rest)[i] = t[i]
      BY <2>1, <2>2, <2>3
    <2> QED BY <2>4 DEF t
  <1>6. m \in 0 .. Len(cells) /\ m \in Nat
    BY <1>1, <1>5
  <1>7. Begins(cells, data)
    <2> HIDE DEF cells
    <2> QED BY <1>2, <1>4, <1>5 DEF Begins
  <1>8. read_from(c, trusted) =
            IF Len(c) < 2 \/ found = {} \/ ~fields.ok \/ ~Verified(theirs, signed, fields.left)
               \/ Complete(fields.value) = Absent
            THEN Failed
            ELSE Read(Complete(fields.value), theirs)
    BY Zenon DEF read_from
  <1>9. cells[1] = <<"salt", salt>> /\ cells[2] = calculate_hash(key, salt)
        /\ cells[n + 1] = Num(1) /\ cells[n + 2] = Sign(key, data)
    <2> HIDE DEF cells
    <2>1. /\ 1 \in 1 .. n + 2 /\ 2 \in 1 .. n + 2 /\ n + 1 \in 1 .. n + 2 /\ n + 2 \in 1 .. n + 2
          /\ 1 \in 1 .. n /\ 2 \in 1 .. n
      BY <1>2
    <2> HIDE DEF n
    <2> QED BY <1>2, <1>4, <1>5, <2>1, Zenon
  <1> HIDE DEF cells
  <1>10. /\ c \in Seq(S) /\ Len(c) = m /\ \A i \in 1 .. m : c[i] = cells[i]
    BY <1>5, <1>6
  <1> SUFFICES read_from(c, trusted) = IF m >= n + 2 /\ known THEN Read(msg, key) ELSE Failed
    BY <1>1, <1>4, Zenon DEF cells
  <1>11. CASE m < 2
    <2>1. Len(c) < 2 /\ ~(m >= n + 2)
      BY <1>2, <1>6, <1>10, <1>11
    <2> QED BY <1>8, <2>1, Zenon
  <1>12. CASE ~(m < 2)
    <2>1. m \in 2 .. Len(cells) /\ ~(Len(c) < 2)
      <3>1. Len(c) = m
        BY <1>10
      <3>2. m \in 2 .. Len(cells)
        BY <1>5, <1>6, <1>12
      <3> QED BY <1>12, <3>1, <3>2, Zenon
    <2>2. From(c, 3) = SubSeq(cells, 3, m)
      BY <1>5, <1>10, <2>1 DEF From
    <2>3. c[1][2] = salt /\ c[2] = calculate_hash(key, salt)
      BY <1>9, <1>10, <2>1
    <2>4. found = {i \in DOMAIN trusted : trusted[i] = key}
      <3>1. \A k : calculate_hash(k, salt) = calculate_hash(key, salt) <=> k = key
        BY DEF calculate_hash
      <3> QED BY <2>3, <3>1, Zenon
    <2>5. IF m < n THEN fields.ok = FALSE
          ELSE fields = [ok |-> TRUE, ended |-> TRUE, value |-> msg,
                         left |-> SubSeq(cells, n + 1, m)]
      <3> DEFINE there == read_fields(SubSeq(cells, 3, m), NoFields)
      <3>1. IF m < n THEN there.ok = FALSE
            ELSE there = [ok |-> TRUE, ended |-> TRUE, value |-> msg,
                          left |-> SubSeq(cells, n + 1, m)]
        <4>1. Begins(cells, signed_data(msg, key, salt))
          BY <1>7 DEF data
        <4>2. ReadBack(msg, Len(signed_data(msg, key, salt)), cells, m)
          BY <1>5, <2>1, <4>1, FieldsRead
        <4> QED BY <4>2, Zenon DEF ReadBack, data
      <3>2. fields = there
        BY <2>2, Zenon
      <3> QED BY <3>1, <3>2, Zenon
    <2> HIDE DEF fields, c, found, signed, theirs
    <2>6. CASE ~known
      <3>1. found = {}
        BY <2>4, <2>6, Zenon
      <3> QED BY <1>8, <2>6, <3>1, Zenon
    <2>7. CASE m < n
      <3>1. fields.ok = FALSE /\ ~(m >= n + 2)
        BY <1>2, <1>6, <2>5, <2>7
      <3> QED BY <1>8, <3>1, Zenon
    <2>8. CASE known /\ ~(m < n)
      <3>1. theirs = key /\ found # {}
        <4>1. found \in SUBSET Nat /\ found # {}
          <5>1. DOMAIN trusted \subseteq Nat
            BY DEF IsSequence
          <5> QED BY <2>4, <2>8, <5>1
        <4>2. \E i \in found : \A j \in found : i <= j
          BY <4>1, LeastNumber, Zenon
        <4>3. (CHOOSE i \in found : \A j \in found : i <= j) \in found
          BY <4>2, Zenon
        <4>4. \A i \in found : trusted[i] = key
          BY <2>4, Zenon
        <4> QED BY <4>1, <4>3, <4>4, Zenon DEF theirs
      <3> DEFINE left == SubSeq(cells, n + 1, m)
      <3>2. fields.ok = TRUE /\ fields.value = msg /\ fields.left = left
        BY <2>5, <2>8
      <3>3. /\ left \in Seq(S) /\ Len(left) = m - n
            /\ \A i \in 1 .. m - n : left[i] = cells[n + i]
        <4> DEFINE p == n + 1
        <4>1. p \in Nat \ {0} /\ p <= m + 1 /\ m - p + 1 = m - n /\ \A i \in Nat : p + i - 1 = n + i
          <5>1. n \in Nat /\ m >= n
            BY <1>2, <1>6, <2>8
          <5> HIDE DEF n
          <5> QED BY <1>6, <5>1
        <4> HIDE DEF p, n
        <4>2. /\ SubSeq(cells, p, m) \in Seq(S) /\ Len(SubSeq(cells, p, m)) = m - p + 1
              /\ \A i \in 1 .. m - p + 1 : SubSeq(cells, p, m)[i] = cells[p + i - 1]
          BY <1>5, <1>6, <4>1, Piece
        <4>3. left = SubSeq(cells, p, m)
          BY DEF p
        <4> HIDE DEF left
        <4>4. \A i \in 1 .. m - n : left[i] = cells[n + i]
          <5>1. \A i \in 1 .. m - n : i \in Nat
            OBVIOUS
          <5> QED BY <4>1, <4>2, <4>3, <5>1, Zenon
        <4> QED BY <4>1, <4>2, <4>3, <4>4, Zenon
      <3>4. Complete(fields.value) = msg
        BY <3>2, CompleteMessage, Zenon
      <3> HIDE DEF left
      <3>5. CASE m < n + 2
        <4>1. ~(Len(left) >= 2) /\ ~(m >= n + 2)
          BY <1>2, <1>6, <2>8, <3>3, <3>5
        <4>2. ~Verified(theirs, signed, fields.left)
          BY <3>2, <4>1, Zenon DEF Verified
        <4> QED BY <1>8, <4>1, <4>2, Zenon
      <3>6. CASE ~(m < n + 2)
        <4>1. signed = data
          <5>1. Len(c) - Len(fields.left) = n
            BY <1>2, <1>6, <1>10, <2>8, <3>2, <3>3
          <5>2. signed = SubSeq(c, 1, n)
            <6>1. n < Len(c)
              BY <1>2, <1>6, <1>10, <3>6
            <6> QED BY <5>1, <6>1, Zenon DEF signed, FirstOf
          <5>3. /\ SubSeq(c, 1, n) \in Seq(S) /\ Len(SubSeq(c, 1, n)) = n
                /\ \A i \in 1 .. n : SubSeq(c, 1, n)[i] = c[i]
            BY <1>2, <1>6, <1>10, <3>6
          <5>4. \A i \in 1 .. n : c[i] = data[i]
            <6>1. \A i \in 1 .. n : i \in 1 .. m /\ i \in 1 .. n + 2
              BY <1>2, <1>6, <2>8
            <6> QED BY <1>4, <1>5, <1>10, <6>1, Zenon
          <5>5. SubSeq(c, 1, n) = data
            BY <1>2, <5>3, <5>4, SeqEqual
          <5> QED BY <5>2, <5>5
        <4>2. Len(left) >= 2 /\ left[1] = Num(1) /\ left[2] = Sign(key, data)
          <5>1. Len(left) >= 2 /\ 1 \in 1 .. m - n /\ 2 \in 1 .. m - n
            BY <1>2, <1>6, <2>8, <3>3, <3>6
          <5> QED BY <1>9, <3>3, <5>1, Zenon
        <4>3. Verified(theirs, signed, fields.left)
          BY <3>1, <3>2, <4>1, <4>2, Zenon DEF Verified
        <4>4. m >= n + 2
          BY <1>2, <1>6, <3>6
        <4> QED BY <1>8, <2>1, <2>8, <3>1, <3>2, <3>4, <4>3, <4>4, Zenon
      <3> QED BY <3>5, <3>6
    <2> QED BY <2>6, <2>7, <2>8
  <1> QED BY <1>11, <1>12

-----------------------------------------------------------------------------
(* An init message survives transport, whatever its fields: read_from gives *)
(* back what write_to has written and the key that signed it if that key is *)
(* trusted, whatever the buffer holds behind it, and refuses a message that *)
(* is cut off after any cell and one of an unknown key.                     *)
THEOREM MessagesSurvive == Writing => []MessageSurvivesTransport
  <1>1. Unasked => MessageSurvivesTransport
    BY DEF Unasked, Nothing, About, MessageSurvivesTransport
  <1>2. MessageSurvivesTransport /\ [AskMessage \/ AskAgain]_question => MessageSurvivesTransport'
    <2> SUFFICES ASSUME MessageSurvivesTransport, [AskMessage \/ AskAgain]_question PROVE MessageSurvivesTransport'
      OBVIOUS
    <2>1. CASE question' = question
      BY <2>1 DEF MessageSurvivesTransport, About
    <2>2. CASE question' # question /\ question'.about = "message"
      <3>1. PICK msg \in Messages, key \in PublicKeys, salt \in Salts, trusted \in TrustedKeys :
                question' = [about |-> "message", msg |-> msg, key |-> key, salt |-> salt,
                             trusted |-> trusted]
        BY <2>2 DEF AskMessage, AskAgain, Nothing
      <3>2. /\ question'.msg = msg /\ question'.key = key /\ question'.salt = salt
            /\ question'.trusted = trusted
        BY <3>1
      <3>3. IsMessage(msg) /\ msg # Absent /\ IsSequence(trusted)
        BY MessagesAssumption
      <3> DEFINE data == signed_data(msg, key, salt)
                 cells == write_to(msg, key, salt)
                 known == \E i \in DOMAIN trusted : trusted[i] = key
                 expected == IF known THEN Read(msg, key) ELSE Failed
                 Pairs == ({"num"} \X Nat) \cup ({"id"} \X Nat) \cup ({"ecdh"} \X Nat)
                          \cup ({"payload"} \X Nat)
                 Own == Pairs \cup {<<"salt", salt>>, calculate_hash(key, salt), Sign(key, data)}
      <3>4. HasCells(Own, key, salt) /\ Sign(key, data) \in Own
        BY DEF HasCells, Num
      <3> HIDE DEF Pairs, Own
      <3>5. ASSUME NEW S, Own \subseteq S
            PROVE  HasCells(S, key, salt) /\ Sign(key, data) \in S
        BY <3>4, <3>5 DEF HasCells
      <3>6. cells \in Seq(Own) /\ Len(cells) \in Nat
        <4>1. data \in Seq(Own)
          BY <3>3, <3>4, SignedCells
        <4>2. Num(1) \in Own
          BY <3>4 DEF HasCells
        <4> HIDE DEF data
        <4>3. cells = data \o <<Num(1), Sign(key, data)>>
          BY DEF write_to, data
        <4> HIDE DEF cells
        <4> QED BY <3>4, <4>1, <4>2, <4>3
      <3>7. ASSUME NEW rest \in Leftovers \cup {<<>>}
            PROVE  read_from(cells \o rest, trusted) = expected
        <4> DEFINE S == Own \cup {rest[i] : i \in 1 .. Len(rest)}
                   all == cells \o rest
        <4>1. rest \in Seq(S) /\ Len(rest) \in Nat
          <5>1. CASE rest = <<>>
            BY <5>1
          <5>2. CASE rest \in Leftovers
            <6>1. Len(rest) \in Nat /\ rest = [i \in 1 .. Len(rest) |-> rest[i]]
              BY <5>2, MessagesAssumption DEF IsSequence
            <6>2. \A i \in 1 .. Len(rest) : rest[i] \in S
              OBVIOUS
            <6> HIDE DEF S
            <6>3. rest \in [1 .. Len(rest) -> S]
              BY <6>1, <6>2
            <6> QED BY <6>1, <6>3
          <5> QED BY <5>1, <5>2
        <4>2. Own \subseteq S
          OBVIOUS
        <4> HIDE DEF S
        <4>3. cells \in Seq(S)
          BY <3>6, <4>2, SeqMonotonic
        <4>4. all \in Seq(S) /\ Len(all) = Len(cells) + Len(rest)
          BY <4>1, <4>3, ConcatProperties
        <4>5. SubSeq(all, 1, Len(all)) = all
          BY <4>4, SubSeqFull
        <4>6. Len(all) \in 0 .. Len(all) /\ Len(all) >= Len(cells)
          BY <3>6, <4>1, <4>4
        <4>7. HasCells(S, key, salt) /\ Sign(key, data) \in S
          BY <3>5, <4>2
        <4>8. read_from(SubSeq(all, 1, Len(all)), trusted) =
                IF Len(all) >= Len(cells) /\ known THEN Read(msg, key) ELSE Failed
          BY <3>3, <4>1, <4>6, <4>7, MessageRead
        <4> QED BY <4>5, <4>6, <4>8, Zenon
      <3>8. ASSUME NEW n \in 0 .. Len(cells) - 1
            PROVE  read_from(SubSeq(cells, 1, n), trusted) = Failed
        <4>0. PICK rest \in Seq(Own) : rest = <<>>
          BY EmptySeq, Zenon
        <4> DEFINE all == cells \o rest
        <4>1. all = cells
          <5>1. cells \o <<>> = cells
            BY <3>6, ConcatEmptySeq
          <5> QED BY <4>0, <5>1, Zenon
        <4>2. n \in 0 .. Len(cells) /\ ~(n >= Len(cells))
          BY <3>6
        <4>3. n \in 0 .. Len(all)
          BY <4>1, <4>2, Zenon
        <4>4. read_from(SubSeq(all, 1, n), trusted) =
                IF n >= Len(cells) /\ known THEN Read(msg, key) ELSE Failed
          BY <3>3, <3>4, <4>3, MessageRead
        <4> QED BY <4>1, <4>2, <4>4, Zenon
      <3> QED BY <3>2, <3>7, <3>8, Zenon DEF MessageSurvivesTransport
    <2>3. CASE question'.about # "message"
      BY <2>3 DEF MessageSurvivesTransport, About
    <2> QED BY <2>1, <2>2, <2>3
  <1> QED BY <1>1, <1>2, PTL DEF Writing
=============================================================================
