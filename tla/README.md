# VpnCloud in TLA+

A model of VpnCloud, the peer-to-peer VPN whose code is in `src/src/`. TLC
model-checks it on small instances and TLAPS checks proofs of its core for every
value of the constants. `PROJECT.json` lists components, runs, mutants, the source
lines behind every definition, hazards, findings and theorems.

Paths such as `cloud.rs` stand for `src/src/cloud.rs`; `vpncloud.adoc` and
`CHANGELOG.md` are those of the repository.

## The system and its parts

A node is one process with a single event loop (`GenericCloud::run`). It reads
datagrams from a UDP socket and packets from a tun/tap device, and calls `housekeep`
from time to time. Only beacon commands have threads of their own. Nothing is
persistent: a node that restarts starts from nothing.

    device <-> GenericCloud <-> socket <-> other nodes
                 |  |  |  \
                 |  |  |   table (claims and cached routes)
                 |  |  peers: PeerCrypto = handshake + rotation + crypto core
                 |  pending_inits: handshakes without a peer yet
                 statistics, beacons, port forwarding

* A **handshake** (`crypto/init.rs`) of three messages, ping, pong and peng, agrees on
  a key. Either node may start it, and both may at once.
* **PeerCrypto** (`crypto/common.rs`) runs the handshake, then hands its key to the
  **crypto core** (`crypto/core.rs`: four key slots, nonces, replay window) and starts
  the **key rotation** (`crypto/rotate.rs`).
* **cloud.rs** keeps the peers and pending handshakes, forgets silent ones, exchanges
  node infos with claims and addresses of other peers, and reconnects.
* The **table** (`table.rs`, with the ranges of `types.rs`) maps addresses to peers.
* **Chores** at the end of `housekeep`: statistics (`traffic.rs`), **beacons**
  (`beacon.rs`), own addresses with **port forwarding** (`port_forwarding.rs`).
* The **configuration** (`config.rs`, `oldconfig.rs`, `main.rs`) comes from defaults, a
  file and arguments, and the wizard writes it back to a file.

## Modules

| Module | Models | State and actions |
|---|---|---|
| `KeySlots` | what the core demands of a rotation | slots and current slot of both ends; `Install`, `Switch` |
| `KeyRotation` | `rotate.rs`, the slots of `core.rs`, the glue in `common.rs` | `RotationState` and slots of both ends, packets under way; `cycle` in its three outcomes, `process_message`, `send_message`, `Lose` |
| `CryptoCore` | nonces and window of `core.rs` for one key | the four nonces of both ends, everything sealed; `encrypt`, `decrypt`, `every_second` |
| `InitState` | `init.rs` | operators from a state and an event to the next state, the reply and the result: `handle_init`, `every_second`, `send_ping` |
| `Handshake` | two nodes: `PeerCrypto` and the dispatch of `handle_net_message` | pending init and peer entry of both, datagrams under way; `Connect`, `Receive`, `Tick`, `TickGiveUp`, `PeerTimeout`, `Restart`, `Lose` |
| `HandshakeLive` | `Handshake` with time | beats, the calls of `housekeep`, timeouts, pauses between attempts |
| `SelfConnect` | one node that meets itself | pending inits and peers by address, a router in between |
| `Ranges` | `Range::matches` | operators; a byte is the sequence of its bits |
| `Routes` | what the table promises | claims, cache and clock as sets and functions |
| `ClaimTable` | `table.rs` | the list of claims, the cache, the clock; `set_claims`, `remove_claims`, `Learn`, `lookup`, `housekeep`, with loops and early exits |
| `Cloud` | the books of a node in `cloud.rs` | peers, claims, pending inits, timers, failing addresses; one action for each kind of message, `Housekeep` |
| `Mesh` | several nodes that exchange peer lists, `cloud.rs` | peers, pending inits and own addresses of every node; handshakes in two steps (`Answer`, `Establish`), `NodeInfo`, `Timeout`, `GiveUp`, `ResetOwn`, `Stop`, `Start` |
| `Chores` | the end of `housekeep`, `traffic.rs` | traffic entries, timers, the chores that fail; `Count`, `Housekeep` in its steps `Begin`, `Results`, `Beacon` |
| `BeaconMailbox` | `FutureResult` in `beacon.rs`, a part of `Chores` | flag and list, program counters of the threads and of the main loop |
| `PortForwarding` | `port_forwarding.rs` and the router | leases, attempts, next extension |
| `Base62` | text form of keys, `util.rs` and `common.rs` | operators |
| `Selection` | `select_algorithm` of `init.rs`, `parse_algorithms` of `common.rs` | operators |
| `Cells`, `NodeInfo`, `InitMsg` | codecs of `messages.rs` and `init.rs` | operators |
| `Transport` | an init message from `write_to` to `read_from` | the message that is asked about; `AskMessage` |
| `BeaconText` | the text of beacons, `beacon.rs` | operators |
| `Frames` | `Frame::parse` and `Packet::parse`, `payload.rs` | operators |
| `Timers` | intervals of node infos and of reconnects, `config.rs` and `cloud.rs` | operators, with the widths of the integers |
| `Config` | `config.rs`, `OldConfigFile::convert`, the merge in `main` | operators from sources to a configuration |
| `Algorithms` | `Ranges`, `Base62`, `Selection`, `Frames`, `Timers` and `Config` together | the input that is asked about, one action for each kind; `Round`, of `reconnect_to_peers` |
| `Asking` | shared by `Algorithms` and `Transport` | the question, `AskAgain` |
| `Option` | the value `None` of an `Option`, shared by the modules above | a constant |
| `KeyRotationProofs`, `CryptoCoreProofs`, `ClaimTableProofs`, `HandshakeProofs`, `CloudProofs`, `MeshProofs`, `ChoresProofs`, `AlgorithmsProofs` | | theorems |
| `MC...` | | values of constants, symmetries, views, the enumeration of inputs |

An action stands for a whole handler. Where a handler returns early with `?`, the model
computes the books step by step and carries a flag `ok`; a loop over a hash map has
processed any subset of the elements, up to the first that fails (`Processed` in
`Cloud`). Definitions that end in a variation of another name and are introduced as
mutants are plausible mistakes; no specification uses them.

### Abstractions

* Cryptography is ideal. A secret is the unordered pair of the key pairs it was derived
  from, and something sealed can be opened with the same key and nonce only. Key pairs
  and salted hashes that nothing refers to any more may be drawn again; nothing can tell
  them from new ones.
* In `Handshake` the nodes trust each other, agree on an algorithm and exchange messages
  as values. That what is written is read and that others are refused is the subject of
  `InitMsg`, when two nodes select the same algorithm that of `Selection`.
* The codecs work on cells: a number, an address or a key is one cell, so lengths count
  cells. Messages fit into their buffers, so lengths do not wrap. In a beacon a v6
  address is three v4 addresses long, as in the code. A masked list may begin with a zero
  byte, which base62 loses, and the two markers of a network have two characters instead
  of five and share one, so that they can overlap in a text.
* `Mesh` has no clock. A peer may time out when it is silent, which `Cloud` bounds, and a
  handshake gives up when it cannot succeed any more; both may also happen without a
  cause, as a fault. Pong and peng arrive in one step, since `Handshake` has their
  interleavings. A node info names all peers; the code picks 20 when there are more.
  Claims are left out. An IPv4 address has a plain and a mapped form. Datagrams come from
  mapped addresses and connections go to them; own addresses are advertised, passed on and
  learned in either form, and compared as they are. Of its own addresses a node is only
  sure to know that of its socket in mapped form.
* In `Config` values are opaque, and an option is absent whether its section is missing or
  empty, which the code does not tell apart either.
* Points in time are seconds left, except in `ClaimTable`, which keeps absolute times
  because timeouts are set to 0 there.
* The network is a set: what is in it can be delivered in any order, and, where
  duplication is modelled, any number of times.
* `run` calls `housekeep` when `next_housekeep`, set to `now + 1`, is in the past, so
  rounds are two seconds apart (`HOUSEKEEP == 2`).
* The flag of the beacon mailbox is a relaxed atomic. Its accesses stay on their side of
  the mutex that protects the list, so they are modelled in program order.

## Runs

Ten runs pass and two show where the code does something else than its documentation
says. Every property of a passing run is violated by the mutant listed with it.

**key_rotation** (`KeyRotation.cfg`). `LockStep`: message ids of the ends differ by one
and both agree on all keys in use. `Readable`: the peer holds the key that a node seals
with. `SlotKeepsKey`: the slot that a packet names still holds its key when the packet is
late; whether its nonce is still accepted is the subject of **crypto_core**.
`NoKeyRollback`: no old message brings an old key back.
`ImplementsKeySlots`: the rotation is a refinement of `KeySlots`. `RotationProgress`:
rotation never stalls. Ids up to 7 go once around the four slots and reuse them; two
serial numbers are enough for fresh key pairs, as a node replaces at most one that is
still referred to; two packets beside the rotation messages let old packets meet new keys.

**crypto_core** (`CryptoCore.cfg`). `UniqueNonces`, `NoReflection`, `ReplayWindow` and
`LateMessagesAccepted` together: a message that was merely reordered is accepted, a late
replay is not. Three values for the transferred bytes and two for the others let nonces
leave the transferred bytes; three messages and three seconds for each end cover the two
stages of the window.

**handshake** (`Handshake.cfg`). Two nodes, each may connect, restart and time out,
with one fault. `AnswersOpen`: an answer to the ping or pong that a node still waits for
decrypts, so both ends have one key and different halves of the nonces.
`OneRotationInitiator`: the initial state of `KeyRotation` is the one that a handshake
produces. `PongFindsKey`: the `unwrap` in `handle_init` does not panic.
`KeyInstalledOnce`: no key is installed a second time with fresh nonces. Four hashes
allow every order of crossing pings and two further handshakes.

**handshake_progress** (`HandshakeLive.cfg`). `EventuallyConnected`: after one fault of
any kind the nodes end up with one connection and keep it. Three observations are behind
the constants. Without a pause between attempts, pending inits left over from one attempt
swallow the messages of the next, for ever. Two nodes whose seconds coincide and whose
datagrams take longer than a second can answer each other's pongs without end. A late
ping makes a pending init that takes all messages of an established peer until it gives
up. With datagrams faster than a second and pauses longer than the life of a pending init
(the back-off of `reconnect_to_peers` reaches them by doubling) all three heal.

**claim_table** (`ClaimTable.cfg`). `ImplementsRoutes`: the table implements `Routes`, so
a lookup that searches returns a most specific claim, and a derived route is backed by a
claim that lives as long (`RoutesBacked`). `TableFollowsAnnouncements` relates
a route to what its peer last announced; repeated announcements do not add entries, and
the cache hides a more specific claim of another peer for `cache_timeout` at most. Two
peers, overlapping ranges, announcements that shrink, repeat a range or change its order,
and timeouts shorter than the time that passes.

**cloud** (`Cloud.cfg`). Either sending works, or it may fail for any addresses at any
time. `NothingOverdue`: silent peers and their claims go within two seconds for each
address after the timeout, although errors end `housekeep` early; while sending works,
handshakes that gave up are removed at once. `PeersInformed`: a node info counts as sent
only when all peers got it, and while sending works they hear from this node before they
forget it. Two addresses let one disturb the other; the timeout is three times the
interval and longer than a handshake.

**mesh** (`Mesh.cfg`). Three nodes A, B and C; A and C know B. A and C have two addresses
each and can connect through either; C advertises its second one in plain form and learns
the mapped form from others. `FullMesh`:
all become connected, and do so again after one fault, be it a crash, a restart, a lost
handshake or a lost peer. `NeverToSelf`: no node connects to an address of its own, though
others still pass on the id it had before a restart. `GoneForgotten`: a node that stops is
forgotten by all, even if they go on telling each other about it. Three nodes are the
fewest among which a third one is passed on; with a second fault the run has more than two
million states and no longer finishes in minutes.

**chores** (`Chores.cfg`). Either what follows the statistics may fail, or the statistics,
or what comes before them and storing. `ReportedOnce`: every packet is in exactly one
successful report. `BeaconsGoOn`, `IdleForgotten`: when only loading and connecting fail,
beacons are still stored and idle entries forgotten. `InOnePlace`: peers found by a beacon
command are never returned twice. `PeersLoaded`: without overlap of commands they are
returned. One peer entry with two packets and the entry for dropped packets with one,
intervals that are not multiples of each other, and two commands, which overlap or not.

**port_forwarding** (`PortForwarding.cfg`). A router with three ports, any of which may be
taken, with or without leases, and three faults. Up to three rounds of `housekeep` in a
row may fail before they get to `check_extend`, as those do in which a message cannot be
sent. `LeaseKept`: while the router does what it granted and `check_extend` was called less
than the margin ago, the node has its forwarding. The margin of 5 seconds covers two such
rounds and not three; in the code it is 60 seconds. `ComesBack`: after a failure of the
router, or a longer one of `housekeep`, the forwarding returns. `LeasesEnd`: nothing with a
lease is left behind. A port number that wraps to 0 asks for any port, and does so here for
port 3 + 1.

**algorithms** (`MCAlgorithms.cfg`). `MatchesPrefix`: `Range::matches` is a prefix match,
for all addresses of one or two bytes of two bits and all prefixes, too long ones
included. `KeysSurviveText`: base62 is a change of base, its assertion, buffer and casts
hold, so keys without a leading zero byte survive printing and parsing. The bytes are
those around the carries.
`InfoSurvivesTransport`, `MessageSurvivesTransport`: what is written is read back, up to
seven addresses of each family and for trusted keys only; every strict prefix is refused,
unknown parts are skipped, and what an older message left in the buffer is ignored. The
lists are empty, short, full and too long, with the code's three-bit counts.
`BothSelectSame`: all configurations of up to three names, repeated ones included, with two
speeds for each entry. `BeaconsFound`: texts of up to four pieces, with complete, nested,
cut off and foreign beacons, at hours around the wrap at 2^16; a list with a leading zero
byte may be found or not, and texts in which the markers overlap are left out.
`AddressesFound`: all pairs of frames with and without tags, with ids and priorities that
differ in one byte or the other, VLAN id 0 left out, and IP packets of all lengths around
both headers. `HeardInTime`: peers hear from a node before they
forget it, whatever timeouts of two minutes and more they have; the node's own ones are
any, around the places where 16 bits wrap. `BackOffDoubles`: 150 attempts in a row reach
the limit of an hour; the interval doubles with every tenth or eleventh, and of an entry
that was connected without being found so only the limit is stated. `ConfigSurvives`: arguments win over files and files over defaults,
what the wizard writes is read back, old files keep their meaning but for `crypto` and
`magic`, which are dropped, and get all algorithms; files give up to two
options and arguments one, all of them in turn, with hooks from both. A state of
this run is one input, so its bound is the set of inputs.

**self_connect** (`SelfConnect.cfg`, violation). A node that is told one of its own
addresses, behind a router that sends its datagrams back, becomes its own peer.
`check_salted_node_id_hash` compares 20 bytes of the message with a digest of 32.

**abort_forgotten** (`Cloud_abort.cfg`, violation). `crypto_housekeep` notes handshakes
that gave up in a local list and loses it when a later send fails. Such a handshake is
closed, never reports an error again, and stays pending for ever.

### Symmetry and views

Addresses, peers and the two nodes of `Handshake` are interchangeable in all properties
of the runs that use symmetry, none of which is a liveness property. The view of
`MCCloud` does not tell apart times without a node info beyond one interval when sending
may fail: no action reads them, and no invariant mentions longer ones then.

### Fairness

* `KeyRotation`: `cycle` keeps being called, by `every_second` of the event loop; a
  message with some id that is sent again and again is delivered at last. Nothing else
  is assumed of the network.
* `HandshakeLive`: time passes, datagrams arrive unless they are the one that is lost,
  and node A, which has B in its peer list, keeps trying.
* `Cloud`, `Chores`, `PortForwarding`: time passes and `run` calls `housekeep`. Nobody
  repairs what fails. `PortForwarding::new` returns.
  In `Chores` a beacon command ends.
* `Mesh`: configured peers are tried again and again (`reconnect_to_peers` never drops
  them), datagrams between running nodes arrive at last, node infos are sent periodically
  (`PeersInformed`, `HeardInTime`), and `housekeep` notices peers that are silent and
  handshakes that cannot succeed. Nodes need not restart, and nothing else is fair.

## Proofs

`KeyRotationProofs` holds for all sets of serial numbers and all bounds; it assumes that
A and B differ and that `None` is no value of another kind (`RotationAssumption`).
`Readable` is not inductive: that a switch finds the key at the other end follows only
from what the last message said. The inductive invariant is `LockStep`. The node with the
higher message id m leads: its proposal is open and its peer either waits for message m,
and still holds the private key that m confirms, or has processed it and holds the answer
(`Waiting`, `Answering`). Every packet under way is sealed with a key that both held, and
every copy of message m says what the leader's state says (`PacketInv`). One lemma for
each action shows that it is kept. `TypeCorrect`, `LockStepInvariant`, `AlwaysReadable`,
`SlotsKeepKeys`, `NeverRollsBack` and the refinement
`RotationImplementsKeySlots` follow.

`CryptoCoreProofs` holds for all widths of nonces and numbers of messages, as long as the
nonces of one end do not run out (`CoreAssumption`). The invariant has three parts:
`NonceInv` (a nonce counts the messages of its end, within its half) gives
`NoncesUnique`; `WindowInv` (the window moves past what was opened) gives `NoLateReplay`
and, with `NonceInv`, `NeverReflected`; `GraceInv` (it moves past nothing else) gives
`ReorderingTolerated`.

The module also has the proofs about the other algorithms of the crypto, which are
questions of `Algorithms`:

* `KeysSurvive` holds for data of any length: a buffer stands for the number of a Horner
  sum. `MultAddNumber` says that a round of either loop multiplies this number and adds a
  digit, with the carry below the factor, `MultAddItems` and `MultAddDigits` that items stay
  below the base and that the last one is not 0. `TextNumber` and `BytesNumber` give text
  and bytes the number of their input. Two buffers without a 0 at the end that stand for
  one number are equal (`SameBuffer`), so a key that does not begin with 0 comes back.
* `SameAlgorithm` holds for any lists of algorithms and speeds. An algorithm that is listed
  twice is measured twice and counts with the first speed of one list and any of the other,
  so `SelectedEntry` says of entries, and `Selected` of algorithms with one speed, that the
  first of the fastest common ones is chosen; listed in the same order, it is the same one
  at both ends.

`ClaimTableProofs` holds for any number of peers, addresses, ranges and entries, any
announcements and any timeouts; `TableAssumption` says that addresses and announcements are
of their kinds. What is in a range is left to `matches`, of which nothing is used. First
the abstract table: `RoutesBacked` needs that a claim which backs a live route is live
itself, and that the calls which remove the claims of a peer remove the routes to it.
Then the loops. `RetainFacts` says what `retain` keeps and how often, `RefreshedFacts`
what the loop of `set_claims` leaves in the table and in the list after every round
(`LoopInv`): entries of other peers are untouched, what is gone from the list is in the
table, fresh, and until the loop stops a range is refreshed or left in the list as often
as the announcement names it. `FoundFacts` says that the scan of `lookup` ends with a
most specific claim. Last the steps. `TableImplementsRoutes` maps the list of claims to
the set of its entries; an announcement may leave entries of the peer behind the `break`,
which `Routes` allows. The invariant `Inv` adds to the types that an entry ends in time
after the announcement it comes from (`AnnouncedInv`), that `since` is kept for what the
table holds (`HeldInv`), and that a claim matching a derived route is newer than the
route or no more specific than a range behind it (`CacheInv`). `AlwaysFollowsAnnouncements`
and `AlwaysBacked` follow.

`HandshakeProofs` holds for any number of hashes, retries and faults. What a node
knows of its peer is in the messages under way, so the properties are not inductive. The
invariant says that every pending init waits with the key of its own last message
(`PendingOk`), that every peer entry has the core of the responder or of the initiator of
some handshake (`PeerOk`), that every datagram comes from an `InitState` that its receiver
does not have (`PacketOk`), and that the nodes share no `InitState`. `PongAlwaysFindsKey`,
`AnswersAlwaysOpen`, `ExactlyOneInitiator` and, for steps, `KeyNeverInstalledAgain` follow:
two cores with one key are those of one ping and its pong, and compare their hashes the
other way round. `NoneAssumption` says that `None` is no record or pair.

`CloudProofs` holds for any number of addresses, any timeouts and any outages.
`housekeep` may fail in every round and then misses what comes after the error.
`OverdueInv` counts the rounds that missed a peer: each of them dropped another one, which
is gone or has joined again (`Replaced`). `NothingIsOverdue` assumes `FewPeers`: the
timeout covers a round for each address, so that nobody is dropped twice before the
overdue peer is. With the default timeout of 300 seconds that is 150 peers; it is needed,
as more of them could take turns. `PeersAlwaysInformed` rests on `QuietInv`, the time since
the last node info against `next_peers`, and assumes `InfoInTime`: interval and round fit
into the timeout, which holds for the interval that the code computes (`HeardInTime`).

`MeshProofs` holds for any number of nodes and addresses, any topology and any number of
restarts and losses. The invariant says of every entry of a peer list, however old, that its addresses
belong to one node and that one of them, in mapped form, is among those which this node
finds (`Entries`). It is that of the socket, which `reset_own_addresses` maps
(`MeshAssumption`). `connect` looks at all of them, which gives `NeverConnectsToSelf`,
although own addresses in plain form are never recognised. It assumes
`OthersConfigured`: the configuration of a node names no address of its own that the node
cannot find; what happens otherwise is the subject of **self_connect**.

`ChoresProofs` holds for any number of commands, traffic entries and packets, any
intervals and outages. `PeersInOnePlace` needs that the main loop holds a list only
between its swap and its store, and that the peers of a running command are nowhere
(`MailInv`). `PacketsReportedOnce` has an account for each entry and shows that no
clean-up drops one with packets that are not reported. `ChoresAssumption` says that `None` is no entry.

The module also has the proof about `Transport`, the codec of init messages, because the
names of `InitMsg` clash with those of the modules about handshakes. `MessagesSurvive`
holds for all fields, keys, salts, lists of trusted keys and leftovers; `MessagesAssumption`
says that a message has the fields of its stage and that lists are sequences. The loop of
`read_from` is a function of its rounds. On what `write_to` wrote, a round reads one part
and leaves the rest, whatever follows, so after as many rounds as the stage has parts the
message is back. On a strict prefix the rounds go the same way up to the one that runs out
of cells, which fails; a prefix that loses only the signature fails at `Verified`.

`AlgorithmsProofs` holds for addresses of any number of bytes and bytes of any width, any
frames and packets, all timeouts of 16 bits from two minutes up, any delays
(`InputsAssumption`), any configuration files and any arguments. A state is a question, so
all but one of the invariants hold because of what the operators compute. That is proved
of the operators for every input they can have:

* `RangesMatchPrefixes`: the loop of `matches` adds the width of a byte for each byte before
  the first that differs (`MatchLen`), so its sum is the number of leading bits that agree.
  The sum is 8 bits wide in the code, enough for the 128 bits of an address.
* `AddressesAreFound`: tags with one VLAN id differ at most in their priority (`VlanIds`);
  of id 0 the property says nothing.
* `PeersHearInTime`: half of a timeout less a minute, in 16 bits, and a round of `housekeep`
  are within the timeout (`HalfTimeout`).
* `OptionsSurvive`: `MainConfig` says what `merge_file` and `merge_args` make of every kind
  of option. For hooks it needs the loop over the `--hook` options, after which the last one
  for an event counts (`LastGiven`, `HooksGiven`). `WizardFile` and `OldMeaning` apply it to
  the file that the wizard writes and to a converted one. `ConfigAssumption` says that
  lists, switches and hooks have the types that YAML and the command line give them, and
  that no value is taken for a missing one; other values are opaque.
* `IntervalDoubles` is about several steps. Its inductive invariant `BackOffInv` adds that
  `tries` is the number of attempts modulo 11, which is within "every 10 tries" if the
  attempt that doubles the interval is not counted.

The module also has the proofs about `PortForwarding`, another timer, for any lease time,
ports and faults. `LeaseInv` relates the clock of the router to the one of the node: the
lease ends `MARGIN` after the extension is due, and the extension is overdue for no longer
than the time since the last call of `check_extend`. Hence `LeaseNeverLapses`, which holds
for any number of rounds of `housekeep` that fail before they get there.

The library's induction theorems have operators as parameters, which the provers cannot
instantiate. Where a loop of the code is a recursive function, the proofs use sets instead
of predicates: a set of numbers has a least one, which gives induction (`EveryRound`) and
the existence of a run of the loop (`LoopRuns`). `ClaimTableProofs`,
`CryptoCoreProofs`, `ChoresProofs` and `AlgorithmsProofs` each have these lemmas, as their state machines do
not fit in one module.

Only model-checked: all liveness properties, because the prover does not reason about
fairness, and of **algorithms** `InfoSurvivesTransport` and `BeaconsFound`, whose decoders are recursive operators on what is left of the input, which
the prover does not support. The types of `KeyRotation` and `CryptoCore` are proved and not
checked again by the runs.

## Further disagreements between code and documentation

These came up while modelling. The properties above leave the cases open in which code and
documentation disagree, so they neither show these cases nor call them right.

* A cached route stays in use, until it times out, after another peer announces a more
  specific claim (`table.rs:92`; CHANGELOG.md:43 "Most specific claims beat less specific claims").
* `peer_disconnected` is called for a failed handshake of a connected peer
  (`cloud.rs:895`) and not for a peer that times out (`cloud.rs:432`) or is dropped with
  its handshake (`cloud.rs:361`); vpncloud.adoc:569 "A peer connection has been closed".
* One pending handshake whose messages cannot be sent ends every `housekeep` before node
  infos are sent (`cloud.rs:348`), so all peers forget the node; vpncloud.adoc:97 "The
  peers will exchange information periodically".
* `send_msg` fails for an unknown peer, so the cold path of `cloud.rs:622` that removes
  its claims is never reached.
* `housekeep` runs every other second (`cloud.rs:958`; "every second", `cloud.rs:933`).
* `peer_timeout / 2 - 60` wraps for timeouts below 120 (`config.rs:346`,
  `cloud.rs:453`; CHANGELOG.md:74 "Fixed keepalive for small timeouts").
* `next_peers` is not brought forward when a peer with a shorter timeout joins
  (`cloud.rs:454`; CHANGELOG.md:122).
* Entries of the reconnect list that resolve to IPv4 are not recognised as connected, as
  peers are keyed by mapped addresses, and `continue` leaves the inner loop only
  (`cloud.rs:382`). Their interval goes on growing while the node is connected.
* The interval between these attempts doubles with every eleventh one (`cloud.rs:406`;
  "every 10 tries, the interval doubles").
* Own addresses that are advertised or come from port forwarding stay in plain IPv4 form
  (`cloud.rs:228`, `cloud.rs:234`) and are compared with mapped ones (`cloud.rs:282`,
  `cloud.rs:326`), so they are never recognised; `connect` says that "If the node is already
  a connected peer or the address is blacklisted, no message is sent". Peer lists always
  name the mapped address of the socket beside them, a configuration need not.
* A send that fails ends `housekeep` before `check_extend` (`cloud.rs:436`, `cloud.rs:439`).
  A pending handshake whose messages cannot be sent does so in each of its up to 120
  rounds, four minutes, and the lease of the port forwarding is extended one minute before
  its end; "Periodically extend the port-forwarding" (`cloud.rs:440`).
* When beacon commands overlap, `get_cmd_results` can clear the flag of a list that was
  put there after its swap (`beacon.rs:310`); the list is then not loaded.
* A stats file or statsd server that always fails stops beacons (`cloud.rs:459`).
* The report after one that failed covers all that has happened since the last successful
  one; vpncloud.adoc:495-496 "All values refer to the traffic during the last minute".
* A beacon whose masked list begins with a zero byte, one in 256, is not found, again
  because of base62; vpncloud.adoc:464-468 "The beacons are very robust", "so that all nodes
  can find beacons in a long text".
* The end of a beacon is searched from its begin marker on. Where an end marker begins
  within a begin marker, the range ends before it starts and `decode` panics
  (`beacon.rs:259-261`).
* `crypto` and `magic` of a configuration file of the old version are dropped
  (`oldconfig.rs:72`, `oldconfig.rs:76`): the converted file allows all algorithms that are
  enabled by default, whichever method the old one had chosen.
* An algorithm that is listed twice in the configuration is measured twice
  (`common.rs:118`). `select_algorithm` compares every entry of its own list with the first
  one of the peer's, so two nodes may select different algorithms, as with a tie.
* base62 drops leading zero bytes (`util.rs:352`), so one generated key in 256 is refused;
  vpncloud.adoc:225-226 says that it "can be used".
* A tag with VLAN id 0 gives addresses of 8 bytes, since one byte is compared with two
  (`payload.rs:42`; `payload.rs:43` "treat vlan id 0x000 as untagged").
* Nodes that list algorithms in different order and see equal minimal speeds for the
  fastest two select different ones (`init.rs:558`; vpncloud.adoc:91-92 "select the
  one that is fastest on both ends").
* Two nodes that share a private address, as hosts behind different routers do, may never
  connect: `connect` returns as soon as one of the advertised addresses is its own
  (`cloud.rs:282`). `Mesh` assumes that addresses belong to one node.
* A broadcast of payload ends at the first peer to which sending fails (`cloud.rs:193`);
  peers behind it in the hash map miss it, where node infos are sent again.
* A control message on the connection to a websocket proxy, such as the ping that the proxy
  sends after a minute of silence, makes `receive` wait for the next datagram
  (`wsproxy.rs:117`); until then the event loop and `housekeep` rest.

## Not modelled

* The data path (`handle_interface_data`): a lookup followed by one send or a broadcast.
  Its parts are in `Frames`, `ClaimTable` (`lookup`, `Learn`) and `Chores` (`Count`);
  it changes nothing else.
* The websocket proxy relays datagrams one by one and keeps no state besides its
  connections; for the node it is a socket, that is, a lossy network.
* Device, sockets, epoll, logging, the wizard's questions and the installer: operating
  system or user interface. YAML and the command line are parsed by libraries.
* Parsing and formatting of addresses, `resolve`, byte order helpers and the message
  buffer: the other modules use what they return. Keys derived from passwords and the
  speed test of the algorithms: their results are inputs of the models.

## Plan

1. A mesh in which sites share private addresses, and the interval of node infos in `Cloud`
   with peers of different timeouts.
2. The decoders of `NodeInfo` and `BeaconText` as loops, like that of `InitMsg`, so that what
   they read back can be proved for every input.
