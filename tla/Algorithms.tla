----------------------------- MODULE Algorithms ------------------------------
(***************************************************************************)
(* The pure algorithms of a node against their reference definitions.  A   *)
(* state is a question: an input of one of them, from sets of inputs that  *)
(* are parameters.  Transport asks about init messages, and MCAlgorithms   *)
(* about node infos and beacons.                                           *)
(***************************************************************************)
EXTENDS Ranges, Base62, Selection, Frames, Timers, Config, Asking

CONSTANTS SomeBytes, MaxData,           \* the bytes of a text and its length
          Names, Speeds,                \* algorithms as configured, and speeds they may have
          Macs, EtherTypes,             \* what is in a frame
          Packets,
          PeerTimeouts, OwnTimeouts, Keepalives,
          Seconds,                      \* between rounds of reconnect_to_peers
          MaxAttempts,                  \* bound: attempts to connect to a peer
          Values, Events, Scripts,      \* of options in lists, and hooks
          Files, Arguments, OldFiles

SHORTEST == 120           \* the shortest timeout for which the code computes an interval

ASSUME InputsAssumption ==
    /\ SomeBytes \subseteq 0 .. 255 /\ MaxData \in Nat
    /\ Names \subseteq Seq(0 .. 3) /\ Speeds \subseteq Nat
    /\ EtherTypes \subseteq Nat
    /\ Packets \subseteq Seq(Nat) \ {<<>>}
    /\ PeerTimeouts \subseteq SHORTEST .. U16 - 1
    /\ OwnTimeouts \subseteq Nat /\ Keepalives \subseteq Nat \cup {Absent}
    /\ Seconds \subseteq Nat /\ MaxAttempts \in Nat

\* Lists, switches and hooks have the types that YAML and the command line give
\* them; other options are opaque.
IsHooks(hooks) == DOMAIN hooks \subseteq Events /\ hooks \in [DOMAIN hooks -> Scripts]

IsFile(file) ==
    /\ \A f \in Collected : file[f] \in Seq(Values) \cup {Absent}
    /\ \A f \in Switch : file[f] \in BOOLEAN \cup {Absent}
    /\ IsHooks(file["hooks"])

IsArgs(args) ==
    /\ \A f \in Collected : args[f] \in Seq(Values)
    /\ \A f \in Switch : args[f] \in BOOLEAN
    /\ args["hooks"] \in Seq([event : Events \cup {Absent}, script : Scripts])

ASSUME ConfigAssumption ==
    /\ Absent \notin Seq(Values) \cup Events \cup Scripts \cup BOOLEAN \cup {"none"}
    /\ \A file \in Files : IsFile(file)
    /\ \A args \in Arguments : IsArgs(args)
    /\ \A old \in OldFiles : IsFile(convert(old))

-----------------------------------------------------------------------------
(* The questions.                                                           *)

AskRange ==
    /\ About("nothing")
    /\ \E r \in AddressRange, a \in Address :
            question' = [about |-> "range", range |-> r, addr |-> a]

AskData ==
    /\ About("nothing")
    /\ \E n \in 0 .. MaxData : \E d \in [1 .. n -> SomeBytes] :
            question' = [about |-> "data", data |-> d]

AskAlgorithms ==
    /\ About("nothing")
    /\ \E mine, theirs \in Names :
       \E my_speed \in [DOMAIN Allowed(mine) -> Speeds],
          their_speed \in [DOMAIN Allowed(theirs) -> Speeds] :
            question' = [about |-> "algorithms", mine |-> parse_algorithms(mine, my_speed),
                         theirs |-> parse_algorithms(theirs, their_speed)]

Frame ==
    (Macs \X Macs \X (EtherTypes \ {TAGGED})) \cup
    (Macs \X Macs \X {TAGGED} \X SomeBytes \X SomeBytes \X EtherTypes)

AskFrames ==
    /\ About("nothing")
    /\ \E f, g \in Frame : question' = [about |-> "frames", frames |-> <<f, g>>]

AskPacket ==
    /\ About("nothing")
    /\ \E p \in Packets : question' = [about |-> "packet", packet |-> p]

AskTimeouts ==
    /\ About("nothing")
    /\ \E own \in OwnTimeouts, keepalive \in Keepalives,
          timeouts \in SUBSET PeerTimeouts, joining \in PeerTimeouts :
            question' = [about |-> "timeouts", own |-> own, keepalive |-> keepalive,
                         timeouts |-> timeouts, joining |-> joining]

AskReconnect ==
    /\ About("nothing")
    /\ \E mapped \in BOOLEAN :
            question' = [about |-> "reconnect", entry |-> add_reconnect_peer, attempts |-> 0,
                         mapped |-> mapped, ready |-> FALSE, missed |-> FALSE]

\* A round, at once or late.  attempts counts those since the node was last
\* found connected, ready says that it was found connected just now, missed that
\* it was connected without being found so.
Round ==
    /\ About("reconnect") /\ question.attempts < MaxAttempts
    /\ \E connected \in BOOLEAN, seconds \in Seconds :
        LET found == connected /\ question.mapped
            due == question.entry.next <= seconds
            entry == Reconnected(question.entry, seconds, connected, question.mapped)
            attempts == IF found THEN 0 ELSE IF due THEN question.attempts + 1 ELSE question.attempts
        IN  question' = [about |-> "reconnect", entry |-> entry, attempts |-> attempts,
                         mapped |-> question.mapped, ready |-> found,
                         missed |-> question.missed \/ (connected /\ ~found)]

AskConfig ==
    /\ About("nothing")
    /\ \E file \in Files, args \in Arguments :
            question' = [about |-> "config", file |-> file, args |-> args]

AskOldConfig ==
    /\ About("nothing")
    /\ \E old \in OldFiles : question' = [about |-> "old", old |-> old]

Ask == \/ AskRange \/ AskData \/ AskAlgorithms \/ AskFrames \/ AskPacket
       \/ AskTimeouts \/ AskReconnect \/ Round
       \/ AskConfig \/ AskOldConfig \/ AskAgain

Questions == Unasked /\ [][Ask]_question

-----------------------------------------------------------------------------
\* The bits of the address that come first agree with the base.
Agree(base, addr, prefix_len) ==
    \A i \in DOMAIN addr, j \in 1 .. ByteBits :
        (i - 1) * ByteBits + j <= prefix_len => addr[i][j] = base[i][j]

(* Range::matches holds exactly for the addresses as long as the base that  *)
(* agree with it in the first prefix_len bits; a prefix longer than the     *)
(* address matches nothing.                                                 *)
MatchesPrefix ==
    About("range") =>
        LET range == question.range
            addr == question.addr
        IN  matches(range, addr) <=>
                /\ Len(addr) = Len(range.base)
                /\ range.prefix_len <= Len(addr) * ByteBits
                /\ Agree(range.base, addr, range.prefix_len)

(* The text stands for the same number as the data: the digit loops of      *)
(* to_base62 and from_base62 and their carries compute a change of base.    *)
(* The assertion of base62_add_mult_16 holds, its buffer is long enough and *)
(* from_base62 cuts no carry to a byte.  So a key that generate_keypair     *)
(* prints is accepted by parse_public_key and stays the same, unless its    *)
(* first byte is 0.                                                         *)
KeysSurviveText ==
    About("data") =>
        LET data == question.data
            text == to_base62(data)
            back == from_base62(text)
        IN  /\ \A i \in DOMAIN text : text[i] < 62
            /\ Len(text) <= 2 * Len(data)
            /\ \A i \in DOMAIN back : back[i] < 256
            /\ ValueOf(text, 62) = ValueOf(data, 256)
            /\ ValueOf(back, 256) = ValueOf(data, 256)
            /\ Len(data) = KEY_LEN /\ data[1] # 0 => parse_key(generate_key(data)) = data

-----------------------------------------------------------------------------
\* The minimal speed of an algorithm that both nodes know.
MinimalSpeed(a) ==
    LET SpeedIn(speeds) == speeds[Place(speeds, a)][2]
    IN  Slower(SpeedIn(question.mine.algorithm_speeds), SpeedIn(question.theirs.algorithm_speeds))

Shared == {a \in 1 .. 3 : /\ Places(question.mine.algorithm_speeds, a) # {}
                          /\ Places(question.theirs.algorithm_speeds, a) # {}}

Best == {a \in Shared : \A b \in Shared : MinimalSpeed(b) <= MinimalSpeed(a)}

\* The fastest algorithms are listed in the same order by both.
SameOrder ==
    LET Before(algorithms, a, b) ==
            Place(algorithms.algorithm_speeds, a) < Place(algorithms.algorithm_speeds, b)
    IN  \A a, b \in Best : Before(question.mine, a, b) <=> Before(question.theirs, a, b)

\* An algorithm has one speed, though it may be listed twice.
OneSpeed(algorithms) ==
    LET speeds == algorithms.algorithm_speeds
    IN  \A i, j \in DOMAIN speeds : speeds[i][1] = speeds[j][1] => speeds[i][2] = speeds[j][2]

(* "Select the algorithm with the greatest minimal speed", select_algorithm *)
(* of either node, and no encryption only if both allow it.  So both nodes  *)
(* select the same, if not two algorithms tie that they list in different   *)
(* order, and if neither lists an algorithm twice that it has measured with *)
(* two speeds.  With two speeds it is still one that both list.             *)
BothSelectSame ==
    About("algorithms") =>
        LET mine == select_algorithm(question.mine, question.theirs)
            theirs == select_algorithm(question.theirs, question.mine)
            one_speed == OneSpeed(question.mine) /\ OneSpeed(question.theirs)
        IN  /\ one_speed /\ SameOrder => mine = theirs
            /\ IF question.mine.allow_unencrypted /\ question.theirs.allow_unencrypted
               THEN mine = <<>>
               ELSE IF Shared = {} THEN mine = Absent
               ELSE /\ mine[1] \in Shared
                    /\ one_speed => mine[1] \in Best /\ mine[2] = MinimalSpeed(mine[1])

-----------------------------------------------------------------------------
\* The VLAN of a frame: its 12 bit id, or none.
Vlan(f) == IF f[3] = TAGGED THEN (f[4] % 16) * 256 + f[5] ELSE -1

(* "forwarded based on separate MAC tables", vpncloud.adoc: Frame::parse    *)
(* gives two stations the same address if and only if they have the same    *)
(* MAC address and VLAN, whatever the priority of the frames, and refuses a *)
(* frame whose tag is cut off.  A tag with VLAN id 0 only carries a         *)
(* priority; what a station that sends such frames should be called is left *)
(* open.  Packet::parse finds source and destination where the last words   *)
(* of a header without options are, whatever follows, and refuses a header  *)
(* that is cut off and other versions.                                      *)
AddressesFound ==
    /\ About("frames") =>
        LET f == question.frames[1]
            g == question.frames[2]
        IN  /\ Vlan(f) # 0 /\ Vlan(g) # 0 =>
                    \A i, j \in 1 .. 2 :
                        parse(f)[i] = parse(g)[j] <=> f[3 - i] = g[3 - j] /\ Vlan(f) = Vlan(g)
            /\ \A n \in 0 .. IF f[3] = TAGGED THEN 4 ELSE 2 : parse(SubSeq(f, 1, n)) = <<>>
    /\ About("packet") =>
        LET packet == question.packet
            size == IF packet[1] = 4 THEN 1 ELSE IF packet[1] = 6 THEN 4 ELSE 0
            header == IF packet[1] = 4 THEN 5 ELSE 10
        IN  IF size = 0 \/ Len(packet) < header THEN parse_packet(packet) = <<>>
            ELSE parse_packet(packet)[1] \o parse_packet(packet)[2]
                    = SubSeq(packet, header - 2 * size + 1, header)

-----------------------------------------------------------------------------
(* Every peer hears from the node before it forgets the node: the next node *)
(* info comes within the timeout that the peer has published, housekeep     *)
(* being up to a round late, whatever the node itself has configured.  That *)
(* includes a peer that joins after the interval was computed, unless its   *)
(* timeout is shorter than the node's and those of the others.  No peer has *)
(* a timeout below two minutes, for which the subtraction wraps.            *)
HeardInTime ==
    About("timeouts") =>
        LET timeouts == question.timeouts
            wait == interval(update_freq(question.keepalive, question.own), timeouts)
            own == {t \in PeerTimeouts : t = question.own /\ question.keepalive = Absent}
            Soon(t) == wait + HOUSEKEEP <= t
        IN  /\ \A t \in timeouts : Soon(t)
            /\ timeouts = {} => Soon(question.joining)
            /\ (\E t \in timeouts \cup own : t <= question.joining) => Soon(question.joining)

\* The interval between attempts, in seconds, up to one hour.
Doubling == <<1, 2, 4, 8, 16, 32, 64, 128, 256, 512, 1024, 2048, MAX_RECONNECT_INTERVAL>>

(* "every 10 tries, the interval doubles", reconnect_to_peers, and its limit *)
(* is one hour.  Whether the attempt that doubles it is counted among the   *)
(* ten is left open: the interval has doubled once for every ten attempts   *)
(* at most and once for every eleven at least.  It starts again at a second *)
(* when the node is found connected, so that a connection that is lost is   *)
(* attempted again at once.  Of a node that was connected without being     *)
(* found so, nothing is said but that the next attempt comes in time.       *)
BackOffDoubles ==
    About("reconnect") =>
        LET entry == question.entry
            Interval(k) == Doubling[Lesser(k + 1, Len(Doubling))]
        IN  /\ ~question.missed =>
                    \E k \in question.attempts \div 11 .. question.attempts \div 10 :
                        entry.timeout = Interval(k)
            /\ entry.next <= Lesser(entry.timeout, MAX_RECONNECT_INTERVAL)
            /\ question.ready => entry.next = 1 /\ question.attempts = 0

-----------------------------------------------------------------------------
\* The last of the --hook options for an event, Absent for none.
LastHook(args, event) ==
    LET options == args["hooks"]
        given == {i \in DOMAIN options : options[i].event = event}
    IN  IF given = {} THEN Absent
        ELSE options[CHOOSE i \in given : \A j \in given : j <= i].script

FileHook(file, event) ==
    IF event \in DOMAIN file["hooks"] THEN file["hooks"][event] ELSE Absent

(* No option gets lost between the sources of a configuration: arguments    *)
(* win over the file and the file over defaults, lists are collected from   *)
(* both, and the script for an event is the one for that event from either  *)
(* source before the general one.  What the wizard writes is read back as   *)
(* the configuration it was made from, except that a file can not ask for a *)
(* daemon.  A file of the old version keeps the meaning of its options, up  *)
(* to those that are gone: for its crypto method, "The converted config      *)
(* enables all available encryption algorithms", convert, and its magic     *)
(* header has no effect.                                                    *)
ConfigSurvives ==
    /\ About("config") =>
        LET file == question.file
            args == question.args
            config == main(file, args)
        IN  /\ main(into_config_file(config), NoArgs) = [config EXCEPT !["daemonize"] = FALSE]
            /\ \A f \in Scalar \cup (Optional \ {"hook"}) :
                    config[f] = Or(args[f], Or(file[f], default[f]))
            /\ \A f \in Collected : config[f] = Or(file[f], <<>>) \o args[f]
            /\ \A event \in Events :
                    call_hook(config, event) =
                        Or(LastHook(args, event), Or(FileHook(file, event),
                           Or(LastHook(args, Absent), file["hook"])))
    /\ About("old") =>
        LET old == question.old
            config == main(convert(old), NoArgs)
        IN  /\ \A f \in OldField \ (Dropped \cup {"port"}) : old[f] # Absent => config[f] = old[f]
            /\ config["algorithms"] = <<>>
            /\ old["port"] # Absent /\ old["listen"] = Absent => config["listen"] = old["port"]
            /\ config["password"] # Absent /\ config["beacon_password"] = old["password"]
=============================================================================
