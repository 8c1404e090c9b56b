---------------------------- MODULE MCAlgorithms ----------------------------
(***************************************************************************)
(* Questions about the pure algorithms of a node, and about the codecs.    *)
(***************************************************************************)
EXTENDS Algorithms, Transport, NodeInfo, BeaconText
LOCAL INSTANCE FiniteSetsExt
LOCAL INSTANCE SequencesExt

-----------------------------------------------------------------------------
(* The inputs of Algorithms.  Bytes are around the points where the digits  *)
(* of base62 carry and where the VLAN id begins; timeouts are around the    *)
(* shortest for which the code computes an interval and around the width of *)
(* the integers.                                                            *)

MCBytes == {0, 1, 15, 16, 61, 62, 255}
MCNames == UNION {[1 .. n -> 0 .. 3] : n \in 0 .. 3}
MCSpeeds == 1 .. 2
MCMacs == 1 .. 2
MCEtherTypes == {2048, TAGGED}

\* IPv4 headers without and with options, IPv6 headers, and other versions.
MCPackets ==
    {[k \in 1 .. n |-> IF k = 1 THEN version ELSE IF k \in {i, j} THEN 3 ELSE w] :
        n \in 4 .. 11, version \in {4, 5, 6}, w \in 1 .. 2, i \in 4 .. 10, j \in 4 .. 10}

MCPeerTimeouts == {SHORTEST, SHORTEST + 1, SHORTEST + 2, 300, 600, 65535}
MCOwnTimeouts == MCPeerTimeouts \cup {1, 60, SHORTEST - 1, 65536, 65736, 131191, 131192}
MCKeepalives == {Absent, 1, 30, 600, 65536}
MCSeconds == {3, 600, 3600}

-----------------------------------------------------------------------------
(* Node infos: lists of addresses up to and beyond what fits.               *)

\* n v4 addresses and m v6 addresses, one of the latter in the middle.
Addrs(n, m) ==
    [i \in 1 .. n \div 2 |-> V4(i)] \o [i \in 1 .. m |-> V6(i)]
    \o [i \in 1 .. n - n \div 2 |-> V4(i + n)]

AddrLists == {Addrs(n, m) : n \in {0, 1, COUNT - 1, COUNT, COUNT + 1}, m \in {0, 1, COUNT - 1, COUNT}}

Id(n) == <<"id", n>>
Peer == [node_id : {Absent, Id(2)}, addrs : AddrLists]

AskInfo ==
    /\ About("nothing")
    /\ \E peer \in Peer, more \in {<<>>, <<[node_id |-> Id(3), addrs |-> Addrs(1, 1)]>>},
          timeout \in {Absent, 300}, n \in 0 .. 2, addrs \in {Addrs(0, 0), Addrs(2, 1), Addrs(COUNT + 1, COUNT)} :
            question' = [about |-> "info", info |->
                [node_id |-> Id(1), peers |-> <<peer>> \o more,
                 claims |-> [i \in 1 .. n |-> <<"claim", i>>],
                 peer_timeout |-> timeout, addrs |-> addrs]]

-----------------------------------------------------------------------------
(* Init messages.                                                           *)

Payloads == {<<>>, <<<<"payload", 1>>>>, <<<<"payload", 1>>, <<"payload", 2>>>>}

Message(stage, names, payload) ==
    [stage |-> stage, salted_node_id_hash |-> Id(1),
     ecdh_public_key |-> IF stage = STAGE_PENG THEN Absent ELSE <<"ecdh", 1>>,
     algorithms |-> IF stage = STAGE_PENG THEN Absent
                    ELSE parse_algorithms(names, [i \in 1 .. 3 |-> 1 + (i % 2)]),
     encrypted_payload |-> IF stage = STAGE_PING THEN Absent ELSE payload]

MCMessages ==
    {Message(stage, names, payload) :
        stage \in {STAGE_PING, STAGE_PONG, STAGE_PENG}, names \in MCNames, payload \in Payloads}
MCTrustedKeys == {<<"k1">>, <<"k2">>, <<"k2", "k1">>}
MCLeftovers == {<<Num(1), Sign("k2", <<>>)>>}

-----------------------------------------------------------------------------
(* Texts with beacons of this network and of another one, complete or cut   *)
(* off anywhere outside a list.                                             *)

Then == HOURS - 1
Mixed == peerlist_encode("ours", Then, <<V6(1), V4(1), V4(2)>>, FALSE)
Later == peerlist_encode("ours", Then + 2, <<V6(2), V6(3)>>, FALSE)
Zero == peerlist_encode("ours", Then, <<V4(4)>>, TRUE)

Pieces ==
    {<<t>> : t \in Range(begin("ours") \o end("ours")) \cup {<<"space">>, <<"word">>, Mixed}} \cup
    {begin("ours"), end("ours"),
     encode_beacon("ours", Then + 2, <<V6(2), V6(3)>>, FALSE),
     encode_beacon("ours", Then, <<V4(4)>>, TRUE),
     encode_beacon("theirs", Then, <<V4(5)>>, FALSE)}

AskText ==
    /\ About("nothing")
    /\ \E n \in 0 .. 4 : \E s \in [1 .. n -> Pieces], hour \in Then .. Then + 7, ttl \in {Absent, 2} :
            question' = [about |-> "text", text |-> FlattenSeq(s), hour |-> hour, ttl |-> ttl]

-----------------------------------------------------------------------------
(* Files that give up to two options and arguments that give one, hooks     *)
(* from both, and files of the old version.                                 *)

Given(source, f) ==
    IF f \in Collected \cup {"algorithms"} THEN {<<<<source, f>>>>}
    ELSE IF f \in Switch THEN {TRUE, FALSE}
    ELSE IF f = "hooks" THEN {"e1" :> "s1", "e1" :> "s1" @@ "e2" :> "s2"}
    ELSE {<<source, f>>}

MCFiles == {EmptyFile} \cup UNION {{[EmptyFile EXCEPT ![f] = v, ![g] = w] :
                v \in Given("file", f), w \in Given("file", g)} :
                    f \in Field \ {"daemonize"}, g \in {"hook", "hooks", "listen", "peers"}}

Hook == [event : {Absent, "e1"}, script : {"s3", "s4"}]
GivenArg(f) ==
    IF f = "hooks" THEN UNION {[1 .. n -> Hook] : n \in 1 .. 2} ELSE Given("args", f)
MCArguments ==
    {NoArgs} \cup UNION {{[NoArgs EXCEPT ![f] = v] : v \in GivenArg(f)} : f \in Field \ {"hook"}}

EmptyOld == [f \in OldField |-> Absent]
MCOldFiles ==
    UNION {{[EmptyOld EXCEPT ![f] = v, ![g] = w] : v \in Given("old", f), w \in Given("old", g)} :
        f \in OldField, g \in OldField}

MCValues == {"file", "args", "old"} \X Collected
MCEvents == {"e1", "e2", "e3"}
MCScripts == {"s1", "s2", "s3", "s4"}

-----------------------------------------------------------------------------
MCNext == Ask \/ AskInfo \/ AskMessage \/ AskText
MCSpec == Unasked /\ [][MCNext]_question

-----------------------------------------------------------------------------
\* A list of addresses that NodeInfo can transport: v6 first, fewer than COUNT
\* of either family, in the order of the list.
Transported(addrs) ==
    LET Kept(kind, i) ==
            /\ addrs[i][1] = kind
            /\ Cardinality({j \in 1 .. i : addrs[j][1] = kind}) < COUNT
    IN  [k \in 1 .. Quantify(DOMAIN addrs, LAMBDA i : Kept("v6", i) \/ Kept("v4", i)) |->
            addrs[CHOOSE i \in DOMAIN addrs :
                \/ /\ Kept("v6", i)
                   /\ k = Quantify(1 .. i, LAMBDA j : Kept("v6", j))
                \/ /\ Kept("v4", i)
                   /\ k = Quantify(1 .. i, LAMBDA j : Kept("v4", j))
                        + Quantify(DOMAIN addrs, LAMBDA j : Kept("v6", j))]]

TransportedInfo(info) ==
    [info EXCEPT !.peers = [i \in DOMAIN @ |-> [@[i] EXCEPT !.addrs = Transported(@)]],
                 !.addrs = Transported(@)]

(* NodeInfo::decode gives back what NodeInfo::encode has written, up to the *)
(* addresses that do not fit, and whatever part a newer version has added   *)
(* before it.  A node info that is cut off anywhere is refused as a whole.  *)
InfoSurvivesTransport ==
    About("info") =>
        LET cells == encode(question.info)
        IN  /\ decode(cells) = TransportedInfo(question.info)
            /\ decode(Part(Num(6), <<Num(0), Num(1)>>) \o cells) = TransportedInfo(question.info)
            /\ \A n \in 0 .. Len(cells) - 1 : decode(SubSeq(cells, 1, n)) = Absent

-----------------------------------------------------------------------------
\* An hour is at most the limit away from now, in either direction.
InTime(hour) ==
    question.ttl # Absent =>
        \E age \in -question.ttl .. question.ttl : hour % HOURS = (question.hour + age) % HOURS

\* What is loaded for the token at position i: a list of this network between
\* its two markers, not older or newer than the limit.  A list that begins with a
\* zero byte is kept or not.
LoadedAt(text, i, kept) ==
    IF ~(IsAt(text, begin("ours"), i - MARKER) /\ IsAt(text, end("ours"), i + 1)) THEN <<>>
    ELSE IF text[i] = Mixed /\ InTime(Then) THEN <<V4(1), V4(2), V6(1)>>
    ELSE IF text[i] = Later /\ InTime(Then + 2) THEN <<V6(2), V6(3)>>
    ELSE IF text[i] = Zero /\ kept /\ InTime(Then) THEN <<V4(4)>>
    ELSE <<>>

\* An end marker begins within a begin marker.
Overlapping(text) ==
    \E i \in DOMAIN text : \E j \in i .. i + MARKER - 1 :
        IsAt(text, begin("ours"), i) /\ IsAt(text, end("ours"), j)

(* "all nodes can find beacons in a long text", vpncloud.adoc:              *)
(* BeaconSerializer::decode finds exactly the complete beacons of its own   *)
(* network whose hour is within the limit, across the point where the hours *)
(* wrap, however beacons that are cut off or belong to others surround      *)
(* them.  Whether it finds a list that begins with a zero byte is left open *)
(* but it finds the others around it.  Nothing is said of a text in which   *)
(* an end marker begins within a begin marker.                              *)
BeaconsFound ==
    About("text") =>
        LET text == base_62_sanitize(question.text)
        IN  ~Overlapping(text) =>
                \E kept \in BOOLEAN :
                    decode_beacons("ours", question.text, question.ttl, question.hour)
                        = FlattenSeq([i \in DOMAIN text |-> LoadedAt(text, i, kept)])
=============================================================================
