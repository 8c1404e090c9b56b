------------------------------ MODULE NodeInfo -------------------------------
(***************************************************************************)
(* How a node info is written and read, src/messages.rs.                   *)
(***************************************************************************)
EXTENDS Cells
LOCAL INSTANCE SequencesExt

CONSTANT COUNT            \* values of a count of addresses in the flags, 8 in the code

ASSUME NodeInfoAssumption == COUNT \in Nat \ {0}

PART_END == Num(0)
PART_PEERS == Num(1)
PART_CLAIMS == Num(2)
PART_PEER_TIMEOUT == Num(3)
PART_NODEID == Num(4)
PART_ADDRS == Num(5)

HAS_NODE_ID == 2 * COUNT * COUNT          \* 0x80 in the code

-----------------------------------------------------------------------------
(* encode.                                                                  *)

OfKind(addrs, kind) == SelectSeq(addrs, LAMBDA a : a[1] = kind)

\* Mutant: one address too many for the bits of its count.
FittingOneMore(addrs) == FirstOf(addrs, COUNT)

Fitting(addrs) == FirstOf(addrs, COUNT - 1)

Listed(addrs, kind) == Fitting(OfKind(addrs, kind))

\* An entry of the list of peers.
encode_peer(addrs, node_id) ==
    LET v6 == Listed(addrs, "v6")
        v4 == Listed(addrs, "v4")
        flags == Len(v6) * COUNT + Len(v4) + IF node_id = Absent THEN 0 ELSE HAS_NODE_ID
    IN  <<Num(flags)>> \o (IF node_id = Absent THEN <<>> ELSE <<node_id>>) \o v6 \o v4

encode_addrs_part(addrs) == encode_peer(addrs, Absent)

encode(info) ==
       Part(PART_NODEID, <<info.node_id>>)
    \o Part(PART_PEERS, FlattenSeq([i \in DOMAIN info.peers |->
            encode_peer(info.peers[i].addrs, info.peers[i].node_id)]))
    \o Part(PART_CLAIMS, info.claims)
    \o (IF info.peer_timeout = Absent THEN <<>>
        ELSE Part(PART_PEER_TIMEOUT, <<Num(info.peer_timeout)>>))
    \o Part(PART_ADDRS, encode_addrs_part(info.addrs))
    \o <<PART_END>>

-----------------------------------------------------------------------------
(* decode.                                                                  *)

read_addr_list_inner(cells, flags) ==
    LET v6 == ReadCells(cells, (flags \div COUNT) % COUNT, "v6")
        v4 == ReadCells(v6.left, flags % COUNT, "v4")
    IN  IF ~v6.ok \/ ~v4.ok THEN Failed ELSE Read(v6.value \o v4.value, v4.left)

read_addr_list(cells) ==
    LET flags == ReadOne(cells, "num")
    IN  IF ~flags.ok THEN Failed ELSE read_addr_list_inner(flags.left, flags.value[2])

\* An entry of the list of peers.
read_peer(cells) ==
    LET flags == ReadOne(cells, "num")
        has_node_id == flags.value[2] >= HAS_NODE_ID
        id == IF has_node_id THEN ReadOne(flags.left, "id") ELSE Read(Absent, flags.left)
        addrs == read_addr_list_inner(id.left, flags.value[2])
    IN  IF ~flags.ok \/ ~id.ok \/ ~addrs.ok THEN Failed
        ELSE Read([node_id |-> id.value, addrs |-> addrs.value], addrs.left)

RECURSIVE decode_peer_list_part(_, _)
decode_peer_list_part(cells, peers) ==
    IF cells = <<>> THEN Read(peers, <<>>)
    ELSE LET peer == read_peer(cells)
         IN  IF ~peer.ok THEN Failed
             ELSE decode_peer_list_part(peer.left, Append(peers, peer.value))

\* What is read from the body of a part; complete tells whether the body has
\* the length that was announced.  Peers, claims and unknown parts are read up
\* to that length, the others as far as they need.
decode_part(part, body, complete) ==
    CASE part = PART_PEERS -> IF complete THEN decode_peer_list_part(body, <<>>) ELSE Failed
      [] part = PART_CLAIMS -> IF complete THEN ReadCells(body, Len(body), "claim") ELSE Failed
      [] part = PART_PEER_TIMEOUT -> ReadOne(body, "num")
      [] part = PART_NODEID -> ReadOne(body, "id")
      [] part = PART_ADDRS -> read_addr_list(body)
      [] OTHER -> IF complete THEN Read(Absent, <<>>) ELSE Failed

Stored(info, part, value) ==
    CASE part = PART_PEERS -> [info EXCEPT !.peers = value]
      [] part = PART_CLAIMS -> [info EXCEPT !.claims = value]
      [] part = PART_PEER_TIMEOUT -> [info EXCEPT !.peer_timeout = value[2]]
      [] part = PART_NODEID -> [info EXCEPT !.node_id = value]
      [] part = PART_ADDRS -> [info EXCEPT !.addrs = value]
      [] OTHER -> info

\* What a part leaves unread is read as the next part.
RECURSIVE decode_parts(_, _)
decode_parts(cells, info) ==
    IF cells = <<>> THEN Absent
    ELSE IF cells[1] = PART_END THEN IF info.node_id = Absent THEN Absent ELSE info
    ELSE LET len == ReadOne(From(cells, 2), "num")
             n == len.value[2]
             got == decode_part(cells[1], FirstOf(len.left, n), Len(len.left) >= n)
         IN  IF ~len.ok \/ ~got.ok THEN Absent
             ELSE decode_parts(got.left \o From(len.left, n + 1),
                               Stored(info, cells[1], got.value))

decode(cells) ==
    decode_parts(cells, [node_id |-> Absent, peers |-> <<>>, claims |-> <<>>,
                         peer_timeout |-> Absent, addrs |-> <<>>])
=============================================================================
