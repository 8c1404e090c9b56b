----------------------------- MODULE BeaconText ------------------------------
(***************************************************************************)
(* How beacons are written into a text and found in it, src/beacon.rs.  A  *)
(* text is a sequence of tokens: the characters of the begin and end       *)
(* markers that a shared key gives, masked and encoded lists of addresses, *)
(* other words, and characters that are not alphanumeric.  A list that was *)
(* masked with another key, or is not a list at all, fails the check of    *)
(* its seed; the code's check has one byte and misses one in 256.          *)
(***************************************************************************)
EXTENDS Cells
LOCAL INSTANCE FiniteSetsExt
LOCAL INSTANCE SequencesExt

CONSTANT HOURS            \* values of now_hour_16, 2^16 in the code

ASSUME BeaconTextAssumption == HOURS \in Nat \ {0}

V6LEN == 3                \* cells of a v6 address where a v4 address has one, 18 and 6 bytes

now_hour_16(hour) == hour % HOURS

MARKER == 2               \* characters of a marker, 5 in the code

\* The markers of a key.  The keystream may give any characters; here begin ends
\* with the character with which end begins.
begin(key) == << <<key, "first">>, <<key, "middle">> >>
end(key) == << <<key, "middle">>, <<key, "last">> >>

-----------------------------------------------------------------------------
(* peerlist_encode.                                                         *)

OfFamily(addrs, kind) == SelectSeq(addrs, LAMBDA a : a[1] = kind)

\* A v6 address takes several cells.
V6Cells(addr) == [i \in 1 .. V6LEN |-> addr]

\* The data of a list: the hour, the number of v4 addresses, the addresses.
peerlist_data(hour, peers) ==
    LET v4 == OfFamily(peers, "v4")
        v6 == OfFamily(peers, "v6")
    IN  <<Num(now_hour_16(hour)), Num(Len(v4))>> \o v4
        \o FlattenSeq([i \in DOMAIN v6 |-> V6Cells(v6[i])])

\* encrypt_data and to_base62.  The first byte of the masked data may happen to
\* be zero, and from_base62 will not give it back.
peerlist_encode(key, hour, peers, leading_zero) ==
    <<"list", key, peerlist_data(hour, peers), leading_zero>>

encode_beacon(key, hour, peers, leading_zero) ==
    begin(key) \o <<peerlist_encode(key, hour, peers, leading_zero)>> \o end(key)

-----------------------------------------------------------------------------
(* peerlist_decode.                                                         *)

\* Mutant: only beacons from the past are compared.
ExpiredOneWay(then, now, ttl) == (now - then) % HOURS > ttl

\* The clocks of the nodes may differ in either direction; the difference wraps.
Expired(then, now, ttl) == (now - then) % HOURS > ttl /\ (then - now) % HOURS > ttl

\* from_base62 and decrypt_data: the data, <<>> unless the text is one list
\* under this key that has all its bytes.
decrypt_data(key, tokens) ==
    IF /\ Len(tokens) = 1 /\ tokens[1][1] = "list"
       /\ tokens[1][2] = key /\ ~tokens[1][4]
    THEN tokens[1][3] ELSE <<>>

peerlist_decode(key, tokens, ttl, hour) ==
    LET data == decrypt_data(key, tokens)
        v4count == data[2][2]
        rest == Len(data) - 2 - v4count
    IN  IF data = <<>> THEN <<>>
        ELSE IF ttl # Absent /\ Expired(data[1][2], now_hour_16(hour), ttl) THEN <<>>
        ELSE IF rest < 0 \/ rest % V6LEN > 0 THEN <<>>
        ELSE SubSeq(data, 3, 2 + v4count)
             \o [i \in 1 .. rest \div V6LEN |-> data[2 + v4count + V6LEN * i]]

-----------------------------------------------------------------------------
(* decode.                                                                  *)

base_62_sanitize(text) == SelectSeq(text, LAMBDA t : t # <<"space">>)

\* The marker is at position i of the text.
IsAt(text, marker, i) ==
    i \in 1 .. Len(text) - MARKER + 1 /\ SubSeq(text, i, i + MARKER - 1) = marker

\* The first position of the marker from pos on, 0 if there is none.
Find(text, marker, pos) ==
    LET found == {i \in pos .. Len(text) : IsAt(text, marker, i)}
    IN  IF found = {} THEN 0 ELSE Min(found)

\* The end is searched from the begin marker itself: one that begins within it
\* makes a range that ends before it starts, and the thread panics, Absent.  The
\* search goes on right after the begin marker: the rest of a beacon that is cut
\* off does not hide the beacon that follows it.
RECURSIVE decode_from(_, _, _, _, _)
decode_from(key, text, ttl, hour, pos) ==
    LET start == Find(text, begin(key), pos)
        finish == Find(text, end(key), start)
        start_pos == start + MARKER
        peers == peerlist_decode(key, SubSeq(text, start_pos, finish - 1), ttl, hour)
        more == decode_from(key, text, ttl, hour, start_pos)
    IN  IF start = 0 \/ finish = 0 THEN <<>>
        ELSE IF finish < start_pos \/ more = Absent THEN Absent
        ELSE peers \o more

decode_beacons(key, text, ttl, hour) ==
    decode_from(key, base_62_sanitize(text), ttl, hour, 1)
=============================================================================
