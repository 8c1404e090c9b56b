------------------------------- MODULE InitMsg -------------------------------
(***************************************************************************)
(* How init messages are written, signed and read: InitMsg of              *)
(* src/crypto/init.rs.  The salted hash of a key tells keys apart, and     *)
(* nobody else can make a signature.  A message fits into its buffer of    *)
(* 65535 bytes, so the lengths, 16 bits in the code, do not wrap.          *)
(***************************************************************************)
EXTENDS Cells

STAGE_PING == 1
STAGE_PONG == 2
STAGE_PENG == 3

PART_END_INIT == Num(0)
PART_STAGE == Num(1)
PART_SALTED_NODE_ID_HASH == Num(2)
PART_ECDH_PUBLIC_KEY == Num(3)
PART_ALGORITHMS == Num(4)
PART_PAYLOAD == Num(5)

ENTRY == 2                \* cells of an algorithm with its speed, 5 bytes in the code
INFINITY == 99            \* the speed of no encryption

-----------------------------------------------------------------------------
(* write_to.  A message has the fields of its stage; the others are Absent. *)

calculate_hash(key, salt) == <<"hash", key, salt>>
Sign(key, cells) == <<"signature", key, cells>>

\* The entries for algorithms: no encryption comes first.
Entries(algorithms) ==
    (IF algorithms.allow_unencrypted THEN <<<<0, INFINITY>>>> ELSE <<>>)
    \o algorithms.algorithm_speeds

encode_algorithms(algorithms) ==
    LET entries == Entries(algorithms)
    IN  [i \in 1 .. ENTRY * Len(entries) |-> Num(entries[(i + 1) \div ENTRY][2 - (i % ENTRY)])]

PartIf(present, part, body) == IF present THEN Part(part, body) ELSE <<>>

\* What is signed.
signed_data(msg, key, salt) ==
       <<<<"salt", salt>>, calculate_hash(key, salt)>>
    \o Part(PART_STAGE, <<Num(msg.stage)>>)
    \o Part(PART_SALTED_NODE_ID_HASH, <<msg.salted_node_id_hash>>)
    \o PartIf(msg.stage # STAGE_PENG, PART_ECDH_PUBLIC_KEY, <<msg.ecdh_public_key>>)
    \o PartIf(msg.stage # STAGE_PENG, PART_ALGORITHMS, encode_algorithms(msg.algorithms))
    \o PartIf(msg.stage # STAGE_PING, PART_PAYLOAD, msg.encrypted_payload)
    \o <<PART_END_INIT>>

write_to(msg, key, salt) ==
    signed_data(msg, key, salt) \o <<Num(1), Sign(key, signed_data(msg, key, salt))>>

-----------------------------------------------------------------------------
(* read_from.                                                               *)

\* Entries for unknown algorithms are skipped.
decode_algorithms(cells) ==
    LET entries == [i \in 1 .. Len(cells) \div ENTRY |->
                        <<cells[ENTRY * i - 1][2], cells[ENTRY * i][2]>>]
        algos[i \in 0 .. Len(entries)] ==
            IF i = 0 THEN <<>>
            ELSE IF entries[i][1] \in 1 .. 3 THEN Append(algos[i - 1], entries[i])
            ELSE algos[i - 1]
    IN  [algorithm_speeds |-> algos[Len(entries)],
         allow_unencrypted |-> \E i \in DOMAIN entries : entries[i][1] = 0]

\* What is read of a field of length n.  Stage and hash have a fixed length.
read_field(field, cells, n) ==
    IF field = PART_STAGE THEN IF n = 1 THEN ReadCells(cells, 1, "num") ELSE Failed
    ELSE IF field = PART_SALTED_NODE_ID_HASH THEN
        IF n = 1 THEN ReadCells(cells, 1, "id") ELSE Failed
    ELSE IF field = PART_ECDH_PUBLIC_KEY THEN ReadCells(cells, n, "ecdh")
    ELSE IF field = PART_PAYLOAD THEN ReadCells(cells, n, "payload")
    ELSE IF field = PART_ALGORITHMS THEN ReadCells(cells, (n \div ENTRY) * ENTRY, "num")
    ELSE IF Len(cells) >= n THEN Read(<<>>, From(cells, n + 1))
    ELSE Failed

StoredField(msg, field, value) ==
    IF field = PART_STAGE THEN [msg EXCEPT !.stage = value[1][2]]
    ELSE IF field = PART_SALTED_NODE_ID_HASH THEN [msg EXCEPT !.salted_node_id_hash = value[1]]
    ELSE IF field = PART_ECDH_PUBLIC_KEY THEN [msg EXCEPT !.ecdh_public_key = value[1]]
    ELSE IF field = PART_PAYLOAD THEN [msg EXCEPT !.encrypted_payload = value]
    ELSE IF field = PART_ALGORITHMS THEN [msg EXCEPT !.algorithms = decode_algorithms(value)]
    ELSE msg

\* A round of the loop over the fields.  It is over when a read has failed or
\* at the end of the fields.
read_round(r) ==
    LET field == r.left[1]
        len == ReadOne(From(r.left, 2), "num")
        got == read_field(field, len.left, len.value[2])
    IN  IF ~r.ok \/ r.ended THEN r
        ELSE IF r.left = <<>> THEN [r EXCEPT !.ok = FALSE]
        ELSE IF field = PART_END_INIT THEN [r EXCEPT !.left = From(@, 2), !.ended = TRUE]
        ELSE IF ~len.ok \/ ~got.ok THEN [r EXCEPT !.ok = FALSE]
        ELSE [r EXCEPT !.left = got.left, !.value = StoredField(@, field, got.value)]

Rounds(r, n) ==
    LET run[k \in 0 .. n] == IF k = 0 THEN r ELSE read_round(run[k - 1])
    IN  run[n]

\* A round reads a cell at least.
read_fields(cells, msg) ==
    Rounds([ok |-> TRUE, ended |-> FALSE, value |-> msg, left |-> cells], Len(cells) + 1)

\* The fields that a stage needs; a ping forgets a payload, a peng all but it.
Complete(msg) ==
    LET key == msg.ecdh_public_key # Absent /\ msg.algorithms # Absent
        payload == msg.encrypted_payload # Absent
    IN  IF msg.salted_node_id_hash = Absent THEN Absent
        ELSE IF msg.stage = STAGE_PING /\ key THEN [msg EXCEPT !.encrypted_payload = Absent]
        ELSE IF msg.stage = STAGE_PONG /\ key /\ payload THEN msg
        ELSE IF msg.stage = STAGE_PENG /\ payload
        THEN [msg EXCEPT !.ecdh_public_key = Absent, !.algorithms = Absent]
        ELSE Absent

NoFields == [stage |-> Absent, salted_node_id_hash |-> Absent, ecdh_public_key |-> Absent,
             algorithms |-> Absent, encrypted_payload |-> Absent]

\* Mutant: the signature has to be the end of the buffer.
VerifiedAtEnd(key, signed, rest) == rest = <<Num(1), Sign(key, signed)>>

\* The signature of what comes before it, whatever comes after it.
Verified(key, signed, rest) ==
    Len(rest) >= 2 /\ rest[1] = Num(1) /\ rest[2] = Sign(key, signed)

\* The message and the key that signed it.  The first trusted key with the
\* salted hash of the message is used.
read_from(cells, trusted_keys) ==
    LET found == {i \in DOMAIN trusted_keys : calculate_hash(trusted_keys[i], cells[1][2]) = cells[2]}
        key == trusted_keys[CHOOSE i \in found : \A j \in found : i <= j]
        fields == read_fields(From(cells, 3), NoFields)
        signed == FirstOf(cells, Len(cells) - Len(fields.left))
        msg == Complete(fields.value)
    IN  IF Len(cells) < 2 \/ found = {} \/ ~fields.ok \/ ~Verified(key, signed, fields.left)
           \/ msg = Absent
        THEN Failed
        ELSE Read(msg, key)
=============================================================================
