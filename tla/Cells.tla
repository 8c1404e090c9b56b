-------------------------------- MODULE Cells --------------------------------
(***************************************************************************)
(* Messages as sequences of cells, for the codecs of node infos and init   *)
(* messages.  A number, an id, a key, an address or a claim is one cell,   *)
(* tagged with its kind, so lengths count cells where the code counts      *)
(* bytes.  A cell of an unexpected kind is refused: the messages that are  *)
(* looked at, written by encode or write_to or cut short, have none.       *)
(***************************************************************************)
EXTENDS Integers, Sequences, Option

Num(n) == <<"num", n>>
V4(n) == <<"v4", n>>
V6(n) == <<"v6", n>>

From(cells, n) == SubSeq(cells, n, Len(cells))
FirstOf(cells, n) == SubSeq(cells, 1, IF n < Len(cells) THEN n ELSE Len(cells))

\* A part or field: its number, the length of its body, the body.
Part(part, body) == <<part, Num(Len(body))>> \o body

\* What is read, and the cells that are left; or the error.
Read(value, left) == [ok |-> TRUE, value |-> value, left |-> left]
Failed == [ok |-> FALSE]

\* read_exact: n cells of a kind.
ReadCells(cells, n, kind) ==
    IF Len(cells) >= n /\ \A i \in 1 .. n : cells[i][1] = kind
    THEN Read(SubSeq(cells, 1, n), From(cells, n + 1))
    ELSE Failed

\* One cell, by itself.
ReadOne(cells, kind) ==
    LET got == ReadCells(cells, 1, kind)
    IN  IF got.ok THEN Read(got.value[1], got.left) ELSE Failed
=============================================================================
