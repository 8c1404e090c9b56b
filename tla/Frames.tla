------------------------------- MODULE Frames --------------------------------
(***************************************************************************)
(* The addresses of an ethernet frame or an IP packet, src/payload.rs.  A  *)
(* frame is a sequence of cells: the MAC addresses and the type are one    *)
(* cell each, a VLAN tag is two bytes, of which the upper half of the      *)
(* first is not part of the VLAN id.  A packet is a sequence of words of   *)
(* four bytes, the first of which is the version.                          *)
(***************************************************************************)
EXTENDS Integers, Sequences

TAGGED == 33024           \* the type 0x8100

\* Mutant: the priority is taken for a part of the VLAN id.
MaskedNot(byte) == byte

Masked(byte) == byte % 16

\* Source and destination, <<>> for a frame that is too short.  The comparison
\* is between one byte and two, so a VLAN id of 0 is not treated as untagged.
parse(data) ==
    IF Len(data) < 3 \/ (data[3] = TAGGED /\ Len(data) < 5) THEN <<>>
    ELSE IF data[3] # TAGGED THEN << <<data[2]>>, <<data[1]>> >>
    ELSE LET vlan == <<Masked(data[4]), data[5]>>
         IN  IF SubSeq(vlan, 1, 1) = <<0, 0>> THEN << <<data[2]>>, <<data[1]>> >>
             ELSE << vlan \o <<data[2]>>, vlan \o <<data[1]>> >>

\* The same for a packet.
parse_packet(data) ==
    IF data = <<>> THEN <<>>
    ELSE IF data[1] = 4 /\ Len(data) >= 5 THEN <<SubSeq(data, 4, 4), SubSeq(data, 5, 5)>>
    ELSE IF data[1] = 6 /\ Len(data) >= 10 THEN <<SubSeq(data, 3, 6), SubSeq(data, 7, 10)>>
    ELSE <<>>
=============================================================================
