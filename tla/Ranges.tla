------------------------------- MODULE Ranges -------------------------------
(***************************************************************************)
(* Addresses and address ranges, src/types.rs.  An address is a sequence   *)
(* of bytes, a byte the sequence of its bits, the most significant one     *)
(* first, and Range::matches decides byte by byte whether an address lies  *)
(* in a range.  The width of a byte is a parameter so that several bytes   *)
(* with all their bit patterns fit in a small instance.                    *)
(***************************************************************************)
EXTENDS Integers, Sequences

CONSTANTS ByteBits,     \* bits in a byte: 8 in the code
          MaxLen        \* bytes in the longest address: 16 in the code

ASSUME RangesAssumption == ByteBits \in Nat \ {0} /\ MaxLen \in Nat \ {0}

Byte == [1 .. ByteBits -> {0, 1}]
Address == UNION {[1 .. len -> Byte] : len \in 1 .. MaxLen}
Prefix == 0 .. MaxLen * ByteBits + 1
AddressRange == [base : Address, prefix_len : Prefix]

\* The bits that are set in x ^ y.
Differing(x, y) == {i \in 1 .. ByteBits : x[i] # y[i]}

\* leading_zeros of x ^ y.
leading_zeros(x, y) ==
    IF Differing(x, y) = {} THEN ByteBits
    ELSE (CHOOSE i \in Differing(x, y) : \A j \in Differing(x, y) : i <= j) - 1

\* Mutant: the loop goes on after a byte that differs.
match_lenNoBreak(base, addr) ==
    LET from[i \in 1 .. Len(addr) + 1] ==
            IF i > Len(addr) THEN 0 ELSE leading_zeros(base[i], addr[i]) + from[i + 1]
    IN  from[1]

\* match_len when the loop over the bytes ends: what it adds from byte i on.  It
\* leaves after the first byte that differs.
match_len(base, addr) ==
    LET from[i \in 1 .. Len(addr) + 1] ==
            IF i > Len(addr) THEN 0
            ELSE IF Differing(base[i], addr[i]) # {} THEN leading_zeros(base[i], addr[i])
            ELSE leading_zeros(base[i], addr[i]) + from[i + 1]
    IN  from[1]

matches(range, addr) ==
    /\ Len(range.base) = Len(addr)
    /\ match_len(range.base, addr) >= range.prefix_len
=============================================================================
