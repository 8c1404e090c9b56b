------------------------------- MODULE Base62 --------------------------------
(***************************************************************************)
(* The text form of keys and beacons, to_base62 and from_base62 of         *)
(* src/util.rs.  Both keep a little-endian number in a buffer, multiply it *)
(* and add the next digit of the input.  A character is its value below 62.*)
(***************************************************************************)
EXTENDS Integers, Sequences, Option

CONSTANT KEY_LEN          \* bytes of a private or a public key, 32 in the code

ASSUME Base62Assumption == KEY_LEN \in Nat \ {0}

Reversed(s) == [i \in 1 .. Len(s) |-> s[Len(s) + 1 - i]]

\* Mutant: the carry is lost.
MultAddNoCarry(buf, base, factor, digit) ==
    IF buf = <<>> THEN <<digit>>
    ELSE [i \in 1 .. Len(buf) |-> ((IF i = 1 THEN digit ELSE 0) + buf[i] * factor) % base]

\* The buffer times the factor plus the digit; a carry adds a place.  d[i] is
\* what the loop carries on from the i-th item.
MultAdd(buf, base, factor, digit) ==
    LET d[i \in 0 .. Len(buf)] ==
            IF i = 0 THEN digit ELSE (d[i - 1] + buf[i] * factor) \div base
        items == [i \in 1 .. Len(buf) |-> (d[i - 1] + buf[i] * factor) % base]
    IN  IF d[Len(buf)] > 0 THEN Append(items, d[Len(buf)]) ELSE items

base62_add_mult_16(buf, m) == MultAdd(buf, 62, 16, m)

to_base62(data) ==
    LET buf[i \in 0 .. Len(data)] ==
            IF i = 0 THEN <<>>
            ELSE base62_add_mult_16(base62_add_mult_16(buf[i - 1], data[i] \div 16), data[i] % 16)
    IN  Reversed(buf[Len(data)])

from_base62(text) ==
    LET buf[i \in 0 .. Len(text)] ==
            IF i = 0 THEN <<>> ELSE MultAdd(buf[i - 1], 256, 62, text[i])
    IN  Reversed(buf[Len(text)])

-----------------------------------------------------------------------------
(* Keys.                                                                    *)

\* generate_keypair prints either half of a key pair.
generate_key(key) == to_base62(key)

\* parse_private_key, parse_public_key: anything but KEY_LEN bytes is refused.
parse_key(text) == IF Len(from_base62(text)) = KEY_LEN THEN from_base62(text) ELSE Absent

\* The number that digits, most significant first, stand for.
ValueOf(digits, base) ==
    LET n[i \in 0 .. Len(digits)] == IF i = 0 THEN 0 ELSE n[i - 1] * base + digits[i]
    IN  n[Len(digits)]
=============================================================================
