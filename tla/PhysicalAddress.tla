--------------------------- MODULE PhysicalAddress ---------------------------
(***************************************************************************)
(* CEC physical addresses: 16-bit numbers that the client reads and writes *)
(* as four hexadecimal groups, "a.b.c.d".  A text is the sequence of the   *)
(* numbers it starts with, of any size and sign; what ends the scan (no    *)
(* number, no dot, the end) and what follows is left out.                  *)
(***************************************************************************)
EXTENDS Integers, Sequences

CONSTANT IntModulus  \* the values of an int: 2^32 where int has 32 bits

ASSUME IntModulusAssumption == IntModulus \in Nat /\ IntModulus >= 32

Addresses == {n \in Nat : n < 65536}  \* uint16_t
Digits == 0..15

\* What %x stores in an int.  It is an unsigned conversion: a sign negates the
\* number modulo the width, and digits beyond the width are lost.
ToInt(n) ==
    LET m == n % IntModulus
    IN  IF 2 * m < IntModulus THEN m ELSE m - IntModulus

\* Mutant of parse_physical_addr: the groups are not checked, and the cast to
\* uint16_t cuts the result.
ParseUnchecked(text) ==
    IF Len(text) >= 4
    THEN (ToInt(text[1]) * 4096 + ToInt(text[2]) * 256
          + ToInt(text[3]) * 16 + ToInt(text[4])) % 65536
    ELSE -1

\* The address, or -1.
parse_physical_addr(text) ==
    LET g == [i \in 1..4 |-> ToInt(text[i])]
    IN  IF Len(text) >= 4 /\ \A i \in 1..4 : g[i] \in Digits
        THEN g[1] * 4096 + g[2] * 256 + g[3] * 16 + g[4]
        ELSE -1

\* snprintf(strAddr, 8, "%x.%x.%x.%x", ...): seven characters always.
Format(address) ==
    <<(address \div 4096) % 16, (address \div 256) % 16,
      (address \div 16) % 16, address % 16>>

=============================================================================
