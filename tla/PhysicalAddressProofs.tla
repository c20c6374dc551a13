------------------------ MODULE PhysicalAddressProofs ------------------------
(* Theorems about the conversion of physical addresses.                     *)
EXTENDS PhysicalAddress, SequenceTheorems, TLAPS

\* The elements of a sequence of four.
LEMMA FourElements ==
    ASSUME NEW S, NEW s \in Seq(S), Len(s) = 4, NEW i \in 1..4
    PROVE  s[i] \in S
  <1>1. i \in 1..Len(s)
    OBVIOUS
  <1> QED
    BY <1>1, ElementOfSeq

\* A group that fits in the positive half of an int is stored as it is.
LEMMA ToIntKeeps ==
    ASSUME NEW n \in Nat, 2 * n < IntModulus
    PROVE  ToInt(n) = n
  BY IntModulusAssumption DEF ToInt

\* An address has four digits, and they determine it.
LEMMA FormatDigits ==
    ASSUME NEW a \in Addresses
    PROVE  /\ Format(a) \in Seq(Digits)
           /\ Len(Format(a)) = 4
           /\ a = Format(a)[1] * 4096 + Format(a)[2] * 256
                  + Format(a)[3] * 16 + Format(a)[4]
  <1> DEFINE p == a \div 4096
             q == a \div 256
             r == a \div 16
  <1>1. p \in Digits /\ q \in Nat /\ r \in Nat
    BY DEF Addresses, Digits
  <1>2. a = r * 16 + (a % 16) /\ (a % 16) \in Digits
    BY DEF Addresses, Digits
  <1>3. r = q * 16 + (r % 16) /\ (r % 16) \in Digits
    BY DEF Addresses, Digits
  <1>4. q = p * 16 + (q % 16) /\ (q % 16) \in Digits
    BY DEF Addresses, Digits
  <1>5. p % 16 = p
    BY <1>1 DEF Digits
  <1>6. Format(a) = <<p, q % 16, r % 16, a % 16>>
    BY <1>5 DEF Format
  <1> HIDE DEF p, q, r
  <1>7. a = p * 4096 + (q % 16) * 256 + (r % 16) * 16 + (a % 16)
    <2> DEFINE x == q % 16
               y == r % 16
               z == a % 16
    <2>1. x \in Int /\ y \in Int /\ z \in Int /\ p \in Int /\ q \in Int /\ r \in Int
      BY <1>1, <1>2, <1>3, <1>4 DEF Digits
    <2>2. a = r * 16 + z /\ r = q * 16 + y /\ q = p * 16 + x
      BY <1>2, <1>3, <1>4
    <2> HIDE DEF x, y, z
    <2>3. a = p * 4096 + x * 256 + y * 16 + z
      BY <2>1, <2>2
    <2> QED
      BY <2>3 DEF x, y, z
  <1> QED
    BY <1>1, <1>2, <1>3, <1>4, <1>6, <1>7

\* Four digits make an address.
LEMMA SumFits ==
    ASSUME NEW a \in Digits, NEW b \in Digits, NEW c \in Digits, NEW d \in Digits
    PROVE  a * 4096 + b * 256 + c * 16 + d \in Addresses
  BY DEF Digits, Addresses

\* Formatting that address gives the digits back.
LEMMA FormatSum ==
    ASSUME NEW a \in Digits, NEW b \in Digits, NEW c \in Digits, NEW d \in Digits
    PROVE  Format(a * 4096 + b * 256 + c * 16 + d) = <<a, b, c, d>>
  <1> DEFINE n == a * 4096 + b * 256 + c * 16 + d
  <1>1. n \div 4096 = a /\ a % 16 = a
    BY DEF Digits
  <1>2. n \div 256 = a * 16 + b /\ (a * 16 + b) % 16 = b
    BY DEF Digits
  <1>3. n \div 16 = a * 256 + b * 16 + c /\ (a * 256 + b * 16 + c) % 16 = c
    BY DEF Digits
  <1>4. n % 16 = d
    BY DEF Digits
  <1> HIDE DEF n
  <1>5. Format(n) = <<a, b, c, d>>
    BY <1>1, <1>2, <1>3, <1>4 DEF Format
  <1> QED
    BY <1>5 DEF n

\* parse_physical_addr returns -1 or an address of 16 bits, whatever the text
\* is: the casts to uint16_t in set_physical_addr and set_stream_path lose
\* nothing.
THEOREM ParseFits ==
    ASSUME NEW text \in Seq(Int)
    PROVE  parse_physical_addr(text) \in Addresses \cup {-1}
  <1> DEFINE g == [i \in 1..4 |-> ToInt(text[i])]
  <1>1. CASE Len(text) >= 4 /\ \A i \in 1..4 : g[i] \in Digits
    <2>1. /\ g[1] \in Digits /\ g[2] \in Digits
          /\ g[3] \in Digits /\ g[4] \in Digits
      BY <1>1
    <2>2. parse_physical_addr(text) = g[1] * 4096 + g[2] * 256 + g[3] * 16 + g[4]
      BY <1>1 DEF parse_physical_addr
    <2> HIDE DEF g
    <2> QED
      BY <2>1, <2>2, SumFits
  <1>2. CASE ~(Len(text) >= 4 /\ \A i \in 1..4 : g[i] \in Digits)
    BY <1>2 DEF parse_physical_addr
  <1> QED
    BY <1>1, <1>2

\* Every address that physical_address shows is accepted by set_physical_addr
\* and means the same address there.
THEOREM ParseFormat ==
    ASSUME NEW a \in Addresses
    PROVE  parse_physical_addr(Format(a)) = a
  <1> DEFINE f == Format(a)
  <1>1. f \in Seq(Digits) /\ Len(f) = 4
    BY FormatDigits
  <1>2. \A i \in 1..4 : f[i] \in Digits
    <2> HIDE DEF f
    <2> QED
      BY <1>1, FourElements
  <1>3. \A i \in 1..4 : ToInt(f[i]) = f[i]
    BY <1>2, ToIntKeeps, IntModulusAssumption DEF Digits
  <1>4. parse_physical_addr(f) = f[1] * 4096 + f[2] * 256 + f[3] * 16 + f[4]
    <2> HIDE DEF f
    <2> QED
      BY <1>1, <1>2, <1>3 DEF parse_physical_addr
  <1> QED
    BY <1>4, FormatDigits

\* A text of four groups that fit in an int is accepted only if it is an
\* address, and the address is then shown as it was written.
THEOREM FormatParse ==
    ASSUME NEW text \in Seq(Nat), Len(text) = 4,
           \A i \in 1..4 : 2 * text[i] < IntModulus,
           parse_physical_addr(text) # -1
    PROVE  Format(parse_physical_addr(text)) = text
  <1>1. \A i \in 1..4 : text[i] \in Nat /\ ToInt(text[i]) = text[i]
    <2>1. \A i \in 1..4 : text[i] \in Nat
      BY FourElements
    <2> QED
      BY <2>1, ToIntKeeps
  <1>2. /\ \A i \in 1..4 : text[i] \in Digits
        /\ parse_physical_addr(text)
             = text[1] * 4096 + text[2] * 256 + text[3] * 16 + text[4]
    BY <1>1 DEF parse_physical_addr
  <1>3. /\ text[1] \in Digits /\ text[2] \in Digits
        /\ text[3] \in Digits /\ text[4] \in Digits
    BY <1>2
  <1>4. Format(parse_physical_addr(text)) = <<text[1], text[2], text[3], text[4]>>
    BY <1>2, <1>3, FormatSum
  <1>5. text = <<text[1], text[2], text[3], text[4]>>
    OBVIOUS
  <1> QED
    BY <1>4, <1>5

=============================================================================
