------------------------------- MODULE Words --------------------------------
(***************************************************************************)
(* Fixed width arithmetic for the instruction modules.  A byte has B bits, *)
(* so that a halfword has 2B, a word 4B and a double word 8B bits: B = 8   *)
(* is the machine, and B = 1 keeps every carry, sign and byte lane apart.  *)
(***************************************************************************)
EXTENDS Integers, Bitwise

CONSTANT B

Byte == 2 ^ B
Half == 2 ^ (2 * B)
Word == 2 ^ (4 * B)
Dword == 2 ^ (8 * B)

\* The two's complement reading of v as a number of m values.
Signed(v, m) == IF v >= m \div 2 THEN v - m ELSE v
Msb(v, m) == (2 * v) \div m
Bool(b) == IF b THEN 1 ELSE 0

\* C division truncates towards zero.
Abs(v) == IF v < 0 THEN -v ELSE v
Quot(a, b) == IF (a < 0) = (b < 0) THEN Abs(a) \div Abs(b) ELSE -(Abs(a) \div Abs(b))
Rem(a, b) == a - b * Quot(a, b)

\* n bytes of memory at a, least significant byte first.
LoadLE(mem, a, n) ==
    LET s[k \in 0 .. n] == IF k = 0 THEN 0 ELSE s[k - 1] + mem[a + k - 1] * Byte ^ (k - 1)
    IN s[n]
StoreLE(mem, a, n, v) ==
    [p \in DOMAIN mem |-> IF p \in a .. a + n - 1 THEN (v \div Byte ^ (p - a)) % Byte ELSE mem[p]]

\* The same, most significant byte first.
LoadBE(mem, a, n) ==
    LET s[k \in 0 .. n] == IF k = 0 THEN 0 ELSE s[k - 1] * Byte + mem[a + k - 1]
    IN s[n]
StoreBE(mem, a, n, v) ==
    [p \in DOMAIN mem |-> IF p \in a .. a + n - 1
                          THEN (v \div Byte ^ (a + n - 1 - p)) % Byte ELSE mem[p]]
=============================================================================
