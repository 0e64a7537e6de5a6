------------------------------- MODULE Words --------------------------------
(***************************************************************************)
(* Machine words.  A word has W bits and four bytes, so a "byte" of the    *)
(* model has W / 4 bits; the code has W = 32.  Every width of the code     *)
(* that depends on the word (8, 16, 24, 31, 32) is written in terms of W.  *)
(***************************************************************************)
EXTENDS Integers, Bitwise

CONSTANT W      \* bits of a word

ASSUME WordAssumption == W \in Nat /\ W % 4 = 0 /\ W >= 8

Byte == W \div 4
Half == W \div 2
Size == 2 ^ W
Word == 0 .. Size - 1

Wrap(v)   == v % Size
Inv(x)    == Size - 1 - x
Bit(x, k) == (x \div 2 ^ k) % 2
Top(x)    == Bit(x, W - 1)
Low(x, n) == x % 2 ^ n

(* A truth value as a flag.                                                *)
Flag(p) == IF p THEN 1 ELSE 0

(* The low n bits of x as a two's complement number.                       *)
Signed(x, n) == LET l == Low(x, n) IN IF Bit(l, n - 1) = 1 THEN l - 2 ^ n ELSE l

SignExtend(x, n) == Wrap(Signed(x, n))

Rotated(x, n) == LET m == n % W IN Wrap(x * 2 ^ (W - m)) + x \div 2 ^ m

(* The fields of a word.                                                   *)
ByteOf(x, k)  == Low(x \div 2 ^ (Byte * k), Byte)
HalfOf(x, k)  == Low(x \div 2 ^ (Half * k), Half)
OfBytes(b)    == b[0] + b[1] * 2 ^ Byte + b[2] * 2 ^ (2 * Byte) + b[3] * 2 ^ (3 * Byte)
OfHalves(l, h) == l + h * 2 ^ Half
=============================================================================
