-------------------------------- MODULE Alu ---------------------------------
(***************************************************************************)
(* The arithmetic of the executors in src/src/cortex_m/mod.rs and wide.rs, *)
(* as the code computes it.  Flags are 0 or 1.                             *)
(***************************************************************************)
EXTENDS Words, FiniteSets

(***************************************************************************)
(* Additions and shifts                                                    *)
(***************************************************************************)

(* Mutant of AddWithCarry: the carry of the second addition is dropped.    *)
AddWithoutSecondCarry(x, y, carry) ==
  LET r == Wrap(x + y + carry)
  IN [r |-> r, c |-> Flag(x + y >= Size), v |-> Top((x ^^ r) & (y ^^ r))]

AddWithCarry(x, y, carry) ==
  LET r1 == Wrap(x + y)
      r  == Wrap(r1 + carry)
  IN [r |-> r, c |-> Flag(x + y >= Size \/ r1 + carry >= Size),
      v |-> Top((x ^^ r) & (y ^^ r))]

(* lsl_c, lsr_c, asr_c and ror_c of the 16-bit executor.                   *)
NarrowShift(ty, x, n, carry) ==
  IF n = 0 THEN [r |-> x, c |-> carry]
  ELSE CASE ty = "lsl" -> IF n < W THEN [r |-> Wrap(x * 2 ^ n), c |-> Bit(x, W - n)]
                          ELSE [r |-> 0, c |-> Flag(n = W /\ Bit(x, 0) = 1)]
         [] ty = "lsr" -> IF n < W THEN [r |-> x \div 2 ^ n, c |-> Bit(x, n - 1)]
                          ELSE [r |-> 0, c |-> Flag(n = W /\ Top(x) = 1)]
         [] ty = "asr" -> IF n < W THEN [r |-> Wrap(Signed(x, W) \div 2 ^ n), c |-> Bit(x, n - 1)]
                          ELSE [r |-> Wrap(-Top(x)), c |-> Top(x)]
         [] ty = "ror" -> LET r == Rotated(x, n) IN [r |-> r, c |-> Top(r)]

(* Shift_C of the 32-bit executor.                                         *)
ShiftC(ty, x, n, carry) ==
  CASE ty = "rrx" -> [r |-> carry * 2 ^ (W - 1) + x \div 2, c |-> Bit(x, 0)]
    [] ty = "ror" /\ n > 0 /\ n % W = 0 -> [r |-> x, c |-> Top(x)]
    [] OTHER -> NarrowShift(ty, x, n, carry)

(* DecodeImmShift: an immediate amount of 0 stands for W, or RRX.          *)
DecodeImmShift(ty, imm) ==
  CASE imm > 0 \/ ty = "lsl"  -> <<ty, imm>>
    [] imm = 0 /\ ty = "ror" -> <<"rrx", 1>>
    [] OTHER                 -> <<ty, W>>

(* ThumbExpandImm_C: a byte repeated in one of four patterns, or a byte    *)
(* with its top bit set, rotated.                                          *)
Expand(imm, carry) ==
  IF "rot" \in DOMAIN imm
  THEN LET r == Rotated(2 ^ (Byte - 1) + imm.low, imm.rot) IN [r |-> r, c |-> Top(r)]
  ELSE [r |-> LET b == imm.byte
                  at == << {0}, {0, 2}, {1, 3}, {0, 1, 2, 3} >>[imm.pattern + 1]
              IN OfBytes([k \in 0 .. 3 |-> IF k \in at THEN b ELSE 0]),
        c |-> carry]

(***************************************************************************)
(* Lanes, saturation, bit fields                                           *)
(***************************************************************************)
Clamp(v, lo, hi) == IF v < lo THEN lo ELSE IF v > hi THEN hi ELSE v

(* lane_add_sub: modif 0 is plain, 1 saturates, 2 halves.                  *)
LaneAddSub(a, b, width, unsigned, sub, modif) ==
  LET top == 2 ^ width - 1
      val(x) == IF unsigned THEN x ELSE Signed(x, width)
      raw == IF sub THEN val(a) - val(b) ELSE val(a) + val(b)
      ge  == IF unsigned /\ ~sub THEN raw > top ELSE raw >= 0
      out == CASE modif = 1 -> IF unsigned THEN Clamp(raw, 0, top)
                               ELSE Clamp(raw, -(top \div 2) - 1, top \div 2)
               [] modif = 2 -> raw \div 2
               [] OTHER     -> raw
  IN [r |-> out % (top + 1), ge |-> ge]

(* parallel_add_sub: four byte lanes, or two halfword lanes of which ASX   *)
(* and SAX cross the second operand.  ge has one bit for each byte.        *)
ParallelAddSub(f, unsigned, modif, n, m) ==
  IF f \in {"add8", "sub8"}
  THEN LET lane == [k \in 0 .. 3 |->
                     LaneAddSub(ByteOf(n, k), ByteOf(m, k), Byte, unsigned, f = "sub8", modif)]
       IN [r |-> OfBytes([k \in 0 .. 3 |-> lane[k].r]), ge |-> {k \in 0 .. 3 : lane[k].ge}]
  ELSE LET sub(k) == f = "sub16" \/ <<f, k>> \in {<<"asx", 0>>, <<"sax", 1>>}
           other(k) == IF f \in {"asx", "sax"} THEN 1 - k ELSE k
           lane == [k \in 0 .. 1 |-> LaneAddSub(HalfOf(n, k), HalfOf(m, other(k)), Half,
                                                unsigned, sub(k), modif)]
       IN [r |-> OfHalves(lane[0].r, lane[1].r), ge |-> {k \in 0 .. 3 : lane[k \div 2].ge}]

(* SSAT and USAT: the shifted operand, saturated; q reports a saturation.  *)
Saturate(x, unsigned, asr, amount, imm) ==
  LET v == IF asr THEN Signed(x, W) \div 2 ^ amount ELSE Signed(Wrap(x * 2 ^ amount), W)
      s == Clamp(v, IF unsigned THEN 0 ELSE -(2 ^ imm), 2 ^ imm - 1)
  IN [r |-> Wrap(s), q |-> Flag(s # v)]

(* SBFX and UBFX, BFI and BFC.                                             *)
Extract(x, lsb, width, signed) ==
  LET v == Low(x \div 2 ^ lsb, width)
  IN IF signed THEN Wrap((v ^^ (2 ^ (width - 1))) - 2 ^ (width - 1)) ELSE v

Insert(x, field, lsb, width) ==
  (x & Inv(Wrap((2 ^ width - 1) * 2 ^ lsb))) + Wrap(Low(field, width) * 2 ^ lsb)

(* REV, REV16, REVSH, RBIT and CLZ.                                        *)
Reversed(f, x) ==
  CASE f = "rev"   -> OfBytes([k \in 0 .. 3 |-> ByteOf(x, 3 - k)])
    [] f = "rev16" -> OfBytes([k \in 0 .. 3 |-> ByteOf(x, 2 * (k \div 2) + (1 - (k % 2)))])
    [] f = "revsh" -> SignExtend(ByteOf(x, 0) * 2 ^ Byte + ByteOf(x, 1), Half)
    [] f = "rbit"  -> LET b[k \in 0 .. W] == IF k = 0 THEN 0 ELSE 2 * b[k - 1] + Bit(x, k - 1)
                      IN b[W]
    [] f = "clz"   -> Cardinality({k \in 0 .. W - 1 : x < 2 ^ k})

(***************************************************************************)
(* Multiplication and division                                             *)
(***************************************************************************)

(* Halfword k of x, signed.                                                *)
SignedHalf(x, k) == Signed(HalfOf(x, k), Half)

(* The instructions with one result.  acc is Ra, or 0 where Ra is PC; hx   *)
(* and hy choose halfwords, round adds half a unit of the result.          *)
Product(f, x, y, acc, hx, hy, round) ==
  LET sx == Signed(x, W)  sy == Signed(y, W)
      half == IF round THEN 2 ^ (W - 1) ELSE 0
  IN CASE f = "mla"   -> Wrap(x * y + acc)
       [] f = "mls"   -> Wrap(acc - x * y)
       [] f = "smlaxy" -> Wrap(SignedHalf(x, hx) * SignedHalf(y, hy) + acc)
       [] f = "smlawy" -> Wrap((sx * SignedHalf(y, hy)) \div 2 ^ Half + acc)
       [] f = "smmla" -> Wrap((acc * Size + sx * sy + half) \div Size)
       [] f = "smmls" -> Wrap((acc * Size - sx * sy + half) \div Size)

(* The long multiplications: the sum of the product and hi:lo, modulo 2W   *)
(* bits.                                                                   *)
LongProduct(f, x, y, hi, lo) ==
  LET p == IF f \in {"smull", "smlal"} THEN Signed(x, W) * Signed(y, W) ELSE x * y
      v == IF f \in {"smlal", "umlal"} THEN p + hi * Size + lo ELSE p
  IN [lo |-> Wrap(v), hi |-> Wrap(v \div Size)]

(* SDIV truncates towards zero and wraps -2^(W-1) / -1; a zero divisor     *)
(* gives 0.                                                                *)
Quotient(signed, x, y) ==
  LET a == IF signed THEN Signed(x, W) ELSE x
      b == IF signed THEN Signed(y, W) ELSE y
      abs(k) == IF k < 0 THEN -k ELSE k
      q == abs(a) \div abs(b)
  IN IF y = 0 THEN 0 ELSE Wrap(IF (a < 0) = (b < 0) THEN q ELSE -q)
=============================================================================
