------------------------------ MODULE Reference ------------------------------
(***************************************************************************)
(* What the results of instructions mean, in sets of bits and in integers  *)
(* of any size, against which the arithmetic of module Alu is checked.     *)
(***************************************************************************)
EXTENDS Thumb, FiniteSetsExt

LOCAL Bits(x)     == {k \in 0 .. W - 1 : Bit(x, k) = 1}
LOCAL Number(set) == FoldSet(LAMBDA k, sum : sum + 2 ^ k, 0, set)
LOCAL AsInt(x)    == Signed(x, W)
LOCAL InRange(v)  == v >= -(2 ^ (W - 1)) /\ v < 2 ^ (W - 1)

(* A result with the flags it would set.                                   *)
LOCAL Result(r, c, v) == [r |-> r, c |-> c, v |-> v]

(* Sums and differences of words, as naturals and as integers.  C is the   *)
(* carry out, or the absence of a borrow.                                  *)
LOCAL SumOf(f, x, y, c) ==
  CASE f \in {"add", "cmn"} -> x + y
    [] f = "adc"            -> x + y + c
    [] f \in {"sub", "cmp"} -> x - y
    [] f = "sbc"            -> x - y - (1 - c)
    [] f = "rsb"            -> y - x

LOCAL Sum(f, x, y, c) ==
  LET nat == SumOf(f, x, y, c)
      int == SumOf(f, AsInt(x), AsInt(y), c)
  IN Result(nat % Size, Flag(IF f \in {"add", "cmn", "adc"} THEN nat >= Size ELSE nat >= 0),
            Flag(~InRange(int)))

LOCAL Logical(f, x, y) ==
  Number({k \in 0 .. W - 1 :
    LET a == k \in Bits(x)  b == k \in Bits(y)
    IN CASE f \in {"and", "tst"} -> a /\ b
         [] f = "orr" -> a \/ b
         [] f = "eor" -> a # b
         [] f = "bic" -> a /\ ~b
         [] f = "orn" -> a \/ ~b
         [] f = "mvn" -> ~b})

(* Bit k of a shifted word, and the last bit shifted out.                  *)
LOCAL Shift(ty, x, n, c) ==
  LET at(k) == CASE ty = "lsl" -> k - n \in Bits(x)
                 [] ty = "lsr" -> k + n \in Bits(x)
                 [] ty = "asr" -> (IF k + n < W THEN k + n ELSE W - 1) \in Bits(x)
                 [] ty = "ror" -> (k + n) % W \in Bits(x)
                 [] ty = "rrx" -> IF k = W - 1 THEN c = 1 ELSE k + 1 \in Bits(x)
      out == CASE ty = "lsl" -> W - n \in Bits(x)
               [] ty = "lsr" -> n - 1 \in Bits(x)
               [] ty = "asr" -> (IF n <= W THEN n - 1 ELSE W - 1) \in Bits(x)
               [] ty = "ror" -> (n - 1) % W \in Bits(x)
               [] ty = "rrx" -> 0 \in Bits(x)
  IN IF n = 0 THEN Result(x, c, 0)
     ELSE Result(Number({k \in 0 .. W - 1 : at(k)}), Flag(out), 0)

(* The results of the two operand groups, C and V kept where not set.      *)
LOCAL Operation(s, f, x, y, shifterC) ==
  IF f \in {"add", "cmn", "adc", "sub", "cmp", "sbc", "rsb"} THEN Sum(f, x, y, s.c)
  ELSE Result(Logical(f, x, y), shifterC, s.v)

LOCAL NarrowResult(s, i) ==
  CASE i.op = "add3" -> Sum("add", s.r[i.rn], s.r[i.rm], 0)
    [] i.op = "sub3" -> Sum("sub", s.r[i.rn], s.r[i.rm], 0)
    [] i.op = "addi" -> Sum("add", s.r[i.rn], i.imm, 0)
    [] i.op \in {"subi", "cmpi"} -> Sum("sub", s.r[i.rn], i.imm, 0)
    [] i.op = "shift" -> [Shift(i.f, s.r[i.rm], IF i.imm = 0 /\ i.f # "lsl" THEN W ELSE i.imm, s.c)
                          EXCEPT !.v = s.v]
    [] i.op = "alu" /\ i.f = "rsb" -> Sum("sub", 0, s.r[i.rm], 0)
    [] i.op = "alu" /\ i.f = "mul" -> Result((s.r[i.rd] * s.r[i.rm]) % Size, s.c, s.v)
    [] i.op = "alu" /\ i.f \in {"lsl", "lsr", "asr", "ror"} ->
         [Shift(i.f, s.r[i.rd], s.r[i.rm], s.c) EXCEPT !.v = s.v]
    [] OTHER -> Operation(s, i.f, s.r[i.rd], s.r[i.rm], s.c)

LOCAL NarrowOps == {"add3", "sub3", "addi", "subi", "cmpi", "shift", "alu"}
LOCAL Compares  == {"cmp", "cmn", "tst"}

LOCAL WideOperand(s, i) ==
  CASE i.op = "dpimm" -> IF "rot" \in DOMAIN i.imm
                         THEN Shift("ror", 2 ^ (Byte - 1) + i.imm.low, i.imm.rot, s.c)
                         ELSE Result(OfBytes([k \in 0 .. 3 |->
                                IF i.imm.pattern = 3 \/ (i.imm.pattern = 1 /\ k % 2 = 0)
                                   \/ (i.imm.pattern = 2 /\ k % 2 = 1) \/ (i.imm.pattern = 0 /\ k = 0)
                                THEN i.imm.byte ELSE 0]), s.c, 0)
    [] i.op = "dp" -> CASE i.imm = 0 /\ i.ty = "ror" -> Shift("rrx", s.r[i.rm], 1, s.c)
                        [] i.imm = 0 /\ i.ty \in {"lsr", "asr"} -> Shift(i.ty, s.r[i.rm], W, s.c)
                        [] OTHER -> Shift(i.ty, s.r[i.rm], i.imm, s.c)

LOCAL WideResult(s, i) ==
  IF i.op = "wshift" THEN [Shift(i.f, s.r[i.rn], s.r[i.rm], s.c) EXCEPT !.v = s.v]
  ELSE LET b == WideOperand(s, i)
       IN Operation(s, i.f, IF i.rn = PC THEN 0 ELSE s.r[i.rn], b.r, b.c)

LOCAL FlagsFit(t, res) == t.n = Top(res.r) /\ t.z = Flag(res.r = 0) /\ t.c = res.c /\ t.v = res.v

(* Lane arithmetic on integers; a GE flag is the sign or the carry.        *)
LOCAL LaneFits(i, a, b, r, ge, width, minus) ==
  LET val(x) == IF i.unsigned THEN x ELSE Signed(x, width)
      exact  == IF minus THEN val(a) - val(b) ELSE val(a) + val(b)
      size   == 2 ^ width
      limit  == IF i.unsigned THEN [lo |-> 0, hi |-> size - 1]
                ELSE [lo |-> -(size \div 2), hi |-> size \div 2 - 1]
  IN CASE i.modif = 0 -> /\ (r - exact) % size = 0
                         /\ ge = IF i.unsigned /\ ~minus THEN exact >= size ELSE exact >= 0
       [] i.modif = 1 -> IF exact \in limit.lo .. limit.hi THEN val(r) = exact
                         ELSE val(r) = IF exact < 0 THEN limit.lo ELSE limit.hi
       [] i.modif = 2 -> (exact - 2 * r) % (2 * size) \in {0, 1}

LOCAL ParallelFits(s, i, t) ==
  LET n == s.r[i.rn]  m == s.r[i.rm]  r == t.r[i.rd]
  IN IF i.f \in {"add8", "sub8"}
     THEN \A k \in 0 .. 3 : LaneFits(i, ByteOf(n, k), ByteOf(m, k), ByteOf(r, k), k \in t.ge,
                                     Byte, i.f = "sub8")
     ELSE \A k \in 0 .. 1 :
            LET crossed == i.f \in {"asx", "sax"}
                minus   == i.f = "sub16" \/ (i.f = "asx" /\ k = 0) \/ (i.f = "sax" /\ k = 1)
            IN LaneFits(i, HalfOf(n, k), HalfOf(m, IF crossed THEN 1 - k ELSE k), HalfOf(r, k),
                        2 * k \in t.ge, Half, minus)

(* Products by congruence and bounds, quotients by the division law.       *)
LOCAL MultiplyFits(s, i, t) ==
  LET x == s.r[i.rn]  y == s.r[i.rm]  r == t.r[i.rd]
      acc == IF i.ra = PC THEN 0 ELSE s.r[i.ra]
      double(v) == t.r[i.rd] * Size + t.r[i.ra] = v % (Size * Size)
      old == s.r[i.rd] * Size + s.r[i.ra]
      abs(v) == IF v < 0 THEN -v ELSE v
  IN CASE i.f = "mla"   -> (r - (x * y + acc)) % Size = 0
       [] i.f = "mls"   -> (r + (x * y - acc)) % Size = 0
       [] i.f = "smlaxy" -> (AsInt(r) - AsInt(acc) - Signed(HalfOf(x, i.hx), Half)
                              * Signed(HalfOf(y, i.hy), Half)) % Size = 0
       [] i.f = "umull" -> double(x * y)
       [] i.f = "smull" -> double(AsInt(x) * AsInt(y))
       [] i.f = "umlal" -> double(x * y + old)
       [] i.f = "smlal" -> double(AsInt(x) * AsInt(y) + old)
       [] i.f = "udiv"  -> IF y = 0 THEN r = 0 ELSE x - r * y \in 0 .. y - 1
       [] i.f = "sdiv"  -> IF y = 0 THEN r = 0
                           ELSE LET rest == AsInt(x) - AsInt(r) * AsInt(y)
                                IN \/ abs(rest) < abs(AsInt(y)) /\ rest * AsInt(x) >= 0
                                   \/ ~InRange(-AsInt(x)) /\ AsInt(y) = -1 /\ r = x
       [] OTHER -> TRUE

LOCAL Reordered(f, x, r) ==
  CASE f = "rbit"  -> Bits(r) = {W - 1 - k : k \in Bits(x)}
    [] f = "clz"   -> IF x = 0 THEN r = W ELSE W - 1 - r \in Bits(x) /\ \A k \in Bits(x) : k <= W - 1 - r
    [] f = "rev"   -> \A k \in 0 .. 3 : ByteOf(r, k) = ByteOf(x, 3 - k)
    [] f = "rev16" -> /\ ByteOf(r, 0) = ByteOf(x, 1) /\ ByteOf(r, 1) = ByteOf(x, 0)
                      /\ ByteOf(r, 2) = ByteOf(x, 3) /\ ByteOf(r, 3) = ByteOf(x, 2)
    [] f = "revsh" -> /\ ByteOf(r, 0) = ByteOf(x, 1) /\ ByteOf(r, 1) = ByteOf(x, 0)
                      /\ HalfOf(r, 1) = IF Bit(x, Byte - 1) = 1 THEN 2 ^ Half - 1 ELSE 0

LOCAL FieldFits(s, i, t) ==
  LET x == s.r[i.rn]  r == t.r[i.rd]
  IN CASE i.op = "bfx" -> \A k \in 0 .. W - 1 :
                            (k \in Bits(r)) = IF k < i.width THEN k + i.lsb \in Bits(x)
                                              ELSE i.signed /\ i.lsb + i.width - 1 \in Bits(x)
       [] i.op = "bfi" -> \A k \in 0 .. W - 1 :
                            (k \in Bits(r)) = IF k \in i.lsb .. i.msb /\ i.rn = PC THEN FALSE
                                              ELSE IF k \in i.lsb .. i.msb THEN k - i.lsb \in Bits(x)
                                              ELSE k \in Bits(s.r[i.rd])
       [] i.op = "sat" -> LET v  == IF i.asr THEN Shift("asr", x, i.amount, 0).r
                                    ELSE Shift("lsl", x, i.amount, 0).r
                              lo == IF i.unsigned THEN 0 ELSE -(2 ^ i.imm)
                              hi == 2 ^ i.imm - 1
                          IN /\ AsInt(v) \in lo .. hi => r = v /\ t.q = s.q
                             /\ AsInt(v) \notin lo .. hi =>
                                  t.q = 1 /\ r = (IF AsInt(v) < lo THEN lo ELSE hi) % Size

(* What instruction i may make of core s, t being the core after it.       *)
ResultFits(s, i, t) ==
  CASE i.op \in NarrowOps ->
         LET res == NarrowResult(s, i)
         IN /\ FlagsFit(t, res)
            /\ i.op = "cmpi" \/ (i.op = "alu" /\ i.f \in Compares) \/ t.r[i.rd] = res.r
    [] i.op \in {"dp", "dpimm", "wshift"} ->
         LET res == WideResult(s, i)
         IN /\ i.st => FlagsFit(t, res)
            /\ ~i.st => t.n = s.n /\ t.z = s.z /\ t.c = s.c /\ t.v = s.v
            /\ IF i.rd = PC THEN t.r[PC] = s.r[PC] + 4 ELSE t.r[i.rd] = res.r
    [] i.op = "par"   -> ParallelFits(s, i, t)
    [] i.op = "mul"   -> MultiplyFits(s, i, t)
    [] i.op = "rev"   -> Reordered(i.f, s.r[i.rm], t.r[i.rd])
    [] i.op = "wrev"  -> Reordered(i.f, s.r[i.rn], t.r[i.rd])
    [] i.op \in {"bfx", "bfi", "sat"} -> FieldFits(s, i, t)
    [] i.op = "ext"   -> \A k \in 0 .. W - 1 :
         (k \in Bits(t.r[i.rd])) = IF k < Byte * i.size THEN k \in Bits(s.r[i.rm])
                                   ELSE i.signed /\ Byte * i.size - 1 \in Bits(s.r[i.rm])
    [] OTHER -> TRUE
=============================================================================
