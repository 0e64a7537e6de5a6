------------------------------- MODULE Thumb --------------------------------
(***************************************************************************)
(* The instruction executors of src/src/cortex_m/mod.rs (16-bit) and       *)
(* wide.rs (32-bit).                                                       *)
(*                                                                         *)
(* A core is a record: registers r, flags n z c v q ge, ITSTATE it,        *)
(* primask, ipsr, the queued EXC_RETURN ret (0 for none), break_cause brk  *)
(* and the data memory mem it reaches.  An instruction is a record of the  *)
(* operands its encoding names; op is the group the executor's match       *)
(* selects, f a choice within it.  An executor maps a core whose PC is     *)
(* already past the instruction to the core after it; pc4 is the address   *)
(* of the instruction plus 4.  SVC, MRS and MSR of the other special       *)
(* registers are in module Exceptions; the FPU is not modelled.            *)
(***************************************************************************)
EXTENDS Alu

SP == 13
LR == 14
PC == 15
NoReg == 16         \* destination of a compare, base of "no register"

(* Branch targets from here up are EXC_RETURN values: 0xFFxxxxxx.          *)
ExcReturnBase == Size - 2 ^ (W - Byte)

(***************************************************************************)
(* Registers, flags, memory                                                *)
(***************************************************************************)
SetReg(s, d, v) == IF d = NoReg THEN s ELSE [s EXCEPT !.r[d] = v]
WithNZ(s, v)    == [s EXCEPT !.n = Top(v), !.z = Flag(v = 0)]

(* A result that sets N and Z where sf.                                    *)
Moved(s, d, v, sf) == SetReg(IF sf THEN WithNZ(s, v) ELSE s, d, v)

AddUpdate(s, d, x, y, carry, sf) ==
  LET a == AddWithCarry(x, y, carry)
      t == IF sf THEN [WithNZ(s, a.r) EXCEPT !.c = a.c, !.v = a.v] ELSE s
  IN SetReg(t, d, a.r)

Shifted(s, d, ty, x, n, sf) ==
  LET t == NarrowShift(ty, x, n, s.c)
  IN Moved([s EXCEPT !.c = IF sf THEN t.c ELSE @], d, t.r, sf)

(* Condition codes in the order of their encoding.                         *)
CondPassed(s, cc) ==
  LET base == CASE cc \div 2 = 0 -> s.z = 1
                [] cc \div 2 = 1 -> s.c = 1
                [] cc \div 2 = 2 -> s.n = 1
                [] cc \div 2 = 3 -> s.v = 1
                [] cc \div 2 = 4 -> s.c = 1 /\ s.z = 0
                [] cc \div 2 = 5 -> s.n = s.v
                [] cc \div 2 = 6 -> s.n = s.v /\ s.z = 0
                [] OTHER         -> TRUE
  IN IF cc % 2 = 1 /\ cc # 15 THEN ~base ELSE base

(* The conditions of IT cond, mask: the lowest set bit of mask ends the    *)
(* list, every bit above it replaces the lowest bit of cond.               *)
Listed(cond, mask) ==
  LET last == CHOOSE k \in 0 .. 3 : Bit(mask, k) = 1 /\ mask % 2 ^ k = 0
  IN [j \in 1 .. 4 - last |-> IF j = 1 THEN cond ELSE 2 * (cond \div 2) + Bit(mask, 5 - j)]

(* Cells outside the modelled memory read as 0 and ignore writes.          *)
Cell(mem, a) == IF a \in DOMAIN mem THEN mem[a] ELSE 0

Read(mem, a, size) ==
  LET cell(k) == IF k < size THEN Cell(mem, Wrap(a + k)) ELSE 0
  IN OfBytes([k \in 0 .. 3 |-> cell(k)])

Written(mem, a, size, v) ==
  [x \in DOMAIN mem |-> LET k == Wrap(x - a) IN IF k < size THEN ByteOf(v, k) ELSE mem[x]]

Load(s, d, a, size, signed) ==
  LET v == Read(s.mem, a, size)
  IN SetReg(s, d, IF signed THEN SignExtend(v, Byte * size) ELSE v)

Store(s, a, size, v) == [s EXCEPT !.mem = Written(@, a, size, v)]

(* Registers of a list, lowest at the lowest address.                      *)
Rank(list, k) == Cardinality({j \in list : j < k})

LoadedList(s, a, list) ==
  [s EXCEPT !.r = [k \in DOMAIN @ |-> IF k \in list
                                      THEN Read(s.mem, Wrap(a + 4 * Rank(list, k)), 4)
                                      ELSE @[k]]]

StoredList(s, a, list) ==
  [s EXCEPT !.mem = [x \in DOMAIN @ |->
     LET k == Wrap(x - a)
     IN IF k < 4 * Cardinality(list)
        THEN ByteOf(s.r[CHOOSE j \in list : Rank(list, j) = k \div 4], k % 4)
        ELSE @[x]]]

Aligned(a) == a - (a % 4)
Even(a)    == a - (a % 2)

Jump(s, a) == [s EXCEPT !.r[PC] = Wrap(a)]

(* Mutant of BranchInterworking: EXC_RETURN values are taken in any mode.  *)
BranchInterworkingAnywhere(s, target) ==
  [s EXCEPT !.r[PC] = Even(target), !.ret = IF target >= ExcReturnBase THEN target ELSE @]

(* BX, BLX, POP and LDR into PC: bit 0 is dropped, and in a handler an     *)
(* EXC_RETURN value is queued for the next step.                           *)
BranchInterworking(s, target) ==
  [s EXCEPT !.r[PC] = Even(target),
            !.ret = IF target >= ExcReturnBase /\ s.ipsr # 0 THEN target ELSE @]

(* Reads of PC as an operand.                                              *)
RegPc(s, k, pc4) == IF k = PC THEN pc4 ELSE s.r[k]

(* Register-controlled shifts use the low byte of the register.            *)
ShiftAmount(y) == y % 256

(***************************************************************************)
(* 16-bit instructions                                                     *)
(***************************************************************************)

(* Data processing on two low registers.                                   *)
NarrowAlu(s, f, d, m, sf) ==
  LET x == s.r[d]  y == s.r[m]
  IN CASE f = "and" -> Moved(s, d, x & y, sf)
       [] f = "eor" -> Moved(s, d, x ^^ y, sf)
       [] f \in {"lsl", "lsr", "asr", "ror"} -> Shifted(s, d, f, x, ShiftAmount(y), sf)
       [] f = "adc" -> AddUpdate(s, d, x, y, s.c, sf)
       [] f = "sbc" -> AddUpdate(s, d, x, Inv(y), s.c, sf)
       [] f = "rsb" -> AddUpdate(s, d, Inv(y), 0, 1, sf)
       [] f = "tst" -> WithNZ(s, x & y)
       [] f = "cmp" -> AddUpdate(s, NoReg, x, Inv(y), 1, TRUE)
       [] f = "cmn" -> AddUpdate(s, NoReg, x, y, 0, TRUE)
       [] f = "orr" -> Moved(s, d, x | y, sf)
       [] f = "mul" -> Moved(s, d, Wrap(x * y), sf)
       [] f = "bic" -> Moved(s, d, x & Inv(y), sf)
       [] f = "mvn" -> Moved(s, d, Inv(y), sf)

(* exec_misc: the 0xBxxx block.                                            *)
ExecMisc(s, i, inIt) ==
  CASE i.op = "spimm" -> SetReg(s, SP, Wrap(s.r[SP] + i.imm))
    [] i.op = "cbz"   -> IF (s.r[i.rn] = 0) # i.nonzero THEN Jump(s, s.r[PC] + 2 + i.imm) ELSE s
    [] i.op = "ext"   -> SetReg(s, i.rd, IF i.signed THEN SignExtend(s.r[i.rm], Byte * i.size)
                                         ELSE Low(s.r[i.rm], Byte * i.size))
    [] i.op = "rev"   -> SetReg(s, i.rd, Reversed(i.f, s.r[i.rm]))
    [] i.op = "push"  -> LET a == Wrap(s.r[SP] - 4 * Cardinality(i.list))
                         IN StoredList(SetReg(s, SP, a), a, i.list)
    [] i.op = "pop"   -> LET a == s.r[SP]
                             t == SetReg(LoadedList(s, a, i.list \ {PC}), SP,
                                         Wrap(a + 4 * Cardinality(i.list)))
                         IN IF PC \in i.list
                            THEN BranchInterworking(t, Read(s.mem, Wrap(a + 4 * Rank(i.list, PC)), 4))
                            ELSE t
    [] i.op = "cps"   -> [s EXCEPT !.primask = i.disable]
    [] i.op = "bkpt"  -> [s EXCEPT !.brk = "bkpt"]
    [] i.op = "it"    -> IF inIt THEN s ELSE [s EXCEPT !.it = 16 * i.cond + i.mask]
    [] i.op = "hint"  -> s

(* Shifts by an immediate, additions, moves and compares.                  *)
NarrowImmediate(s, i, sf) ==
  CASE i.op = "shift" -> Shifted(s, i.rd, i.f, s.r[i.rm],
                                 IF i.imm = 0 /\ i.f # "lsl" THEN W ELSE i.imm, sf)
    [] i.op = "add3"  -> AddUpdate(s, i.rd, s.r[i.rn], s.r[i.rm], 0, sf)
    [] i.op = "sub3"  -> AddUpdate(s, i.rd, s.r[i.rn], Inv(s.r[i.rm]), 1, sf)
    [] i.op = "addi"  -> AddUpdate(s, i.rd, s.r[i.rn], i.imm, 0, sf)
    [] i.op = "subi"  -> AddUpdate(s, i.rd, s.r[i.rn], Inv(i.imm), 1, sf)
    [] i.op = "movi"  -> Moved(s, i.rd, i.imm, sf)
    [] i.op = "cmpi"  -> AddUpdate(s, NoReg, s.r[i.rn], Inv(i.imm), 1, TRUE)

(* exec_narrow.  Flags are set outside IT blocks only, compares excepted.  *)
ExecNarrow(s, i, pc4, inIt) ==
  LET addr == Wrap(s.r[i.rn] + i.imm)
  IN CASE i.op \in {"shift", "add3", "sub3", "addi", "subi", "movi", "cmpi"} ->
            NarrowImmediate(s, i, ~inIt)
       [] i.op = "alu"   -> NarrowAlu(s, i.f, i.rd, i.rm, ~inIt)
       [] i.op = "addhi" -> LET v == Wrap(RegPc(s, i.rd, pc4) + RegPc(s, i.rm, pc4))
                            IN SetReg(s, i.rd, IF i.rd = PC THEN Even(v) ELSE v)
       [] i.op = "cmphi" -> AddUpdate(s, NoReg, RegPc(s, i.rd, pc4), Inv(RegPc(s, i.rm, pc4)), 1, TRUE)
       [] i.op = "movhi" -> LET v == RegPc(s, i.rm, pc4)
                            IN SetReg(s, i.rd, IF i.rd = PC THEN Even(v) ELSE v)
       [] i.op = "bx"    -> BranchInterworking(IF i.link THEN SetReg(s, LR, s.r[PC] + 1) ELSE s,
                                               RegPc(s, i.rm, pc4))
       [] i.op = "ldrlit" -> Load(s, i.rd, Wrap(Aligned(pc4) + i.imm), 4, FALSE)
       [] i.op = "ldrreg" -> Load(s, i.rd, Wrap(s.r[i.rn] + s.r[i.rm]), i.size, i.signed)
       [] i.op = "strreg" -> Store(s, Wrap(s.r[i.rn] + s.r[i.rm]), i.size, s.r[i.rd])
       [] i.op = "ldr"   -> Load(s, i.rd, addr, i.size, FALSE)
       [] i.op = "str"   -> Store(s, addr, i.size, s.r[i.rd])
       [] i.op = "adr"   -> SetReg(s, i.rd, Wrap(Aligned(pc4) + i.imm))
       [] i.op = "addsp" -> SetReg(s, i.rd, Wrap(s.r[SP] + i.imm))
       [] i.op = "ldm"   -> LET t == LoadedList(s, s.r[i.rn], i.list)
                            IN IF i.rn \in i.list THEN t
                               ELSE SetReg(t, i.rn, Wrap(s.r[i.rn] + 4 * Cardinality(i.list)))
       [] i.op = "stm"   -> SetReg(StoredList(s, s.r[i.rn], i.list), i.rn,
                                   Wrap(s.r[i.rn] + 4 * Cardinality(i.list)))
       [] i.op = "udf"   -> [s EXCEPT !.brk = "udf"]
       [] i.op = "bcond" -> IF CondPassed(s, i.cc) THEN Jump(s, pc4 + i.imm) ELSE s
       [] i.op = "b"     -> Jump(s, pc4 + i.imm)
       [] OTHER          -> ExecMisc(s, i, inIt)

(***************************************************************************)
(* 32-bit instructions                                                     *)
(***************************************************************************)

(* dp_op: logical results take C from the shifter.  With Rd = PC and the   *)
(* flags set, AND, EOR, ADD and SUB are TST, TEQ, CMN and CMP.             *)
DpOp(s, f, x, operand, shifterC, d, st) ==
  LET dest == IF d = PC /\ st /\ f \in {"and", "eor", "add", "sub"} THEN NoReg ELSE d
      logic(v) == Moved([s EXCEPT !.c = IF st THEN shifterC ELSE @], dest, v, st)
  IN CASE f = "and" -> logic(x & operand)
       [] f = "bic" -> logic(x & Inv(operand))
       [] f = "orr" -> logic(x | operand)
       [] f = "orn" -> logic(x | Inv(operand))
       [] f = "eor" -> logic(x ^^ operand)
       [] f = "add" -> AddUpdate(s, dest, x, operand, 0, st)
       [] f = "adc" -> AddUpdate(s, dest, x, operand, s.c, st)
       [] f = "sbc" -> AddUpdate(s, dest, x, Inv(operand), s.c, st)
       [] f = "sub" -> AddUpdate(s, dest, x, Inv(operand), 1, st)
       [] f = "rsb" -> AddUpdate(s, dest, Inv(x), operand, 1, st)

(* Data processing on a shifted register; Rn = PC is 0 in MOV and MVN.     *)
DpShifted(s, i, pc4) ==
  LET a == DecodeImmShift(i.ty, i.imm)
      t == ShiftC(a[1], s.r[i.rm], a[2], s.c)
      x == IF i.rn = PC /\ i.f \in {"orr", "orn"} THEN 0 ELSE RegPc(s, i.rn, pc4)
  IN DpOp(s, i.f, x, t.r, t.c, i.rd, i.st)

DpImmediate(s, i) ==
  LET e == Expand(i.imm, s.c)
  IN DpOp(s, i.f, IF i.rn = PC THEN 0 ELSE s.r[i.rn], e.r, e.c, i.rd, i.st)

(* TBB and TBH.                                                            *)
TableBranch(s, i, pc4) ==
  Jump(s, pc4 + 2 * Read(s.mem, Wrap(RegPc(s, i.rn, pc4) + i.size * s.r[i.rm]), i.size))

(* Exclusive and acquire loads are loads.                                  *)
LoadExclusive(s, i) == Load(s, i.rd, Wrap(s.r[i.rn] + i.imm), i.size, FALSE)

(* Exclusive and release stores always succeed; rs receives the status.    *)
StoreExclusive(s, i) ==
  SetReg(Store(s, Wrap(s.r[i.rn] + i.imm), i.size, s.r[i.rd]), i.rs, 0)

(* LDRD and STRD: index, direction, write-back.                            *)
Dual(s, i, pc4) ==
  LET base   == IF i.rn = PC THEN Aligned(pc4) ELSE s.r[i.rn]
      offset == Wrap(base + i.imm)
      a      == IF i.p THEN offset ELSE base
      wb(t)  == IF i.w /\ i.rn # PC THEN SetReg(t, i.rn, offset) ELSE t
  IN IF i.load
     THEN SetReg(SetReg(wb(s), i.rd, Read(s.mem, a, 4)), i.rd2, Read(s.mem, Wrap(a + 4), 4))
     ELSE wb(Store(Store(s, a, 4, s.r[i.rd]), Wrap(a + 4), 4, s.r[i.rd2]))

(* LDM and STM, increment after or decrement before.                       *)
Multiple(s, i) ==
  LET count == 4 * Cardinality(i.list)
      base  == s.r[i.rn]
      a     == IF i.db THEN Wrap(base - count) ELSE base
      wb(t) == IF i.w THEN SetReg(t, i.rn, IF i.db THEN a ELSE Wrap(base + count)) ELSE t
      t     == LoadedList(IF i.rn \in i.list THEN s ELSE wb(s), a, i.list \ {PC})
  IN IF ~i.load THEN wb(StoredList(s, a, i.list))
     ELSE IF PC \in i.list THEN BranchInterworking(t, Read(s.mem, Wrap(a + count - 4), 4)) ELSE t

(* MCR, MRC, MCRR and MRRC reach no coprocessor: reads give 0.             *)
Coprocessor(s, i) ==
  IF ~i.load THEN s
  ELSE IF i.rd = PC THEN [s EXCEPT !.n = 0, !.z = 0, !.c = 0, !.v = 0]
  ELSE SetReg(SetReg(s, i.rd, 0), i.rd2, 0)

(* The address of a single load or store, and the base it leaves.          *)
Addressed(s, i, pc4) ==
  LET base   == IF i.rn = PC THEN Aligned(pc4) ELSE s.r[i.rn]
      offset == Wrap(base + i.imm)
  IN CASE i.mode = "offset" -> [a |-> offset, wb |-> NoReg, base |-> 0]
       [] i.mode = "index"  -> [a |-> IF i.p THEN offset ELSE base,
                                wb |-> IF i.w \/ ~i.p THEN i.rn ELSE NoReg, base |-> offset]
       [] i.mode = "reg"    -> [a |-> Wrap(s.r[i.rn] + s.r[i.rm] * 2 ^ i.imm), wb |-> NoReg, base |-> 0]

WideLoad(s, i, pc4) ==
  LET m == Addressed(s, i, pc4)
      t == SetReg(s, m.wb, m.base)
      v == Read(s.mem, m.a, i.size)
  IN CASE i.rd # PC -> SetReg(t, i.rd, IF i.signed THEN SignExtend(v, Byte * i.size) ELSE v)
       [] i.rd = PC /\ i.size = 4 -> BranchInterworking(t, v)
       [] OTHER -> s        \* PLD and PLI

WideStore(s, i, pc4) ==
  LET m == Addressed(s, i, pc4) IN SetReg(Store(s, m.a, i.size, s.r[i.rd]), m.wb, m.base)

(* Extensions of a rotated register, accumulated unless Rn is PC.          *)
Extended(s, i) ==
  LET x == Rotated(s.r[i.rm], Byte * i.imm)
      e == IF i.signed THEN SignExtend(x, Byte * i.size) ELSE Low(x, Byte * i.size)
  IN SetReg(s, i.rd, Wrap(e + IF i.rn = PC THEN 0 ELSE s.r[i.rn]))

WideShift(s, i) ==
  LET t == ShiftC(i.f, s.r[i.rn], ShiftAmount(s.r[i.rm]), s.c)
  IN Moved([s EXCEPT !.c = IF i.st THEN t.c ELSE @], i.rd, t.r, i.st)

Parallel(s, i) ==
  LET p == ParallelAddSub(i.f, i.unsigned, i.modif, s.r[i.rn], s.r[i.rm])
  IN [SetReg(s, i.rd, p.r) EXCEPT !.ge = IF i.modif = 0 THEN p.ge ELSE @]

(* SEL takes each byte from Rn where GE is set and from Rm elsewhere.      *)
Select(s, i) ==
  SetReg(s, i.rd, OfBytes([k \in 0 .. 3 |-> ByteOf(s.r[IF k \in s.ge THEN i.rn ELSE i.rm], k)]))

Multiply(s, i) ==
  LET x == s.r[i.rn]  y == s.r[i.rm]
      acc == IF i.ra = PC THEN 0 ELSE s.r[i.ra]
      long == LongProduct(i.f, x, y, s.r[i.rd], s.r[i.ra])
  IN CASE i.f \in {"sdiv", "udiv"} -> SetReg(s, i.rd, Quotient(i.f = "sdiv", x, y))
       [] i.f \in {"smull", "umull", "smlal", "umlal"} ->
            SetReg(SetReg(s, i.ra, long.lo), i.rd, long.hi)
       [] OTHER -> SetReg(s, i.rd, Product(i.f, x, y, acc, i.hx, i.hy, i.round))

(* wide_dp_plain_imm.                                                      *)
PlainImmediate(s, i, pc4) ==
  LET x == s.r[i.rn] IN
  CASE i.op = "addw" -> SetReg(s, i.rd, Wrap((IF i.rn = PC THEN Aligned(pc4) ELSE x) + i.imm))
    [] i.op = "movw" -> SetReg(s, i.rd, i.imm)
    [] i.op = "movt" -> SetReg(s, i.rd, OfHalves(HalfOf(s.r[i.rd], 0), i.imm))
    [] i.op = "bfx"  -> SetReg(s, i.rd, Extract(x, i.lsb, i.width, i.signed))
    [] i.op = "sat"  -> LET t == Saturate(x, i.unsigned, i.asr, i.amount, i.imm)
                        IN [SetReg(s, i.rd, t.r) EXCEPT !.q = IF t.q = 1 THEN 1 ELSE @]
    [] i.op = "bfi"  -> IF i.msb < i.lsb THEN s
                        ELSE SetReg(s, i.rd, Insert(s.r[i.rd], IF i.rn = PC THEN 0 ELSE x,
                                                    i.lsb, i.msb - i.lsb + 1))

(* wide_branch_misc, with the barriers and wide hints as "nop".            *)
BranchMisc(s, i, pc4) ==
  CASE i.op = "bl"     -> Jump(IF i.link THEN SetReg(s, LR, s.r[PC] + 1) ELSE s, pc4 + i.imm)
    [] i.op = "bcondw" -> IF CondPassed(s, i.cc) THEN Jump(s, pc4 + i.imm) ELSE s
    [] i.op = "mrs"    -> SetReg(s, i.rd, Flag(s.primask))
    [] i.op = "msr"    -> [s EXCEPT !.primask = Bit(s.r[i.rn], 0) = 1]
    [] i.op = "nop"    -> s

(* exec_wide.                                                              *)
ExecWide(s, i, pc4) ==
  CASE i.op = "dp"      -> DpShifted(s, i, pc4)
    [] i.op = "dpimm"   -> DpImmediate(s, i)
    [] i.op = "tb"      -> TableBranch(s, i, pc4)
    [] i.op = "ldex"    -> LoadExclusive(s, i)
    [] i.op = "stex"    -> StoreExclusive(s, i)
    [] i.op = "dual"    -> Dual(s, i, pc4)
    [] i.op = "multi"   -> Multiple(s, i)
    [] i.op = "cop"     -> Coprocessor(s, i)
    [] i.op = "load"    -> WideLoad(s, i, pc4)
    [] i.op = "store"   -> WideStore(s, i, pc4)
    [] i.op = "extend"  -> Extended(s, i)
    [] i.op = "wshift"  -> WideShift(s, i)
    [] i.op = "par"     -> Parallel(s, i)
    [] i.op = "sel"     -> Select(s, i)
    [] i.op = "wrev"    -> SetReg(s, i.rd, Reversed(i.f, s.r[i.rn]))
    [] i.op = "mul"     -> Multiply(s, i)
    [] i.op \in {"bl", "bcondw", "mrs", "msr", "nop"} -> BranchMisc(s, i, pc4)
    [] OTHER            -> PlainImmediate(s, i, pc4)
=============================================================================
