------------------------------ MODULE Decoded -------------------------------
(***************************************************************************)
(* The decode-once path of src/src/cortex_m/decoded.rs: DecodedOp::decode  *)
(* turns the frequent encodings into operations with absolute targets, and *)
(* CortexM7::exec_decoded executes those itself and hands all others to    *)
(* the executors of module Thumb.                                          *)
(***************************************************************************)
EXTENDS Thumb

WideOps == {"dp", "dpimm", "tb", "ldex", "stex", "dual", "multi", "cop", "load", "store",
            "extend", "wshift", "par", "sel", "wrev", "mul", "bl", "bcondw", "mrs", "msr",
            "nop", "addw", "movw", "movt", "bfx", "sat", "bfi"}

Width(i) == IF i.op \in WideOps THEN 4 ELSE 2

(* Encodings with a decoded form.  MOVS Rd, Rm is LSLS #0 and has none, nor*)
(* has a high-register form that names PC.                                 *)
IsHot(i) ==
  CASE i.op = "shift" -> i.f # "lsl" \/ i.imm # 0
    [] i.op \in {"addhi", "movhi"} -> PC \notin {i.rd, i.rm}
    [] i.op = "bx"    -> ~i.link /\ i.rm = LR
    [] i.op = "bl"    -> i.link
    [] OTHER -> i.op \in {"add3", "sub3", "addi", "subi", "movi", "cmpi", "ldr", "str", "ldrlit",
                          "hint", "cbz", "bcond", "b"}

(* The address a decoded operation bakes in.                               *)
Target(i, addr) ==
  LET pc4 == Wrap(addr + 4)
  IN CASE i.op \in {"b", "bcond", "cbz", "bl"} -> Wrap(pc4 + i.imm)
       [] i.op = "ldrlit" -> Wrap(Aligned(pc4) + i.imm)
       [] OTHER -> 0

Decode(i, addr) ==
  [hot |-> IsHot(i), i |-> i, target |-> IF IsHot(i) THEN Target(i, addr) ELSE 0]

ExecHot(s, d, pc) ==
  LET i == d.i
      addr == Wrap(s.r[i.rn] + i.imm)
  IN CASE i.op = "movi"  -> WithNZ(SetReg(s, i.rd, i.imm), i.imm)
       [] i.op = "cmpi"  -> AddUpdate(s, NoReg, s.r[i.rn], Inv(i.imm), 1, TRUE)
       [] i.op = "addi"  -> AddUpdate(s, i.rd, s.r[i.rn], i.imm, 0, TRUE)
       [] i.op = "subi"  -> AddUpdate(s, i.rd, s.r[i.rn], Inv(i.imm), 1, TRUE)
       [] i.op = "add3"  -> AddUpdate(s, i.rd, s.r[i.rn], s.r[i.rm], 0, TRUE)
       [] i.op = "sub3"  -> AddUpdate(s, i.rd, s.r[i.rn], Inv(s.r[i.rm]), 1, TRUE)
       [] i.op = "shift" -> Shifted(s, i.rd, i.f, s.r[i.rm], IF i.imm = 0 THEN W ELSE i.imm, TRUE)
       [] i.op = "movhi" -> SetReg(s, i.rd, s.r[i.rm])
       [] i.op = "addhi" -> SetReg(s, i.rd, Wrap(s.r[i.rd] + s.r[i.rm]))
       [] i.op = "hint"  -> s
       [] i.op = "ldr"   -> Load(s, i.rd, addr, i.size, FALSE)
       [] i.op = "str"   -> Store(s, addr, i.size, s.r[i.rd])
       [] i.op = "ldrlit" -> Load(s, i.rd, d.target, 4, FALSE)
       [] i.op = "b"     -> Jump(s, d.target)
       [] i.op = "bcond" -> IF CondPassed(s, i.cc) THEN Jump(s, d.target) ELSE s
       [] i.op = "cbz"   -> IF (s.r[i.rn] = 0) # i.nonzero THEN Jump(s, d.target) ELSE s
       [] i.op = "bl"    -> Jump(SetReg(s, LR, Wrap(pc + 4) + 1), d.target)
       [] i.op = "bx"    -> BranchInterworking(s, s.r[LR])

(* The raw executors; PC is already past the instruction.                  *)
Execute(s, i, pc, inIt) ==
  IF Width(i) = 4 THEN ExecWide(s, i, Wrap(pc + 4)) ELSE ExecNarrow(s, i, Wrap(pc + 4), inIt)

ExecDecoded(s, d, pc) ==
  LET t == [s EXCEPT !.r[PC] = Wrap(pc + Width(d.i))]
  IN IF d.hot THEN ExecHot(t, d, pc) ELSE Execute(t, d.i, pc, FALSE)
=============================================================================
