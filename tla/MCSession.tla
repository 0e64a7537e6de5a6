------------------------------ MODULE MCSession ------------------------------
(***************************************************************************)
(* Instances of Gdb for TLC: words of 8 bits, every instruction form once  *)
(* on its own and once in an IT block over corner operands, a program with *)
(* interrupts, and a loop under a debugger.                                *)
(***************************************************************************)
EXTENDS Gdb, TLC

(***************************************************************************)
(* Instructions                                                            *)
(***************************************************************************)
Op(op) == [op |-> op]
F(op, f) == [op |-> op, f |-> f]
Two == [rd |-> 2, rn |-> 0, rm |-> 1]

NarrowSums ==
  {Op(op) @@ Two : op \in {"add3", "sub3"}}
    \union {Op(op) @@ [imm |-> k] @@ Two : op \in {"addi", "subi", "cmpi", "movi"}, k \in {0, 1, 200}}

NarrowShifts == {F("shift", f) @@ [imm |-> k, rd |-> 2, rm |-> 0] : f \in {"lsl", "lsr", "asr"}, k \in {0, 1, 7}}

NarrowAlus ==
  {F("alu", f) @@ [rd |-> 0, rm |-> 1] :
     f \in {"and", "eor", "lsl", "lsr", "asr", "adc", "sbc", "ror", "tst", "rsb", "cmp", "cmn",
            "orr", "mul", "bic", "mvn"}}

NarrowUnary ==
  {F("rev", f) @@ [rd |-> 2, rm |-> 0] : f \in {"rev", "rev16", "revsh"}}
    \union {Op("ext") @@ [rd |-> 2, rm |-> 0, size |-> n, signed |-> b] : n \in {1, 2}, b \in BOOLEAN}

Shifter == {<<"lsl", 0>>, <<"lsl", 3>>, <<"lsr", 0>>, <<"asr", 0>>, <<"ror", 0>>, <<"ror", 3>>}
WideFs  == {"and", "bic", "orr", "orn", "eor", "add", "adc", "sbc", "sub", "rsb"}

WideAlus ==
  {F("dp", f) @@ [ty |-> sh[1], imm |-> sh[2], st |-> TRUE] @@ Two : f \in WideFs, sh \in Shifter}
    \union {F("dp", f) @@ [ty |-> "lsl", imm |-> 0, st |-> FALSE] @@ Two : f \in WideFs}
    \union {F("dp", f) @@ [ty |-> "lsr", imm |-> 1, st |-> TRUE, rd |-> PC, rn |-> 0, rm |-> 1] :
              f \in {"and", "eor", "add", "sub"}}
    \union {F("dp", f) @@ [ty |-> "lsl", imm |-> 0, st |-> b, rd |-> 2, rn |-> PC, rm |-> 1] :
              f \in {"orr", "orn"}, b \in BOOLEAN}

WideImmediates ==
  {F("dpimm", f) @@ [imm |-> k, st |-> TRUE, rd |-> 2, rn |-> 0] :
     f \in WideFs, k \in {[pattern |-> 0, byte |-> 3], [pattern |-> 1, byte |-> 2],
                          [pattern |-> 2, byte |-> 1], [pattern |-> 3, byte |-> 3],
                          [rot |-> 1, low |-> 1], [rot |-> 5, low |-> 0]}}

WideShifts == {F("wshift", f) @@ [st |-> b] @@ Two : f \in {"lsl", "lsr", "asr", "ror"}, b \in BOOLEAN}

Lanes ==
  {F("par", f) @@ [unsigned |-> u, modif |-> k] @@ Two :
     f \in {"add8", "sub8", "add16", "sub16", "asx", "sax"}, u \in BOOLEAN, k \in 0 .. 2}

Multiplies ==
  {F("mul", f) @@ [ra |-> a, hx |-> 0, hy |-> 1, round |-> r] @@ [Two EXCEPT !.rd = 3] :
     f \in {"mla", "smlaxy", "smlawy", "smmla", "sdiv", "udiv"}, a \in {2, PC}, r \in {FALSE}}
    \union {F("mul", f) @@ [ra |-> 2, hx |-> 1, hy |-> 0, round |-> TRUE] @@ [Two EXCEPT !.rd = 3] :
              f \in {"mls", "smlaxy", "smmla", "smmls", "smull", "umull", "smlal", "umlal"}}

Fields ==
  {Op("bfx") @@ [lsb |-> p[1], width |-> p[2], signed |-> b, rd |-> 2, rn |-> 0] :
     p \in {<<0, 8>>, <<3, 2>>, <<7, 1>>}, b \in BOOLEAN}
    \union {Op("bfi") @@ [lsb |-> p[1], msb |-> p[2], rd |-> 1, rn |-> k] :
              p \in {<<0, 7>>, <<2, 4>>, <<5, 3>>, <<7, 7>>}, k \in {0, PC}}
    \union {Op("sat") @@ [unsigned |-> u, asr |-> b, amount |-> k, imm |-> 4, rd |-> 2, rn |-> 0] :
              u \in BOOLEAN, b \in BOOLEAN, k \in {1, 3}}
    \union {F("wrev", f) @@ [rd |-> 2, rn |-> 0] : f \in {"rev", "rev16", "revsh", "rbit", "clz"}}
    \union {Op("extend") @@ [imm |-> k, size |-> n, signed |-> b, rd |-> 2, rn |-> a, rm |-> 0] :
              k \in {0, 3}, n \in {1, 2}, b \in BOOLEAN, a \in {1, PC}}
    \union {Op("movt") @@ [imm |-> 9, rd |-> 0, rn |-> 1], Op("movw") @@ [imm |-> 77, rd |-> 2, rn |-> 1],
            Op("sel") @@ Two, Op("addw") @@ [imm |-> 250, rd |-> 2, rn |-> 0],
            Op("addw") @@ [imm |-> 6, rd |-> 2, rn |-> PC]}

Arithmetic ==
  NarrowSums \union NarrowShifts \union NarrowAlus \union NarrowUnary \union WideAlus
    \union WideImmediates \union WideShifts \union Lanes \union Multiplies \union Fields

(* Loads and stores; r0 and r1 are addresses.                              *)
Accesses ==
  {Op(op) @@ [size |-> n, imm |-> k, rd |-> 2, rn |-> 0] : op \in {"ldr", "str"}, n \in {1, 2, 4}, k \in {0, 4}}
    \union {Op("ldrreg") @@ [size |-> n, signed |-> b] @@ Two : n \in {1, 2, 4}, b \in BOOLEAN}
    \union {Op("strreg") @@ [size |-> n] @@ Two : n \in {1, 2, 4}}
    \union {Op(op) @@ [rn |-> 0, list |-> l] : op \in {"ldm", "stm"}, l \in {{2}, {0, 3}, {2, 3, 4}}}
    \union {Op("push") @@ [list |-> {1, 4, LR}], Op("pop") @@ [list |-> {1, 4}], Op("pop") @@ [list |-> {2, PC}],
            Op("ldrlit") @@ [rd |-> 2, imm |-> 140]}
    \union {Op(op) @@ [mode |-> m, p |-> b, w |-> w, imm |-> k, size |-> n, signed |-> TRUE] @@ [Two EXCEPT !.rd = d] :
              op \in {"load", "store"}, m \in {"index"}, b \in BOOLEAN, w \in BOOLEAN, k \in {252, 2}, n \in {1, 4}, d \in {0, 2}}
    \union {Op(op) @@ [mode |-> m, imm |-> 1, size |-> 2, signed |-> TRUE] @@ Two :
              op \in {"load", "store"}, m \in {"offset", "reg"}}
    \union {Op("load") @@ [mode |-> "offset", imm |-> 8, size |-> n, signed |-> FALSE, rd |-> PC, rn |-> 0] : n \in {1, 4}}
    \union {Op("dual") @@ [p |-> p, w |-> w, load |-> b, imm |-> 248, rd |-> 2, rd2 |-> 3, rn |-> 0] :
              p \in BOOLEAN, w \in BOOLEAN, b \in BOOLEAN}
    \union {Op("multi") @@ [db |-> d, w |-> w, load |-> b, rn |-> 0, list |-> l] :
              d \in BOOLEAN, w \in BOOLEAN, b \in BOOLEAN, l \in {{2, 3}, {0, 2}}}
    \union {Op("multi") @@ [db |-> FALSE, w |-> TRUE, load |-> TRUE, rn |-> 0, list |-> {2, PC}],
            Op("ldex") @@ [imm |-> 4, size |-> 4, rd |-> 2, rn |-> 0],
            Op("stex") @@ [imm |-> 0, size |-> 2, rs |-> 3, rd |-> 2, rn |-> 0],
            Op("tb") @@ [size |-> 1, rn |-> 0, rm |-> 3], Op("tb") @@ [size |-> 2, rn |-> 0, rm |-> 3]}

(* Control flow and the rest.                                              *)
Controls ==
  {Op("bcond") @@ [cc |-> c, imm |-> k] : c \in 0 .. 13, k \in {4, 252}}
    \union {Op("bcondw") @@ [cc |-> c, imm |-> 6] : c \in {0, 5, 13}}
    \union {Op("b") @@ [imm |-> 250], Op("bl") @@ [link |-> TRUE, imm |-> 8], Op("bl") @@ [link |-> FALSE, imm |-> 8],
            Op("bx") @@ [link |-> TRUE, rm |-> 1], Op("bx") @@ [link |-> FALSE, rm |-> LR],
            Op("bx") @@ [link |-> FALSE, rm |-> PC], Op("udf"), Op("bkpt"), Op("hint"), Op("nop"),
            Op("addhi") @@ [rd |-> 2, rm |-> 1], Op("addhi") @@ [rd |-> PC, rm |-> 0], Op("addhi") @@ [rd |-> 2, rm |-> PC],
            Op("movhi") @@ [rd |-> 2, rm |-> 1], Op("movhi") @@ [rd |-> PC, rm |-> 1], Op("movhi") @@ [rd |-> 2, rm |-> PC],
            Op("cmphi") @@ [rd |-> 0, rm |-> 1], Op("cmphi") @@ [rd |-> 0, rm |-> PC],
            Op("adr") @@ [rd |-> 2, imm |-> 4], Op("addsp") @@ [rd |-> 2, imm |-> 4], Op("spimm") @@ [imm |-> 248],
            Op("cps") @@ [disable |-> TRUE], Op("cps") @@ [disable |-> FALSE],
            Op("mrs") @@ [rd |-> 2], Op("msr") @@ [rn |-> 1],
            Op("cop") @@ [load |-> TRUE, rd |-> 2, rd2 |-> 3], Op("cop") @@ [load |-> TRUE, rd |-> PC, rd2 |-> 3],
            Op("cop") @@ [load |-> FALSE]}
    \union {Op("cbz") @@ [rn |-> 0, nonzero |-> b, imm |-> 8] : b \in BOOLEAN}

(***************************************************************************)
(* Programs                                                                *)
(***************************************************************************)
Code    == 128
Handler == 160
Ram     == 0 .. 31

Core(x, y, z, c) ==
  [r |-> [k \in 0 .. PC |-> CASE k = 0 -> x [] k = 1 -> y [] k = 2 -> z [] k = SP -> 20
                              [] k = LR -> 139 [] k = PC -> Code [] OTHER -> k],
   n |-> 1 - c, z |-> 0, c |-> c, v |-> c, q |-> 0, ge |-> {1, 2}, it |-> 0, primask |-> FALSE,
   ipsr |-> 0, ret |-> 0, brk |-> "none", mem |-> [a \in Ram |-> ((a * 7) \div 3) % 4]]

(* The instruction alone, or behind an IT whose condition is CS.           *)
Alone(i)   == Code :> i
Guarded(i) == (Code :> [op |-> "it", cond |-> 2, mask |-> 8]) @@ ((Code + 2) :> i)

Script(code, cores) == [text |-> code, cores |-> cores, irqs |-> 0, attached |-> FALSE]

Cores(xs, ys) == {Core(x, y, 90, c) : x \in xs, y \in ys, c \in {0, 1}}
Operands      == Cores({0, 1, 127, 128, 213}, {0, 1, 8, 9, 131, 255})
FewOperands   == Cores({85, 255}, {1, 128})
Addresses     == Cores({0, 9, 16}, {1, 131, 255})
AllFlags ==
  {[Core(0, 0, 0, 0) EXCEPT !.n = f[1], !.z = f[2], !.c = f[3], !.v = f[4]] : f \in [1 .. 4 -> {0, 1}]}

Scripts ==
  {Script(Alone(i), Operands) : i \in Arithmetic}
    \union {Script(Guarded(i), FewOperands) : i \in Arithmetic}
    \union {Script(Alone(i), Addresses) : i \in Controls \union Accesses}
    \union {Script(Guarded(i), Addresses) :
              i \in {j \in Controls : j.op \notin {"cbz", "bcond"}} \union Accesses}
    \union {Script((Code :> [op |-> "it", cond |-> cc, mask |-> 8])
                     @@ ((Code + 2) :> (Op("movi") @@ [rd |-> 0, imm |-> 7])), AllFlags) : cc \in 0 .. 14}

MovI(d, k) == Op("movi") @@ [rd |-> d, rn |-> d, imm |-> k]
CmpI(d, k) == Op("cmpi") @@ [rd |-> d, rn |-> d, imm |-> k]
AddI(d, k) == Op("addi") @@ [rd |-> d, rn |-> d, imm |-> k]
It(cond, mask) == [op |-> "it", cond |-> cond, mask |-> mask]
BranchTo(from, to) == Op("b") @@ [imm |-> Wrap(to - (from + 4))]

(* The handler changes every register a frame saves, and its own ITSTATE.  *)
HandlerText ==
  (160 :> MovI(0, 0)) @@ (162 :> It(1, 4)) @@ (164 :> MovI(1, 3)) @@ (166 :> AddI(2, 1))
    @@ (168 :> (Op("bx") @@ [link |-> FALSE, rm |-> LR]))

(* Blocks of one to four slots, decoded and raw operations, a call, PRIMASK *)
(* and a stack that is not aligned to 8.                                   *)
BlockText ==
  (128 :> CmpI(0, 9)) @@ (130 :> It(0, 5)) @@ (132 :> AddI(1, 3)) @@ (134 :> (F("shift", "lsr") @@ [rd |-> 2, rm |-> 1, imm |-> 0]))
    @@ (136 :> (F("dp", "sub") @@ [ty |-> "lsl", imm |-> 0, st |-> TRUE] @@ Two))
    @@ (140 :> MovI(3, 5)) @@ (142 :> (Op("cps") @@ [disable |-> TRUE]))
    @@ (144 :> (Op("bl") @@ [link |-> TRUE, imm |-> 4])) @@ (148 :> Op("bkpt"))
    @@ (152 :> (F("shift", "asr") @@ [rd |-> 2, rm |-> 1, imm |-> 0])) @@ (154 :> (Op("cps") @@ [disable |-> FALSE]))
    @@ (156 :> (Op("bx") @@ [link |-> FALSE, rm |-> LR]))

LoopText ==
  (128 :> MovI(0, 1)) @@ (130 :> CmpI(0, 1)) @@ (132 :> It(0, 4)) @@ (134 :> AddI(0, 2)) @@ (136 :> AddI(0, 4))
    @@ (138 :> (F("shift", "lsr") @@ [rd |-> 2, rm |-> 0, imm |-> 0])) @@ (140 :> BranchTo(140, 128))

OnStack(c, sp) == [c EXCEPT !.r[SP] = sp]

Programs ==
  {[text |-> BlockText @@ HandlerText, irqs |-> 2, attached |-> FALSE,
    cores |-> {OnStack(Core(x, y, 90, c), sp) : x \in {9, 200}, y \in {1, 255}, c \in {0, 1}, sp \in {96, 100}}]}

Sessions ==
  {[text |-> LoopText @@ HandlerText, irqs |-> 1, attached |-> TRUE,
    cores |-> {OnStack(Core(0, 1, 90, 0), 100)}]}

MCScenarios == Scripts \union Programs \union Sessions
=============================================================================
