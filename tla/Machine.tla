------------------------------- MODULE Machine -------------------------------
(***************************************************************************)
(* CortexM7::step (src/src/cortex_m/mod.rs) over the executors: exception  *)
(* return and entry, the decoded fast path, and the IT path.  One          *)
(* interrupt line stands for the requests of module Exceptions, and the    *)
(* frames a context pushes are a sequence of records, so that a stack that *)
(* a handler leaves unbalanced is not covered.                             *)
(***************************************************************************)
EXTENDS Decoded, Reference, Sequences

CONSTANTS
  HandlerBase   \* address in the vector of the interrupt

VARIABLES
  text,      \* the instruction at each address
  core,      \* the registers, flags and memory of the program
  frames,    \* the contexts interrupted, innermost first
  pending,   \* NVIC pending bit of the interrupt
  irqs,      \* interrupts still to come
  planted    \* addresses where a debugger has written a BKPT

machineVars == <<text, core, frames, pending, irqs, planted>>

(***************************************************************************)
(* Exceptions                                                              *)
(***************************************************************************)
Stacked == {0, 1, 2, 3, 12, LR, PC}

(* What exception_entry pushes: registers, xPSR with ITSTATE, and the bit  *)
(* that records the alignment of SP.                                       *)
Frame(s) ==
  [r |-> [k \in Stacked |-> s.r[k]], n |-> s.n, z |-> s.z, c |-> s.c, v |-> s.v,
   q |-> s.q, ge |-> s.ge, it |-> s.it, pad |-> Bit(s.r[SP], 2)]

(* EXC_RETURN to thread mode on the main stack: 0xFFFFFFF9.                *)
ThreadReturn == Size - 7

Entered(s) ==
  LET sp == Wrap(s.r[SP] - 32)
  IN [s EXCEPT !.r = [@ EXCEPT ![SP] = sp - (sp % 8), ![LR] = ThreadReturn,
                               ![PC] = HandlerBase],
               !.ipsr = 1, !.it = 0]

Returned(s, f) ==
  [s EXCEPT !.r = [k \in DOMAIN @ |-> IF k \in Stacked THEN f.r[k]
                                      ELSE IF k = SP THEN Wrap(@[SP] + 32 + 4 * f.pad)
                                      ELSE @[k]],
            !.n = f.n, !.z = f.z, !.c = f.c, !.v = f.v, !.q = f.q, !.ge = f.ge,
            !.it = f.it, !.ipsr = 0, !.ret = 0]

(***************************************************************************)
(* One step                                                                *)
(***************************************************************************)
InItBlock(s) == s.it % 16 # 0

AdvanceIt(it) == IF it % 8 = 0 THEN 0 ELSE 32 * (it \div 32) + ((it * 2) % 32)

(* The IT path: the slot's condition is read before ITSTATE advances.      *)
ExecSlot(s, i, pc) ==
  LET t == [s EXCEPT !.r[PC] = Wrap(pc + Width(i)), !.it = AdvanceIt(@)]
  IN IF CondPassed(s, s.it \div 16) THEN Execute(t, i, pc, TRUE) ELSE t

(* Mutant of TakesFastPath: decoded operations run in IT blocks too.       *)
TakesFastPathAlways(s) == TRUE

TakesFastPath(s) == ~InItBlock(s)

(* A planted BKPT replaces the first halfword of what was there.           *)
Fetched(pc) == IF pc \in planted THEN [op |-> "bkpt"] ELSE text[pc]

Executed(s) ==
  LET pc == s.r[PC]
  IN IF TakesFastPath(s) THEN ExecDecoded(s, Decode(Fetched(pc), pc), pc)
     ELSE ExecSlot(s, Fetched(pc), pc)

(* What the queued EXC_RETURN and the pending interrupt make of a core     *)
(* before it fetches.                                                      *)
Resumed   == IF core.ret # 0 THEN Returned(core, Head(frames)) ELSE core
Preempted == pending /\ Resumed.ipsr = 0 /\ ~Resumed.primask
Fetching  == IF Preempted THEN Entered(Resumed) ELSE Resumed

(* The step that fetches at before and leaves after.                       *)
StepTo(before, after) ==
  LET left == IF core.ret # 0 THEN Tail(frames) ELSE frames
  IN /\ before.r[PC] \in DOMAIN text
     /\ core' = after
     /\ frames' = IF Preempted THEN <<Frame(Resumed)>> \o left ELSE left
     /\ pending' = (pending /\ ~Preempted)
     /\ UNCHANGED <<text, irqs, planted>>

(* Rt1060::run stops at the first break cause.                             *)
Step == core.brk = "none" /\ StepTo(Fetching, Executed(Fetching))

(* An edge on the interrupt line.                                          *)
Interrupt ==
  /\ irqs > 0 /\ ~pending
  /\ pending' = TRUE
  /\ irqs' = irqs - 1
  /\ UNCHANGED <<text, core, frames, planted>>

(* What the host has loaded.                                               *)
MachineInit(sc) ==
  /\ text = sc.text /\ core \in sc.cores /\ irqs = sc.irqs
  /\ frames = <<>> /\ pending = FALSE /\ planted = {}

(***************************************************************************)
(* Correctness                                                             *)
(***************************************************************************)
MachineTypes ==
  /\ core.r \in [0 .. PC -> Word]
  /\ {core.n, core.z, core.c, core.v, core.q} \subseteq {0, 1}
  /\ core.ge \subseteq 0 .. 3 /\ core.it \in 0 .. 255
  /\ core.primask \in BOOLEAN /\ core.ipsr \in {0, 1}
  /\ core.ret = 0 \/ (core.ret >= ExcReturnBase /\ core.ipsr = 1)
  /\ core.brk \in {"none", "bkpt", "udf"}
  /\ \A a \in DOMAIN core.mem : core.mem[a] \in 0 .. 2 ^ Byte - 1
  /\ Len(frames) = core.ipsr

(* The context the program will see again, without what the program cannot *)
(* see of it.                                                              *)
Visible(s) == [s EXCEPT !.it = 0, !.ret = 0, !.ipsr = 0]
Context == IF frames = <<>> THEN core ELSE Returned(core, Head(frames))

(* The executors compute what the instructions mean: sums, shifts, lanes,  *)
(* fields, products and quotients with their flags (src/src/cortex_m/      *)
(* mod.rs:296, 810, wide.rs:11, 95, 861), decoded or not.                  *)
ResultsMatchReference ==
  [][(Step /\ ~InItBlock(Fetching)) =>
       ResultFits(Fetching, Fetched(Fetching.r[PC]), core')]_machineVars

P == INSTANCE Program WITH core <- Visible(Context),
       plan <- IF InItBlock(Context)
               THEN Listed(Context.it \div 16, Context.it % 16) ELSE <<>>
=============================================================================
