----------------------------- MODULE Exceptions -----------------------------
(***************************************************************************)
(* The Cortex-M7 exception model of src/src/cortex_m/mod.rs.               *)
(*                                                                         *)
(* CortexM7::step runs, in this order: the exception return a branch of    *)
(* the previous instruction queued, the SysTick tick, the sampling of the  *)
(* interrupt lines, the preemption decision, and one instruction.  Nothing *)
(* interleaves inside a step, so `phase' only forces that order: "return"  *)
(* (return and tick), "preempt" (sample and decide), "execute".  Between   *)
(* two steps Rt1060::step performs a chip reset when one was requested.    *)
(*                                                                         *)
(* The firmware is the environment: it may execute any instruction of      *)
(* Repertoire.  Registers R0-R3, R12, PC, APSR and ITSTATE, which an       *)
(* exception saves and restores together, are one value `regs'.  `lr' is   *)
(* the EXC_RETURN of the running handler, wherever the handler keeps it    *)
(* (in LR, or pushed and popped back into PC).  A stack is the sequence of *)
(* the exception frames on it.                                             *)
(***************************************************************************)
EXTENDS Integers, Sequences, SequencesExt, FiniteSets, TLC

CONSTANTS
  Irq,          \* exception numbers of the external interrupts (16 + IRQ)
  Threads,      \* firmware threads that own a process stack
  Boot,         \* the thread whose stack PSP points at after reset
  Regs,         \* values of the register group an exception saves
  VectorRegs,   \* the group as a handler finds it at its first instruction
  PrioWrites,   \* SHPR / IPR word stores: functions exception -> priority
  BasepriVals,  \* values the firmware writes to BASEPRI
  Repertoire,   \* instruction classes the firmware executes
  MaxFrames,    \* bound: frames on the main stack up to which an
                \*   undisciplined firmware executes SVC or moves priorities
  Disciplined   \* the firmware executes SVC only where SVCall may preempt,
                \*   and writes no priority of an active exception

SVCall  == 11
PendSV  == 14
SysTick == 15
Exc     == {SVCall, PendSV, SysTick} \union Irq

ASSUME IrqAssumption      == Irq \subseteq (Nat \ 0 .. 15)
ASSUME ThreadAssumption   == Boot \in Threads
ASSUME RegsAssumption     == VectorRegs \in Regs
ASSUME BasepriAssumption  == BasepriVals \subseteq 0 .. 255
ASSUME BoundAssumption    == MaxFrames \in Nat
ASSUME DisciplineAssumption == Disciplined \in BOOLEAN
ASSUME PrioAssumption ==
  \A w \in PrioWrites : /\ DOMAIN w \subseteq Exc
                        /\ w \in [DOMAIN w -> 0 .. 255]

VARIABLES
  ipsr,                \* active exception number, 0 in thread mode
  regs,                \* the register group of the running code
  lr,                  \* EXC_RETURN of the running handler, or Code
  sp_sel,              \* the stack in use, "Main" or "Process"
  psp,                 \* the thread whose process stack PSP points into
  mstack,              \* exception frames on the main stack, oldest first
  pstack,              \* exception frames on each thread's process stack
  exc_return_pending,  \* EXC_RETURN captured by a branch, or Code
  nvic_enable,         \* ISER: enabled interrupts
  nvic_pending,        \* ISPR: latched requests
  irq_level,           \* level lines sampled by the last step
  prio,                \* SHPR and IPR: priority byte of every exception
  icsr_pendsv, icsr_pendst,
  primask, basepri, faultmask,
  sysreset_request,    \* AIRCR.SYSRESETREQ, consumed by Rt1060::step
  phase

contextVars == <<ipsr, regs, lr, sp_sel, psp, mstack, pstack>>
requestVars == <<nvic_enable, nvic_pending, prio, icsr_pendsv, icsr_pendst>>
maskVars    == <<primask, basepri, faultmask>>
vars == <<contextVars, exc_return_pending, requestVars, irq_level, maskVars,
          sysreset_request, phase>>

(***************************************************************************)
(* Types                                                                   *)
(***************************************************************************)

(* What LR holds, as far as a branch to it matters: an address in code, or *)
(* one of the three EXC_RETURN values exception_entry composes.            *)
Code            == "code"
ToHandler       == "0xFFFFFFF1"
ToThreadMain    == "0xFFFFFFF9"
ToThreadProcess == "0xFFFFFFFD"

ExcReturnValue == {ToHandler, ToThreadMain, ToThreadProcess}
LinkValue      == {Code} \union ExcReturnValue

(* The eight stacked words, as far as a return needs them. *)
Frame == [regs : Regs, lr : LinkValue, ipsr : {0} \union Exc]

TypeInvariant ==
  /\ ipsr \in {0} \union Exc
  /\ regs \in Regs
  /\ lr \in LinkValue
  /\ sp_sel \in {"Main", "Process"}
  /\ psp \in Threads
  /\ mstack \in Seq(Frame)
  /\ pstack \in [Threads -> Seq(Frame)]
  /\ exc_return_pending \in LinkValue
  /\ nvic_enable \in SUBSET Irq
  /\ nvic_pending \in SUBSET Irq
  /\ irq_level \in SUBSET Irq
  /\ prio \in [Exc -> 0 .. 255]
  /\ icsr_pendsv \in BOOLEAN
  /\ icsr_pendst \in BOOLEAN
  /\ primask \in BOOLEAN
  /\ basepri \in 0 .. 255
  /\ faultmask \in BOOLEAN
  /\ sysreset_request \in BOOLEAN
  /\ phase \in {"return", "preempt", "execute"}

(***************************************************************************)
(* Exception entry and return                                              *)
(***************************************************************************)

(* The frame exception_entry writes: the running group, LR and IPSR. *)
StackedFrame == [regs |-> regs, lr |-> lr, ipsr |-> ipsr]

(* Mutant of ExceptionEntry: EXC_RETURN names the stack and never the mode. *)
EntryForgetsHandlerMode(n) ==
  /\ IF sp_sel = "Process"
       THEN /\ pstack' = [pstack EXCEPT ![psp] = Append(@, StackedFrame)]
            /\ UNCHANGED mstack
       ELSE /\ mstack' = Append(mstack, StackedFrame)
            /\ UNCHANGED pstack
  /\ lr' = IF sp_sel = "Process" THEN ToThreadProcess ELSE ToThreadMain
  /\ sp_sel' = "Main"
  /\ ipsr' = n
  /\ regs' = VectorRegs
  /\ UNCHANGED psp

(* exception_entry(n): stack the context where SP points, compose          *)
(* EXC_RETURN, continue on the main stack in the handler of n.             *)
ExceptionEntry(n) ==
  /\ IF sp_sel = "Process"
       THEN /\ pstack' = [pstack EXCEPT ![psp] = Append(@, StackedFrame)]
            /\ UNCHANGED mstack
       ELSE /\ mstack' = Append(mstack, StackedFrame)
            /\ UNCHANGED pstack
  /\ lr' = IF ipsr # 0 THEN ToHandler
            ELSE IF sp_sel = "Process" THEN ToThreadProcess
            ELSE ToThreadMain
  /\ sp_sel' = "Main"
  /\ ipsr' = n
  /\ regs' = VectorRegs
  /\ UNCHANGED psp

(* Mutants of ExceptionReturn: IPSR becomes 0, or stays, on every return.   *)
ReturnToThreadAlways(r) ==
  /\ mstack' = IF r = ToThreadProcess THEN mstack ELSE Front(mstack)
  /\ pstack' = IF r = ToThreadProcess
                 THEN [pstack EXCEPT ![psp] = Front(@)] ELSE pstack
  /\ sp_sel' = IF r = ToThreadProcess THEN "Process" ELSE "Main"
  /\ regs' = IF r = ToThreadProcess THEN Last(pstack[psp]).regs
                                    ELSE Last(mstack).regs
  /\ lr' = IF r = ToThreadProcess THEN Last(pstack[psp]).lr
                                  ELSE Last(mstack).lr
  /\ ipsr' = 0
  /\ UNCHANGED psp

ReturnKeepsIpsr(r) ==
  /\ mstack' = Front(mstack)
  /\ regs' = Last(mstack).regs
  /\ lr' = Last(mstack).lr
  /\ UNCHANGED <<ipsr, sp_sel, psp, pstack>>

(* exception_return(r): unstack from the stack r names.  It restores       *)
(* neither a mask nor a pending bit.                                       *)
ExceptionReturn(r) ==
  LET process == r = ToThreadProcess
      stack   == IF process THEN pstack[psp] ELSE mstack
      frame   == Last(stack)
  IN  /\ IF process
           THEN /\ pstack' = [pstack EXCEPT ![psp] = Front(@)]
                /\ UNCHANGED mstack
           ELSE /\ mstack' = Front(mstack)
                /\ UNCHANGED pstack
      /\ sp_sel' = IF process THEN "Process" ELSE "Main"
      /\ regs' = frame.regs
      /\ lr' = frame.lr
      /\ ipsr' = IF r = ToHandler THEN frame.ipsr ELSE 0
      /\ UNCHANGED psp

(***************************************************************************)
(* The preemption decision                                                 *)
(***************************************************************************)

(* Mutant of Ready: only the level lines are seen, not the latched bits.    *)
ReadyFromLinesOnly(level, pendst) ==
  (IF pendst THEN {SysTick} ELSE {})
    \union (IF icsr_pendsv THEN {PendSV} ELSE {})
    \union (level \intersect nvic_enable)

(* What take_pending_exception finds waiting, for a sampled level and a    *)
(* SysTick pending bit.                                                    *)
Ready(level, pendst) ==
  (IF pendst THEN {SysTick} ELSE {})
    \union (IF icsr_pendsv THEN {PendSV} ELSE {})
    \union ((nvic_pending \union level) \intersect nvic_enable)

(* The order of the scan: SysTick, PendSV, then the interrupts upwards.  A *)
(* later candidate replaces an earlier one only with a smaller priority.   *)
ScanPosition(e) ==
  CASE e = SysTick -> 0
    [] e = PendSV  -> 1
    [] OTHER       -> e

(* Mutant of Beats: the first candidate found wins.                         *)
BeatsByPosition(e, f) == ScanPosition(e) < ScanPosition(f)

Beats(e, f) ==
  \/ prio[e] < prio[f]
  \/ prio[e] = prio[f] /\ ScanPosition(e) < ScanPosition(f)

IsBest(e, ready) == \A f \in ready \ {e} : Beats(e, f)

(* Mutant of OutranksCurrent: equal priority preempts.                      *)
OutranksOrEquals(p) ==
  /\ ipsr # 0 => p <= prio[ipsr]
  /\ basepri # 0 => p < (basepri \div 16) * 16
  /\ primask => p < 0
  /\ faultmask => p < -1

(* execution_priority(): p outranks the active handler and every mask.     *)
(* Only the exception IPSR names counts, not those it interrupted.         *)
OutranksCurrent(p) ==
  /\ ipsr # 0 => p < prio[ipsr]
  /\ basepri # 0 => p < (basepri \div 16) * 16
  /\ primask => p < 0
  /\ faultmask => p < -1

Preempts(e, ready) == IsBest(e, ready) /\ OutranksCurrent(prio[e])

(***************************************************************************)
(* The firmware's discipline                                               *)
(***************************************************************************)

FramesOf(s) == {s[i] : i \in DOMAIN s}

(* The exceptions that are active: the running one and those it nests in.  *)
Active == ({ipsr} \union {f.ipsr : f \in FramesOf(mstack)}) \ {0}

MaySvc == Disciplined => OutranksCurrent(prio[SVCall])

MayWritePrio(w) == Disciplined => DOMAIN w \intersect Active = {}

(***************************************************************************)
(* One step of the core                                                    *)
(***************************************************************************)

(* Rt1060::chip_reset and CortexM7::new and reset: every core register is  *)
(* fresh.  The device lines are not touched: the next step samples them.   *)
PowerOnState ==
  /\ ipsr' = 0
  /\ lr' = Code
  /\ sp_sel' = "Main"
  /\ psp' = Boot
  /\ mstack' = <<>>
  /\ exc_return_pending' = Code
  /\ nvic_enable' = {}
  /\ nvic_pending' = {}
  /\ irq_level' = {}
  /\ prio' = [e \in Exc |-> 0]
  /\ icsr_pendsv' = FALSE
  /\ icsr_pendst' = FALSE
  /\ primask' = FALSE
  /\ basepri' = 0
  /\ faultmask' = FALSE
  /\ sysreset_request' = FALSE
  /\ phase' = "return"

(* The firmware that restarts finds no frame of its own and builds anew    *)
(* the frame each thread other than Boot will be resumed from.             *)
FreshThreads ==
  /\ regs' = VectorRegs
  /\ pstack' = [t \in Threads |->
       IF t = Boot THEN <<>>
       ELSE <<[regs |-> VectorRegs, lr |-> Code, ipsr |-> 0]>>]

ChipReset ==
  /\ phase = "return"
  /\ sysreset_request
  /\ PowerOnState
  /\ FreshThreads

(* exc_return_pending.take(), and the return when there was one.           *)
CompleteReturn ==
  /\ phase = "return"
  /\ ~sysreset_request
  /\ IF exc_return_pending # Code
       THEN ExceptionReturn(exc_return_pending)
       ELSE UNCHANGED contextVars
  /\ exc_return_pending' = Code
  /\ phase' = "preempt"
  /\ UNCHANGED <<requestVars, irq_level, maskVars, sysreset_request>>

(* Mutants of Preempt: entry clears every latched request; or it leaves     *)
(* PENDSVSET set.                                                          *)
PreemptClearsAll(lines, fires) ==
  LET pendst == icsr_pendst \/ fires
      ready  == Ready(lines, pendst)
  IN  /\ phase = "preempt"
      /\ irq_level' = lines
      /\ \/ /\ \A e \in ready : ~Preempts(e, ready)
            /\ icsr_pendst' = pendst
            /\ UNCHANGED <<contextVars, icsr_pendsv, nvic_pending>>
         \/ \E e \in ready :
              /\ Preempts(e, ready)
              /\ ExceptionEntry(e)
              /\ icsr_pendst' = FALSE
              /\ icsr_pendsv' = FALSE
              /\ nvic_pending' = {}
      /\ phase' = "execute"
      /\ UNCHANGED <<exc_return_pending, nvic_enable, prio, maskVars,
                     sysreset_request>>

PreemptKeepsPendSV(lines, fires) ==
  LET pendst == icsr_pendst \/ fires
      ready  == Ready(lines, pendst)
  IN  /\ phase = "preempt"
      /\ irq_level' = lines
      /\ \/ /\ \A e \in ready : ~Preempts(e, ready)
            /\ icsr_pendst' = pendst
            /\ UNCHANGED <<contextVars, nvic_pending>>
         \/ \E e \in ready :
              /\ Preempts(e, ready)
              /\ ExceptionEntry(e)
              /\ icsr_pendst' = (pendst /\ e # SysTick)
              /\ nvic_pending' = nvic_pending \ {e}
      /\ phase' = "execute"
      /\ UNCHANGED <<exc_return_pending, nvic_enable, prio, maskVars,
                     sysreset_request, icsr_pendsv>>

(* The SysTick counter may fire (module SysTickTimer says when), the lines are  *)
(* sampled whatever the devices drive, and the best candidate is entered   *)
(* when it outranks the execution priority.                                *)
Preempt(lines, fires) ==
  LET pendst == icsr_pendst \/ fires
      ready  == Ready(lines, pendst)
  IN  /\ phase = "preempt"
      /\ irq_level' = lines
      /\ \/ /\ \A e \in ready : ~Preempts(e, ready)
            /\ icsr_pendst' = pendst
            /\ UNCHANGED <<contextVars, icsr_pendsv, nvic_pending>>
         \/ \E e \in ready :
              /\ Preempts(e, ready)
              /\ ExceptionEntry(e)
              /\ icsr_pendst' = (pendst /\ e # SysTick)
              /\ icsr_pendsv' = (icsr_pendsv /\ e # PendSV)
              /\ nvic_pending' = nvic_pending \ {e}
      /\ phase' = "execute"
      /\ UNCHANGED <<exc_return_pending, nvic_enable, prio, maskVars,
                     sysreset_request>>

(***************************************************************************)
(* The instruction                                                         *)
(***************************************************************************)

Executes(class) ==
  /\ phase = "execute"
  /\ class \in Repertoire
  /\ phase' = "return"

(* Anything that only changes the register group.                          *)
Compute ==
  /\ Executes("compute")
  /\ regs' \in Regs
  /\ UNCHANGED <<ipsr, lr, sp_sel, psp, mstack, pstack, exc_return_pending,
                 requestVars, irq_level, maskVars, sysreset_request>>

(* BX LR, POP {PC} and LDM of an EXC_RETURN value: branch_interworking     *)
(* only queues the return, for the next step.                              *)
BranchToExcReturn ==
  /\ Executes("return")
  /\ ipsr # 0
  /\ lr # Code
  /\ exc_return_pending' = lr
  /\ UNCHANGED <<contextVars, requestVars, irq_level, maskVars,
                 sysreset_request>>

(* SVC enters its handler whatever the execution priority is.              *)
Svc ==
  /\ Executes("svc")
  /\ MaySvc
  /\ Len(mstack) < MaxFrames
  /\ ExceptionEntry(SVCall)
  /\ UNCHANGED <<exc_return_pending, requestVars, irq_level, maskVars,
                 sysreset_request>>

(* CPSID i, CPSIE i and MSR PRIMASK.                                       *)
WritePrimask ==
  /\ Executes("primask")
  /\ primask' \in BOOLEAN
  /\ UNCHANGED <<contextVars, exc_return_pending, requestVars, irq_level,
                 basepri, faultmask, sysreset_request>>

(* MSR BASEPRI: the whole byte is kept, BASEPRI_MAX included.              *)
WriteBasepri ==
  /\ Executes("basepri")
  /\ basepri' \in BasepriVals
  /\ UNCHANGED <<contextVars, exc_return_pending, requestVars, irq_level,
                 primask, faultmask, sysreset_request>>

WriteFaultmask ==
  /\ Executes("faultmask")
  /\ faultmask' \in BOOLEAN
  /\ UNCHANGED <<contextVars, exc_return_pending, requestVars, irq_level,
                 primask, basepri, sysreset_request>>

(* MSR CONTROL: switch_sp(want), which has no handler-mode guard.          *)
WriteControl ==
  /\ Executes("control")
  /\ Disciplined => ipsr = 0
  /\ sp_sel' \in {"Main", "Process"}
  /\ UNCHANGED <<ipsr, regs, lr, psp, mstack, pstack, exc_return_pending,
                 requestVars, irq_level, maskVars, sysreset_request>>

(* A scheduler's handler that interrupted a thread on its process stack    *)
(* points PSP at another thread's stack (MSR PSP).                         *)
SwitchThread ==
  /\ Executes("switch")
  /\ lr = ToThreadProcess
  /\ psp' \in Threads
  /\ UNCHANGED <<ipsr, regs, lr, sp_sel, mstack, pstack, exc_return_pending,
                 requestVars, irq_level, maskVars, sysreset_request>>

(* Stores to ISER and ICER, ISPR and ICPR.                                 *)
WriteNvicEnable(s) ==
  /\ Executes("nvic_enable")
  /\ nvic_enable' \in {nvic_enable \union s, nvic_enable \ s}
  /\ UNCHANGED <<contextVars, exc_return_pending, nvic_pending, prio,
                 icsr_pendsv, icsr_pendst, irq_level, maskVars,
                 sysreset_request>>

WriteNvicPending(s) ==
  /\ Executes("nvic_pending")
  /\ nvic_pending' \in {nvic_pending \union s, nvic_pending \ s}
  /\ UNCHANGED <<contextVars, exc_return_pending, nvic_enable, prio,
                 icsr_pendsv, icsr_pendst, irq_level, maskVars,
                 sysreset_request>>

(* A store to ICSR: each set bit is applied before its clear bit.          *)
IcsrBits == {"PENDSVSET", "PENDSVCLR", "PENDSTSET", "PENDSTCLR"}

WriteIcsr(bits) ==
  /\ Executes("icsr")
  /\ icsr_pendsv' = ((icsr_pendsv \/ "PENDSVSET" \in bits)
                       /\ "PENDSVCLR" \notin bits)
  /\ icsr_pendst' = ((icsr_pendst \/ "PENDSTSET" \in bits)
                       /\ "PENDSTCLR" \notin bits)
  /\ UNCHANGED <<contextVars, exc_return_pending, nvic_enable, nvic_pending,
                 prio, irq_level, maskVars, sysreset_request>>

(* Mutant of WritePriorities: the byte is taken for a level and shifted.    *)
WritePrioritiesShifted(w) ==
  /\ Executes("prio")
  /\ MayWritePrio(w)
  /\ Len(mstack) < MaxFrames
  /\ prio' = [e \in Exc |-> IF e \in DOMAIN w THEN w[e] * 16 ELSE prio[e]]
  /\ UNCHANGED <<contextVars, exc_return_pending, nvic_enable, nvic_pending,
                 icsr_pendsv, icsr_pendst, irq_level, maskVars,
                 sysreset_request>>

(* A word store to SHPR or IPR sets up to four priorities; only the upper  *)
(* four bits of each byte are implemented.                                 *)
WritePriorities(w) ==
  /\ Executes("prio")
  /\ MayWritePrio(w)
  /\ Len(mstack) < MaxFrames
  /\ prio' = [e \in Exc |-> IF e \in DOMAIN w THEN (w[e] \div 16) * 16
                                              ELSE prio[e]]
  /\ UNCHANGED <<contextVars, exc_return_pending, nvic_enable, nvic_pending,
                 icsr_pendsv, icsr_pendst, irq_level, maskVars,
                 sysreset_request>>

(* A store to AIRCR with VECTKEY and SYSRESETREQ.                          *)
RequestReset ==
  /\ Executes("reset")
  /\ sysreset_request' = TRUE
  /\ UNCHANGED <<contextVars, exc_return_pending, requestVars, irq_level,
                 maskVars>>

Execute ==
  \/ Compute
  \/ BranchToExcReturn
  \/ Svc
  \/ WritePrimask
  \/ WriteBasepri
  \/ WriteFaultmask
  \/ WriteControl
  \/ SwitchThread
  \/ \E s \in SUBSET Irq : WriteNvicEnable(s) \/ WriteNvicPending(s)
  \/ \E bits \in SUBSET IcsrBits : WriteIcsr(bits)
  \/ \E w \in PrioWrites : WritePriorities(w)
  \/ RequestReset

(***************************************************************************)
(* The specification                                                       *)
(***************************************************************************)

Init ==
  /\ ipsr = 0 /\ regs = VectorRegs /\ lr = Code
  /\ sp_sel = "Main" /\ psp = Boot
  /\ mstack = <<>>
  /\ pstack = [t \in Threads |->
       IF t = Boot THEN <<>>
       ELSE <<[regs |-> VectorRegs, lr |-> Code, ipsr |-> 0]>>]
  /\ exc_return_pending = Code
  /\ nvic_enable = {} /\ nvic_pending = {} /\ irq_level = {}
  /\ prio = [e \in Exc |-> 0]
  /\ icsr_pendsv = FALSE /\ icsr_pendst = FALSE
  /\ primask = FALSE /\ basepri = 0 /\ faultmask = FALSE
  /\ sysreset_request = FALSE
  /\ phase = "return"

Next ==
  \/ ChipReset
  \/ CompleteReturn
  \/ \E lines \in SUBSET Irq, fires \in BOOLEAN : Preempt(lines, fires)
  \/ Execute

Spec == Init /\ [][Next]_vars

(* The run loop keeps stepping.  Of the firmware it is assumed that every   *)
(* handler reaches its return, and that its critical sections end: BASEPRI *)
(* is written back to 0, and PRIMASK is cleared while BASEPRI is 0, again  *)
(* and again.                                                              *)
FairSpec ==
  /\ Spec
  /\ WF_vars(Next)
  /\ SF_vars(BranchToExcReturn)
  /\ SF_vars(WriteBasepri /\ basepri' = 0)
  /\ SF_vars(WritePrimask /\ ~primask' /\ basepri = 0)

(***************************************************************************)
(* Safety                                                                  *)
(***************************************************************************)

(* l is the EXC_RETURN of a handler above the first k frames of the main   *)
(* stack s: it names the stack the handler's own frame is on, and the mode *)
(* it interrupted.                                                         *)
LinkMatches(l, s, k) ==
  l = IF k = 0 THEN ToThreadProcess
      ELSE IF k = 1 /\ s[1].ipsr = 0 THEN ToThreadMain
      ELSE ToHandler

ThreadModeIsBare ==
  ipsr = 0 => mstack = <<>> /\ lr = Code

HandlersAreLinked ==
  /\ ipsr # 0 => sp_sel = "Main" /\ LinkMatches(lr, mstack, Len(mstack))
  /\ \A i \in 1 .. Len(mstack) :
       IF mstack[i].ipsr = 0
         THEN i = 1 /\ mstack[i].lr = Code
         ELSE LinkMatches(mstack[i].lr, mstack, i - 1)

(* The thread PSP names has its frame on its process stack unless it runs  *)
(* or was interrupted on the main stack; every other thread has one.       *)
OffProcessStack(t) ==
  t = psp /\ (ipsr = 0 \/ (mstack # <<>> /\ mstack[1].ipsr = 0))

ThreadsAreParked ==
  \A t \in Threads :
    IF OffProcessStack(t)
      THEN pstack[t] = <<>>
      ELSE Len(pstack[t]) = 1 /\ pstack[t][1].ipsr = 0 /\ pstack[t][1].lr = Code

ReturnIsQueuedByHandler ==
  exc_return_pending # Code =>
    phase = "return" /\ ipsr # 0 /\ exc_return_pending = lr

(* Every return finds the frame its entry pushed, on the stack its         *)
(* EXC_RETURN names, however entries, returns, tail-chains, stack switches *)
(* and resets were interleaved (exception_entry, exception_return).        *)
FrameDiscipline ==
  /\ ThreadModeIsBare
  /\ HandlersAreLinked
  /\ ThreadsAreParked
  /\ ReturnIsQueuedByHandler

(* A handler only ever runs on top of strictly less urgent ones, so no     *)
(* exception is active twice (take_pending_exception and Svc against       *)
(* execution_priority), as long as the firmware is disciplined.            *)
NestedUrgency ==
  \A i \in DOMAIN mstack :
    mstack[i].ipsr # 0 =>
      /\ prio[ipsr] < prio[mstack[i].ipsr]
      /\ \A j \in DOMAIN mstack :
           i < j => prio[mstack[j].ipsr] < prio[mstack[i].ipsr]

(* When an instruction executes, nothing that is requested outranks the    *)
(* code that executes it: the one decision per step (taking at most one    *)
(* exception, after a return that may just have lowered the priority) is   *)
(* enough (take_pending_exception, tail-chaining in step).                 *)
NothingUrgentWaits ==
  phase = "execute" =>
    \A e \in Ready(irq_level, icsr_pendst) : ~OutranksCurrent(prio[e])

(* A handler was entered by the preemption decision.                       *)
Takes(e) == phase = "preempt" /\ phase' = "execute" /\ ipsr' = e
              /\ (mstack' # mstack \/ pstack' # pstack)

(* A latched request disappears only when its own handler is entered, when *)
(* the firmware clears it, or on a chip reset; in particular not when a    *)
(* handler returns or a tail-chained exception wins.                       *)
RequestsSurvive ==
  [][ /\ \A e \in nvic_pending \ nvic_pending' :
           Takes(e) \/ phase = "execute" \/ sysreset_request
      /\ icsr_pendsv /\ ~icsr_pendsv' =>
           Takes(PendSV) \/ phase = "execute" \/ sysreset_request
      /\ icsr_pendst /\ ~icsr_pendst' =>
           Takes(SysTick) \/ phase = "execute" \/ sysreset_request ]_vars

(***************************************************************************)
(* Liveness                                                                *)
(***************************************************************************)

(* A latched interrupt more urgent than every other exception does not     *)
(* stay latched while it is enabled (RequestsSurvive says what can happen  *)
(* to it): also one latched again while its own handler runs.              *)
MostUrgent(e) == \A f \in Exc \ {e} : prio[e] < prio[f]

UrgentRequestIsServed ==
  \A e \in Irq :
    e \in nvic_pending
      ~> (e \notin nvic_pending \/ e \notin nvic_enable \/ ~MostUrgent(e))

(* Once no exception preempts any more, the tower of handlers unwinds to   *)
(* the thread, through returns that each restore the handler below (step,  *)
(* exception_return).                                                      *)
TowerUnwinds ==
  <>[][\A e \in Exc : ~Takes(e)]_vars => []<>(ipsr = 0)

(* PendSV, the scheduler's exception, runs once nothing else preempts: a   *)
(* request made at any depth of the tower is not forgotten.                *)
PendSVRuns ==
  <>[][\A e \in Exc \ {PendSV} : ~Takes(e)]_vars
    => [](icsr_pendsv => <>(~icsr_pendsv))

(***************************************************************************)
(* Refinement                                                              *)
(***************************************************************************)

(* The handlers that are active, outermost first, with their registers:    *)
(* those that were interrupted are in frames, the running one is not.      *)
ThreadFrames == IF mstack # <<>> /\ mstack[1].ipsr = 0 THEN 1 ELSE 0

Tower ==
  [k \in 1 .. IF ipsr = 0 THEN 0 ELSE Len(mstack) - ThreadFrames + 1 |->
     LET i == k + ThreadFrames
     IN  IF i <= Len(mstack) THEN [exc |-> mstack[i].ipsr, regs |-> mstack[i].regs]
         ELSE [exc |-> ipsr, regs |-> regs]]

ThreadRegs ==
  [t \in Threads |->
     IF pstack[t] # <<>> THEN pstack[t][1].regs
     ELSE IF ipsr = 0 THEN regs
     ELSE mstack[1].regs]

Nesting == INSTANCE ExceptionNesting
             WITH thread <- psp, threadRegs <- ThreadRegs, handlers <- Tower

(* Entry and return, with stacks and EXC_RETURN, implement the tower.      *)
ImplementsNesting == Nesting!Spec
=============================================================================
