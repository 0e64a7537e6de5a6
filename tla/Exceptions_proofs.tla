------------------------- MODULE Exceptions_proofs -------------------------
(***************************************************************************)
(* Proofs about module Exceptions, for any set of interrupts, threads,     *)
(* register values, priority stores and firmware; the last part proves     *)
(* that exception entry and return, with frames on banked stacks and       *)
(* EXC_RETURN values, implement the tower of activations of module         *)
(* ExceptionNesting.                                                       *)
(***************************************************************************)
EXTENDS Exceptions, SequenceTheorems, WellFoundedInduction, TLAPS

(***************************************************************************)
(* Sequences                                                               *)
(***************************************************************************)

LEMMA PopLemma ==
  ASSUME NEW S, NEW s \in Seq(S), s # <<>>
  PROVE  /\ Front(s) \in Seq(S)
         /\ Len(s) \in Nat \ {0}
         /\ Len(Front(s)) = Len(s) - 1
         /\ \A i \in 1 .. Len(s) - 1 : Front(s)[i] = s[i]
         /\ Last(s) = s[Len(s)]
         /\ Last(s) \in S
  <1>1. Len(s) \in Nat \ {0}
    BY EmptySeq, LenProperties
  <1>2. /\ SubSeq(s, 1, Len(s) - 1) \in Seq(S)
        /\ Len(SubSeq(s, 1, Len(s) - 1)) = Len(s) - 1
        /\ \A i \in 1 .. Len(s) - 1 : SubSeq(s, 1, Len(s) - 1)[i] = s[i]
    <2>. DEFINE n == Len(s) - 1
    <2>1. n \in Nat /\ \A i \in 1 .. n : s[i] \in S
      BY <1>1, ElementOfSeq
    <2>. HIDE DEF n
    <2>2. /\ SubSeq(s, 1, n) \in Seq(S)
          /\ Len(SubSeq(s, 1, n)) = n
          /\ \A i \in 1 .. n : SubSeq(s, 1, n)[i] = s[i]
      BY <2>1
    <2>. QED
      BY <2>2 DEF n
  <1>3. s[Len(s)] \in S
    BY <1>1, ElementOfSeq
  <1>. QED
    BY <1>1, <1>2, <1>3 DEF Front, Last

LEMMA PushLemma ==
  ASSUME NEW S, NEW s \in Seq(S), NEW x \in S
  PROVE  /\ Append(s, x) \in Seq(S)
         /\ Len(Append(s, x)) = Len(s) + 1
         /\ Append(s, x) # <<>>
         /\ \A i \in 1 .. Len(s) : Append(s, x)[i] = s[i]
         /\ Append(s, x)[Len(s) + 1] = x
  OBVIOUS

(***************************************************************************)
(* Type correctness                                                        *)
(***************************************************************************)

LEMMA ConstantTypes ==
  /\ 0 \notin Exc
  /\ Exc \subseteq Nat
  /\ {SVCall, PendSV, SysTick} \subseteq Exc
  /\ Irq \subseteq Exc
  /\ Code \in LinkValue
  BY IrqAssumption DEF Exc, SVCall, PendSV, SysTick, Code, LinkValue

(***************************************************************************)
(* Entry and return keep the stacks in order                               *)
(***************************************************************************)

StackDiscipline == ThreadModeIsBare /\ HandlersAreLinked /\ ThreadsAreParked

ContextType ==
  /\ ipsr \in {0} \union Exc
  /\ regs \in Regs
  /\ lr \in LinkValue
  /\ sp_sel \in {"Main", "Process"}
  /\ psp \in Threads
  /\ mstack \in Seq(Frame)
  /\ pstack \in [Threads -> Seq(Frame)]

LEMMA EntryKeepsStacks ==
  ASSUME ContextType, StackDiscipline, NEW n \in Exc, ExceptionEntry(n)
  PROVE  ContextType' /\ StackDiscipline' /\ ipsr' = n
  <1>0. n # 0 /\ ipsr' = n /\ n \in {0} \union Exc
    BY ConstantTypes DEF ExceptionEntry
  <1>1. StackedFrame \in Frame
    BY DEF ContextType, StackedFrame, Frame
  <1>2. CASE sp_sel = "Process"
    <2>1. ipsr = 0 /\ mstack = <<>> /\ pstack[psp] = <<>> /\ lr = Code
      BY <1>2 DEF StackDiscipline, HandlersAreLinked, ThreadModeIsBare,
                  ThreadsAreParked, OffProcessStack, ContextType
    <2>2. /\ mstack' = <<>>
          /\ pstack' = [pstack EXCEPT ![psp] = <<StackedFrame>>]
          /\ lr' = ToThreadProcess
          /\ sp_sel' = "Main" /\ psp' = psp /\ regs' = VectorRegs
      BY <1>2, <2>1 DEF ExceptionEntry
    <2>3. ContextType'
      BY <1>0, <1>1, <2>1, <2>2, RegsAssumption DEF ContextType, LinkValue, ExcReturnValue
    <2>4. ThreadsAreParked'
      BY <1>0, <2>1, <2>2
         DEF StackDiscipline, ThreadsAreParked, OffProcessStack, ContextType,
             StackedFrame
    <2>. QED
      BY <1>0, <2>2, <2>3, <2>4
         DEF StackDiscipline, ThreadModeIsBare, HandlersAreLinked, LinkMatches
  <1>3. CASE sp_sel = "Main"
    <2>1. /\ mstack' = Append(mstack, StackedFrame)
          /\ lr' = IF ipsr = 0 THEN ToThreadMain ELSE ToHandler
          /\ sp_sel' = "Main" /\ psp' = psp /\ regs' = VectorRegs
          /\ pstack' = pstack
      BY <1>3 DEF ExceptionEntry
    <2>2. /\ mstack' \in Seq(Frame)
          /\ mstack' # <<>>
          /\ Len(mstack) \in Nat
          /\ Len(mstack') = Len(mstack) + 1
          /\ \A i \in 1 .. Len(mstack) : mstack'[i] = mstack[i]
          /\ mstack'[Len(mstack) + 1] = StackedFrame
      BY <1>1, <2>1, PushLemma DEF ContextType
    <2>3. ContextType'
      BY <1>0, <2>1, <2>2, RegsAssumption DEF ContextType, LinkValue, ExcReturnValue
    <2>4. mstack = <<>> <=> Len(mstack) = 0
      BY EmptySeq DEF ContextType
    <2>5. ThreadsAreParked'
      BY <1>0, <2>1, <2>2, <2>4
         DEF StackDiscipline, ThreadsAreParked, OffProcessStack, ContextType,
             StackedFrame, ThreadModeIsBare
    <2>6. HandlersAreLinked'
      <3>1. CASE ipsr = 0
        <4>1. mstack = <<>> /\ lr = Code
          BY <3>1 DEF StackDiscipline, ThreadModeIsBare
        <4>2. Len(mstack') = 1 /\ mstack'[1].ipsr = 0 /\ mstack'[1].lr = Code
          BY <2>2, <2>4, <3>1, <4>1 DEF StackedFrame
        <4>. QED
          BY <1>0, <2>1, <3>1, <4>2 DEF HandlersAreLinked, LinkMatches
      <3>2. CASE ipsr # 0
        <4>1. LinkMatches(lr, mstack, Len(mstack))
          BY <3>2 DEF StackDiscipline, HandlersAreLinked
        <4>2. Len(mstack) = 0 => mstack'[1].ipsr # 0
          BY <2>2, <3>2 DEF StackedFrame
        <4>3. lr' = ToHandler
          BY <2>1, <3>2
        <4>4. LinkMatches(lr', mstack', Len(mstack'))
          BY <2>2, <4>2, <4>3, Len(mstack) + 1 = 1 <=> Len(mstack) = 0,
             Len(mstack) + 1 # 0
             DEF LinkMatches
        <4>5. ASSUME NEW i \in 1 .. Len(mstack')
              PROVE  IF mstack'[i].ipsr = 0
                       THEN i = 1 /\ mstack'[i].lr = Code
                       ELSE LinkMatches(mstack'[i].lr, mstack', i - 1)
          <5>1. CASE i = Len(mstack) + 1
            BY <2>2, <3>2, <4>1, <5>1 DEF LinkMatches, StackedFrame
          <5>2. CASE i \in 1 .. Len(mstack)
            BY <2>2, <5>2 DEF StackDiscipline, HandlersAreLinked, LinkMatches
          <5>. QED
            BY <2>2, <5>1, <5>2
        <4>. QED
          BY <2>1, <4>4, <4>5, Zenon DEF HandlersAreLinked
      <3>. QED
        BY <3>1, <3>2
    <2>. QED
      BY <1>0, <2>3, <2>5, <2>6 DEF StackDiscipline, ThreadModeIsBare
  <1>. QED
    BY <1>2, <1>3 DEF ContextType

LEMMA ReturnKeepsStacks ==
  ASSUME ContextType, StackDiscipline, ipsr # 0, ExceptionReturn(lr)
  PROVE  ContextType' /\ StackDiscipline'
  <1>k. PICK k \in Nat : k = Len(mstack)
    BY LenProperties DEF ContextType
  <1>0. /\ mstack = <<>> <=> k = 0
        /\ \A i \in 1 .. k : mstack[i] \in Frame
    BY <1>k, EmptySeq, ElementOfSeq DEF ContextType
  <1>1. /\ LinkMatches(lr, mstack, k)
        /\ \A i \in 1 .. k :
             IF mstack[i].ipsr = 0
               THEN i = 1 /\ mstack[i].lr = Code
               ELSE LinkMatches(mstack[i].lr, mstack, i - 1)
    BY <1>k DEF StackDiscipline, HandlersAreLinked
  <1>2. CASE k = 0
    <2>1. lr = ToThreadProcess /\ mstack = <<>>
      BY <1>0, <1>1, <1>2 DEF LinkMatches
    <2>2. /\ pstack[psp] \in Seq(Frame)
          /\ Len(pstack[psp]) = 1
          /\ pstack[psp][1].ipsr = 0 /\ pstack[psp][1].lr = Code
      BY <2>1 DEF StackDiscipline, ThreadsAreParked, OffProcessStack,
                  ContextType
    <2>3. pstack[psp] # <<>>
      BY <2>2, EmptySeq
    <2>4. /\ Front(pstack[psp]) \in Seq(Frame)
          /\ Len(Front(pstack[psp])) = 0
          /\ Last(pstack[psp]) = pstack[psp][1]
          /\ Last(pstack[psp]) \in Frame
      <3>1. PICK s \in Seq(Frame) : s = pstack[psp]
        BY <2>2
      <3>. QED
        BY <2>2, <2>3, <3>1, PopLemma
    <2>5. Front(pstack[psp]) = <<>>
      BY <2>4, EmptySeq
    <2>6. /\ pstack' = [pstack EXCEPT ![psp] = <<>>]
          /\ mstack' = mstack /\ psp' = psp
          /\ sp_sel' = "Process"
          /\ regs' = Last(pstack[psp]).regs
          /\ lr' = Code /\ ipsr' = 0
      BY <2>1, <2>2, <2>4, <2>5
         DEF ExceptionReturn, ToThreadProcess, ToHandler
    <2>7. ContextType'
      <3>1. regs' \in Regs
        BY <2>4, <2>6 DEF Frame
      <3>2. pstack' \in [Threads -> Seq(Frame)]
        BY <2>6, EmptySeq DEF ContextType
      <3>. QED
        BY <2>6, <3>1, <3>2 DEF ContextType, LinkValue
    <2>8. ThreadsAreParked'
      BY <2>1, <2>6
         DEF StackDiscipline, ThreadsAreParked, OffProcessStack, ContextType
    <2>. QED
      BY <1>0, <1>2, <2>1, <2>6, <2>7, <2>8
         DEF StackDiscipline, ThreadModeIsBare, HandlersAreLinked
  <1>3. CASE k # 0
    <2>1. /\ mstack # <<>>
          /\ lr # ToThreadProcess
          /\ lr = ToThreadMain <=> mstack[k].ipsr = 0
          /\ lr \in {ToThreadMain, ToHandler}
      <3>1. mstack[k].ipsr = 0 => k = 1
        BY <1>1, <1>3
      <3>. QED
        BY <1>0, <1>1, <1>3, <3>1
           DEF LinkMatches, ToThreadMain, ToThreadProcess, ToHandler
    <2>2. /\ Front(mstack) \in Seq(Frame)
          /\ Len(Front(mstack)) = k - 1
          /\ \A i \in 1 .. k - 1 : Front(mstack)[i] = mstack[i]
          /\ Last(mstack) = mstack[k]
          /\ Last(mstack) \in Frame
      BY <1>k, <2>1, PopLemma DEF ContextType
    <2>3. /\ mstack' = Front(mstack)
          /\ pstack' = pstack /\ psp' = psp
          /\ sp_sel' = "Main"
          /\ regs' = mstack[k].regs
          /\ lr' = mstack[k].lr
          /\ ipsr' = mstack[k].ipsr
      BY <2>1, <2>2 DEF ExceptionReturn, ToThreadMain, ToHandler
    <2>4. /\ mstack' \in Seq(Frame)
          /\ Len(mstack') = k - 1
          /\ \A i \in 1 .. k - 1 : mstack'[i] = mstack[i]
          /\ k - 1 \in Nat
          /\ mstack' = <<>> <=> k - 1 = 0
      <3>1. k - 1 \in Nat
        BY <1>3
      <3>2. mstack' \in Seq(Frame) /\ Len(mstack') = k - 1
        BY <2>2, <2>3
      <3>. QED
        BY <2>2, <2>3, <3>1, <3>2, EmptySeq
    <2>5. ContextType'
      BY <2>2, <2>3, <2>4 DEF ContextType, Frame
    <2>6. ipsr' = 0 => k = 1 /\ lr' = Code
      <3>1. k \in 1 .. k
        BY <1>3
      <3>. QED
        BY <1>1, <2>3, <3>1, Zenon
    <2>7. ThreadModeIsBare'
      BY <2>4, <2>6 DEF ThreadModeIsBare
    <2>8. ipsr' # 0 => LinkMatches(lr', mstack', k - 1)
      <3>1. SUFFICES ASSUME ipsr' # 0
                     PROVE  LinkMatches(lr', mstack', k - 1)
        OBVIOUS
      <3>2. LinkMatches(mstack[k].lr, mstack, k - 1)
        BY <1>1, <1>3, <2>3, <3>1
      <3>3. k - 1 = 1 => mstack'[1] = mstack[1]
        BY <2>4
      <3>. QED
        BY <2>3, <3>2, <3>3 DEF LinkMatches
    <2>9. \A i \in 1 .. Len(mstack') :
            IF mstack'[i].ipsr = 0
              THEN i = 1 /\ mstack'[i].lr = Code
              ELSE LinkMatches(mstack'[i].lr, mstack', i - 1)
      <3>1. SUFFICES ASSUME NEW i \in 1 .. k - 1
                     PROVE  IF mstack[i].ipsr = 0
                              THEN i = 1 /\ mstack[i].lr = Code
                              ELSE LinkMatches(mstack[i].lr, mstack', i - 1)
        BY <2>4
      <3>2. IF mstack[i].ipsr = 0
              THEN i = 1 /\ mstack[i].lr = Code
              ELSE LinkMatches(mstack[i].lr, mstack, i - 1)
        BY <1>1, <3>1
      <3>3. i - 1 = 1 => mstack'[1] = mstack[1]
        BY <1>0, <2>4, <3>1
      <3>. QED
        BY <3>2, <3>3 DEF LinkMatches
    <2>10. HandlersAreLinked'
      BY <2>3, <2>4, <2>8, <2>9 DEF HandlersAreLinked
    <2>11. ThreadsAreParked'
      <3>1. ASSUME NEW t \in Threads
            PROVE  OffProcessStack(t)' <=> OffProcessStack(t)
        <4>1. CASE k = 1
          <5>1. ipsr' = mstack[1].ipsr /\ mstack' = <<>>
            BY <2>3, <2>4, <4>1
          <5>. QED
            BY <2>1, <2>3, <5>1 DEF OffProcessStack
        <4>2. CASE k # 1
          <5>1. /\ ipsr' # 0 /\ mstack' # <<>>
                /\ mstack'[1] = mstack[1]
            BY <1>0, <1>3, <2>4, <2>6, <4>2
          <5>. QED
            BY <2>1, <2>3, <5>1 DEF OffProcessStack
        <4>. QED
          BY <4>1, <4>2
      <3>. QED
        BY <2>3, <3>1 DEF StackDiscipline, ThreadsAreParked
    <2>. QED
      BY <2>5, <2>7, <2>10, <2>11 DEF StackDiscipline
  <1>. QED
    BY <1>2, <1>3
(***************************************************************************)
(* The invariant of the core                                               *)
(***************************************************************************)

(* Handlers run on the main stack: the firmware is disciplined, or has no  *)
(* MSR CONTROL at all.                                                     *)
HandlersStayOnMain == Disciplined \/ "control" \notin Repertoire

RequestType ==
  /\ exc_return_pending \in LinkValue
  /\ nvic_enable \in SUBSET Irq
  /\ nvic_pending \in SUBSET Irq
  /\ irq_level \in SUBSET Irq
  /\ prio \in [Exc -> 0 .. 255]
  /\ icsr_pendsv \in BOOLEAN
  /\ icsr_pendst \in BOOLEAN
  /\ primask \in BOOLEAN
  /\ basepri \in 0 .. 255
  /\ faultmask \in BOOLEAN
  /\ sysreset_request \in BOOLEAN
  /\ phase \in {"return", "preempt", "execute"}

LEMMA TypeParts == TypeInvariant <=> ContextType /\ RequestType
  BY Zenon DEF TypeInvariant, ContextType, RequestType

CoreInv == TypeInvariant /\ FrameDiscipline

LEMMA CoreParts ==
  CoreInv <=> /\ ContextType
              /\ RequestType
              /\ StackDiscipline
              /\ ReturnIsQueuedByHandler
  BY TypeParts, Zenon DEF CoreInv, FrameDiscipline, StackDiscipline

LEMMA FreshFrame == [regs |-> VectorRegs, lr |-> Code, ipsr |-> 0] \in Frame
  BY RegsAssumption DEF Frame, LinkValue

LEMMA CoreInit == Init => CoreInv
  <1>. SUFFICES ASSUME Init PROVE CoreInv
    OBVIOUS
  <1>1. ContextType
    BY FreshFrame, RegsAssumption, ThreadAssumption, EmptySeq
       DEF Init, ContextType, LinkValue
  <1>2. StackDiscipline
    BY DEF Init, StackDiscipline, ThreadModeIsBare, HandlersAreLinked,
           ThreadsAreParked, OffProcessStack
  <1>3. RequestType
    <2>1. prio \in [Exc -> 0 .. 255] /\ basepri \in 0 .. 255
      BY DEF Init
    <2>. QED
      BY <2>1, ConstantTypes, Zenon DEF Init, RequestType
  <1>4. ReturnIsQueuedByHandler
    BY DEF Init, ReturnIsQueuedByHandler
  <1>. QED
    BY <1>1, <1>2, <1>3, <1>4, CoreParts

(* The instructions that leave every stack as it is. *)
LEMMA SameContext ==
  ASSUME ContextType, StackDiscipline, UNCHANGED contextVars
  PROVE  ContextType' /\ StackDiscipline'
  BY DEF contextVars, ContextType, StackDiscipline, ThreadModeIsBare,
         HandlersAreLinked, ThreadsAreParked, OffProcessStack

LEMMA CoreStep ==
  ASSUME HandlersStayOnMain, CoreInv, [Next]_vars
  PROVE  CoreInv'
  <1>0. /\ ContextType /\ RequestType
        /\ StackDiscipline /\ ReturnIsQueuedByHandler
    BY CoreParts
  <1>. SUFFICES /\ ContextType' /\ RequestType'
                /\ StackDiscipline' /\ ReturnIsQueuedByHandler'
    BY Zenon DEF CoreInv, TypeInvariant, ContextType, RequestType,
                 FrameDiscipline, StackDiscipline
  <1>1. CASE ChipReset
    <2>. USE <1>1 DEF ChipReset, PowerOnState, FreshThreads
    <2>1. ContextType'
      BY FreshFrame, RegsAssumption, ThreadAssumption, EmptySeq
         DEF ContextType, LinkValue
    <2>2. StackDiscipline'
      BY DEF StackDiscipline, ThreadModeIsBare, HandlersAreLinked,
             ThreadsAreParked, OffProcessStack
    <2>3. prio' \in [Exc -> 0 .. 255] /\ basepri' \in 0 .. 255
      OBVIOUS
    <2>4. RequestType'
      BY <2>3, ConstantTypes, Zenon DEF RequestType
    <2>5. ReturnIsQueuedByHandler'
      BY DEF ReturnIsQueuedByHandler
    <2>. QED
      BY <2>1, <2>2, <2>4, <2>5
  <1>2. CASE CompleteReturn
    <2>1. ContextType' /\ StackDiscipline'
      <3>1. CASE exc_return_pending # Code
        <4>1. ipsr # 0 /\ ExceptionReturn(lr)
          BY <1>0, <1>2, <3>1 DEF ReturnIsQueuedByHandler, CompleteReturn
        <4>. QED
          BY <1>0, <4>1, ReturnKeepsStacks
      <3>2. CASE exc_return_pending = Code
        BY <1>0, <1>2, <3>2, SameContext DEF CompleteReturn
      <3>. QED
        BY <3>1, <3>2
    <2>2. RequestType' /\ ReturnIsQueuedByHandler'
      BY <1>0, <1>2, ConstantTypes
         DEF CompleteReturn, requestVars, maskVars, RequestType,
             ReturnIsQueuedByHandler
    <2>. QED
      BY <2>1, <2>2
  <1>3. ASSUME NEW lines \in SUBSET Irq, NEW fires \in BOOLEAN,
               Preempt(lines, fires)
        PROVE  /\ ContextType' /\ RequestType'
               /\ StackDiscipline' /\ ReturnIsQueuedByHandler'
    <2>1. ContextType' /\ StackDiscipline'
      <3>1. CASE UNCHANGED contextVars
        BY <1>0, <3>1, SameContext
      <3>2. CASE \E e \in Exc : ExceptionEntry(e)
        BY <1>0, <3>2, EntryKeepsStacks
      <3>3. Ready(lines, icsr_pendst \/ fires) \subseteq Exc
        BY <1>0, ConstantTypes DEF Ready, RequestType
      <3>. QED
        BY <1>3, <3>1, <3>2, <3>3 DEF Preempt
    <2>2. exc_return_pending' = exc_return_pending /\ exc_return_pending = Code
      BY <1>0, <1>3 DEF Preempt, ReturnIsQueuedByHandler
    <2>3. RequestType'
      BY <1>0, <1>3 DEF Preempt, RequestType, maskVars
    <2>. QED
      BY <2>1, <2>2, <2>3 DEF ReturnIsQueuedByHandler
  <1>4. CASE Execute
    <2>0. phase = "execute" /\ phase' = "return" /\ exc_return_pending = Code
      BY <1>0, <1>4
         DEF Execute, Compute, BranchToExcReturn, Svc, WritePrimask,
             WriteBasepri, WriteFaultmask, WriteControl, SwitchThread,
             WriteNvicEnable, WriteNvicPending, WriteIcsr, WritePriorities,
             RequestReset, Executes, ReturnIsQueuedByHandler
    <2>1. CASE Compute
      BY <1>0, <2>0, <2>1
         DEF Compute, ContextType, RequestType, requestVars, maskVars,
             StackDiscipline, ThreadModeIsBare, HandlersAreLinked,
             ThreadsAreParked, OffProcessStack, ReturnIsQueuedByHandler
    <2>2. CASE BranchToExcReturn
      <3>1. ContextType' /\ StackDiscipline'
        BY <1>0, <2>2, SameContext DEF BranchToExcReturn
      <3>. QED
        BY <1>0, <2>0, <2>2, <3>1
           DEF BranchToExcReturn, ContextType, RequestType, requestVars,
               maskVars, contextVars, ReturnIsQueuedByHandler
    <2>3. CASE Svc
      <3>1. ContextType' /\ StackDiscipline'
        BY <1>0, <2>3, ConstantTypes, EntryKeepsStacks DEF Svc
      <3>. QED
        BY <1>0, <2>0, <2>3, <3>1
           DEF Svc, RequestType, requestVars, maskVars,
               ReturnIsQueuedByHandler
    <2>4. CASE WriteControl
      <3>1. ipsr = 0
        BY <2>4 DEF WriteControl, Executes, HandlersStayOnMain
      <3>. QED
        BY <1>0, <2>0, <2>4, <3>1
           DEF WriteControl, ContextType, RequestType, requestVars, maskVars,
               StackDiscipline, ThreadModeIsBare, HandlersAreLinked,
               ThreadsAreParked, OffProcessStack, ReturnIsQueuedByHandler
    <2>5. CASE SwitchThread
      <3>1. ipsr # 0 /\ mstack = <<>>
        <4>1. lr = ToThreadProcess /\ lr # Code
          BY <2>5 DEF SwitchThread, ToThreadProcess, Code
        <4>2. ipsr # 0 /\ LinkMatches(lr, mstack, Len(mstack))
          BY <1>0, <4>1
             DEF StackDiscipline, ThreadModeIsBare, HandlersAreLinked
        <4>. QED
          BY <1>0, <4>1, <4>2, EmptySeq
             DEF LinkMatches, ContextType, ToThreadProcess, ToThreadMain,
                 ToHandler
      <3>. QED
        BY <1>0, <2>0, <2>5, <3>1
           DEF SwitchThread, ContextType, RequestType, requestVars, maskVars,
               StackDiscipline, ThreadModeIsBare, HandlersAreLinked,
               ThreadsAreParked, OffProcessStack, ReturnIsQueuedByHandler
    <2>6. ASSUME UNCHANGED <<contextVars, exc_return_pending>>, RequestType'
          PROVE  /\ ContextType' /\ RequestType'
                 /\ StackDiscipline' /\ ReturnIsQueuedByHandler'
      BY <1>0, <2>0, <2>6, SameContext DEF ReturnIsQueuedByHandler
    <2>7. CASE WritePrimask \/ WriteBasepri \/ WriteFaultmask
      <3>1. /\ UNCHANGED <<contextVars, exc_return_pending, requestVars,
                           irq_level, sysreset_request>>
            /\ primask' \in BOOLEAN /\ basepri' \in 0 .. 255
            /\ faultmask' \in BOOLEAN
        BY <1>0, <2>7, BasepriAssumption
           DEF WritePrimask, WriteBasepri, WriteFaultmask, RequestType
      <3>2. RequestType'
        BY <1>0, <2>0, <3>1 DEF RequestType, requestVars
      <3>. QED
        BY <2>6, <3>1, <3>2
    <2>8. ASSUME NEW s \in SUBSET Irq, WriteNvicEnable(s) \/ WriteNvicPending(s)
          PROVE  UNCHANGED <<contextVars, exc_return_pending>> /\ RequestType'
      BY <1>0, <2>0, <2>8
         DEF WriteNvicEnable, WriteNvicPending, RequestType, maskVars
    <2>9. ASSUME NEW bits \in SUBSET IcsrBits, WriteIcsr(bits)
          PROVE  UNCHANGED <<contextVars, exc_return_pending>> /\ RequestType'
      BY <1>0, <2>0, <2>9 DEF WriteIcsr, RequestType, maskVars
    <2>10. ASSUME NEW w \in PrioWrites, WritePriorities(w)
           PROVE  UNCHANGED <<contextVars, exc_return_pending>> /\ RequestType'
      <3>1. \A v \in 0 .. 255 : (v \div 16) * 16 \in 0 .. 255
        OBVIOUS
      <3>2. prio' \in [Exc -> 0 .. 255]
        BY ZenonT(60), <1>0, <2>10, <3>1, PrioAssumption DEF WritePriorities, RequestType
      <3>. QED
        BY <1>0, <2>0, <2>10, <3>2 DEF WritePriorities, RequestType, maskVars
    <2>11. CASE RequestReset
      BY <1>0, <2>0, <2>6, <2>11
         DEF RequestReset, RequestType, requestVars, maskVars
    <2>. QED
      BY <1>4, <2>1, <2>2, <2>3, <2>4, <2>5, <2>6, <2>7, <2>8, <2>9, <2>10,
         <2>11
         DEF Execute
  <1>5. CASE UNCHANGED vars
    BY <1>0, <1>5, SameContext
       DEF vars, RequestType, requestVars, maskVars, ReturnIsQueuedByHandler,
           contextVars
  <1>. QED
    BY <1>1, <1>2, <1>3, <1>4, <1>5 DEF Next

(* Whatever interrupts arrive and whatever the firmware executes, every    *)
(* return pops the frame its entry pushed, in the right mode and from the  *)
(* right stack (exception_entry, exception_return, branch_interworking).   *)
THEOREM FramesAreInOrder ==
  ASSUME HandlersStayOnMain
  PROVE  Spec => [](TypeInvariant /\ FrameDiscipline)
  <1>1. Init => CoreInv
    BY CoreInit
  <1>2. CoreInv /\ [Next]_vars => CoreInv'
    BY CoreStep
  <1>. QED
    BY <1>1, <1>2, PTL DEF Spec, CoreInv
(***************************************************************************)
(* Urgency                                                                 *)
(***************************************************************************)

LEMMA EntryNests ==
  ASSUME ContextType, StackDiscipline, NestedUrgency,
         prio \in [Exc -> 0 .. 255], prio' = prio,
         NEW n \in Exc, ExceptionEntry(n),
         ipsr # 0 => prio[n] < prio[ipsr]
  PROVE  NestedUrgency'
  <1>1. CASE sp_sel = "Process"
    <2>1. mstack = <<>> /\ mstack' = mstack
      BY <1>1 DEF StackDiscipline, HandlersAreLinked, ThreadModeIsBare,
                  ExceptionEntry
    <2>. QED
      BY <2>1 DEF NestedUrgency
  <1>2. CASE sp_sel # "Process"
    <2>k. PICK k \in Nat : k = Len(mstack)
      BY LenProperties DEF ContextType
    <2>1. /\ mstack' = Append(mstack, StackedFrame)
          /\ ipsr' = n
      BY <1>2 DEF ExceptionEntry
    <2>2. StackedFrame \in Frame
      BY DEF ContextType, StackedFrame, Frame
    <2>3. /\ mstack' \in Seq(Frame)
          /\ Len(mstack') = k + 1
          /\ \A i \in 1 .. k : mstack'[i] = mstack[i]
          /\ mstack'[k + 1] = StackedFrame
      BY <2>k, <2>1, <2>2, PushLemma DEF ContextType
    <2>4. /\ DOMAIN mstack = 1 .. k
          /\ DOMAIN mstack' = 1 .. k + 1
          /\ \A i \in 1 .. k : mstack[i].ipsr \in {0} \union Exc
      <3>1. \A i \in 1 .. k : mstack[i] \in Frame
        BY <2>k, ElementOfSeq DEF ContextType
      <3>. QED
        BY <2>k, <2>3, <3>1, LenProperties DEF ContextType, Frame
    <2>5. k # 0 => ipsr # 0
      BY <2>k, EmptySeq DEF StackDiscipline, ThreadModeIsBare
    <2>6. \A i \in 1 .. k : mstack[i].ipsr # 0 =>
            /\ prio[ipsr] < prio[mstack[i].ipsr]
            /\ \A j \in 1 .. k :
                 i < j => prio[mstack[j].ipsr] < prio[mstack[i].ipsr]
      BY <2>4 DEF NestedUrgency
    <2>7. ASSUME NEW i \in 1 .. k + 1, mstack'[i].ipsr # 0
          PROVE  /\ prio[n] < prio[mstack'[i].ipsr]
                 /\ \A j \in 1 .. k + 1 :
                      i < j => prio[mstack'[j].ipsr] < prio[mstack'[i].ipsr]
      <3>1. CASE i = k + 1
        BY <2>3, <2>7, <3>1 DEF StackedFrame
      <3>2. CASE i \in 1 .. k
        <4>1. /\ mstack'[i] = mstack[i] /\ mstack[i].ipsr \in Exc
              /\ ipsr \in Exc
          BY <2>3, <2>4, <2>5, <2>7, <3>2 DEF ContextType
        <4>2. prio[n] < prio[ipsr] /\ prio[ipsr] < prio[mstack[i].ipsr]
          BY <2>5, <2>6, <2>7, <3>2, <4>1
        <4>3. prio[n] < prio[mstack[i].ipsr]
          <5>1. /\ prio[n] \in Int
                /\ prio[ipsr] \in Int
                /\ prio[mstack[i].ipsr] \in Int
            BY <4>1
          <5>. QED
            BY <4>2, <5>1
        <4>4. ASSUME NEW j \in 1 .. k + 1, i < j
              PROVE  prio[mstack'[j].ipsr] < prio[mstack[i].ipsr]
          <5>1. CASE j = k + 1
            BY <2>3, <4>2, <5>1 DEF StackedFrame
          <5>2. CASE j \in 1 .. k
            BY <2>3, <2>6, <2>7, <3>2, <4>1, <4>4, <5>2
          <5>. QED
            BY <5>1, <5>2
        <4>. QED
          BY <4>1, <4>3, <4>4
      <3>. QED
        BY <3>1, <3>2
    <2>. QED
      BY <2>1, <2>4, <2>7 DEF NestedUrgency
  <1>. QED
    BY <1>1, <1>2

LEMMA ReturnNests ==
  ASSUME ContextType, StackDiscipline, NestedUrgency,
         prio' = prio, ipsr # 0, ExceptionReturn(lr)
  PROVE  NestedUrgency'
  <1>k. PICK k \in Nat : k = Len(mstack)
    BY LenProperties DEF ContextType
  <1>1. LinkMatches(lr, mstack, k)
    BY <1>k DEF StackDiscipline, HandlersAreLinked
  <1>2. CASE k = 0
    <2>1. mstack = <<>> /\ mstack' = mstack
      BY <1>k, <1>1, <1>2, EmptySeq DEF LinkMatches, ExceptionReturn, ContextType
    <2>. QED
      BY <2>1 DEF NestedUrgency
  <1>3. CASE k # 0
    <2>1. mstack # <<>> /\ lr # ToThreadProcess
      BY <1>k, <1>1, <1>3, EmptySeq
         DEF LinkMatches, ContextType, ToThreadMain, ToThreadProcess, ToHandler
    <2>2. /\ mstack' = Front(mstack)
          /\ lr = ToHandler => ipsr' = mstack[k].ipsr
      BY <1>k, <2>1, PopLemma DEF ExceptionReturn, ContextType, Last
    <2>3. /\ mstack' \in Seq(Frame)
          /\ Len(mstack') = k - 1
          /\ \A i \in 1 .. k - 1 : mstack'[i] = mstack[i]
      BY <1>k, <2>1, <2>2, PopLemma DEF ContextType
    <2>4. DOMAIN mstack = 1 .. k /\ DOMAIN mstack' = 1 .. k - 1
      BY <1>k, <2>3, LenProperties DEF ContextType
    <2>5. k > 1 => lr = ToHandler
      BY <1>1 DEF LinkMatches
    <2>6. \A i \in 1 .. k : mstack[i].ipsr # 0 =>
            \A j \in 1 .. k :
              i < j => prio[mstack[j].ipsr] < prio[mstack[i].ipsr]
      BY <2>4 DEF NestedUrgency
    <2>7. ASSUME NEW i \in 1 .. k - 1, mstack[i].ipsr # 0
          PROVE  /\ prio[ipsr'] < prio[mstack[i].ipsr]
                 /\ \A j \in 1 .. k - 1 :
                      i < j => prio[mstack[j].ipsr] < prio[mstack[i].ipsr]
      <3>1. ipsr' = mstack[k].ipsr
        BY <2>2, <2>5, <2>7
      <3>2. i \in 1 .. k /\ k \in 1 .. k /\ i < k
        BY <1>3
      <3>. QED
        BY <2>6, <2>7, <3>1, <3>2
    <2>. QED
      BY <2>3, <2>4, <2>7 DEF NestedUrgency
  <1>. QED
    BY <1>2, <1>3
UrgencyInv == CoreInv /\ NestedUrgency

LEMMA DisciplineSuffices == Disciplined => HandlersStayOnMain
  BY DEF HandlersStayOnMain

LEMMA UrgencyStep ==
  ASSUME Disciplined, UrgencyInv, [Next]_vars
  PROVE  UrgencyInv'
  <1>0. /\ ContextType /\ RequestType
        /\ StackDiscipline /\ ReturnIsQueuedByHandler
        /\ NestedUrgency
    BY CoreParts DEF UrgencyInv
  <1>1. CoreInv'
    BY CoreStep, DisciplineSuffices DEF UrgencyInv
  <1>. SUFFICES NestedUrgency'
    BY <1>1 DEF UrgencyInv
  <1>2. prio \in [Exc -> 0 .. 255]
    BY <1>0 DEF RequestType
  <1>3. CASE ChipReset
    BY <1>3 DEF ChipReset, PowerOnState, NestedUrgency
  <1>4. CASE UNCHANGED <<ipsr, mstack, prio>>
    BY <1>0, <1>4 DEF NestedUrgency
  <1>5. CASE CompleteReturn
    <2>1. CASE exc_return_pending # Code
      <3>1. ipsr # 0 /\ ExceptionReturn(lr) /\ prio' = prio
        BY <1>0, <1>5, <2>1
           DEF ReturnIsQueuedByHandler, CompleteReturn, requestVars
      <3>. QED
        BY <1>0, <3>1, ReturnNests
    <2>2. CASE exc_return_pending = Code
      BY <1>4, <1>5, <2>2 DEF CompleteReturn, contextVars, requestVars
    <2>. QED
      BY <2>1, <2>2
  <1>6. ASSUME NEW n \in Exc, ExceptionEntry(n), prio' = prio,
               OutranksCurrent(prio[n])
        PROVE  NestedUrgency'
    BY <1>0, <1>2, <1>6, EntryNests DEF OutranksCurrent
  <1>7. ASSUME NEW lines \in SUBSET Irq, NEW fires \in BOOLEAN,
               Preempt(lines, fires)
        PROVE  NestedUrgency'
    <2>1. Ready(lines, icsr_pendst \/ fires) \subseteq Exc
      BY <1>0, ConstantTypes DEF Ready, RequestType
    <2>2. prio' = prio
      BY <1>7 DEF Preempt
    <2>3. CASE UNCHANGED contextVars
      BY <1>4, <2>2, <2>3 DEF contextVars
    <2>4. CASE \E e \in Exc : ExceptionEntry(e) /\ OutranksCurrent(prio[e])
      BY <1>6, <2>2, <2>4
    <2>. QED
      BY <1>7, <2>1, <2>3, <2>4 DEF Preempt, Preempts
  <1>8. CASE Svc
    BY <1>6, <1>8, ConstantTypes DEF Svc, MaySvc, requestVars
  <1>9. ASSUME NEW w \in PrioWrites, WritePriorities(w)
        PROVE  NestedUrgency'
    <2>1. /\ ipsr' = ipsr /\ mstack' = mstack
          /\ prio' = [e \in Exc |-> IF e \in DOMAIN w THEN (w[e] \div 16) * 16
                                                     ELSE prio[e]]
          /\ DOMAIN w \intersect Active = {}
      BY <1>9 DEF WritePriorities, MayWritePrio, contextVars
    <2>2. \A e \in Active : e \in Exc => prio'[e] = prio[e]
      BY <2>1
    <2>3. \A i \in DOMAIN mstack :
            /\ mstack[i].ipsr \in {0} \union Exc
            /\ mstack[i].ipsr # 0 => mstack[i].ipsr \in Active
      <3>1. DOMAIN mstack = 1 .. Len(mstack)
        BY <1>0, LenProperties DEF ContextType
      <3>2. \A i \in DOMAIN mstack : mstack[i] \in Frame
        BY <1>0, <3>1, ElementOfSeq DEF ContextType
      <3>. QED
        BY <3>2 DEF Active, FramesOf, Frame
    <2>4. DOMAIN mstack # {} => ipsr \in Active /\ ipsr \in Exc
      BY <1>0 DEF StackDiscipline, ThreadModeIsBare, ContextType, Active
    <2>5. ASSUME NEW i \in DOMAIN mstack, mstack[i].ipsr # 0
          PROVE  /\ prio'[ipsr] < prio'[mstack[i].ipsr]
                 /\ \A j \in DOMAIN mstack :
                      i < j => prio'[mstack[j].ipsr] < prio'[mstack[i].ipsr]
      <3>1. \A j \in DOMAIN mstack : i < j => mstack[j].ipsr # 0
        <4>1. DOMAIN mstack = 1 .. Len(mstack) /\ Len(mstack) \in Nat
          BY <1>0, LenProperties DEF ContextType
        <4>2. \A j \in 1 .. Len(mstack) : mstack[j].ipsr = 0 => j = 1
          BY <1>0 DEF StackDiscipline, HandlersAreLinked
        <4>. QED
          BY <4>1, <4>2
      <3>2. /\ prio[ipsr] < prio[mstack[i].ipsr]
            /\ \A j \in DOMAIN mstack :
                 i < j => prio[mstack[j].ipsr] < prio[mstack[i].ipsr]
        BY <1>0, <2>5 DEF NestedUrgency
      <3>. QED
        BY <2>2, <2>3, <2>4, <2>5, <3>1, <3>2
    <2>. QED
      BY <2>1, <2>5 DEF NestedUrgency
  <1>10. CASE Execute
    <2>1. ASSUME NEW s \in SUBSET Irq, WriteNvicEnable(s) \/ WriteNvicPending(s)
          PROVE  NestedUrgency'
      BY <1>4, <2>1 DEF WriteNvicEnable, WriteNvicPending, contextVars
    <2>2. ASSUME NEW bits \in SUBSET IcsrBits, WriteIcsr(bits)
          PROVE  NestedUrgency'
      BY <1>4, <2>2 DEF WriteIcsr, contextVars
    <2>3. CASE \/ Compute \/ BranchToExcReturn \/ WritePrimask
               \/ WriteBasepri \/ WriteFaultmask \/ WriteControl
               \/ SwitchThread \/ RequestReset
      BY <1>4, <2>3
         DEF Compute, BranchToExcReturn, WritePrimask, WriteBasepri,
             WriteFaultmask, WriteControl, SwitchThread, RequestReset,
             contextVars, requestVars
    <2>. QED
      BY <1>8, <1>9, <1>10, <2>1, <2>2, <2>3 DEF Execute
  <1>11. CASE UNCHANGED vars
    BY <1>4, <1>11 DEF vars, contextVars, requestVars
  <1>. QED
    BY <1>3, <1>5, <1>7, <1>10, <1>11 DEF Next

(* With a disciplined firmware an exception only ever preempts handlers    *)
(* that are strictly less urgent, so none is active twice and the depth of *)
(* nesting is at most the number of priorities (take_pending_exception).   *)
THEOREM HandlersNestByUrgency ==
  ASSUME Disciplined
  PROVE  Spec => []NestedUrgency
  <1>1. Init => UrgencyInv
    <2>1. Init => NestedUrgency
      BY DEF Init, NestedUrgency
    <2>. QED
      BY <2>1, CoreInit DEF UrgencyInv
  <1>2. UrgencyInv /\ [Next]_vars => UrgencyInv'
    BY UrgencyStep
  <1>3. UrgencyInv => NestedUrgency
    BY DEF UrgencyInv
  <1>. QED
    BY <1>1, <1>2, <1>3, PTL DEF Spec
(***************************************************************************)
(* The decision leaves nothing behind that should have preempted           *)
(***************************************************************************)

LEMMA LeastElement ==
  ASSUME NEW T, T \subseteq Nat, T # {}
  PROVE  \E x \in T : \A y \in T : x <= y
  <1>. DEFINE R == {ss \in Nat \X Nat : ss[1] < ss[2]}
  <1>1. R = OpToRel(<, Nat)
    BY Zenon DEF OpToRel
  <1>2. IsWellFoundedOn(R, Nat)
    BY <1>1, NatLessThanWellFounded, Zenon
  <1>4. \A x, y \in Nat : <<y, x>> \in R <=> y < x
    OBVIOUS
  <1>. HIDE DEF R
  <1>3. PICK x \in T : \A y \in T : ~ (<<y, x>> \in R)
    BY <1>2, WFMin, Zenon
  <1>5. \A y \in T : ~ (y < x)
    BY <1>3, <1>4, Zenon
  <1>. QED
    BY <1>5

(* Among any exceptions that wait, the scan finds one to enter. *)
LEMMA SomeCandidateIsBest ==
  ASSUME prio \in [Exc -> 0 .. 255], NEW S \in SUBSET Exc, S # {}
  PROVE  \E e \in S : IsBest(e, S)
  <1>1. PICK e1 \in S : \A f \in S : prio[e1] <= prio[f]
    <2>1. {prio[e] : e \in S} \subseteq Nat /\ {prio[e] : e \in S} # {}
      OBVIOUS
    <2>2. \E p \in {prio[e] : e \in S} : \A q \in {prio[e] : e \in S} : p <= q
      BY <2>1, LeastElement
    <2>. QED
      BY <2>2
  <1>. DEFINE M == {e \in S : prio[e] = prio[e1]}
  <1>2. \A e \in Exc : ScanPosition(e) \in Nat
    BY ConstantTypes DEF ScanPosition
  <1>3. PICK e2 \in M : \A f \in M : ScanPosition(e2) <= ScanPosition(f)
    <2>1. {ScanPosition(e) : e \in M} \subseteq Nat
      BY <1>2
    <2>2. {ScanPosition(e) : e \in M} # {}
      OBVIOUS
    <2>3. \E p \in {ScanPosition(e) : e \in M} :
            \A q \in {ScanPosition(e) : e \in M} : p <= q
      BY <2>1, <2>2, LeastElement
    <2>. QED
      BY <2>3
  <1>4. \A e, f \in Exc : ScanPosition(e) = ScanPosition(f) => e = f
    <2>1. \A e \in Exc : e \in Nat /\ (e \in Irq => e > 15)
      BY ConstantTypes, IrqAssumption
    <2>. QED
      BY <2>1 DEF ScanPosition, Exc, SVCall, PendSV, SysTick
  <1>5. ASSUME NEW f \in S \ {e2}
        PROVE  Beats(e2, f)
    <2>1. prio[e2] = prio[e1] /\ prio[e1] <= prio[f]
      BY <1>1
    <2>2. CASE prio[f] = prio[e1]
      <3>1. ScanPosition(e2) <= ScanPosition(f)
        BY <1>3, <2>2
      <3>2. ScanPosition(e2) # ScanPosition(f)
        BY <1>4
      <3>. QED
        BY <1>2, <2>1, <2>2, <3>1, <3>2 DEF Beats
    <2>3. CASE prio[f] # prio[e1]
      <3>1. prio[e1] \in Int /\ prio[f] \in Int
        OBVIOUS
      <3>. QED
        BY <2>1, <2>3, <3>1 DEF Beats
    <2>. QED
      BY <2>2, <2>3
  <1>. QED
    BY <1>5 DEF IsBest

LEMMA DecisionStep ==
  ASSUME CoreInv, NothingUrgentWaits, [Next]_vars
  PROVE  NothingUrgentWaits'
  <1>0. ContextType /\ RequestType
    BY CoreParts
  <1>1. CASE phase' # "execute"
    BY <1>1 DEF NothingUrgentWaits
  <1>2. ASSUME NEW lines \in SUBSET Irq, NEW fires \in BOOLEAN,
               Preempt(lines, fires)
        PROVE  NothingUrgentWaits'
    <2>. DEFINE pendst == icsr_pendst \/ fires
                ready  == Ready(lines, pendst)
    <2>1. ready \subseteq Exc
      BY <1>0, ConstantTypes DEF Ready, RequestType
    <2>2. /\ prio \in [Exc -> 0 .. 255] /\ prio' = prio
          /\ irq_level' = lines /\ nvic_enable' = nvic_enable
          /\ UNCHANGED maskVars
      BY <1>0, <1>2 DEF Preempt, RequestType
    <2>5. \A e \in Exc : prio[e] \in Int
      BY <2>2
    <2>3. ASSUME \A e \in ready : ~Preempts(e, ready),
                 icsr_pendst' = pendst,
                 UNCHANGED <<contextVars, icsr_pendsv, nvic_pending>>
          PROVE  NothingUrgentWaits'
      <3>1. UNCHANGED contextVars /\ Ready(irq_level, icsr_pendst)' = ready
        BY <2>2, <2>3 DEF Ready
      <3>2. ASSUME NEW e \in ready, OutranksCurrent(prio[e])
            PROVE  FALSE
        <4>1. PICK b \in ready : IsBest(b, ready)
          BY <2>1, <2>2, SomeCandidateIsBest
        <4>2. prio[b] <= prio[e] /\ prio[b] \in Int /\ prio[e] \in Int
          BY <2>1, <2>2, <4>1 DEF IsBest, Beats
        <4>3. ipsr # 0 => prio[ipsr] \in Int
          BY <1>0, <2>5, Zenon DEF ContextType
        <4>4. (basepri \div 16) * 16 \in Int
          BY <1>0 DEF RequestType
        <4>5. OutranksCurrent(prio[b])
          BY <3>2, <4>2, <4>3, <4>4 DEF OutranksCurrent
        <4>. QED
          BY <2>3, <4>1, <4>5 DEF Preempts
      <3>. QED
        BY <2>2, <3>1, <3>2
           DEF NothingUrgentWaits, OutranksCurrent, contextVars, maskVars
    <2>4. ASSUME NEW b \in ready, Preempts(b, ready), ExceptionEntry(b),
                 icsr_pendst' = (pendst /\ b # SysTick),
                 icsr_pendsv' = (icsr_pendsv /\ b # PendSV),
                 nvic_pending' = nvic_pending \ {b}
          PROVE  NothingUrgentWaits'
      <3>1. ipsr' = b /\ b # 0
        BY <2>1, <2>4, ConstantTypes DEF ExceptionEntry
      <3>2. Ready(irq_level, icsr_pendst)' \subseteq ready
        BY <2>2, <2>4 DEF Ready
      <3>3. \A e \in ready : ~(prio[e] < prio[b])
        BY <2>1, <2>4, <2>5 DEF Preempts, IsBest, Beats
      <3>. QED
        BY <2>2, <3>1, <3>2, <3>3 DEF NothingUrgentWaits, OutranksCurrent
    <2>. QED
      BY <1>2, <2>3, <2>4 DEF Preempt
  <1>3. CASE ChipReset \/ CompleteReturn \/ Execute
    BY <1>1, <1>3
       DEF ChipReset, PowerOnState, CompleteReturn, Execute, Compute,
           BranchToExcReturn, Svc, WritePrimask, WriteBasepri, WriteFaultmask,
           WriteControl, SwitchThread, WriteNvicEnable, WriteNvicPending,
           WriteIcsr, WritePriorities, RequestReset, Executes
  <1>4. CASE UNCHANGED vars
    BY <1>4 DEF vars, contextVars, requestVars, maskVars, NothingUrgentWaits,
                Ready, OutranksCurrent
  <1>. QED
    BY <1>2, <1>3, <1>4 DEF Next

(* One preemption decision per step is enough: no instruction executes     *)
(* while something that outranks it waits, right after a return too (step, *)
(* take_pending_exception).                                                *)
THEOREM DecisionsAreComplete ==
  ASSUME HandlersStayOnMain
  PROVE  Spec => []NothingUrgentWaits
  <1>1. Init => CoreInv /\ NothingUrgentWaits
    BY CoreInit DEF Init, NothingUrgentWaits
  <1>2. CoreInv /\ NothingUrgentWaits /\ [Next]_vars
          => (CoreInv /\ NothingUrgentWaits)'
    BY CoreStep, DecisionStep
  <1>. QED
    BY <1>1, <1>2, PTL DEF Spec

(***************************************************************************)
(* What stays of a request                                                 *)
(***************************************************************************)

(* An entry shows on one of the stacks.                                    *)
LEMMA EntryLeavesFrame ==
  ASSUME ContextType, NEW n \in Exc, ExceptionEntry(n)
  PROVE  mstack' # mstack \/ pstack' # pstack
  <1>1. StackedFrame \in Frame
    BY DEF ContextType, StackedFrame, Frame
  <1>2. \A s \in Seq(Frame) : Append(s, StackedFrame) # s
    <2>. TAKE s \in Seq(Frame)
    <2>1. Len(Append(s, StackedFrame)) = Len(s) + 1 /\ Len(s) \in Nat
      BY <1>1, PushLemma, LenProperties
    <2>. QED
      BY <2>1
  <1>3. CASE sp_sel = "Process"
    <2>1. pstack'[psp] = Append(pstack[psp], StackedFrame) /\ pstack[psp] \in Seq(Frame)
      BY <1>3 DEF ExceptionEntry, ContextType
    <2>. QED
      BY <1>2, <2>1
  <1>4. CASE sp_sel # "Process"
    BY <1>2, <1>4 DEF ExceptionEntry, ContextType
  <1>. QED
    BY <1>3, <1>4

RequestIsKept ==
  /\ \A e \in nvic_pending \ nvic_pending' :
       Takes(e) \/ phase = "execute" \/ sysreset_request
  /\ icsr_pendsv /\ ~icsr_pendsv' =>
       Takes(PendSV) \/ phase = "execute" \/ sysreset_request
  /\ icsr_pendst /\ ~icsr_pendst' =>
       Takes(SysTick) \/ phase = "execute" \/ sysreset_request

LEMMA RequestStep ==
  ASSUME CoreInv, [Next]_vars
  PROVE  RequestIsKept
  <1>0. ContextType /\ RequestType
    BY CoreParts
  <1>1. CASE ChipReset \/ Execute
    BY <1>1
       DEF ChipReset, Execute, Compute, BranchToExcReturn, Svc, WritePrimask,
           WriteBasepri, WriteFaultmask, WriteControl, SwitchThread,
           WriteNvicEnable, WriteNvicPending, WriteIcsr, WritePriorities,
           RequestReset, Executes, RequestIsKept
  <1>2. CASE CompleteReturn \/ UNCHANGED vars
    BY <1>2 DEF CompleteReturn, vars, requestVars, RequestIsKept
  <1>3. ASSUME NEW lines \in SUBSET Irq, NEW fires \in BOOLEAN,
               Preempt(lines, fires)
        PROVE  RequestIsKept
    <2>. DEFINE pendst == icsr_pendst \/ fires
                ready  == Ready(lines, pendst)
    <2>1. ready \subseteq Exc /\ nvic_pending \subseteq Exc
      BY <1>0, ConstantTypes DEF Ready, RequestType
    <2>2. CASE icsr_pendst' = pendst /\ UNCHANGED <<icsr_pendsv, nvic_pending>>
      BY <2>2 DEF RequestIsKept
    <2>3. ASSUME NEW e \in ready, ExceptionEntry(e),
                 icsr_pendst' = (pendst /\ e # SysTick),
                 icsr_pendsv' = (icsr_pendsv /\ e # PendSV),
                 nvic_pending' = nvic_pending \ {e}
          PROVE  RequestIsKept
      <3>1. Takes(e)
        BY <1>0, <1>3, <2>1, <2>3, EntryLeavesFrame DEF Takes, Preempt, ExceptionEntry
      <3>. QED
        BY <2>3, <3>1 DEF RequestIsKept
    <2>. QED
      BY <1>3, <2>2, <2>3 DEF Preempt
  <1>. QED
    BY <1>1, <1>2, <1>3 DEF Next

(* A request leaves the latches only by its own handler's entry, by the    *)
(* firmware or by a reset, whatever preempts, returns or is tail-chained   *)
(* in between (take_pending_exception).                                    *)
THEOREM RequestsAreKept ==
  ASSUME HandlersStayOnMain
  PROVE  Spec => RequestsSurvive
  <1>1. Init => CoreInv
    BY CoreInit
  <1>2. CoreInv /\ [Next]_vars => CoreInv' /\ [RequestIsKept]_vars
    BY CoreStep, RequestStep
  <1>. QED
    BY <1>1, <1>2, PTL DEF Spec, RequestsSurvive, RequestIsKept

(* Priorities, masks, EXC_RETURN values and stacks stay what the registers *)
(* can hold (ppb_write, exception_entry, exception_return).                *)
THEOREM TypesAreKept ==
  ASSUME HandlersStayOnMain
  PROVE  Spec => []TypeInvariant
  <1>1. Spec => [](TypeInvariant /\ FrameDiscipline)
    BY FramesAreInOrder
  <1>. QED
    BY <1>1, PTL

(***************************************************************************)
(* The shape of the tower                                                  *)
(***************************************************************************)

(* What the tower shows at height k.                                       *)
Level(k) ==
  IF k + ThreadFrames <= Len(mstack)
    THEN [exc |-> mstack[k + ThreadFrames].ipsr, regs |-> mstack[k + ThreadFrames].regs]
    ELSE [exc |-> ipsr, regs |-> regs]

Height == IF ipsr = 0 THEN 0 ELSE Len(mstack) - ThreadFrames + 1

(* Where the main stack has a thread's frame, and where it has handlers'.  *)
LEMMA MainStack ==
  ASSUME ContextType, StackDiscipline
  PROVE  /\ Len(mstack) \in Nat /\ ThreadFrames \in {0, 1}
         /\ ThreadFrames <= Len(mstack)
         /\ mstack = <<>> <=> Len(mstack) = 0
         /\ ThreadFrames = 1 <=> Len(mstack) # 0 /\ mstack[1].ipsr = 0
         /\ \A i \in 1 .. Len(mstack) : mstack[i] \in Frame
         /\ \A i \in ThreadFrames + 1 .. Len(mstack) : mstack[i].ipsr \in Exc
         /\ ipsr = 0 => mstack = <<>> /\ ThreadFrames = 0
<1>1. Len(mstack) \in Nat /\ \A i \in 1 .. Len(mstack) : mstack[i] \in Frame
  BY LenProperties, ElementOfSeq DEF ContextType
<1>2. mstack = <<>> <=> Len(mstack) = 0
  BY EmptySeq DEF ContextType
<1>3. /\ ThreadFrames \in {0, 1}
      /\ ThreadFrames = 1 <=> Len(mstack) # 0 /\ mstack[1].ipsr = 0
  BY <1>2 DEF ThreadFrames
<1>4. \A i \in 1 .. Len(mstack) : mstack[i].ipsr = 0 => i = 1
  BY DEF StackDiscipline, HandlersAreLinked
<1>5. \A i \in ThreadFrames + 1 .. Len(mstack) : mstack[i].ipsr \in Exc
  BY <1>1, <1>3, <1>4 DEF Frame
<1> QED
  BY <1>1, <1>2, <1>3, <1>5 DEF StackDiscipline, ThreadModeIsBare

TowerHasShape ==
  /\ Height \in Nat
  /\ Tower \in Seq(Nesting!Activation)
  /\ Len(Tower) = Height
  /\ \A k \in 1 .. Height : Tower[k] = Level(k)

LEMMA TowerShape ==
  ASSUME ContextType, StackDiscipline
  PROVE  TowerHasShape
<1>1. Height \in Nat
  BY MainStack DEF Height
<1>2. Tower = [k \in 1 .. Height |-> Level(k)]
  BY DEF Tower, Height, Level
<1>3. ASSUME NEW k \in 1 .. Height PROVE Level(k) \in Nesting!Activation
  <2>1. ipsr \in Exc /\ regs \in Regs
    BY <1>3 DEF Height, ContextType
  <2>2. CASE k + ThreadFrames <= Len(mstack)
    <3>1. /\ k + ThreadFrames \in ThreadFrames + 1 .. Len(mstack)
          /\ k + ThreadFrames \in 1 .. Len(mstack)
      BY <1>1, <2>2, MainStack
    <3>2. mstack[k + ThreadFrames].ipsr \in Exc /\ mstack[k + ThreadFrames].regs \in Regs
      BY <3>1, MainStack DEF Frame
    <3> QED
      BY <2>2, <3>2 DEF Level, Nesting!Activation
  <2>3. CASE ~(k + ThreadFrames <= Len(mstack))
    BY <2>1, <2>3 DEF Level, Nesting!Activation
  <2> QED
    BY <2>2, <2>3
<1> QED
  BY <1>1, <1>2, <1>3 DEF TowerHasShape

LEMMA NextTowerShape == ContextType' /\ StackDiscipline' => TowerHasShape'
<1>1. ContextType /\ StackDiscipline => TowerHasShape
  BY TowerShape
<1> QED
  BY <1>1, PTL

(***************************************************************************)
(* Steps                                                                   *)
(***************************************************************************)

(* The registers of a thread, where it is.                                 *)
LEMMA ThreadRegsTyped ==
  ASSUME ContextType, StackDiscipline
  PROVE  ThreadRegs \in [Threads -> Regs]
<1>1. ASSUME NEW t \in Threads
      PROVE  (IF pstack[t] # <<>> THEN pstack[t][1].regs
              ELSE IF ipsr = 0 THEN regs ELSE mstack[1].regs) \in Regs
  <2>1. CASE pstack[t] # <<>>
    <3>1. pstack[t] \in Seq(Frame)
      BY DEF ContextType
    <3>2. 1 \in 1 .. Len(pstack[t])
      BY <2>1, <3>1, EmptySeq
    <3>3. pstack[t][1] \in Frame
      BY <3>1, <3>2, ElementOfSeq
    <3> QED
      BY <2>1, <3>3 DEF Frame
  <2>2. CASE pstack[t] = <<>>
    <3>1. OffProcessStack(t)
      BY <2>2 DEF StackDiscipline, ThreadsAreParked
    <3>2. CASE ipsr = 0
      BY <2>2, <3>2 DEF ContextType
    <3>3. CASE ipsr # 0
      <4>1. 1 \in 1 .. Len(mstack)
        BY <3>1, <3>3, MainStack DEF OffProcessStack
      <4>2. mstack[1].regs \in Regs
        BY <4>1, MainStack DEF Frame
      <4> QED
        BY <2>2, <3>3, <4>2
    <3> QED
      BY <3>2, <3>3
  <2> QED
    BY <2>1, <2>2
<1> QED
  BY <1>1 DEF ThreadRegs

(* One activation more on top, or one less.                                *)
LEMMA TowerGrows ==
  ASSUME TowerHasShape, TowerHasShape', NEW a \in Nesting!Activation,
         Height' = Height + 1, \A k \in 1 .. Height : Level(k)' = Level(k),
         \A k : k = Height + 1 => Level(k)' = a
  PROVE  Tower' = Append(Tower, a)
<1> DEFINE t == Append(Tower, a)
<1>1. /\ t \in Seq(Nesting!Activation) /\ Len(t) = Height + 1
      /\ \A k \in 1 .. Height : t[k] = Tower[k]
      /\ t[Height + 1] = a
  BY PushLemma DEF TowerHasShape
<1>2. /\ Tower' \in Seq(Nesting!Activation) /\ Len(Tower') = Height + 1
      /\ \A k \in 1 .. Height + 1 : Tower'[k] = Level(k)'
  BY DEF TowerHasShape
<1> HIDE DEF t
<1>3. \A k \in 1 .. Height + 1 : Tower'[k] = t[k]
  <2> TAKE k \in 1 .. Height + 1
  <2>1. CASE k = Height + 1
    BY <1>1, <1>2, <2>1
  <2>2. CASE k \in 1 .. Height
    <3>1. Tower[k] = Level(k) /\ t[k] = Tower[k]
      BY <1>1, <2>2 DEF TowerHasShape
    <3>2. Tower'[k] = Level(k)'
      BY <1>2
    <3> QED
      BY <2>2, <3>1, <3>2
  <2>3. k \in 1 .. Height \/ k = Height + 1
    <3>1. Height \in Nat
      BY DEF TowerHasShape
    <3> QED
      BY <3>1
  <2> QED
    BY <2>1, <2>2, <2>3
<1> QED
  BY <1>1, <1>2, <1>3, SeqEqual DEF t

LowerLevelsStay == \A k \in 1 .. Height - 1 : Level(k)' = Level(k)

LEMMA TowerShrinks ==
  ASSUME TowerHasShape, TowerHasShape', Height # 0,
         Height' = Height - 1, LowerLevelsStay
  PROVE  Tower # <<>> /\ Tower' = Front(Tower)
<1>1. Tower # <<>>
  BY DEF TowerHasShape
<1>2. /\ Front(Tower) \in Seq(Nesting!Activation) /\ Len(Front(Tower)) = Height - 1
      /\ \A k \in 1 .. Height - 1 : Front(Tower)[k] = Tower[k]
  BY <1>1, PopLemma DEF TowerHasShape
<1>3. /\ Tower' \in Seq(Nesting!Activation) /\ Len(Tower') = Height - 1
      /\ \A k \in 1 .. Height - 1 : Tower'[k] = Front(Tower)[k]
  BY <1>2 DEF TowerHasShape, LowerLevelsStay
<1> QED
  BY <1>1, <1>2, <1>3, SeqEqual

(* An entry adds one activation to the tower and keeps all others.         *)
LEMMA EntryBuilds ==
  ASSUME ContextType, StackDiscipline, NEW n \in Exc, ExceptionEntry(n)
  PROVE  Nesting!Enter
<1> DEFINE a == [exc |-> n, regs |-> VectorRegs]
<1>1. ContextType' /\ StackDiscipline'
  BY EntryKeepsStacks
<1>2. TowerHasShape /\ TowerHasShape'
  BY <1>1, TowerShape, NextTowerShape
<1>3. /\ n # 0 /\ ipsr' = n /\ regs' = VectorRegs /\ psp' = psp
      /\ a \in Nesting!Activation
  BY ConstantTypes, RegsAssumption DEF ExceptionEntry, Nesting!Activation
<1>4. StackedFrame \in Frame
  BY DEF ContextType, StackedFrame, Frame
<1>5. CASE sp_sel = "Process"
  <2>1. ipsr = 0 /\ mstack = <<>> /\ mstack' = <<>>
    BY <1>5 DEF StackDiscipline, HandlersAreLinked, ThreadModeIsBare, ExceptionEntry
  <2>2. pstack[psp] = <<>>
    BY <2>1 DEF StackDiscipline, ThreadsAreParked, OffProcessStack, ContextType
  <2>3. pstack' = [pstack EXCEPT ![psp] = <<StackedFrame>>]
    BY <1>5, <2>2 DEF ExceptionEntry
  <2>4. Height = 0 /\ Height' = 1 /\ Level(1)' = a
    BY <1>3, <2>1 DEF Height, ThreadFrames, Level
  <2>5. Tower' = Append(Tower, a)
    BY <1>2, <1>3, <2>4 DEF TowerHasShape
  <2>6. ThreadRegs' = ThreadRegs
    BY <2>1, <2>2, <2>3 DEF ThreadRegs, StackDiscipline, ThreadsAreParked, OffProcessStack, ContextType, StackedFrame
  <2> QED
    BY <1>3, <2>5, <2>6 DEF Nesting!Enter
<1>6. CASE sp_sel = "Main"
  <2>1. mstack' = Append(mstack, StackedFrame) /\ pstack' = pstack
    BY <1>6 DEF ExceptionEntry
  <2>2. /\ Len(mstack') = Len(mstack) + 1 /\ mstack' # <<>>
        /\ \A i \in 1 .. Len(mstack) : mstack'[i] = mstack[i]
        /\ mstack'[Len(mstack) + 1] = StackedFrame
    BY <1>4, <2>1, PushLemma DEF ContextType
  <2>3. CASE ipsr = 0
    <3>1. mstack = <<>> /\ mstack'[1].ipsr = 0 /\ Len(mstack') = 1 /\ mstack'[1].regs = regs
      BY <2>2, <2>3, MainStack DEF StackedFrame
    <3>2. Height = 0 /\ Height' = 1 /\ Level(1)' = a
      BY <1>3, <2>2, <2>3, <3>1 DEF Height, ThreadFrames, Level
    <3>3. Tower' = Append(Tower, a)
      BY <1>2, <1>3, <3>2 DEF TowerHasShape
    <3>4. ThreadRegs' = ThreadRegs
      BY <1>3, <2>1, <2>3, <3>1 DEF ThreadRegs
    <3> QED
      BY <1>3, <3>3, <3>4 DEF Nesting!Enter
  <2>4. CASE ipsr # 0
    <3>1. ThreadFrames' = ThreadFrames
      BY <2>2, <2>4, MainStack DEF ThreadFrames, StackedFrame
    <3>2. /\ Height = Len(mstack) - ThreadFrames + 1 /\ Height' = Height + 1
          /\ Height + ThreadFrames = Len(mstack) + 1
      BY <1>3, <2>2, <2>4, <3>1, MainStack DEF Height
    <3>3. ASSUME NEW k \in 1 .. Height PROVE Level(k)' = Level(k)
      <4>1. CASE k = Height
        BY <2>2, <3>1, <3>2, <4>1, MainStack DEF Level, StackedFrame
      <4>2. CASE k # Height
        <5>1. k + ThreadFrames \in 1 .. Len(mstack)
          <6>1. PICK h \in Nat, f \in {0, 1}, l \in Nat :
                  h = Height /\ f = ThreadFrames /\ l = Len(mstack) /\ h + f = l + 1
            BY <1>2, <3>2, MainStack DEF TowerHasShape
          <6> QED
            BY <4>2, <6>1
        <5> QED
          BY <2>2, <3>1, <5>1, MainStack DEF Level
      <4> QED
        BY <4>1, <4>2
    <3>5. \A k : k = Height + 1 => Level(k)' = a
      BY <1>3, <2>2, <3>1, <3>2, MainStack DEF Level
    <3>6. Tower' = Append(Tower, a)
      BY <1>2, <1>3, <3>2, <3>3, <3>5, TowerGrows
    <3>4. ThreadRegs' = ThreadRegs
      BY <1>3, <2>1, <2>2, <2>4, MainStack DEF ThreadRegs, StackDiscipline, ThreadsAreParked, OffProcessStack
    <3> QED
      BY <1>3, <3>4, <3>6 DEF Nesting!Enter
  <2> QED
    BY <2>3, <2>4
<1> QED
  BY <1>5, <1>6 DEF ContextType

(* A return takes the topmost activation off the tower.                    *)
LEMMA ReturnUnbuilds ==
  ASSUME ContextType, StackDiscipline, ipsr # 0, ExceptionReturn(lr)
  PROVE  Nesting!Leave
<1>1. ContextType' /\ StackDiscipline'
  BY ReturnKeepsStacks
<1>2. TowerHasShape /\ TowerHasShape'
  BY <1>1, TowerShape, NextTowerShape
<1>3. psp' = psp /\ LinkMatches(lr, mstack, Len(mstack))
  BY DEF ExceptionReturn, StackDiscipline, HandlersAreLinked
<1>4. /\ Height = Len(mstack) - ThreadFrames + 1
      /\ Height # 0
  BY MainStack DEF Height
<1>5. CASE Len(mstack) = 0
  <2>1. lr = ToThreadProcess /\ mstack = <<>> /\ ThreadFrames = 0
    BY <1>3, <1>5, MainStack DEF LinkMatches
  <2>2. /\ pstack[psp] \in Seq(Frame) /\ Len(pstack[psp]) = 1 /\ pstack[psp] # <<>>
    BY <2>1, EmptySeq DEF StackDiscipline, ThreadsAreParked, OffProcessStack, ContextType
  <2>3. /\ Front(pstack[psp]) = <<>> /\ Last(pstack[psp]) = pstack[psp][1]
    <3>1. PICK s \in Seq(Frame) : s = pstack[psp]
      BY <2>2
    <3>2. Front(s) \in Seq(Frame) /\ Len(Front(s)) = Len(s) - 1 /\ Last(s) = s[Len(s)]
      BY <2>2, <3>1, PopLemma
    <3>3. Len(Front(s)) = 0 /\ Last(s) = s[1]
      BY <2>2, <3>1, <3>2
    <3> QED
      BY <3>1, <3>2, <3>3, EmptySeq
  <2>4. /\ ipsr' = 0 /\ mstack' = mstack /\ regs' = pstack[psp][1].regs
        /\ pstack' = [pstack EXCEPT ![psp] = <<>>]
    BY <2>1, <2>3 DEF ExceptionReturn, ToThreadProcess, ToHandler
  <2>5. Height = 1 /\ Height' = 0
    BY <1>4, <1>5, <2>1, <2>4 DEF Height
  <2>6. ThreadRegs' = ThreadRegs
    BY <1>3, <2>1, <2>2, <2>4 DEF ThreadRegs, StackDiscipline, ThreadsAreParked, OffProcessStack, ContextType
  <2> QED
    <3>1. LowerLevelsStay
      BY <2>5 DEF LowerLevelsStay
    <3>2. Tower # <<>> /\ Tower' = Front(Tower)
      BY <1>2, <2>5, <3>1, TowerShrinks
    <3> QED
      BY <1>3, <2>6, <3>2 DEF Nesting!Leave, Nesting!Front, Front
<1>6. CASE Len(mstack) # 0
  <2> DEFINE n == Len(mstack)
  <2>1. n \in Nat \ {0} /\ mstack # <<>>
    BY <1>6, MainStack
  <2>2. /\ lr # ToThreadProcess
        /\ lr = ToHandler \/ mstack[n].ipsr = 0
    BY <1>3, <2>1 DEF LinkMatches, ToThreadMain, ToThreadProcess, ToHandler
  <2>3. lr # ToHandler => mstack[n].ipsr = 0
    BY <2>2
  <2>4. /\ mstack' = Front(mstack) /\ pstack' = pstack
        /\ regs' = mstack[n].regs /\ ipsr' = mstack[n].ipsr
    BY <2>1, <2>2, PopLemma DEF ExceptionReturn, ContextType
  <2>5. /\ Len(mstack') = n - 1
        /\ \A i \in 1 .. n - 1 : mstack'[i] = mstack[i]
        /\ mstack' = <<>> <=> n = 1
    <3>1. mstack' \in Seq(Frame) /\ Len(mstack') = n - 1
      BY <2>1, <2>4, PopLemma DEF ContextType
    <3>2. \A i \in 1 .. n - 1 : mstack'[i] = mstack[i]
      BY <2>1, <2>4, PopLemma DEF ContextType
    <3>3. mstack' = <<>> <=> n - 1 = 0
      BY <3>1, EmptySeq
    <3> QED
      BY <2>1, <3>1, <3>2, <3>3
  <2> HIDE DEF n
  <2>6. CASE mstack[n].ipsr = 0
    <3>1. n = 1 /\ ThreadFrames = 1
      <4>1. n \in 1 .. n
        BY <2>1
      <4>2. n = 1
        BY <2>6, <4>1 DEF n, StackDiscipline, HandlersAreLinked
      <4> QED
        BY <2>1, <2>6, <4>2, MainStack DEF n
    <3>2. Height = 1 /\ Height' = 0
      BY <1>4, <2>4, <2>6, <3>1 DEF Height, n
    <3>3. ThreadRegs' = ThreadRegs
      BY <2>4, <2>6, <3>1 DEF ThreadRegs
    <3> QED
      <4>1. LowerLevelsStay
        BY <3>2 DEF LowerLevelsStay
      <4>2. Tower # <<>> /\ Tower' = Front(Tower)
        BY <1>2, <3>2, <4>1, TowerShrinks
      <4> QED
        BY <1>3, <3>3, <4>2 DEF Nesting!Leave, Nesting!Front, Front
  <2>7. CASE mstack[n].ipsr # 0
    <3>1. ThreadFrames' = ThreadFrames /\ ipsr' # 0
      BY <2>1, <2>4, <2>5, <2>7, MainStack DEF n, ThreadFrames
    <3>2. Height' = Height - 1
      BY <1>4, <2>1, <2>5, <3>1, MainStack DEF Height, n
    <3>3. ASSUME NEW k \in 1 .. Height - 1 PROVE Level(k)' = Level(k)
      <4>1. k + ThreadFrames \in 1 .. n
        BY <1>4, <2>1, <3>3, MainStack DEF n
      <4>2. CASE k + ThreadFrames = n
        BY <2>1, <2>4, <2>5, <3>1, <4>2 DEF Level, n
      <4>3. CASE k + ThreadFrames \in 1 .. n - 1
        BY <2>1, <2>5, <3>1, <4>3 DEF Level, n
      <4> QED
        BY <2>1, <4>1, <4>2, <4>3
    <3>4. ThreadRegs' = ThreadRegs
      <4>1. \A t \in Threads : pstack[t] = <<>> => mstack # <<>> /\ mstack[1].ipsr = 0
        BY DEF StackDiscipline, ThreadsAreParked, OffProcessStack
      <4>2. mstack[1].ipsr = 0 => mstack'[1] = mstack[1]
        BY <2>1, <2>5, <2>7
      <4> QED
        BY <2>4, <3>1, <4>1, <4>2 DEF ThreadRegs
    <3> QED
      <4>1. LowerLevelsStay
        BY <3>3 DEF LowerLevelsStay
      <4>2. Tower # <<>> /\ Tower' = Front(Tower)
        BY <1>2, <1>4, <3>2, <4>1, TowerShrinks
      <4> QED
        BY <1>3, <3>4, <4>2 DEF Nesting!Leave, Nesting!Front, Front
  <2> QED
    BY <2>6, <2>7
<1> QED
  BY <1>5, <1>6

(* An instruction changes the registers of the topmost activation only.    *)
LEMMA ComputeWorks ==
  ASSUME ContextType, StackDiscipline, TowerHasShape', Compute
  PROVE  Nesting!Work
<1>1. TowerHasShape
  BY TowerShape
<1>2. /\ regs' \in Regs
      /\ UNCHANGED <<ipsr, psp, mstack, pstack>>
  BY DEF Compute
<1>3. Height' = Height /\ ThreadFrames' = ThreadFrames
  BY <1>2 DEF Height, ThreadFrames
<1>4. CASE ipsr = 0
  <2>1. Tower = <<>> /\ Tower' = <<>>
    BY <1>1, <1>3, <1>4, EmptySeq DEF TowerHasShape, Height
  <2>2. /\ pstack[psp] = <<>>
        /\ \A t \in Threads \ {psp} : pstack[t] # <<>>
    BY <1>4 DEF StackDiscipline, ThreadsAreParked, OffProcessStack, ContextType
  <2>3. ThreadRegs' = [ThreadRegs EXCEPT ![psp] = regs']
    BY <1>2, <1>4, <2>2 DEF ThreadRegs, ContextType
  <2> QED
    BY <1>2, <2>1, <2>3 DEF Nesting!Work
<1>5. CASE ipsr # 0
  <2>1. Height = Len(mstack) - ThreadFrames + 1 /\ Height \in Nat \ {0}
    BY <1>5, MainStack DEF Height
  <2>2. Tower # <<>> /\ Tower \in Seq(Nesting!Activation) /\ Len(Tower) = Height
    BY <1>1, <2>1 DEF TowerHasShape
  <2> DEFINE t == [Tower EXCEPT ![Height].regs = regs']
  <2>3. ASSUME NEW k \in 1 .. Height PROVE Tower'[k] = t[k]
    <3>1. Tower[k] = Level(k) /\ Tower'[k] = Level(k)'
      BY <1>1, <1>3 DEF TowerHasShape
    <3>2. CASE k = Height
      <4>1. ~(k + ThreadFrames <= Len(mstack))
        BY <2>1, <3>2, MainStack
      <4> QED
        BY <1>2, <1>3, <2>2, <3>1, <3>2, <4>1 DEF Level
    <3>3. CASE k # Height
      <4>1. k + ThreadFrames <= Len(mstack)
        BY <2>1, <3>3, MainStack
      <4> QED
        BY <1>2, <1>3, <2>2, <3>1, <3>3, <4>1 DEF Level
    <3> QED
      BY <3>2, <3>3
  <2>4. /\ t \in Seq(Nesting!Activation) /\ Len(t) = Height
        /\ Tower' \in Seq(Nesting!Activation) /\ Len(Tower') = Height
    <3>1. [Tower[Height] EXCEPT !.regs = regs'] \in Nesting!Activation
      <4>1. Tower[Height] \in Nesting!Activation
        BY <2>1, <2>2, ElementOfSeq
      <4> QED
        BY <1>2, <4>1 DEF Nesting!Activation
    <3> QED
      BY <1>1, <1>3, <2>1, <2>2, <3>1 DEF TowerHasShape
  <2> HIDE DEF t
  <2>5. Tower' = t
    BY <2>3, <2>4, SeqEqual
  <2>6. ThreadRegs' = ThreadRegs
    BY <1>2, <1>5 DEF ThreadRegs
  <2> QED
    BY <1>2, <2>2, <2>5, <2>6 DEF Nesting!Work, t
<1> QED
  BY <1>4, <1>5

(* Another thread is chosen by a handler that has only threads below it.   *)
LEMMA SwitchSchedules ==
  ASSUME ContextType, StackDiscipline, SwitchThread
  PROVE  Nesting!Schedule
<1>1. /\ lr = ToThreadProcess /\ psp' \in Threads
      /\ UNCHANGED <<ipsr, regs, mstack, pstack>>
  BY DEF SwitchThread
<1>2. ipsr # 0 /\ mstack = <<>>
  <2>1. lr # Code
    BY <1>1 DEF ToThreadProcess, Code
  <2>2. ipsr # 0 /\ LinkMatches(lr, mstack, Len(mstack))
    BY <2>1 DEF StackDiscipline, ThreadModeIsBare, HandlersAreLinked
  <2> QED
    BY <1>1, <2>2, MainStack DEF LinkMatches, ToThreadProcess, ToThreadMain, ToHandler
<1>3. Height = 1
  BY <1>2, MainStack DEF Height
<1>4. Len(Tower) = 1
  BY <1>3, TowerShape DEF TowerHasShape
<1>5. Tower' = Tower /\ ThreadRegs' = ThreadRegs
  BY <1>1 DEF Tower, ThreadRegs, ThreadFrames
<1> QED
  BY <1>1, <1>4, <1>5 DEF Nesting!Schedule

LEMMA NextThreadRegsTyped ==
  ContextType' /\ StackDiscipline' => (ThreadRegs \in [Threads -> Regs])'
<1>1. ContextType /\ StackDiscipline => ThreadRegs \in [Threads -> Regs]
  BY ThreadRegsTyped
<1> QED
  BY <1>1, PTL

LEMMA NestingStep ==
  ASSUME HandlersStayOnMain, CoreInv, [Next]_vars
  PROVE  [Nesting!Next]_Nesting!vars
<1>1. /\ ContextType /\ RequestType /\ StackDiscipline /\ ReturnIsQueuedByHandler
      /\ ContextType' /\ StackDiscipline'
  <2>1. CoreInv'
    BY CoreStep
  <2>2. ContextType' /\ StackDiscipline'
    BY <2>1, Zenon DEF CoreInv, TypeInvariant, ContextType, FrameDiscipline, StackDiscipline
  <2> QED
    BY <2>2, CoreParts
<1>2. TowerHasShape /\ TowerHasShape'
  BY <1>1, TowerShape, NextTowerShape
<1>3. CASE UNCHANGED <<ipsr, regs, psp, mstack, pstack>>
  BY <1>3 DEF Nesting!vars, Tower, ThreadRegs, ThreadFrames
<1>4. CASE ChipReset
  <2>1. psp' = Boot /\ ipsr' = 0
    BY <1>4 DEF ChipReset, PowerOnState
  <2>2. Tower' = <<>>
    BY <1>2, <2>1, EmptySeq DEF TowerHasShape, Height
  <2>3. ThreadRegs' \in [Threads -> Regs]
    BY <1>1, NextThreadRegsTyped
  <2> QED
    BY <2>1, <2>2, <2>3 DEF Nesting!Next, Nesting!Restart
<1>5. CASE CompleteReturn
  <2>1. CASE exc_return_pending # Code
    <3>1. ipsr # 0 /\ ExceptionReturn(lr)
      BY <1>1, <1>5, <2>1 DEF ReturnIsQueuedByHandler, CompleteReturn
    <3> QED
      BY <1>1, <3>1, ReturnUnbuilds DEF Nesting!Next
  <2>2. CASE exc_return_pending = Code
    BY <1>3, <1>5, <2>2 DEF CompleteReturn, contextVars
  <2> QED
    BY <2>1, <2>2
<1>6. ASSUME NEW lines \in SUBSET Irq, NEW fires \in BOOLEAN, Preempt(lines, fires)
      PROVE  [Nesting!Next]_Nesting!vars
  <2>1. Ready(lines, icsr_pendst \/ fires) \subseteq Exc
    BY <1>1, ConstantTypes DEF Ready, RequestType
  <2>2. CASE UNCHANGED contextVars
    BY <1>3, <2>2 DEF contextVars
  <2>3. CASE \E e \in Exc : ExceptionEntry(e)
    BY <1>1, <2>3, EntryBuilds DEF Nesting!Next
  <2> QED
    BY <1>6, <2>1, <2>2, <2>3 DEF Preempt
<1>7. CASE Execute
  <2>1. CASE Compute
    BY <1>1, <1>2, <2>1, ComputeWorks DEF Nesting!Next
  <2>2. CASE Svc
    BY <1>1, <2>2, ConstantTypes, EntryBuilds DEF Svc, Nesting!Next
  <2>3. CASE SwitchThread
    BY <1>1, <2>3, SwitchSchedules DEF Nesting!Next
  <2>4. CASE UNCHANGED <<ipsr, regs, psp, mstack, pstack>>
    BY <1>3, <2>4
  <2> QED
    BY <1>7, <2>1, <2>2, <2>3, <2>4
       DEF Execute, BranchToExcReturn, WritePrimask, WriteBasepri, WriteFaultmask,
           WriteControl, WriteNvicEnable, WriteNvicPending, WriteIcsr,
           WritePriorities, RequestReset, contextVars
<1>8. CASE UNCHANGED vars
  BY <1>3, <1>8 DEF vars, contextVars
<1> QED
  BY <1>4, <1>5, <1>6, <1>7, <1>8 DEF Next

(* Entry and return, with frames on two stacks and EXC_RETURN values in    *)
(* LR, are a tower of activations of which only the topmost runs and every *)
(* other is resumed as it was left (exception_entry, exception_return),    *)
(* at any depth and for any number of threads.                             *)
THEOREM StacksImplementTower ==
  ASSUME HandlersStayOnMain
  PROVE  Spec => ImplementsNesting
<1>1. Init => CoreInv /\ Nesting!Init
  <2> SUFFICES ASSUME Init PROVE CoreInv /\ Nesting!Init
    OBVIOUS
  <2>1. CoreInv
    BY CoreInit
  <2>2. ContextType /\ StackDiscipline
    BY <2>1, CoreParts
  <2>3. Tower = <<>>
    BY <2>2, TowerShape, EmptySeq DEF TowerHasShape, Height, Init
  <2>4. ThreadRegs \in [Threads -> Regs]
    BY <2>2, ThreadRegsTyped
  <2> QED
    BY <2>1, <2>3, <2>4 DEF Nesting!Init, Init
<1>2. CoreInv /\ [Next]_vars => CoreInv' /\ [Nesting!Next]_Nesting!vars
  BY CoreStep, NestingStep
<1> QED
  BY <1>1, <1>2, PTL DEF Spec, ImplementsNesting, Nesting!Spec
=============================================================================
