----------------------------- MODULE Edma_proofs -----------------------------
(***************************************************************************)
(* Theorems about Edma, for every number of channels, descriptor and       *)
(* program.                                                                *)
(***************************************************************************)
EXTENDS Edma, SequenceTheorems, Induction_proofs

(***************************************************************************)
(* Types                                                                   *)
(***************************************************************************)

(* The locals of run_channel live inside a pass only, the sampled levels   *)
(* inside a hardware pass; the FIFO holds bytes the host has sent.         *)
TypeInv ==
  /\ TypeInvariant
  /\ run # Idle => run.ch \in Channel /\ InPass
  /\ phase # "hardware" => requests = {}
  /\ phase \in {"cpu", "tick"} => at = 0
  /\ Len(rx) <= pushed

LEMMA WidthIsSmall ==
  ASSUME NEW w \in Width PROVE w \in Nat /\ w >= 1 /\ \A i \in 0 .. w - 1 : i \in 0 .. 3
  BY DEF Width

LEMMA EmptyTcdIsTcd == EmptyTcd \in Tcd
  BY SizeAssumption DEF EmptyTcd, Tcd, Width, CsrBit, Channel

LEMMA TcdIsTyped ==
  ASSUME NEW t \in Tcd
  PROVE  /\ t.saddr \in Int /\ t.soff \in Int /\ t.slast \in Int /\ t.ssize \in Width
         /\ t.daddr \in Int /\ t.doff \in Int /\ t.dlast \in Int /\ t.dsize \in Width
         /\ t.nbytes \in Nat /\ t.citer \in 0 .. CiterMask /\ t.biter \in 0 .. CiterMask
         /\ t.csr \in SUBSET CsrBit /\ t.linkch \in Channel
         /\ t.citer \in Nat /\ t.biter \in Nat
  BY SizeAssumption DEF Tcd

LEMMA RunIsTyped ==
  ASSUME TypeInv
  PROVE  /\ run.saddr \in Int /\ run.daddr \in Int /\ run.moved \in Nat
         /\ Idle.ch \notin Channel
         /\ run # Idle => run.ch \in Channel /\ tcd[run.ch] \in Tcd
  BY SizeAssumption DEF TypeInv, TypeInvariant, Idle, Channel

LEMMA LargerOf ==
  ASSUME NEW a \in Width, NEW b \in Width
  PROVE  /\ Max({a, b}) \in Nat \ {0} /\ Max({a, b}) >= a /\ Max({a, b}) >= b
         /\ a = b => Max({a, b}) = a
<1>1. \E x \in {a, b} : \A y \in {a, b} : x >= y
  BY DEF Width
<1> QED
  BY <1>1 DEF Max, Width

LEMMA BytesOfTheBus ==
  ASSUME TypeInv, NEW a \in Int, NEW w \in Width
  PROVE  BusValue(a, w) \in [0 .. 3 -> Byte]
<1>1. Zero \in [0 .. 3 -> Byte] /\ 0 \in Byte
  BY DEF Zero, Byte
<1>2. DataValue \in Byte
  <2>1. CASE rx = <<>>
    BY <1>1, <2>1 DEF DataValue
  <2>2. CASE rx # <<>>
    BY <2>2, HeadTailProperties DEF DataValue, TypeInv, TypeInvariant
  <2> QED
    BY <2>1, <2>2
<1>3. [Zero EXCEPT ![0] = DataValue] \in [0 .. 3 -> Byte]
  BY <1>1, <1>2
<1>4. [i \in 0 .. 3 |-> IF i < w /\ a + i \in Ram THEN mem[a + i] ELSE 0] \in [0 .. 3 -> Byte]
  BY <1>1 DEF TypeInv, TypeInvariant
<1> QED
  BY <1>3, <1>4 DEF BusValue

LEMMA TransferIsTyped ==
  ASSUME TypeInv, NEW t \in Tcd, NEW s \in Int, NEW d \in Int, Transfer(t, s, d)
  PROVE  /\ mem' \in [Ram -> Byte] /\ rx' \in Seq(Byte) /\ out' \in Seq(Byte)
         /\ Len(rx') <= Len(rx) /\ UNCHANGED <<ctrl, baud>>
<1> DEFINE value == BusValue(s, t.ssize)
<1>1. value \in [0 .. 3 -> Byte] /\ t.dsize \in Width
  BY TcdIsTyped, BytesOfTheBus
<1>2. mem' \in [Ram -> Byte]
  <2>1. mem' = [a \in Ram |-> IF d # UartData /\ a - d \in 0 .. t.dsize - 1
                                THEN value[a - d] ELSE mem[a]]
    BY DEF Transfer
  <2> HIDE DEF value
  <2>2. \A i \in 0 .. t.dsize - 1 : value[i] \in Byte
    BY <1>1, WidthIsSmall
  <2> QED
    BY <2>1, <2>2 DEF TypeInv, TypeInvariant
<1>3. rx' \in Seq(Byte) /\ Len(rx') <= Len(rx)
  <2>1. CASE rx = <<>>
    BY <2>1 DEF Transfer, RxAfterRead, TypeInv, TypeInvariant
  <2>2. CASE rx # <<>>
    <3>1. rx \in Seq(Byte)
      BY DEF TypeInv, TypeInvariant
    <3>2. Tail(rx) \in Seq(Byte) /\ Len(Tail(rx)) <= Len(rx)
      BY <2>2, <3>1, HeadTailProperties, LenProperties
    <3> QED
      BY <2>2, <3>1, <3>2, LenProperties DEF Transfer, RxAfterRead
  <2> QED
    BY <2>1, <2>2
<1>4. out' \in Seq(Byte)
  <2>1. value[0] \in Byte /\ out \in Seq(Byte)
    BY <1>1 DEF TypeInv, TypeInvariant
  <2>2. out' = out \/ out' = Append(out, value[0])
    BY DEF Transfer, OutAfterWrite
  <2> HIDE DEF value
  <2> QED
    BY <2>1, <2>2, AppendProperties
<1> QED
  BY <1>2, <1>3, <1>4 DEF Transfer

LEMMA TypesStart == Init => TypeInv
<1> SUFFICES ASSUME Init PROVE TypeInv
  OBVIOUS
<1>1. tcd \in [Channel -> Tcd] /\ chcfg \in [Channel -> Source] /\ mem \in [Ram -> Byte]
  BY EmptyTcdIsTcd DEF Init, Source, Byte
<1>2. /\ ctrl \subseteq CtrlBits /\ baud \subseteq BaudBits
      /\ rx \in Seq(Byte) /\ out \in Seq(Byte) /\ Len(rx) = 0
  BY EmptySeq DEF Init, UartInit
<1>3. run = Idle /\ run \in [ch : Channel \union {-1}, saddr : Int, daddr : Int, moved : Nat]
  BY DEF Init, Idle
<1>4. /\ erq = {} /\ int_req = {} /\ phase = "cpu" /\ at = 0 /\ requests = {}
      /\ pushed = 0 /\ handled = 0
  BY DEF Init
<1> QED
  BY <1>1, <1>2, <1>3, <1>4, SizeAssumption DEF TypeInv, TypeInvariant, Byte

(* The steps of a pass.                                                    *)
LEMMA VisitKeepsTypes == TypeInv /\ Visit => TypeInv'
<1> SUFFICES ASSUME TypeInv, Visit PROVE TypeInv'
  OBVIOUS
<1>1. PICK c \in at .. MaxChannel :
        /\ tcd' = [tcd EXCEPT ![c].csr = @ \ {"START", "DONE"}]
        /\ run' = [ch |-> c, saddr |-> tcd[c].saddr, daddr |-> tcd[c].daddr, moved |-> 0]
        /\ at' = c + 1
  BY DEF Visit
<1>2. /\ InPass /\ phase \in {"software", "hardware"}
      /\ UNCHANGED <<uartVars, erq, int_req, phase, requests, driverVars, mem>>
  BY DEF Visit, InPass
<1>3. c \in Channel /\ at' \in 0 .. MaxChannel + 1
  BY <1>1, SizeAssumption DEF TypeInv, TypeInvariant, Channel
<1>4. tcd' \in [Channel -> Tcd]
  <2>1. [tcd[c] EXCEPT !.csr = @ \ {"START", "DONE"}] \in Tcd
    <3>1. tcd[c] \in Tcd
      BY <1>3 DEF TypeInv, TypeInvariant
    <3>2. tcd[c].csr \ {"START", "DONE"} \in SUBSET CsrBit
      BY <3>1, TcdIsTyped
    <3> QED
      BY <3>1, <3>2 DEF Tcd
  <2> QED
    BY <1>1, <1>3, <2>1 DEF TypeInv, TypeInvariant
<1>5. run' \in [ch : Channel \union {-1}, saddr : Int, daddr : Int, moved : Nat] /\ run'.ch = c
  BY <1>1, <1>3, TcdIsTyped DEF TypeInv, TypeInvariant
<1> QED
  BY <1>2, <1>3, <1>4, <1>5
     DEF TypeInv, TypeInvariant, uartVars, driverVars, InPass

LEMMA MoveUnitKeepsTypes == TypeInv /\ MoveUnit => TypeInv'
<1> SUFFICES ASSUME TypeInv, MoveUnit PROVE TypeInv'
  OBVIOUS
<1> DEFINE t == tcd[run.ch]
<1>1. /\ run # Idle /\ run.ch \in Channel /\ InPass /\ t \in Tcd
      /\ Transfer(t, run.saddr, run.daddr)
      /\ run' = [run EXCEPT !.saddr = @ + t.soff, !.daddr = @ + t.doff,
                            !.moved = @ + Unit(t)]
      /\ UNCHANGED <<engineVars, phase, at, requests, driverVars>>
  BY RunIsTyped DEF MoveUnit, TypeInv
<1> HIDE DEF t
<1>2. /\ mem' \in [Ram -> Byte] /\ rx' \in Seq(Byte) /\ out' \in Seq(Byte)
      /\ Len(rx') <= Len(rx) /\ UNCHANGED <<ctrl, baud>>
  BY <1>1, RunIsTyped, TransferIsTyped
<1>3. Len(rx') <= pushed
  <2>1. Len(rx) \in Nat /\ Len(rx') \in Nat /\ Len(rx) <= pushed /\ pushed \in Nat
    BY <1>2, LenProperties, SizeAssumption DEF TypeInv, TypeInvariant
  <2> QED
    BY <1>2, <2>1
<1>4. /\ run' \in [ch : Channel \union {-1}, saddr : Int, daddr : Int, moved : Nat]
      /\ run'.ch = run.ch
  <2>1. Unit(t) \in Nat
    <3>1. t.ssize \in Width /\ t.dsize \in Width
      BY <1>1, TcdIsTyped
    <3> QED
      BY <3>1, LargerOf DEF Unit
  <2>2. t.soff \in Int /\ t.doff \in Int
    BY <1>1, TcdIsTyped
  <2>3. run \in [ch : Channel \union {-1}, saddr : Int, daddr : Int, moved : Nat]
    BY DEF TypeInv, TypeInvariant
  <2> DEFINE m == Unit(t)
  <2>4. run' = [run EXCEPT !.saddr = @ + t.soff, !.daddr = @ + t.doff, !.moved = @ + m]
    BY <1>1
  <2>5. m \in Nat
    BY <2>1
  <2> HIDE DEF m
  <2>6. /\ run.saddr + t.soff \in Int /\ run.daddr + t.doff \in Int
        /\ run.moved + m \in Nat
    BY <2>2, <2>3, <2>5
  <2> QED
    BY <2>3, <2>4, <2>6
<1> QED
  BY <1>1, <1>2, <1>3, <1>4
     DEF TypeInv, TypeInvariant, engineVars, driverVars, InPass

(* The descriptor that replaces one whose major loop is complete.          *)
LEMMA ReloadedIsTyped ==
  ASSUME TypeInv, NEW c \in Channel
  PROVE  Reloaded(c) \in Tcd
<1> DEFINE t == tcd[c]
<1>1. t \in Tcd
  BY DEF TypeInv, TypeInvariant
<1>2. Loaded(t) \in Tcd
  BY StoredAssumption, EmptyTcdIsTcd DEF Loaded
<1>3. [t EXCEPT !.saddr = run.saddr + t.slast, !.daddr = run.daddr + t.dlast,
                !.citer = t.biter, !.csr = @ \union {"DONE"}] \in Tcd
  <2>1. /\ run.saddr + t.slast \in Int /\ run.daddr + t.dlast \in Int
        /\ t.biter \in 0 .. CiterMask /\ t.csr \union {"DONE"} \in SUBSET CsrBit
    BY <1>1, RunIsTyped, TcdIsTyped DEF CsrBit
  <2> QED
    BY <1>1, <2>1 DEF Tcd
<1> QED
  BY <1>2, <1>3 DEF Reloaded

LEMMA NextCiterIsTyped ==
  ASSUME NEW n \in 0 .. CiterMask
  PROVE  NextCiter(n) \in 0 .. CiterMask
  BY SizeAssumption DEF NextCiter

LEMMA EndMinorLoopKeepsTypes == TypeInv /\ EndMinorLoop => TypeInv'
<1> SUFFICES ASSUME TypeInv, EndMinorLoop PROVE TypeInv'
  OBVIOUS
<1> DEFINE c == run.ch
           n == NextCiter(tcd[c].citer)
           w == [tcd[c] EXCEPT !.saddr = run.saddr, !.daddr = run.daddr, !.citer = n]
<1>1. /\ run # Idle /\ c \in Channel /\ tcd[c] \in Tcd /\ InPass
      /\ tcd' = [tcd EXCEPT ![c] = w] /\ run' = Idle
      /\ UNCHANGED <<uartVars, erq, int_req, phase, at, requests, driverVars, mem>>
  BY RunIsTyped DEF EndMinorLoop, MinorLoopDone, TypeInv, TypeInvariant
<1>2. w \in Tcd
  <2>1. n \in 0 .. CiterMask /\ run.saddr \in Int /\ run.daddr \in Int
    BY <1>1, RunIsTyped, TcdIsTyped, NextCiterIsTyped
  <2> HIDE DEF n
  <2> QED
    BY <1>1, <2>1 DEF Tcd
<1> HIDE DEF w
<1>3. tcd' \in [Channel -> Tcd]
  BY <1>1, <1>2 DEF TypeInv, TypeInvariant
<1>4. run' \in [ch : Channel \union {-1}, saddr : Int, daddr : Int, moved : Nat]
  BY <1>1 DEF Idle
<1> QED
  BY <1>1, <1>3, <1>4 DEF TypeInv, TypeInvariant, uartVars, driverVars

(* The descriptors after a link from t.                                    *)
LinkFrom(t) == IF "MAJORELINK" \in t.csr
                 THEN [tcd EXCEPT ![t.linkch].csr = @ \union {"START"}] ELSE tcd

LEMMA LinkIsTyped ==
  ASSUME TypeInv, NEW t \in Tcd
  PROVE  /\ LinkFrom(t) \in [Channel -> Tcd]
         /\ \A d \in Channel :
              LinkFrom(t)[d] = IF "MAJORELINK" \in t.csr /\ d = t.linkch
                                 THEN [tcd[d] EXCEPT !.csr = @ \union {"START"}]
                                 ELSE tcd[d]
<1>1. t.linkch \in Channel /\ tcd \in [Channel -> Tcd]
  BY TcdIsTyped DEF TypeInv, TypeInvariant
<1>2. [tcd[t.linkch] EXCEPT !.csr = @ \union {"START"}] \in Tcd
  BY <1>1 DEF Tcd, CsrBit
<1> QED
  BY <1>1, <1>2 DEF LinkFrom

LEMMA EndMajorLoopKeepsTypes == TypeInv /\ EndMajorLoop => TypeInv'
<1> SUFFICES ASSUME TypeInv, EndMajorLoop PROVE TypeInv'
  OBVIOUS
<1> DEFINE c == run.ch
           t == tcd[c]
<1>1. /\ c \in Channel /\ t \in Tcd /\ InPass
      /\ int_req' = IF "INTMAJOR" \in t.csr THEN int_req \union {c} ELSE int_req
      /\ erq' = IF "DREQ" \in t.csr THEN erq \ {c} ELSE erq
      /\ tcd' = [LinkFrom(t) EXCEPT ![c] = Reloaded(c)] /\ run' = Idle
      /\ UNCHANGED <<uartVars, phase, at, requests, driverVars, mem>>
  BY RunIsTyped DEF EndMajorLoop, MinorLoopDone, LinkFrom, TypeInv
<1>2. tcd' \in [Channel -> Tcd]
  BY <1>1, ReloadedIsTyped, LinkIsTyped
<1>3. int_req' \subseteq Channel /\ erq' \subseteq Channel
  BY <1>1 DEF TypeInv, TypeInvariant
<1>4. run' \in [ch : Channel \union {-1}, saddr : Int, daddr : Int, moved : Nat]
  BY <1>1 DEF Idle
<1> QED
  BY <1>1, <1>2, <1>3, <1>4 DEF TypeInv, TypeInvariant, uartVars, driverVars

LEMMA PassKeepsTypes == TypeInv /\ Pass => TypeInv'
<1>1. TypeInv /\ EndPass => TypeInv'
  BY SizeAssumption
     DEF EndPass, InPass, TypeInv, TypeInvariant, uartVars, engineVars, driverVars
<1> QED
  BY <1>1, VisitKeepsTypes, MoveUnitKeepsTypes, EndMinorLoopKeepsTypes,
     EndMajorLoopKeepsTypes DEF Pass

(* The firmware and the host.                                              *)
LEMMA ProgramKeepsTypes ==
  ASSUME TypeInv, NEW s \in Setups, Program(s)
  PROVE  TypeInv'
<1>1. IsSetup(s)
  BY SetupAssumption
<1>2. tcd' \in [Channel -> Tcd] /\ chcfg' \in [Channel -> Source] /\ mem' \in [Ram -> Byte]
  <2>1. 0 \in Byte /\ "None" \in Source
    BY DEF Byte, Source
  <2> QED
    BY <1>1, <2>1, EmptyTcdIsTcd DEF Program, IsSetup, TcdOf
<1>3. ctrl' \subseteq CtrlBits /\ baud' \subseteq BaudBits
  BY <1>1 DEF Program, IsSetup, CtrlBits
<1> QED
  BY <1>2, <1>3 DEF Program, WritesEdma, TypeInv, TypeInvariant, InPass

LEMMA SsrtKeepsTypes ==
  ASSUME TypeInv, NEW s \in Setups, Ssrt(s)
  PROVE  TypeInv'
<1>1. PICK c \in s.starts : tcd' = [tcd EXCEPT ![c].csr = @ \union {"START"}]
  BY DEF Ssrt
<1>2. c \in Channel
  BY SetupAssumption DEF IsSetup
<1>3. [tcd[c] EXCEPT !.csr = @ \union {"START"}] \in Tcd
  <2>1. tcd[c] \in Tcd
    BY <1>2 DEF TypeInv, TypeInvariant
  <2>2. tcd[c].csr \union {"START"} \in SUBSET CsrBit
    BY <2>1, TcdIsTyped DEF CsrBit
  <2> QED
    BY <2>1, <2>2 DEF Tcd
<1>4. tcd' \in [Channel -> Tcd]
  BY <1>1, <1>2, <1>3 DEF TypeInv, TypeInvariant
<1> QED
  BY <1>4 DEF Ssrt, WritesEdma, TypeInv, TypeInvariant, InPass, uartVars, driverVars

LEMMA DivIsSmall ==
  ASSUME NEW a \in Nat, NEW b \in Nat \ {0}
  PROVE  a \div b \in 0 .. a
<1>1. a \div b \in Nat /\ (a \div b) * b <= a
  OBVIOUS
<1>2. (a \div b) <= (a \div b) * b
  <2> DEFINE q == a \div b
  <2>1. q \in Nat
    BY <1>1
  <2> HIDE DEF q
  <2>2. q * b = q + q * (b - 1) /\ q * (b - 1) \in Nat
    BY <2>1
  <2> QED
    BY <2>1, <2>2 DEF q
<1> QED
  BY <1>1, <1>2

LEMMA AcknowledgeKeepsTypes ==
  ASSUME TypeInv, NEW s \in Setups, Acknowledge(s)
  PROVE  TypeInv'
<1>1. handled' \in 0 .. MaxPushed
  <2>1. Received \in Nat /\ Received <= MaxPushed /\ s.block \in Nat \ {0}
    <3>1. Len(rx) \in Nat /\ Len(rx) <= pushed /\ pushed \in 0 .. MaxPushed
      BY LenProperties DEF TypeInv, TypeInvariant
    <3>2. s.block \in Nat \ {0}
      BY SetupAssumption DEF IsSetup
    <3>3. MaxPushed \in Nat /\ Received = pushed - Len(rx)
      BY SizeAssumption DEF Received, Byte
    <3> QED
      BY <3>1, <3>2, <3>3
  <2>2. Blocks(s) \in 0 .. MaxPushed
    BY <2>1, DivIsSmall, SizeAssumption DEF Blocks, Byte
  <2> QED
    BY <2>2 DEF Acknowledge, TypeInv, TypeInvariant
<1>2. int_req' \subseteq Channel
  BY DEF Acknowledge, TypeInv, TypeInvariant
<1> QED
  BY <1>1, <1>2 DEF Acknowledge, WritesEdma, TypeInv, TypeInvariant, InPass, uartVars

LEMMA InstructionKeepsTypes == TypeInv /\ Instruction => TypeInv'
<1> SUFFICES ASSUME TypeInv, Instruction PROVE TypeInv'
  OBVIOUS
<1>1. CASE OtherInstruction
  BY <1>1 DEF OtherInstruction, LeavesEdma, TypeInv, TypeInvariant, InPass,
              uartVars, engineVars, driverVars
<1>2. ASSUME NEW s \in Setups, SetErq(s) \/ ClearErq(s)
      PROVE  TypeInv'
  <2>1. \A c \in DOMAIN s.mux : c \in Channel
    BY SetupAssumption DEF IsSetup
  <2>2. erq' \subseteq Channel
    BY <1>2, <2>1 DEF SetErq, ClearErq, TypeInv, TypeInvariant
  <2> QED
    BY <1>2, <2>2 DEF SetErq, ClearErq, WritesEdma, TypeInv, TypeInvariant, InPass,
                      uartVars, driverVars
<1>3. ASSUME NEW s \in Setups, ToggleUartDma(s)
      PROVE  TypeInv'
  <2>1. baud' \subseteq BaudBits
    BY <1>3, SetupAssumption DEF ToggleUartDma, IsSetup
  <2> QED
    BY <1>3, <2>1 DEF ToggleUartDma, LeavesEdma, TypeInv, TypeInvariant, InPass,
                      engineVars, driverVars
<1> QED
  BY <1>1, <1>2, <1>3, ProgramKeepsTypes, SsrtKeepsTypes, AcknowledgeKeepsTypes
     DEF Instruction

LEMMA HostPushKeepsTypes == TypeInv /\ HostPush => TypeInv'
<1> SUFFICES ASSUME TypeInv, HostPush PROVE TypeInv'
  OBVIOUS
<1>1. /\ pushed' \in 0 .. MaxPushed /\ pushed' = pushed + 1 /\ pushed + 1 \in Byte
      /\ rx' = Append(rx, pushed + 1) /\ rx \in Seq(Byte) /\ Len(rx) <= pushed
      /\ pushed \in Nat
  BY SizeAssumption DEF HostPush, RxPush, TypeInv, TypeInvariant, Byte
<1>2. rx' \in Seq(Byte) /\ Len(rx') = Len(rx) + 1 /\ Len(rx) \in Nat
  BY <1>1, AppendProperties, LenProperties
<1>3. Len(rx') <= pushed'
  BY <1>1, <1>2
<1> QED
  BY <1>1, <1>2, <1>3
     DEF HostPush, RxPush, TypeInv, TypeInvariant, InPass, engineVars, passVars

LEMMA TypesStep == TypeInv /\ [Next]_vars => TypeInv'
<1>1. TypeInv /\ Tick => TypeInv'
  BY DEF Tick, TypeInv, TypeInvariant, InPass, uartVars, engineVars, driverVars
<1>2. TypeInv /\ UNCHANGED vars => TypeInv'
  BY DEF vars, TypeInv, TypeInvariant, InPass, uartVars, engineVars, passVars, driverVars
<1> QED
  BY <1>1, <1>2, PassKeepsTypes, InstructionKeepsTypes, HostPushKeepsTypes DEF Next

LEMMA TypesAlways == Spec => []TypeInv
  BY TypesStart, TypesStep, PTL DEF Spec

(* Every register, descriptor, FIFO byte and local of run_channel keeps    *)
(* its range, whatever descriptors the channels load and link.             *)
THEOREM EdmaTypesAreKept == Spec => []TypeInvariant
<1>1. TypeInv => TypeInvariant
  BY DEF TypeInv
<1> QED
  BY <1>1, TypesAlways, PTL

(***************************************************************************)
(* Arithmetic of a major loop                                              *)
(***************************************************************************)

LEMMA ProductIsMonotone ==
  ASSUME NEW a \in Nat, NEW b \in Nat, NEW u \in Nat, a <= b
  PROVE  a * u <= b * u /\ a * u \in Nat
<1>1. b * u = a * u + (b - a) * u /\ (b - a) * u \in Nat /\ a * u \in Nat
  OBVIOUS
<1> QED
  BY <1>1

LEMMA OneMore ==
  ASSUME NEW a \in Int, NEW u \in Int
  PROVE  (a + 1) * u = a * u + u /\ a * u \in Int
  OBVIOUS

(* The minor loop stops at the first multiple of the unit that is not      *)
(* below NBYTES.                                                           *)
LEMMA TurnsOfALoop ==
  ASSUME NEW t \in Tcd
  PROVE  /\ Unit(t) \in Nat \ {0} /\ Turns(t) \in Nat
         /\ t.nbytes > 0 => Turns(t) > 0
         /\ \A k \in 0 .. Turns(t) : k * Unit(t) < t.nbytes <=> k < Turns(t)
<1> DEFINE u == Unit(t)
           n == t.nbytes
           T == (n + u - 1) \div u
<1>1. u \in Nat \ {0} /\ n \in Nat
  BY TcdIsTyped, LargerOf DEF Unit
<1>2. T = Turns(t)
  BY DEF Turns
<1> HIDE DEF u, n
<1>3. T \in Nat /\ T * u <= n + u - 1 /\ n + u - 1 < (T + 1) * u
  <2>1. n + u - 1 \in Nat
    BY <1>1
  <2> DEFINE m == n + u - 1
  <2>2. m \div u \in Nat /\ u * (m \div u) <= m /\ m < u * ((m \div u) + 1)
    <3> HIDE DEF m
    <3>1. m \in Nat
      BY <2>1 DEF m
    <3>2. m = u * (m \div u) + (m % u) /\ (m % u) \in 0 .. u - 1 /\ m \div u \in Nat
      BY <1>1, <3>1
    <3> QED
      BY <1>1, <3>1, <3>2
  <2> QED
    BY <1>1, <2>2
<1> HIDE DEF T
<1>4. (T + 1) * u = T * u + u /\ T * u \in Nat
  BY <1>1, <1>3, ProductIsMonotone, OneMore
<1>5. T * u >= n
  BY <1>1, <1>3, <1>4
<1>6. n > 0 => T > 0
  <2>1. T = 0 => T * u = 0
    BY <1>1
  <2> QED
    BY <1>1, <1>3, <1>5, <2>1
<1>7. ASSUME NEW k \in 0 .. T
      PROVE  k * u < n <=> k < T
  <2>1. k \in Nat /\ k * u \in Nat
    BY <1>1, <1>3, ProductIsMonotone
  <2>2. CASE k = T
    BY <1>1, <1>3, <1>5, <2>1, <2>2
  <2>3. CASE k < T
    <3>1. (k + 1) * u <= T * u /\ (k + 1) * u = k * u + u
      BY <1>1, <1>3, <2>1, <2>3, ProductIsMonotone, OneMore
    <3> QED
      BY <1>1, <1>3, <2>1, <2>3, <3>1
  <2> QED
    BY <1>3, <2>2, <2>3
<1> QED
  BY <1>1, <1>2, <1>3, <1>6, <1>7 DEF u, n

(***************************************************************************)
(* The line of descriptors a channel runs through                          *)
(***************************************************************************)

(* t is the descriptor o, some minor loops of its major loop later: only   *)
(* addresses, CITER and the two status bits have changed.                  *)
SameFields(o, t) ==
  /\ t.soff = o.soff /\ t.ssize = o.ssize /\ t.slast = o.slast
  /\ t.doff = o.doff /\ t.dsize = o.dsize /\ t.dlast = o.dlast
  /\ t.nbytes = o.nbytes /\ t.biter = o.biter /\ t.linkch = o.linkch
  /\ t.csr \ {"START", "DONE"} = o.csr \ {"START", "DONE"}

TurnsDone(t) == (t.biter - t.citer) * Turns(t)

Along(o, t) ==
  /\ SameFields(o, t)
  /\ t.nbytes > 0 =>
       /\ t.citer \in 1 .. t.biter
       /\ t.saddr = o.saddr + TurnsDone(t) * t.soff
       /\ t.daddr = o.daddr + TurnsDone(t) * t.doff

(* run_channel after k turns of the minor loop of t.                       *)
UnderWay(t, k) ==
  /\ run.moved = k * Unit(t)
  /\ run.saddr = t.saddr + k * t.soff
  /\ run.daddr = t.daddr + k * t.doff

AllSteady(s) == \A c \in Channel : \A o \in Descriptors(s, c) : Steady(o)

LineInv(s) ==
  InUse(s) =>
    /\ \A c \in Channel : \E o \in Descriptors(s, c) : Along(o, tcd[c])
    /\ run # Idle => \E k \in 0 .. Turns(tcd[run.ch]) : UnderWay(tcd[run.ch], k)

LEMMA DescriptorsAreClosed ==
  ASSUME NEW s \in Setups, NEW c \in Channel
  PROVE  /\ TcdOf(s, c) \in Descriptors(s, c)
         /\ Descriptors(s, c) \subseteq Tcd
         /\ \A o \in Descriptors(s, c) :
              "ESG" \in o.csr => Loaded(o) \in Descriptors(s, c)
<1> DEFINE all == {TcdOf(s, c), EmptyTcd} \union {Stored[a] : a \in DOMAIN Stored}
           closed == {D \in SUBSET all :
                        /\ TcdOf(s, c) \in D
                        /\ \A o \in D : "ESG" \in o.csr => Loaded(o) \in D}
<1>1. Descriptors(s, c) = {o \in all : \A D \in closed : o \in D}
  BY DEF Descriptors
<1>2. all \subseteq Tcd
  <2>1. TcdOf(s, c) \in Tcd
    BY SetupAssumption, EmptyTcdIsTcd DEF TcdOf, IsSetup
  <2> QED
    BY <2>1, StoredAssumption, EmptyTcdIsTcd
<1>3. \A o : Loaded(o) \in all
  BY DEF Loaded
<1>4. TcdOf(s, c) \in all
  OBVIOUS
<1> QED
  BY <1>1, <1>2, <1>3, <1>4

(* A descriptor whose addresses and CITER stay is on the same line.        *)
LEMMA SameLine ==
  ASSUME NEW t \in Tcd, NEW w \in Tcd, SameFields(t, w)
  PROVE  /\ Unit(w) = Unit(t) /\ Turns(w) = Turns(t)
         /\ \A o : SameFields(o, t) => SameFields(o, w)
         /\ w.saddr = t.saddr /\ w.daddr = t.daddr =>
              /\ \A k : UnderWay(t, k) <=> UnderWay(w, k)
              /\ w.citer = t.citer => \A o : Along(o, t) => Along(o, w)
<1>1. Unit(w) = Unit(t)
  BY DEF SameFields, Unit
<1>2. Turns(w) = Turns(t)
  BY <1>1 DEF SameFields, Turns
<1>3. \A o : SameFields(o, t) => SameFields(o, w)
  BY DEF SameFields
<1>4. ASSUME w.saddr = t.saddr, w.daddr = t.daddr
      PROVE  \A k : UnderWay(t, k) <=> UnderWay(w, k)
  BY <1>1, <1>4 DEF UnderWay, SameFields
<1>5. ASSUME w.saddr = t.saddr, w.daddr = t.daddr, w.citer = t.citer,
             NEW o, Along(o, t)
      PROVE  Along(o, w)
  <2>1. TurnsDone(w) = TurnsDone(t)
    BY <1>2, <1>5 DEF TurnsDone, SameFields
  <2> QED
    BY <1>3, <1>5, <2>1 DEF Along, SameFields
<1> QED
  BY <1>1, <1>2, <1>3, <1>4, <1>5

LEMMA LineBegins ==
  ASSUME NEW o \in Tcd, Steady(o)
  PROVE  Along(o, o)
<1>1. ASSUME o.nbytes > 0
      PROVE  o.citer \in 1 .. o.biter /\ TurnsDone(o) * o.soff = 0 /\ TurnsDone(o) * o.doff = 0
  <2>1. o.citer = o.biter /\ o.biter > 0 /\ o.biter \in Nat /\ Turns(o) \in Nat
        /\ o.soff \in Int /\ o.doff \in Int
    BY <1>1, TcdIsTyped, TurnsOfALoop DEF Steady
  <2>2. TurnsDone(o) = 0 * Turns(o)
    BY <2>1 DEF TurnsDone
  <2>3. 0 * Turns(o) = 0 /\ 0 * o.soff = 0 /\ 0 * o.doff = 0
    BY <2>1
  <2> QED
    BY <2>1, <2>2, <2>3
<1> QED
  BY <1>1, TcdIsTyped DEF Along, SameFields

LEMMA AddressAdvances ==
  ASSUME NEW a \in Int, NEW d \in Int, NEW T \in Int, NEW x \in Int,
         NEW p, p = a + d * x, NEW q, q = p + T * x
  PROVE  q = a + (d + T) * x
<1>1. (d + T) * x = d * x + T * x /\ d * x \in Int /\ T * x \in Int
  BY Z3
<1> QED
  BY <1>1

(* The end of a minor loop, for both addresses.                            *)
LEMMA MinorLoopEnds ==
  ASSUME NEW o \in Tcd, NEW t \in Tcd, Along(o, t), UnderWay(t, Turns(t)), t.nbytes > 0
  PROVE  /\ run.saddr = o.saddr + ((t.biter - (t.citer - 1)) * Turns(t)) * t.soff
         /\ run.daddr = o.daddr + ((t.biter - (t.citer - 1)) * Turns(t)) * t.doff
<1> DEFINE d == TurnsDone(t)
           T == Turns(t)
           e == (t.biter - (t.citer - 1)) * T
<1>1. T \in Int /\ d \in Int /\ e = d + T
  <2>1. T \in Int /\ t.biter \in Int /\ t.citer \in Int
    BY TcdIsTyped, TurnsOfALoop
  <2>2. d = (t.biter - t.citer) * T
    BY DEF TurnsDone
  <2> HIDE DEF d, T
  <2>3. t.biter - (t.citer - 1) = (t.biter - t.citer) + 1 /\ t.biter - t.citer \in Int
    BY <2>1
  <2>4. ((t.biter - t.citer) + 1) * T = (t.biter - t.citer) * T + T
        /\ (t.biter - t.citer) * T \in Int
    BY <2>1, <2>3, OneMore
  <2> QED
    BY <2>1, <2>2, <2>3, <2>4
<1>2. /\ t.saddr = o.saddr + d * t.soff /\ t.daddr = o.daddr + d * t.doff
      /\ run.saddr = t.saddr + T * t.soff /\ run.daddr = t.daddr + T * t.doff
  BY DEF Along, UnderWay
<1>3. o.saddr \in Int /\ o.daddr \in Int /\ t.soff \in Int /\ t.doff \in Int
  BY TcdIsTyped
<1> HIDE DEF d, T, e
<1>4. run.saddr = o.saddr + (d + T) * t.soff /\ run.daddr = o.daddr + (d + T) * t.doff
  BY <1>1, <1>2, <1>3, AddressAdvances
<1>5. run.saddr = o.saddr + e * t.soff /\ run.daddr = o.daddr + e * t.doff
  BY <1>1, <1>4
<1> QED
  BY <1>5 DEF e, T

LEMMA MinorLoopAdvances ==
  ASSUME NEW o \in Tcd, NEW t \in Tcd, NEW w \in Tcd,
         Along(o, t), UnderWay(t, Turns(t)), NextCiter(t.citer) # 0,
         w = [t EXCEPT !.saddr = run.saddr, !.daddr = run.daddr,
                       !.citer = NextCiter(t.citer)]
  PROVE  Along(o, w)
<1>1. /\ SameFields(t, w) /\ w.saddr = run.saddr /\ w.daddr = run.daddr
      /\ w.citer = NextCiter(t.citer)
  BY DEF SameFields, Tcd
<1>2. SameFields(o, w) /\ Turns(w) = Turns(t)
  BY <1>1, SameLine DEF Along
<1>3. ASSUME w.nbytes > 0
      PROVE  /\ w.citer \in 1 .. w.biter
             /\ w.saddr = o.saddr + TurnsDone(w) * w.soff
             /\ w.daddr = o.daddr + TurnsDone(w) * w.doff
  <2>1. /\ t.citer \in 1 .. t.biter /\ t.citer \in Nat /\ t.biter \in Nat
        /\ t.saddr = o.saddr + ((t.biter - t.citer) * Turns(t)) * t.soff
        /\ t.daddr = o.daddr + ((t.biter - t.citer) * Turns(t)) * t.doff
    BY <1>1, <1>3, TcdIsTyped DEF Along, SameFields, TurnsDone
  <2>2. w.citer = t.citer - 1 /\ w.citer \in 1 .. t.biter
    BY <1>1, <2>1 DEF NextCiter
  <2>3. /\ w.saddr = o.saddr + ((t.biter - (t.citer - 1)) * Turns(t)) * t.soff
        /\ w.daddr = o.daddr + ((t.biter - (t.citer - 1)) * Turns(t)) * t.doff
    BY <1>1, <1>3, MinorLoopEnds DEF SameFields
  <2> QED
    BY <1>1, <1>2, <2>2, <2>3 DEF SameFields, TurnsDone
<1> QED
  BY <1>2, <1>3 DEF Along

LEMMA MajorLoopWindsBack ==
  ASSUME NEW o \in Tcd, NEW t \in Tcd, NEW w \in Tcd, Steady(o), "ESG" \notin t.csr,
         Along(o, t), UnderWay(t, Turns(t)), NextCiter(t.citer) = 0,
         w = [t EXCEPT !.saddr = run.saddr + t.slast, !.daddr = run.daddr + t.dlast,
                       !.citer = t.biter, !.csr = @ \union {"DONE"}]
  PROVE  /\ Along(o, w)
         /\ t.nbytes > 0 =>
              /\ t.citer = 1 /\ w.citer = o.citer
              /\ w.saddr = o.saddr /\ w.daddr = o.daddr
<1>1. /\ SameFields(t, w) /\ w.saddr = run.saddr + t.slast
      /\ w.daddr = run.daddr + t.dlast /\ w.citer = t.biter
  BY DEF SameFields, Tcd
<1>2. SameFields(o, w) /\ Turns(w) = Turns(t) /\ SameFields(o, t)
  BY <1>1, SameLine DEF Along
<1>3. ASSUME t.nbytes > 0
      PROVE  /\ t.citer = 1 /\ t.biter \in Nat \ {0} /\ o.citer = t.biter
             /\ w.saddr = o.saddr /\ w.daddr = o.daddr
  <2>1. /\ t.citer \in 1 .. t.biter /\ t.citer \in Nat /\ t.biter \in Nat
        /\ t.saddr = o.saddr + ((t.biter - t.citer) * Turns(t)) * t.soff
        /\ t.daddr = o.daddr + ((t.biter - t.citer) * Turns(t)) * t.doff
    BY <1>1, <1>3, TcdIsTyped DEF Along, SameFields, TurnsDone
  <2>2. t.citer = 1
    BY <2>1 DEF NextCiter
  <2>4. /\ o.saddr \in Int /\ o.daddr \in Int /\ Turns(t) \in Int
        /\ t.soff \in Int /\ t.doff \in Int
    BY TcdIsTyped, TurnsOfALoop
  <2>5. /\ run.saddr = o.saddr + ((t.biter - (t.citer - 1)) * Turns(t)) * t.soff
        /\ run.daddr = o.daddr + ((t.biter - (t.citer - 1)) * Turns(t)) * t.doff
    BY <1>3, MinorLoopEnds
  <2>6. /\ t.slast = - (t.biter * Turns(t) * t.soff) /\ o.citer = t.biter
        /\ t.dlast = - (t.biter * Turns(t) * t.doff)
    <3>1. "ESG" \notin o.csr /\ Turns(t) = Turns(o)
      BY <1>2, SameLine DEF SameFields
    <3> QED
      BY <1>2, <1>3, <3>1 DEF Steady, SameFields
  <2> DEFINE x == t.biter * Turns(t) * t.soff
             y == t.biter * Turns(t) * t.doff
  <2>7. x \in Int /\ y \in Int
    BY <2>1, <2>4
  <2>8. run.saddr = o.saddr + x /\ run.daddr = o.daddr + y
    <3>1. t.biter - (t.citer - 1) = t.biter
      BY <2>1, <2>2
    <3> QED
      BY <2>5, <3>1
  <2> HIDE DEF x, y
  <2>9. t.slast = -x /\ t.dlast = -y
    BY <2>6 DEF x, y
  <2> QED
    BY <1>1, <2>1, <2>2, <2>4, <2>6, <2>7, <2>8, <2>9
<1>4. t.nbytes > 0 => TurnsDone(w) * w.soff = 0 /\ TurnsDone(w) * w.doff = 0
  <2>1. w.citer = w.biter /\ w.biter \in Int /\ Turns(w) \in Int
        /\ w.soff \in Int /\ w.doff \in Int
    BY <1>1, TcdIsTyped, TurnsOfALoop DEF SameFields
  <2>2. TurnsDone(w) = 0 * Turns(w)
    BY <2>1 DEF TurnsDone
  <2>3. 0 * Turns(w) = 0 /\ 0 * w.soff = 0 /\ 0 * w.doff = 0
    BY <2>1
  <2> QED
    BY <2>2, <2>3
<1> QED
  BY <1>1, <1>2, <1>3, <1>4, TcdIsTyped DEF Along, SameFields

(***************************************************************************)
(* What the steps do to the descriptors                                    *)
(***************************************************************************)

(* w is t with other status bits.                                          *)
SameButStatus(t, w) ==
  /\ SameFields(t, w)
  /\ w.saddr = t.saddr /\ w.daddr = t.daddr /\ w.citer = t.citer

LEMMA StatusChange ==
  ASSUME NEW t \in Tcd, NEW x \in SUBSET CsrBit, NEW w,
         x \ {"START", "DONE"} = t.csr \ {"START", "DONE"},
         w = [t EXCEPT !.csr = x]
  PROVE  w \in Tcd /\ w.csr = x /\ SameButStatus(t, w)
  BY DEF SameButStatus, SameFields, Tcd

LEMMA StartChange ==
  ASSUME NEW t \in Tcd, NEW w, w = [t EXCEPT !.csr = @ \union {"START"}]
  PROVE  /\ w \in Tcd /\ w.csr = t.csr \union {"START"} /\ SameButStatus(t, w)
<1>1. t.csr \in SUBSET CsrBit
  BY TcdIsTyped
<1>2. t.csr \union {"START"} \in SUBSET CsrBit
  BY <1>1 DEF CsrBit
<1> QED
  BY <1>1, <1>2, StatusChange

LEMMA VisitDoes ==
  ASSUME TypeInv, Visit
  PROVE  \E c \in Channel :
           /\ c >= at /\ Due(c) /\ InPass /\ run = Idle /\ at' = c + 1
           /\ tcd'[c] \in Tcd /\ tcd'[c].csr = tcd[c].csr \ {"START", "DONE"}
           /\ SameButStatus(tcd[c], tcd'[c])
           /\ \A d \in Channel : d # c => tcd'[d] = tcd[d]
           /\ run' # Idle /\ run'.ch = c /\ run'.moved = 0
           /\ run'.saddr = tcd[c].saddr /\ run'.daddr = tcd[c].daddr
           /\ UNCHANGED <<uartVars, erq, int_req, phase, requests, driverVars, mem>>
<1>1. PICK c \in at .. MaxChannel :
        /\ Due(c)
        /\ tcd' = [tcd EXCEPT ![c].csr = @ \ {"START", "DONE"}]
        /\ run' = [ch |-> c, saddr |-> tcd[c].saddr, daddr |-> tcd[c].daddr, moved |-> 0]
        /\ at' = c + 1
  BY DEF Visit
<1>2. c \in Channel /\ c >= at /\ c # -1
  BY SizeAssumption DEF TypeInv, TypeInvariant, Channel
<1>3. tcd \in [Channel -> Tcd] /\ tcd[c] \in Tcd
  BY <1>2 DEF TypeInv, TypeInvariant
<1> DEFINE w == [tcd[c] EXCEPT !.csr = @ \ {"START", "DONE"}]
<1>4. w \in Tcd /\ w.csr = tcd[c].csr \ {"START", "DONE"} /\ SameButStatus(tcd[c], w)
  <2>1. tcd[c].csr \in SUBSET CsrBit
    BY <1>3, TcdIsTyped
  <2> DEFINE t == tcd[c]
             x == t.csr \ {"START", "DONE"}
  <2>2. x \in SUBSET CsrBit /\ x \ {"START", "DONE"} = t.csr \ {"START", "DONE"}
    BY <2>1
  <2>3. w = [t EXCEPT !.csr = x] /\ t \in Tcd
    BY <1>3
  <2> HIDE DEF t, x
  <2>4. w \in Tcd /\ w.csr = x /\ SameButStatus(t, w)
    BY <2>2, <2>3, StatusChange
  <2> QED
    BY <2>4 DEF t, x
<1>5. tcd' = [tcd EXCEPT ![c] = w]
  BY <1>1
<1> HIDE DEF w
<1>6. tcd'[c] = w /\ \A d \in Channel : d # c => tcd'[d] = tcd[d]
  BY <1>2, <1>3, <1>5
<1>7. run' # Idle /\ run'.ch = c /\ run'.moved = 0
      /\ run'.saddr = tcd[c].saddr /\ run'.daddr = tcd[c].daddr
  BY <1>1, <1>2 DEF Idle
<1>8. /\ InPass /\ run = Idle
      /\ UNCHANGED <<uartVars, erq, int_req, phase, requests, driverVars, mem>>
  BY DEF Visit
<1> QED
  BY <1>1, <1>2, <1>4, <1>6, <1>7, <1>8

LEMMA MoveDoes ==
  ASSUME TypeInv, MoveUnit, NEW t, t = tcd[run.ch]
  PROVE  /\ run # Idle /\ run.ch \in Channel /\ InPass /\ t \in Tcd
         /\ run.moved < t.nbytes /\ Transfer(t, run.saddr, run.daddr)
         /\ run' # Idle /\ run'.ch = run.ch /\ run'.moved = run.moved + Unit(t)
         /\ run'.saddr = run.saddr + t.soff /\ run'.daddr = run.daddr + t.doff
         /\ UNCHANGED <<engineVars, phase, at, requests, driverVars>>
<1>1. /\ run # Idle /\ run.ch \in Channel /\ InPass /\ t \in Tcd
      /\ run \in [ch : Channel \union {-1}, saddr : Int, daddr : Int, moved : Nat]
      /\ Idle.ch \notin Channel
  BY RunIsTyped DEF MoveUnit, TypeInv, TypeInvariant
<1>2. /\ run.moved < t.nbytes /\ Transfer(t, run.saddr, run.daddr)
      /\ run' = [run EXCEPT !.saddr = @ + t.soff, !.daddr = @ + t.doff, !.moved = @ + Unit(t)]
      /\ UNCHANGED <<engineVars, phase, at, requests, driverVars>>
  BY DEF MoveUnit
<1>3. /\ run'.ch = run.ch /\ run'.moved = run.moved + Unit(t)
      /\ run'.saddr = run.saddr + t.soff /\ run'.daddr = run.daddr + t.doff
  BY <1>1, <1>2
<1> QED
  BY <1>1, <1>2, <1>3

LEMMA MinorDoes ==
  ASSUME TypeInv, EndMinorLoop, NEW c, c = run.ch, NEW t, t = tcd[c]
  PROVE  /\ run # Idle /\ c \in Channel /\ InPass /\ t \in Tcd
         /\ run.moved >= t.nbytes /\ NextCiter(t.citer) # 0
         /\ tcd'[c] = [t EXCEPT !.saddr = run.saddr, !.daddr = run.daddr,
                                !.citer = NextCiter(t.citer)]
         /\ SameFields(t, tcd'[c]) /\ tcd'[c].csr = t.csr
         /\ tcd'[c].citer = NextCiter(t.citer)
         /\ \A d \in Channel : d # c => tcd'[d] = tcd[d]
         /\ run' = Idle
         /\ UNCHANGED <<uartVars, erq, int_req, phase, at, requests, driverVars, mem>>
<1>1. /\ run # Idle /\ c \in Channel /\ InPass /\ t \in Tcd /\ tcd \in [Channel -> Tcd]
  BY RunIsTyped DEF EndMinorLoop, MinorLoopDone, TypeInv, TypeInvariant
<1> DEFINE w == [t EXCEPT !.saddr = run.saddr, !.daddr = run.daddr,
                          !.citer = NextCiter(t.citer)]
<1>2. /\ run.moved >= t.nbytes /\ NextCiter(t.citer) # 0
      /\ tcd' = [tcd EXCEPT ![c] = w] /\ run' = Idle
      /\ UNCHANGED <<uartVars, erq, int_req, phase, at, requests, driverVars, mem>>
  BY <1>1 DEF EndMinorLoop, MinorLoopDone
<1>3. SameFields(t, w) /\ w.csr = t.csr /\ w.citer = NextCiter(t.citer)
  BY <1>1 DEF SameFields, Tcd
<1> HIDE DEF w
<1>4. tcd'[c] = w /\ \A d \in Channel : d # c => tcd'[d] = tcd[d]
  BY <1>1, <1>2
<1> QED
  BY <1>1, <1>2, <1>3, <1>4 DEF w

LEMMA MajorDoes ==
  ASSUME TypeInv, EndMajorLoop, NEW c, c = run.ch, NEW t, t = tcd[c]
  PROVE  /\ run # Idle /\ c \in Channel /\ InPass /\ t \in Tcd
         /\ run.moved >= t.nbytes /\ NextCiter(t.citer) = 0
         /\ int_req' = IF "INTMAJOR" \in t.csr THEN int_req \union {c} ELSE int_req
         /\ erq' = IF "DREQ" \in t.csr THEN erq \ {c} ELSE erq
         /\ tcd'[c] = Reloaded(c) /\ Reloaded(c) \in Tcd
         /\ \A d \in Channel : d # c =>
              /\ tcd'[d] \in Tcd /\ SameButStatus(tcd[d], tcd'[d])
              /\ tcd'[d].csr = IF "MAJORELINK" \in t.csr /\ d = t.linkch
                                 THEN tcd[d].csr \union {"START"} ELSE tcd[d].csr
         /\ run' = Idle
         /\ UNCHANGED <<uartVars, phase, at, requests, driverVars, mem>>
<1>1. /\ run # Idle /\ c \in Channel /\ InPass /\ t \in Tcd /\ tcd \in [Channel -> Tcd]
  BY RunIsTyped DEF EndMajorLoop, MinorLoopDone, TypeInv, TypeInvariant
<1>2. /\ run.moved >= t.nbytes /\ NextCiter(t.citer) = 0
      /\ int_req' = IF "INTMAJOR" \in t.csr THEN int_req \union {c} ELSE int_req
      /\ erq' = IF "DREQ" \in t.csr THEN erq \ {c} ELSE erq
      /\ tcd' = [LinkFrom(t) EXCEPT ![c] = Reloaded(c)] /\ run' = Idle
      /\ UNCHANGED <<uartVars, phase, at, requests, driverVars, mem>>
  BY <1>1 DEF EndMajorLoop, MinorLoopDone, LinkFrom
<1>3. /\ tcd'[c] = Reloaded(c) /\ Reloaded(c) \in Tcd
      /\ \A d \in Channel : d # c => tcd'[d] = LinkFrom(t)[d]
  BY <1>1, <1>2, ReloadedIsTyped, LinkIsTyped
<1>4. ASSUME NEW d \in Channel, d # c
      PROVE  /\ tcd'[d] \in Tcd /\ SameButStatus(tcd[d], tcd'[d])
             /\ tcd'[d].csr = IF "MAJORELINK" \in t.csr /\ d = t.linkch
                                THEN tcd[d].csr \union {"START"} ELSE tcd[d].csr
  <2>1. tcd[d] \in Tcd
    BY <1>1
  <2>2. tcd'[d] = IF "MAJORELINK" \in t.csr /\ d = t.linkch
                    THEN [tcd[d] EXCEPT !.csr = @ \union {"START"}] ELSE tcd[d]
    BY <1>1, <1>3, <1>4, LinkIsTyped
  <2>3. SameButStatus(tcd[d], tcd[d])
    BY DEF SameButStatus, SameFields
  <2> QED
    BY <2>1, <2>2, <2>3, StartChange
<1> QED
  BY <1>1, <1>2, <1>3, <1>4

LEMMA SsrtDoes ==
  ASSUME TypeInv, NEW s \in Setups, Ssrt(s)
  PROVE  \E c \in s.starts :
           /\ c \in Channel /\ tcd'[c] \in Tcd /\ SameButStatus(tcd[c], tcd'[c])
           /\ tcd'[c].csr = tcd[c].csr \union {"START"}
           /\ \A d \in Channel : d # c => tcd'[d] = tcd[d]
           /\ run = Idle /\ run' = Idle
<1>1. PICK c \in s.starts : tcd' = [tcd EXCEPT ![c].csr = @ \union {"START"}]
  BY DEF Ssrt
<1>2. c \in Channel /\ tcd \in [Channel -> Tcd] /\ tcd[c] \in Tcd
  BY SetupAssumption DEF IsSetup, TypeInv, TypeInvariant
<1> DEFINE w == [tcd[c] EXCEPT !.csr = @ \union {"START"}]
<1>3. w \in Tcd /\ w.csr = tcd[c].csr \union {"START"} /\ SameButStatus(tcd[c], w)
  BY <1>2, StartChange
<1>4. tcd' = [tcd EXCEPT ![c] = w]
  BY <1>1
<1> HIDE DEF w
<1>5. tcd'[c] = w /\ \A d \in Channel : d # c => tcd'[d] = tcd[d]
  BY <1>2, <1>4
<1>6. run = Idle /\ run' = Idle
  BY DEF Ssrt, WritesEdma, TypeInv, InPass
<1> QED
  BY <1>2, <1>3, <1>5, <1>6

(* What stays when neither the descriptors nor run_channel move.           *)
LEMMA LineStays ==
  ASSUME NEW s, LineInv(s), UNCHANGED <<setup, tcd, run>>
  PROVE  LineInv(s)'
<1>1. InUse(s)' <=> InUse(s)
  BY DEF InUse
<1>2. \A k : UnderWay(tcd[run.ch], k)' <=> UnderWay(tcd[run.ch], k)
  BY DEF UnderWay
<1>3. tcd' = tcd /\ run' = run
  OBVIOUS
<1> QED
  BY <1>1, <1>2, <1>3 DEF LineInv

LEMMA LineStarts ==
  ASSUME Init, NEW s \in Setups
  PROVE  LineInv(s)
  BY SetupAssumption DEF Init, LineInv, InUse, IsSetup

LEMMA ProgramDraws ==
  ASSUME TypeInv, NEW s \in Setups, AllSteady(s), NEW r \in Setups, Program(r)
  PROVE  LineInv(s)'
<1> SUFFICES ASSUME InUse(s)'
             PROVE  /\ \A c \in Channel : \E o \in Descriptors(s, c) : Along(o, tcd'[c])
                    /\ run' = Idle
  BY DEF LineInv
<1>1. r = s
  BY SetupAssumption DEF Program, InUse
<1>2. run' = Idle
  BY DEF Program, WritesEdma, TypeInv, InPass
<1>3. ASSUME NEW c \in Channel
      PROVE  \E o \in Descriptors(s, c) : Along(o, tcd'[c])
  <2>1. tcd'[c] = TcdOf(s, c)
    BY <1>1 DEF Program
  <2>2. TcdOf(s, c) \in Descriptors(s, c) /\ TcdOf(s, c) \in Tcd /\ Steady(TcdOf(s, c))
    BY DescriptorsAreClosed DEF AllSteady
  <2> QED
    BY <2>1, <2>2, LineBegins
<1> QED
  BY <1>2, <1>3

(* A channel whose status bits only have changed.                          *)
LEMMA StatusKeepsLine ==
  ASSUME NEW t \in Tcd, NEW w \in Tcd, SameButStatus(t, w)
  PROVE  /\ \A o : Along(o, t) => Along(o, w)
         /\ Turns(w) = Turns(t)
  BY SameLine DEF SameButStatus

LEMMA SsrtKeepsLine ==
  ASSUME TypeInv, NEW s \in Setups, LineInv(s), NEW r \in Setups, Ssrt(r)
  PROVE  LineInv(s)'
<1> SUFFICES ASSUME InUse(s)'
             PROVE  /\ \A c \in Channel : \E o \in Descriptors(s, c) : Along(o, tcd'[c])
                    /\ run' = Idle
  BY DEF LineInv
<1>1. PICK c \in Channel :
        /\ tcd'[c] \in Tcd /\ SameButStatus(tcd[c], tcd'[c])
        /\ \A d \in Channel : d # c => tcd'[d] = tcd[d]
        /\ run' = Idle
  BY SsrtDoes
<1>2. InUse(s) /\ tcd \in [Channel -> Tcd]
  BY DEF InUse, Ssrt, driverVars, TypeInv, TypeInvariant
<1>3. ASSUME NEW d \in Channel
      PROVE  \E o \in Descriptors(s, d) : Along(o, tcd'[d])
  <2>1. PICK o \in Descriptors(s, d) : Along(o, tcd[d])
    BY <1>2 DEF LineInv
  <2>2. Along(o, tcd'[d])
    BY <1>1, <1>2, <2>1, StatusKeepsLine
  <2> QED
    BY <2>2
<1> QED
  BY <1>1, <1>3

LEMMA VisitKeepsLine ==
  ASSUME TypeInv, NEW s \in Setups, LineInv(s), Visit
  PROVE  LineInv(s)'
<1> SUFFICES ASSUME InUse(s)'
             PROVE  /\ \A c \in Channel : \E o \in Descriptors(s, c) : Along(o, tcd'[c])
                    /\ \E k \in 0 .. Turns(tcd'[run'.ch]) : UnderWay(tcd[run.ch], k)'
  BY DEF LineInv
<1>1. PICK c \in Channel :
        /\ tcd'[c] \in Tcd /\ SameButStatus(tcd[c], tcd'[c])
        /\ \A d \in Channel : d # c => tcd'[d] = tcd[d]
        /\ run'.ch = c /\ run'.moved = 0
        /\ run'.saddr = tcd[c].saddr /\ run'.daddr = tcd[c].daddr
        /\ UNCHANGED driverVars
  BY VisitDoes
<1>2. InUse(s) /\ tcd \in [Channel -> Tcd]
  BY <1>1 DEF InUse, driverVars, TypeInv, TypeInvariant
<1>3. ASSUME NEW d \in Channel
      PROVE  \E o \in Descriptors(s, d) : Along(o, tcd'[d])
  <2>1. PICK o \in Descriptors(s, d) : Along(o, tcd[d])
    BY <1>2 DEF LineInv
  <2>2. Along(o, tcd'[d])
    BY <1>1, <1>2, <2>1, StatusKeepsLine
  <2> QED
    BY <2>2
<1>4. 0 \in 0 .. Turns(tcd'[c])
  BY <1>1, TurnsOfALoop
<1>5. UnderWay(tcd[run.ch], 0)'
  <2> DEFINE w == tcd'[c]
             u == Unit(w)
  <2>1. w \in Tcd /\ u \in Nat /\ w.soff \in Int /\ w.doff \in Int
        /\ w.saddr \in Int /\ w.daddr \in Int
    BY <1>1, TcdIsTyped, TurnsOfALoop
  <2>2. /\ run'.moved = 0 /\ run'.saddr = w.saddr /\ run'.daddr = w.daddr
        /\ tcd'[run'.ch] = w
    BY <1>1 DEF SameButStatus
  <2>3. 0 = 0 * u /\ w.saddr = w.saddr + 0 * w.soff /\ w.daddr = w.daddr + 0 * w.doff
    BY <2>1
  <2> HIDE DEF w, u
  <2> QED
    BY <2>2, <2>3 DEF UnderWay, u
<1> QED
  BY <1>1, <1>3, <1>4, <1>5

LEMMA MoveKeepsLine ==
  ASSUME TypeInv, NEW s \in Setups, LineInv(s), MoveUnit
  PROVE  LineInv(s)'
<1> DEFINE t == tcd[run.ch]
<1>1. /\ run # Idle /\ run.ch \in Channel /\ t \in Tcd /\ run.moved < t.nbytes
      /\ run'.ch = run.ch /\ run'.moved = run.moved + Unit(t)
      /\ run'.saddr = run.saddr + t.soff /\ run'.daddr = run.daddr + t.doff
      /\ UNCHANGED <<engineVars, driverVars>>
  BY MoveDoes
<1>2. tcd' = tcd /\ setup' = setup /\ t' = t
  BY <1>1 DEF engineVars, driverVars
<1> SUFFICES ASSUME InUse(s)
             PROVE  \E k \in 0 .. Turns(t) : UnderWay(tcd[run.ch], k)'
  BY <1>1, <1>2 DEF LineInv, InUse
<1>3. PICK k \in 0 .. Turns(t) : UnderWay(t, k)
  BY <1>1 DEF LineInv
<1>4. k + 1 \in 0 .. Turns(t) /\ k \in Int
  BY <1>1, <1>3, TurnsOfALoop DEF UnderWay
<1>5. UnderWay(tcd[run.ch], k + 1)'
  <2> DEFINE u == Unit(t)
  <2>1. u \in Int /\ t.soff \in Int /\ t.doff \in Int /\ t.saddr \in Int /\ t.daddr \in Int
    BY <1>1, TcdIsTyped, TurnsOfALoop
  <2>2. /\ (k + 1) * u = k * u + u /\ k * u \in Int
        /\ (k + 1) * t.soff = k * t.soff + t.soff /\ k * t.soff \in Int
        /\ (k + 1) * t.doff = k * t.doff + t.doff /\ k * t.doff \in Int
    BY <1>4, <2>1, OneMore
  <2>3. /\ run'.moved = k * u + u
        /\ run'.saddr = (t.saddr + k * t.soff) + t.soff
        /\ run'.daddr = (t.daddr + k * t.doff) + t.doff
    BY <1>1, <1>3 DEF UnderWay
  <2> HIDE DEF u, t
  <2>4. /\ run'.moved = (k + 1) * u
        /\ run'.saddr = t.saddr + (k + 1) * t.soff
        /\ run'.daddr = t.daddr + (k + 1) * t.doff
    BY <2>1, <2>2, <2>3
  <2>5. tcd'[run'.ch] = t
    BY <1>1, <1>2 DEF t
  <2> QED
    BY <2>4, <2>5 DEF UnderWay, u
<1> QED
  BY <1>4, <1>5

LEMMA LoopIsOver ==
  ASSUME TypeInv, NEW s \in Setups, LineInv(s), InUse(s), run # Idle,
         NEW t, t = tcd[run.ch], run.moved >= t.nbytes
  PROVE  UnderWay(t, Turns(t))
<1>1. t \in Tcd /\ run.moved \in Nat /\ t.nbytes \in Nat
  BY RunIsTyped, TcdIsTyped
<1>2. PICK k \in 0 .. Turns(t) : UnderWay(t, k)
  BY DEF LineInv
<1>3. ~(k < Turns(t)) /\ Turns(t) \in Nat
  BY <1>1, <1>2, TurnsOfALoop DEF UnderWay
<1> QED
  BY <1>2, <1>3

LEMMA MinorKeepsLine ==
  ASSUME TypeInv, NEW s \in Setups, LineInv(s), EndMinorLoop
  PROVE  LineInv(s)'
<1> DEFINE c == run.ch
           t == tcd[c]
<1> SUFFICES ASSUME InUse(s)'
             PROVE  /\ \A d \in Channel : \E o \in Descriptors(s, d) : Along(o, tcd'[d])
                    /\ run' = Idle
  BY DEF LineInv
<1>1. /\ run # Idle /\ c \in Channel /\ t \in Tcd
      /\ run.moved >= t.nbytes /\ NextCiter(t.citer) # 0
      /\ tcd'[c] = [t EXCEPT !.saddr = run.saddr, !.daddr = run.daddr,
                             !.citer = NextCiter(t.citer)]
      /\ \A d \in Channel : d # c => tcd'[d] = tcd[d]
      /\ run' = Idle /\ UNCHANGED driverVars
  BY MinorDoes
<1>2. InUse(s) /\ tcd'[c] \in Tcd
  BY <1>1, EndMinorLoopKeepsTypes DEF InUse, driverVars, TypeInv, TypeInvariant
<1>3. PICK o \in Descriptors(s, c) : Along(o, t)
  BY <1>1, <1>2 DEF LineInv
<1>4. UnderWay(t, Turns(t)) /\ o \in Tcd
  BY <1>1, <1>2, LoopIsOver, DescriptorsAreClosed
<1> HIDE DEF t
<1>5. Along(o, tcd'[c])
  BY <1>1, <1>2, <1>3, <1>4, MinorLoopAdvances
<1> QED
  BY <1>1, <1>2, <1>3, <1>5 DEF LineInv

LEMMA MajorKeepsLine ==
  ASSUME TypeInv, NEW s \in Setups, AllSteady(s), LineInv(s), EndMajorLoop
  PROVE  LineInv(s)'
<1> DEFINE c == run.ch
           t == tcd[c]
<1> SUFFICES ASSUME InUse(s)'
             PROVE  /\ \A d \in Channel : \E o \in Descriptors(s, d) : Along(o, tcd'[d])
                    /\ run' = Idle
  BY DEF LineInv
<1>1. /\ run # Idle /\ c \in Channel /\ t \in Tcd
      /\ run.moved >= t.nbytes /\ NextCiter(t.citer) = 0
      /\ tcd'[c] = Reloaded(c) /\ Reloaded(c) \in Tcd
      /\ \A d \in Channel : d # c => tcd'[d] \in Tcd /\ SameButStatus(tcd[d], tcd'[d])
      /\ run' = Idle /\ UNCHANGED driverVars
  BY MajorDoes
<1>2. InUse(s) /\ tcd \in [Channel -> Tcd]
  BY <1>1 DEF InUse, driverVars, TypeInv, TypeInvariant
<1>3. PICK o \in Descriptors(s, c) : Along(o, t)
  BY <1>1, <1>2 DEF LineInv
<1>4. UnderWay(t, Turns(t)) /\ o \in Tcd /\ Steady(o)
  BY <1>1, <1>2, LoopIsOver, DescriptorsAreClosed DEF AllSteady
<1>5. \E p \in Descriptors(s, c) : Along(p, tcd'[c])
  <2>1. CASE "ESG" \in t.csr
    <3>1. Reloaded(c) = Loaded(o) /\ "ESG" \in o.csr
      BY <1>3, <2>1 DEF Reloaded, Loaded, Along, SameFields
    <3>2. Loaded(o) \in Descriptors(s, c) /\ Loaded(o) \in Tcd /\ Steady(Loaded(o))
      BY <1>1, <3>1, DescriptorsAreClosed DEF AllSteady
    <3> QED
      BY <1>1, <3>1, <3>2, LineBegins
  <2>2. CASE "ESG" \notin t.csr
    <3>1. tcd'[c] = [t EXCEPT !.saddr = run.saddr + t.slast, !.daddr = run.daddr + t.dlast,
                              !.citer = t.biter, !.csr = @ \union {"DONE"}]
      BY <1>1, <2>2 DEF Reloaded
    <3> HIDE DEF t
    <3>2. Along(o, tcd'[c])
      BY <1>1, <1>3, <1>4, <2>2, <3>1, MajorLoopWindsBack, ZenonT(60)
    <3> QED
      BY <3>2
  <2> QED
    BY <2>1, <2>2
<1>6. ASSUME NEW d \in Channel, d # c
      PROVE  \E p \in Descriptors(s, d) : Along(p, tcd'[d])
  <2>1. PICK p \in Descriptors(s, d) : Along(p, tcd[d])
    BY <1>2 DEF LineInv
  <2>2. Along(p, tcd'[d])
    BY <1>1, <1>2, <1>6, <2>1, StatusKeepsLine
  <2> QED
    BY <2>2
<1> QED
  BY <1>1, <1>5, <1>6

LEMMA LineStep ==
  ASSUME TypeInv, NEW s \in Setups, AllSteady(s), LineInv(s), [Next]_vars
  PROVE  LineInv(s)'
<1>1. CASE UNCHANGED vars
  BY <1>1, LineStays DEF vars, engineVars, passVars, driverVars
<1>2. CASE HostPush \/ OtherInstruction \/ EndPass \/ Tick
  BY <1>2, LineStays DEF HostPush, OtherInstruction, LeavesEdma, EndPass, Tick,
                         engineVars, passVars, driverVars
<1>3. ASSUME NEW r \in Setups,
             SetErq(r) \/ ClearErq(r) \/ Acknowledge(r) \/ ToggleUartDma(r)
      PROVE  LineInv(s)'
  BY <1>3, LineStays DEF SetErq, ClearErq, Acknowledge, ToggleUartDma, LeavesEdma,
                         WritesEdma, engineVars, driverVars
<1> QED
  BY <1>1, <1>2, <1>3, ProgramDraws, SsrtKeepsLine, VisitKeepsLine, MoveKeepsLine,
     MinorKeepsLine, MajorKeepsLine DEF Next, Instruction, Pass

(* A turn of the minor loop in terms of the descriptor the major loop      *)
(* began with: its number, and the two addresses.                          *)
LEMMA TurnOfTheLine ==
  ASSUME NEW o \in Tcd, NEW t \in Tcd, Along(o, t), t.nbytes > 0,
         NEW k \in 0 .. Turns(t) - 1, UnderWay(t, k),
         NEW j, j = TurnsDone(t) + k
  PROVE  /\ j \in 0 .. o.biter * Turns(o) - 1
         /\ run.saddr = o.saddr + j * o.soff
         /\ run.daddr = o.daddr + j * o.doff
<1> DEFINE d == TurnsDone(t)
           T == Turns(t)
           m == t.biter - t.citer
           b == t.biter
<1>1. /\ t.soff = o.soff /\ t.doff = o.doff /\ b = o.biter /\ Turns(o) = T
      /\ t.citer \in 1 .. b
      /\ t.saddr = o.saddr + d * o.soff /\ t.daddr = o.daddr + d * o.doff
  <2>1. SameFields(t, o)
    BY DEF Along, SameFields
  <2> QED
    BY <2>1, SameLine DEF Along, SameFields
<1>2. b \in Nat /\ T \in Nat /\ k \in Nat /\ k < T /\ d = m * T
      /\ o.soff \in Int /\ o.doff \in Int /\ o.saddr \in Int /\ o.daddr \in Int
  BY TcdIsTyped, TurnsOfALoop DEF TurnsDone
<1>3. m \in Nat /\ m + 1 <= b
  BY <1>1, <1>2
<1>4. run.saddr = t.saddr + k * o.soff /\ run.daddr = t.daddr + k * o.doff
  BY <1>1 DEF UnderWay
<1>5. d \in Nat /\ d + T <= b * T /\ b * T \in Nat
  <2> HIDE DEF d, m, b, T
  <2>1. (m + 1) * T <= b * T /\ (m + 1) * T = m * T + T /\ m * T \in Nat
    BY <1>2, <1>3, ProductIsMonotone, OneMore
  <2> QED
    BY <1>2, <1>3, <2>1, ProductIsMonotone
<1> HIDE DEF d, m, b, T
<1>6. j \in 0 .. b * T - 1
  BY <1>2, <1>5 DEF d
<1>7. /\ run.saddr = o.saddr + (d + k) * o.soff
      /\ run.daddr = o.daddr + (d + k) * o.doff
  BY <1>1, <1>2, <1>4, <1>5, AddressAdvances
<1> QED
  BY <1>1, <1>6, <1>7 DEF d

(* What one turn writes to RAM lies in the buffer of the descriptor.       *)
LEMMA TurnStaysInFootprint ==
  ASSUME TypeInv, NEW s \in Setups, LineInv(s), InUse(s), MoveUnit,
         NEW a \in Ram, mem'[a] # mem[a]
  PROVE  \E o \in Descriptors(s, run.ch) : a \in Footprint(o)
<1> DEFINE t == tcd[run.ch]
<1>1. /\ run # Idle /\ run.ch \in Channel /\ t \in Tcd /\ run.moved < t.nbytes
      /\ Transfer(t, run.saddr, run.daddr) /\ run.moved \in Nat
  BY MoveDoes, RunIsTyped
<1>2. PICK o \in Descriptors(s, run.ch) : Along(o, t)
  BY <1>1 DEF LineInv
<1>3. PICK k \in 0 .. Turns(t) : UnderWay(t, k)
  BY <1>1 DEF LineInv
<1>4. o \in Tcd /\ k \in 0 .. Turns(t) - 1 /\ t.nbytes > 0
  BY <1>1, <1>2, <1>3, DescriptorsAreClosed, TurnsOfALoop, TcdIsTyped DEF UnderWay
<1> DEFINE i == a - run.daddr
           j == TurnsDone(t) + k
<1>5. i \in 0 .. t.dsize - 1
  BY <1>1 DEF Transfer
<1>6. j \in 0 .. o.biter * Turns(o) - 1 /\ run.daddr = o.daddr + j * o.doff
  BY <1>1, <1>2, <1>3, <1>4, TurnOfTheLine
<1>7. t.dsize = o.dsize /\ run.daddr \in Int /\ a \in Int
  BY <1>2, RunIsTyped, SizeAssumption DEF Along, SameFields, Ram
<1>8. a = o.daddr + j * o.doff + i
  <2>1. a = run.daddr + i
    BY <1>7
  <2> HIDE DEF i
  <2> QED
    BY <1>6, <2>1
<1> HIDE DEF i, j
<1>9. a \in Footprint(o)
  BY <1>5, <1>6, <1>7, <1>8 DEF Footprint
<1> QED
  BY <1>9

(***************************************************************************)
(* Nothing is written outside the buffers                                  *)
(***************************************************************************)

GuardInv ==
  /\ TypeInv
  /\ \A s \in Setups : s.guards # {} => LineInv(s)
  /\ GuardsIntact

LEMMA MemoryStays ==
  ASSUME [Next]_vars, ~MoveUnit, \A s \in Setups : ~Program(s)
  PROVE  mem' = mem
  BY DEF Next, Instruction, Pass, HostPush, OtherInstruction, SetErq, ClearErq, Ssrt,
         Acknowledge, ToggleUartDma, Visit, EndMinorLoop, EndMajorLoop, EndPass, Tick, vars

LEMMA SetupStays ==
  ASSUME [Next]_vars, \A s \in Setups : ~Program(s)
  PROVE  setup' = setup
  BY DEF Next, Instruction, Pass, HostPush, OtherInstruction, SetErq, ClearErq, Ssrt,
         Acknowledge, ToggleUartDma, Visit, MoveUnit, EndMinorLoop, EndMajorLoop, EndPass,
         Tick, vars, driverVars

LEMMA GuardStart == Init => GuardInv
<1> SUFFICES ASSUME Init PROVE GuardInv
  OBVIOUS
<1>1. \A s \in Setups : ~InUse(s)
  BY SetupAssumption DEF Init, InUse, IsSetup
<1> QED
  BY <1>1, TypesStart, LineStarts DEF GuardInv, GuardsIntact

LEMMA GuardStep == GuardInv /\ [Next]_vars => GuardInv'
<1> SUFFICES ASSUME GuardInv, [Next]_vars PROVE GuardInv'
  OBVIOUS
<1>1. TypeInv /\ TypeInv'
  BY TypesStep DEF GuardInv
<1>2. ASSUME NEW s \in Setups, s.guards # {}
      PROVE  AllSteady(s) /\ LineInv(s) /\ LineInv(s)'
  <2>1. AllSteady(s) /\ LineInv(s)
    BY <1>2, GuardAssumption DEF AllSteady, GuardInv
  <2> QED
    BY <1>1, <2>1, LineStep
<1>3. ASSUME NEW s \in Setups, InUse(s)', NEW a \in s.guards
      PROVE  mem'[a] = IF a \in DOMAIN s.mem THEN s.mem[a] ELSE 0
  <2>1. a \in Ram
    BY <1>3, SetupAssumption DEF IsSetup
  <2>2. CASE \E r \in Setups : Program(r)
    <3>1. Program(s)
      BY <1>3, <2>2, SetupAssumption DEF Program, InUse
    <3> QED
      BY <2>1, <3>1 DEF Program
  <2>3. CASE \A r \in Setups : ~Program(r)
    <3>1. InUse(s)
      BY <1>3, <2>3, SetupStays DEF InUse
    <3>2. mem[a] = IF a \in DOMAIN s.mem THEN s.mem[a] ELSE 0
      BY <1>3, <3>1 DEF GuardInv, GuardsIntact
    <3>3. CASE MoveUnit
      <4>1. run.ch \in Channel
        BY <1>1, <3>3, MoveDoes
      <4>2. \A o \in Descriptors(s, run.ch) : a \notin Footprint(o)
        BY <1>3, <4>1, GuardAssumption
      <4>3. mem'[a] = mem[a]
        BY <1>1, <1>2, <1>3, <2>1, <3>1, <3>3, <4>2, TurnStaysInFootprint
      <4> QED
        BY <3>2, <4>3
    <3>4. CASE ~MoveUnit
      BY <2>3, <3>2, <3>4, MemoryStays
    <3> QED
      BY <3>3, <3>4
  <2> QED
    BY <2>2, <2>3
<1>4. GuardsIntact'
  BY <1>3 DEF GuardsIntact, InUse
<1> QED
  BY <1>1, <1>2, <1>4 DEF GuardInv

(* A program whose descriptors wind their addresses back and whose buffers *)
(* avoid the guards leaves every guard as it was, after any number of      *)
(* blocks, links, reloads, starts and interruptions.                       *)
THEOREM BuffersAreRespected == Spec => []GuardsIntact
<1>1. GuardInv => GuardsIntact
  BY DEF GuardInv
<1> QED
  BY <1>1, GuardStart, GuardStep, PTL DEF Spec

(***************************************************************************)
(* A copy that reports DONE is complete                                    *)
(***************************************************************************)

(* The bytes of the target below address e are those of the source.        *)
Copied(m, s, e) ==
  \A i \in 0 .. s.copy - 1 : s.to + i < e => m[s.to + i] = m[s.from + i]

CopyLine(s) ==
  InUse(s) =>
    \A c \in s.starts :
      /\ Along(TcdOf(s, c), tcd[c])
      /\ Copied(mem, s, tcd[c].daddr)
      /\ run.ch = c => Copied(mem, s, run.daddr)
      /\ "DONE" \in tcd[c].csr => Copied(mem, s, s.to + s.copy)

LEMMA WholeTurns ==
  ASSUME NEW t \in Tcd, t.nbytes % Unit(t) = 0
  PROVE  Turns(t) * Unit(t) = t.nbytes
<1> DEFINE u == Unit(t)
           n == t.nbytes
           q == n \div u
           T == Turns(t)
<1>1. u \in Nat \ {0} /\ T \in Nat /\ n \in Nat
  BY TurnsOfALoop, TcdIsTyped
<1>2. ~(T * u < n) /\ \A k \in 0 .. T : k * u < n <=> k < T
  BY <1>1, TurnsOfALoop
<1>3. n % u = 0
  OBVIOUS
<1> HIDE DEF u, n, T
<1>4. q \in Nat /\ q * u = n
  <2>1. n = u * (n \div u) + (n % u) /\ n \div u \in Nat
    BY <1>1
  <2> QED
    BY <1>1, <1>3, <2>1
<1> HIDE DEF q
<1>5. q <= T
  <2> SUFFICES ASSUME T + 1 <= q PROVE FALSE
    BY <1>1, <1>4
  <2>1. (T + 1) * u <= q * u /\ (T + 1) * u = T * u + u /\ T * u \in Nat
    BY <1>1, <1>4, ProductIsMonotone, OneMore
  <2> QED
    BY <1>1, <1>2, <1>4, <2>1
<1>6. q = T
  BY <1>1, <1>2, <1>4, <1>5
<1> QED
  BY <1>4, <1>6 DEF u, n, T

(* A channel that copies, and the turn it is at.                           *)
LEMMA CopyingChannel ==
  ASSUME NEW s \in Setups, AlignedCopy(s), s.copy > 0, NEW c \in s.starts,
         NEW o, o = TcdOf(s, c), NEW w, w = o.ssize
  PROVE  /\ c \in Channel /\ o \in Tcd /\ Steady(o) /\ o \in Descriptors(s, c)
         /\ "ESG" \notin o.csr /\ "DONE" \notin o.csr /\ o.nbytes > 0
         /\ o.saddr = s.from /\ o.daddr = s.to
         /\ w \in Width /\ w \in Nat \ {0} /\ o.soff = w /\ o.doff = w /\ o.dsize = w
         /\ Unit(o) = w /\ Turns(o) \in Nat /\ o.biter \in Nat
         /\ (o.biter * Turns(o)) * w = s.copy
<1>1. c \in Channel
  BY SetupAssumption DEF IsSetup
<1>2. o \in Tcd /\ Steady(o) /\ o \in Descriptors(s, c)
  BY <1>1, DescriptorsAreClosed DEF AlignedCopy
<1>3. /\ "ESG" \notin o.csr /\ "DONE" \notin o.csr /\ o.nbytes > 0
      /\ o.saddr = s.from /\ o.daddr = s.to
      /\ o.soff = w /\ o.doff = w /\ o.dsize = w
      /\ o.nbytes % w = 0 /\ s.copy = o.biter * o.nbytes
  <2>1. {"ESG", "DONE"} \intersect o.csr = {} /\ {o.soff, o.doff, o.dsize} = {o.ssize}
    BY DEF AlignedCopy
  <2>2. o.soff = w /\ o.doff = w /\ o.dsize = w
    BY <2>1
  <2> QED
    BY <2>1, <2>2 DEF AlignedCopy
<1>4. w \in Width /\ w \in Nat \ {0} /\ o.biter \in Nat /\ Turns(o) \in Nat
  BY <1>2, TcdIsTyped, TurnsOfALoop DEF Width
<1>5. Unit(o) = w
  BY <1>2, <1>3, <1>4, LargerOf DEF Unit
<1>6. Turns(o) * w = o.nbytes
  BY <1>2, <1>3, <1>5, WholeTurns
<1> DEFINE T == Turns(o)
           b == o.biter
<1>7. (b * T) * w = b * (T * w)
  <2>1. b \in Int /\ T \in Int /\ w \in Int
    BY <1>4
  <2> HIDE DEF b, T
  <2> QED
    BY <2>1, Z3
<1> QED
  BY <1>1, <1>2, <1>3, <1>4, <1>5, <1>6, <1>7

(* What one turn of a copying channel does to the two blocks.              *)
LEMMA TurnCopies ==
  ASSUME TypeInv, NEW s \in Setups, AlignedCopy(s), s.copy > 0, InUse(s), LineInv(s),
         CopyLine(s), MoveUnit, run.ch \in s.starts
  PROVE  /\ run'.daddr - run.daddr \in Nat \ {0}
         /\ \A i \in 0 .. s.copy - 1 :
              /\ mem'[s.from + i] = mem[s.from + i]
              /\ mem'[s.to + i] = IF /\ s.to + i >= run.daddr
                                     /\ s.to + i < run'.daddr
                                    THEN mem[s.from + i] ELSE mem[s.to + i]
<1> DEFINE c == run.ch
           t == tcd[c]
           o == TcdOf(s, c)
           w == o.ssize
<1>1. /\ run # Idle /\ t \in Tcd /\ run.moved < t.nbytes /\ run.moved \in Nat
      /\ Transfer(t, run.saddr, run.daddr)
      /\ run'.daddr = run.daddr + t.doff
  BY MoveDoes, RunIsTyped
<1>2. /\ o \in Tcd /\ w \in Width /\ w \in Nat \ {0} /\ o.soff = w /\ o.doff = w
      /\ o.dsize = w /\ o.saddr = s.from /\ o.daddr = s.to
      /\ (o.biter * Turns(o)) * w = s.copy
      /\ o.biter \in Nat /\ Turns(o) \in Nat
  BY CopyingChannel
<1>3. Along(o, t) /\ t.ssize = w /\ t.dsize = w /\ t.doff = w
  BY <1>2 DEF CopyLine, Along, SameFields
<1>4. PICK k \in 0 .. Turns(t) : UnderWay(t, k)
  BY <1>1 DEF LineInv
<1>5. k \in 0 .. Turns(t) - 1 /\ t.nbytes > 0
  BY <1>1, <1>4, TurnsOfALoop, TcdIsTyped DEF UnderWay
<1> DEFINE j == TurnsDone(t) + k
           x == j * w
<1>6. /\ j \in 0 .. o.biter * Turns(o) - 1
      /\ run.saddr = s.from + x /\ run.daddr = s.to + x
  BY <1>1, <1>2, <1>3, <1>4, <1>5, TurnOfTheLine
<1>7. x \in Nat /\ x + w <= s.copy
  <2> DEFINE n == o.biter * Turns(o)
  <2>1. n \in Nat /\ n * w = s.copy /\ w \in Nat
    BY <1>2
  <2>2. j \in Nat /\ j + 1 <= n
    BY <1>6, <2>1
  <2> HIDE DEF n, j, w
  <2>3. (j + 1) * w <= n * w /\ (j + 1) * w = j * w + w /\ j * w \in Nat
    BY <2>1, <2>2, ProductIsMonotone, OneMore
  <2> QED
    BY <2>1, <2>3
<1>8. /\ \A i \in 0 .. s.copy - 1 : s.from + i \in Ram /\ s.to + i \in Ram
      /\ \A i, l \in 0 .. s.copy - 1 : s.from + i # s.to + l
      /\ s.from \in Nat /\ s.to \in Nat /\ s.copy \in Nat
  <2>1. s.from \in Nat /\ s.to \in Nat /\ s.copy \in Nat
    BY SetupAssumption, SizeAssumption DEF IsSetup, Ram
  <2>2. /\ \A i \in 0 .. s.copy - 1 : /\ s.from + i \in s.from .. s.from + s.copy - 1
                                      /\ s.to + i \in s.to .. s.to + s.copy - 1
    BY <2>1
  <2> QED
    BY <2>1, <2>2 DEF AlignedCopy
<1> DEFINE value == BusValue(run.saddr, w)
<1>9. /\ run.daddr # UartData /\ run.saddr # UartData
      /\ run.daddr \in Nat /\ run.saddr \in Nat
  BY <1>6, <1>7, <1>8 DEF UartData
<1>10. mem' = [a \in Ram |-> IF a - run.daddr \in 0 .. w - 1
                               THEN value[a - run.daddr] ELSE mem[a]]
  BY <1>1, <1>3, <1>9 DEF Transfer
<1>11. \A i \in 0 .. w - 1 : value[i] = mem[s.from + (x + i)]
  <2> TAKE i \in 0 .. w - 1
  <2>1. i \in 0 .. 3 /\ i < w
    BY <1>2, WidthIsSmall
  <2>2. run.saddr + i = s.from + (x + i) /\ x + i \in 0 .. s.copy - 1
    BY <1>2, <1>6, <1>7, <1>8
  <2>3. run.saddr + i \in Ram
    BY <1>8, <2>2
  <2> QED
    BY <1>9, <2>1, <2>2, <2>3 DEF BusValue
<1>12. run'.daddr = run.daddr + w
  BY <1>1, <1>3
<1> HIDE DEF value, x, j, w, o, t
<1>13. ASSUME NEW i \in 0 .. s.copy - 1
       PROVE  /\ mem'[s.from + i] = mem[s.from + i]
              /\ mem'[s.to + i] = IF s.to + i >= run.daddr /\ s.to + i < run'.daddr
                                    THEN mem[s.from + i] ELSE mem[s.to + i]
  <2>1. (s.from + i) - run.daddr \notin 0 .. w - 1
    <3> SUFFICES ASSUME (s.from + i) - run.daddr \in 0 .. w - 1
                 PROVE  FALSE
      OBVIOUS
    <3> DEFINE l == (s.from + i) - s.to
    <3>1. l \in 0 .. s.copy - 1 /\ s.from + i = s.to + l
      BY <1>2, <1>6, <1>7, <1>8
    <3> QED
      BY <1>8, <3>1
  <2>2. mem'[s.from + i] = mem[s.from + i]
    BY <1>8, <1>10, <2>1
  <2>3. ASSUME s.to + i >= run.daddr, s.to + i < run'.daddr
        PROVE  mem'[s.to + i] = mem[s.from + i]
    <3> DEFINE l == (s.to + i) - run.daddr
    <3>1. l \in 0 .. w - 1 /\ x + l = i
      BY <1>2, <1>6, <1>7, <1>8, <1>12, <2>3
    <3>2. mem'[s.to + i] = value[l]
      BY <1>8, <1>10, <3>1
    <3> HIDE DEF l
    <3> QED
      BY <1>11, <3>1, <3>2
  <2>4. ASSUME ~(s.to + i >= run.daddr /\ s.to + i < run'.daddr)
        PROVE  mem'[s.to + i] = mem[s.to + i]
    <3>1. (s.to + i) - run.daddr \notin 0 .. w - 1
      BY <1>2, <1>8, <1>9, <1>12, <2>4
    <3> QED
      BY <1>8, <1>10, <3>1
  <2> QED
    BY <2>2, <2>3, <2>4
<1> QED
  BY <1>2, <1>9, <1>12, <1>13

(* Nothing that matters to the copies moves.                               *)
LEMMA CopyStays ==
  ASSUME NEW s, CopyLine(s), UNCHANGED <<setup, tcd, run, mem>>
  PROVE  CopyLine(s)'
<1>1. InUse(s)' <=> InUse(s)
  BY DEF InUse
<1>2. tcd' = tcd /\ run' = run /\ mem' = mem
  OBVIOUS
<1> QED
  BY <1>1, <1>2 DEF CopyLine

LEMMA ProgramKeepsCopies ==
  ASSUME TypeInv, NEW s \in Setups, AlignedCopy(s), s.copy > 0,
         NEW r \in Setups, Program(r)
  PROVE  CopyLine(s)'
<1> SUFFICES ASSUME InUse(s)', NEW c \in s.starts
             PROVE  /\ Along(TcdOf(s, c), tcd'[c])
                    /\ Copied(mem', s, tcd'[c].daddr)
                    /\ run'.ch # c /\ "DONE" \notin tcd'[c].csr
  BY DEF CopyLine
<1>1. r = s
  BY SetupAssumption DEF Program, InUse
<1>2. c \in Channel /\ run' = Idle /\ Idle.ch \notin Channel
  BY RunIsTyped, CopyingChannel DEF Program, WritesEdma, TypeInv, InPass
<1>3. tcd'[c] = TcdOf(s, c)
  BY <1>1, <1>2 DEF Program
<1> DEFINE o == TcdOf(s, c)
<1>4. o \in Tcd /\ Steady(o) /\ "DONE" \notin o.csr /\ o.daddr = s.to
  BY CopyingChannel
<1>5. Along(o, o)
  BY <1>4, LineBegins
<1>6. Copied(mem', s, s.to)
  <2>1. s.to \in Int /\ \A i \in 0 .. s.copy - 1 : ~(s.to + i < s.to)
    BY SetupAssumption, SizeAssumption DEF IsSetup, Ram
  <2> QED
    BY <2>1 DEF Copied
<1> QED
  BY <1>2, <1>3, <1>4, <1>5, <1>6

LEMMA SsrtKeepsCopies ==
  ASSUME TypeInv, NEW s \in Setups, AlignedCopy(s), s.copy > 0, CopyLine(s),
         NEW r \in Setups, Ssrt(r)
  PROVE  CopyLine(s)'
<1> SUFFICES ASSUME InUse(s)', NEW c \in s.starts
             PROVE  /\ Along(TcdOf(s, c), tcd'[c])
                    /\ Copied(mem', s, tcd'[c].daddr)
                    /\ run'.ch = c => Copied(mem', s, run'.daddr)
                    /\ "DONE" \in tcd'[c].csr => Copied(mem', s, s.to + s.copy)
  BY DEF CopyLine
<1>1. PICK d \in Channel :
        /\ tcd'[d] \in Tcd /\ SameButStatus(tcd[d], tcd'[d])
        /\ tcd'[d].csr = tcd[d].csr \union {"START"}
        /\ \A e \in Channel : e # d => tcd'[e] = tcd[e]
        /\ run = Idle /\ run' = Idle
  BY SsrtDoes
<1>2. /\ InUse(s) /\ mem' = mem /\ tcd \in [Channel -> Tcd] /\ c \in Channel
      /\ Idle.ch \notin Channel
  BY CopyingChannel, RunIsTyped DEF InUse, Ssrt, driverVars, TypeInv, TypeInvariant
<1>3. /\ Along(TcdOf(s, c), tcd[c]) /\ Copied(mem, s, tcd[c].daddr)
      /\ "DONE" \in tcd[c].csr => Copied(mem, s, s.to + s.copy)
  BY <1>2 DEF CopyLine
<1>4. /\ \A o : Along(o, tcd[c]) => Along(o, tcd'[c])
      /\ tcd'[c].daddr = tcd[c].daddr
      /\ "DONE" \in tcd'[c].csr => "DONE" \in tcd[c].csr
  <2>1. CASE c = d
    BY <1>1, <1>2, <2>1, StatusKeepsLine DEF SameButStatus
  <2>2. CASE c # d
    BY <1>1, <1>2, <2>2
  <2> QED
    BY <2>1, <2>2
<1> QED
  BY <1>1, <1>2, <1>3, <1>4

LEMMA VisitKeepsCopies ==
  ASSUME TypeInv, NEW s \in Setups, AlignedCopy(s), s.copy > 0, CopyLine(s), Visit
  PROVE  CopyLine(s)'
<1> SUFFICES ASSUME InUse(s)', NEW c \in s.starts
             PROVE  /\ Along(TcdOf(s, c), tcd'[c])
                    /\ Copied(mem', s, tcd'[c].daddr)
                    /\ run'.ch = c => Copied(mem', s, run'.daddr)
                    /\ "DONE" \in tcd'[c].csr => Copied(mem', s, s.to + s.copy)
  BY DEF CopyLine
<1>1. PICK d \in Channel :
        /\ tcd'[d] \in Tcd /\ SameButStatus(tcd[d], tcd'[d])
        /\ tcd'[d].csr = tcd[d].csr \ {"START", "DONE"}
        /\ \A e \in Channel : e # d => tcd'[e] = tcd[e]
        /\ run'.ch = d /\ run'.daddr = tcd[d].daddr
        /\ UNCHANGED <<driverVars, mem>>
  BY VisitDoes
<1>2. InUse(s) /\ mem' = mem /\ tcd \in [Channel -> Tcd] /\ c \in Channel
  BY <1>1, CopyingChannel DEF InUse, driverVars, TypeInv, TypeInvariant
<1>3. /\ Along(TcdOf(s, c), tcd[c]) /\ Copied(mem, s, tcd[c].daddr)
      /\ "DONE" \in tcd[c].csr => Copied(mem, s, s.to + s.copy)
  BY <1>2 DEF CopyLine
<1>4. /\ \A o : Along(o, tcd[c]) => Along(o, tcd'[c])
      /\ tcd'[c].daddr = tcd[c].daddr
      /\ "DONE" \in tcd'[c].csr => "DONE" \in tcd[c].csr
  <2>1. CASE c = d
    BY <1>1, <1>2, <2>1, StatusKeepsLine DEF SameButStatus
  <2>2. CASE c # d
    BY <1>1, <1>2, <2>2
  <2> QED
    BY <2>1, <2>2
<1> QED
  BY <1>1, <1>2, <1>3, <1>4

LEMMA MoveKeepsCopies ==
  ASSUME TypeInv, NEW s \in Setups, AlignedCopy(s), s.copy > 0, LineInv(s),
         CopyLine(s), MoveUnit
  PROVE  CopyLine(s)'
<1> SUFFICES ASSUME InUse(s)', NEW c \in s.starts
             PROVE  /\ Along(TcdOf(s, c), tcd'[c])
                    /\ Copied(mem', s, tcd'[c].daddr)
                    /\ run'.ch = c => Copied(mem', s, run'.daddr)
                    /\ "DONE" \in tcd'[c].csr => Copied(mem', s, s.to + s.copy)
  BY DEF CopyLine
<1>1. /\ run.ch \in Channel /\ run'.ch = run.ch /\ run # Idle
      /\ UNCHANGED <<engineVars, driverVars>>
  BY MoveDoes
<1>2. InUse(s) /\ tcd' = tcd
  BY <1>1 DEF InUse, driverVars, engineVars
<1>3. /\ Along(TcdOf(s, c), tcd[c]) /\ Copied(mem, s, tcd[c].daddr)
      /\ run.ch = c => Copied(mem, s, run.daddr)
      /\ "DONE" \in tcd[c].csr => Copied(mem, s, s.to + s.copy)
  BY <1>2 DEF CopyLine
<1>4. CASE run.ch \in s.starts
  <2>1. \A i \in 0 .. s.copy - 1 :
          /\ mem'[s.from + i] = mem[s.from + i]
          /\ mem'[s.to + i] = IF s.to + i >= run.daddr /\ s.to + i < run'.daddr
                                THEN mem[s.from + i] ELSE mem[s.to + i]
    BY <1>2, <1>4, TurnCopies
  <2>2. \A e : Copied(mem, s, e) => Copied(mem', s, e)
    BY <2>1 DEF Copied
  <2>3. Copied(mem, s, run.daddr) => Copied(mem', s, run'.daddr)
    <3> SUFFICES ASSUME Copied(mem, s, run.daddr), NEW i \in 0 .. s.copy - 1,
                        s.to + i < run'.daddr
                 PROVE  mem'[s.to + i] = mem'[s.from + i]
      BY DEF Copied
    <3>1. CASE s.to + i >= run.daddr
      BY <2>1, <3>1
    <3>2. CASE ~(s.to + i >= run.daddr)
      <4>1. s.to + i < run.daddr
        BY <3>2, RunIsTyped, SetupAssumption, SizeAssumption DEF IsSetup, Ram
      <4> QED
        BY <2>1, <3>2, <4>1 DEF Copied
    <3> QED
      BY <3>1, <3>2
  <2> QED
    BY <1>1, <1>2, <1>3, <2>2, <2>3
<1>5. CASE run.ch \notin s.starts
  <2>1. \A i \in 0 .. s.copy - 1 :
          /\ s.from + i \in s.from .. s.from + s.copy - 1
          /\ s.to + i \in s.to .. s.to + s.copy - 1
    BY SetupAssumption, SizeAssumption DEF IsSetup, Ram
  <2>2. \A i \in 0 .. s.copy - 1 :
          mem'[s.from + i] = mem[s.from + i] /\ mem'[s.to + i] = mem[s.to + i]
    <3> TAKE i \in 0 .. s.copy - 1
    <3>1. \A a \in {s.from + i, s.to + i} :
            a \in Ram /\ \A o \in Descriptors(s, run.ch) : a \notin Footprint(o)
      BY <1>1, <1>5, <2>1 DEF AlignedCopy
    <3> QED
      BY <1>2, <3>1, TurnStaysInFootprint
  <2>3. \A e : Copied(mem, s, e) => Copied(mem', s, e)
    BY <2>2 DEF Copied
  <2> QED
    BY <1>1, <1>2, <1>3, <1>5, <2>3
<1> QED
  BY <1>4, <1>5

LEMMA MinorKeepsCopies ==
  ASSUME TypeInv, NEW s \in Setups, AlignedCopy(s), s.copy > 0, LineInv(s),
         CopyLine(s), EndMinorLoop
  PROVE  CopyLine(s)'
<1> SUFFICES ASSUME InUse(s)', NEW c \in s.starts
             PROVE  /\ Along(TcdOf(s, c), tcd'[c])
                    /\ Copied(mem', s, tcd'[c].daddr)
                    /\ run'.ch # c
                    /\ "DONE" \in tcd'[c].csr => Copied(mem', s, s.to + s.copy)
  BY DEF CopyLine
<1> DEFINE d == run.ch
           t == tcd[d]
<1>1. /\ run # Idle /\ d \in Channel /\ t \in Tcd
      /\ run.moved >= t.nbytes /\ NextCiter(t.citer) # 0
      /\ tcd'[d] = [t EXCEPT !.saddr = run.saddr, !.daddr = run.daddr,
                             !.citer = NextCiter(t.citer)]
      /\ tcd'[d].csr = t.csr
      /\ \A e \in Channel : e # d => tcd'[e] = tcd[e]
      /\ run' = Idle /\ UNCHANGED <<driverVars, mem>>
  BY MinorDoes
<1>2. /\ InUse(s) /\ mem' = mem /\ c \in Channel /\ run'.ch \notin Channel
      /\ tcd'[d] \in Tcd
  <2>1. InUse(s) /\ mem' = mem /\ run'.ch \notin Channel
    BY <1>1 DEF InUse, driverVars, Idle, Channel
  <2>2. c \in Channel
    BY CopyingChannel
  <2>3. TypeInv'
    BY EndMinorLoopKeepsTypes
  <2> QED
    BY <1>1, <2>1, <2>2, <2>3 DEF TypeInv, TypeInvariant
<1>3. /\ Along(TcdOf(s, c), tcd[c]) /\ Copied(mem, s, tcd[c].daddr)
      /\ run.ch = c => Copied(mem, s, run.daddr)
      /\ "DONE" \in tcd[c].csr => Copied(mem, s, s.to + s.copy)
  BY <1>2 DEF CopyLine
<1>4. CASE c = d
  <2>1. UnderWay(t, Turns(t)) /\ TcdOf(s, c) \in Tcd
    BY <1>1, <1>2, LoopIsOver, CopyingChannel
  <2>2. Along(TcdOf(s, c), tcd'[c])
    <3>1. Along(TcdOf(s, c), t)
      BY <1>3, <1>4
    <3> HIDE DEF t
    <3> QED
      BY <1>1, <1>2, <1>4, <2>1, <3>1, MinorLoopAdvances
  <2>3. tcd'[c].daddr = run.daddr
    BY <1>1, <1>4 DEF Tcd
  <2> QED
    BY <1>1, <1>2, <1>3, <1>4, <2>2, <2>3
<1>5. CASE c # d
  BY <1>1, <1>2, <1>3, <1>5
<1> QED
  BY <1>4, <1>5

LEMMA MajorKeepsCopies ==
  ASSUME TypeInv, NEW s \in Setups, AlignedCopy(s), s.copy > 0, LineInv(s),
         CopyLine(s), EndMajorLoop
  PROVE  CopyLine(s)'
<1> SUFFICES ASSUME InUse(s)', NEW c \in s.starts
             PROVE  /\ Along(TcdOf(s, c), tcd'[c])
                    /\ Copied(mem', s, tcd'[c].daddr)
                    /\ run'.ch # c
                    /\ "DONE" \in tcd'[c].csr => Copied(mem', s, s.to + s.copy)
  BY DEF CopyLine
<1> DEFINE d == run.ch
           t == tcd[d]
           o == TcdOf(s, c)
<1>1. /\ run # Idle /\ d \in Channel /\ t \in Tcd
      /\ run.moved >= t.nbytes /\ NextCiter(t.citer) = 0
      /\ tcd'[d] = Reloaded(d) /\ Reloaded(d) \in Tcd
      /\ \A e \in Channel : e # d =>
           /\ tcd'[e] \in Tcd /\ SameButStatus(tcd[e], tcd'[e])
           /\ tcd'[e].csr = IF "MAJORELINK" \in t.csr /\ e = t.linkch
                              THEN tcd[e].csr \union {"START"} ELSE tcd[e].csr
      /\ run' = Idle /\ UNCHANGED <<driverVars, mem>>
  BY MajorDoes
<1>2. /\ InUse(s) /\ mem' = mem /\ c \in Channel /\ run'.ch \notin Channel
      /\ tcd \in [Channel -> Tcd]
  BY <1>1, CopyingChannel, RunIsTyped DEF InUse, driverVars, TypeInv, TypeInvariant
<1>3. /\ Along(o, tcd[c]) /\ Copied(mem, s, tcd[c].daddr)
      /\ run.ch = c => Copied(mem, s, run.daddr)
      /\ "DONE" \in tcd[c].csr => Copied(mem, s, s.to + s.copy)
  BY <1>2 DEF CopyLine
<1>4. /\ o \in Tcd /\ Steady(o) /\ "ESG" \notin o.csr /\ o.nbytes > 0 /\ o.daddr = s.to
      /\ (o.biter * Turns(o)) * o.doff = s.copy
  BY CopyingChannel
<1>5. CASE c = d
  <2>1. UnderWay(t, Turns(t)) /\ Along(o, t)
    BY <1>1, <1>2, <1>3, <1>5, LoopIsOver
  <2>2. /\ "ESG" \notin t.csr /\ t.nbytes > 0 /\ t.biter = o.biter /\ t.doff = o.doff
        /\ Turns(t) = Turns(o)
    <3>1. SameFields(o, t)
      BY <2>1 DEF Along
    <3> QED
      BY <1>1, <1>4, <3>1, SameLine DEF SameFields
  <2>3. tcd'[c] = [t EXCEPT !.saddr = run.saddr + t.slast, !.daddr = run.daddr + t.dlast,
                            !.citer = t.biter, !.csr = @ \union {"DONE"}]
    BY <1>1, <1>5, <2>2 DEF Reloaded
  <2>4. tcd'[c] \in Tcd
    BY <1>1, <1>5
  <2> HIDE DEF t, o
  <2>5. Along(o, tcd'[c]) /\ tcd'[c].daddr = s.to /\ t.citer = 1
    <3> DEFINE w == tcd'[c]
    <3>1. t \in Tcd /\ NextCiter(t.citer) = 0 /\ w \in Tcd
      BY <1>1, <2>4
    <3>2. w = [t EXCEPT !.saddr = run.saddr + t.slast, !.daddr = run.daddr + t.dlast,
                        !.citer = t.biter, !.csr = @ \union {"DONE"}]
      BY <2>3
    <3> HIDE DEF w
    <3>3. Along(o, w) /\ t.citer = 1 /\ w.daddr = o.daddr
      BY <1>4, <2>1, <2>2, <3>1, <3>2, MajorLoopWindsBack, ZenonT(60)
    <3> QED
      BY <1>4, <3>3 DEF w
  <2>6. run.daddr = s.to + s.copy
    <3>1. run.daddr = o.daddr + ((t.biter - (t.citer - 1)) * Turns(t)) * t.doff
      BY <1>1, <1>4, <2>1, <2>2, MinorLoopEnds
    <3>2. t.biter - (t.citer - 1) = o.biter
      BY <1>4, <2>2, <2>5, TcdIsTyped
    <3> QED
      BY <1>4, <2>2, <3>1, <3>2
  <2>7. Copied(mem, s, s.to + s.copy)
    BY <1>3, <1>5, <2>6
  <2>8. Copied(mem, s, s.to)
    <3>1. s.to \in Int /\ \A i \in 0 .. s.copy - 1 : ~(s.to + i < s.to)
      BY SetupAssumption, SizeAssumption DEF IsSetup, Ram
    <3> QED
      BY <3>1 DEF Copied
  <2> QED
    BY <1>2, <2>5, <2>7, <2>8 DEF o
<1>6. CASE c # d
  <2>1. /\ tcd'[c] \in Tcd /\ tcd[c] \in Tcd /\ SameButStatus(tcd[c], tcd'[c])
        /\ "DONE" \in tcd'[c].csr => "DONE" \in tcd[c].csr
    <3>1. tcd'[c].csr \in {tcd[c].csr, tcd[c].csr \union {"START"}}
      BY <1>1, <1>2, <1>6
    <3>2. tcd'[c] \in Tcd /\ tcd[c] \in Tcd /\ SameButStatus(tcd[c], tcd'[c])
      BY <1>1, <1>2, <1>6
    <3> QED
      BY <3>1, <3>2
  <2>2. Along(o, tcd'[c]) /\ tcd'[c].daddr = tcd[c].daddr
    BY <1>3, <2>1, StatusKeepsLine DEF SameButStatus
  <2> QED
    BY <1>2, <1>3, <2>1, <2>2
<1> QED
  BY <1>5, <1>6

CopyInv == TypeInv /\ \A s \in Setups : s.copy > 0 => LineInv(s) /\ CopyLine(s)

LEMMA CopyStart == Init => CopyInv
<1> SUFFICES ASSUME Init PROVE CopyInv
  OBVIOUS
<1>1. \A s \in Setups : ~InUse(s)
  BY SetupAssumption DEF Init, InUse, IsSetup
<1> QED
  BY <1>1, TypesStart, LineStarts DEF CopyInv, CopyLine

LEMMA CopyStep ==
  ASSUME \A s \in Setups : AlignedCopy(s), CopyInv, [Next]_vars
  PROVE  CopyInv'
<1>1. TypeInv /\ TypeInv'
  BY TypesStep DEF CopyInv
<1>2. ASSUME NEW s \in Setups, s.copy > 0
      PROVE  LineInv(s)' /\ CopyLine(s)'
  <2>1. AlignedCopy(s) /\ LineInv(s) /\ CopyLine(s)
    BY <1>2 DEF CopyInv
  <2>2. AllSteady(s)
    BY <1>2, <2>1 DEF AllSteady, AlignedCopy
  <2>3. LineInv(s)'
    BY <1>1, <2>1, <2>2, LineStep
  <2>4. CASE UNCHANGED vars
    BY <2>1, <2>3, <2>4, CopyStays DEF vars, engineVars, passVars, driverVars
  <2>5. CASE HostPush \/ OtherInstruction \/ EndPass \/ Tick
    BY <2>1, <2>3, <2>5, CopyStays DEF HostPush, OtherInstruction, LeavesEdma, EndPass, Tick,
                                 engineVars, passVars, driverVars
  <2>6. ASSUME NEW r \in Setups,
               SetErq(r) \/ ClearErq(r) \/ Acknowledge(r) \/ ToggleUartDma(r)
        PROVE  CopyLine(s)'
    BY <2>1, <2>6, CopyStays DEF SetErq, ClearErq, Acknowledge, ToggleUartDma, LeavesEdma,
                                 WritesEdma, engineVars, driverVars
  <2>7. CopyLine(s)'
    BY <1>1, <1>2, <2>1, <2>4, <2>5, <2>6, ProgramKeepsCopies, SsrtKeepsCopies,
       VisitKeepsCopies, MoveKeepsCopies, MinorKeepsCopies, MajorKeepsCopies
       DEF Next, Instruction, Pass
  <2> QED
    BY <2>3, <2>7
<1> QED
  BY <1>1, <1>2 DEF CopyInv

LEMMA DoneMeansCopied == CopyInv => CopiesAreComplete
<1> SUFFICES ASSUME CopyInv, NEW s \in Setups, InUse(s), NEW c \in s.starts,
                    "DONE" \in tcd[c].csr, NEW i \in 0 .. s.copy - 1
             PROVE  mem[s.to + i] = mem[s.from + i]
  BY DEF CopiesAreComplete
<1>1. s.copy > 0 /\ s.to + i < s.to + s.copy
  BY SetupAssumption, SizeAssumption DEF IsSetup, Ram
<1> QED
  BY <1>1 DEF CopyInv, CopyLine, Copied

(* Where both sides of a copy have one width and nothing else writes to    *)
(* the two blocks, a channel that reports DONE has copied its block, from  *)
(* its first block on and between any two starts.                          *)
THEOREM CopiesComplete ==
  ASSUME \A s \in Setups : AlignedCopy(s)
  PROVE  Spec => []CopiesAreComplete
<1>1. CopyInv /\ [Next]_vars => CopyInv'
  BY CopyStep
<1> QED
  BY <1>1, CopyStart, DoneMeansCopied, PTL DEF Spec

(***************************************************************************)
(* The receive FIFO                                                        *)
(***************************************************************************)

(* The FIFO holds the bytes after those the channels have taken; before a  *)
(* program is set up no channel has work.                                  *)
FifoInv ==
  /\ TypeInv
  /\ \A k \in 1 .. Len(rx) : rx[k] = Received + k
  /\ setup = None =>
       /\ \A c \in Channel : tcd[c] = EmptyTcd
       /\ erq = {} /\ run = Idle /\ Received = 0

LEMMA DifferenceIsTyped ==
  ASSUME NEW p \in Nat, NEW l \in Nat, l <= p
  PROVE  p - l \in Nat /\ (p - l) + l = p
  OBVIOUS

LEMMA OneTaken ==
  ASSUME NEW p \in Nat, NEW l \in Nat, NEW r \in Nat, r + l = p
  PROVE  p - (l - 1) = r + 1
  OBVIOUS

LEMMA FifoIsTyped ==
  ASSUME TypeInv
  PROVE  /\ Len(rx) \in Nat /\ pushed \in Nat /\ Received \in Nat
         /\ Received + Len(rx) = pushed
         /\ rx # <<>> <=> Len(rx) > 0
<1>1. rx \in Seq(Byte) /\ Len(rx) <= pushed /\ pushed \in Nat
  BY SizeAssumption DEF TypeInv, TypeInvariant, Byte
<1>2. Len(rx) \in Nat
  BY <1>1, LenProperties
<1>3. rx # <<>> <=> Len(rx) > 0
  BY <1>1, EmptySeq
<1>4. Received = pushed - Len(rx)
  BY DEF Received
<1>5. Received \in Nat /\ Received + Len(rx) = pushed
  BY <1>1, <1>2, <1>4, DifferenceIsTyped
<1> QED
  BY <1>1, <1>2, <1>3, <1>5

LEMMA FifoStays ==
  ASSUME [Next]_vars, ~HostPush, ~MoveUnit
  PROVE  rx' = rx /\ pushed' = pushed /\ Received' = Received
  BY DEF Next, Instruction, Pass, OtherInstruction, Program, SetErq, ClearErq, Ssrt,
         Acknowledge, ToggleUartDma, Visit, EndMinorLoop, EndMajorLoop, EndPass, Tick, vars,
         uartVars, driverVars, Received

(* A received byte joins the FIFO at its end.                              *)
LEMMA PushDoes ==
  ASSUME FifoInv, HostPush
  PROVE  /\ Received' = Received
         /\ \A k \in 1 .. Len(rx') : rx'[k] = Received' + k
         /\ phase = "cpu" /\ UNCHANGED <<engineVars, passVars, setup, handled, chcfg, mem>>
<1>1. /\ rx' = Append(rx, pushed + 1) /\ pushed' = pushed + 1
      /\ phase = "cpu" /\ UNCHANGED <<engineVars, passVars, setup, handled, chcfg, mem>>
  BY DEF HostPush, RxPush
<1>2. /\ Len(rx) \in Nat /\ pushed \in Nat /\ Received \in Nat
      /\ Received + Len(rx) = pushed /\ rx \in Seq(Byte) /\ pushed + 1 \in Byte
  <2>1. TypeInv
    BY DEF FifoInv
  <2>2. pushed \in Nat /\ pushed + 1 \in Byte
    BY <2>1, SizeAssumption DEF TypeInv, TypeInvariant, HostPush, Byte
  <2> QED
    BY <2>1, <2>2, FifoIsTyped DEF TypeInv, TypeInvariant
<1>3. /\ Len(rx') = Len(rx) + 1
      /\ \A k \in 1 .. Len(rx) : rx'[k] = rx[k]
      /\ rx'[Len(rx) + 1] = pushed + 1
  BY <1>1, <1>2, AppendProperties
<1>4. Received' = Received
  BY <1>1, <1>2, <1>3 DEF Received
<1>5. ASSUME NEW k \in 1 .. Len(rx')
      PROVE  rx'[k] = Received' + k
  <2>1. CASE k = Len(rx) + 1
    BY <1>2, <1>3, <1>4, <2>1
  <2>2. CASE k # Len(rx) + 1
    <3>1. k \in 1 .. Len(rx)
      BY <1>2, <1>3, <2>2
    <3> QED
      BY <1>3, <1>4, <3>1 DEF FifoInv
  <2> QED
    BY <2>1, <2>2
<1> QED
  BY <1>1, <1>4, <1>5

(* A turn that reads DATA takes the oldest byte; another takes none.       *)
LEMMA MoveTakes ==
  ASSUME FifoInv, MoveUnit
  PROVE  /\ \A k \in 1 .. Len(rx') : rx'[k] = Received' + k
         /\ pushed' = pushed
         /\ run.saddr # UartData => rx' = rx /\ Received' = Received
         /\ run.saddr = UartData /\ rx # <<>> =>
              Received' = Received + 1 /\ DataValue = Received + 1
<1>1. /\ rx' = IF run.saddr = UartData THEN RxAfterRead ELSE rx
      /\ pushed' = pushed
  BY MoveDoes DEF FifoInv, Transfer, driverVars
<1>2. /\ Len(rx) \in Nat /\ pushed \in Nat /\ Received \in Nat
      /\ Received + Len(rx) = pushed /\ rx \in Seq(Byte)
  BY FifoIsTyped DEF FifoInv, TypeInv, TypeInvariant
<1>3. CASE run.saddr # UartData \/ rx = <<>>
  <2>1. rx' = rx /\ Received' = Received
    BY <1>1, <1>3 DEF RxAfterRead, Received
  <2> QED
    BY <1>1, <1>3, <2>1 DEF FifoInv
<1>4. CASE run.saddr = UartData /\ rx # <<>>
  <2>1. rx' = Tail(rx) /\ DataValue = rx[1]
    BY <1>1, <1>4 DEF RxAfterRead, DataValue
  <2>2. Len(rx') = Len(rx) - 1 /\ \A k \in 1 .. Len(rx') : rx'[k] = rx[k + 1]
    BY <1>2, <1>4, <2>1, HeadTailProperties
  <2>3. Received' = Received + 1 /\ Len(rx) > 0
    <3>1. Len(rx) > 0
      BY <1>4, FifoIsTyped DEF FifoInv
    <3>2. Received' = pushed' - Len(rx')
      BY DEF Received
    <3>3. Received' = pushed - (Len(rx) - 1)
      BY <1>1, <2>2, <3>2
    <3>4. Received' = Received + 1
      BY <1>2, <3>3, OneTaken
    <3> QED
      BY <3>1, <3>4
  <2>4. rx[1] = Received + 1
    BY <1>2, <2>3 DEF FifoInv
  <2>5. ASSUME NEW k \in 1 .. Len(rx')
        PROVE  rx'[k] = Received' + k
    <3>1. k + 1 \in 1 .. Len(rx)
      BY <1>2, <2>2
    <3>2. rx[k + 1] = Received + (k + 1)
      BY <3>1 DEF FifoInv
    <3> QED
      BY <1>2, <2>2, <2>3, <3>2
  <2> QED
    BY <1>1, <1>4, <2>1, <2>3, <2>4, <2>5
<1> QED
  BY <1>3, <1>4

LEMMA FifoStart == Init => FifoInv
<1> SUFFICES ASSUME Init PROVE FifoInv
  OBVIOUS
<1>1. rx = <<>> /\ pushed = 0 /\ Len(rx) = 0
  BY EmptySeq DEF Init, UartInit
<1>2. Received = 0
  <2>1. Received = pushed - Len(rx)
    BY DEF Received
  <2> QED
    BY <1>1, <2>1
<1>3. TypeInv /\ (\A c \in Channel : tcd[c] = EmptyTcd) /\ erq = {} /\ run = Idle
  BY TypesStart DEF Init
<1> QED
  BY <1>1, <1>2, <1>3 DEF FifoInv

LEMMA FifoStep == FifoInv /\ [Next]_vars => FifoInv'
<1> SUFFICES ASSUME FifoInv, [Next]_vars PROVE FifoInv'
  OBVIOUS
<1>1. TypeInv /\ TypeInv'
  BY TypesStep DEF FifoInv
<1>2. \A k \in 1 .. Len(rx') : rx'[k] = Received' + k
  <2>1. CASE HostPush
    BY <2>1, PushDoes
  <2>2. CASE MoveUnit
    BY <2>2, MoveTakes
  <2>3. CASE ~HostPush /\ ~MoveUnit
    BY <2>3, FifoStays DEF FifoInv
  <2> QED
    BY <2>1, <2>2, <2>3
<1>3. ASSUME setup' = None
      PROVE  /\ \A c \in Channel : tcd'[c] = EmptyTcd
             /\ erq' = {} /\ run' = Idle /\ Received' = 0
  <2>1. \A s \in Setups : s.name # None
    BY SetupAssumption DEF IsSetup
  <2>2. \A s \in Setups : ~Program(s)
    BY <1>3, <2>1 DEF Program
  <2>3. setup = None
    BY <1>3, <2>2, SetupStays
  <2>4. \A s \in Setups : ~InUse(s)
    BY <2>1, <2>3 DEF InUse
  <2>5. (\A c \in Channel : tcd[c] = EmptyTcd) /\ erq = {} /\ run = Idle /\ Received = 0
    BY <2>3 DEF FifoInv
  <2>6. ~Visit /\ ~MoveUnit /\ ~EndMinorLoop /\ ~EndMajorLoop
    <3>1. ~Visit
      <4> SUFFICES ASSUME Visit PROVE FALSE
        OBVIOUS
      <4>1. PICK c \in Channel : Due(c)
        BY <1>1, VisitDoes
      <4> QED
        BY <2>5, <4>1 DEF Due, EmptyTcd
    <3> QED
      BY <2>5, <3>1 DEF MoveUnit, EndMinorLoop, EndMajorLoop, MinorLoopDone
  <2>7. tcd' = tcd /\ erq' = erq /\ run' = run
    BY <2>2, <2>4, <2>6
       DEF Next, Instruction, Pass, HostPush, OtherInstruction, LeavesEdma, SetErq, ClearErq,
           Ssrt, Acknowledge, ToggleUartDma, EndPass, Tick, vars, engineVars, passVars
  <2>8. Received' = Received
    BY <2>6, FifoStays, PushDoes
  <2> QED
    BY <2>5, <2>7, <2>8
<1> QED
  BY <1>1, <1>2, <1>3 DEF FifoInv

(***************************************************************************)
(* The receiving channel                                                   *)
(***************************************************************************)

(* Where the next byte goes, in run_channel or else in the descriptor.     *)
NextPlace(c) == IF run.ch = c THEN run.daddr ELSE tcd[c].daddr

(* The channel is served for requests only, and each finds a byte: nothing *)
(* else empties the FIFO between the sampling of the levels and its turn.  *)
OnRequest(c) ==
  /\ chcfg[c] = "LPUART1_RX" /\ "START" \notin tcd[c].csr
  /\ run.ch = c => c \in erq /\ c < at /\ (run.moved = 0 => rx # <<>>)
  /\ phase = "hardware" /\ at <= c /\ c \in requests => rx # <<>>

RingIsFilled(ring) ==
  \A k \in 1 .. Received : Received - k < ring => mem[(k - 1) % ring] = k

RingInv(s, c) ==
  InUse(s) =>
    /\ OnRequest(c)
    /\ Received % s.ring = NextPlace(c) % s.ring
    /\ RingIsFilled(s.ring)

(* Two numbers less than r apart have different remainders.                *)
LEMMA RemaindersDiffer ==
  ASSUME NEW a \in Nat, NEW b \in Nat, NEW r \in Nat \ {0}, a < b, b - a < r
  PROVE  a % r # b % r
<1> DEFINE p == a \div r
           q == b \div r
           x == a % r
           y == b % r
<1>1. /\ a = r * p + x /\ b = r * q + y /\ p \in Nat /\ q \in Nat
      /\ x \in 0 .. r - 1 /\ y \in 0 .. r - 1
  BY RemainderIsSmall
<1> HIDE DEF p, q, x, y
<1> SUFFICES ASSUME x = y PROVE FALSE
  BY DEF x, y
<1>2. r * (q - p) = b - a /\ q - p \in Int
  BY <1>1
<1> DEFINE d == q - p
<1>3. d \in Int /\ r * d = b - a
  BY <1>2
<1> HIDE DEF d
<1>4. CASE d <= 0
  <2>1. r * d <= 0
    BY <1>3, <1>4
  <2> QED
    BY <1>3, <2>1
<1>5. CASE d >= 1
  <2>1. r * d >= r
    BY <1>3, <1>5
  <2> QED
    BY <1>3, <2>1
<1> QED
  BY <1>3, <1>4, <1>5

(* Numbers with one remainder keep it in common when both grow by one.     *)
LEMMA RemaindersGrow ==
  ASSUME NEW a \in Nat, NEW b \in Nat, NEW r \in Nat \ {0}, a % r = b % r
  PROVE  (a + 1) % r = (b + 1) % r
<1> DEFINE p == a \div r
           q == b \div r
           x == a % r
<1>1. a = r * p + x /\ b = r * q + x /\ p \in Nat /\ q \in Nat /\ x \in 0 .. r - 1
  BY RemainderIsSmall
<1> HIDE DEF p, q, x
<1>2. ASSUME NEW n \in Nat, NEW m \in Nat, n = r * m + x
      PROVE  (n + 1) % r = IF x + 1 = r THEN 0 ELSE x + 1
  <2>1. CASE x + 1 = r
    <3>1. n + 1 = r * (m + 1) + 0
      BY <1>1, <1>2, <2>1
    <3>2. m + 1 \in Nat /\ n + 1 \in Nat /\ 0 \in 0 .. r - 1
      OBVIOUS
    <3> QED
      BY <2>1, <3>1, <3>2, RemainderIsUnique
  <2>2. CASE x + 1 # r
    <3>1. n + 1 = r * m + (x + 1) /\ x + 1 \in 0 .. r - 1
      BY <1>1, <1>2, <2>2
    <3>2. n + 1 \in Nat
      OBVIOUS
    <3> QED
      BY <2>2, <3>1, <3>2, RemainderIsUnique
  <2> QED
    BY <2>1, <2>2
<1> QED
  BY <1>1, <1>2

(* The descriptor a receiving channel is at, and run_channel on it.        *)
LEMMA ReceivingChannel ==
  ASSUME TypeInv, NEW s \in Setups, NEW c, Receives(s, c), LineInv(s), InUse(s),
         NEW t, t = tcd[c]
  PROVE  /\ c \in Channel /\ t \in Tcd
         /\ t.ssize = 1 /\ t.dsize = 1 /\ t.nbytes = 1 /\ t.soff = 0 /\ t.doff = 1
         /\ t.saddr = UartData /\ Unit(t) = 1 /\ Turns(t) = 1
         /\ \E o \in Descriptors(s, c) :
              /\ o \in Tcd /\ Along(o, t) /\ o.biter = t.biter
              /\ t.citer \in 1 .. o.biter /\ t.daddr = o.daddr + (o.biter - t.citer)
              /\ o.daddr \in Nat /\ o.daddr + o.biter <= s.ring
         /\ run.ch = c =>
              /\ run.saddr = UartData /\ run.moved \in {0, 1}
              /\ run.daddr = t.daddr + run.moved
<1>1. c \in Channel /\ t \in Tcd
  BY DEF Receives, TypeInv, TypeInvariant
<1>2. PICK o \in Descriptors(s, c) : Along(o, t)
  BY <1>1 DEF LineInv
<1>3. /\ o \in Tcd /\ o.ssize = 1 /\ o.dsize = 1 /\ o.nbytes = 1 /\ o.saddr = UartData
      /\ o.soff = 0 /\ o.doff = 1 /\ o.daddr \in Nat /\ o.daddr + o.biter <= s.ring
  BY <1>1, <1>2, DescriptorsAreClosed DEF Receives
<1>4. /\ t.ssize = 1 /\ t.dsize = 1 /\ t.nbytes = 1 /\ t.soff = 0 /\ t.doff = 1
      /\ t.biter = o.biter /\ t.citer \in 1 .. o.biter
      /\ t.saddr = UartData + TurnsDone(t) * 0 /\ t.daddr = o.daddr + TurnsDone(t) * 1
  BY <1>2, <1>3 DEF Along, SameFields
<1>5. Unit(t) = 1 /\ Turns(t) = 1
  <2>1. Unit(t) = 1
    BY <1>4, LargerOf DEF Unit, Width
  <2>2. Turns(t) = (1 + 1 - 1) \div 1
    BY <1>4, <2>1 DEF Turns
  <2> QED
    BY <2>1, <2>2
<1>6. TurnsDone(t) = o.biter - t.citer /\ TurnsDone(t) \in Nat
  <2>1. t.citer \in Nat /\ o.biter \in Nat /\ t.citer <= o.biter
    BY <1>1, <1>3, <1>4, TcdIsTyped
  <2>2. TurnsDone(t) = (o.biter - t.citer) * 1
    BY <1>4, <1>5 DEF TurnsDone
  <2> QED
    BY <2>1, <2>2
<1>7. t.saddr = UartData /\ t.daddr = o.daddr + (o.biter - t.citer)
  BY <1>3, <1>4, <1>6 DEF UartData
<1>8. ASSUME run.ch = c
      PROVE  /\ run.saddr = UartData /\ run.moved \in {0, 1}
             /\ run.daddr = t.daddr + run.moved
  <2>1. run # Idle
    BY <1>1, <1>8 DEF Idle, Channel
  <2>2. PICK k \in 0 .. 1 : UnderWay(t, k)
    BY <1>5, <1>8, <2>1 DEF LineInv
  <2>3. run.moved = k * 1 /\ run.saddr = UartData + k * 0 /\ run.daddr = t.daddr + k * 1
    BY <1>4, <1>5, <1>7, <2>2 DEF UnderWay
  <2>4. run.moved = k /\ run.saddr = UartData
    BY <2>3 DEF UartData
  <2> QED
    BY <2>3, <2>4
<1> QED
  BY <1>1, <1>2, <1>3, <1>4, <1>5, <1>7, <1>8

LEMMA RingStays ==
  ASSUME NEW s, NEW c, RingInv(s, c), UNCHANGED <<setup, chcfg, tcd, run, mem>>,
         Received' = Received, InUse(s) => OnRequest(c)'
  PROVE  RingInv(s, c)'
<1>1. InUse(s)' <=> InUse(s)
  BY DEF InUse
<1>2. NextPlace(c)' = NextPlace(c) /\ RingIsFilled(s.ring)' = RingIsFilled(s.ring)
  BY DEF NextPlace, RingIsFilled
<1> QED
  BY <1>1, <1>2 DEF RingInv

(* Between two passes, where run_channel is at rest.                       *)
LEMMA QuietKeepsRing ==
  ASSUME FifoInv, NEW s \in Setups, NEW c \in Channel, RingInv(s, c),
         \/ UNCHANGED vars \/ HostPush \/ OtherInstruction \/ EndPass \/ Tick
         \/ \E r \in Setups : SetErq(r) \/ ClearErq(r) \/ Acknowledge(r) \/ ToggleUartDma(r)
  PROVE  RingInv(s, c)'
<1>1. CASE UNCHANGED vars
  BY <1>1, RingStays DEF vars, uartVars, engineVars, passVars, driverVars, Received, RingInv,
                         OnRequest
<1>2. CASE HostPush
  <2>1. /\ UNCHANGED <<setup, chcfg, tcd, run, mem, phase, at, requests, erq>>
        /\ Received' = Received /\ phase = "cpu" /\ run = Idle
    BY <1>2, PushDoes DEF engineVars, passVars, FifoInv, TypeInv, InPass
  <2>2. InUse(s) => OnRequest(c)'
    BY <2>1 DEF RingInv, OnRequest, Idle, Channel
  <2> QED
    BY <2>1, <2>2, RingStays
<1>3. ASSUME OtherInstruction \/ \E r \in Setups : SetErq(r) \/ ClearErq(r) \/ Acknowledge(r)
                                                    \/ ToggleUartDma(r)
      PROVE  RingInv(s, c)'
  <2>1. /\ UNCHANGED <<setup, chcfg, tcd, run, mem, rx, pushed>>
        /\ phase = "cpu" /\ phase' # "hardware"
    BY <1>3 DEF OtherInstruction, SetErq, ClearErq, Acknowledge, ToggleUartDma, WritesEdma,
                LeavesEdma, engineVars, driverVars, uartVars
  <2>2. run = Idle /\ Received' = Received
    BY <2>1 DEF FifoInv, TypeInv, InPass, Received
  <2>3. InUse(s) => OnRequest(c)'
    BY <2>1, <2>2 DEF RingInv, OnRequest, Idle, Channel
  <2> QED
    BY <2>1, <2>2, <2>3, RingStays
<1>4. CASE EndPass
  <2>1. /\ UNCHANGED <<setup, chcfg, tcd, run, mem, rx, pushed>>
        /\ run = Idle /\ phase' # "hardware"
    BY <1>4 DEF EndPass, engineVars, driverVars, uartVars
  <2>2. Received' = Received
    BY <2>1 DEF Received
  <2>3. InUse(s) => OnRequest(c)'
    BY <2>1 DEF RingInv, OnRequest, Idle, Channel
  <2> QED
    BY <2>1, <2>2, <2>3, RingStays
<1>5. CASE Tick
  <2>1. /\ UNCHANGED <<setup, chcfg, tcd, run, mem, rx, pushed>>
        /\ run = Idle
        /\ phase' = "hardware" => requests' = {d \in Channel : RequestLevel(d)}
    BY <1>5 DEF Tick, engineVars, driverVars, uartVars, FifoInv, TypeInv, InPass
  <2>2. Received' = Received
    BY <2>1 DEF Received
  <2>3. ASSUME InUse(s), RequestLevel(c)
        PROVE  rx # <<>>
    BY <2>3 DEF RingInv, OnRequest, RequestLevel, DmaRxRequest
  <2>4. InUse(s) => OnRequest(c)'
    BY <2>1, <2>3 DEF RingInv, OnRequest, Idle, Channel
  <2> QED
    BY <2>1, <2>2, <2>4, RingStays
<1> QED
  BY <1>1, <1>2, <1>3, <1>4, <1>5

LEMMA ProgramKeepsRing ==
  ASSUME FifoInv, NEW s \in Setups, NEW c, Receives(s, c), NEW r \in Setups, Program(r)
  PROVE  RingInv(s, c)'
<1> SUFFICES ASSUME InUse(s)'
             PROVE  /\ OnRequest(c)' /\ RingIsFilled(s.ring)'
                    /\ Received' % s.ring = NextPlace(c)' % s.ring
  BY DEF RingInv
<1>1. r = s /\ setup = None
  BY SetupAssumption DEF Program, InUse
<1>2. /\ c \in Channel /\ tcd'[c] = TcdOf(s, c) /\ chcfg'[c] = "LPUART1_RX"
      /\ run' = run /\ phase' = "software" /\ rx' = rx /\ pushed' = pushed
  BY <1>1 DEF Program, WritesEdma, Receives
<1>3. run = Idle /\ Received' = 0
  BY <1>1, <1>2 DEF FifoInv, Received
<1>4. "START" \notin tcd'[c].csr /\ tcd'[c].daddr = 0
  BY <1>2, DescriptorsAreClosed DEF Receives
<1>5. NextPlace(c)' = 0 /\ run'.ch # c
  BY <1>2, <1>3, <1>4 DEF NextPlace, Idle, Channel
<1>6. OnRequest(c)'
  BY <1>2, <1>4, <1>5 DEF OnRequest
<1>7. RingIsFilled(s.ring)'
  BY <1>3 DEF RingIsFilled
<1> QED
  BY <1>3, <1>5, <1>6, <1>7

(* Neither a start nor a visit of another channel touches the ring.        *)
LEMMA SsrtKeepsRing ==
  ASSUME FifoInv, NEW s \in Setups, NEW c, Receives(s, c), RingInv(s, c),
         NEW r \in Setups, Ssrt(r)
  PROVE  RingInv(s, c)'
<1> SUFFICES ASSUME InUse(s)'
             PROVE  /\ OnRequest(c)' /\ RingIsFilled(s.ring)'
                    /\ Received' % s.ring = NextPlace(c)' % s.ring
  BY DEF RingInv
<1>1. /\ InUse(s) /\ r = s /\ c \in Channel /\ c \notin s.starts
      /\ UNCHANGED <<chcfg, mem, rx, pushed>> /\ phase' = "software"
  BY SetupAssumption DEF Ssrt, InUse, driverVars, uartVars, WritesEdma, Receives
<1>2. tcd'[c] = tcd[c] /\ run = Idle /\ run' = Idle
  BY <1>1, SsrtDoes DEF FifoInv
<1>3. Received' = Received
  BY <1>1 DEF Received
<1>4. OnRequest(c)'
  BY <1>1, <1>2 DEF RingInv, OnRequest, Idle, Channel
<1>5. NextPlace(c)' = NextPlace(c) /\ RingIsFilled(s.ring)' = RingIsFilled(s.ring)
  BY <1>1, <1>2, <1>3 DEF NextPlace, RingIsFilled
<1> QED
  BY <1>1, <1>3, <1>4, <1>5 DEF RingInv

LEMMA VisitKeepsRing ==
  ASSUME FifoInv, NEW s \in Setups, NEW c, Receives(s, c), RingInv(s, c), Visit
  PROVE  RingInv(s, c)'
<1> SUFFICES ASSUME InUse(s)'
             PROVE  /\ OnRequest(c)' /\ RingIsFilled(s.ring)'
                    /\ Received' % s.ring = NextPlace(c)' % s.ring
  BY DEF RingInv
<1>1. TypeInv
  BY DEF FifoInv
<1>2. PICK d \in Channel :
        /\ d >= at /\ Due(d) /\ at' = d + 1 /\ run = Idle
        /\ tcd'[d].csr = tcd[d].csr \ {"START", "DONE"}
        /\ SameButStatus(tcd[d], tcd'[d])
        /\ \A e \in Channel : e # d => tcd'[e] = tcd[e]
        /\ run'.ch = d /\ run'.moved = 0 /\ run'.daddr = tcd[d].daddr
        /\ UNCHANGED <<uartVars, erq, phase, requests, driverVars, mem>>
  BY <1>1, VisitDoes
<1>3. /\ InUse(s) /\ c \in Channel /\ UNCHANGED <<chcfg, mem, rx, pushed, phase, erq, requests>>
      /\ run.ch # c
  BY <1>2 DEF InUse, driverVars, uartVars, Receives, Idle, Channel
<1>4. Received' = Received
  BY <1>3 DEF Received
<1>5. OnRequest(c) /\ at \in Int /\ at <= at' /\ at' \in Int /\ d < at' /\ d \in Int /\ c \in Int
  BY <1>1, <1>2, <1>3, SizeAssumption DEF RingInv, TypeInv, TypeInvariant, Channel
<1>6. tcd'[c].daddr = tcd[c].daddr /\ "START" \notin tcd'[c].csr
  BY <1>2, <1>3, <1>5 DEF OnRequest, SameButStatus
<1>7. NextPlace(c)' = NextPlace(c) /\ RingIsFilled(s.ring)' = RingIsFilled(s.ring)
  BY <1>2, <1>3, <1>4, <1>6 DEF NextPlace, RingIsFilled
<1>8. OnRequest(c)'
  <2>1. CASE c = d
    <3>1. phase = "hardware" /\ c \in erq /\ c \in requests
      BY <1>2, <1>5, <2>1 DEF Due, OnRequest
    <3> QED
      BY <1>2, <1>3, <1>5, <1>6, <2>1, <3>1 DEF OnRequest
  <2>2. CASE c # d
    BY <1>2, <1>3, <1>5, <1>6, <2>2 DEF OnRequest
  <2> QED
    BY <2>1, <2>2
<1> QED
  BY <1>3, <1>4, <1>7, <1>8 DEF RingInv

(* A turn of another channel leaves FIFO and ring alone.                   *)
LEMMA OthersKeepRing ==
  ASSUME FifoInv, NEW s \in Setups, NEW c, Receives(s, c), LineInv(s), InUse(s), MoveUnit,
         run.ch # c
  PROVE  /\ rx' = rx /\ Received' = Received
         /\ \A a \in 0 .. s.ring - 1 : mem'[a] = mem[a]
<1> DEFINE t == tcd[run.ch]
<1>1. TypeInv
  BY DEF FifoInv
<1>2. /\ run # Idle /\ run.ch \in Channel /\ t \in Tcd /\ run.moved < t.nbytes
      /\ run.moved \in Nat
  BY <1>1, MoveDoes, RunIsTyped
<1>3. run.saddr # UartData
  <2>1. PICK o \in Descriptors(s, run.ch) : Along(o, t)
    BY <1>2 DEF LineInv
  <2>2. PICK k \in 0 .. Turns(t) : UnderWay(t, k)
    BY <1>2 DEF LineInv
  <2>3. o \in Tcd /\ k \in 0 .. Turns(t) - 1 /\ t.nbytes > 0
    BY <1>2, <2>1, <2>2, DescriptorsAreClosed, TurnsOfALoop, TcdIsTyped DEF UnderWay
  <2> DEFINE j == TurnsDone(t) + k
  <2>4. j \in 0 .. o.biter * Turns(o) - 1 /\ run.saddr = o.saddr + j * o.soff
    BY <1>2, <2>1, <2>2, <2>3, TurnOfTheLine
  <2> HIDE DEF j
  <2> QED
    BY <1>2, <2>1, <2>4 DEF Receives
<1>4. ASSUME NEW a \in 0 .. s.ring - 1
      PROVE  mem'[a] = mem[a]
  <2>1. a \in Ram
    BY SizeAssumption DEF Receives, Ram
  <2>2. \A o \in Descriptors(s, run.ch) : a \notin Footprint(o)
    BY <1>2 DEF Receives
  <2> QED
    BY <1>1, <2>1, <2>2, TurnStaysInFootprint
<1> QED
  BY <1>3, <1>4, MoveTakes

(* A turn of the receiving channel stores the oldest byte at its place.    *)
LEMMA TurnStores ==
  ASSUME FifoInv, NEW s \in Setups, NEW c, Receives(s, c), LineInv(s), InUse(s),
         RingInv(s, c), MoveUnit, run.ch = c
  PROVE  /\ Received' = Received + 1 /\ Received \in Nat
         /\ run.daddr \in 0 .. s.ring - 1
         /\ mem'[run.daddr] = Received + 1
         /\ \A a \in 0 .. s.ring - 1 : a # run.daddr => mem'[a] = mem[a]
         /\ run'.ch = c /\ run'.daddr = run.daddr + 1
         /\ run.moved = 0 /\ run'.moved = 1
<1> DEFINE t == tcd[c]
<1>1. TypeInv
  BY DEF FifoInv
<1>2. /\ run.moved < t.nbytes /\ Transfer(t, run.saddr, run.daddr)
      /\ run'.ch = c /\ run'.moved = run.moved + Unit(t) /\ run'.daddr = run.daddr + t.doff
  BY <1>1, MoveDoes
<1>3. PICK o \in Descriptors(s, c) :
        /\ o \in Tcd /\ t \in Tcd /\ t.nbytes = 1 /\ Unit(t) = 1 /\ t.doff = 1
        /\ t.dsize = 1 /\ t.ssize = 1
        /\ run.saddr = UartData /\ run.moved \in {0, 1} /\ run.daddr = t.daddr + run.moved
        /\ t.citer \in 1 .. o.biter /\ t.daddr = o.daddr + (o.biter - t.citer)
        /\ o.daddr \in Nat /\ o.daddr + o.biter <= s.ring
  BY <1>1, ReceivingChannel
<1>4. run.moved = 0 /\ run'.moved = 1 /\ run'.daddr = run.daddr + 1 /\ rx # <<>>
  BY <1>2, <1>3 DEF RingInv, OnRequest
<1>5. run.daddr \in 0 .. s.ring - 1
  <2>1. t.citer \in Nat /\ o.biter \in Nat /\ s.ring \in Nat
    BY <1>3, TcdIsTyped, SizeAssumption DEF Receives
  <2> HIDE DEF t
  <2> QED
    BY <1>3, <1>4, <2>1
<1>6. Received' = Received + 1 /\ DataValue = Received + 1 /\ Received \in Nat
  BY <1>1, <1>3, <1>4, MoveTakes, FifoIsTyped
<1>7. ASSUME NEW a \in 0 .. s.ring - 1
      PROVE  mem'[a] = IF a = run.daddr THEN Received + 1 ELSE mem[a]
  <2>1. a \in Ram /\ a \in Int /\ run.daddr \in Int /\ run.daddr # UartData
    BY <1>5, SizeAssumption DEF Receives, Ram, UartData
  <2>2. BusValue(run.saddr, t.ssize)[0] = Received + 1
    <3>1. BusValue(run.saddr, t.ssize) = [Zero EXCEPT ![0] = DataValue]
      BY <1>3 DEF BusValue
    <3> QED
      BY <1>6, <3>1 DEF Zero
  <2>3. mem'[a] = IF a - run.daddr \in 0 .. 0
                    THEN BusValue(run.saddr, t.ssize)[a - run.daddr] ELSE mem[a]
    BY <1>2, <1>3, <2>1 DEF Transfer
  <2>4. CASE a = run.daddr
    <3>1. a - run.daddr = 0
      BY <2>1, <2>4
    <3> QED
      BY <2>2, <2>3, <2>4, <3>1
  <2>5. CASE a # run.daddr
    <3>1. a - run.daddr \notin 0 .. 0
      BY <2>1, <2>5
    <3> QED
      BY <2>3, <2>5, <3>1
  <2> QED
    BY <2>4, <2>5
<1> QED
  BY <1>2, <1>4, <1>5, <1>6, <1>7

LEMMA MoveKeepsRing ==
  ASSUME FifoInv, NEW s \in Setups, NEW c, Receives(s, c), LineInv(s), RingInv(s, c), MoveUnit
  PROVE  RingInv(s, c)'
<1> DEFINE ring == s.ring
<1> SUFFICES ASSUME InUse(s)'
             PROVE  /\ OnRequest(c)' /\ RingIsFilled(ring)'
                    /\ Received' % ring = NextPlace(c)' % ring
  BY DEF RingInv
<1>1. /\ TypeInv /\ InUse(s) /\ c \in Channel /\ ring \in Nat \ {0}
      /\ UNCHANGED <<tcd, erq, chcfg, phase, at, requests>>
  BY MoveDoes, SizeAssumption DEF FifoInv, InUse, driverVars, engineVars, Receives
<1>2. run'.ch = run.ch
  BY <1>1, MoveDoes
<1>3. /\ OnRequest(c) /\ Received % ring = NextPlace(c) % ring /\ RingIsFilled(ring)
      /\ Received \in Nat
  BY <1>1, FifoIsTyped DEF RingInv
<1>4. at \in Int /\ c \in Int
  BY <1>1, SizeAssumption DEF TypeInv, TypeInvariant, Channel
<1>5. CASE run.ch = c
  <2> DEFINE p == run.daddr
  <2>1. /\ Received' = Received + 1 /\ p \in 0 .. ring - 1
        /\ mem'[p] = Received + 1
        /\ \A a \in 0 .. ring - 1 : a # p => mem'[a] = mem[a]
        /\ run'.daddr = p + 1 /\ run'.moved = 1
    BY <1>1, <1>5, TurnStores
  <2>2. OnRequest(c)'
    BY <1>1, <1>2, <1>3, <1>4, <1>5, <2>1 DEF OnRequest
  <2>3. Received % ring = p % ring /\ p \in Nat
    BY <1>3, <1>5, <2>1 DEF NextPlace
  <2>4. NextPlace(c)' = p + 1
    BY <1>2, <1>5, <2>1 DEF NextPlace
  <2> HIDE DEF p, ring
  <2>5. Received' % ring = NextPlace(c)' % ring
    <3>1. (Received + 1) % ring = (p + 1) % ring
      BY <1>1, <1>3, <2>3, RemaindersGrow
    <3> QED
      BY <2>1, <2>4, <3>1
  <2>6. ASSUME NEW k \in 1 .. Received', Received' - k < ring
        PROVE  mem'[(k - 1) % ring] = k
    <3>0. k \in 1 .. Received + 1 /\ Received + 1 - k < ring
      BY <1>1, <1>3, <2>1, <2>6
    <3>1. Received % ring = p
      BY <1>1, <2>1, <2>3, RemainderIsSmall
    <3>2. CASE k = Received + 1
      <4>1. k - 1 = Received
        BY <1>3, <3>2
      <4> QED
        BY <2>1, <3>1, <3>2, <4>1
    <3>3. CASE k # Received + 1
      <4>1. /\ k \in 1 .. Received /\ Received - k < ring
            /\ k - 1 \in Nat /\ k - 1 < Received /\ Received - (k - 1) < ring
        BY <1>1, <1>3, <3>0, <3>3
      <4>2. (k - 1) % ring # p
        BY <1>1, <1>3, <3>1, <4>1, RemaindersDiffer
      <4>3. (k - 1) % ring \in 0 .. ring - 1
        BY <1>1, <4>1, RemainderIsSmall
      <4> QED
        BY <1>3, <2>1, <4>1, <4>2, <4>3 DEF RingIsFilled
    <3> QED
      BY <3>2, <3>3
  <2>7. RingIsFilled(ring)'
    BY <2>6 DEF RingIsFilled, ring
  <2> QED
    BY <2>2, <2>5, <2>7
<1>6. CASE run.ch # c
  <2>1. /\ rx' = rx /\ Received' = Received
        /\ \A a \in 0 .. ring - 1 : mem'[a] = mem[a]
    BY <1>1, <1>6, OthersKeepRing
  <2>2. OnRequest(c)' /\ NextPlace(c)' = NextPlace(c)
    BY <1>1, <1>2, <1>3, <1>6, <2>1 DEF OnRequest, NextPlace
  <2> HIDE DEF ring
  <2>3. ASSUME NEW k \in 1 .. Received, Received - k < ring
        PROVE  mem'[(k - 1) % ring] = k
    <3>1. k - 1 \in Nat
      OBVIOUS
    <3>2. (k - 1) % ring \in 0 .. ring - 1
      BY <1>1, <3>1, RemainderIsSmall
    <3> QED
      BY <1>3, <2>1, <2>3, <3>2 DEF RingIsFilled
  <2>4. RingIsFilled(ring)'
    BY <2>1, <2>3 DEF RingIsFilled, ring
  <2> QED
    BY <1>3, <2>1, <2>2, <2>4
<1> QED
  BY <1>5, <1>6

LEMMA MinorKeepsRing ==
  ASSUME FifoInv, NEW s \in Setups, NEW c, Receives(s, c), RingInv(s, c), EndMinorLoop
  PROVE  RingInv(s, c)'
<1> DEFINE d == run.ch
           t == tcd[d]
<1> SUFFICES ASSUME InUse(s)'
             PROVE  /\ OnRequest(c)' /\ RingIsFilled(s.ring)'
                    /\ Received' % s.ring = NextPlace(c)' % s.ring
  BY DEF RingInv
<1>1. /\ d \in Channel /\ t \in Tcd /\ tcd'[d].csr = t.csr
      /\ tcd'[d] = [t EXCEPT !.saddr = run.saddr, !.daddr = run.daddr,
                             !.citer = NextCiter(t.citer)]
      /\ \A e \in Channel : e # d => tcd'[e] = tcd[e]
      /\ run' = Idle /\ UNCHANGED <<uartVars, phase, at, requests, driverVars, mem>>
  <2>1. TypeInv
    BY DEF FifoInv
  <2> QED
    BY <2>1, MinorDoes
<1>2. tcd'[d].daddr = run.daddr
  BY <1>1 DEF Tcd
<1>3. /\ InUse(s) /\ c \in Channel /\ run'.ch # c
      /\ UNCHANGED <<chcfg, mem, rx, pushed, phase, at, requests>>
  BY <1>1 DEF InUse, driverVars, uartVars, Receives, Idle, Channel
<1>4. Received' = Received
  BY <1>3 DEF Received
<1>5. tcd'[c].csr = tcd[c].csr /\ NextPlace(c)' = NextPlace(c)
  BY <1>1, <1>2, <1>3 DEF NextPlace
<1>6. OnRequest(c)' /\ RingIsFilled(s.ring)' = RingIsFilled(s.ring)
  BY <1>3, <1>4, <1>5 DEF RingInv, OnRequest, RingIsFilled
<1> QED
  BY <1>3, <1>4, <1>5, <1>6 DEF RingInv

(* At the end of a major loop the next descriptor, or the same wound back, *)
(* goes on where the ring does.                                            *)
LEMMA ReloadGoesOn ==
  ASSUME TypeInv, NEW s \in Setups, NEW c, Receives(s, c), LineInv(s), InUse(s),
         run.ch = c, EndMajorLoop
  PROVE  /\ "START" \notin tcd'[c].csr \/ "START" \in tcd[c].csr
         /\ tcd'[c].daddr % s.ring = run.daddr % s.ring
<1> DEFINE t == tcd[c]
           w == tcd'[c]
<1>1. /\ t \in Tcd /\ w = Reloaded(c) /\ w \in Tcd /\ NextCiter(t.citer) = 0
      /\ run.moved >= t.nbytes /\ run # Idle
  BY MajorDoes
<1>2. PICK o \in Descriptors(s, c) :
        /\ c \in Channel /\ o \in Tcd /\ Along(o, t) /\ t.nbytes = 1
        /\ run.moved \in {0, 1} /\ run.daddr = t.daddr + run.moved
        /\ t.citer \in 1 .. o.biter /\ t.daddr = o.daddr + (o.biter - t.citer)
        /\ o.daddr \in Nat /\ o.daddr + o.biter <= s.ring
  BY ReceivingChannel
<1>3. run.daddr = o.daddr + o.biter
  <2>1. t.citer = 1 /\ o.biter \in Nat
    BY <1>1, <1>2, TcdIsTyped DEF NextCiter
  <2>2. run.moved = 1
    BY <1>1, <1>2
  <2> QED
    BY <1>2, <2>1, <2>2
<1>4. (o.daddr + o.biter) % s.ring = IF "ESG" \in o.csr THEN Loaded(o).daddr ELSE o.daddr
  BY DEF Receives
<1>5. t.dlast = o.dlast /\ ("ESG" \in t.csr <=> "ESG" \in o.csr)
  BY <1>2 DEF Along, SameFields
<1>6. s.ring \in Nat \ {0} /\ o.daddr + o.biter \in Nat
  BY <1>2, TcdIsTyped, SizeAssumption DEF Receives
<1>7. ((o.daddr + o.biter) % s.ring) % s.ring = (o.daddr + o.biter) % s.ring
  <2> DEFINE n == o.daddr + o.biter
             r == s.ring
  <2>1. n \in Nat /\ r \in Nat \ {0}
    BY <1>6
  <2> HIDE DEF n, r
  <2>2. n % r \in 0 .. r - 1 /\ n % r \in Nat
    BY <2>1, RemainderIsSmall
  <2>3. (n % r) % r = n % r
    BY <2>1, <2>2, RemainderIsSmall
  <2> QED
    BY <2>3 DEF n, r
<1>8. CASE "ESG" \in t.csr
  <2>1. w = Loaded(o) /\ Loaded(o) \in Descriptors(s, c)
    BY <1>1, <1>2, <1>5, <1>8, DescriptorsAreClosed DEF Reloaded, Loaded
  <2>2. "START" \notin w.csr
    BY <2>1 DEF Receives
  <2>3. w.daddr % s.ring = run.daddr % s.ring
    BY <1>3, <1>4, <1>5, <1>7, <1>8, <2>1
  <2> QED
    BY <2>2, <2>3
<1>9. CASE "ESG" \notin t.csr
  <2>1. w = [t EXCEPT !.saddr = run.saddr + t.slast, !.daddr = run.daddr + t.dlast,
                      !.citer = t.biter, !.csr = @ \union {"DONE"}]
    BY <1>1, <1>9 DEF Reloaded
  <2>2. UnderWay(t, Turns(t))
    BY <1>1, LoopIsOver
  <2>3. Steady(o)
    BY <1>2 DEF Receives
  <2>4. w.csr = t.csr \union {"DONE"}
    BY <1>1, <2>1 DEF Tcd
  <2> HIDE DEF t, w
  <2>5. w.daddr = o.daddr
    <3>1. /\ o \in Tcd /\ t \in Tcd /\ w \in Tcd /\ Along(o, t) /\ t.nbytes > 0
          /\ NextCiter(t.citer) = 0
      BY <1>1, <1>2
    <3> QED
      BY <1>9, <2>1, <2>2, <2>3, <3>1, MajorLoopWindsBack, ZenonT(60)
  <2>6. w.daddr % s.ring = run.daddr % s.ring
    BY <1>3, <1>4, <1>5, <1>7, <1>9, <2>5
  <2> QED
    BY <2>4, <2>6 DEF t, w
<1> QED
  BY <1>8, <1>9

LEMMA MajorKeepsRing ==
  ASSUME FifoInv, NEW s \in Setups, NEW c, Receives(s, c), LineInv(s), RingInv(s, c),
         EndMajorLoop
  PROVE  RingInv(s, c)'
<1> DEFINE d == run.ch
           t == tcd[d]
<1> SUFFICES ASSUME InUse(s)'
             PROVE  /\ OnRequest(c)' /\ RingIsFilled(s.ring)'
                    /\ Received' % s.ring = NextPlace(c)' % s.ring
  BY DEF RingInv
<1>1. /\ d \in Channel /\ run # Idle
      /\ \A e \in Channel : e # d =>
           /\ SameButStatus(tcd[e], tcd'[e])
           /\ tcd'[e].csr = IF "MAJORELINK" \in t.csr /\ e = t.linkch
                              THEN tcd[e].csr \union {"START"} ELSE tcd[e].csr
      /\ run' = Idle /\ UNCHANGED <<uartVars, phase, at, requests, driverVars, mem>>
  <2>1. TypeInv
    BY DEF FifoInv
  <2> QED
    BY <2>1, MajorDoes
<1>2. /\ TypeInv /\ InUse(s) /\ c \in Channel /\ run'.ch # c
      /\ UNCHANGED <<chcfg, mem, rx, pushed, phase, at, requests>>
  BY <1>1 DEF FifoInv, InUse, driverVars, uartVars, Receives, Idle, Channel
<1>3. Received' = Received
  BY <1>2 DEF Received
<1>4. "START" \notin tcd[c].csr /\ Received % s.ring = NextPlace(c) % s.ring
  BY <1>2 DEF RingInv, OnRequest
<1>5. "START" \notin tcd'[c].csr /\ NextPlace(c)' % s.ring = NextPlace(c) % s.ring
  <2>1. CASE c = d
    BY <1>2, <1>4, <2>1, ReloadGoesOn DEF NextPlace
  <2>2. CASE c # d
    <3>1. PICK o \in Descriptors(s, d) : Along(o, t)
      BY <1>1, <1>2 DEF LineInv
    <3>2. ~("MAJORELINK" \in t.csr /\ c = t.linkch)
      BY <1>1, <3>1 DEF Receives, Along, SameFields
    <3> QED
      BY <1>1, <1>2, <1>4, <2>2, <3>2 DEF NextPlace, SameButStatus
  <2> QED
    BY <2>1, <2>2
<1>6. OnRequest(c)' /\ RingIsFilled(s.ring)' = RingIsFilled(s.ring)
  BY <1>2, <1>3, <1>5 DEF RingInv, OnRequest, RingIsFilled
<1> QED
  BY <1>2, <1>3, <1>4, <1>5, <1>6 DEF RingInv

ReceiveInv ==
  /\ FifoInv
  /\ \A s \in Setups : \A c \in Channel : Receives(s, c) => LineInv(s) /\ RingInv(s, c)

LEMMA ReceiveStart == Init => ReceiveInv
<1> SUFFICES ASSUME Init PROVE ReceiveInv
  OBVIOUS
<1>1. \A s \in Setups : ~InUse(s)
  BY SetupAssumption DEF Init, InUse, IsSetup
<1> QED
  BY <1>1, FifoStart, LineStarts DEF ReceiveInv, RingInv

LEMMA ReceiveStep == ReceiveInv /\ [Next]_vars => ReceiveInv'
<1> SUFFICES ASSUME ReceiveInv, [Next]_vars PROVE ReceiveInv'
  OBVIOUS
<1>1. FifoInv /\ FifoInv' /\ TypeInv
  BY FifoStep DEF ReceiveInv, FifoInv
<1>2. ASSUME NEW s \in Setups, NEW c \in Channel, Receives(s, c)
      PROVE  LineInv(s)' /\ RingInv(s, c)'
  <2>1. LineInv(s) /\ RingInv(s, c) /\ AllSteady(s)
    BY <1>2 DEF ReceiveInv, AllSteady, Receives
  <2>2. LineInv(s)'
    BY <1>1, <2>1, LineStep
  <2>3. RingInv(s, c)'
    BY <1>1, <1>2, <2>1, QuietKeepsRing, ProgramKeepsRing, SsrtKeepsRing, VisitKeepsRing,
       MoveKeepsRing, MinorKeepsRing, MajorKeepsRing DEF Next, Instruction, Pass
  <2> QED
    BY <2>2, <2>3
<1> QED
  BY <1>1, <1>2 DEF ReceiveInv

(* A program with a ring has a channel that receives into it and that      *)
(* alone reads the FIFO: then the ring holds the latest bytes, every byte  *)
(* at its place, whatever the firmware starts, enables and disables, the   *)
(* other channels do, and the host sends in between.                       *)
THEOREM RingIsExact ==
  ASSUME \A s \in Setups : s.ring > 0 => \E c \in Channel : Receives(s, c)
  PROVE  Spec => []RingHoldsLatest
<1>1. ReceiveInv => RingHoldsLatest
  <2> SUFFICES ASSUME ReceiveInv, NEW s \in Setups, InUse(s),
                      NEW k \in 1 .. Received, Received - k < s.ring
               PROVE  mem[(k - 1) % s.ring] = k
    BY DEF RingHoldsLatest
  <2>1. Received \in Nat /\ s.ring \in Nat
    BY FifoIsTyped, SetupAssumption DEF ReceiveInv, FifoInv, IsSetup
  <2>2. s.ring > 0
    BY <2>1
  <2>3. PICK c \in Channel : Receives(s, c)
    BY <2>2
  <2> QED
    BY <2>3 DEF ReceiveInv, RingInv, RingIsFilled
<1> QED
  BY <1>1, ReceiveStart, ReceiveStep, PTL DEF Spec

(***************************************************************************)
(* Blocks                                                                  *)
(***************************************************************************)

Announces(s, c) == \A o \in Descriptors(s, c) : "INTMAJOR" \in o.csr
StopsItself(s, c) == \A o \in Descriptors(s, c) : "DREQ" \in o.csr

(* The bytes of the block in hand that the channel has taken.              *)
Taken(s, c) == (s.block - tcd[c].citer) + (IF run.ch = c THEN run.moved ELSE 0)

(* What has been received is m complete major loops and the one in hand;   *)
(* an interrupt stands for those the handler has not seen.                 *)
BlocksDone(s, c, m) ==
  /\ Received = m * s.block + Taken(s, c)
  /\ Announces(s, c) /\ handled < m => c \in int_req

BlockInv(s, c) == InUse(s) => \E m \in Nat : BlocksDone(s, c, m)

LEMMA QuotientIsUnique ==
  ASSUME NEW b \in Nat \ {0}, NEW m \in Nat, NEW y \in 0 .. b - 1, NEW n \in Nat,
         n = m * b + y
  PROVE  n \div b = m /\ n % b = y
<1> DEFINE q == n \div b
           x == n % b
<1>1. q \in Nat /\ x \in 0 .. b - 1 /\ n = b * q + x
  BY RemainderIsSmall
<1>2. m * b = b * m
  OBVIOUS
<1>3. x = y
  <2>1. n = b * m + y
    BY <1>2
  <2> QED
    BY <2>1, RemainderIsUnique
<1> HIDE DEF q, x
<1>4. b * q = b * m
  <2>1. b * q \in Int /\ b * m \in Int
    BY <1>1
  <2> QED
    BY <1>1, <1>2, <1>3, <2>1
<1>5. q = m
  BY <1>1, <1>4, Z3
<1> QED
  BY <1>3, <1>5 DEF q, x

LEMMA ReceivingBlocks ==
  ASSUME TypeInv, NEW s \in Setups, NEW c, ReceivesBlocks(s, c), LineInv(s), InUse(s),
         NEW t, t = tcd[c]
  PROVE  /\ c \in Channel /\ s.receive = {c} /\ s.block \in Nat \ {0} /\ Receives(s, c)
         /\ t \in Tcd /\ t.nbytes = 1 /\ Unit(t) = 1 /\ t.biter = s.block
         /\ t.citer \in 1 .. s.block
         /\ Announces(s, c) => "INTMAJOR" \in t.csr
         /\ StopsItself(s, c) => "DREQ" \in t.csr
         /\ run.ch = c => run.moved \in {0, 1}
<1>1. Receives(s, c) /\ s.receive = {c} /\ c \in Channel /\ s.block \in Nat \ {0}
  BY SetupAssumption DEF ReceivesBlocks, Receives, IsSetup
<1>2. /\ t \in Tcd /\ t.nbytes = 1 /\ Unit(t) = 1
      /\ run.ch = c => run.moved \in {0, 1}
  BY <1>1, ReceivingChannel
<1>3. PICK o \in Descriptors(s, c) : Along(o, t)
  BY <1>1 DEF LineInv
<1>4. /\ t.biter = s.block /\ t.citer \in 1 .. s.block
      /\ t.csr \ {"START", "DONE"} = o.csr \ {"START", "DONE"}
  BY <1>2, <1>3 DEF Along, SameFields, ReceivesBlocks
<1>5. /\ Announces(s, c) => "INTMAJOR" \in t.csr
      /\ StopsItself(s, c) => "DREQ" \in t.csr
  BY <1>4 DEF Announces, StopsItself
<1> QED
  BY <1>1, <1>2, <1>4, <1>5, ReceivingChannel

(* Steps that leave the count of the block alone.                          *)
LEMMA BlocksStay ==
  ASSUME NEW s, NEW c, BlockInv(s, c), setup' = setup, handled' = handled,
         Received' = Received, InUse(s) => Taken(s, c)' = Taken(s, c),
         c \in int_req => c \in int_req'
  PROVE  BlockInv(s, c)'
<1> SUFFICES ASSUME InUse(s)' PROVE \E m \in Nat : BlocksDone(s, c, m)'
  BY DEF BlockInv
<1>1. InUse(s)
  BY DEF InUse
<1>2. PICK m \in Nat : BlocksDone(s, c, m)
  BY <1>1 DEF BlockInv
<1>3. BlocksDone(s, c, m)'
  BY <1>1, <1>2 DEF BlocksDone, Announces, Descriptors, Loaded, TcdOf
<1> QED
  BY <1>3

LEMMA QuietKeepsBlocks ==
  ASSUME FifoInv, NEW s \in Setups, NEW c, BlockInv(s, c),
         \/ UNCHANGED vars \/ HostPush \/ OtherInstruction \/ EndPass \/ Tick
         \/ \E r \in Setups : SetErq(r) \/ ClearErq(r) \/ ToggleUartDma(r)
  PROVE  BlockInv(s, c)'
<1>1. UNCHANGED <<setup, tcd, run, handled, int_req>> /\ Received' = Received
  <2>1. CASE HostPush
    BY <2>1, PushDoes DEF engineVars, passVars
  <2>2. CASE UNCHANGED vars
    BY <2>2 DEF vars, uartVars, engineVars, passVars, driverVars, Received
  <2>3. CASE \/ OtherInstruction \/ EndPass \/ Tick
             \/ \E r \in Setups : SetErq(r) \/ ClearErq(r) \/ ToggleUartDma(r)
    BY <2>3 DEF OtherInstruction, EndPass, Tick, SetErq, ClearErq, ToggleUartDma, WritesEdma,
                LeavesEdma, engineVars, driverVars, uartVars, Received
  <2> QED
    BY <2>1, <2>2, <2>3
<1>2. Taken(s, c)' = Taken(s, c)
  BY <1>1 DEF Taken
<1> QED
  BY <1>1, <1>2, BlocksStay

LEMMA ProgramKeepsBlocks ==
  ASSUME FifoInv, NEW s \in Setups, NEW c, ReceivesBlocks(s, c), NEW r \in Setups, Program(r)
  PROVE  BlockInv(s, c)'
<1> SUFFICES ASSUME InUse(s)' PROVE BlocksDone(s, c, 0)'
  BY DEF BlockInv
<1>1. r = s /\ setup = None
  BY SetupAssumption DEF Program, InUse
<1>2. /\ c \in Channel /\ tcd'[c] = TcdOf(s, c) /\ run' = run
      /\ rx' = rx /\ pushed' = pushed /\ handled' = handled
  BY <1>1 DEF Program, WritesEdma, ReceivesBlocks, Receives
<1>3. run = Idle /\ Received' = 0
  BY <1>1, <1>2 DEF FifoInv, Received
<1>4. tcd'[c].citer = s.block
  BY <1>2, DescriptorsAreClosed DEF ReceivesBlocks, Receives, Steady
<1>5. Taken(s, c)' = (s.block - s.block) + 0 /\ s.block \in Nat
  BY <1>2, <1>3, <1>4, SetupAssumption DEF Taken, Idle, Channel, IsSetup
<1>6. handled \in Nat
  BY SizeAssumption DEF FifoInv, TypeInv, TypeInvariant, Byte
<1>7. Received' = 0 * s.block + Taken(s, c)'
  BY <1>3, <1>5
<1> QED
  BY <1>2, <1>6, <1>7 DEF BlocksDone

(* At rest the handler counts all complete blocks.                         *)
LEMMA BlocksAtRest ==
  ASSUME FifoInv, NEW s \in Setups, NEW c, ReceivesBlocks(s, c), LineInv(s), InUse(s),
         run = Idle, NEW m \in Nat, BlocksDone(s, c, m)
  PROVE  Blocks(s) = m
<1> DEFINE b == s.block
           k == tcd[c].citer
<1>1. TypeInv
  BY DEF FifoInv
<1>2. b \in Nat \ {0} /\ k \in 1 .. b /\ c \in Channel
  BY <1>1, ReceivingBlocks
<1>3. Received \in Nat /\ Received = m * b + ((b - k) + 0)
  BY <1>1, <1>2, FifoIsTyped DEF BlocksDone, Taken, Idle, Channel
<1> HIDE DEF b, k
<1>4. (b - k) + 0 \in 0 .. b - 1
  BY <1>2
<1>5. Received \div b = m
  BY <1>2, <1>3, <1>4, QuotientIsUnique
<1> QED
  BY <1>5 DEF Blocks, b

LEMMA AcknowledgeKeepsBlocks ==
  ASSUME FifoInv, NEW s \in Setups, NEW c, ReceivesBlocks(s, c), LineInv(s), BlockInv(s, c),
         NEW r \in Setups, Acknowledge(r)
  PROVE  BlockInv(s, c)'
<1> SUFFICES ASSUME InUse(s)' PROVE \E m \in Nat : BlocksDone(s, c, m)'
  BY DEF BlockInv
<1>1. /\ InUse(s) /\ r = s /\ UNCHANGED <<tcd, run, rx, pushed, setup>> /\ phase = "cpu"
  BY SetupAssumption DEF Acknowledge, InUse, uartVars, WritesEdma
<1>2. PICK m \in Nat : BlocksDone(s, c, m)
  BY <1>1 DEF BlockInv
<1>3. run = Idle /\ s.receive = {c} /\ TypeInv
  BY <1>1, ReceivingBlocks DEF FifoInv, TypeInv, InPass
<1>4. Received' = Received /\ Taken(s, c)' = Taken(s, c)
  BY <1>1 DEF Received, Taken
<1>5. PICK d \in int_req : /\ int_req' = int_req \ {d}
                           /\ handled' = IF d \in s.receive THEN Blocks(s) ELSE handled
  BY <1>1 DEF Acknowledge
<1>6. Announces(s, c)' /\ handled' < m => c \in int_req'
  <2>1. CASE d = c
    <3>1. handled' = m
      BY <1>1, <1>2, <1>3, <1>5, <2>1, BlocksAtRest
    <3> QED
      BY <3>1
  <2>2. CASE d # c
    BY <1>2, <1>3, <1>5, <2>2 DEF BlocksDone, Announces, Descriptors, Loaded, TcdOf
  <2> QED
    BY <2>1, <2>2
<1>7. BlocksDone(s, c, m)'
  BY <1>2, <1>4, <1>6 DEF BlocksDone
<1> QED
  BY <1>7

LEMMA StartsKeepBlocks ==
  ASSUME FifoInv, NEW s \in Setups, NEW c \in Channel, BlockInv(s, c),
         Visit \/ \E r \in Setups : Ssrt(r)
  PROVE  BlockInv(s, c)'
<1>1. TypeInv
  BY DEF FifoInv
<1>2. CASE Visit
  <2>1. PICK d \in Channel :
          /\ run = Idle /\ run'.ch = d /\ run'.moved = 0
          /\ SameButStatus(tcd[d], tcd'[d])
          /\ \A e \in Channel : e # d => tcd'[e] = tcd[e]
          /\ UNCHANGED <<uartVars, int_req, driverVars>>
    BY <1>1, <1>2, VisitDoes
  <2>2. tcd'[c].citer = tcd[c].citer
    BY <2>1 DEF SameButStatus
  <2>3. Taken(s, c)' = Taken(s, c)
    BY <2>1, <2>2 DEF Taken, Idle, Channel
  <2>4. UNCHANGED <<rx, pushed, setup, handled, int_req>>
    BY <2>1 DEF uartVars, driverVars
  <2>5. Received' = Received
    BY <2>4 DEF Received
  <2> QED
    BY <2>3, <2>4, <2>5, BlocksStay
<1>3. ASSUME NEW r \in Setups, Ssrt(r)
      PROVE  BlockInv(s, c)'
  <2>1. PICK d \in Channel :
          /\ run = Idle /\ run' = Idle /\ SameButStatus(tcd[d], tcd'[d])
          /\ \A e \in Channel : e # d => tcd'[e] = tcd[e]
    BY <1>1, <1>3, SsrtDoes
  <2>2. tcd'[c].citer = tcd[c].citer
    BY <2>1 DEF SameButStatus
  <2>3. Taken(s, c)' = Taken(s, c)
    BY <2>1, <2>2 DEF Taken
  <2>4. UNCHANGED <<rx, pushed, setup, handled, int_req>>
    BY <1>3 DEF Ssrt, uartVars, driverVars
  <2>5. Received' = Received
    BY <2>4 DEF Received
  <2> QED
    BY <2>3, <2>4, <2>5, BlocksStay
<1> QED
  BY <1>2, <1>3

LEMMA MoveKeepsBlocks ==
  ASSUME FifoInv, NEW s \in Setups, NEW c, ReceivesBlocks(s, c), LineInv(s), RingInv(s, c),
         BlockInv(s, c), MoveUnit
  PROVE  BlockInv(s, c)'
<1> SUFFICES ASSUME InUse(s)' PROVE \E m \in Nat : BlocksDone(s, c, m)'
  BY DEF BlockInv
<1>1. /\ TypeInv /\ InUse(s) /\ Receives(s, c) /\ run'.ch = run.ch
      /\ UNCHANGED <<tcd, int_req, handled, setup>>
  BY MoveDoes DEF FifoInv, InUse, driverVars, engineVars, ReceivesBlocks
<1>2. PICK m \in Nat : BlocksDone(s, c, m)
  BY <1>1 DEF BlockInv
<1>3. s.block \in Nat \ {0} /\ tcd[c].citer \in 1 .. s.block
  BY <1>1, ReceivingBlocks
<1>4. Received' = m * s.block + Taken(s, c)'
  <2>1. CASE run.ch = c
    <3>1. /\ Received' = Received + 1 /\ Received \in Nat
          /\ run.moved = 0 /\ run'.moved = 1
      BY <1>1, <2>1, TurnStores
    <3> DEFINE x == m * s.block
               y == s.block - tcd[c].citer
    <3>2. x \in Nat /\ y \in Nat
      BY <1>3
    <3>3. Received = x + (y + 0) /\ Taken(s, c)' = y + 1
      BY <1>1, <1>2, <2>1, <3>1 DEF BlocksDone, Taken
    <3> HIDE DEF x, y
    <3>4. Received' = x + Taken(s, c)'
      BY <3>1, <3>2, <3>3
    <3> QED
      BY <3>4 DEF x
  <2>2. CASE run.ch # c
    BY <1>1, <1>2, <2>2, OthersKeepRing DEF BlocksDone, Taken
  <2> QED
    BY <2>1, <2>2
<1>5. BlocksDone(s, c, m)'
  BY <1>1, <1>2, <1>4 DEF BlocksDone, Announces, Descriptors, Loaded, TcdOf
<1> QED
  BY <1>5

(* At the end of a minor loop its byte belongs to the count.               *)
LEMMA MinorKeepsBlocks ==
  ASSUME FifoInv, NEW s \in Setups, NEW c, ReceivesBlocks(s, c), LineInv(s), BlockInv(s, c),
         EndMinorLoop
  PROVE  BlockInv(s, c)'
<1> DEFINE d == run.ch
           t == tcd[d]
<1> SUFFICES ASSUME InUse(s)' PROVE BlockInv(s, c)'
  BY DEF BlockInv
<1>1. /\ d \in Channel /\ run.moved >= t.nbytes /\ NextCiter(t.citer) # 0
      /\ tcd'[d].citer = NextCiter(t.citer)
      /\ \A e \in Channel : e # d => tcd'[e] = tcd[e]
      /\ run' = Idle /\ UNCHANGED <<uartVars, int_req, driverVars>>
  <2>1. TypeInv
    BY DEF FifoInv
  <2> QED
    BY <2>1, MinorDoes
<1>2. /\ TypeInv /\ InUse(s) /\ UNCHANGED <<rx, pushed, setup, handled, int_req>>
      /\ run'.ch \notin Channel
  BY <1>1 DEF FifoInv, InUse, driverVars, uartVars, Idle, Channel
<1>3. /\ c \in Channel /\ s.block \in Nat \ {0} /\ tcd[c].citer \in 1 .. s.block
      /\ tcd[c].nbytes = 1 /\ (run.ch = c => run.moved \in {0, 1})
  BY <1>2, ReceivingBlocks
<1>4. Taken(s, c)' = Taken(s, c)
  <2>1. CASE c = d
    <3>1. tcd'[c].citer = tcd[c].citer - 1 /\ run.moved = 1
      BY <1>1, <1>3, <2>1 DEF NextCiter
    <3>2. Taken(s, c)' = (s.block - (tcd[c].citer - 1)) + 0
      BY <1>2, <1>3, <3>1 DEF Taken
    <3>3. Taken(s, c) = (s.block - tcd[c].citer) + 1
      BY <2>1, <3>1 DEF Taken
    <3> QED
      BY <1>3, <3>2, <3>3
  <2>2. CASE c # d
    BY <1>1, <1>2, <1>3, <2>2 DEF Taken
  <2> QED
    BY <2>1, <2>2
<1>5. Received' = Received
  BY <1>2 DEF Received
<1> QED
  BY <1>2, <1>4, <1>5, BlocksStay

(* The end of a major loop completes a block and announces it.             *)
LEMMA MajorKeepsBlocks ==
  ASSUME FifoInv, NEW s \in Setups, NEW c, ReceivesBlocks(s, c), LineInv(s), BlockInv(s, c),
         EndMajorLoop
  PROVE  BlockInv(s, c)'
<1> DEFINE d == run.ch
           t == tcd[d]
           b == s.block
<1> SUFFICES ASSUME InUse(s)' PROVE BlockInv(s, c)'
  BY DEF BlockInv
<1>1. TypeInv
  BY DEF FifoInv
<1>2. /\ d \in Channel /\ run.moved >= t.nbytes /\ NextCiter(t.citer) = 0
      /\ tcd'[d] = Reloaded(d) /\ t \in Tcd
      /\ int_req' = IF "INTMAJOR" \in t.csr THEN int_req \union {d} ELSE int_req
      /\ \A e \in Channel : e # d => SameButStatus(tcd[e], tcd'[e])
      /\ run' = Idle /\ UNCHANGED <<uartVars, driverVars>>
  BY <1>1, MajorDoes
<1>3. /\ InUse(s) /\ UNCHANGED <<rx, pushed, setup, handled>> /\ run'.ch \notin Channel
  BY <1>2 DEF InUse, driverVars, uartVars, Idle, Channel
<1>4. Received' = Received
  BY <1>3 DEF Received
<1>5. /\ c \in Channel /\ b \in Nat \ {0} /\ tcd[c].citer \in 1 .. b
      /\ tcd[c].nbytes = 1 /\ (run.ch = c => run.moved \in {0, 1}) /\ tcd[c].biter = b
      /\ (Announces(s, c) => "INTMAJOR" \in tcd[c].csr)
  BY <1>1, <1>3, ReceivingBlocks
<1>6. CASE c = d
  <2>1. tcd[c].citer = 1 /\ run.moved = 1
    BY <1>2, <1>5, <1>6 DEF NextCiter
  <2>2. PICK m \in Nat : BlocksDone(s, c, m)
    BY <1>3 DEF BlockInv
  <2>3. Received = m * b + ((b - 1) + 1)
    BY <1>6, <2>1, <2>2 DEF BlocksDone, Taken
  <2>4. tcd'[c].citer = b
    <3>1. CASE "ESG" \in t.csr
      <4>1. PICK o \in Descriptors(s, c) : Along(o, t)
        BY <1>3, <1>5, <1>6 DEF LineInv
      <4>2. "ESG" \in o.csr /\ t.dlast = o.dlast
        BY <3>1, <4>1 DEF Along, SameFields
      <4>3. tcd'[c] = Loaded(o) /\ Loaded(o) \in Descriptors(s, c)
        BY <1>2, <1>5, <1>6, <3>1, <4>2, DescriptorsAreClosed DEF Reloaded, Loaded
      <4> QED
        BY <1>5, <4>3 DEF ReceivesBlocks, Receives, Steady
    <3>2. CASE "ESG" \notin t.csr
      BY <1>2, <1>5, <1>6, <3>2 DEF Reloaded, Tcd
    <3> QED
      BY <3>1, <3>2
  <2>5. Taken(s, c)' = (b - b) + 0
    BY <1>3, <1>5, <2>4 DEF Taken
  <2> HIDE DEF b
  <2>6. Received' = (m + 1) * b + ((b - b) + 0)
    <3>1. (m + 1) * b = m * b + b /\ m * b \in Nat
      BY <1>5, OneMore
    <3> QED
      BY <1>4, <1>5, <2>3, <3>1
  <2>7. Announces(s, c)' /\ handled' < m + 1 => c \in int_req'
    BY <1>2, <1>5, <1>6 DEF Announces, Descriptors, Loaded, TcdOf
  <2>8. BlocksDone(s, c, m + 1)'
    BY <2>5, <2>6, <2>7 DEF BlocksDone, b
  <2> QED
    BY <2>8 DEF BlockInv
<1>7. CASE c # d
  <2>1. tcd'[c].citer = tcd[c].citer
    BY <1>2, <1>5, <1>7 DEF SameButStatus
  <2>2. Taken(s, c)' = Taken(s, c)
    BY <1>3, <1>5, <1>7, <2>1 DEF Taken
  <2>3. c \in int_req => c \in int_req'
    BY <1>2
  <2> QED
    BY <1>3, <1>4, <2>2, <2>3, BlocksStay
<1> QED
  BY <1>6, <1>7

CountInv ==
  /\ ReceiveInv
  /\ \A s \in Setups : \A c \in Channel : ReceivesBlocks(s, c) => BlockInv(s, c)

LEMMA CountStart == Init => CountInv
<1> SUFFICES ASSUME Init PROVE CountInv
  OBVIOUS
<1>1. \A s \in Setups : ~InUse(s)
  BY SetupAssumption DEF Init, InUse, IsSetup
<1> QED
  BY <1>1, ReceiveStart DEF CountInv, BlockInv

LEMMA CountStep == CountInv /\ [Next]_vars => CountInv'
<1> SUFFICES ASSUME CountInv, [Next]_vars PROVE CountInv'
  OBVIOUS
<1>1. ReceiveInv' /\ FifoInv
  BY ReceiveStep DEF CountInv, ReceiveInv
<1>2. ASSUME NEW s \in Setups, NEW c \in Channel, ReceivesBlocks(s, c)
      PROVE  BlockInv(s, c)'
  <2>1. BlockInv(s, c) /\ LineInv(s) /\ RingInv(s, c)
    BY <1>2 DEF CountInv, ReceiveInv, ReceivesBlocks
  <2> QED
    BY <1>1, <1>2, <2>1, QuietKeepsBlocks, ProgramKeepsBlocks, AcknowledgeKeepsBlocks,
       StartsKeepBlocks, MoveKeepsBlocks, MinorKeepsBlocks, MajorKeepsBlocks
       DEF Next, Instruction, Pass
<1>3. ASSUME NEW s \in Setups, NEW c \in Channel
      PROVE  ReceivesBlocks(s, c)' <=> ReceivesBlocks(s, c)
  BY DEF ReceivesBlocks, Receives, Descriptors, Loaded, TcdOf, Steady, Footprint, Turns, Unit
<1> QED
  BY <1>1, <1>2, <1>3 DEF CountInv

(* Where every descriptor of the receiving channel raises its interrupt,   *)
(* a complete block the handler has not seen is announced at every         *)
(* instruction, however acknowledgements and further blocks interleave.    *)
THEOREM CompleteBlocksAreAnnounced ==
  ASSUME \A s \in Setups : s.announced =>
           \E c \in Channel : ReceivesBlocks(s, c) /\ Announces(s, c)
  PROVE  Spec => []BlocksAreAnnounced
<1>1. CountInv => BlocksAreAnnounced
  <2> SUFFICES ASSUME CountInv, NEW s \in Setups, InUse(s), s.announced, AtRest,
                      handled < Blocks(s)
               PROVE  \E c \in s.receive : c \in int_req
    BY DEF BlocksAreAnnounced
  <2>1. PICK c \in Channel : ReceivesBlocks(s, c) /\ Announces(s, c)
    OBVIOUS
  <2>2. FifoInv /\ BlockInv(s, c) /\ LineInv(s)
    BY <2>1 DEF CountInv, ReceiveInv, ReceivesBlocks
  <2>3. PICK m \in Nat : BlocksDone(s, c, m)
    BY <2>2 DEF BlockInv
  <2>4. run = Idle
    BY <2>2 DEF AtRest, FifoInv, TypeInv, InPass
  <2>5. Blocks(s) = m
    BY <2>1, <2>2, <2>3, <2>4, BlocksAtRest
  <2> QED
    BY <2>1, <2>3, <2>5 DEF BlocksDone, ReceivesBlocks, Receives
<1> QED
  BY <1>1, CountStart, CountStep, PTL DEF Spec

(* A one-shot channel in one step.                                         *)
LEMMA OneShotStep ==
  ASSUME CountInv, [Next]_vars, NEW s \in Setups, InUse(s),
         NEW c, ReceivesBlocks(s, c), StopsItself(s, c)
  PROVE  /\ Received' # Received => c \in erq
         /\ c \in erq /\ c \notin erq' /\ phase # "cpu" => Received % s.block = 0
         /\ run.ch = c /\ run' = Idle /\ Received % s.block = 0 => c \notin erq'
<1> DEFINE b == s.block
           t == tcd[c]
<1>1. /\ FifoInv /\ TypeInv /\ BlockInv(s, c) /\ LineInv(s) /\ RingInv(s, c)
      /\ c \in Channel /\ Receives(s, c)
  BY DEF CountInv, ReceiveInv, FifoInv, ReceivesBlocks, Receives
<1>2. /\ b \in Nat \ {0} /\ t.citer \in 1 .. b /\ t.nbytes = 1 /\ "DREQ" \in t.csr
      /\ (run.ch = c => run.moved \in {0, 1})
  BY <1>1, ReceivingBlocks
<1>3. PICK m \in Nat : BlocksDone(s, c, m)
  BY <1>1 DEF BlockInv
<1>4. Received \in Nat
  BY <1>1, FifoIsTyped
<1>5. ASSUME Received' # Received
      PROVE  c \in erq
  <2>1. MoveUnit
    BY <1>1, <1>5, FifoStays, PushDoes
  <2>2. run.ch = c
    BY <1>1, <1>5, <2>1, OthersKeepRing
  <2> QED
    BY <1>1, <2>2 DEF RingInv, OnRequest
<1>6. ASSUME run.ch = c, run' = Idle
      PROVE  /\ EndMinorLoop => Received % b # 0
             /\ EndMajorLoop => Received % b = 0 /\ c \notin erq'
             /\ EndMinorLoop \/ EndMajorLoop
  <2>1. CASE EndMinorLoop
    <3>1. NextCiter(t.citer) # 0 /\ run.moved >= t.nbytes
      BY <1>1, <1>6, <2>1, MinorDoes
    <3>2. run.moved = 1 /\ t.citer # 1
      BY <1>2, <1>6, <3>1 DEF NextCiter
    <3> DEFINE y == (b - t.citer) + 1
    <3>3. Received = m * b + y /\ y \in 0 .. b - 1 /\ y # 0
      BY <1>2, <1>3, <1>6, <3>2 DEF BlocksDone, Taken
    <3>4. ~EndMajorLoop
      BY <1>6, <3>1 DEF EndMajorLoop
    <3> HIDE DEF y, b
    <3>5. Received % b = y
      BY <1>2, <1>4, <3>3, QuotientIsUnique, ZenonT(60)
    <3> QED
      BY <2>1, <3>3, <3>4, <3>5
  <2>2. CASE EndMajorLoop
    <3>1. /\ NextCiter(t.citer) = 0 /\ run.moved >= t.nbytes
          /\ erq' = IF "DREQ" \in t.csr THEN erq \ {c} ELSE erq
      BY <1>1, <1>6, <2>2, MajorDoes
    <3>2. run.moved = 1 /\ t.citer = 1
      BY <1>2, <1>6, <3>1 DEF NextCiter
    <3>3. Received = m * b + ((b - 1) + 1)
      BY <1>3, <1>6, <3>2 DEF BlocksDone, Taken
    <3>4. ~EndMinorLoop
      BY <1>6, <3>1 DEF EndMinorLoop
    <3> HIDE DEF b
    <3>5. Received = (m + 1) * b + 0 /\ 0 \in 0 .. b - 1
      <4>1. (m + 1) * b = m * b + b /\ m * b \in Nat
        BY <1>2, OneMore
      <4> QED
        BY <1>2, <3>3, <4>1
    <3>6. Received % b = 0
      BY <1>2, <1>4, <3>5, QuotientIsUnique
    <3> QED
      BY <1>2, <2>2, <3>1, <3>4, <3>6
  <2>3. EndMinorLoop \/ EndMajorLoop
    <3>1. run # Idle /\ InPass
      BY <1>1, <1>6 DEF Idle, Channel, TypeInv
    <3>2. run' # run
      BY <1>6, <3>1
    <3>3. ~MoveUnit
      BY <1>1, <1>6, MoveDoes
    <3> QED
      BY <3>1, <3>2, <3>3, SsrtDoes, <1>1
         DEF Next, Instruction, Pass, HostPush, OtherInstruction, Program, SetErq, ClearErq,
             Ssrt, Acknowledge, ToggleUartDma, LeavesEdma, WritesEdma, Visit, EndPass, Tick,
             vars, passVars
  <2> QED
    BY <2>1, <2>2, <2>3
<1>7. ASSUME c \in erq, c \notin erq', phase # "cpu"
      PROVE  Received % b = 0
  <2>1. EndMajorLoop
    BY <1>7, MoveDoes, <1>1
       DEF Next, Instruction, Pass, HostPush, OtherInstruction, Program, SetErq, ClearErq,
           Ssrt, Acknowledge, ToggleUartDma, LeavesEdma, WritesEdma, Visit, MoveUnit,
           EndMinorLoop, EndPass, Tick, vars, engineVars
  <2>2. run' = Idle /\ run.ch = c
    BY <1>1, <1>7, <2>1, MajorDoes
  <2> QED
    BY <1>6, <2>1, <2>2
<1> QED
  BY <1>5, <1>6, <1>7

(* Where every descriptor of a one-shot receiver disables its request, the *)
(* channel moves bytes only while enabled, is disabled by the engine on    *)
(* block boundaries only, and at each of them.                             *)
THEOREM OneShotsStop ==
  ASSUME \A s \in Setups : s.oneshot =>
           \E c \in Channel : ReceivesBlocks(s, c) /\ StopsItself(s, c)
  PROVE  Spec => OneShotStopsOnBlock
<1> DEFINE Step ==
      \A s \in Setups : InUse(s) /\ s.oneshot =>
        \A c \in s.receive :
          /\ Received' # Received => c \in erq
          /\ c \in erq /\ c \notin erq' /\ phase # "cpu" => Received % s.block = 0
          /\ run.ch = c /\ run' = Idle /\ Received % s.block = 0 => c \notin erq'
<1>1. CountInv /\ [Next]_vars => Step
  <2> SUFFICES ASSUME CountInv, [Next]_vars, NEW s \in Setups, InUse(s), s.oneshot,
                      NEW c \in s.receive
               PROVE  /\ Received' # Received => c \in erq
                      /\ c \in erq /\ c \notin erq' /\ phase # "cpu" =>
                           Received % s.block = 0
                      /\ run.ch = c /\ run' = Idle /\ Received % s.block = 0 => c \notin erq'
    OBVIOUS
  <2>1. PICK d \in Channel : ReceivesBlocks(s, d) /\ StopsItself(s, d)
    OBVIOUS
  <2>2. d = c
    BY <2>1 DEF ReceivesBlocks, Receives
  <2> QED
    BY <2>1, <2>2, OneShotStep
<1>2. CountInv /\ [Next]_vars => [Step]_vars
  BY <1>1
<1>3. Spec => []CountInv
  BY CountStart, CountStep, PTL DEF Spec
<1>4. Spec => [][Step]_vars
  BY <1>2, <1>3, PTL DEF Spec
<1> QED
  BY <1>4 DEF OneShotStopsOnBlock

(***************************************************************************)
(* What is sent                                                            *)
(***************************************************************************)

(* Nothing is sent before a program is set up.                             *)
SinkInv == FifoInv /\ (setup = None => out = <<>>)

(* Only a turn of the minor loop transmits, and only a set-up writes CTRL. *)
LEMMA OutputStays ==
  ASSUME [Next]_vars, ~MoveUnit
  PROVE  out' = out
BY DEF Next, HostPush, RxPush, Instruction, OtherInstruction, Program, SetErq, ClearErq, Ssrt,
       Acknowledge, ToggleUartDma, Pass, Visit, EndMinorLoop, EndMajorLoop, EndPass, Tick,
       vars, uartVars

LEMMA TransmitterStays ==
  ASSUME [Next]_vars, \A s \in Setups : ~Program(s)
  PROVE  ctrl' = ctrl
BY DEF Next, HostPush, RxPush, Instruction, OtherInstruction, SetErq, ClearErq, Ssrt,
       Acknowledge, ToggleUartDma, Pass, Visit, MoveUnit, Transfer, EndMinorLoop, EndMajorLoop,
       EndPass, Tick, vars, uartVars

LEMMA SinkStart == Init => SinkInv
BY FifoStart DEF SinkInv, Init, UartInit

LEMMA SinkStep == SinkInv /\ [Next]_vars => SinkInv'
<1> SUFFICES ASSUME SinkInv, [Next]_vars, setup' = None PROVE out' = <<>>
  BY FifoStep DEF SinkInv
<1>1. \A s \in Setups : ~Program(s)
  BY SetupAssumption DEF Program, IsSetup
<1>2. setup = None /\ run = Idle
  BY <1>1, SetupStays DEF SinkInv, FifoInv
<1>3. ~MoveUnit
  BY <1>2 DEF MoveUnit
<1> QED
  BY <1>2, <1>3, OutputStays DEF SinkInv

(* A channel whose descriptors send a buffer, and the turn it is at.       *)
LEMMA SendingChannel ==
  ASSUME TypeInv, NEW s \in Setups, LineInv(s), InUse(s), NEW t \in Channel, NEW b \in Ram,
         \A o \in Descriptors(s, t) : Sends(o, s, b), NEW w, w = tcd[t]
  PROVE  /\ w \in Tcd /\ w.ssize = 1 /\ w.soff = 1 /\ w.doff = 0 /\ Unit(w) = 1
         /\ w.nbytes \in Nat \ {0} /\ w.daddr = UartData
         /\ w.saddr = b + TurnsDone(w) /\ TurnsDone(w) \in Nat
         /\ TurnsDone(w) + w.nbytes <= s.block
         /\ w.citer \in 1 .. w.biter /\ w.biter * w.nbytes = s.block
         /\ Turns(w) = w.nbytes
         /\ run.ch = t =>
              /\ run.moved \in 0 .. w.nbytes
              /\ run.saddr = w.saddr + run.moved /\ run.daddr = UartData
<1>1. w \in Tcd /\ b \in Nat
  BY SizeAssumption DEF TypeInv, TypeInvariant, Ram
<1>2. PICK o \in Descriptors(s, t) : Along(o, w)
  BY DEF LineInv
<1>3. o \in Tcd /\ Sends(o, s, b)
  BY <1>2, DescriptorsAreClosed
<1>4. /\ w.ssize = 1 /\ w.dsize = 1 /\ w.soff = 1 /\ w.doff = 0
      /\ w.nbytes \in Nat \ {0} /\ w.biter * w.nbytes = s.block
      /\ w.citer \in 1 .. w.biter
      /\ w.saddr = b + TurnsDone(w) * 1 /\ w.daddr = UartData + TurnsDone(w) * 0
  BY <1>1, <1>2, <1>3, TcdIsTyped DEF Along, SameFields, Sends
<1>5. Unit(w) = 1 /\ Turns(w) = w.nbytes
  <2>1. Unit(w) = 1
    BY <1>4, LargerOf DEF Unit, Width
  <2>2. Turns(w) = (w.nbytes + 1 - 1) \div 1
    BY <2>1 DEF Turns
  <2> HIDE DEF Unit
  <2> QED
    BY <1>4, <2>1, <2>2
<1> DEFINE n == w.nbytes
           m == w.biter - w.citer
<1>6. TurnsDone(w) = m * n
  BY <1>5 DEF TurnsDone
<1>7. TurnsDone(w) \in Nat /\ TurnsDone(w) + n <= s.block
  <2>1. m \in Nat /\ w.biter \in Nat /\ m + 1 <= w.biter
    BY <1>1, <1>4, TcdIsTyped
  <2>2. n \in Nat
    BY <1>4
  <2>3. w.biter * n = s.block
    BY <1>4
  <2> HIDE DEF n, m
  <2> QED
    BY <1>6, <2>1, <2>2, <2>3, ProductIsMonotone, OneMore
<1>8. w.saddr = b + TurnsDone(w) /\ w.daddr = UartData
  BY <1>1, <1>4, <1>7 DEF UartData
<1>9. ASSUME run.ch = t
      PROVE  /\ run.moved \in 0 .. w.nbytes
             /\ run.saddr = w.saddr + run.moved /\ run.daddr = UartData
  <2>1. run # Idle
    BY <1>9 DEF Idle, Channel
  <2>2. PICK k \in 0 .. w.nbytes : UnderWay(w, k)
    BY <1>5, <1>9, <2>1 DEF LineInv
  <2>3. run.moved = k * 1 /\ run.saddr = w.saddr + k * 1 /\ run.daddr = UartData + k * 0
    BY <1>4, <1>5, <1>8, <2>2 DEF UnderWay
  <2>4. run.moved = k /\ run.daddr = UartData
    BY <2>3 DEF UartData
  <2> QED
    BY <2>3, <2>4
<1> QED
  BY <1>1, <1>4, <1>5, <1>7, <1>8, <1>9

(* A turn of a sending channel transmits the byte it is at.                *)
LEMMA TurnSends ==
  ASSUME TypeInv, NEW s \in Setups, LineInv(s), InUse(s), NEW t \in Channel, NEW b \in Ram,
         \A o \in Descriptors(s, t) : Sends(o, s, b), b + s.block <= RamSize,
         "TE" \in ctrl, MoveUnit, run.ch = t
  PROVE  /\ out' = Append(out, mem[run.saddr]) /\ mem' = mem /\ rx' = rx
         /\ run.saddr \in b .. b + s.block - 1
         /\ run'.saddr = run.saddr + 1 /\ run'.moved = run.moved + 1
         /\ run.moved < tcd[t].nbytes
<1> DEFINE w == tcd[t]
<1>1. /\ run.moved < w.nbytes /\ Transfer(w, run.saddr, run.daddr)
      /\ run'.saddr = run.saddr + w.soff /\ run'.moved = run.moved + Unit(w)
  BY MoveDoes
<1>2. /\ w \in Tcd /\ w.ssize = 1 /\ w.soff = 1 /\ Unit(w) = 1 /\ w.nbytes \in Nat
      /\ w.saddr = b + TurnsDone(w) /\ TurnsDone(w) \in Nat
      /\ TurnsDone(w) + w.nbytes <= s.block
      /\ run.moved \in 0 .. w.nbytes
      /\ run.saddr = w.saddr + run.moved /\ run.daddr = UartData
  BY SendingChannel
<1>3. b \in Nat /\ s.block \in Nat /\ RamSize \in Nat
  BY SizeAssumption, SetupAssumption DEF Ram, IsSetup
<1>4. run.saddr \in b .. b + s.block - 1
  <2> HIDE DEF w
  <2> QED
    BY <1>1, <1>2, <1>3
<1>5. run.saddr \in Ram /\ run.saddr \in Nat /\ run.saddr # UartData
  BY <1>3, <1>4 DEF Ram, UartData
<1>6. BusValue(run.saddr, 1)[0] = mem[run.saddr]
  <2>1. BusValue(run.saddr, 1) =
          [i \in 0 .. 3 |-> IF i < 1 /\ run.saddr + i \in Ram THEN mem[run.saddr + i] ELSE 0]
    BY <1>5 DEF BusValue
  <2>2. run.saddr + 0 = run.saddr /\ 0 \in 0 .. 3 /\ 0 < 1
    BY <1>5
  <2> QED
    BY <1>5, <2>1, <2>2
<1>7. out' = Append(out, mem[run.saddr]) /\ rx' = rx
  BY <1>1, <1>2, <1>5, <1>6 DEF Transfer, OutAfterWrite
<1>8. mem' = mem
  <2>1. mem' = [a \in Ram |-> mem[a]]
    BY <1>1, <1>2 DEF Transfer
  <2> QED
    BY <2>1 DEF TypeInv, TypeInvariant
<1> QED
  BY <1>1, <1>2, <1>4, <1>7, <1>8

(* A turn of a channel none of whose turns addresses DATA sends nothing.   *)
LEMMA OthersAreSilent ==
  ASSUME TypeInv, NEW s \in Setups, LineInv(s), InUse(s), MoveUnit,
         \A o \in Descriptors(s, run.ch) :
           \A j \in 0 .. o.biter * Turns(o) - 1 : o.daddr + j * o.doff # UartData
  PROVE  out' = out
<1> DEFINE t == tcd[run.ch]
<1>1. /\ run # Idle /\ run.ch \in Channel /\ t \in Tcd /\ run.moved < t.nbytes
      /\ Transfer(t, run.saddr, run.daddr) /\ run.moved \in Nat
  BY MoveDoes, RunIsTyped
<1>2. PICK o \in Descriptors(s, run.ch) : Along(o, t)
  BY <1>1 DEF LineInv
<1>3. PICK k \in 0 .. Turns(t) : UnderWay(t, k)
  BY <1>1 DEF LineInv
<1>4. o \in Tcd /\ k \in 0 .. Turns(t) - 1 /\ t.nbytes > 0
  BY <1>1, <1>2, <1>3, DescriptorsAreClosed, TurnsOfALoop, TcdIsTyped DEF UnderWay
<1> DEFINE j == TurnsDone(t) + k
<1>5. j \in 0 .. o.biter * Turns(o) - 1 /\ run.daddr = o.daddr + j * o.doff
  BY <1>1, <1>2, <1>3, <1>4, TurnOfTheLine
<1> HIDE DEF j
<1>6. run.daddr # UartData
  BY <1>5
<1> QED
  BY <1>1, <1>6 DEF Transfer

(***************************************************************************)
(* A transmitting channel                                                  *)
(***************************************************************************)

(* The next byte it sends, in run_channel or else in the descriptor.       *)
SendPlace(t) == IF run.ch = t THEN run.saddr ELSE tcd[t].saddr

(* It is where the output leaves off, and the output is the buffer, over   *)
(* and over.                                                               *)
SendInv(s, t) ==
  InUse(s) =>
    /\ "TE" \in ctrl
    /\ SendPlace(t) - s.from \in Nat
    /\ Len(out) % s.block = (SendPlace(t) - s.from) % s.block
    /\ \A i \in DOMAIN out : out[i] = mem[s.from + ((i - 1) % s.block)]

LEMMA OneTurnOfTheRing ==
  ASSUME NEW r \in Nat \ {0}
  PROVE  r % r = 0 /\ 0 % r = 0
<1>1. r = r * 1 + 0 /\ 0 = r * 0 + 0 /\ 0 \in 0 .. r - 1
  OBVIOUS
<1> QED
  BY <1>1, RemainderIsUnique

LEMMA BufferOf ==
  ASSUME NEW s \in Setups, NEW t, Transmits(s, t)
  PROVE  /\ t \in Channel /\ s.from \in Ram /\ s.from \in Nat /\ s.block \in Nat \ {0}
         /\ s.from + s.block <= RamSize /\ AllSteady(s)
         /\ \A n \in Nat : s.from + (n % s.block) \in s.from .. s.from + s.block - 1
<1>1. t \in Channel /\ AllSteady(s)
  BY DEF Transmits, AllSteady
<1>2. s.from \in Ram /\ s.from \in Nat /\ s.block \in Nat \ {0} /\ RamSize \in Nat
  BY SetupAssumption, SizeAssumption DEF IsSetup, Ram
<1>3. s.from + s.block - 1 \in Ram
  <2>1. s.from + s.block - 1 \in s.from .. s.from + s.block - 1
    BY <1>2
  <2> QED
    BY <2>1 DEF Transmits
<1>4. s.from + s.block <= RamSize
  BY <1>2, <1>3 DEF Ram
<1>5. ASSUME NEW n \in Nat
      PROVE  s.from + (n % s.block) \in s.from .. s.from + s.block - 1
  <2>1. n % s.block \in 0 .. s.block - 1
    BY <1>2, RemainderIsSmall
  <2> HIDE DEF Transmits
  <2> QED
    BY <1>2, <2>1
<1> QED
  BY <1>1, <1>2, <1>4, <1>5

(* What is true of every byte sent stays so while nothing is sent and the  *)
(* buffer stays.                                                           *)
LEMMA SendStays ==
  ASSUME TypeInv, NEW s \in Setups, NEW t, Transmits(s, t), SendInv(s, t),
         UNCHANGED <<setup, out, ctrl>>,
         InUse(s) => /\ SendPlace(t)' - s.from \in Nat
                     /\ (SendPlace(t)' - s.from) % s.block = (SendPlace(t) - s.from) % s.block
                     /\ \A a \in s.from .. s.from + s.block - 1 : mem'[a] = mem[a]
  PROVE  SendInv(s, t)'
<1> SUFFICES ASSUME InUse(s)' PROVE SendInv(s, t)'
  BY DEF SendInv
<1>1. InUse(s)
  BY DEF InUse
<1>2. ASSUME NEW i \in DOMAIN out
      PROVE  out[i] = mem'[s.from + ((i - 1) % s.block)]
  <2>1. i - 1 \in Nat
    BY DEF TypeInv, TypeInvariant
  <2> QED
    BY <1>1, <2>1, BufferOf DEF SendInv
<1> QED
  BY <1>1, <1>2 DEF SendInv

LEMMA QuietKeepsSending ==
  ASSUME TypeInv, NEW s \in Setups, NEW t, Transmits(s, t), SendInv(s, t),
         \/ UNCHANGED vars \/ HostPush \/ OtherInstruction \/ EndPass \/ Tick
         \/ \E r \in Setups : SetErq(r) \/ ClearErq(r) \/ Acknowledge(r) \/ ToggleUartDma(r)
  PROVE  SendInv(s, t)'
<1>1. UNCHANGED <<setup, out, ctrl, tcd, run, mem>>
  BY DEF vars, HostPush, RxPush, OtherInstruction, EndPass, Tick, SetErq, ClearErq, Acknowledge,
         ToggleUartDma, LeavesEdma, WritesEdma, uartVars, engineVars, passVars, driverVars
<1>2. SendPlace(t)' = SendPlace(t)
  BY <1>1 DEF SendPlace
<1> QED
  BY <1>1, <1>2, SendStays DEF SendInv

LEMMA ProgramKeepsSending ==
  ASSUME SinkInv, NEW s \in Setups, NEW t, Transmits(s, t), NEW r \in Setups, Program(r)
  PROVE  SendInv(s, t)'
<1> SUFFICES ASSUME InUse(s)' PROVE SendInv(s, t)'
  BY DEF SendInv
<1>1. r = s /\ setup = None /\ t \in Channel /\ s.from \in Nat /\ s.block \in Nat \ {0}
  BY SetupAssumption, BufferOf DEF Program, InUse
<1>2. run = Idle /\ out = <<>>
  BY <1>1 DEF SinkInv, FifoInv
<1>3. tcd'[t] = TcdOf(s, t) /\ run' = Idle /\ out' = <<>> /\ ctrl' = {"TE"}
  BY <1>1, <1>2 DEF Program, WritesEdma
<1>4. TcdOf(s, t).saddr = s.from
  BY <1>1, DescriptorsAreClosed DEF Transmits, Sends
<1>5. SendPlace(t)' = s.from
  BY <1>1, <1>3, <1>4 DEF SendPlace, Idle, Channel
<1>6. SendPlace(t)' - s.from = 0 /\ Len(out') = 0 /\ DOMAIN out' = {}
  BY <1>1, <1>3, <1>5
<1> QED
  BY <1>3, <1>6 DEF SendInv

LEMMA StartsKeepSending ==
  ASSUME TypeInv, NEW s \in Setups, NEW t, Transmits(s, t), SendInv(s, t),
         Visit \/ \E r \in Setups : Ssrt(r)
  PROVE  SendInv(s, t)'
<1>1. t \in Channel
  BY DEF Transmits
<1>2. UNCHANGED <<setup, out, ctrl, mem>>
  BY DEF Visit, Ssrt, uartVars, driverVars
<1>3. SendPlace(t)' = SendPlace(t)
  <2>1. CASE Visit
    <3>1. PICK d \in Channel :
            /\ SameButStatus(tcd[d], tcd'[d]) /\ \A e \in Channel : e # d => tcd'[e] = tcd[e]
            /\ run = Idle /\ run'.ch = d /\ run'.saddr = tcd[d].saddr
      BY <2>1, VisitDoes
    <3> QED
      BY <1>1, <3>1 DEF SendPlace, SameButStatus, Idle, Channel
  <2>2. ASSUME NEW r \in Setups, Ssrt(r)
        PROVE  SendPlace(t)' = SendPlace(t)
    <3>1. PICK d \in Channel :
            /\ SameButStatus(tcd[d], tcd'[d]) /\ \A e \in Channel : e # d => tcd'[e] = tcd[e]
            /\ run' = run
      BY <2>2, SsrtDoes
    <3> QED
      BY <1>1, <3>1 DEF SendPlace, SameButStatus
  <2> QED
    BY <2>1, <2>2
<1> QED
  BY <1>2, <1>3, SendStays DEF SendInv

LEMMA MoveKeepsSending ==
  ASSUME TypeInv, NEW s \in Setups, NEW t, Transmits(s, t), LineInv(s), SendInv(s, t), MoveUnit
  PROVE  SendInv(s, t)'
<1>1. /\ run.ch \in Channel /\ run'.ch = run.ch /\ UNCHANGED <<tcd, setup>>
      /\ UNCHANGED ctrl
  BY MoveDoes DEF engineVars, driverVars, Transfer
<1> SUFFICES ASSUME InUse(s)' PROVE SendInv(s, t)'
  BY DEF SendInv
<1>2. InUse(s)
  BY <1>1 DEF InUse
<1>3. /\ t \in Channel /\ s.from \in Ram /\ s.from \in Nat /\ s.block \in Nat \ {0}
      /\ s.from + s.block <= RamSize
      /\ \A o \in Descriptors(s, t) : Sends(o, s, s.from)
  BY BufferOf DEF Transmits
<1>4. CASE run.ch = t
  <2>1. /\ out' = Append(out, mem[run.saddr]) /\ mem' = mem
        /\ run.saddr \in s.from .. s.from + s.block - 1 /\ run'.saddr = run.saddr + 1
    BY <1>2, <1>3, <1>4, TurnSends DEF SendInv
  <2> DEFINE x == run.saddr - s.from
             n == Len(out)
  <2>2. SendPlace(t) = run.saddr /\ SendPlace(t)' = run.saddr + 1
    BY <1>1, <1>4, <2>1 DEF SendPlace
  <2>3. /\ out \in Seq(Byte) /\ n \in Nat /\ Len(out') = n + 1
        /\ mem[run.saddr] = mem[s.from + x]
        /\ out'[n + 1] = mem[run.saddr] /\ \A i \in 1 .. n : out'[i] = out[i]
        /\ DOMAIN out = 1 .. n /\ DOMAIN out' = 1 .. n + 1
    <3>1. out \in Seq(Byte) /\ run.saddr = s.from + x
      BY <1>3, <2>1 DEF TypeInv, TypeInvariant
    <3>2. mem[run.saddr] \in Byte
      <4>1. run.saddr \in Ram
        BY <1>3, <2>1, SizeAssumption DEF Ram
      <4> QED
        BY <4>1 DEF TypeInv, TypeInvariant
    <3> HIDE DEF x
    <3> QED
      BY <2>1, <3>1, <3>2
  <2>4. x \in 0 .. s.block - 1 /\ (run.saddr + 1) - s.from = x + 1
    BY <1>3, <2>1
  <2>5. n % s.block = x % s.block
    BY <1>2, <2>2 DEF SendInv
  <2> HIDE DEF x, n
  <2>6. (n + 1) % s.block = (x + 1) % s.block /\ n % s.block = x
    <3>1. n \in Nat /\ x \in Nat /\ s.block \in Nat \ {0}
      BY <1>3, <2>3, <2>4
    <3>2. x % s.block = x
      BY <2>4, <3>1, RemainderIsSmall, Zenon
    <3>3. (n + 1) % s.block = (x + 1) % s.block
      BY <2>5, <3>1, RemaindersGrow, Zenon
    <3> QED
      BY <2>5, <3>2, <3>3
  <2>7. ASSUME NEW i \in DOMAIN out'
        PROVE  out'[i] = mem'[s.from + ((i - 1) % s.block)]
    <3>1. CASE i = n + 1
      <4>1. i - 1 = n
        BY <2>3, <3>1
      <4> QED
        BY <2>1, <2>3, <2>6, <3>1, <4>1
    <3>2. CASE i # n + 1
      <4>1. i \in 1 .. n
        BY <2>3, <3>2
      <4> QED
        BY <1>2, <2>1, <2>3, <4>1 DEF SendInv
    <3> QED
      BY <3>1, <3>2
  <2>8. "TE" \in ctrl' /\ x + 1 \in Nat
    BY <1>1, <1>2, <2>4 DEF SendInv
  <2> QED
    BY <2>2, <2>3, <2>4, <2>6, <2>7, <2>8 DEF SendInv
<1>5. CASE run.ch # t
  <2>1. out' = out
    BY <1>1, <1>2, <1>5, OthersAreSilent DEF Transmits
  <2>2. ASSUME NEW a \in s.from .. s.from + s.block - 1
        PROVE  mem'[a] = mem[a]
    <3>1. a \in Ram
      BY <1>3, SizeAssumption DEF Ram
    <3>2. \A o \in Descriptors(s, run.ch) : a \notin Footprint(o)
      BY <1>1, <1>5 DEF Transmits
    <3> QED
      BY <1>2, <3>1, <3>2, TurnStaysInFootprint
  <2>3. SendPlace(t)' = SendPlace(t)
    BY <1>1, <1>5 DEF SendPlace
  <2> QED
    BY <1>1, <1>2, <2>1, <2>2, <2>3, SendStays DEF SendInv
<1> QED
  BY <1>4, <1>5

LEMMA MinorKeepsSending ==
  ASSUME TypeInv, NEW s \in Setups, NEW t, Transmits(s, t), SendInv(s, t), EndMinorLoop
  PROVE  SendInv(s, t)'
<1>1. t \in Channel
  BY DEF Transmits
<1> DEFINE d == run.ch
<1>2. /\ d \in Channel /\ tcd'[d].saddr = run.saddr
      /\ \A e \in Channel : e # d => tcd'[e] = tcd[e]
      /\ run' = Idle /\ UNCHANGED <<setup, out, ctrl, mem>>
  <2>1. /\ d \in Channel /\ tcd[d] \in Tcd
        /\ tcd'[d] = [tcd[d] EXCEPT !.saddr = run.saddr, !.daddr = run.daddr,
                                    !.citer = NextCiter(tcd[d].citer)]
        /\ \A e \in Channel : e # d => tcd'[e] = tcd[e]
        /\ run' = Idle /\ UNCHANGED <<uartVars, driverVars, mem>>
    BY MinorDoes
  <2> HIDE DEF d
  <2> QED
    BY <2>1 DEF Tcd, uartVars, driverVars
<1>3. SendPlace(t)' = SendPlace(t)
  BY <1>1, <1>2 DEF SendPlace, Idle, Channel
<1> QED
  BY <1>2, <1>3, SendStays DEF SendInv

(* At the end of the major loop of a sending channel its buffer is sent,   *)
(* and what it goes on with begins at the buffer.                          *)
LEMMA SendEnds ==
  ASSUME TypeInv, NEW s \in Setups, AllSteady(s), LineInv(s), InUse(s),
         NEW t \in Channel, NEW b \in Ram,
         \A o \in Descriptors(s, t) : Sends(o, s, b), EndMajorLoop, run.ch = t
  PROVE  run.saddr = b + s.block /\ tcd'[t].saddr = b
<1> DEFINE w == tcd[t]
           v == tcd'[t]
<1>1. /\ run # Idle /\ w \in Tcd /\ run.moved >= w.nbytes /\ NextCiter(w.citer) = 0
      /\ v = Reloaded(t) /\ Reloaded(t) \in Tcd
  BY MajorDoes
<1>2. PICK o \in Descriptors(s, t) : Along(o, w)
  BY DEF LineInv
<1>3. o \in Tcd /\ Sends(o, s, b) /\ Steady(o) /\ UnderWay(w, Turns(w))
  BY <1>1, <1>2, DescriptorsAreClosed, LoopIsOver DEF AllSteady
<1>4. /\ w.ssize = 1 /\ w.soff = 1 /\ Turns(w) = w.nbytes /\ w.nbytes \in Nat \ {0}
      /\ w.citer \in 1 .. w.biter /\ w.biter * w.nbytes = s.block
      /\ w.saddr = b + TurnsDone(w) /\ TurnsDone(w) \in Nat
  BY SendingChannel
<1>5. w.citer = 1
  BY <1>1, <1>4 DEF NextCiter
<1>6. run.saddr = b + s.block
  <2>1. run.saddr = o.saddr + ((w.biter - (w.citer - 1)) * Turns(w)) * w.soff
    BY <1>1, <1>2, <1>3, <1>4, MinorLoopEnds
  <2>2. w.biter - (1 - 1) = w.biter /\ b \in Nat /\ s.block \in Nat
    BY <1>1, TcdIsTyped, SetupAssumption, SizeAssumption DEF IsSetup, Ram
  <2> HIDE DEF w
  <2>3. run.saddr = b + s.block * 1
    BY <1>3, <1>4, <1>5, <2>1, <2>2 DEF Sends
  <2> QED
    BY <2>2, <2>3
<1>7. v.saddr = b
  <2>1. CASE "ESG" \in w.csr
    <3>1. Reloaded(t) = Loaded(o) /\ "ESG" \in o.csr
      BY <1>2, <2>1 DEF Reloaded, Loaded, Along, SameFields
    <3> QED
      BY <1>1, <3>1, DescriptorsAreClosed DEF Sends
  <2>2. CASE "ESG" \notin w.csr
    <3>1. v = [w EXCEPT !.saddr = run.saddr + w.slast, !.daddr = run.daddr + w.dlast,
                        !.citer = w.biter, !.csr = @ \union {"DONE"}]
      BY <1>1, <2>2 DEF Reloaded
    <3>2. v \in Tcd /\ w.nbytes > 0
      BY <1>1, <1>4
    <3> HIDE DEF w, v
    <3>3. v.saddr = o.saddr
      BY <1>1, <1>2, <1>3, <2>2, <3>1, <3>2, MajorLoopWindsBack, ZenonT(60)
    <3> QED
      BY <1>3, <3>3 DEF Sends
  <2> QED
    BY <2>1, <2>2
<1> QED
  BY <1>6, <1>7

LEMMA MajorKeepsSending ==
  ASSUME TypeInv, NEW s \in Setups, NEW t, Transmits(s, t), LineInv(s), SendInv(s, t),
         EndMajorLoop
  PROVE  SendInv(s, t)'
<1> DEFINE d == run.ch
<1>1. /\ d \in Channel
      /\ \A e \in Channel : e # d => SameButStatus(tcd[e], tcd'[e])
      /\ run' = Idle /\ UNCHANGED <<uartVars, driverVars, mem>>
  BY MajorDoes
<1>2. UNCHANGED <<setup, out, ctrl, mem>>
  BY <1>1 DEF uartVars, driverVars
<1>3. /\ t \in Channel /\ s.from \in Ram /\ s.from \in Nat /\ s.block \in Nat \ {0} /\ AllSteady(s)
      /\ \A o \in Descriptors(s, t) : Sends(o, s, s.from)
  BY BufferOf DEF Transmits
<1>4. SendPlace(t)' = tcd'[t].saddr
  BY <1>1, <1>3 DEF SendPlace, Idle, Channel
<1>5. CASE t # d
  <2>1. SendPlace(t)' = SendPlace(t)
    BY <1>1, <1>3, <1>4, <1>5 DEF SendPlace, SameButStatus
  <2> QED
    BY <1>2, <2>1, SendStays DEF SendInv
<1>6. ASSUME t = d, InUse(s)
      PROVE  /\ SendPlace(t)' - s.from \in Nat
             /\ (SendPlace(t)' - s.from) % s.block = (SendPlace(t) - s.from) % s.block
  <2>1. run.saddr = s.from + s.block /\ tcd'[t].saddr = s.from
    BY <1>3, <1>6, SendEnds
  <2>2. SendPlace(t) - s.from = s.block /\ SendPlace(t)' - s.from = 0
    BY <1>3, <1>4, <1>6, <2>1 DEF SendPlace
  <2>3. s.block % s.block = 0 /\ 0 % s.block = 0
    BY <1>3, OneTurnOfTheRing
  <2> QED
    BY <2>2, <2>3
<1> QED
  BY <1>2, <1>5, <1>6, SendStays

LEMMA SendStep ==
  ASSUME SinkInv, NEW s \in Setups, NEW t, Transmits(s, t), LineInv(s), SendInv(s, t),
         [Next]_vars
  PROVE  SendInv(s, t)'
<1>1. TypeInv
  BY DEF SinkInv, FifoInv
<1> QED
  BY <1>1, QuietKeepsSending, ProgramKeepsSending, StartsKeepSending, MoveKeepsSending,
     MinorKeepsSending, MajorKeepsSending DEF Next, Instruction, Pass

(***************************************************************************)
(* A chain of links: receive, copy, transmit                               *)
(***************************************************************************)

(* The bytes of the complete major loops.                                  *)
Base(s, c) == Received - Taken(s, c)

(* The echo is the bytes the host has sent, in order; the channels of the  *)
(* chain are the only ones that run, and only c listens to a request.      *)
ChainRuns(c, k, t) ==
  /\ "TE" \in ctrl
  /\ \A d \in Channel : d # c => chcfg[d] = "None"
  /\ requests \subseteq {c}
  /\ \A d \in Channel : d \notin {k, t} => "START" \notin tcd[d].csr
  /\ run # Idle => run.ch \in {c, k, t} /\ at = run.ch + 1
  /\ \A i \in DOMAIN out : out[i] = i

(* Every complete block has been sent.                                     *)
Echoed(s, c, k, t) ==
  /\ run.ch \notin {k, t} /\ "START" \notin tcd[k].csr /\ "START" \notin tcd[t].csr
  /\ Len(out) = Base(s, c)
  /\ tcd[k].saddr = Base(s, c) % s.ring

(* The channel d is next in this pass, which is past c; c is between two   *)
(* blocks.                                                                 *)
LinkPending(s, c, d) ==
  /\ InPass /\ c < at /\ Taken(s, c) = 0 /\ run.ch # c
  /\ IF run.ch = d THEN "START" \notin tcd[d].csr
     ELSE run = Idle /\ "START" \in tcd[d].csr /\ at <= d

(* The latest block is copied: below the place k is at, the buffer has it. *)
Copying(s, c, k, t, b) ==
  /\ LinkPending(s, c, k) /\ "START" \notin tcd[t].csr
  /\ Len(out) = Base(s, c) - s.block
  /\ tcd[k].saddr = (Base(s, c) - s.block) % s.ring
  /\ run.ch = k =>
       \A i \in 0 .. s.block - 1 :
         b + i < run.daddr => mem[b + i] = Base(s, c) - s.block + i + 1

(* The latest block is in the buffer, and sent as far as t has moved.      *)
Sending(s, c, k, t, b) ==
  /\ LinkPending(s, c, t) /\ "START" \notin tcd[k].csr
  /\ Len(out) = Base(s, c) - s.block + (IF run.ch = t THEN run.moved ELSE 0)
  /\ tcd[k].saddr = Base(s, c) % s.ring
  /\ \A i \in 0 .. s.block - 1 : mem[b + i] = Base(s, c) - s.block + i + 1

EchoInv(s, c, k, t, b) ==
  InUse(s) =>
    /\ ChainRuns(c, k, t)
    /\ Echoed(s, c, k, t) \/ Copying(s, c, k, t, b) \/ Sending(s, c, k, t, b)

LEMMA ChannelsOfTheChain ==
  ASSUME NEW s \in Setups, NEW c, NEW k, NEW t, NEW b, Echoes(s, c, k, t, b)
  PROVE  /\ c \in Channel /\ k \in Channel /\ t \in Channel
         /\ c \in Nat /\ k \in Nat /\ t \in Nat /\ c < k /\ k < t
         /\ b \in Ram /\ b \in Nat /\ s.block \in Nat \ {0} /\ s.ring \in Nat \ {0}
         /\ s.ring <= b /\ b + s.block <= RamSize /\ s.block <= s.ring /\ s.ring <= RamSize
         /\ AllSteady(s) /\ ReceivesBlocks(s, c) /\ Receives(s, c)
         /\ \A o \in Descriptors(s, t) : Sends(o, s, b)
         /\ \A d \in Channel : \A o \in Descriptors(s, d) : "START" \notin o.csr
<1>1. ReceivesBlocks(s, c) /\ Receives(s, c) /\ AllSteady(s)
  BY DEF Echoes, ReceivesBlocks, Receives, AllSteady
<1>2. c \in Channel /\ k \in Channel /\ t \in Channel /\ b \in Ram /\ c < k /\ k < t
  BY <1>1 DEF Echoes, Receives
<1>3. s.block \in Nat \ {0} /\ s.ring \in Nat \ {0} /\ s.ring <= RamSize
  BY <1>1, SetupAssumption, SizeAssumption DEF Receives, IsSetup
<1>4. TcdOf(s, k).saddr = 0 /\ TcdOf(s, k).saddr + s.block <= s.ring
  BY <1>2, DescriptorsAreClosed DEF Echoes
<1>5. s.ring <= b /\ b + s.block <= RamSize
  BY DEF Echoes
<1>6. /\ \A o \in Descriptors(s, t) : Sends(o, s, b)
      /\ \A d \in Channel : \A o \in Descriptors(s, d) : "START" \notin o.csr
  BY DEF Echoes
<1> QED
  BY <1>1, <1>2, <1>3, <1>4, <1>5, <1>6 DEF Channel, Ram

LEMMA BaseIsTyped ==
  ASSUME TypeInv, NEW s \in Setups, NEW c, ReceivesBlocks(s, c), LineInv(s), InUse(s)
  PROVE  /\ Received \in Nat /\ Taken(s, c) \in Nat /\ Base(s, c) \in Int
         /\ Received = Base(s, c) + Taken(s, c)
<1>1. /\ s.block \in Nat /\ tcd[c].citer \in 1 .. s.block
      /\ run.ch = c => run.moved \in {0, 1}
  BY ReceivingBlocks
<1>2. Taken(s, c) \in Nat
  BY <1>1 DEF Taken
<1>3. Received \in Nat
  BY FifoIsTyped
<1> QED
  BY <1>2, <1>3 DEF Base

(* The copying channel of the chain: one minor loop is its whole block.    *)
LEMMA CopyingLink ==
  ASSUME TypeInv, NEW s \in Setups, LineInv(s), InUse(s),
         NEW c, NEW k, NEW t, NEW b, Echoes(s, c, k, t, b), NEW w, w = tcd[k]
  PROVE  /\ w \in Tcd /\ w.ssize \in Width /\ w.dsize = w.ssize
         /\ w.soff = w.ssize /\ w.doff = w.ssize /\ Unit(w) = w.ssize
         /\ w.nbytes = s.block /\ w.biter = 1 /\ w.citer = 1
         /\ w.daddr = b /\ w.saddr \in Nat /\ w.saddr + s.block <= s.ring
         /\ "MAJORELINK" \in w.csr /\ w.linkch = t
         /\ \E o \in Descriptors(s, k) : Along(o, w) /\ o.saddr = w.saddr
         /\ run.ch = k =>
              /\ run.moved \in 0 .. s.block
              /\ run.saddr = w.saddr + run.moved /\ run.daddr = b + run.moved
              /\ run.moved < s.block => run.moved + w.ssize <= s.block
<1>1. w \in Tcd /\ k \in Channel /\ b \in Nat /\ s.block \in Nat \ {0}
  BY ChannelsOfTheChain DEF TypeInv, TypeInvariant
<1>2. PICK o \in Descriptors(s, k) : Along(o, w)
  BY <1>1 DEF LineInv
<1>3. /\ o \in Tcd /\ {o.soff, o.doff, o.dsize} = {o.ssize} /\ s.block % o.ssize = 0
      /\ o.nbytes = s.block /\ o.biter = 1 /\ o.daddr = b
      /\ o.saddr \in Nat /\ o.saddr + s.block <= s.ring
      /\ "MAJORELINK" \in o.csr /\ o.linkch = t
  BY <1>1, <1>2, DescriptorsAreClosed DEF Echoes
<1>4. o.soff = o.ssize /\ o.doff = o.ssize /\ o.dsize = o.ssize
  BY <1>3
<1>5. /\ w.soff = w.ssize /\ w.doff = w.ssize /\ w.dsize = w.ssize /\ w.ssize = o.ssize
      /\ w.nbytes = s.block /\ w.biter = 1 /\ w.linkch = t /\ "MAJORELINK" \in w.csr
      /\ w.citer \in 1 .. 1
      /\ w.saddr = o.saddr + TurnsDone(w) * w.soff
      /\ w.daddr = o.daddr + TurnsDone(w) * w.doff
  BY <1>1, <1>2, <1>3, <1>4 DEF Along, SameFields
<1>6. w.ssize \in Width /\ w.ssize \in Nat \ {0}
  BY <1>1, TcdIsTyped DEF Width
<1>7. Unit(w) = w.ssize
  BY <1>5, <1>6, LargerOf DEF Unit
<1>8. Turns(w) * w.ssize = s.block /\ Turns(w) \in Nat
  BY <1>1, <1>3, <1>5, <1>7, WholeTurns, TurnsOfALoop
<1>9. TurnsDone(w) = 0
  <2>1. TurnsDone(w) = (1 - 1) * Turns(w)
    BY <1>5 DEF TurnsDone
  <2> HIDE DEF TurnsDone
  <2> QED
    BY <1>8, <2>1
<1>10. w.saddr = o.saddr /\ w.daddr = b
  <2>1. w.saddr = o.saddr + 0 * w.ssize /\ w.daddr = b + 0 * w.ssize
    BY <1>3, <1>5, <1>9
  <2> QED
    BY <1>1, <1>3, <1>6, <2>1
<1>11. ASSUME run.ch = k
       PROVE  /\ run.moved \in 0 .. s.block
              /\ run.saddr = w.saddr + run.moved /\ run.daddr = b + run.moved
              /\ run.moved < s.block => run.moved + w.ssize <= s.block
  <2>1. run # Idle
    BY <1>1, <1>11 DEF Idle, Channel
  <2>2. PICK j \in 0 .. Turns(w) : UnderWay(w, j)
    BY <1>11, <2>1 DEF LineInv
  <2> DEFINE x == w.ssize
             T == Turns(w)
             y == j * x
  <2>3. run.moved = y /\ run.saddr = w.saddr + y /\ run.daddr = b + y
    BY <1>5, <1>7, <1>10, <2>2 DEF UnderWay
  <2>4. j \in Nat /\ T \in Nat /\ j <= T /\ x \in Nat /\ T * x = s.block
    BY <1>6, <1>8
  <2> HIDE DEF x, T
  <2>5. y \in Nat /\ y <= s.block
    BY <2>4, ProductIsMonotone
  <2>6. y < s.block => y + x <= s.block
    <3>1. CASE j = T
      BY <2>4, <3>1
    <3>2. CASE j # T
      <4>1. j + 1 \in Nat /\ j + 1 <= T
        BY <2>4, <3>2
      <4>2. (j + 1) * x <= T * x /\ (j + 1) * x = j * x + x
        BY <2>4, <4>1, ProductIsMonotone, OneMore
      <4> QED
        BY <2>4, <4>2
    <3> QED
      BY <3>1, <3>2
  <2> HIDE DEF y
  <2> QED
    BY <1>1, <2>3, <2>5, <2>6 DEF x
<1> QED
  BY <1>1, <1>2, <1>3, <1>5, <1>6, <1>7, <1>10, <1>11

(* The sending channel of the chain is at the beginning of its buffer.     *)
LEMMA SendsOnce ==
  ASSUME TypeInv, NEW s \in Setups, LineInv(s), InUse(s),
         NEW c, NEW k, NEW t, NEW b, Echoes(s, c, k, t, b)
  PROVE  /\ TurnsDone(tcd[t]) = 0 /\ tcd[t].biter = 1 /\ tcd[t].citer = 1
         /\ tcd[t].nbytes = s.block /\ "MAJORELINK" \notin tcd[t].csr
<1> DEFINE w == tcd[t]
<1>1. /\ t \in Channel /\ b \in Ram /\ w \in Tcd
      /\ \A o \in Descriptors(s, t) : Sends(o, s, b)
  BY ChannelsOfTheChain DEF TypeInv, TypeInvariant
<1>2. PICK o \in Descriptors(s, t) : Along(o, w)
  BY <1>1 DEF LineInv
<1>3. w.biter = 1 /\ "MAJORELINK" \notin w.csr
  BY <1>2 DEF Along, SameFields, Echoes
<1>4. /\ w.citer \in 1 .. w.biter /\ w.biter * w.nbytes = s.block /\ w.nbytes \in Nat
      /\ Turns(w) = w.nbytes
  BY <1>1, SendingChannel
<1>5. w.citer = 1 /\ w.nbytes = s.block
  BY <1>3, <1>4
<1>6. TurnsDone(w) = (1 - 1) * w.nbytes
  BY <1>3, <1>4, <1>5 DEF TurnsDone
<1> QED
  BY <1>3, <1>4, <1>5, <1>6

(* No link is pending outside a pass.                                      *)
LEMMA EchoedAtRest ==
  ASSUME TypeInv, NEW s \in Setups, NEW c, NEW k, NEW t, NEW b, Echoes(s, c, k, t, b),
         InUse(s), EchoInv(s, c, k, t, b), ~InPass \/ EndPass
  PROVE  Echoed(s, c, k, t)
<1> SUFFICES ASSUME NEW d \in {k, t}, LinkPending(s, c, d) PROVE FALSE
  BY DEF EchoInv, Copying, Sending
<1>1. d \in Channel
  BY ChannelsOfTheChain
<1>2. EndPass
  BY DEF LinkPending
<1>3. run = Idle /\ run.ch # d /\ \A e \in at .. MaxChannel : ~Due(e)
  BY <1>1, <1>2 DEF EndPass, Idle, Channel
<1>4. "START" \in tcd[d].csr /\ d \in at .. MaxChannel
  BY <1>1, <1>3, SizeAssumption DEF LinkPending, TypeInv, TypeInvariant, Channel
<1> QED
  BY <1>3, <1>4 DEF Due

LEMMA EchoedStays ==
  ASSUME NEW s, NEW c, NEW k, NEW t, Echoed(s, c, k, t),
         run'.ch \notin {k, t}, UNCHANGED <<out, tcd>>, Base(s, c)' = Base(s, c)
  PROVE  Echoed(s, c, k, t)'
BY DEF Echoed

LEMMA QuietKeepsEcho ==
  ASSUME FifoInv, NEW s \in Setups, NEW c, NEW k, NEW t, NEW b, Echoes(s, c, k, t, b),
         EchoInv(s, c, k, t, b),
         \/ HostPush \/ OtherInstruction \/ EndPass \/ Tick
         \/ \E r \in Setups : SetErq(r) \/ ClearErq(r) \/ Acknowledge(r) \/ ToggleUartDma(r)
  PROVE  EchoInv(s, c, k, t, b)'
<1> SUFFICES ASSUME InUse(s)' PROVE EchoInv(s, c, k, t, b)'
  BY DEF EchoInv
<1>1. /\ UNCHANGED <<setup, out, ctrl, tcd, run, chcfg>>
      /\ ~InPass \/ EndPass
      /\ HostPush \/ UNCHANGED <<rx, pushed>>
      /\ requests' = requests \/ requests' = {} \/ Tick
  BY DEF HostPush, RxPush, OtherInstruction, EndPass, Tick, SetErq, ClearErq, Acknowledge,
         ToggleUartDma, LeavesEdma, WritesEdma, uartVars, engineVars, passVars, driverVars,
         InPass
<1>2. InUse(s) /\ TypeInv
  BY <1>1 DEF InUse, FifoInv
<1>3. Echoed(s, c, k, t) /\ ChainRuns(c, k, t)
  BY <1>1, <1>2, EchoedAtRest DEF EchoInv
<1>4. run = Idle /\ run' = Idle
  BY <1>1, <1>2 DEF TypeInv, EndPass
<1>5. Received' = Received
  BY <1>1, PushDoes DEF Received
<1>6. Base(s, c)' = Base(s, c)
  BY <1>1, <1>5 DEF Base, Taken
<1>7. Echoed(s, c, k, t)'
  BY <1>1, <1>3, <1>6, EchoedStays DEF Echoed
<1>8. requests' \subseteq {c}
  <2>1. CASE Tick
    BY <1>3, <2>1 DEF Tick, RequestLevel, ChainRuns
  <2> QED
    BY <1>1, <1>3, <2>1 DEF ChainRuns
<1>9. ChainRuns(c, k, t)'
  BY <1>1, <1>3, <1>4, <1>8 DEF ChainRuns
<1> QED
  BY <1>7, <1>9 DEF EchoInv

LEMMA ProgramKeepsEcho ==
  ASSUME SinkInv, NEW s \in Setups, NEW c, NEW k, NEW t, NEW b, Echoes(s, c, k, t, b),
         NEW r \in Setups, Program(r)
  PROVE  EchoInv(s, c, k, t, b)'
<1> SUFFICES ASSUME InUse(s)' PROVE EchoInv(s, c, k, t, b)'
  BY DEF EchoInv
<1>1. r = s /\ setup = None
  BY SetupAssumption DEF Program, InUse
<1>2. /\ c \in Channel /\ k \in Channel /\ t \in Channel
      /\ s.block \in Nat \ {0} /\ s.ring \in Nat \ {0} /\ ReceivesBlocks(s, c)
      /\ \A d \in Channel : \A o \in Descriptors(s, d) : "START" \notin o.csr
  BY ChannelsOfTheChain
<1>3. run = Idle /\ out = <<>> /\ Received = 0
  BY <1>1 DEF SinkInv, FifoInv
<1>4. /\ \A d \in Channel : tcd'[d] = TcdOf(s, d)
      /\ run' = Idle /\ out' = <<>> /\ ctrl' = {"TE"} /\ Received' = 0
      /\ \A d \in Channel : d # c => chcfg'[d] = "None"
  BY <1>1, <1>3 DEF Program, WritesEdma, Received, Echoes
<1>5. requests' = {}
  BY DEF Program, WritesEdma, SinkInv, FifoInv, TypeInv
<1>6. Base(s, c)' = 0
  <2>1. tcd'[c].citer = s.block
    BY <1>2, <1>4, DescriptorsAreClosed DEF ReceivesBlocks, Receives, Steady
  <2>2. Taken(s, c)' = (s.block - s.block) + 0
    BY <1>2, <1>4, <2>1 DEF Taken, Idle, Channel
  <2> QED
    BY <1>2, <1>4, <2>2 DEF Base
<1>7. \A d \in Channel : "START" \notin tcd'[d].csr
  BY <1>2, <1>4, DescriptorsAreClosed
<1>8. tcd'[k].saddr = 0 % s.ring
  BY <1>2, <1>4, OneTurnOfTheRing DEF Echoes
<1>9. Len(out') = 0 /\ DOMAIN out' = {}
  BY <1>4
<1>10. Echoed(s, c, k, t)'
  BY <1>2, <1>4, <1>6, <1>7, <1>8, <1>9 DEF Echoed, Idle, Channel
<1>11. ChainRuns(c, k, t)'
  BY <1>4, <1>5, <1>7, <1>9 DEF ChainRuns
<1> QED
  BY <1>10, <1>11 DEF EchoInv

(* A visit finds the receiving channel while nothing is pending, and the   *)
(* channel of the link while one is.                                       *)
LEMMA VisitKeepsEcho ==
  ASSUME FifoInv, NEW s \in Setups, NEW c, NEW k, NEW t, NEW b, Echoes(s, c, k, t, b),
         LineInv(s), EchoInv(s, c, k, t, b), Visit
  PROVE  EchoInv(s, c, k, t, b)'
<1>1. TypeInv
  BY DEF FifoInv
<1>2. PICK d \in Channel :
        /\ d >= at /\ Due(d) /\ InPass /\ run = Idle /\ at' = d + 1
        /\ tcd'[d].csr = tcd[d].csr \ {"START", "DONE"}
        /\ SameButStatus(tcd[d], tcd'[d])
        /\ \A e \in Channel : e # d => tcd'[e] = tcd[e]
        /\ run' # Idle /\ run'.ch = d /\ run'.moved = 0
        /\ run'.saddr = tcd[d].saddr /\ run'.daddr = tcd[d].daddr
        /\ UNCHANGED <<uartVars, erq, int_req, phase, requests, driverVars, mem>>
  BY <1>1, VisitDoes
<1>3. /\ UNCHANGED <<setup, ctrl, chcfg, requests, mem, out, phase>> /\ Received' = Received
  BY <1>2 DEF uartVars, driverVars, Received
<1> SUFFICES ASSUME InUse(s)' PROVE EchoInv(s, c, k, t, b)'
  BY DEF EchoInv
<1>4. InUse(s) /\ ChainRuns(c, k, t)
  BY <1>3 DEF InUse, EchoInv
<1>5. /\ c \in Channel /\ k \in Channel /\ t \in Channel /\ c \in Nat /\ k \in Nat /\ t \in Nat
      /\ c < k /\ k < t /\ ReceivesBlocks(s, c)
      /\ s.block \in Nat \ {0} /\ b \in Nat
  BY ChannelsOfTheChain
<1>6. Taken(s, c)' = Taken(s, c) /\ Base(s, c)' = Base(s, c)
  <2>1. tcd'[c].citer = tcd[c].citer
    BY <1>2, <1>5 DEF SameButStatus
  <2>2. Taken(s, c)' = Taken(s, c)
    BY <1>2, <1>5, <2>1 DEF Taken, Idle, Channel
  <2> QED
    BY <1>3, <2>2 DEF Base
<1>7. tcd'[k].saddr = tcd[k].saddr
  BY <1>2, <1>5 DEF SameButStatus
<1>8. "START" \in tcd[d].csr \/ d = c
  BY <1>2, <1>4 DEF Due, ChainRuns
<1>9. \A e \in Channel : "START" \in tcd'[e].csr => "START" \in tcd[e].csr /\ e # d
  BY <1>2
<1>10. d \in {c, k, t} => ChainRuns(c, k, t)'
  BY <1>2, <1>3, <1>4, <1>9 DEF ChainRuns
<1>11. CASE Echoed(s, c, k, t)
  <2>1. d = c
    BY <1>4, <1>8, <1>11 DEF Echoed, ChainRuns
  <2>2. Echoed(s, c, k, t)'
    BY <1>2, <1>3, <1>5, <1>6, <1>7, <1>9, <1>11, <2>1 DEF Echoed
  <2> QED
    BY <1>10, <2>1, <2>2 DEF EchoInv
<1>12. ASSUME NEW e \in {k, t}, LinkPending(s, c, e),
              \A f \in {k, t} : f # e => "START" \notin tcd[f].csr
       PROVE  d = e /\ LinkPending(s, c, e)'
  <2>1. d # c
    <3>1. at \in Nat /\ c < at
      BY <1>1, <1>12, SizeAssumption DEF LinkPending, TypeInv, TypeInvariant
    <3> QED
      BY <1>2, <1>5, <3>1
  <2>2. d = e
    BY <1>4, <1>8, <1>12, <2>1 DEF ChainRuns
  <2>3. InPass' /\ c < at'
    BY <1>2, <1>3, <1>5, <2>2 DEF InPass
  <2> QED
    BY <1>2, <1>5, <1>6, <1>12, <2>2, <2>3 DEF LinkPending
<1>13. CASE Copying(s, c, k, t, b)
  <2>1. d = k /\ LinkPending(s, c, k)'
    BY <1>12, <1>13 DEF Copying
  <2>2. run'.daddr = b
    BY <1>1, <1>2, <1>4, <2>1, CopyingLink
  <2>3. \A i \in 0 .. s.block - 1 : ~(b + i < run'.daddr)
    BY <1>5, <2>2
  <2>4. "START" \notin tcd'[t].csr
    BY <1>2, <1>5, <1>13, <2>1 DEF Copying
  <2>5. Copying(s, c, k, t, b)'
    BY <1>3, <1>6, <1>7, <1>13, <2>1, <2>3, <2>4 DEF Copying
  <2> QED
    BY <1>10, <2>1, <2>5 DEF EchoInv
<1>14. CASE Sending(s, c, k, t, b)
  <2>1. d = t /\ LinkPending(s, c, t)'
    BY <1>12, <1>14 DEF Sending
  <2>2. run.ch # t
    BY <1>2, <1>5 DEF Idle, Channel
  <2>3. Sending(s, c, k, t, b)'
    BY <1>2, <1>3, <1>5, <1>6, <1>7, <1>14, <2>1, <2>2 DEF Sending
  <2> QED
    BY <1>10, <2>1, <2>3 DEF EchoInv
<1> QED
  BY <1>4, <1>11, <1>13, <1>14 DEF EchoInv

(* A turn of the copying channel moves on in the buffer.                   *)
LEMMA TurnCopiesLink ==
  ASSUME FifoInv, NEW s \in Setups, NEW c, NEW k, NEW t, NEW b, Echoes(s, c, k, t, b),
         LineInv(s), InUse(s), MoveUnit, run.ch = k, NEW w, w = tcd[k]
  PROVE  /\ out' = out /\ Received' = Received
         /\ run'.daddr \in Nat
         /\ \A i \in 0 .. s.block - 1 :
              mem'[b + i] = IF b + i >= run.daddr /\ b + i < run'.daddr
                              THEN mem[w.saddr + i] ELSE mem[b + i]
<1>1. TypeInv
  BY DEF FifoInv
<1>2. /\ run.moved < w.nbytes /\ Transfer(w, run.saddr, run.daddr)
      /\ run'.daddr = run.daddr + w.doff
  BY <1>1, MoveDoes
<1>3. /\ w.ssize \in Width /\ w.dsize = w.ssize /\ w.doff = w.ssize
      /\ w.saddr \in Nat /\ w.saddr + s.block <= s.ring
      /\ run.saddr = w.saddr + run.moved /\ run.daddr = b + run.moved
      /\ run.moved \in 0 .. s.block
  BY <1>1, CopyingLink
<1>4. /\ b \in Nat /\ s.block \in Nat \ {0} /\ s.ring \in Nat \ {0} /\ s.ring <= RamSize
      /\ b + s.block <= RamSize /\ RamSize \in Nat /\ k # c /\ Receives(s, c)
      /\ c \in Nat /\ k \in Nat
  BY ChannelsOfTheChain, SizeAssumption
<1> DEFINE x == w.ssize
           n == run.moved
           a0 == w.saddr
<1>5. x \in Nat \ {0} /\ n \in Nat /\ a0 \in Nat /\ \A i \in 0 .. x - 1 : i \in 0 .. 3
  BY <1>3, <1>4, WidthIsSmall
<1>6. run.daddr # UartData /\ run.saddr # UartData /\ run.daddr \in Nat /\ run'.daddr = b + n + x
  BY <1>2, <1>3, <1>4, <1>5 DEF UartData
<1>7. out' = out /\ Received' = Received
  BY <1>2, <1>4, <1>6, OthersKeepRing DEF Transfer
<1>8. ASSUME NEW i \in 0 .. s.block - 1
      PROVE  mem'[b + i] = IF b + i >= run.daddr /\ b + i < run'.daddr
                             THEN mem[a0 + i] ELSE mem[b + i]
  <2>1. b + i \in Ram /\ a0 + i \in Ram /\ i \in Nat
    BY <1>3, <1>4, <1>5 DEF Ram
  <2>2. mem'[b + i] = IF (b + i) - run.daddr \in 0 .. x - 1
                        THEN BusValue(run.saddr, x)[(b + i) - run.daddr] ELSE mem[b + i]
    BY <1>2, <1>3, <1>6, <2>1 DEF Transfer
  <2>3. (b + i) - run.daddr = i - n /\ (b + i >= run.daddr <=> i >= n)
        /\ (b + i < run'.daddr <=> i < n + x)
    BY <1>3, <1>4, <1>5, <1>6, <2>1
  <2>4. CASE i >= n /\ i < n + x
    <3> DEFINE j == i - n
    <3>1. j \in 0 .. x - 1 /\ j \in 0 .. 3 /\ j < x
      BY <1>5, <2>1, <2>4
    <3>2. BusValue(run.saddr, x)[j] =
            IF j < x /\ run.saddr + j \in Ram THEN mem[run.saddr + j] ELSE 0
      BY <1>6, <3>1 DEF BusValue
    <3>3. run.saddr + j = a0 + i
      BY <1>3, <1>5, <2>1
    <3> HIDE DEF j
    <3>4. BusValue(run.saddr, x)[j] = mem[a0 + i]
      BY <2>1, <3>1, <3>2, <3>3
    <3> QED
      BY <2>2, <2>3, <2>4, <3>1, <3>4 DEF j
  <2>5. CASE ~(i >= n /\ i < n + x)
    <3>1. i - n \notin 0 .. x - 1
      BY <1>5, <2>1, <2>5
    <3> QED
      BY <2>2, <2>3, <2>5, <3>1
  <2> QED
    BY <2>4, <2>5
<1>9. run'.daddr \in Nat
  BY <1>4, <1>5, <1>6
<1> QED
  BY <1>7, <1>8, <1>9

(* The latest block is at its place in the ring.                           *)
LEMMA BlockInTheRing ==
  ASSUME TypeInv, NEW ring \in Nat \ {0}, NEW size \in Nat \ {0}, RingIsFilled(ring),
         NEW n \in Nat, n + size = Received, size <= ring, (n % ring) + size <= ring,
         NEW i \in 0 .. size - 1
  PROVE  mem[(n % ring) + i] = n + i + 1
<1> DEFINE x == n % ring
           q == n \div ring
<1>1. x \in Nat /\ q \in Nat /\ n = ring * q + x
  <2>1. n % ring \in 0 .. ring - 1 /\ n \div ring \in Nat
        /\ n = ring * (n \div ring) + (n % ring)
    BY RemainderIsSmall, Zenon
  <2> QED
    BY <2>1
<1>2. x + i \in 0 .. ring - 1 /\ n + i \in Nat
  BY <1>1
<1> HIDE DEF x, q
<1>3. n + i = ring * q + (x + i)
  <2>1. ring * q \in Nat
    BY <1>1
  <2> QED
    BY <1>1, <2>1
<1>4. (n + i) % ring = x + i
  BY <1>1, <1>2, <1>3, RemainderIsUnique
<1>5. /\ n + i + 1 \in 1 .. Received /\ Received - (n + i + 1) < ring
      /\ (n + i + 1) - 1 = n + i
  BY FifoIsTyped
<1> QED
  BY <1>4, <1>5 DEF RingIsFilled, x

LEMMA MoveKeepsEcho ==
  ASSUME FifoInv, NEW s \in Setups, NEW c, NEW k, NEW t, NEW b, Echoes(s, c, k, t, b),
         LineInv(s), RingInv(s, c), EchoInv(s, c, k, t, b), MoveUnit
  PROVE  EchoInv(s, c, k, t, b)'
<1>1. TypeInv
  BY DEF FifoInv
<1>2. /\ run # Idle /\ run.ch \in Channel /\ run'.ch = run.ch /\ run' # Idle /\ run.moved \in Nat
      /\ UNCHANGED <<tcd, setup, chcfg, requests, phase, at, ctrl>>
  BY <1>1, MoveDoes, RunIsTyped DEF engineVars, driverVars, Transfer
<1> SUFFICES ASSUME InUse(s)' PROVE EchoInv(s, c, k, t, b)'
  BY DEF EchoInv
<1>3. InUse(s) /\ ChainRuns(c, k, t)
  BY <1>2 DEF InUse, EchoInv
<1>4. /\ c \in Channel /\ k \in Channel /\ t \in Channel /\ c \in Nat /\ k \in Nat /\ t \in Nat
      /\ c < k /\ k < t /\ ReceivesBlocks(s, c) /\ Receives(s, c) /\ s.ring \in Nat \ {0}
      /\ s.block \in Nat \ {0} /\ b \in Nat /\ b \in Ram /\ b + s.block <= RamSize
      /\ s.block <= s.ring /\ \A o \in Descriptors(s, t) : Sends(o, s, b)
  BY ChannelsOfTheChain
<1>5. Base(s, c) \in Int /\ Taken(s, c) \in Nat /\ Received = Base(s, c) + Taken(s, c)
  BY <1>1, <1>3, <1>4, BaseIsTyped
<1>6. (\A i \in DOMAIN out' : out'[i] = i) => ChainRuns(c, k, t)'
  BY <1>2, <1>3 DEF ChainRuns
<1>7. run.ch # c => UNCHANGED Received /\ Taken(s, c)' = Taken(s, c) /\ Base(s, c)' = Base(s, c)
  BY <1>2, <1>3, <1>4, OthersKeepRing DEF Taken, Base
<1>8. CASE run.ch = c
  <2>1. Echoed(s, c, k, t)
    BY <1>3, <1>8 DEF EchoInv, Copying, Sending, LinkPending
  <2>2. /\ Received' = Received + 1 /\ Received \in Nat
        /\ run.moved = 0 /\ run'.moved = 1 /\ run.daddr \in 0 .. s.ring - 1
    BY <1>3, <1>4, <1>8, TurnStores
  <2>3. Base(s, c)' = Base(s, c)
    <3> DEFINE y == s.block - tcd[c].citer
    <3>1. y \in Int
      BY <1>1, <1>3, <1>4, ReceivingBlocks
    <3>2. Base(s, c) = Received - (y + 0) /\ Base(s, c)' = (Received + 1) - (y + 1)
      BY <1>2, <1>8, <2>2 DEF Base, Taken
    <3> HIDE DEF y
    <3> QED
      BY <2>2, <3>1, <3>2
  <2>4. out' = out
    <3>1. run.daddr # UartData
      BY <1>4, <2>2 DEF UartData
    <3> QED
      BY <1>1, <3>1, MoveDoes DEF Transfer
  <2>5. Echoed(s, c, k, t)'
    BY <1>2, <2>1, <2>3, <2>4 DEF Echoed
  <2> QED
    BY <1>3, <1>6, <2>4, <2>5 DEF EchoInv, ChainRuns
<1>9. CASE run.ch = k
  <2>1. Copying(s, c, k, t, b)
    BY <1>3, <1>4, <1>9 DEF EchoInv, Echoed, Sending, LinkPending, Idle, Channel
  <2>2. /\ out' = out /\ run'.daddr \in Nat
        /\ \A i \in 0 .. s.block - 1 :
             mem'[b + i] = IF b + i >= run.daddr /\ b + i < run'.daddr
                             THEN mem[tcd[k].saddr + i] ELSE mem[b + i]
    BY <1>3, <1>9, TurnCopiesLink
  <2> DEFINE n == Base(s, c) - s.block
  <2>3. n \in Nat /\ n + s.block = Received
    <3>1. Len(out) = n /\ Taken(s, c) = 0
      BY <2>1 DEF Copying, LinkPending
    <3>2. Len(out) \in Nat
      BY <1>1 DEF TypeInv, TypeInvariant
    <3> QED
      BY <1>4, <1>5, <3>1, <3>2
  <2>4. tcd[k].saddr = n % s.ring /\ (n % s.ring) + s.block <= s.ring
    BY <1>1, <1>3, <2>1, CopyingLink DEF Copying
  <2>5. RingIsFilled(s.ring)
    BY <1>3 DEF RingInv
  <2>6. ASSUME NEW i \in 0 .. s.block - 1, b + i < run'.daddr
        PROVE  mem'[b + i] = n + i + 1
    <3>1. CASE b + i >= run.daddr
      <4>1. mem'[b + i] = mem[(n % s.ring) + i]
        BY <2>2, <2>4, <2>6, <3>1
      <4> HIDE DEF n
      <4> QED
        BY <1>1, <1>4, <2>3, <2>4, <2>5, <4>1, BlockInTheRing
    <3>2. CASE b + i < run.daddr
      <4>1. ~(b + i >= run.daddr)
        BY <1>1, <1>4, <3>2, RunIsTyped
      <4>2. mem'[b + i] = mem[b + i]
        BY <2>2, <4>1
      <4> QED
        BY <1>9, <2>1, <3>2, <4>2 DEF Copying
    <3> QED
      BY <1>1, <1>4, <3>1, <3>2, RunIsTyped
  <2>7. LinkPending(s, c, k)'
    BY <1>2, <1>4, <1>7, <1>9, <2>1 DEF Copying, LinkPending, InPass
  <2>8. Copying(s, c, k, t, b)'
    BY <1>2, <1>4, <1>7, <1>9, <2>1, <2>2, <2>6, <2>7 DEF Copying
  <2> QED
    BY <1>3, <1>6, <2>2, <2>8 DEF EchoInv, ChainRuns
<1>10. CASE run.ch = t
  <2>1. Sending(s, c, k, t, b)
    BY <1>3, <1>4, <1>10 DEF EchoInv, Echoed, Copying, LinkPending, Idle, Channel
  <2>2. /\ out' = Append(out, mem[run.saddr]) /\ mem' = mem
        /\ run'.moved = run.moved + 1 /\ run.moved < tcd[t].nbytes
    BY <1>1, <1>3, <1>4, <1>10, TurnSends DEF ChainRuns
  <2>3. /\ tcd[t].saddr = b + TurnsDone(tcd[t]) /\ TurnsDone(tcd[t]) \in Nat
        /\ TurnsDone(tcd[t]) + tcd[t].nbytes <= s.block
        /\ run.saddr = tcd[t].saddr + run.moved /\ tcd[t].nbytes \in Nat
        /\ tcd[t].citer \in 1 .. tcd[t].biter
    BY <1>1, <1>3, <1>4, <1>10, SendingChannel
  <2>4. TurnsDone(tcd[t]) = 0 /\ tcd[t].biter = 1
    BY <1>1, <1>3, SendsOnce
  <2>5. run.saddr = b + run.moved /\ run.moved \in 0 .. s.block - 1
    BY <1>2, <1>4, <2>2, <2>3, <2>4
  <2> DEFINE n == Len(out)
  <2>6. n = Base(s, c) - s.block + run.moved /\ n \in Nat /\ out \in Seq(Byte)
    BY <1>1, <1>10, <2>1 DEF Sending, TypeInv, TypeInvariant
  <2>7. mem[run.saddr] = n + 1
    BY <1>4, <1>5, <2>1, <2>5, <2>6 DEF Sending
  <2>8. mem[run.saddr] \in Byte
    <3>1. run.saddr \in Ram
      BY <1>4, <2>5, SizeAssumption DEF Ram
    <3> QED
      BY <1>1, <3>1 DEF TypeInv, TypeInvariant
  <2>9. Len(out') = n + 1 /\ \A i \in DOMAIN out' : out'[i] = i
    BY <1>3, <2>2, <2>6, <2>7, <2>8 DEF ChainRuns
  <2>10. LinkPending(s, c, t)'
    BY <1>2, <1>4, <1>7, <1>10, <2>1 DEF Sending, LinkPending, InPass
  <2>11. Len(out') = Base(s, c) - s.block + run'.moved
    <3> DEFINE B == Base(s, c) - s.block
    <3>1. B \in Int /\ n = B + run.moved /\ Len(out') = n + 1 /\ run'.moved = run.moved + 1
      BY <1>4, <1>5, <2>2, <2>6, <2>9
    <3> HIDE DEF B, n
    <3>2. Len(out') = B + run'.moved
      BY <1>2, <2>6, <3>1
    <3> QED
      BY <3>2 DEF B
  <2>12. Sending(s, c, k, t, b)'
    BY <1>2, <1>4, <1>7, <1>10, <2>1, <2>2, <2>10, <2>11 DEF Sending
  <2> QED
    BY <1>6, <2>9, <2>12 DEF EchoInv
<1> QED
  BY <1>2, <1>3, <1>8, <1>9, <1>10 DEF ChainRuns

(* The end of a major loop of the receiving channel, in terms of blocks.   *)
LEMMA BlockEnds ==
  ASSUME TypeInv, NEW s \in Setups, NEW c, ReceivesBlocks(s, c), LineInv(s), InUse(s),
         EndMajorLoop, run.ch = c, Received' = Received
  PROVE  Taken(s, c)' = 0 /\ Base(s, c)' = Base(s, c) + s.block
<1> DEFINE t == tcd[c]
<1>1. /\ c \in Channel /\ s.block \in Nat \ {0} /\ t.biter = s.block /\ t.nbytes = 1
      /\ t.citer \in 1 .. s.block /\ run.moved \in {0, 1} /\ Receives(s, c)
  BY ReceivingBlocks
<1>2. /\ run.moved >= t.nbytes /\ NextCiter(t.citer) = 0 /\ tcd'[c] = Reloaded(c) /\ t \in Tcd
      /\ run' = Idle /\ Idle.ch \notin Channel
  BY MajorDoes, RunIsTyped
<1>3. t.citer = 1 /\ run.moved = 1
  BY <1>1, <1>2 DEF NextCiter
<1>4. tcd'[c].citer = s.block
  <2>1. CASE "ESG" \in t.csr
    <3>1. PICK o \in Descriptors(s, c) : Along(o, t)
      BY <1>1 DEF LineInv
    <3>2. "ESG" \in o.csr /\ tcd'[c] = Loaded(o) /\ Loaded(o) \in Descriptors(s, c)
      BY <1>1, <1>2, <2>1, <3>1, DescriptorsAreClosed DEF Along, SameFields, Reloaded, Loaded
    <3> QED
      BY <1>1, <3>2 DEF ReceivesBlocks, Receives, Steady
  <2>2. CASE "ESG" \notin t.csr
    BY <1>1, <1>2, <2>2 DEF Reloaded, Tcd
  <2> QED
    BY <2>1, <2>2
<1>5. Taken(s, c) = (s.block - 1) + 1 /\ Taken(s, c)' = (s.block - s.block) + 0
  BY <1>1, <1>2, <1>3, <1>4 DEF Taken
<1>6. Taken(s, c) = s.block /\ Taken(s, c)' = 0 /\ Received \in Nat
  BY <1>1, <1>5, FifoIsTyped
<1> QED
  BY <1>1, <1>6 DEF Base

(* Only the receiving channel has minor loops that do not end its major    *)
(* loop.                                                                   *)
LEMMA MinorKeepsEcho ==
  ASSUME FifoInv, NEW s \in Setups, NEW c, NEW k, NEW t, NEW b, Echoes(s, c, k, t, b),
         LineInv(s), EchoInv(s, c, k, t, b), EndMinorLoop
  PROVE  EchoInv(s, c, k, t, b)'
<1>1. TypeInv
  BY DEF FifoInv
<1> DEFINE d == run.ch
           w == tcd[d]
<1>2. /\ run # Idle /\ d \in Channel /\ run.moved >= w.nbytes /\ NextCiter(w.citer) # 0
      /\ tcd'[d].csr = w.csr /\ tcd'[d].citer = NextCiter(w.citer)
      /\ \A e \in Channel : e # d => tcd'[e] = tcd[e]
      /\ run' = Idle /\ UNCHANGED <<uartVars, erq, int_req, phase, at, requests, driverVars, mem>>
  BY <1>1, MinorDoes
<1> SUFFICES ASSUME InUse(s)' PROVE EchoInv(s, c, k, t, b)'
  BY DEF EchoInv
<1>3. UNCHANGED <<setup, ctrl, out, chcfg, requests>> /\ Received' = Received
  BY <1>2 DEF uartVars, driverVars, Received
<1>4. InUse(s) /\ ChainRuns(c, k, t)
  BY <1>3 DEF InUse, EchoInv
<1>5. /\ c \in Channel /\ k \in Channel /\ t \in Channel /\ c # k /\ c # t /\ ReceivesBlocks(s, c)
      /\ s.block \in Nat \ {0}
  BY ChannelsOfTheChain
<1>6. d # k
  BY <1>1, <1>2, <1>4, CopyingLink DEF NextCiter
<1>7. d # t
  BY <1>1, <1>2, <1>4, SendsOnce DEF NextCiter
<1>8. d = c
  BY <1>2, <1>4, <1>6, <1>7 DEF ChainRuns
<1>9. Echoed(s, c, k, t)
  BY <1>4, <1>8 DEF EchoInv, Copying, Sending, LinkPending
<1>10. Base(s, c)' = Base(s, c)
  <2>1. /\ tcd[c].citer \in 1 .. s.block /\ tcd[c].nbytes = 1
        /\ run.moved \in {0, 1}
    BY <1>1, <1>4, <1>5, <1>8, ReceivingBlocks
  <2>2. tcd'[c].citer = tcd[c].citer - 1 /\ run.moved = 1
    BY <1>2, <1>8, <2>1 DEF NextCiter
  <2>3. Taken(s, c)' = (s.block - (tcd[c].citer - 1)) + 0
    BY <1>2, <1>5, <2>2 DEF Taken, Idle, Channel
  <2>4. Taken(s, c) = (s.block - tcd[c].citer) + 1
    BY <1>8, <2>2 DEF Taken
  <2>5. Taken(s, c)' = Taken(s, c)
    BY <1>5, <2>1, <2>3, <2>4
  <2> QED
    BY <1>3, <2>5 DEF Base
<1>11. Echoed(s, c, k, t)'
  BY <1>2, <1>3, <1>5, <1>8, <1>9, <1>10 DEF Echoed, Idle, Channel
<1>12. ChainRuns(c, k, t)'
  BY <1>2, <1>3, <1>4 DEF ChainRuns
<1> QED
  BY <1>11, <1>12 DEF EchoInv

(* No descriptor starts the channel that loads it.                         *)
LEMMA ReloadDoesNotStart ==
  ASSUME TypeInv, NEW s \in Setups, LineInv(s), InUse(s), NEW d \in Channel,
         \A o \in Descriptors(s, d) : "START" \notin o.csr, "START" \notin tcd[d].csr
  PROVE  "START" \notin Reloaded(d).csr
<1> DEFINE w == tcd[d]
<1>1. w \in Tcd
  BY DEF TypeInv, TypeInvariant
<1>2. CASE "ESG" \in w.csr
  <2>1. PICK o \in Descriptors(s, d) : Along(o, w)
    BY DEF LineInv
  <2>2. "ESG" \in o.csr /\ Reloaded(d) = Loaded(o)
    BY <1>2, <2>1 DEF Along, SameFields, Reloaded, Loaded
  <2> QED
    BY <2>2, DescriptorsAreClosed
<1>3. CASE "ESG" \notin w.csr
  <2>1. Reloaded(d).csr = w.csr \union {"DONE"}
    BY <1>1, <1>3 DEF Reloaded, Tcd
  <2> QED
    BY <2>1
<1> QED
  BY <1>2, <1>3

(* The copying channel goes on with the next block of the ring.            *)
LEMMA CopyGoesOn ==
  ASSUME TypeInv, NEW s \in Setups, NEW c, NEW k, NEW t, NEW b, Echoes(s, c, k, t, b),
         LineInv(s), InUse(s), run.ch = k, EndMajorLoop,
         NEW n \in Nat, tcd[k].saddr = n % s.ring
  PROVE  /\ tcd'[k].saddr = (n + s.block) % s.ring
         /\ run.daddr = b + s.block
<1> DEFINE w == tcd[k]
           v == tcd'[k]
<1>1. /\ k \in Channel /\ AllSteady(s) /\ s.block \in Nat \ {0} /\ s.ring \in Nat \ {0}
      /\ b \in Nat
  BY ChannelsOfTheChain
<1>2. /\ run # Idle /\ w \in Tcd /\ run.moved >= w.nbytes /\ NextCiter(w.citer) = 0
      /\ v = Reloaded(k) /\ Reloaded(k) \in Tcd
  BY MajorDoes
<1>3. PICK o \in Descriptors(s, k) : Along(o, w) /\ o.saddr = w.saddr
  BY CopyingLink
<1>4. /\ o \in Tcd /\ Steady(o) /\ UnderWay(w, Turns(w))
      /\ (o.saddr + s.block) % s.ring = IF "ESG" \in o.csr THEN Loaded(o).saddr ELSE o.saddr
  BY <1>1, <1>2, <1>3, DescriptorsAreClosed, LoopIsOver DEF AllSteady, Echoes
<1>5. /\ w.nbytes = s.block /\ run.moved \in 0 .. s.block /\ run.daddr = b + run.moved
      /\ w.saddr \in Nat
  BY CopyingLink
<1>6. run.daddr = b + s.block
  BY <1>1, <1>2, <1>5
<1>7. v.saddr = (w.saddr + s.block) % s.ring
  <2>1. CASE "ESG" \in w.csr
    <3>1. Reloaded(k) = Loaded(o) /\ "ESG" \in o.csr
      BY <1>3, <2>1 DEF Reloaded, Loaded, Along, SameFields
    <3> QED
      BY <1>2, <1>3, <1>4, <3>1
  <2>2. CASE "ESG" \notin w.csr
    <3>1. v = [w EXCEPT !.saddr = run.saddr + w.slast, !.daddr = run.daddr + w.dlast,
                        !.citer = w.biter, !.csr = @ \union {"DONE"}]
      BY <1>2, <2>2 DEF Reloaded
    <3>2. v \in Tcd /\ w.nbytes > 0 /\ "ESG" \notin o.csr
      BY <1>1, <1>2, <1>3, <1>5, <2>2 DEF Along, SameFields
    <3> HIDE DEF w, v
    <3>3. v.saddr = o.saddr
      BY <1>2, <1>3, <1>4, <2>2, <3>1, <3>2, MajorLoopWindsBack, ZenonT(60)
    <3> QED
      BY <1>3, <1>4, <3>2, <3>3
  <2> QED
    BY <2>1, <2>2
<1>8. ((n % s.ring) + s.block) % s.ring = (n + s.block) % s.ring
  BY <1>1, RemaindersOfSums
<1> QED
  BY <1>6, <1>7, <1>8

LEMMA MajorKeepsEcho ==
  ASSUME FifoInv, NEW s \in Setups, NEW c, NEW k, NEW t, NEW b, Echoes(s, c, k, t, b),
         LineInv(s), RingInv(s, c), RingInv(s, c)', EchoInv(s, c, k, t, b), EndMajorLoop
  PROVE  EchoInv(s, c, k, t, b)'
<1>1. TypeInv
  BY DEF FifoInv
<1> DEFINE d == run.ch
           w == tcd[d]
<1>2. /\ run # Idle /\ d \in Channel /\ w \in Tcd /\ run.moved >= w.nbytes
      /\ NextCiter(w.citer) = 0 /\ InPass
      /\ tcd'[d] = Reloaded(d) /\ Reloaded(d) \in Tcd
      /\ \A e \in Channel : e # d =>
           /\ tcd'[e] \in Tcd /\ SameButStatus(tcd[e], tcd'[e])
           /\ tcd'[e].csr = IF "MAJORELINK" \in w.csr /\ e = w.linkch
                              THEN tcd[e].csr \union {"START"} ELSE tcd[e].csr
      /\ run' = Idle /\ UNCHANGED <<uartVars, phase, at, requests, driverVars, mem>>
  BY <1>1, MajorDoes
<1> SUFFICES ASSUME InUse(s)' PROVE EchoInv(s, c, k, t, b)'
  BY DEF EchoInv
<1>3. /\ UNCHANGED <<setup, ctrl, out, chcfg, requests, mem, at>>
      /\ Received' = Received /\ InPass' /\ run' = Idle
  BY <1>2 DEF uartVars, driverVars, Received, InPass
<1>4. InUse(s) /\ ChainRuns(c, k, t)
  BY <1>3 DEF InUse, EchoInv
<1>5. /\ c \in Channel /\ k \in Channel /\ t \in Channel /\ c \in Nat /\ k \in Nat /\ t \in Nat
      /\ c < k /\ k < t /\ ReceivesBlocks(s, c)
      /\ s.block \in Nat \ {0} /\ s.ring \in Nat \ {0} /\ b \in Nat
      /\ \A e \in Channel : \A o \in Descriptors(s, e) : "START" \notin o.csr
  BY ChannelsOfTheChain
<1>6. Base(s, c) \in Int /\ Taken(s, c) \in Nat /\ Received = Base(s, c) + Taken(s, c)
  BY <1>1, <1>4, <1>5, BaseIsTyped
<1>7. Idle.ch \notin Channel
  BY <1>1, RunIsTyped
<1>8. d # c => Taken(s, c)' = Taken(s, c) /\ Base(s, c)' = Base(s, c)
  <2> SUFFICES ASSUME d # c PROVE Taken(s, c)' = Taken(s, c) /\ Base(s, c)' = Base(s, c)
    OBVIOUS
  <2>1. tcd'[c].citer = tcd[c].citer
    BY <1>2, <1>5 DEF SameButStatus
  <2>2. run.ch # c /\ run'.ch # c
    BY <1>3, <1>5, <1>7
  <2>3. Taken(s, c)' = Taken(s, c)
    BY <2>1, <2>2 DEF Taken
  <2> QED
    BY <1>3, <2>3 DEF Base
<1>9. d # k => tcd'[k].saddr = tcd[k].saddr
  BY <1>2, <1>5 DEF SameButStatus
<1>10. "START" \notin tcd[d].csr => "START" \notin tcd'[d].csr
  BY <1>1, <1>2, <1>4, <1>5, ReloadDoesNotStart
<1>11. ASSUME \A e \in Channel : e \notin {k, t} => "START" \notin tcd'[e].csr
       PROVE  ChainRuns(c, k, t)'
  BY <1>3, <1>4, <1>11 DEF ChainRuns
<1>12. CASE d = c
  <2>1. Echoed(s, c, k, t)
    BY <1>4, <1>12 DEF EchoInv, Copying, Sending, LinkPending
  <2>2. "MAJORELINK" \in w.csr /\ w.linkch = k
    <3>1. PICK o \in Descriptors(s, c) : Along(o, w)
      BY <1>4, <1>5, <1>12 DEF LineInv
    <3> QED
      BY <3>1 DEF Along, SameFields, Echoes
  <2>3. /\ "START" \notin tcd[c].csr /\ "START" \notin tcd'[c].csr /\ at = c + 1
    BY <1>2, <1>4, <1>5, <1>10, <1>12 DEF ChainRuns
  <2>4. \A e \in Channel : e \notin {k, t} => "START" \notin tcd'[e].csr
    BY <1>2, <1>4, <1>12, <2>2, <2>3 DEF ChainRuns
  <2>5. "START" \in tcd'[k].csr /\ "START" \notin tcd'[t].csr
    <3>1. k # c /\ t # c /\ t # k
      BY <1>5
    <3>2. tcd'[k].csr = tcd[k].csr \union {"START"} /\ tcd'[t].csr = tcd[t].csr
      BY <1>2, <1>5, <1>12, <2>2, <3>1, Zenon
    <3> QED
      BY <2>1, <3>2 DEF Echoed
  <2>6. Taken(s, c)' = 0 /\ Base(s, c)' = Base(s, c) + s.block
    BY <1>1, <1>3, <1>4, <1>5, <1>12, BlockEnds
  <2>7. LinkPending(s, c, k)'
    BY <1>3, <1>5, <1>7, <2>3, <2>5, <2>6 DEF LinkPending
  <2>8. Base(s, c)' - s.block = Base(s, c)
    BY <1>5, <1>6, <2>6
  <2>9. Copying(s, c, k, t, b)'
    BY <1>3, <1>5, <1>7, <1>9, <1>12, <2>1, <2>5, <2>7, <2>8 DEF Copying, Echoed
  <2> QED
    BY <1>11, <2>4, <2>9 DEF EchoInv
<1>13. CASE d = k
  <2>1. Copying(s, c, k, t, b)
    BY <1>4, <1>5, <1>7, <1>13 DEF EchoInv, Echoed, Sending, LinkPending
  <2>2. "MAJORELINK" \in w.csr /\ w.linkch = t
    BY <1>1, <1>4, <1>13, CopyingLink
  <2>3. "START" \notin tcd'[k].csr /\ "START" \in tcd'[t].csr
    <3>1. "START" \notin tcd'[k].csr
      BY <1>10, <1>13, <2>1 DEF Copying, LinkPending
    <3>2. t # k
      BY <1>5
    <3>3. tcd'[t].csr = tcd[t].csr \union {"START"}
      BY <1>2, <1>5, <1>13, <2>2, <3>2, Zenon
    <3> QED
      BY <3>1, <3>3
  <2>4. \A e \in Channel : e \notin {k, t} => "START" \notin tcd'[e].csr
    BY <1>2, <1>4, <1>13, <2>2 DEF ChainRuns
  <2> DEFINE n == Base(s, c) - s.block
  <2>5. n \in Nat /\ n + s.block = Base(s, c) /\ tcd[k].saddr = n % s.ring
    <3>1. Len(out) = n /\ Len(out) \in Nat /\ tcd[k].saddr = n % s.ring
      BY <1>1, <2>1 DEF Copying, TypeInv, TypeInvariant
    <3> QED
      BY <1>5, <1>6, <3>1
  <2>6. tcd'[k].saddr = Base(s, c) % s.ring /\ run.daddr = b + s.block
    <3> HIDE DEF n
    <3>1. tcd'[k].saddr = (n + s.block) % s.ring /\ run.daddr = b + s.block
      BY <1>1, <1>4, <1>13, <2>5, CopyGoesOn
    <3> QED
      BY <2>5, <3>1
  <2>7. \A i \in 0 .. s.block - 1 : mem[b + i] = n + i + 1
    <3> TAKE i \in 0 .. s.block - 1
    <3>1. b + i < run.daddr
      BY <1>5, <2>6
    <3> QED
      BY <1>13, <2>1, <3>1 DEF Copying
  <2>8. at <= t
    BY <1>2, <1>4, <1>5, <1>13 DEF ChainRuns
  <2>9. LinkPending(s, c, t)'
    BY <1>3, <1>5, <1>7, <1>8, <1>13, <2>1, <2>3, <2>8 DEF LinkPending, Copying
  <2>10. Len(out') = Base(s, c)' - s.block + 0
    BY <1>3, <1>5, <1>6, <1>8, <1>13, <2>1 DEF Copying
  <2>11. Sending(s, c, k, t, b)'
    BY <1>3, <1>5, <1>7, <1>8, <1>13, <2>3, <2>6, <2>7, <2>9, <2>10 DEF Sending
  <2> QED
    BY <1>11, <2>4, <2>11 DEF EchoInv
<1>14. CASE d = t
  <2>1. Sending(s, c, k, t, b)
    BY <1>4, <1>5, <1>7, <1>14 DEF EchoInv, Echoed, Copying, LinkPending
  <2>2. w.nbytes = s.block /\ "MAJORELINK" \notin w.csr
    BY <1>1, <1>4, <1>14, SendsOnce
  <2>3. run.moved = s.block
    <3>1. run.moved \in 0 .. w.nbytes
      BY <1>1, <1>4, <1>5, <1>14, ChannelsOfTheChain, SendingChannel
    <3> QED
      BY <1>2, <1>5, <2>2, <3>1
  <2>4. \A e \in Channel : "START" \in tcd'[e].csr => "START" \in tcd[e].csr /\ e # t
    BY <1>2, <1>5, <1>10, <1>14, <2>1, <2>2 DEF Sending, LinkPending
  <2>5. Len(out') = Base(s, c)'
    BY <1>3, <1>5, <1>6, <1>8, <1>14, <2>1, <2>3 DEF Sending
  <2>6. Echoed(s, c, k, t)'
    BY <1>3, <1>5, <1>7, <1>8, <1>9, <1>14, <2>1, <2>4, <2>5 DEF Echoed, Sending
  <2> QED
    BY <1>4, <1>11, <2>4, <2>6 DEF EchoInv, ChainRuns
<1> QED
  BY <1>2, <1>4, <1>12, <1>13, <1>14 DEF ChainRuns

LEMMA EchoStep ==
  ASSUME SinkInv, NEW s \in Setups, NEW c, NEW k, NEW t, NEW b, Echoes(s, c, k, t, b),
         LineInv(s), RingInv(s, c), RingInv(s, c)', EchoInv(s, c, k, t, b), [Next]_vars
  PROVE  EchoInv(s, c, k, t, b)'
<1>1. FifoInv
  BY DEF SinkInv
<1>2. CASE UNCHANGED vars
  BY <1>2 DEF vars, uartVars, engineVars, passVars, driverVars, EchoInv, InUse, ChainRuns, Echoed,
              Copying, Sending, LinkPending, Base, Taken, Received, InPass
<1>3. ASSUME NEW r \in Setups, Ssrt(r)
      PROVE  EchoInv(s, c, k, t, b)'
  <2>1. ~InUse(s)
    BY <1>3, SetupAssumption DEF Ssrt, InUse, Echoes
  <2>2. ~InUse(s)'
    BY <1>3, <2>1 DEF Ssrt, InUse, driverVars
  <2> QED
    BY <2>2 DEF EchoInv
<1> QED
  BY <1>1, <1>2, <1>3, QuietKeepsEcho, ProgramKeepsEcho, VisitKeepsEcho, MoveKeepsEcho,
     MinorKeepsEcho, MajorKeepsEcho DEF Next, Instruction, Pass

(***************************************************************************)
(* The output                                                              *)
(***************************************************************************)

OutputInv ==
  /\ CountInv /\ SinkInv
  /\ \A s \in Setups : \A t \in Channel : Transmits(s, t) => LineInv(s) /\ SendInv(s, t)
  /\ \A s \in Setups : \A c, k, t \in Channel : \A b \in Ram :
       Echoes(s, c, k, t, b) => EchoInv(s, c, k, t, b)

LEMMA OutputStart == Init => OutputInv
<1> SUFFICES ASSUME Init PROVE OutputInv
  OBVIOUS
<1>1. \A s \in Setups : ~InUse(s)
  BY SetupAssumption DEF Init, InUse, IsSetup
<1> QED
  BY <1>1, CountStart, SinkStart, LineStarts DEF OutputInv, SendInv, EchoInv

LEMMA OutputStep == OutputInv /\ [Next]_vars => OutputInv'
<1> SUFFICES ASSUME OutputInv, [Next]_vars PROVE OutputInv'
  OBVIOUS
<1>1. CountInv' /\ SinkInv' /\ TypeInv
  BY CountStep, SinkStep DEF OutputInv, SinkInv, FifoInv
<1>2. ASSUME NEW s \in Setups, NEW t \in Channel, Transmits(s, t)
      PROVE  LineInv(s)' /\ SendInv(s, t)'
  <2>1. LineInv(s) /\ SendInv(s, t) /\ SinkInv
    BY <1>2 DEF OutputInv
  <2>2. AllSteady(s)
    BY <1>2, BufferOf
  <2> QED
    BY <1>1, <1>2, <2>1, <2>2, LineStep, SendStep
<1>3. ASSUME NEW s \in Setups, NEW c \in Channel, NEW k \in Channel, NEW t \in Channel,
             NEW b \in Ram, Echoes(s, c, k, t, b)
      PROVE  EchoInv(s, c, k, t, b)'
  <2>1. Receives(s, c)
    BY <1>3, ChannelsOfTheChain
  <2>2. LineInv(s) /\ RingInv(s, c)
    BY <2>1 DEF OutputInv, CountInv, ReceiveInv
  <2>3. Receives(s, c)' <=> Receives(s, c)
    BY DEF Receives, Descriptors, Loaded, TcdOf, Steady, Footprint, Turns, Unit
  <2>4. RingInv(s, c)'
    BY <1>1, <2>1, <2>3 DEF CountInv, ReceiveInv
  <2> QED
    BY <1>3, <2>2, <2>4, EchoStep DEF OutputInv
<1>4. ASSUME NEW s \in Setups, NEW t \in Channel
      PROVE  Transmits(s, t)' <=> Transmits(s, t)
  BY DEF Transmits, Sends, Descriptors, Loaded, TcdOf, Steady, Footprint, Turns, Unit
<1>5. ASSUME NEW s \in Setups, NEW c \in Channel, NEW k \in Channel, NEW t \in Channel,
             NEW b \in Ram
      PROVE  Echoes(s, c, k, t, b)' <=> Echoes(s, c, k, t, b)
  BY DEF Echoes, Sends, ReceivesBlocks, Receives, Descriptors, Loaded, TcdOf, Steady, Footprint,
         Turns, Unit
<1> QED
  BY <1>1, <1>2, <1>3, <1>4, <1>5 DEF OutputInv

(* A transmission sends its buffer over and over, and an echo is at every  *)
(* instruction the complete blocks that were received, byte for byte: the  *)
(* chain of links runs to its end in one pass, whatever is enabled,        *)
(* disabled, acknowledged and received in between, and across the reloads  *)
(* of its descriptors.                                                     *)
THEOREM OutputIsExact ==
  ASSUME \A s \in Setups : s.transmit # {} => \E t \in Channel : Transmits(s, t),
         \A s \in Setups : s.echo =>
           \E c, k, t \in Channel : \E b \in Ram : Echoes(s, c, k, t, b)
  PROVE  Spec => []OutputIsInOrder
<1>1. OutputInv => OutputIsInOrder
  <2> SUFFICES ASSUME OutputInv, NEW s \in Setups, InUse(s)
               PROVE  /\ s.echo /\ AtRest => out = [i \in 1 .. Blocks(s) * s.block |-> i]
                      /\ s.transmit # {} =>
                           \A i \in DOMAIN out : out[i] = mem[s.from + ((i - 1) % s.block)]
    BY DEF OutputIsInOrder
  <2>1. ASSUME s.transmit # {}
        PROVE  \A i \in DOMAIN out : out[i] = mem[s.from + ((i - 1) % s.block)]
    BY <2>1 DEF OutputInv, SendInv
  <2>2. ASSUME s.echo, AtRest
        PROVE  out = [i \in 1 .. Blocks(s) * s.block |-> i]
    <3>1. PICK c \in Channel, k \in Channel, t \in Channel, b \in Ram : Echoes(s, c, k, t, b)
      BY <2>2
    <3>2. ReceivesBlocks(s, c) /\ Receives(s, c)
      BY <3>1, ChannelsOfTheChain
    <3>3. LineInv(s) /\ BlockInv(s, c) /\ EchoInv(s, c, k, t, b) /\ FifoInv /\ TypeInv
      BY <3>1, <3>2 DEF OutputInv, CountInv, ReceiveInv, FifoInv
    <3>4. ~InPass /\ run = Idle
      BY <2>2, <3>3 DEF AtRest, InPass, TypeInv
    <3>5. Echoed(s, c, k, t) /\ ChainRuns(c, k, t)
      BY <3>1, <3>3, <3>4, EchoedAtRest DEF EchoInv
    <3>6. PICK m \in Nat : BlocksDone(s, c, m)
      BY <3>3 DEF BlockInv
    <3>7. Blocks(s) = m
      BY <3>2, <3>3, <3>4, <3>6, BlocksAtRest
    <3>8. Base(s, c) = m * s.block
      <4>1. m * s.block \in Int /\ Taken(s, c) \in Nat /\ Received = m * s.block + Taken(s, c)
        BY <3>2, <3>3, <3>6, BaseIsTyped, ReceivingBlocks DEF BlocksDone
      <4> QED
        BY <4>1 DEF Base
    <3>9. Len(out) = Blocks(s) * s.block /\ out \in Seq(Byte) /\ \A i \in DOMAIN out : out[i] = i
      BY <3>3, <3>5, <3>7, <3>8 DEF Echoed, ChainRuns, TypeInv, TypeInvariant
    <3> QED
      BY <3>9
  <2> QED
    BY <2>1, <2>2
<1>2. Spec => []OutputInv
  BY OutputStart, OutputStep, PTL DEF Spec
<1> QED
  BY <1>1, <1>2, PTL

=============================================================================
