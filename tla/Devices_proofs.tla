--------------------------- MODULE Devices_proofs ---------------------------
(***************************************************************************)
(* What holds of the devices under their drivers, whatever is wired:       *)
(*   - an input is as the firmware believes, or its interrupt waits, for   *)
(*     any ports, pins and moves;                                          *)
(*   - a driver of the FlexCAN message buffers that interrupts the host,   *)
(*     and is interrupted by it, between any two register accesses loses,  *)
(*     repeats and garbles no frame that found a buffer, for any buffers   *)
(*     and any frames;                                                     *)
(*   - a transaction on the LPI2C, the LPSPI or the ADC brings what the    *)
(*     devices hold and leaves what it should, for any benches and any     *)
(*     transactions, whether the devices are attached or a host answers    *)
(*     for them when it next takes the trace.                              *)
(***************************************************************************)
EXTENDS Devices, SequenceTheorems, Induction_proofs

(***************************************************************************)
(* Inputs followed by their interrupts                                     *)
(***************************************************************************)
(* The interrupt configuration stays what the set-up made it.              *)
EdgePins == {p \in Pins : Trigger[p] = "any"}
IcrSetUp == [p \in Pins |-> IF Trigger[p] = "any" THEN "low" ELSE Trigger[p]]

Pad == [dr : SUBSET Pins, gdir : SUBSET Pins, input : SUBSET Pins, imr : SUBSET Pins,
        isr : SUBSET Pins, edge_sel : {EdgePins}, icr : {IcrSetUp}]

PadsAreConfigured == gpio \in [Ports -> Pad]

InputsInv == PadsAreConfigured /\ InputsAreFollowed

(* An edge that the firmware watches for latches the interrupt of its pin. *)
LEMMA EdgesLatch ==
  ASSUME PadsAreConfigured,
         NEW port \in Ports, NEW pin \in Pins, NEW level \in BOOLEAN,
         pin \notin gpio[port].gdir, (pin \in gpio[port].input) # level, Watched(pin, level)
  PROVE  pin \in SetInput(gpio[port], pin, level).isr
<1> DEFINE g    == gpio[port]
           prev == pin \in g.input
<1>1. g \in Pad
  BY DEF PadsAreConfigured
<1>2. g.edge_sel = EdgePins /\ g.icr = IcrSetUp
  BY <1>1 DEF Pad
<1>3. CASE Trigger[pin] = "any"
  <2>1. pin \in g.edge_sel
    BY <1>2, <1>3 DEF EdgePins
  <2> QED BY <2>1, <1>1 DEF SetInput, Latches, Pad
<1>4. CASE Trigger[pin] # "any"
  <2>1. pin \notin g.edge_sel
    BY <1>2, <1>4 DEF EdgePins
  <2>2. g.icr[pin] = Trigger[pin]
    BY <1>2, <1>4 DEF IcrSetUp
  <2>3. prev = ~level
    OBVIOUS
  <2>4. Latches(g, pin, prev, level)
    <3> HIDE DEF prev, g
    <3>1. Trigger[pin] \in (IF level THEN {"rising", "high"} ELSE {"falling", "low"})
      BY <1>4 DEF Watched
    <3>2. CASE level
      <4>1. Trigger[pin] = "rising" \/ Trigger[pin] = "high"
        BY <3>1, <3>2
      <4> QED BY <2>1, <2>2, <2>3, <3>2, <4>1 DEF Latches
    <3>3. CASE ~level
      <4>1. Trigger[pin] = "falling" \/ Trigger[pin] = "low"
        BY <3>1, <3>3
      <4> QED BY <2>1, <2>2, <2>3, <3>3, <4>1 DEF Latches
    <3> QED BY <3>2, <3>3
  <2> QED BY <2>4, <1>1 DEF SetInput, Pad
<1> QED BY <1>3, <1>4

(* A level that arrives leaves a controller a controller.                  *)
LEMMA PadsStayPads ==
  ASSUME NEW g \in Pad, NEW pin \in Pins, NEW level
  PROVE  SetInput(g, pin, level) \in Pad
<1> DEFINE isr   == IF pin \notin g.gdir /\ Latches(g, pin, pin \in g.input, level)
                    THEN g.isr \union {pin} ELSE g.isr
           input == IF level THEN g.input \union {pin} ELSE g.input \ {pin}
<1>1. isr \in SUBSET Pins /\ input \in SUBSET Pins
  BY DEF Pad
<1>2. SetInput(g, pin, level) = [g EXCEPT !.input = input, !.isr = isr]
  BY DEF SetInput
<1> HIDE DEF isr, input
<1> QED BY <1>1, <1>2 DEF Pad

(* A step of the inputs' part keeps the configuration, and every pin       *)
(* covered.                                                                *)
LEMMA InputsStep ==
  ASSUME InputsInv, InputsNext
  PROVE  InputsInv'
<1> USE DEF InputsInv
<1>1. CASE Sample
  BY <1>1 DEF Sample, PadsAreConfigured, Pad, InputsAreFollowed, Believed, Watched, IsHigh, Psr
<1>2. CASE Acknowledge
  <2>1. PadsAreConfigured'
    <3>1. gpio' = [gpio EXCEPT ![sampled.port] = WriteIsr(@, sampled.pins)]
      BY <1>2 DEF Acknowledge
    <3>2. \A port \in Ports : WriteIsr(gpio[port], sampled.pins) \in Pad
      <4> TAKE port \in Ports
      <4>1. gpio[port] \in Pad
        BY DEF PadsAreConfigured
      <4> QED BY <4>1 DEF WriteIsr, Pad
    <3> QED BY <3>1, <3>2 DEF PadsAreConfigured
  <2>2. ASSUME NEW x \in Ports \X Pins
        PROVE  /\ gpio'[x[1]].gdir = gpio[x[1]].gdir /\ IsHigh(x)' = IsHigh(x)
               /\ x[2] \in gpio[x[1]].isr => x[2] \in gpio'[x[1]].isr \/ x \in visits'
    BY <1>2 DEF Acknowledge, WriteIsr, PadsAreConfigured, Pad, IsHigh, Psr
  <2>3. visits \subseteq visits' /\ seen' = seen
    BY <1>2 DEF Acknowledge
  <2> QED BY <2>1, <2>2, <2>3 DEF InputsAreFollowed, Believed, Watched
<1>3. CASE Look
  BY <1>3 DEF Look, PadsAreConfigured, Pad, InputsAreFollowed, Believed, Watched, IsHigh, Psr
<1>4. CASE SetMask
  <2>1. PadsAreConfigured'
    BY <1>4 DEF SetMask, Turn, PadsAreConfigured, Pad
  <2>2. ASSUME NEW x \in Ports \X Pins
        PROVE  /\ gpio'[x[1]].gdir = gpio[x[1]].gdir /\ IsHigh(x)' = IsHigh(x)
               /\ gpio'[x[1]].isr = gpio[x[1]].isr
    BY <1>4 DEF SetMask, Turn, PadsAreConfigured, Pad, IsHigh, Psr
  <2>3. visits' = visits /\ seen' = seen
    BY <1>4 DEF SetMask
  <2> QED BY <2>1, <2>2, <2>3 DEF InputsAreFollowed, Believed, Watched
<1>5. CASE TurnRound
  <2>1. PadsAreConfigured'
    BY <1>5 DEF TurnRound, Turn, PadsAreConfigured, Pad
  <2>2. ASSUME NEW x \in Ports \X Pins
        PROVE  /\ gpio'[x[1]].isr = gpio[x[1]].isr
               /\ \/ x[2] \in gpio'[x[1]].gdir
                  \/ x \in visits'
                  \/ x[2] \notin gpio[x[1]].gdir /\ IsHigh(x)' = IsHigh(x)
    BY <1>5 DEF TurnRound, Turn, PadsAreConfigured, Pad, IsHigh, Psr
  <2>3. visits \subseteq visits' /\ seen' = seen
    BY <1>5 DEF TurnRound
  <2> QED BY <2>1, <2>2, <2>3 DEF InputsAreFollowed, Believed, Watched
<1>6. CASE HostMoves
  <2>1. PICK y \in Ports \X Pins, level \in BOOLEAN :
           gpio' = [gpio EXCEPT ![y[1]] = SetInput(@, y[2], level)]
    BY <1>6 DEF HostMoves
  <2>2. PadsAreConfigured'
    <3>1. SetInput(gpio[y[1]], y[2], level) \in Pad
      BY PadsStayPads DEF PadsAreConfigured
    <3> QED BY <2>1, <3>1 DEF PadsAreConfigured
  <2>3. visits' = visits /\ seen' = seen
    BY <1>6 DEF HostMoves
  <2>4. ASSUME NEW x \in Ports \X Pins, x # y
        PROVE  /\ gpio'[x[1]].gdir = gpio[x[1]].gdir /\ IsHigh(x)' = IsHigh(x)
               /\ x[2] \in gpio[x[1]].isr => x[2] \in gpio'[x[1]].isr
    BY <2>1, <2>4 DEF SetInput, PadsAreConfigured, Pad, IsHigh, Psr
  <2>5. ASSUME y[2] \notin gpio[y[1]].gdir
        PROVE  /\ gpio'[y[1]].gdir = gpio[y[1]].gdir
               /\ IsHigh(y) = (y[2] \in gpio[y[1]].input) /\ IsHigh(y)' = level
               /\ y[2] \in gpio[y[1]].isr => y[2] \in gpio'[y[1]].isr
    BY <2>1, <2>5 DEF SetInput, PadsAreConfigured, Pad, IsHigh, Psr
  <2>6. gpio'[y[1]].gdir = gpio[y[1]].gdir
    BY <2>1 DEF SetInput, PadsAreConfigured, Pad
  <2>7. ASSUME y[2] \notin gpio[y[1]].gdir, IsHigh(y) # level, Watched(y[2], level)
        PROVE  y[2] \in gpio'[y[1]].isr
    BY <2>1, <2>5, <2>7, EdgesLatch DEF PadsAreConfigured, Pad
  <2> QED BY <2>2, <2>3, <2>4, <2>5, <2>6, <2>7 DEF InputsAreFollowed, Believed, Watched
<1> QED BY <1>1, <1>2, <1>3, <1>4, <1>5, <1>6 DEF InputsNext, InputsServes

LEMMA InputsStart ==
  ASSUME InputsInit
  PROVE  InputsInv
<1>1. gpio = [port \in Ports |-> [GpioNew EXCEPT !.imr = Pins, !.edge_sel = EdgePins, !.icr = IcrSetUp]]
  BY DEF InputsInit, EdgePins, IcrSetUp
<1>2. PadsAreConfigured
  BY <1>1 DEF PadsAreConfigured, Pad, GpioNew
<1>3. ASSUME NEW x \in Ports \X Pins PROVE ~IsHigh(x) /\ x \notin seen
  <2>1. gpio[x[1]].dr = {} /\ gpio[x[1]].input = {}
    BY <1>1 DEF GpioNew
  <2> QED BY <2>1 DEF InputsInit, IsHigh, Psr
<1>4. ASSUME NEW x \in Ports \X Pins PROVE Believed(x, IsHigh(x))
  <2>1. IsHigh(x) \in BOOLEAN
    BY DEF IsHigh
  <2>2. IsHigh(x) = FALSE /\ (x \in seen) = FALSE
    BY <1>3, <2>1
  <2> QED BY <2>2 DEF Believed
<1> QED BY <1>2, <1>4 DEF InputsInv, InputsAreFollowed

(* For every set of ports and pins, every trigger and any number of moves: *)
(* the firmware's belief of an input is true, or the interrupt that        *)
(* corrects it is latched or handled (set_input and the acknowledgement in *)
(* ISR of src/src/peripherals/gpio.rs).                                    *)
THEOREM InputsKeepUp == Spec => []InputsAreFollowed
<1>1. Init => InputsInv
  BY InputsStart DEF Init
<1>2. InputsInv /\ [Next]_vars => InputsInv'
  <2> SUFFICES ASSUME InputsInv, [Next]_vars PROVE InputsInv'
    OBVIOUS
  <2>1. CASE Only("inputs") /\ InputsNext
    BY <2>1, InputsStep
  <2>2. CASE UNCHANGED inputsVars
    BY <2>2 DEF inputsVars, InputsInv, PadsAreConfigured, Pad, InputsAreFollowed, Believed, Watched, IsHigh, Psr
  <2> QED BY <2>1, <2>2 DEF Next, Only, vars
<1> QED BY <1>1, <1>2, PTL DEF Spec, InputsInv

(***************************************************************************)
(* Numbers and sequences                                                   *)
(***************************************************************************)

LEMMA ModulusOfSmall ==
  ASSUME NEW b \in Nat \ {0}, NEW a \in Nat, a < b
  PROVE  a % b = a
  BY Z3

LEMMA ShiftBack ==
  ASSUME NEW a \in Nat, NEW s \in Nat \ {0}
  PROVE  (a * s) \div s = a
  BY Z3

LEMMA SmallerOfTwo ==
  ASSUME NEW a \in Nat, NEW b \in Nat
  PROVE  Min({a, b}) = IF a <= b THEN a ELSE b
  BY DEF Min

LEMMA LeastIsIn ==
  ASSUME NEW S \in SUBSET Nat, S # {}
  PROVE  Min(S) \in S
<1>1. \E x \in S : \A y \in S : x <= y
  BY LeastNumber
<1> QED
  BY <1>1 DEF Min

LEMMA AppendNew ==
  ASSUME NEW S, NEW s \in Seq(S), NEW e \in S
  PROVE  /\ Range(Append(s, e)) = Range(s) \union {e}
         /\ IsInjective(s) /\ e \notin Range(s) => IsInjective(Append(s, e))
<1>1. /\ DOMAIN s = 1 .. Len(s) /\ DOMAIN Append(s, e) = 1 .. Len(s) + 1 /\ Len(s) \in Nat
  BY AppendProperties, LenProperties
<1>2. \A i \in 1 .. Len(s) + 1 : Append(s, e)[i] = IF i <= Len(s) THEN s[i] ELSE e
  BY <1>1, AppendProperties
<1> QED
  BY <1>1, <1>2 DEF Range, IsInjective

LEMMA AppendAfter ==
  ASSUME NEW S, NEW s \in Seq(S), NEW t \in Seq(S), NEW e \in S
  PROVE  s \o Append(t, e) = Append(s \o t, e)
<1>1. <<e>> \in Seq(S) /\ s \o t \in Seq(S)
  BY ConcatProperties
<1>2. s \o (t \o <<e>>) = (s \o t) \o <<e>>
  BY <1>1, ConcatAssociative
<1> QED
  BY <1>1, <1>2, AppendIsConcat

LEMMA FrontAndLast ==
  ASSUME NEW S, NEW s \in Seq(S), s # <<>>
  PROVE  /\ Front(s) \in Seq(S) /\ Last(s) \in S /\ s = Append(Front(s), Last(s))
         /\ Range(s) = Range(Front(s)) \union {Last(s)}
         /\ IsInjective(s) => Last(s) \notin Range(Front(s))
<1>1. Len(s) \in Nat \ {0} /\ DOMAIN s = 1 .. Len(s)
  BY EmptySeq, LenProperties
<1>2. \A i \in 1 .. Len(s) : s[i] \in S
  BY ElementOfSeq
<1>3. /\ Front(s) \in Seq(S) /\ Len(Front(s)) = Len(s) - 1
      /\ \A i \in 1 .. Len(s) - 1 : Front(s)[i] = s[i]
  <2>1. \A i \in 1 .. Len(s) - 1 : s[i] \in S
    BY <1>1, <1>2
  <2> QED
    BY <1>1, <2>1, SubSeqProperties DEF Front
<1>4. Last(s) = s[Len(s)] /\ Last(s) \in S
  BY <1>1, <1>2 DEF Last
<1>5. s = Append(Front(s), Last(s))
  <2> DEFINE whole == Append(Front(s), Last(s))
  <2>1. /\ whole \in Seq(S) /\ Len(whole) = Len(Front(s)) + 1
        /\ \A i \in 1 .. Len(Front(s)) : whole[i] = Front(s)[i]
        /\ whole[Len(Front(s)) + 1] = Last(s)
    BY <1>3, <1>4, AppendProperties
  <2> HIDE DEF whole
  <2>2. Len(whole) = Len(s) /\ \A i \in 1 .. Len(s) : whole[i] = s[i]
    BY <1>1, <1>3, <1>4, <2>1
  <2> QED
    BY <2>1, <2>2, SeqEqual DEF whole
<1>6. IsInjective(s) => Last(s) \notin Range(Front(s))
  <2>1. DOMAIN Front(s) = 1 .. Len(s) - 1
    BY <1>3, LenProperties
  <2> QED
    BY <1>1, <1>3, <1>4, <2>1 DEF Range, IsInjective
<1>7. Range(s) = Range(Front(s)) \union {Last(s)}
  <2>1. Range(Append(Front(s), Last(s))) = Range(Front(s)) \union {Last(s)}
    BY <1>3, <1>4, AppendNew
  <2> QED
    BY <1>5, <2>1
<1> QED
  BY <1>3, <1>4, <1>5, <1>6, <1>7

(***************************************************************************)
(* A frame in a buffer                                                     *)
(***************************************************************************)

Code == {"none", "empty", "full", "inactive"}

Mb == [code : Code, ide : BOOLEAN, rtr : BOOLEAN, dlc : Nat, id : Nat,
       data : [1 .. DataBytes -> Nat]]

Can == [mcr : SUBSET {"MDIS", "FRZ", "HALT"}, lpb : BOOLEAN,
        imask : SUBSET (0 .. FlagBits - 1), iflag : SUBSET (0 .. FlagBits - 1),
        mb : [Mbs -> Mb], tx : Seq(CanFrame)]

LEMMA BuffersInRange ==
  /\ NumMb \in Nat /\ FlagBits \in Nat \ {0} /\ DataBytes \in Nat
  /\ \A m \in RxMbs \union {TxMb} : m \in Mbs /\ m \in 0 .. FlagBits - 1 /\ Flag(m) = m
<1>1. NumMb \in Nat /\ FlagBits \in Nat \ {0} /\ DataBytes \in Nat
  BY BufferAssumption
<1>2. ASSUME NEW m \in RxMbs \union {TxMb}
      PROVE  m \in 0 .. NumMb - 1 /\ m \in 0 .. FlagBits - 1
  BY <1>1, SmallerOfTwo, BufferAssumption
<1> QED
  BY <1>1, <1>2, ModulusOfSmall DEF Flag, Mbs

(* What the ID word of a buffer holds of an identifier brings it back.     *)
LEMMA IdentifierSurvives ==
  ASSUME NEW f \in CanFrame
  PROVE  IdField(f) \in Nat /\ IdOf(f.extended, IdField(f)) = f.id
<1> DEFINE std == 2 ^ StdBits
           ext == 2 ^ ExtBits
<1>1. std \in Nat \ {0} /\ ext \in Nat \ {0} /\ IdShift \in Nat \ {0}
  BY WidthAssumption DEF IdShift
<1>2. f.id \in Nat /\ f.extended \in BOOLEAN /\ f.id < IF f.extended THEN ext ELSE std
  BY DEF CanFrame
<1>3. IdField(f) = IF f.extended THEN f.id % ext ELSE (f.id % std) * IdShift
  BY DEF IdField
<1>4. \A field : IdOf(f.extended, field)
                   = IF f.extended THEN field % ext ELSE (field \div IdShift) % std
  BY DEF IdOf
<1> HIDE DEF std, ext
<1>5. CASE f.extended
  BY <1>1, <1>2, <1>3, <1>4, <1>5, ModulusOfSmall
<1>6. CASE ~f.extended
  <2>1. f.id % std = f.id
    BY <1>1, <1>2, <1>6, ModulusOfSmall
  <2>2. IdField(f) = f.id * IdShift /\ f.id * IdShift \in Nat
    BY <1>1, <1>2, <1>3, <1>6, <2>1
  <2>3. IdField(f) \div IdShift = f.id
    BY <1>1, <1>2, <2>2, ShiftBack
  <2> QED
    BY <1>4, <1>6, <2>1, <2>2, <2>3
<1> QED
  BY <1>2, <1>5, <1>6

LEMMA PaddedIsTyped ==
  ASSUME NEW data \in Seq(Nat)
  PROVE  Padded(data) \in [1 .. DataBytes -> Nat]
<1>1. \A k \in 1 .. DataBytes : k <= Len(data) => data[k] \in Nat
  BY BuffersInRange, ElementOfSeq, LenProperties
<1> QED
  BY <1>1 DEF Padded

(* A buffer with the fields of a frame is a buffer with that frame.        *)
LEMMA FieldsMakeFrame ==
  ASSUME NEW f \in CanFrame, NEW b, b.ide = f.extended, b.rtr = f.rtr, b.dlc = Len(f.data),
         b.id = IdField(f), b.data = Padded(f.data)
  PROVE  FrameOf(b) = f
<1>1. f.data \in Seq(Nat) /\ Len(f.data) \in Nat /\ Len(f.data) <= DataBytes /\ DataBytes \in Nat
  BY BuffersInRange, LenProperties DEF CanFrame
<1>2. Min({b.dlc, DataBytes}) = Len(f.data)
  BY <1>1, SmallerOfTwo
<1>3. SubSeq(b.data, 1, Len(f.data)) = f.data
  <2>1. \A k \in 1 .. Len(f.data) : b.data[k] = f.data[k] /\ b.data[k] \in Nat
    BY <1>1, ElementOfSeq DEF Padded
  <2>2. /\ SubSeq(b.data, 1, Len(f.data)) \in Seq(Nat)
        /\ Len(SubSeq(b.data, 1, Len(f.data))) = Len(f.data)
        /\ \A k \in 1 .. Len(f.data) : SubSeq(b.data, 1, Len(f.data))[k] = b.data[k]
    BY <1>1, <2>1, SubSeqProperties
  <2> QED
    BY <1>1, <2>1, <2>2, SeqEqual
<1>4. FrameOf(b) = [id |-> f.id, extended |-> f.extended, rtr |-> f.rtr, data |-> f.data]
  BY <1>2, <1>3, IdentifierSurvives DEF FrameOf
<1> QED
  BY <1>4 DEF CanFrame

LEMMA FilledHoldsFrame ==
  ASSUME NEW f \in CanFrame
  PROVE  Filled(f) \in Mb /\ Filled(f).code = "full" /\ FrameOf(Filled(f)) = f
<1>1. f.data \in Seq(Nat) /\ Len(f.data) \in Nat /\ Len(f.data) <= DataBytes /\ DataBytes \in Nat
  BY BuffersInRange, LenProperties DEF CanFrame
<1>2. Min({Len(f.data), DataBytes}) = Len(f.data)
  BY <1>1, SmallerOfTwo
<1>3. Filled(f) = [code |-> "full", ide |-> f.extended, rtr |-> f.rtr, dlc |-> Len(f.data),
                   id |-> IdField(f), data |-> Padded(f.data)]
  BY <1>2 DEF Filled
<1>4. Filled(f) \in Mb
  <2>1. f.extended \in BOOLEAN /\ f.rtr \in BOOLEAN
    BY DEF CanFrame
  <2>2. Padded(f.data) \in [1 .. DataBytes -> Nat] /\ IdField(f) \in Nat
    BY <1>1, PaddedIsTyped, IdentifierSurvives
  <2> QED
    BY <1>1, <1>3, <2>1, <2>2 DEF Mb, Code
<1> QED
  BY <1>3, <1>4, FieldsMakeFrame
(***************************************************************************)
(* The invariant                                                           *)
(***************************************************************************)

(* Only the buffers of the receiver are armed, a flag of theirs stands for *)
(* a frame, that of the transmit buffer for a frame launched.              *)
BuffersOk ==
  /\ can \in Can
  /\ \A m \in Mbs : can.mb[m].code = "empty" => m \in RxMbs
  /\ \A m \in RxMbs : m \in can.iflag => can.mb[m].code = "full"
  /\ TxMb \in can.iflag => sending = "busy"

(* The buffer in hand keeps its frame until it is armed again, and its     *)
(* flag, once cleared, stays so.                                           *)
ServingOk ==
  /\ serving \in [mb : RxMbs \union {TxMb, NoMb},
                   step : {"setup", "ready", "read", "clear", "arm"}]
  /\ serving.step = "read" => serving.mb \in RxMbs /\ can.mb[serving.mb].code = "full"
  /\ serving.step = "clear" =>
       \/ serving.mb \in RxMbs /\ can.mb[serving.mb].code = "full"
       \/ serving.mb = TxMb /\ sending = "busy"
  /\ serving.step = "arm" =>
       serving.mb \in RxMbs /\ can.mb[serving.mb].code = "full" /\ serving.mb \notin can.iflag

(* Frames whose CS word has been written.                                  *)
Launched == IF sending = "filled" THEN Front(asked) ELSE asked

SendingOk ==
  /\ sending \in {"free", "filled", "busy"}
  /\ asked \in Seq(Outgoing) /\ IsInjective(asked)
  /\ sending = "filled" =>
       /\ asked # <<>>
       /\ can.mb[TxMb].id = IdField(Last(asked))
       /\ can.mb[TxMb].data = Padded(Last(asked).data)
  /\ wire \in Seq(CanFrame)
  /\ wire \o can.tx = Launched

InMb(m) == FrameOf(can.mb[m])

(* Every frame accepted was read, or is in one buffer that waits.          *)
ReceivedOk ==
  /\ frames \in Seq(CanFrame) /\ IsInjective(frames)
  /\ Range(frames) \union {InMb(m) : m \in Waiting} = accepted
  /\ \A m \in Waiting : InMb(m) \notin Range(frames)
  /\ \A m, n \in Waiting : InMb(m) = InMb(n) => m = n
  /\ IsFiniteSet(accepted)
  /\ Len(frames) + Cardinality(Waiting) = Cardinality(accepted)

(* No frame is accepted before it is sent.                                 *)
AcceptedOk == accepted \subseteq Incoming \union Range(Launched)

MailboxInv == BuffersOk /\ ServingOk /\ SendingOk /\ ReceivedOk /\ AcceptedOk

LEMMA WaitingIsFinite == IsFiniteSet(Waiting) /\ Cardinality(Waiting) \in Nat
<1>1. Waiting \in SUBSET (0 .. NumMb - 1)
  BY BuffersInRange DEF Waiting, Mbs
<1>2. IsFiniteSet(0 .. NumMb - 1)
  BY BuffersInRange, FS_Interval
<1>3. IsFiniteSet(Waiting)
  BY <1>1, <1>2, FS_Subset
<1> QED
  BY <1>3, FS_CardinalityType

(* Frames of the waiting buffers are frames.                               *)
LEMMA WaitingAreFrames ==
  ASSUME MailboxInv
  PROVE  accepted \subseteq CanFrame /\ Range(Launched) \subseteq Outgoing
<1>1. Launched \in Seq(Outgoing)
  BY FrontAndLast DEF MailboxInv, SendingOk, Launched
<1>2. Range(Launched) \subseteq Outgoing
  BY <1>1, RangeOfSeq
<1> QED
  BY <1>2, BufferAssumption DEF MailboxInv, AcceptedOk

LEMMA ServingElsewhere ==
  ASSUME ServingOk, NEW m, NEW step
  PROVE  serving = At(m, step) <=> serving.mb = m /\ serving.step = step
  BY DEF ServingOk, At

LEMMA MailboxStart ==
  ASSUME MailboxInit
  PROVE  MailboxInv
<1> USE DEF MailboxInit
<1>1. can \in Can
  <2>1. [k \in 1 .. DataBytes |-> 0] \in [1 .. DataBytes -> Nat]
    OBVIOUS
  <2>2. <<>> \in Seq(CanFrame)
    BY EmptySeq
  <2>3. \A m \in Mbs : [code |-> "none", ide |-> FALSE, rtr |-> FALSE, dlc |-> 0, id |-> 0,
                         data |-> [k \in 1 .. DataBytes |-> 0]] \in Mb
    BY <2>1 DEF Mb, Code
  <2> QED
    BY <2>2, <2>3 DEF CanNew, Can
<1>2. /\ \A m \in Mbs : can.mb[m].code = "none"
      /\ can.iflag = {} /\ can.tx = <<>>
  BY DEF CanNew
<1>3. BuffersOk
  BY <1>1, <1>2 DEF BuffersOk
<1>4. ServingOk
  BY DEF ServingOk, At
<1>5. <<>> \in Seq(CanFrame) /\ <<>> \in Seq(Outgoing) /\ Len(<<>>) = 0
  BY EmptySeq
<1>6. DOMAIN <<>> = {}
  BY <1>5, LenProperties
<1>7. IsInjective(<<>>) /\ Range(<<>>) = {} /\ <<>> \o <<>> = <<>>
  BY <1>5, <1>6, ConcatEmptySeq DEF IsInjective, Range
<1>8. SendingOk
  BY <1>2, <1>5, <1>7 DEF SendingOk, Launched
<1>9. Waiting = {}
  BY <1>2, BuffersInRange DEF Waiting
<1>10. ReceivedOk
  BY <1>5, <1>7, <1>9, FS_EmptySet DEF ReceivedOk
<1> QED
  BY <1>3, <1>4, <1>8, <1>10 DEF MailboxInv, AcceptedOk
(***************************************************************************)
(* What a step leaves of the frames received                               *)
(***************************************************************************)

LEMMA SameFrames ==
  ASSUME ReceivedOk, Waiting' = Waiting, \A m \in Waiting : InMb(m)' = InMb(m),
         frames' = frames, accepted' = accepted
  PROVE  ReceivedOk'
<1>1. {InMb(m)' : m \in Waiting'} = {InMb(m) : m \in Waiting}
  OBVIOUS
<1> QED
  BY <1>1 DEF ReceivedOk

(* A frame that finds an empty buffer.                                     *)
LEMMA FrameArrives ==
  ASSUME ReceivedOk, ServingOk, BuffersOk,
         NEW m \in RxMbs, can.mb[m].code = "empty", NEW f \in CanFrame, f \notin accepted,
         \A n \in RxMbs : can'.mb[n] = IF n = m THEN Filled(f) ELSE can.mb[n],
         serving' = serving, frames' = frames, accepted' = accepted \union {f}
  PROVE  ReceivedOk'
<1>1. serving # At(m, "clear") /\ serving # At(m, "arm")
  BY BufferAssumption, ServingElsewhere DEF ServingOk
<1>2. m \notin Waiting
  BY DEF Waiting
<1>3. Waiting' = Waiting \union {m}
  <2>1. can'.mb[m].code = "full"
    BY FilledHoldsFrame
  <2>2. \A n \in RxMbs : n # m => can'.mb[n] = can.mb[n]
    OBVIOUS
  <2> QED
    BY <1>1, <2>1, <2>2 DEF Waiting
<1>4. InMb(m)' = f
  BY FilledHoldsFrame DEF InMb
<1>5. \A n \in Waiting : InMb(n)' = InMb(n)
  BY <1>2 DEF InMb, Waiting
<1>6. {InMb(n)' : n \in Waiting'} = {InMb(n) : n \in Waiting} \union {f}
  BY <1>3, <1>4, <1>5
<1>7. Range(frames) \union {InMb(n)' : n \in Waiting'} = accepted'
  BY <1>6 DEF ReceivedOk
<1>8. \A n \in Waiting : InMb(n) \in accepted
  BY DEF ReceivedOk
<1>9. f \notin Range(frames)
  BY DEF ReceivedOk
<1>10. \A n \in Waiting' : InMb(n)' \notin Range(frames)
  BY <1>3, <1>4, <1>5, <1>9 DEF ReceivedOk
<1>11. \A n, k \in Waiting' : InMb(n)' = InMb(k)' => n = k
  BY <1>3, <1>4, <1>5, <1>8 DEF ReceivedOk
<1>12. /\ Cardinality(Waiting') = Cardinality(Waiting) + 1
       /\ IsFiniteSet(accepted') /\ Cardinality(accepted') = Cardinality(accepted) + 1
  BY <1>2, <1>3, WaitingIsFinite, FS_AddElement DEF ReceivedOk
<1>13. Len(frames) + Cardinality(Waiting') = Cardinality(accepted')
  <2>1. Len(frames) \in Nat /\ Cardinality(Waiting) \in Nat
    BY WaitingIsFinite, LenProperties DEF ReceivedOk
  <2> QED
    BY <1>12, <2>1 DEF ReceivedOk
<1> QED
  BY <1>7, <1>10, <1>11, <1>12, <1>13 DEF ReceivedOk

(* A frame that is read.                                                   *)
LEMMA FrameIsRead ==
  ASSUME MailboxInv, ReadFrame
  PROVE  ReceivedOk'
<1> DEFINE m == serving.mb
<1>1. /\ serving.step = "read" /\ m \in RxMbs /\ can.mb[m].code = "full"
      /\ frames' = Append(frames, InMb(m)) /\ serving' = At(m, "clear")
      /\ can' = can /\ accepted' = accepted
  BY DEF MailboxInv, ServingOk, ReadFrame, InMb
<1> HIDE DEF m
<1>2. m \in Waiting
  BY <1>1 DEF Waiting, At
<1>3. Waiting' = Waiting \ {m}
  <2>1. \A n \in RxMbs : serving # At(n, "clear") /\ serving # At(n, "arm")
    BY <1>1 DEF At
  <2>2. \A n \in RxMbs : (serving' \in {At(n, "clear"), At(n, "arm")}) <=> n = m
    BY <1>1 DEF At
  <2>3. Waiting = {n \in RxMbs : can.mb[n].code = "full"}
    BY <2>1 DEF Waiting
  <2>4. Waiting' = {n \in RxMbs : can.mb[n].code = "full" /\ n # m}
    BY <1>1, <2>2 DEF Waiting
  <2> QED
    BY <2>3, <2>4
<1>4. \A n \in Waiting : InMb(n)' = InMb(n)
  BY <1>1 DEF InMb
<1>5. ReceivedOk /\ InMb(m) \in CanFrame
  BY <1>2, WaitingAreFrames DEF MailboxInv, ReceivedOk
<1>6. /\ frames' \in Seq(CanFrame) /\ Range(frames') = Range(frames) \union {InMb(m)}
      /\ IsInjective(frames') /\ Len(frames') = Len(frames) + 1
  BY <1>1, <1>2, <1>5, AppendNew, AppendProperties DEF ReceivedOk
<1>7. Range(frames') \union {InMb(n)' : n \in Waiting'} = accepted'
  <2>1. {InMb(n)' : n \in Waiting'} \union {InMb(m)} = {InMb(n) : n \in Waiting}
    BY <1>2, <1>3, <1>4
  <2> QED
    BY <1>1, <1>5, <1>6, <2>1 DEF ReceivedOk
<1>8. \A n \in Waiting' : InMb(n)' \notin Range(frames')
  BY <1>2, <1>3, <1>4, <1>5, <1>6 DEF ReceivedOk
<1>9. \A n, k \in Waiting' : InMb(n)' = InMb(k)' => n = k
  BY <1>3, <1>4, <1>5 DEF ReceivedOk
<1>10. Len(frames') + Cardinality(Waiting') = Cardinality(accepted')
  <2>1. Cardinality(Waiting') = Cardinality(Waiting) - 1
    BY <1>2, <1>3, WaitingIsFinite, FS_RemoveElement
  <2>2. Len(frames) \in Nat /\ Cardinality(Waiting) \in Nat
    BY <1>5, WaitingIsFinite, LenProperties DEF ReceivedOk
  <2> QED
    BY <1>1, <1>5, <1>6, <2>1, <2>2 DEF ReceivedOk
<1> QED
  BY <1>1, <1>5, <1>6, <1>7, <1>8, <1>9, <1>10 DEF ReceivedOk

(***************************************************************************)
(* What a step leaves of the buffers                                       *)
(***************************************************************************)

(* A write of a CS word that does not launch.                              *)
LEMMA ArmsOne ==
  ASSUME BuffersOk, NEW m \in RxMbs, can' = Armed(can, m)
  PROVE  /\ can' \in Can /\ can'.mb[m].code = "empty"
         /\ \A n \in Mbs : n # m => can'.mb[n] = can.mb[n]
         /\ can'.iflag = can.iflag /\ can'.tx = can.tx
<1>1. can \in Can /\ m \in Mbs
  BY BuffersInRange DEF BuffersOk
<1> DEFINE b == [code |-> "empty", ide |-> FALSE, rtr |-> FALSE, dlc |-> 0,
                 id |-> can.mb[m].id, data |-> can.mb[m].data]
<1>2. can' = [can EXCEPT !.mb[m] = b]
  BY DEF Armed, WriteCs
<1>3. b \in Mb
  BY <1>1 DEF Can, Mb, Code
<1>4. b.code = "empty"
  OBVIOUS
<1> HIDE DEF b
<1>5. can' = [can EXCEPT !.mb = [can.mb EXCEPT ![m] = b]]
  BY <1>2
<1>6. [can.mb EXCEPT ![m] = b] \in [Mbs -> Mb]
  BY <1>1, <1>3 DEF Can
<1>7. can'.mb = [can.mb EXCEPT ![m] = b] /\ can' \in Can
  BY <1>1, <1>5, <1>6 DEF Can
<1>8. can'.iflag = can.iflag /\ can'.tx = can.tx
  BY <1>1, <1>5 DEF Can
<1> QED
  BY <1>1, <1>4, <1>7, <1>8 DEF Can

(* A frame goes to an empty buffer.                                        *)
LEMMA DeliveredToOne ==
  ASSUME NEW c \in Can, NEW f \in CanFrame, EmptyMbs(c) # {}, EmptyMbs(c) \subseteq RxMbs
  PROVE  \E m \in RxMbs :
           /\ c.mb[m].code = "empty"
           /\ Delivered(c, f) \in Can
           /\ Delivered(c, f).mb = [c.mb EXCEPT ![m] = Filled(f)]
           /\ Delivered(c, f).iflag = c.iflag \union {m}
           /\ Delivered(c, f).tx = c.tx
<1> DEFINE m == Min(EmptyMbs(c))
<1>1. EmptyMbs(c) \in SUBSET Nat
  BY BuffersInRange DEF EmptyMbs, Mbs
<1>2. m \in EmptyMbs(c)
  BY <1>1, LeastIsIn
<1>3. Delivered(c, f) = [c EXCEPT !.mb[m] = Filled(f), !.iflag = @ \union {Flag(m)}]
  BY DEF Delivered
<1> HIDE DEF m
<1>4. m \in RxMbs /\ m \in Mbs /\ Flag(m) = m /\ m \in 0 .. FlagBits - 1 /\ c.mb[m].code = "empty"
  BY <1>2, BuffersInRange DEF EmptyMbs
<1>5. Delivered(c, f) = [c EXCEPT !.mb = [c.mb EXCEPT ![m] = Filled(f)], !.iflag = c.iflag \union {m}]
  BY <1>3, <1>4 DEF Can
<1>6. [c.mb EXCEPT ![m] = Filled(f)] \in [Mbs -> Mb] /\ c.iflag \union {m} \in SUBSET (0 .. FlagBits - 1)
  BY <1>4, FilledHoldsFrame DEF Can
<1>7. /\ Delivered(c, f) \in Can
      /\ Delivered(c, f).mb = [c.mb EXCEPT ![m] = Filled(f)]
      /\ Delivered(c, f).iflag = c.iflag \union {m}
      /\ Delivered(c, f).tx = c.tx
  BY <1>5, <1>6 DEF Can
<1> QED
  BY <1>4, <1>7
(***************************************************************************)
(* The steps                                                               *)
(***************************************************************************)

LEMMA PrepareKeeps ==
  ASSUME MailboxInv, Prepare
  PROVE  MailboxInv'
<1> USE DEF MailboxInv
<1>1. /\ serving.step = "setup" /\ UNCHANGED <<serving, sending, frames, asked, wire, accepted>>
      /\ \/ /\ \E lpb \in BOOLEAN :
                can' = [can EXCEPT !.imask = {Flag(m) : m \in RxMbs \union {TxMb}}, !.lpb = lpb]
         \/ \E m \in RxMbs : can.mb[m].code = "none" /\ can' = Armed(can, m)
  BY DEF Prepare
<1>2. ASSUME NEW lpb \in BOOLEAN,
             can' = [can EXCEPT !.imask = {Flag(m) : m \in RxMbs \union {TxMb}}, !.lpb = lpb]
      PROVE  MailboxInv'
  <2>1. {Flag(m) : m \in RxMbs \union {TxMb}} \in SUBSET (0 .. FlagBits - 1)
    BY BuffersInRange
  <2>2. can' \in Can /\ can'.mb = can.mb /\ can'.iflag = can.iflag /\ can'.tx = can.tx
    BY <1>2, <2>1 DEF BuffersOk, Can
  <2>3. BuffersOk' /\ ServingOk' /\ SendingOk' /\ AcceptedOk'
    BY <1>1, <2>2 DEF BuffersOk, ServingOk, SendingOk, AcceptedOk, Launched
  <2>4. ReceivedOk'
    BY <1>1, <2>2, SameFrames DEF Waiting, InMb
  <2> QED
    BY <2>3, <2>4
<1>3. ASSUME NEW m \in RxMbs, can.mb[m].code = "none", can' = Armed(can, m)
      PROVE  MailboxInv'
  <2>1. /\ can' \in Can /\ can'.mb[m].code = "empty"
        /\ \A n \in Mbs : n # m => can'.mb[n] = can.mb[n]
        /\ can'.iflag = can.iflag /\ can'.tx = can.tx
    BY <1>3, ArmsOne
  <2>2. m # TxMb /\ TxMb \in Mbs
    BY BufferAssumption, BuffersInRange
  <2>3. BuffersOk' /\ ServingOk' /\ SendingOk' /\ AcceptedOk'
    BY <1>1, <1>3, <2>1, <2>2, BuffersInRange
    DEF BuffersOk, ServingOk, SendingOk, AcceptedOk, Launched
  <2>4. Waiting' = Waiting /\ \A n \in Waiting : InMb(n)' = InMb(n)
    BY <1>1, <1>3, <2>1, BuffersInRange DEF Waiting, InMb
  <2>5. ReceivedOk'
    BY <1>1, <2>4, SameFrames
  <2> QED
    BY <2>3, <2>5
<1> QED
  BY <1>1, <1>2, <1>3

LEMMA LeaveFreezeKeeps ==
  ASSUME MailboxInv, LeaveFreeze
  PROVE  MailboxInv'
<1> USE DEF MailboxInv
<1>1. /\ serving.step = "setup" /\ serving' = At(NoMb, "ready")
      /\ UNCHANGED <<sending, frames, asked, wire, accepted>>
      /\ can' = [can EXCEPT !.mcr = {}]
  BY DEF LeaveFreeze, WriteCanMcr
<1>2. can' \in Can /\ can'.mb = can.mb /\ can'.iflag = can.iflag /\ can'.tx = can.tx
  BY <1>1 DEF BuffersOk, Can
<1>3. BuffersOk' /\ ServingOk' /\ SendingOk' /\ AcceptedOk'
  BY <1>1, <1>2 DEF BuffersOk, ServingOk, SendingOk, AcceptedOk, Launched, At
<1>4. Waiting' = Waiting /\ \A m \in Waiting : InMb(m)' = InMb(m)
  BY <1>1, <1>2 DEF Waiting, InMb, At
<1> QED
  BY <1>1, <1>3, <1>4, SameFrames

LEMMA ServeKeeps ==
  ASSUME MailboxInv, Serve
  PROVE  MailboxInv'
<1> USE DEF MailboxInv
<1>1. /\ serving = At(NoMb, "ready")
      /\ UNCHANGED <<can, sending, frames, asked, wire, accepted>>
  BY DEF Serve
<1>2. PICK m \in RxMbs \union {TxMb} :
        m \in can.iflag /\ serving' = At(m, IF m = TxMb THEN "clear" ELSE "read")
  BY BuffersInRange DEF Serve
<1>3. BuffersOk' /\ SendingOk' /\ AcceptedOk'
  BY <1>1 DEF BuffersOk, SendingOk, AcceptedOk, Launched
<1>4. ServingOk'
  BY <1>1, <1>2, BufferAssumption DEF ServingOk, BuffersOk, At
<1>5. Waiting' = Waiting /\ \A n \in Waiting : InMb(n)' = InMb(n)
  BY <1>1, <1>2, BufferAssumption DEF Waiting, InMb, At
<1> QED
  BY <1>1, <1>3, <1>4, <1>5, SameFrames

LEMMA ReadFrameKeeps ==
  ASSUME MailboxInv, ReadFrame
  PROVE  MailboxInv'
<1> USE DEF MailboxInv
<1>1. ReceivedOk'
  BY FrameIsRead
<1>2. BuffersOk' /\ SendingOk' /\ AcceptedOk'
  BY DEF ReadFrame, BuffersOk, SendingOk, AcceptedOk, Launched
<1>3. ServingOk'
  BY DEF ReadFrame, ServingOk, At
<1> QED
  BY <1>1, <1>2, <1>3

LEMMA ClearFlagKeeps ==
  ASSUME MailboxInv, ClearFlag
  PROVE  MailboxInv'
<1> USE DEF MailboxInv
<1> DEFINE m == serving.mb
<1>1. /\ serving.step = "clear" /\ can' = [can EXCEPT !.iflag = @ \ {Flag(m)}]
      /\ IF m = TxMb THEN serving' = At(NoMb, "ready") /\ sending' = "free"
         ELSE serving' = At(m, "arm") /\ sending' = sending
      /\ UNCHANGED <<frames, asked, wire, accepted>>
  BY DEF ClearFlag, WriteIflag
<1>2. \/ m \in RxMbs /\ can.mb[m].code = "full"
      \/ m = TxMb /\ sending = "busy"
  BY <1>1 DEF ServingOk
<1>3. Flag(m) = m
  BY <1>2, BuffersInRange
<1>4. /\ can' \in Can /\ can'.mb = can.mb /\ can'.tx = can.tx
      /\ can'.iflag = can.iflag \ {m}
  BY <1>1, <1>3 DEF BuffersOk, Can
<1>5. serving = At(m, "clear")
  BY <1>1, ServingElsewhere
<1> HIDE DEF m
<1>6. CASE m = TxMb
  <2>1. sending = "busy" /\ m \notin RxMbs
    BY <1>2, <1>6, BufferAssumption
  <2>2. sending' = "free" /\ serving' = At(NoMb, "ready")
    BY <1>1, <1>6
  <2>3. BuffersOk'
    BY <1>4, <1>6, <2>1 DEF BuffersOk
  <2>4. ServingOk'
    BY <2>2 DEF ServingOk, At
  <2>5. SendingOk' /\ AcceptedOk'
    BY <1>1, <1>4, <2>1, <2>2 DEF SendingOk, AcceptedOk, Launched
  <2>6. Waiting' = Waiting /\ \A n \in Waiting : InMb(n)' = InMb(n)
    BY <1>4, <1>5, <2>1, <2>2 DEF Waiting, InMb, At
  <2> QED
    BY <1>1, <2>3, <2>4, <2>5, <2>6, SameFrames
<1>7. CASE m # TxMb
  <2>1. m \in RxMbs /\ can.mb[m].code = "full"
    BY <1>2, <1>7
  <2>2. sending' = sending /\ serving' = At(m, "arm")
    BY <1>1, <1>7
  <2>3. BuffersOk'
    BY <1>4, <2>2 DEF BuffersOk
  <2>4. ServingOk'
    BY <1>4, <2>1, <2>2 DEF ServingOk, At
  <2>5. SendingOk' /\ AcceptedOk'
    BY <1>1, <1>4, <2>2 DEF SendingOk, AcceptedOk, Launched
  <2>6. Waiting' = Waiting /\ \A n \in Waiting : InMb(n)' = InMb(n)
    BY <1>4, <1>5, <2>2 DEF Waiting, InMb, At
  <2> QED
    BY <1>1, <2>3, <2>4, <2>5, <2>6, SameFrames
<1> QED
  BY <1>6, <1>7

LEMMA ArmKeeps ==
  ASSUME MailboxInv, Arm
  PROVE  MailboxInv'
<1> USE DEF MailboxInv
<1> DEFINE m == serving.mb
<1>1. /\ serving.step = "arm" /\ can' = Armed(can, m) /\ serving' = At(NoMb, "ready")
      /\ UNCHANGED <<sending, frames, asked, wire, accepted>>
  BY DEF Arm
<1>2. m \in RxMbs /\ m \in Mbs /\ can.mb[m].code = "full" /\ m \notin can.iflag
  BY <1>1, BuffersInRange DEF ServingOk
<1>3. serving = At(m, "arm")
  BY <1>1, ServingElsewhere
<1> HIDE DEF m
<1>4. /\ can' \in Can /\ can'.mb[m].code = "empty"
      /\ \A n \in Mbs : n # m => can'.mb[n] = can.mb[n]
      /\ can'.iflag = can.iflag /\ can'.tx = can.tx
  BY <1>1, <1>2, ArmsOne
<1>5. m # TxMb /\ TxMb \in Mbs
  BY <1>2, BufferAssumption, BuffersInRange
<1>6. BuffersOk'
  BY <1>1, <1>2, <1>4, <1>5, BuffersInRange DEF BuffersOk
<1>7. ServingOk'
  BY <1>1 DEF ServingOk, At
<1>8. SendingOk' /\ AcceptedOk'
  BY <1>1, <1>4, <1>5 DEF SendingOk, AcceptedOk, Launched
<1>9. Waiting' = Waiting /\ \A n \in Waiting : InMb(n)' = InMb(n)
  BY <1>1, <1>2, <1>3, <1>4, BuffersInRange DEF Waiting, InMb, At
<1> QED
  BY <1>1, <1>6, <1>7, <1>8, <1>9, SameFrames
LEMMA FillKeeps ==
  ASSUME MailboxInv, Fill
  PROVE  MailboxInv'
<1> USE DEF MailboxInv
<1>1. PICK f \in Outgoing :
        /\ f \notin Range(asked) /\ asked' = Append(asked, f)
        /\ can' = WriteBody(can, TxMb, IdField(f), f.data)
  BY DEF Fill
<1>2. /\ sending = "free" /\ sending' = "filled"
      /\ UNCHANGED <<serving, frames, wire, accepted>>
  BY DEF Fill
<1>3. f \in CanFrame /\ f.data \in Seq(Nat) /\ IdField(f) \in Nat
      /\ Padded(f.data) \in [1 .. DataBytes -> Nat]
  <2>1. f \in CanFrame
    BY BufferAssumption
  <2>2. f.data \in Seq(Nat)
    BY <2>1 DEF CanFrame
  <2> QED
    BY <2>1, <2>2, IdentifierSurvives, PaddedIsTyped
<1>4. can \in Can /\ TxMb \in Mbs
  BY BuffersInRange DEF BuffersOk
<1> DEFINE b == [can.mb[TxMb] EXCEPT !.id = IdField(f), !.data = Padded(f.data)]
<1>5. can' = [can EXCEPT !.mb = [can.mb EXCEPT ![TxMb] = b]]
  BY <1>1, <1>4 DEF WriteBody, Can
<1>6. b \in Mb /\ b.code = can.mb[TxMb].code /\ b.id = IdField(f) /\ b.data = Padded(f.data)
  BY <1>3, <1>4 DEF Can, Mb
<1> HIDE DEF b
<1>7. [can.mb EXCEPT ![TxMb] = b] \in [Mbs -> Mb]
  BY <1>4, <1>6 DEF Can
<1>8. /\ can' \in Can /\ can'.mb = [can.mb EXCEPT ![TxMb] = b]
      /\ can'.iflag = can.iflag /\ can'.tx = can.tx
  BY <1>4, <1>5, <1>7 DEF Can
<1>9. /\ \A n \in Mbs : can'.mb[n].code = can.mb[n].code
      /\ \A n \in Mbs : n # TxMb => can'.mb[n] = can.mb[n]
      /\ can'.mb[TxMb] = b
  BY <1>4, <1>6, <1>8 DEF Can
<1>10. BuffersOk'
  BY <1>2, <1>8, <1>9, BuffersInRange DEF BuffersOk
<1>11. ServingOk'
  BY <1>2, <1>8, <1>9, BuffersInRange DEF ServingOk
<1>12. /\ asked' \in Seq(Outgoing) /\ asked' # <<>> /\ IsInjective(asked')
       /\ Front(asked') = asked /\ Last(asked') = f
  <2>1. asked \in Seq(Outgoing) /\ IsInjective(asked)
    BY DEF SendingOk
  <2>2. asked' \in Seq(Outgoing) /\ asked' # <<>> /\ IsInjective(asked')
    BY <1>1, <2>1, AppendNew, AppendProperties
  <2>3. /\ Front(asked') \in Seq(Outgoing) /\ Last(asked') \in Outgoing
        /\ asked' = Append(Front(asked'), Last(asked'))
    BY <2>2, FrontAndLast
  <2> QED
    BY <1>1, <2>1, <2>2, <2>3, AppendInjective
<1>13. Launched = asked /\ Launched' = asked
  BY <1>2, <1>12 DEF Launched
<1>14. SendingOk' /\ AcceptedOk'
  BY <1>2, <1>6, <1>8, <1>9, <1>12, <1>13 DEF SendingOk, AcceptedOk
<1>15. Waiting' = Waiting /\ \A n \in Waiting : InMb(n)' = InMb(n)
  <2>1. \A n \in RxMbs : can'.mb[n] = can.mb[n]
    BY <1>9, BufferAssumption, BuffersInRange
  <2> QED
    BY <1>2, <2>1 DEF Waiting, InMb
<1>16. ReceivedOk'
  BY <1>2, <1>15, SameFrames
<1> QED
  BY <1>10, <1>11, <1>14, <1>16

(* A write of the CS word that launches the frame in the buffer.           *)
LEMMA LaunchesFrame ==
  ASSUME MailboxInv, sending = "filled", NEW f, f = Last(asked),
         NEW next, next = WriteCs(can, TxMb, Cs("tx", f))
  PROVE  /\ next \in Can /\ next.tx = Append(can.tx, f)
         /\ next.mb[TxMb].code = "inactive"
         /\ \A n \in Mbs : next.mb[n].code = "empty" => n \in RxMbs
         /\ \/ /\ \A n \in RxMbs : next.mb[n] = can.mb[n]
               /\ next.iflag = can.iflag \union {TxMb}
               /\ ~(can.lpb /\ EmptyMbs(can) # {})
            \/ \E m \in RxMbs :
                 /\ can.mb[m].code = "empty"
                 /\ \A n \in RxMbs : next.mb[n] = IF n = m THEN Filled(f) ELSE can.mb[n]
                 /\ next.iflag = can.iflag \union {TxMb, m}
                 /\ can.lpb /\ EmptyMbs(can) # {}
<1> DEFINE tx   == TxMb
           old  == can.mb[tx]
           off  == [code |-> "inactive", ide |-> f.extended, rtr |-> f.rtr,
                    dlc |-> Len(f.data), id |-> old.id, data |-> old.data]
           sent == [can EXCEPT !.mb = [can.mb EXCEPT ![tx] = off], !.iflag = can.iflag \union {tx}]
           heard == IF can.lpb THEN Delivered(sent, f) ELSE sent
<1>1. can \in Can /\ tx \in Mbs /\ tx \notin RxMbs /\ RxMbs \subseteq Mbs
      /\ Flag(tx) = tx /\ tx \in 0 .. FlagBits - 1
  BY BufferAssumption, BuffersInRange DEF MailboxInv, BuffersOk
<1>2. f \in CanFrame /\ f \in Outgoing
  BY BufferAssumption, FrontAndLast DEF MailboxInv, SendingOk
<1>3. old \in Mb /\ old.id = IdField(f) /\ old.data = Padded(f.data)
  BY <1>1 DEF Can, MailboxInv, SendingOk
<1>4. f.extended \in BOOLEAN /\ f.rtr \in BOOLEAN /\ Len(f.data) \in Nat
  BY <1>2, LenProperties DEF CanFrame
<1>5. off \in Mb /\ off.code = "inactive"
  BY <1>3, <1>4 DEF Mb, Code
<1>6. next = [heard EXCEPT !.tx = Append(@, f)]
  <2> DEFINE on == [code |-> "tx", ide |-> f.extended, rtr |-> f.rtr, dlc |-> Len(f.data),
                    id |-> old.id, data |-> old.data]
             written == [can EXCEPT !.mb[tx] = on]
  <2>1. written.mb[tx] = on
    BY <1>1 DEF Can
  <2>2. on.ide = f.extended /\ on.rtr = f.rtr /\ on.dlc = Len(f.data)
        /\ on.id = IdField(f) /\ on.data = Padded(f.data)
    BY <1>3
  <2> HIDE DEF on
  <2>3. FrameOf(written.mb[tx]) = f
    BY <1>2, <2>1, <2>2, FieldsMakeFrame
  <2>4. [on EXCEPT !.code = "inactive"] = off
    BY DEF on
  <2> DEFINE cs == Cs("tx", f)
  <2>5. /\ written = [can EXCEPT !.mb[tx] = [code |-> cs.code, ide |-> cs.ide, rtr |-> cs.rtr,
                                            dlc |-> cs.dlc, id |-> @.id, data |-> @.data]]
        /\ cs.code = "tx"
    BY <1>1 DEF Cs, on, Can
  <2> HIDE DEF off, cs
  <2>6. [written EXCEPT !.mb[tx].code = "inactive", !.iflag = @ \union {Flag(tx)}] = sent
    <3>1. [[can.mb EXCEPT ![tx] = on] EXCEPT ![tx] = off] = [can.mb EXCEPT ![tx] = off]
      BY <1>1 DEF Can
    <3>2. [written EXCEPT !.mb[tx].code = "inactive", !.iflag = @ \union {Flag(tx)}]
            = [can EXCEPT !.mb = [[can.mb EXCEPT ![tx] = on] EXCEPT ![tx] = off],
                          !.iflag = can.iflag \union {tx}]
      BY <1>1, <2>4 DEF Can
    <3> QED
      BY <3>1, <3>2
  <2>7. written.lpb = can.lpb
    BY <1>1 DEF Can
  <2> HIDE DEF sent, written
  <2>8. WriteCs(can, tx, cs)
          = [(IF written.lpb THEN Delivered(sent, f) ELSE sent) EXCEPT !.tx = Append(@, f)]
    <3> DEFINE w   == [can EXCEPT !.mb[tx] = [code |-> cs.code, ide |-> cs.ide, rtr |-> cs.rtr,
                                              dlc |-> cs.dlc, id |-> @.id, data |-> @.data]]
               s   == [w EXCEPT !.mb[tx].code = "inactive", !.iflag = @ \union {Flag(tx)}]
               g   == FrameOf(w.mb[tx])
    <3>1. WriteCs(can, tx, cs)
            = IF cs.code = "tx"
              THEN [(IF w.lpb THEN Delivered(s, g) ELSE s) EXCEPT !.tx = Append(@, g)]
              ELSE w
      BY SMTT(60) DEF WriteCs
    <3>2. w = written
      BY <2>5
    <3> HIDE DEF w
    <3>3. g = f /\ s = sent
      BY <2>3, <2>6, <3>2
    <3> HIDE DEF g, s
    <3> QED
      BY <2>5, <3>1, <3>2, <3>3
  <2>9. next = WriteCs(can, tx, cs)
    BY DEF cs
  <2> QED
    BY <2>7, <2>8, <2>9 DEF sent
<1> HIDE DEF off
<1>7. /\ sent \in Can /\ sent.mb = [can.mb EXCEPT ![tx] = off]
      /\ sent.iflag = can.iflag \union {tx} /\ sent.tx = can.tx
  <2>1. [can.mb EXCEPT ![tx] = off] \in [Mbs -> Mb]
        /\ can.iflag \union {tx} \in SUBSET (0 .. FlagBits - 1)
    BY <1>1, <1>5 DEF Can
  <2> QED
    BY <1>1, <2>1 DEF Can
<1>8. /\ sent.mb[tx].code = "inactive"
      /\ \A n \in Mbs : n # tx => sent.mb[n] = can.mb[n]
  BY <1>1, <1>5, <1>7 DEF Can
<1>9. EmptyMbs(sent) = EmptyMbs(can) /\ EmptyMbs(can) \subseteq RxMbs
  BY <1>1, <1>8 DEF EmptyMbs, MailboxInv, BuffersOk
<1> HIDE DEF sent, tx
<1>10. ASSUME NEW c \in Can, next = [c EXCEPT !.tx = Append(@, f)]
       PROVE  /\ next \in Can /\ next.tx = Append(c.tx, f)
              /\ next.mb = c.mb /\ next.iflag = c.iflag
  <2>1. Append(c.tx, f) \in Seq(CanFrame)
    BY <1>2, AppendProperties DEF Can
  <2> QED
    BY <1>10, <2>1 DEF Can
<1>11. CASE ~(can.lpb /\ EmptyMbs(can) # {})
  <2>1. heard = sent
    BY <1>9, <1>11 DEF Delivered
  <2>2. /\ next \in Can /\ next.tx = Append(can.tx, f)
        /\ next.mb = sent.mb /\ next.iflag = can.iflag \union {tx}
    BY <1>6, <1>7, <1>10, <2>1
  <2> QED
    BY <1>1, <1>8, <1>9, <1>11, <2>2 DEF tx, EmptyMbs
<1>12. CASE can.lpb /\ EmptyMbs(can) # {}
  <2>1. PICK m \in RxMbs :
          /\ sent.mb[m].code = "empty"
          /\ Delivered(sent, f) \in Can
          /\ Delivered(sent, f).mb = [sent.mb EXCEPT ![m] = Filled(f)]
          /\ Delivered(sent, f).iflag = sent.iflag \union {m}
          /\ Delivered(sent, f).tx = sent.tx
    BY <1>2, <1>7, <1>9, <1>12, DeliveredToOne
  <2>2. /\ next \in Can /\ next.tx = Append(can.tx, f)
        /\ next.mb = [sent.mb EXCEPT ![m] = Filled(f)] /\ next.iflag = can.iflag \union {tx, m}
    BY <1>6, <1>7, <1>10, <1>12, <2>1
  <2>3. next.mb[tx].code = "inactive" /\ can.mb[m].code = "empty"
        /\ \A n \in RxMbs : next.mb[n] = IF n = m THEN Filled(f) ELSE can.mb[n]
    BY <1>1, <1>7, <1>8, <2>1, <2>2 DEF Can
  <2>4. \A n \in Mbs : next.mb[n].code = "empty" => n \in RxMbs
    BY <1>7, <1>8, <1>9, <2>2 DEF Can, EmptyMbs
  <2> QED
    BY <1>12, <2>2, <2>3, <2>4 DEF tx
<1> QED
  BY <1>11, <1>12
LEMMA LaunchKeeps ==
  ASSUME MailboxInv, Launch
  PROVE  MailboxInv'
<1> USE DEF MailboxInv
<1> DEFINE f == Last(asked)
<1>1. /\ serving = At(NoMb, "ready") /\ sending = "filled" /\ sending' = "busy"
      /\ can' = WriteCs(can, TxMb, Cs("tx", f))
      /\ accepted' = IF can.lpb /\ EmptyMbs(can) # {} THEN accepted \union {f} ELSE accepted
      /\ UNCHANGED <<serving, frames, asked, wire>>
  BY DEF Launch
<1>2. /\ f \in Outgoing /\ f \in CanFrame /\ asked # <<>> /\ asked \in Seq(Outgoing)
      /\ Front(asked) \in Seq(Outgoing) /\ asked = Append(Front(asked), f)
      /\ Range(asked) = Range(Front(asked)) \union {f} /\ f \notin Range(Front(asked))
  BY <1>1, FrontAndLast, BufferAssumption DEF SendingOk
<1>3. Launched = Front(asked) /\ Launched' = asked
  BY <1>1 DEF Launched
<1>4. /\ can' \in Can /\ can'.tx = Append(can.tx, f)
      /\ can'.mb[TxMb].code = "inactive"
      /\ \A n \in Mbs : can'.mb[n].code = "empty" => n \in RxMbs
      /\ \/ /\ \A n \in RxMbs : can'.mb[n] = can.mb[n]
            /\ can'.iflag = can.iflag \union {TxMb} /\ accepted' = accepted
         \/ \E m \in RxMbs :
              /\ can.mb[m].code = "empty"
              /\ \A n \in RxMbs : can'.mb[n] = IF n = m THEN Filled(f) ELSE can.mb[n]
              /\ can'.iflag = can.iflag \union {TxMb, m} /\ accepted' = accepted \union {f}
  BY <1>1, LaunchesFrame
<1> HIDE DEF f
<1>6. BuffersOk'
  BY <1>1, <1>2, <1>4, FilledHoldsFrame, BufferAssumption DEF BuffersOk
<1>7. ServingOk'
  BY <1>1 DEF ServingOk, At
<1>8. SendingOk'
  <2>1. wire \o Append(can.tx, f) = asked
    <3>1. can.tx \in Seq(CanFrame) /\ wire \in Seq(CanFrame) /\ wire \o can.tx = Front(asked)
      BY <1>3 DEF SendingOk, BuffersOk, Can
    <3>2. wire \o Append(can.tx, f) = Append(wire \o can.tx, f)
      <4>1. can.tx \in Seq(CanFrame) /\ wire \in Seq(CanFrame) /\ f \in CanFrame
        BY <1>2, <3>1
      <4> QED
        BY <4>1, AppendAfter
    <3> QED
      BY <1>2, <3>1, <3>2
  <2> QED
    BY <1>1, <1>3, <1>4, <2>1 DEF SendingOk
<1>9. AcceptedOk'
  <2>1. accepted' \subseteq accepted \union {f}
    BY <1>4
  <2> QED
    BY <1>2, <1>3, <2>1 DEF AcceptedOk
<1>10. f \notin accepted
  BY <1>2, <1>3, BufferAssumption DEF AcceptedOk
<1>11. ReceivedOk'
  <2>1. CASE accepted' = accepted /\ \A n \in RxMbs : can'.mb[n] = can.mb[n]
    <3>1. Waiting' = Waiting /\ \A n \in Waiting : InMb(n)' = InMb(n)
      BY <1>1, <2>1 DEF Waiting, InMb
    <3> QED
      BY <1>1, <2>1, <3>1, SameFrames
  <2>2. ASSUME NEW m \in RxMbs, can.mb[m].code = "empty", accepted' = accepted \union {f},
               \A n \in RxMbs : can'.mb[n] = IF n = m THEN Filled(f) ELSE can.mb[n]
        PROVE  ReceivedOk'
    BY <1>1, <1>2, <1>10, <2>2, FrameArrives
  <2> QED
    BY <1>4, <2>1, <2>2
<1> QED
  BY <1>6, <1>7, <1>8, <1>9, <1>11

LEMMA HostPushesKeeps ==
  ASSUME MailboxInv, HostPushes
  PROVE  MailboxInv'
<1> USE DEF MailboxInv
<1>1. PICK f \in Incoming :
        f \notin accepted /\ can' = Delivered(can, f) /\ accepted' = accepted \union {f}
  BY DEF HostPushes
<1>2. EmptyMbs(can) # {} /\ UNCHANGED <<serving, sending, frames, asked, wire>>
  BY DEF HostPushes
<1>3. f \in CanFrame
  BY BufferAssumption
<1>4. EmptyMbs(can) \subseteq RxMbs /\ can \in Can
  BY DEF EmptyMbs, BuffersOk
<1>5. PICK m \in RxMbs :
        /\ can.mb[m].code = "empty" /\ can' \in Can
        /\ can'.mb = [can.mb EXCEPT ![m] = Filled(f)]
        /\ can'.iflag = can.iflag \union {m} /\ can'.tx = can.tx
  BY <1>1, <1>2, <1>3, <1>4, DeliveredToOne
<1>6. /\ m \in Mbs /\ m # TxMb /\ TxMb \in Mbs /\ RxMbs \subseteq Mbs
      /\ Filled(f).code = "full"
  BY <1>3, BufferAssumption, BuffersInRange, FilledHoldsFrame
<1>7. \A n \in Mbs : can'.mb[n] = IF n = m THEN Filled(f) ELSE can.mb[n]
  BY <1>4, <1>5 DEF Can
<1>8. BuffersOk'
  BY <1>2, <1>5, <1>6, <1>7 DEF BuffersOk
<1>9. ServingOk'
  BY <1>2, <1>5, <1>6, <1>7 DEF ServingOk
<1>10. SendingOk'
  BY <1>2, <1>5, <1>6, <1>7 DEF SendingOk, Launched
<1>11. AcceptedOk'
  BY <1>1, <1>2 DEF AcceptedOk, Launched
<1>12. ReceivedOk'
  BY <1>1, <1>2, <1>3, <1>5, <1>6, <1>7, FrameArrives
<1> QED
  BY <1>8, <1>9, <1>10, <1>11, <1>12

LEMMA HostTakesFramesKeeps ==
  ASSUME MailboxInv, HostTakesFrames
  PROVE  MailboxInv'
<1> USE DEF MailboxInv
<1>1. /\ wire' = wire \o can.tx /\ can' = [can EXCEPT !.tx = <<>>]
      /\ UNCHANGED <<serving, sending, frames, asked, accepted>>
  BY DEF HostTakesFrames, TakeTx
<1>2. /\ can \in Can /\ can.tx \in Seq(CanFrame) /\ wire \in Seq(CanFrame)
      /\ <<>> \in Seq(CanFrame)
  BY EmptySeq DEF BuffersOk, SendingOk, Can
<1>3. can' \in Can /\ can'.mb = can.mb /\ can'.iflag = can.iflag /\ can'.tx = <<>>
  BY <1>1, <1>2 DEF Can
<1>4. wire' \in Seq(CanFrame) /\ wire' \o can'.tx = wire \o can.tx
  BY <1>1, <1>2, <1>3, ConcatProperties, ConcatEmptySeq
<1>5. BuffersOk' /\ ServingOk' /\ SendingOk' /\ AcceptedOk'
  BY <1>1, <1>3, <1>4 DEF BuffersOk, ServingOk, SendingOk, AcceptedOk, Launched
<1>6. Waiting' = Waiting /\ \A n \in Waiting : InMb(n)' = InMb(n)
  BY <1>1, <1>3 DEF Waiting, InMb
<1> QED
  BY <1>1, <1>5, <1>6, SameFrames

LEMMA MailboxStep ==
  ASSUME MailboxInv, [Next]_vars
  PROVE  MailboxInv'
<1>1. CASE MailboxNext
  BY <1>1, PrepareKeeps, LeaveFreezeKeeps, ServeKeeps, ReadFrameKeeps, ClearFlagKeeps, ArmKeeps,
     FillKeeps, LaunchKeeps, HostPushesKeeps, HostTakesFramesKeeps DEF MailboxNext, MailboxServes
<1>2. CASE UNCHANGED mailboxVars
  <2>1. UNCHANGED <<can, serving, sending, frames, asked, wire, accepted>>
    BY <1>2 DEF mailboxVars
  <2>2. Waiting' = Waiting /\ \A n \in Waiting : InMb(n)' = InMb(n)
    BY <2>1 DEF Waiting, InMb
  <2>3. ReceivedOk'
    BY <2>1, <2>2, SameFrames DEF MailboxInv
  <2> QED
    BY <2>1, <2>3 DEF MailboxInv, BuffersOk, ServingOk, SendingOk, AcceptedOk, Launched
<1> QED
  BY <1>1, <1>2 DEF Next, Only, vars

(* For any number of buffers and any frames: a frame that found a buffer   *)
(* is read once and as it was sent, or waits in one buffer; frames that    *)
(* are sent are on the bus once and in order (Delivered and the CS write   *)
(* of src/src/peripherals/flexcan.rs).                                     *)
THEOREM MailboxesKeepFrames == Spec => []FramesAreKept
<1>1. Init => MailboxInv
  BY MailboxStart DEF Init
<1>2. MailboxInv /\ [Next]_vars => MailboxInv'
  BY MailboxStep
<1>3. MailboxInv => FramesAreKept
  <2> SUFFICES ASSUME MailboxInv PROVE FramesAreKept
    OBVIOUS
  <2> QED
    BY DEF MailboxInv, SendingOk, ReceivedOk, FramesAreKept, Launched, InMb
<1> QED
  BY <1>1, <1>2, <1>3, PTL DEF Spec

(***************************************************************************)
(* The host takes the trace                                                *)
(***************************************************************************)
LEMMA TakesNextIsNext ==
  ASSUME NEW w, NEW event
  PROVE  TakesNext(w, event) = HostTakes(w, event)
<1>1. {HostTakes(v, event) : v \in {w}} = {HostTakes(w, event)}
  OBVIOUS
<1> QED
  BY <1>1 DEF TakesNext

(* What the host makes of a trace, event by event.                         *)
ServedSteps(after, w, list) ==
  /\ DOMAIN after = 0 .. Len(list) /\ after[0] = w
  /\ \A k \in 1 .. Len(list) : after[k] = HostTakes(after[k - 1], list[k])

LEMMA ServedFollowsTheTrace ==
  ASSUME NEW S, NEW E, NEW w \in S, \A v \in S, e \in E : HostTakes(v, e) \in S
  PROVE  \A list \in Seq(E) : \E after :
           /\ ServedSteps(after, w, list) /\ Served(w, list) = after[Len(list)]
           /\ \A k \in 0 .. Len(list) : after[k] \in S
<1> TAKE list \in Seq(E)
<1> DEFINE n == Len(list)
           step == [k \in 1 .. n |-> [v \in S |-> HostTakes(v, list[k])]]
           Solves(f) == f = [k \in 0 .. n |->
                               IF k = 0 THEN w ELSE TakesNext(f[k - 1], list[k])]
<1>1. n \in Nat /\ \A k \in 1 .. n : list[k] \in E
  BY LenProperties, ElementOfSeq
<1>2. step \in [1 .. n -> [S -> S]]
  BY <1>1
<1>3. PICK g : /\ g \in [0 .. n -> S] /\ g[0] = w
               /\ \A k \in 1 .. n : g[k] = step[k][g[k - 1]]
  <2> HIDE DEF step, n
  <2>1. \E g : IsChain(g, n, S, w, step)
    BY <1>1, <1>2, ChainExists
  <2> QED
    BY <2>1 DEF IsChain
<1>4. Solves(g)
  <2>1. \A k \in 1 .. n : g[k] = TakesNext(g[k - 1], list[k])
    <3> TAKE k \in 1 .. n
    <3>1. k - 1 \in 0 .. n
      BY <1>1
    <3>2. g[k - 1] \in S
      BY <1>3, <3>1
    <3> QED
      BY <1>3, <3>2, TakesNextIsNext
  <2>2. g = [k \in 0 .. n |-> g[k]]
    BY <1>3
  <2>3. \A k \in 0 .. n : g[k] = IF k = 0 THEN w ELSE TakesNext(g[k - 1], list[k])
    <3> TAKE k \in 0 .. n
    <3>1. k = 0 \/ k \in 1 .. n
      BY <1>1
    <3> QED
      BY <1>3, <2>1, <3>1
  <2> HIDE DEF n
  <2> QED
    BY <2>2, <2>3
<1>5. PICK f : Solves(f) /\ Served(w, list) = f[n]
  <2>1. Served(w, list) = (CHOOSE f : Solves(f))[n]
    BY DEF Served
  <2> HIDE DEF Solves
  <2> QED
    BY <1>4, <2>1
<1>6. ServedSteps(f, w, list)
  <2>1. \A k \in 0 .. n : f[k] = IF k = 0 THEN w ELSE TakesNext(f[k - 1], list[k])
    BY <1>5
  <2>2. DOMAIN f = 0 .. n /\ 0 \in 0 .. n
    BY <1>1, <1>5
  <2>3. ASSUME NEW k \in 1 .. n PROVE f[k] = HostTakes(f[k - 1], list[k])
    <3>1. k \in 0 .. n /\ k # 0
      BY <1>1
    <3> QED
      BY <2>1, <3>1, TakesNextIsNext
  <2> QED
    BY <2>1, <2>2, <2>3 DEF ServedSteps
<1>7. \A k \in 0 .. n : f[k] \in S
  <2> DEFINE Typed == {k \in 0 .. n : f[k] \in S}
  <2>1. 0 \in Typed
    BY <1>1, <1>6 DEF ServedSteps
  <2>2. ASSUME NEW k \in 1 .. n, k - 1 \in Typed PROVE k \in Typed
    <3>1. f[k - 1] \in S /\ k \in 0 .. n /\ list[k] \in E
      BY <1>1, <2>2
    <3> QED
      BY <1>6, <3>1 DEF ServedSteps
  <2> HIDE DEF Typed, n
  <2>3. \A k \in 0 .. n : k \in Typed
    BY <1>1, <2>1, <2>2, UpToTheBound
  <2> QED
    BY <2>3 DEF Typed
<1> QED
  BY <1>5, <1>6, <1>7

(* An empty trace changes nothing, and one more event is taken last.       *)
LEMMA ServedGrows ==
  ASSUME NEW S, NEW E, NEW w \in S, NEW list \in Seq(E),
         \A v \in S, e \in E : HostTakes(v, e) \in S
  PROVE  /\ Served(w, list) \in S
         /\ Served(w, <<>>) = w
         /\ \A e \in E : Served(w, Append(list, e)) = HostTakes(Served(w, list), e)
<1> DEFINE Follows(l) == \E after :
             /\ ServedSteps(after, w, l) /\ Served(w, l) = after[Len(l)]
             /\ \A k \in 0 .. Len(l) : after[k] \in S
<1>0. \A l \in Seq(E) : Follows(l)
  BY ServedFollowsTheTrace
<1>1. Served(w, list) \in S
  <2>1. Len(list) \in Nat
    BY LenProperties
  <2> QED
    BY <1>0, <2>1
<1>2. Served(w, <<>>) = w
  <2>1. <<>> \in Seq(E) /\ Len(<<>>) = 0
    BY EmptySeq
  <2>2. PICK f : ServedSteps(f, w, <<>>) /\ Served(w, <<>>) = f[Len(<<>>)]
    BY <1>0, <2>1
  <2> QED
    BY <2>1, <2>2 DEF ServedSteps
<1>3. ASSUME NEW e \in E
      PROVE  Served(w, Append(list, e)) = HostTakes(Served(w, list), e)
  <2> DEFINE more == Append(list, e)
             n    == Len(list)
  <2>1. /\ more \in Seq(E) /\ Len(more) = n + 1 /\ n \in Nat
        /\ \A k \in 1 .. n : more[k] = list[k]
        /\ more[n + 1] = e
    BY AppendProperties, LenProperties
  <2>2. PICK f : ServedSteps(f, w, list) /\ Served(w, list) = f[n]
    BY <1>0
  <2> HIDE DEF more
  <2>3. PICK g : ServedSteps(g, w, more) /\ Served(w, more) = g[Len(more)]
    BY <1>0, <2>1
  <2> DEFINE Same == {k \in 0 .. n : g[k] = f[k]}
  <2>4. 0 \in Same
    BY <2>1, <2>2, <2>3 DEF ServedSteps
  <2>5. ASSUME NEW k \in 1 .. n, k - 1 \in Same PROVE k \in Same
    <3>1. g[k - 1] = f[k - 1] /\ k \in 0 .. n /\ k \in 1 .. Len(more)
      BY <2>1, <2>5
    <3>2. g[k] = HostTakes(g[k - 1], more[k]) /\ f[k] = HostTakes(f[k - 1], list[k])
      BY <2>2, <2>3, <3>1 DEF ServedSteps
    <3> QED
      BY <2>1, <3>1, <3>2
  <2>6. n \in Same
    <3> HIDE DEF Same, n
    <3>1. \A k \in 0 .. n : k \in Same
      BY <2>1, <2>4, <2>5, UpToTheBound
    <3> QED
      BY <2>1, <3>1
  <2>7. g[n + 1] = HostTakes(g[n], e)
    <3>1. n + 1 \in 1 .. Len(more) /\ n + 1 - 1 = n
      BY <2>1
    <3> QED
      BY <2>1, <2>3, <3>1 DEF ServedSteps
  <2> QED
    BY <2>1, <2>2, <2>3, <2>6, <2>7 DEF more
<1> QED
  BY <1>1, <1>2, <1>3

(***************************************************************************)
(* The LPI2C and its register files                                        *)
(***************************************************************************)
Ending == [op |-> "STOP"]

Segments == UNION {{j[k] : k \in DOMAIN j} : j \in JobsOf["i2c"]}
Commands == {Ending} \union UNION {Range(SegmentWrites(seg)) : seg \in Segments}

I2cEvents == {[from |-> "i2c", cmd |-> cmd] : cmd \in Commands}

Addresses(b) == DOMAIN b.peers \union {NoDevice}
Banks(b)     == [DOMAIN b.peers -> RegFile]

I2cCtl(b) ==
  [external : {b.external}, men : BOOLEAN, mier : SUBSET {"NDF", "RDF"}, rdde : BOOLEAN,
   sticky : SUBSET {"EPF", "SDF", "NDF"}, rx : Seq(Byte), active : Addresses(b),
   ext_busy : BOOLEAN]

I2cWires(b) == [c : I2cCtl(b), devices : Banks(b), at : Addresses(b)]

LEMMA RemainderIsByte ==
  ASSUME NEW x \in Int
  PROVE  x % RegCount \in Byte
<1>1. RegCount \in Nat \ {0}
  BY WiringAssumption
<1>2. x % RegCount \in 0 .. RegCount - 1
  BY <1>1
<1> QED
  BY <1>2 DEF Byte

LEMMA RegistersStayRegisters ==
  ASSUME NEW d \in RegFile
  PROVE  /\ d.ptr \in Byte /\ d.ptr \in Nat /\ d.regs \in [Byte -> Byte]
         /\ \A read \in BOOLEAN : Started(d, read) = [d EXCEPT !.expect_ptr = ~read]
                                  /\ Started(d, read) \in RegFile
         /\ \A byte \in Byte : Stored(d, byte) \in RegFile
         /\ \A n \in Nat : /\ FetchedFrom(d, n) \in RegFile /\ Fetched(d, n) \in Seq(Byte)
                           /\ Len(Fetched(d, n)) = n
                           /\ \A k \in 1 .. n : Fetched(d, n)[k] = d.regs[(d.ptr + k - 1) % RegCount]
<1>1. /\ d.ptr \in Byte /\ d.regs \in [Byte -> Byte] /\ d.expect_ptr \in BOOLEAN
      /\ d.ptr \in Nat
  BY DEF RegFile, Byte
<1>2. ASSUME NEW read \in BOOLEAN
      PROVE  Started(d, read) = [d EXCEPT !.expect_ptr = ~read] /\ Started(d, read) \in RegFile
  BY DEF Started, RegFile
<1>3. ASSUME NEW byte \in Byte PROVE Stored(d, byte) \in RegFile
  <2>1. CASE d.expect_ptr
    BY <2>1 DEF Stored, RegFile
  <2>2. CASE ~d.expect_ptr
    <3>1. Stepped(d.ptr) \in Byte
      BY <1>1, RemainderIsByte DEF Stepped
    <3>2. Stored(d, byte) = [d EXCEPT !.regs = [d.regs EXCEPT ![d.ptr] = byte], !.ptr = Stepped(d.ptr)]
      BY <2>2 DEF Stored
    <3> QED
      BY <1>1, <3>1, <3>2 DEF RegFile
  <2> QED
    BY <2>1, <2>2
<1>4. ASSUME NEW n \in Nat
      PROVE  /\ FetchedFrom(d, n) \in RegFile /\ Fetched(d, n) \in Seq(Byte)
             /\ Len(Fetched(d, n)) = n
             /\ \A k \in 1 .. n : Fetched(d, n)[k] = d.regs[(d.ptr + k - 1) % RegCount]
  <2>1. (d.ptr + n) % RegCount \in Byte
    BY <1>1, RemainderIsByte
  <2>2. FetchedFrom(d, n) \in RegFile
    BY <1>1, <2>1 DEF FetchedFrom, RegFile
  <2>3. \A k \in 1 .. n : d.regs[(d.ptr + k - 1) % RegCount] \in Byte
    <3> TAKE k \in 1 .. n
    <3>1. (d.ptr + k - 1) % RegCount \in Byte
      BY <1>1, RemainderIsByte
    <3> QED
      BY <1>1, <3>1
  <2> QED
    BY <2>2, <2>3 DEF Fetched
<1> QED
  BY <1>1, <1>2, <1>3, <1>4

LEMMA InARow ==
  ASSUME NEW a, NEW b, NEW c
  PROVE  <<a>> \o (<<>> \o <<b>>) = <<a, b>> /\ <<a>> \o (<<b>> \o <<c>>) = <<a, b, c>>
<1> DEFINE S == {a, b, c}
<1>1. <<>> \in Seq(S) /\ <<a>> \in Seq(S) /\ <<b>> \in Seq(S) /\ <<c>> \in Seq(S)
  OBVIOUS
<1>2. <<a, b>> \in Seq(S) /\ <<a, b, c>> \in Seq(S)
  OBVIOUS
<1> HIDE DEF S
<1>3. <<a>> \o <<b>> = <<a, b>>
  <2>1. /\ <<a>> \o <<b>> \in Seq(S) /\ Len(<<a>> \o <<b>>) = 2
        /\ (<<a>> \o <<b>>)[1] = a /\ (<<a>> \o <<b>>)[2] = b
    BY <1>1, ConcatProperties
  <2>2. Len(<<a, b>>) = 2 /\ <<a, b>>[1] = a /\ <<a, b>>[2] = b
    OBVIOUS
  <2>3. \A i \in 1 .. Len(<<a, b>>) : (<<a>> \o <<b>>)[i] = <<a, b>>[i]
    <3> TAKE i \in 1 .. Len(<<a, b>>)
    <3>1. i = 1 \/ i = 2
      BY <2>2
    <3> QED
      BY <2>1, <2>2, <3>1
  <2> QED
    BY <1>2, <2>1, <2>2, <2>3, SeqEqual
<1>6. <<a, b>> \o <<c>> = <<a, b, c>>
  <2>1. /\ <<a, b>> \o <<c>> \in Seq(S) /\ Len(<<a, b>> \o <<c>>) = 3
        /\ (<<a, b>> \o <<c>>)[1] = a /\ (<<a, b>> \o <<c>>)[2] = b
        /\ (<<a, b>> \o <<c>>)[3] = c
    BY <1>1, <1>2, ConcatProperties
  <2>2. Len(<<a, b, c>>) = 3 /\ <<a, b, c>>[1] = a /\ <<a, b, c>>[2] = b /\ <<a, b, c>>[3] = c
    OBVIOUS
  <2>3. \A i \in 1 .. Len(<<a, b, c>>) : (<<a, b>> \o <<c>>)[i] = <<a, b, c>>[i]
    <3> TAKE i \in 1 .. Len(<<a, b, c>>)
    <3>1. i = 1 \/ i = 2 \/ i = 3
      BY <2>2
    <3> QED
      BY <2>1, <2>2, <3>1
  <2> QED
    BY <1>2, <2>1, <2>2, <2>3, SeqEqual
<1>4. <<>> \o <<b>> = <<b>>
  BY <1>1, ConcatEmptySeq
<1>5. (<<a>> \o <<b>>) \o <<c>> = <<a>> \o (<<b>> \o <<c>>)
  BY <1>1, ConcatAssociative
<1> QED
  BY <1>3, <1>4, <1>5, <1>6

(* The writes of a segment, one by one.                                    *)
SegmentLength(seg) ==
  1 + (IF seg.read THEN (IF seg.skip = 0 THEN 0 ELSE 1) + 1 ELSE Len(seg.bytes))

SegmentWrite(seg, i) ==
  IF i = 1 THEN [op |-> "START", addr |-> seg.addr, read |-> seg.read]
  ELSE IF ~seg.read THEN [op |-> "TX", byte |-> seg.bytes[i - 1]]
  ELSE IF i = SegmentLength(seg) THEN [op |-> "RX", count |-> seg.count]
  ELSE [op |-> "DISCARD", count |-> seg.skip]

LEMMA SegmentIsWrites ==
  ASSUME NEW seg, IsSegment(seg)
  PROVE  /\ SegmentLength(seg) \in Nat \ {0}
         /\ SegmentWrites(seg) = [i \in 1 .. SegmentLength(seg) |-> SegmentWrite(seg, i)]
<1> DEFINE n     == SegmentLength(seg)
           start == [op |-> "START", addr |-> seg.addr, read |-> seg.read]
           All   == {SegmentWrite(seg, i) : i \in 1 .. n} \union {start}
           whole == [i \in 1 .. n |-> SegmentWrite(seg, i)]
<1>1. /\ seg.read \in BOOLEAN /\ seg.skip \in Nat /\ seg.count \in Nat
      /\ Len(seg.bytes) \in Nat /\ DOMAIN seg.bytes = 1 .. Len(seg.bytes)
  BY LenProperties DEF IsSegment
<1>2. n \in Nat \ {0}
  BY <1>1 DEF SegmentLength
<1>3. CASE ~seg.read
  <2> DEFINE tail == [k \in DOMAIN seg.bytes |-> [op |-> "TX", byte |-> seg.bytes[k]]]
  <2>1. n = 1 + Len(seg.bytes)
    BY <1>3 DEF SegmentLength
  <2>2. \A k \in 1 .. Len(seg.bytes) : tail[k] = SegmentWrite(seg, k + 1)
    BY <1>1, <1>3 DEF SegmentWrite
  <2>3. SegmentWrites(seg) = <<start>> \o tail
    BY <1>3 DEF SegmentWrites
  <2>4. start = SegmentWrite(seg, 1)
    BY DEF SegmentWrite
  <2>5. tail = [k \in 1 .. Len(seg.bytes) |-> SegmentWrite(seg, k + 1)]
    BY <1>1, <2>2
  <2> HIDE DEF tail, start
  <2>6. <<SegmentWrite(seg, 1)>> \o tail = whole
    BY <1>1, <2>1, <2>5
  <2> QED
    BY <1>2, <2>3, <2>4, <2>6
<1>4. CASE seg.read /\ seg.skip = 0
  <2>1. n = 2 /\ SegmentWrites(seg) = <<start>> \o (<<>> \o <<[op |-> "RX", count |-> seg.count]>>)
    BY <1>4 DEF SegmentLength, SegmentWrites, Skips
  <2>2. SegmentWrite(seg, 1) = start /\ SegmentWrite(seg, 2) = [op |-> "RX", count |-> seg.count]
    BY <1>4, <2>1 DEF SegmentWrite
  <2>3. SegmentWrites(seg) = <<SegmentWrite(seg, 1), SegmentWrite(seg, 2)>>
    BY <2>1, <2>2, InARow, Zenon
  <2> QED
    BY <1>2, <2>1, <2>3
<1>5. CASE seg.read /\ seg.skip # 0
  <2>1. n = 3 /\ SegmentWrites(seg) = <<start>> \o (<<[op |-> "DISCARD", count |-> seg.skip]>>
                                                      \o <<[op |-> "RX", count |-> seg.count]>>)
    BY <1>1, <1>5 DEF SegmentLength, SegmentWrites, Skips
  <2>2. /\ SegmentWrite(seg, 1) = start /\ SegmentWrite(seg, 3) = [op |-> "RX", count |-> seg.count]
        /\ SegmentWrite(seg, 2) = [op |-> "DISCARD", count |-> seg.skip]
    BY <1>5, <2>1 DEF SegmentWrite
  <2> DEFINE skip == [op |-> "DISCARD", count |-> seg.skip]
             take == [op |-> "RX", count |-> seg.count]
  <2>3. SegmentWrites(seg) = <<SegmentWrite(seg, 1), SegmentWrite(seg, 2), SegmentWrite(seg, 3)>>
    <3>1. <<start>> \o (<<skip>> \o <<take>>) = <<start, skip, take>>
      BY InARow
    <3> QED
      BY <2>1, <2>2, <3>1
  <2> QED
    BY <1>2, <2>1, <2>3
<1> QED
  BY <1>1, <1>3, <1>4, <1>5

LEMMA SegmentIsTyped ==
  ASSUME NEW seg, IsSegment(seg), NEW cmd \in Range(SegmentWrites(seg))
  PROVE  \/ cmd.op = "START" /\ cmd.read \in BOOLEAN
         \/ cmd.op = "TX" /\ cmd.byte \in Byte
         \/ cmd.op \in {"RX", "DISCARD"} /\ cmd.count \in Nat
<1>1. PICK i \in 1 .. SegmentLength(seg) : cmd = SegmentWrite(seg, i)
  BY SegmentIsWrites DEF Range
<1>2. ~seg.read /\ i # 1 => i - 1 \in 1 .. Len(seg.bytes)
  BY SegmentIsWrites, LenProperties DEF SegmentLength, IsSegment
<1>3. ~seg.read /\ i # 1 => seg.bytes[i - 1] \in Byte
  BY <1>2, ElementOfSeq DEF IsSegment
<1> QED
  BY <1>1, <1>3 DEF SegmentWrite, IsSegment

(* What a driver writes.                                                   *)
LEMMA CommandsAreTyped ==
  ASSUME NEW cmd \in Commands
  PROVE  \/ cmd.op = "START" /\ cmd.read \in BOOLEAN
         \/ cmd.op = "TX" /\ cmd.byte \in Byte
         \/ cmd.op \in {"RX", "DISCARD"} /\ cmd.count \in Nat
         \/ cmd.op = "STOP" /\ cmd = Ending
<1>1. CASE cmd = Ending
  BY <1>1 DEF Ending
<1>2. CASE cmd # Ending
  <2>1. PICK seg \in Segments : cmd \in Range(SegmentWrites(seg))
    BY <1>2 DEF Commands
  <2>2. PICK j \in JobsOf["i2c"] : seg \in {j[k] : k \in DOMAIN j}
    BY DEF Segments
  <2>3. IsSegment(seg)
    BY <2>2, WiringAssumption
  <2> QED
    BY <2>1, <2>3, SegmentIsTyped
<1> QED
  BY <1>1, <1>2

(* What the drivers of a bus can tell of it, and what a command does to    *)
(* it, whether the devices are attached or the host answers for them.      *)
Observed(rx, nack, devices, at) == [rx |-> rx, nack |-> nack, devices |-> devices, at |-> at]

View(c, devices, at) == Observed(c.rx, "NDF" \in c.sticky, devices, at)

ViewOf(w) == View(w.c, w.devices, w.at)

Views(b) == [rx : Seq(Byte), nack : BOOLEAN, devices : Banks(b), at : Addresses(b)]

StartIn(v, cmd) ==
  IF cmd.addr \in DOMAIN v.devices
  THEN Observed(v.rx, v.nack,
                [v.devices EXCEPT ![cmd.addr] = Started(v.devices[cmd.addr], cmd.read)], cmd.addr)
  ELSE Observed(v.rx, TRUE, v.devices, NoDevice)

TransmitIn(v, cmd) ==
  IF v.at = NoDevice THEN Observed(v.rx, TRUE, v.devices, NoDevice)
  ELSE Observed(v.rx, v.nack,
                [v.devices EXCEPT ![v.at] = Stored(v.devices[v.at], cmd.byte)], v.at)

ReceiveIn(v, cmd) ==
  IF v.at = NoDevice THEN v
  ELSE Observed(IF cmd.op = "RX" THEN v.rx \o Fetched(v.devices[v.at], cmd.count) ELSE v.rx, v.nack,
                [v.devices EXCEPT ![v.at] = FetchedFrom(v.devices[v.at], cmd.count)], v.at)

Act(v, cmd) ==
  CASE cmd.op = "START" -> StartIn(v, cmd)
    [] cmd.op = "TX"    -> TransmitIn(v, cmd)
    [] cmd.op \in {"RX", "DISCARD"} -> ReceiveIn(v, cmd)
    [] cmd.op = "STOP"  -> Observed(v.rx, v.nack, v.devices, NoDevice)

LEMMA BenchIsTyped ==
  ASSUME NEW b \in Benches, b.kind = "i2c"
  PROVE  NoDevice \notin DOMAIN b.peers /\ b.peers \in Banks(b) /\ b.external \in BOOLEAN
BY WiringAssumption DEF IsBench, Banks

(* One device of a bank changes.                                           *)
LEMMA BanksStayBanks ==
  ASSUME NEW b, NEW bank \in Banks(b), NEW a \in DOMAIN b.peers, NEW d \in RegFile
  PROVE  /\ DOMAIN bank = DOMAIN b.peers /\ bank[a] \in RegFile
         /\ [bank EXCEPT ![a] = d] \in Banks(b)
BY DEF Banks

LEMMA ActIsTyped ==
  ASSUME NEW b \in Benches, b.kind = "i2c", NEW v \in Views(b), NEW cmd \in Commands
  PROVE  Act(v, cmd) \in Views(b)
<1>1. /\ v.rx \in Seq(Byte) /\ v.devices \in Banks(b) /\ v.at \in Addresses(b)
      /\ DOMAIN v.devices = DOMAIN b.peers /\ NoDevice \notin DOMAIN b.peers
  BY BenchIsTyped DEF Views, Banks
<1>2. \A a \in DOMAIN b.peers : v.devices[a] \in RegFile
  BY <1>1 DEF Banks
<1>3. v.at # NoDevice => v.at \in DOMAIN b.peers
  BY <1>1 DEF Addresses
<1>4. CASE cmd.op = "START" /\ cmd.read \in BOOLEAN
  <2>1. CASE cmd.addr \in DOMAIN v.devices
    <3> DEFINE d == Started(v.devices[cmd.addr], cmd.read)
    <3>1. d \in RegFile
      BY <1>1, <1>2, <1>4, <2>1, RegistersStayRegisters
    <3>2. [v.devices EXCEPT ![cmd.addr] = d] \in Banks(b) /\ cmd.addr \in Addresses(b)
      BY <1>1, <2>1, <3>1, BanksStayBanks DEF Addresses
    <3>3. Act(v, cmd) = Observed(v.rx, v.nack, [v.devices EXCEPT ![cmd.addr] = d], cmd.addr)
      BY <1>4, <2>1 DEF Act, StartIn
    <3> HIDE DEF d
    <3> QED
      BY <3>2, <3>3 DEF Views, Observed
  <2>2. CASE cmd.addr \notin DOMAIN v.devices
    BY <1>4, <2>2 DEF Act, StartIn, Views, Observed, Addresses
  <2> QED
    BY <2>1, <2>2
<1>5. CASE cmd.op = "TX" /\ cmd.byte \in Byte
  <2>1. CASE v.at # NoDevice
    <3> DEFINE d == Stored(v.devices[v.at], cmd.byte)
    <3>1. d \in RegFile
      BY <1>2, <1>3, <1>5, <2>1, RegistersStayRegisters
    <3>2. [v.devices EXCEPT ![v.at] = d] \in Banks(b)
      BY <1>1, <1>3, <2>1, <3>1, BanksStayBanks
    <3>3. Act(v, cmd) = Observed(v.rx, v.nack, [v.devices EXCEPT ![v.at] = d], v.at)
      BY <1>5, <2>1 DEF Act, TransmitIn
    <3> HIDE DEF d
    <3> QED
      BY <3>2, <3>3 DEF Views, Observed
  <2>2. CASE v.at = NoDevice
    BY <1>5, <2>2 DEF Act, TransmitIn, Views, Observed, Addresses
  <2> QED
    BY <2>1, <2>2
<1>6. CASE cmd.op \in {"RX", "DISCARD"} /\ cmd.count \in Nat
  <2>1. CASE v.at # NoDevice
    <3> DEFINE d == FetchedFrom(v.devices[v.at], cmd.count)
               f == Fetched(v.devices[v.at], cmd.count)
               r == IF cmd.op = "RX" THEN v.rx \o f ELSE v.rx
    <3>1. d \in RegFile /\ f \in Seq(Byte)
      BY <1>2, <1>3, <1>6, <2>1, RegistersStayRegisters
    <3>2. [v.devices EXCEPT ![v.at] = d] \in Banks(b)
      BY <1>1, <1>3, <2>1, <3>1, BanksStayBanks
    <3>3. r \in Seq(Byte)
      BY <1>1, <3>1, ConcatProperties
    <3>4. Act(v, cmd) = Observed(r, v.nack, [v.devices EXCEPT ![v.at] = d], v.at)
      BY <1>6, <2>1 DEF Act, ReceiveIn
    <3> HIDE DEF d, r
    <3> QED
      BY <3>2, <3>3, <3>4 DEF Views, Observed
  <2>2. CASE v.at = NoDevice
    BY <1>6, <2>2 DEF Act, ReceiveIn
  <2> QED
    BY <2>1, <2>2
<1>7. CASE cmd.op = "STOP"
  BY <1>7 DEF Act, Views, Observed, Addresses
<1> QED
  BY <1>4, <1>5, <1>6, <1>7, CommandsAreTyped

(* Bytes that arrived before stay before those of a command.               *)
Queued(p, v) == Observed(p \o v.rx, v.nack, v.devices, v.at)

LEMMA QueuedBehind ==
  ASSUME NEW p, NEW rx, NEW nack, NEW devices, NEW at
  PROVE  Queued(p, Observed(rx, nack, devices, at)) = Observed(p \o rx, nack, devices, at)
BY DEF Queued, Observed

LEMMA ActBehind ==
  ASSUME NEW b \in Benches, b.kind = "i2c", NEW v \in Views(b), NEW p \in Seq(Byte),
         NEW cmd \in Commands, NEW u, u = Queued(p, v)
  PROVE  Act(u, cmd) = Queued(p, Act(v, cmd))
<1>1. /\ v.rx \in Seq(Byte) /\ v.devices \in Banks(b) /\ v.at \in Addresses(b)
  BY DEF Views
<1>2. u.rx = p \o v.rx /\ u.nack = v.nack /\ u.devices = v.devices /\ u.at = v.at
  BY DEF Queued, Observed
<1>3. CASE cmd.op = "START"
  <2>1. Act(u, cmd) = StartIn(u, cmd) /\ Act(v, cmd) = StartIn(v, cmd)
    BY <1>3 DEF Act
  <2>2. CASE cmd.addr \in DOMAIN v.devices
    BY <1>2, <2>1, <2>2, QueuedBehind DEF StartIn
  <2>3. CASE cmd.addr \notin DOMAIN v.devices
    <3>1. /\ Act(v, cmd) = Observed(v.rx, TRUE, v.devices, NoDevice)
          /\ Act(u, cmd) = Observed(p \o v.rx, TRUE, v.devices, NoDevice)
      BY <1>2, <2>1, <2>3 DEF StartIn
    <3> QED
      BY <3>1 DEF Queued, Observed
  <2> QED
    BY <2>2, <2>3
<1>4. CASE cmd.op = "TX"
  <2>1. Act(u, cmd) = TransmitIn(u, cmd) /\ Act(v, cmd) = TransmitIn(v, cmd)
    BY <1>4 DEF Act
  <2>2. CASE v.at = NoDevice
    <3>1. /\ Act(v, cmd) = Observed(v.rx, TRUE, v.devices, NoDevice)
          /\ Act(u, cmd) = Observed(p \o v.rx, TRUE, v.devices, NoDevice)
      BY <1>2, <2>1, <2>2 DEF TransmitIn
    <3> QED
      BY <3>1 DEF Queued, Observed
  <2>3. CASE v.at # NoDevice
    BY <1>2, <2>1, <2>3, QueuedBehind DEF TransmitIn
  <2> QED
    BY <2>2, <2>3
<1>5. CASE cmd.op \in {"RX", "DISCARD"} /\ cmd.count \in Nat
  <2>1. Act(u, cmd) = ReceiveIn(u, cmd) /\ Act(v, cmd) = ReceiveIn(v, cmd)
    BY <1>5 DEF Act
  <2>2. CASE v.at = NoDevice
    BY <1>2, <2>1, <2>2 DEF ReceiveIn
  <2>3. CASE v.at # NoDevice
    <3> DEFINE f == Fetched(v.devices[v.at], cmd.count)
               g == [v.devices EXCEPT ![v.at] = FetchedFrom(v.devices[v.at], cmd.count)]
    <3>1. v.at \in DOMAIN b.peers /\ v.devices[v.at] \in RegFile
      BY <1>1, <2>3 DEF Addresses, Banks
    <3>2. f \in Seq(Byte)
      BY <1>5, <3>1, RegistersStayRegisters
    <3>3. ReceiveIn(v, cmd) = Observed(IF cmd.op = "RX" THEN v.rx \o f ELSE v.rx, v.nack, g, v.at)
      BY <2>3 DEF ReceiveIn
    <3>4. ReceiveIn(u, cmd) =
            Observed(IF cmd.op = "RX" THEN (p \o v.rx) \o f ELSE p \o v.rx, v.nack, g, v.at)
      BY <1>2, <2>3 DEF ReceiveIn
    <3> HIDE DEF f, g
    <3>5. (p \o v.rx) \o f = p \o (v.rx \o f)
      <4>1. \A q, r, t \in Seq(Byte) : (q \o r) \o t = q \o (r \o t)
        BY ConcatAssociative
      <4> QED
        BY <1>1, <3>2, <4>1
    <3>6. CASE cmd.op = "RX"
      BY <2>1, <3>3, <3>4, <3>5, <3>6, QueuedBehind
    <3>7. CASE cmd.op # "RX"
      BY <2>1, <3>3, <3>4, <3>7, QueuedBehind
    <3> QED
      BY <3>6, <3>7
  <2> QED
    BY <2>2, <2>3
<1>6. CASE cmd.op = "STOP"
  <2>1. /\ Act(u, cmd) = Observed(u.rx, u.nack, u.devices, NoDevice)
        /\ Act(v, cmd) = Observed(v.rx, v.nack, v.devices, NoDevice)
    BY <1>6 DEF Act
  <2> QED
    BY <1>2, <2>1, QueuedBehind
<1> QED
  BY <1>3, <1>4, <1>5, <1>6, CommandsAreTyped

(***************************************************************************)
(* What the controllers, their devices and the drivers are made of         *)
(***************************************************************************)
SpiWrites ==
  {[op |-> "TCR", bits |-> n] : n \in 1 .. WordBits}
    \union {[op |-> "TDR", word |-> word] : word \in Word}
    \union {[op |-> op, pin |-> pin] : op \in {"SELECT", "RELEASE"}, pin \in Pins}

Conversions == {[op |-> "HC", slot |-> slot, channel |-> channel] : slot \in Slots, channel \in Nat}

Ops(b) == CASE b.kind = "i2c" -> Commands [] b.kind = "spi" -> SpiWrites [] b.kind = "adc" -> Conversions

SpiEvents ==
  {[from |-> "gpio", dr |-> pins, gdir |-> Pins] : pins \in SUBSET Pins}
    \union {[from |-> "spi", word |-> word, bits |-> n] : word \in Word, n \in 1 .. WordBits}

Events(b) == CASE b.kind = "i2c" -> I2cEvents [] b.kind = "spi" -> SpiEvents [] b.kind = "adc" -> {}

SpiBanks(b) == [DOMAIN b.peers -> Seq(Word)]

SpiCtl(b) ==
  [external : {b.external}, men : {TRUE}, ier : SUBSET {"RDF"}, der : SUBSET {"TDDE", "RDDE"},
   framesz : 0 .. WordBits - 1, sticky : SUBSET {"WCF", "FCF", "TCF"}, rx : Seq(Word)]

SpiWires(b) == [c : SpiCtl(b), devices : SpiBanks(b), at : SUBSET Pins]

AdcCtl ==
  [hc : [Slots -> [adch : Nat, aien : BOOLEAN]], r : [Slots -> AdcValues \union {0}],
   coco : SUBSET Slots, dmaen : BOOLEAN, channels : [0 .. Channels - 1 -> AdcValues]]

Outputs ==
  [dr : SUBSET Pins, gdir : {Pins}, input : {{}}, imr : {{}}, isr : {{}}, edge_sel : {{}},
   icr : [Pins -> {"low"}]]

ControllersTyped ==
  /\ i2c \in I2cCtl(bench) /\ spi \in SpiCtl(bench) /\ adc \in AdcCtl /\ pads \in Outputs
  /\ bench.kind = "i2c" => peers \in Banks(bench) /\ host \in Addresses(bench)
  /\ bench.kind = "spi" => peers \in SpiBanks(bench) /\ host \in SUBSET Pins
  /\ events \in Seq(Events(bench)) /\ (events # <<>> => bench.external)

DriverTyped ==
  /\ job \in JobsOf[bench.kind] \union {None}
  /\ todo \in Seq(Ops(bench)) /\ due \in Nat
  /\ job = None => todo = <<>> /\ due = 0

WiringTyped == bench \in Benches /\ ControllersTyped /\ DriverTyped

LEMMA KindsOfBenches ==
  ASSUME NEW b \in Benches
  PROVE  /\ b.kind \in {"i2c", "spi", "adc"} /\ b.external \in BOOLEAN /\ b.dma \in BOOLEAN
         /\ b.kind = "i2c" => NoDevice \notin DOMAIN b.peers /\ b.peers \in Banks(b)
         /\ b.kind = "spi" => b.peers \in SpiBanks(b)
         /\ b.kind = "spi" /\ ~b.external => b.peers \in Seq(Seq(Word)) /\ Len(b.peers) <= 1
<1>1. IsBench(b)
  BY WiringAssumption
<1>2. b.kind = "spi" /\ ~b.external => b.peers \in SpiBanks(b)
  BY <1>1, LenProperties, ElementOfSeq DEF IsBench, SpiBanks
<1> QED
  BY <1>1, <1>2 DEF IsBench, Banks, SpiBanks

LEMMA PowersArePositive ==
  /\ WordBits \in Nat \ {0} /\ Word \subseteq Nat /\ Idle \in Word
  /\ \A n \in 1 .. WordBits : /\ 2 ^ n \in Nat \ {0}
                              /\ \A x \in Nat : x % (2 ^ n) \in Word
<1>1. WordBits \in Nat \ {0} /\ Idle \in Word
  BY WiringAssumption
<1>2. 2 ^ WordBits \in Nat \ {0}
  BY <1>1, WordAssumption
<1>3. ASSUME NEW n \in 1 .. WordBits, NEW x \in Nat
      PROVE  2 ^ n \in Nat \ {0} /\ x % (2 ^ n) \in Word
  <2>1. 2 ^ n \in Nat \ {0} /\ 2 ^ n <= 2 ^ WordBits
    BY <1>1, WordAssumption
  <2> DEFINE m == 2 ^ n
  <2>2. x % m \in 0 .. m - 1
    <3> HIDE DEF m
    <3> QED BY <2>1 DEF m
  <2>3. x % (2 ^ n) \in 0 .. 2 ^ n - 1
    BY <2>2
  <2> QED
    BY <1>2, <2>1, <2>3 DEF Word
<1>4. Word \subseteq Nat
  <2> DEFINE m == 2 ^ WordBits
  <2>1. 0 .. m - 1 \subseteq Nat
    OBVIOUS
  <2> QED
    BY <2>1 DEF Word
<1>5. ASSUME NEW n \in 1 .. WordBits PROVE 2 ^ n \in Nat \ {0} /\ \A x \in Nat : x % (2 ^ n) \in Word
  <2>1. \A x \in Nat : x % (2 ^ n) \in Word
    BY <1>3
  <2>2. 2 ^ n \in Nat \ {0}
    BY <1>3
  <2> QED
    BY <2>1, <2>2
<1> QED
  BY <1>1, <1>4, <1>5

(***************************************************************************)
(* Transactions are made of writes                                         *)
(***************************************************************************)

(* The writes of the first k segments.                                     *)
Flat(g, j) ==
  /\ g \in [0 .. Len(j) -> Seq(Commands)] /\ g[0] = <<>>
  /\ \A k \in 1 .. Len(j) : g[k] = g[k - 1] \o SegmentWrites(j[k])

LEMMA SegmentsAreCommands ==
  ASSUME NEW j \in JobsOf["i2c"]
  PROVE  /\ Len(j) \in Nat \ {0} /\ DOMAIN j = 1 .. Len(j)
         /\ \A k \in 1 .. Len(j) : /\ IsSegment(j[k]) /\ SegmentWrites(j[k]) \in Seq(Commands)
                                   /\ \A i \in 1 .. SegmentLength(j[k]) : SegmentWrite(j[k], i) \in Commands
<1>1. j \in Seq({j[k] : k \in DOMAIN j}) /\ j # <<>> /\ \A k \in DOMAIN j : IsSegment(j[k])
  BY WiringAssumption
<1>2. Len(j) \in Nat \ {0} /\ DOMAIN j = 1 .. Len(j)
  BY <1>1, EmptySeq, LenProperties
<1>3. ASSUME NEW k \in 1 .. Len(j)
      PROVE  /\ IsSegment(j[k]) /\ SegmentWrites(j[k]) \in Seq(Commands)
             /\ \A i \in 1 .. SegmentLength(j[k]) : SegmentWrite(j[k], i) \in Commands
  <2>1. IsSegment(j[k]) /\ j[k] \in Segments
    BY <1>1, <1>2 DEF Segments
  <2> DEFINE n == SegmentLength(j[k])
             s == SegmentWrites(j[k])
  <2>2. n \in Nat \ {0} /\ s = [i \in 1 .. n |-> SegmentWrite(j[k], i)]
    BY <2>1, SegmentIsWrites
  <2>3. Range(s) \subseteq Commands
    BY <2>1 DEF Commands
  <2>4. \A i \in 1 .. n : s[i] = SegmentWrite(j[k], i) /\ s[i] \in Commands
    <3> HIDE DEF s, n
    <3> QED BY <2>2, <2>3 DEF Range
  <2>5. s \in Seq(Commands)
    <3> HIDE DEF s, n
    <3> QED BY <2>2, <2>4
  <2> QED
    BY <2>1, <2>4, <2>5
<1> QED
  BY <1>2, <1>3

LEMMA FlatExists ==
  ASSUME NEW j \in JobsOf["i2c"]
  PROVE  \E g : Flat(g, j) /\ FlattenSeq([k \in DOMAIN j |-> SegmentWrites(j[k])]) = g[Len(j)]
<1> DEFINE n == Len(j)
           seqs == [k \in DOMAIN j |-> SegmentWrites(j[k])]
           S == Seq(Commands)
           step == [k \in 1 .. n |-> [s \in S |-> s \o SegmentWrites(j[k])]]
           Solves(f) == f = [i \in 1 .. n |-> IF i = 1 THEN seqs[i] ELSE f[i - 1] \o seqs[i]]
<1>1. n \in Nat \ {0} /\ DOMAIN j = 1 .. n /\ \A k \in 1 .. n : SegmentWrites(j[k]) \in S
  BY SegmentsAreCommands
<1>2. step \in [1 .. n -> [S -> S]]
  <2>1. \A k \in 1 .. n, s \in S : s \o SegmentWrites(j[k]) \in S
    BY <1>1, ConcatProperties
  <2> HIDE DEF n, S
  <2> QED
    BY <2>1
<1>3. PICK g : g \in [0 .. n -> S] /\ g[0] = <<>> /\ \A k \in 1 .. n : g[k] = step[k][g[k - 1]]
  <2> HIDE DEF step, n
  <2>1. <<>> \in S
    BY EmptySeq
  <2> HIDE DEF S
  <2>2. \E g : IsChain(g, n, S, <<>>, step)
    BY <1>1, <1>2, <2>1, ChainExists
  <2> QED
    BY <2>2 DEF IsChain
<1>4. \A k \in 1 .. n : g[k] = g[k - 1] \o SegmentWrites(j[k])
  <2> TAKE k \in 1 .. n
  <2>1. k - 1 \in 0 .. n
    BY <1>1
  <2> HIDE DEF S
  <2> QED
    BY <1>3, <2>1
<1>9. seqs[1] = g[1]
  <2>1. 1 \in 1 .. n /\ 1 - 1 = 0
    BY <1>1
  <2>2. g[1] = g[1 - 1] \o SegmentWrites(j[1])
    <3> HIDE DEF n
    <3> QED BY <1>4, <2>1
  <2>3. SegmentWrites(j[1]) \in Seq(Commands)
    BY <1>1, <2>1
  <2>4. <<>> \o SegmentWrites(j[1]) = SegmentWrites(j[1])
    BY <2>3, ConcatEmptySeq
  <2>5. g[1] = SegmentWrites(j[1])
    BY <1>3, <2>1, <2>2, <2>4
  <2> QED
    BY <1>1, <2>1, <2>5
<1>5. Solves([i \in 1 .. n |-> g[i]])
  <2>1. seqs[1] = g[1]
    BY <1>9
  <2>2. \A i \in 1 .. n : i # 1 => i - 1 \in 1 .. n /\ g[i] = g[i - 1] \o seqs[i]
    BY <1>1, <1>4
  <2> HIDE DEF n, seqs
  <2> QED
    BY <2>1, <2>2
<1>6. PICK f : Solves(f) /\ FlattenSeq(seqs) = f[n]
  <2>1. Len(seqs) = n
    BY <1>1
  <2>2. FlattenSeq(seqs) = (CHOOSE f : Solves(f))[n]
    <3> HIDE DEF seqs, n
    <3> QED BY <1>1, <2>1 DEF FlattenSeq
  <2> HIDE DEF Solves
  <2> QED
    BY <1>5, <2>2
<1>7. f[n] = g[n]
  <2> DEFINE Same == {k \in 0 .. n : k = 0 \/ f[k] = g[k]}
  <2>1. ASSUME NEW k \in 1 .. n PROVE f[k] = IF k = 1 THEN seqs[k] ELSE f[k - 1] \o seqs[k]
    BY <1>6
  <2>2. seqs[1] = g[1] /\ \A k \in 1 .. n : k # 1 => g[k] = g[k - 1] \o seqs[k]
    BY <1>1, <1>4, <1>9
  <2> HIDE DEF seqs, Solves, n
  <2>3. 0 \in Same
    BY <1>1
  <2>4. ASSUME NEW k \in 1 .. n, k - 1 \in Same PROVE k \in Same
    <3>1. CASE k = 1
      BY <1>1, <2>1, <2>2, <3>1
    <3>2. CASE k # 1
      <4>1. f[k - 1] = g[k - 1] /\ k \in 0 .. n
        BY <1>1, <2>4, <3>2
      <4> QED
        BY <2>1, <2>2, <3>2, <4>1
    <3> QED
      BY <3>1, <3>2
  <2> HIDE DEF Same
  <2>5. \A k \in 0 .. n : k \in Same
    BY <1>1, <2>3, <2>4, UpToTheBound
  <2> QED
    BY <1>1, <2>5 DEF Same
<1>8. Flat(g, j)
  BY <1>3, <1>4 DEF Flat
<1> QED
  BY <1>6, <1>7, <1>8

LEMMA EndingIsCommand == Ending \in Commands
BY DEF Commands

(* What a driver writes is what its controller knows.                      *)
LEMMA WritesAreTyped ==
  ASSUME bench \in Benches, NEW j \in JobsOf[bench.kind]
  PROVE  Writes(j) \in Seq(Ops(bench))
<1>1. CASE bench.kind = "i2c"
  <2>1. j \in JobsOf["i2c"] /\ Ops(bench) = Commands
    BY <1>1 DEF Ops
  <2>2. PICK g : Flat(g, j) /\ FlattenSeq([k \in DOMAIN j |-> SegmentWrites(j[k])]) = g[Len(j)]
    BY <2>1, FlatExists
  <2>3. g[Len(j)] \in Seq(Commands)
    BY <2>1, <2>2, SegmentsAreCommands DEF Flat
  <2>4. <<Ending>> \in Seq(Commands)
    BY EndingIsCommand
  <2>5. Writes(j) = g[Len(j)] \o <<Ending>>
    BY <1>1, <2>2 DEF Writes, Ending
  <2> QED
    BY <2>1, <2>3, <2>4, <2>5, ConcatProperties
<1>2. CASE bench.kind = "spi"
  <2>1. j \in [pin : Pins, bits : 1 .. WordBits, words : Seq(Word)] /\ Ops(bench) = SpiWrites
    BY <1>2, WiringAssumption DEF Ops
  <2> DEFINE set  == <<[op |-> "TCR", bits |-> j.bits], [op |-> "SELECT", pin |-> j.pin]>>
             out  == [k \in DOMAIN j.words |-> [op |-> "TDR", word |-> j.words[k]]]
             last == <<[op |-> "RELEASE", pin |-> j.pin]>>
  <2>2. set \in Seq(SpiWrites)
    BY <2>1 DEF SpiWrites
  <2>3. last \in Seq(SpiWrites)
    BY <2>1 DEF SpiWrites
  <2>4. out \in Seq(SpiWrites)
    <3>1. j.words \in Seq(Word)
      BY <2>1
    <3>2. DOMAIN j.words = 1 .. Len(j.words) /\ Len(j.words) \in Nat
      BY <3>1, LenProperties
    <3>3. \A k \in 1 .. Len(j.words) : [op |-> "TDR", word |-> j.words[k]] \in SpiWrites
      BY <3>1, ElementOfSeq DEF SpiWrites
    <3> QED
      BY <3>2, <3>3
  <2>5. Writes(j) = set \o out \o last
    BY <1>2 DEF Writes
  <2> HIDE DEF set, out, last
  <2> QED
    BY <2>1, <2>2, <2>3, <2>4, <2>5, ConcatProperties
<1>3. CASE bench.kind = "adc"
  <2>1. j \in Seq([slot : Slots, channel : Nat]) /\ Ops(bench) = Conversions
    BY <1>3, WiringAssumption DEF Ops
  <2>2. DOMAIN j = 1 .. Len(j) /\ Len(j) \in Nat
    BY <2>1, LenProperties
  <2>3. \A k \in 1 .. Len(j) : [op |-> "HC", slot |-> j[k].slot, channel |-> j[k].channel] \in Conversions
    <3> TAKE k \in 1 .. Len(j)
    <3>1. j[k] \in [slot : Slots, channel : Nat]
      BY <2>1, ElementOfSeq
    <3> QED
      BY <3>1 DEF Conversions
  <2>4. Writes(j) = [k \in 1 .. Len(j) |-> [op |-> "HC", slot |-> j[k].slot, channel |-> j[k].channel]]
    BY <1>3, <2>2 DEF Writes
  <2> QED
    BY <2>1, <2>2, <2>3, <2>4
<1> QED
  BY <1>1, <1>2, <1>3, KindsOfBenches

(***************************************************************************)
(* A command, at once or by the host, is what it is to a view              *)
(***************************************************************************)
LEMMA LocalIsAct ==
  ASSUME NEW b \in Benches, b.kind = "i2c", NEW c \in I2cCtl(b), NEW bank \in Banks(b),
         NEW cmd \in Commands
  PROVE  LET after == Local(c, bank, cmd)
         IN  /\ after.c \in I2cCtl(b) /\ after.bank \in Banks(b)
             /\ View(after.c, after.bank, after.c.active) = Act(View(c, bank, c.active), cmd)
<1> DEFINE v     == View(c, bank, c.active)
           after == Local(c, bank, cmd)
           u     == Act(v, cmd)
<1>1. /\ c.sticky \in SUBSET {"EPF", "SDF", "NDF"} /\ c.rx \in Seq(Byte)
      /\ c.active \in Addresses(b)
  BY DEF I2cCtl
<1>2. v \in Views(b) /\ v.rx = c.rx /\ v.nack = ("NDF" \in c.sticky) /\ v.devices = bank /\ v.at = c.active
  BY <1>1 DEF View, Observed, Views
<1>3. u \in Views(b)
  BY <1>2, ActIsTyped
<1>4. SUFFICES /\ after.c \in I2cCtl(b) /\ after.bank = u.devices
               /\ after.c.rx = u.rx /\ after.c.active = u.at /\ ("NDF" \in after.c.sticky) = u.nack
  <2> HIDE DEF after, u
  <2>1. u.rx \in Seq(Byte) /\ u.devices \in Banks(b) /\ u.at \in Addresses(b) /\ u.nack \in BOOLEAN
    BY <1>3 DEF Views
  <2>2. View(after.c, after.bank, after.c.active) = u
    BY <1>3, <1>4 DEF View, Observed, Views
  <2> QED
    BY <1>4, <2>1, <2>2 DEF after, u, v
<1>10. u.rx \in Seq(Byte) /\ u.at \in Addresses(b)
  BY <1>3 DEF Views
<1>5. CASE cmd.op = "START"
  <2>1. after = Start(c, bank, cmd) /\ u = StartIn(v, cmd)
    BY <1>5 DEF Local, Act
  <2>2. CASE cmd.addr \in DOMAIN bank
    <3>1. /\ after.c = [c EXCEPT !.active = cmd.addr]
          /\ after.bank = [bank EXCEPT ![cmd.addr] = Started(bank[cmd.addr], cmd.read)]
      BY <2>1, <2>2 DEF Start, Bus
    <3>2. u = Observed(c.rx, "NDF" \in c.sticky, [bank EXCEPT ![cmd.addr] = Started(bank[cmd.addr], cmd.read)],
                       cmd.addr)
      BY <1>2, <2>1, <2>2 DEF StartIn
    <3> HIDE DEF after, u, v
    <3>3. u.rx = c.rx /\ u.at = cmd.addr /\ u.devices = after.bank /\ u.nack = ("NDF" \in c.sticky)
      BY <3>1, <3>2 DEF Observed
    <3>4. after.c \in I2cCtl(b) /\ after.c.rx = u.rx /\ after.c.active = u.at /\ after.c.sticky = c.sticky
      BY <1>1, <1>10, <3>1, <3>3 DEF I2cCtl
    <3> QED
      BY <3>3, <3>4
  <2>3. CASE cmd.addr \notin DOMAIN bank
    <3> DEFINE sticky == c.sticky \union {"NDF"}
    <3>1. after.c = [c EXCEPT !.sticky = sticky, !.active = NoDevice] /\ after.bank = bank
      BY <2>1, <2>3 DEF Start, Bus, Nacked, I2cCtl
    <3>2. u = Observed(c.rx, TRUE, bank, NoDevice)
      BY <1>2, <2>1, <2>3 DEF StartIn
    <3>3. "NDF" \in sticky /\ sticky \in SUBSET {"EPF", "SDF", "NDF"}
      BY <1>1
    <3> HIDE DEF after, u, v, sticky
    <3>4. u.rx = c.rx /\ u.at = NoDevice /\ u.devices = after.bank /\ u.nack = TRUE
      BY <3>1, <3>2 DEF Observed
    <3>5. after.c \in I2cCtl(b) /\ after.c.rx = u.rx /\ after.c.active = u.at /\ after.c.sticky = sticky
      BY <1>10, <3>1, <3>3, <3>4 DEF I2cCtl
    <3> QED
      BY <3>3, <3>4, <3>5
  <2> QED
    BY <2>2, <2>3
<1>6. CASE cmd.op = "TX"
  <2>1. after = Transmit(c, bank, cmd) /\ u = TransmitIn(v, cmd)
    BY <1>6 DEF Local, Act
  <2>2. CASE c.active = NoDevice
    <3> DEFINE sticky == c.sticky \union {"NDF"}
    <3>1. after.c = [c EXCEPT !.sticky = sticky] /\ after.bank = bank
      BY <2>1, <2>2 DEF Transmit, Bus, Nacked
    <3>2. u = Observed(c.rx, TRUE, bank, NoDevice)
      BY <1>2, <2>1, <2>2 DEF TransmitIn
    <3>3. "NDF" \in sticky /\ sticky \in SUBSET {"EPF", "SDF", "NDF"}
      BY <1>1
    <3> HIDE DEF after, u, v, sticky
    <3>4. u.rx = c.rx /\ u.at = c.active /\ u.devices = after.bank /\ u.nack = TRUE
      BY <2>2, <3>1, <3>2 DEF Observed
    <3>5. after.c \in I2cCtl(b) /\ after.c.rx = u.rx /\ after.c.active = u.at /\ after.c.sticky = sticky
      BY <1>10, <3>1, <3>3, <3>4 DEF I2cCtl
    <3> QED
      BY <3>3, <3>4, <3>5
  <2>3. CASE c.active # NoDevice
    <3> DEFINE next == [bank EXCEPT ![c.active] = Stored(bank[c.active], cmd.byte)]
    <3>1. after.c = c /\ after.bank = next
      BY <2>1, <2>3 DEF Transmit, Bus
    <3>2. u = Observed(c.rx, "NDF" \in c.sticky, next, c.active)
      BY <1>2, <2>1, <2>3 DEF TransmitIn
    <3> HIDE DEF after, u, v, next
    <3>3. u.rx = c.rx /\ u.at = c.active /\ u.devices = after.bank /\ u.nack = ("NDF" \in c.sticky)
      BY <3>1, <3>2 DEF Observed
    <3>4. after.c \in I2cCtl(b) /\ after.c.rx = u.rx /\ after.c.active = u.at /\ after.c.sticky = c.sticky
      BY <1>1, <1>10, <3>1, <3>3 DEF I2cCtl
    <3> QED
      BY <3>3, <3>4
  <2> QED
    BY <2>2, <2>3
<1>7. CASE cmd.op \in {"RX", "DISCARD"}
  <2>1. after = Receive(c, bank, cmd) /\ u = ReceiveIn(v, cmd)
    BY <1>7 DEF Local, Act
  <2>2. CASE c.active = NoDevice
    <3>1. after.c = c /\ after.bank = bank /\ u = v
      BY <1>2, <2>1, <2>2 DEF Receive, ReceiveIn, Bus
    <3> HIDE DEF after, u, v
    <3>2. after.c \in I2cCtl(b) /\ after.c.rx = u.rx /\ after.c.active = u.at /\ after.c.sticky = c.sticky
      BY <1>2, <3>1
    <3> QED
      BY <1>2, <3>1, <3>2
  <2>3. CASE c.active # NoDevice
    <3> DEFINE next == [bank EXCEPT ![c.active] = FetchedFrom(bank[c.active], cmd.count)]
               rx   == IF cmd.op = "RX" THEN c.rx \o Fetched(bank[c.active], cmd.count) ELSE c.rx
    <3>1. after.c = [c EXCEPT !.rx = rx] /\ after.bank = next
      <4>1. CASE cmd.op = "RX"
        BY <2>1, <2>3, <4>1 DEF Receive, RxPushed, Bus
      <4>2. CASE cmd.op # "RX"
        <5>1. after.c = c /\ after.bank = next
          BY <2>1, <2>3, <4>2 DEF Receive, Bus
        <5>2. rx = c.rx
          BY <4>2
        <5>3. [c EXCEPT !.rx = c.rx] = c
          BY DEF I2cCtl
        <5> HIDE DEF after, rx
        <5> QED
          BY <5>1, <5>2, <5>3
      <4> QED
        BY <4>1, <4>2
    <3>2. u = Observed(rx, "NDF" \in c.sticky, next, c.active)
      BY <1>2, <2>1, <2>3 DEF ReceiveIn
    <3> HIDE DEF after, u, v, next, rx
    <3>3. u.rx = rx /\ u.at = c.active /\ u.devices = after.bank /\ u.nack = ("NDF" \in c.sticky)
      BY <3>1, <3>2 DEF Observed
    <3>4. after.c \in I2cCtl(b) /\ after.c.rx = u.rx /\ after.c.active = u.at /\ after.c.sticky = c.sticky
      BY <1>1, <1>10, <3>1, <3>3 DEF I2cCtl
    <3> QED
      BY <3>3, <3>4
  <2> QED
    BY <2>2, <2>3
<1>8. CASE cmd.op = "STOP"
  <2> DEFINE sticky == c.sticky \union {"SDF", "EPF"}
  <2>1. after.bank = bank /\ after.c = [c EXCEPT !.active = NoDevice, !.ext_busy = FALSE, !.sticky = sticky]
    BY <1>8 DEF Local, Stop, Bus
  <2>2. u = Observed(c.rx, "NDF" \in c.sticky, bank, NoDevice)
    BY <1>2, <1>8 DEF Act
  <2>3. ("NDF" \in sticky) = ("NDF" \in c.sticky) /\ sticky \in SUBSET {"EPF", "SDF", "NDF"}
    BY <1>1
  <2> HIDE DEF after, u, v, sticky
  <2>4. u.rx = c.rx /\ u.at = NoDevice /\ u.devices = after.bank /\ u.nack = ("NDF" \in c.sticky)
    BY <2>1, <2>2 DEF Observed
  <2>5. after.c \in I2cCtl(b) /\ after.c.rx = u.rx /\ after.c.active = u.at /\ after.c.sticky = sticky
    <3> DEFINE x == [c EXCEPT !.active = NoDevice, !.ext_busy = FALSE, !.sticky = sticky]
    <3>1. x.rx = c.rx /\ x.active = NoDevice /\ x.sticky = sticky
      BY DEF I2cCtl
    <3>2. x \in I2cCtl(b)
      BY <1>10, <2>3, <2>4 DEF I2cCtl
    <3> HIDE DEF x
    <3>3. after.c = x
      BY <2>1 DEF x
    <3> QED
      BY <2>4, <3>1, <3>2, <3>3
  <2> QED
    BY <2>3, <2>4, <2>5
<1> QED
  BY <1>5, <1>6, <1>7, <1>8, CommandsAreTyped

LEMMA HostServesIsAct ==
  ASSUME NEW b \in Benches, b.kind = "i2c", NEW w \in I2cWires(b), NEW event \in I2cEvents
  PROVE  /\ event.cmd \in Commands /\ HostServes(w, event) \in I2cWires(b)
         /\ ViewOf(w) \in Views(b) /\ ViewOf(HostServes(w, event)) = Act(ViewOf(w), event.cmd)
<1> DEFINE cmd   == event.cmd
           c     == w.c
           v     == ViewOf(w)
           after == HostServes(w, event)
           u     == Act(v, cmd)
<1>0. cmd \in Commands
  BY DEF I2cEvents
<1>1. /\ c \in I2cCtl(b) /\ w.devices \in Banks(b) /\ w.at \in Addresses(b)
      /\ w = [c |-> c, devices |-> w.devices, at |-> w.at]
      /\ c.sticky \in SUBSET {"EPF", "SDF", "NDF"} /\ c.rx \in Seq(Byte)
  BY DEF I2cWires, I2cCtl
<1>2. v \in Views(b) /\ v.rx = c.rx /\ v.nack = ("NDF" \in c.sticky) /\ v.devices = w.devices /\ v.at = w.at
  BY <1>1 DEF ViewOf, View, Observed, Views
<1>3. u \in Views(b)
  BY <1>0, <1>2, ActIsTyped
<1>4. SUFFICES \E sticky \in SUBSET {"EPF", "SDF", "NDF"}, busy \in BOOLEAN :
                  /\ after = Wire([c EXCEPT !.sticky = sticky, !.rx = u.rx, !.ext_busy = busy], u.devices, u.at)
                  /\ ("NDF" \in sticky) = u.nack
  <2>1. PICK sticky \in SUBSET {"EPF", "SDF", "NDF"}, busy \in BOOLEAN :
                  /\ after = Wire([c EXCEPT !.sticky = sticky, !.rx = u.rx, !.ext_busy = busy], u.devices, u.at)
                  /\ ("NDF" \in sticky) = u.nack
    BY <1>4
  <2> HIDE DEF after, u, cmd, v
  <2>2. u.rx \in Seq(Byte) /\ u.devices \in Banks(b) /\ u.at \in Addresses(b) /\ u.nack \in BOOLEAN
    BY <1>3 DEF Views
  <2>3. /\ after.c \in I2cCtl(b) /\ after.c.sticky = sticky /\ after.c.rx = u.rx
        /\ after.devices = u.devices /\ after.at = u.at
    BY <1>1, <2>1, <2>2 DEF I2cCtl, Wire
  <2>4. after \in I2cWires(b)
    BY <2>1, <2>2, <2>3 DEF Wire, I2cWires
  <2>5. ViewOf(after) = u
    BY <1>3, <2>1, <2>3 DEF ViewOf, View, Observed, Views
  <2> QED
    BY <1>0, <1>2, <2>4, <2>5 DEF after, u, v, cmd
<1>9. c.ext_busy \in BOOLEAN /\ [c EXCEPT !.sticky = c.sticky, !.rx = c.rx, !.ext_busy = c.ext_busy] = c
  BY <1>1 DEF I2cCtl
<1>10. \A sticky, rx : /\ [c EXCEPT !.sticky = sticky] = [c EXCEPT !.sticky = sticky, !.rx = c.rx, !.ext_busy = c.ext_busy]
                       /\ [c EXCEPT !.rx = rx] = [c EXCEPT !.sticky = c.sticky, !.rx = rx, !.ext_busy = c.ext_busy]
  BY <1>1 DEF I2cCtl
<1>11. /\ SetNack(c) = [c EXCEPT !.sticky = c.sticky \union {"NDF"}, !.rx = c.rx, !.ext_busy = FALSE]
       /\ c.sticky \union {"NDF"} \in SUBSET {"EPF", "SDF", "NDF"}
       /\ ("NDF" \in c.sticky \union {"NDF"}) = TRUE
  BY <1>1 DEF I2cCtl, SetNack
<1>5. CASE cmd.op = "START"
  <2>1. u = StartIn(v, cmd)
    BY <1>5 DEF Act
  <2>2. CASE cmd.addr \in DOMAIN w.devices
    <3> DEFINE next == [w.devices EXCEPT ![cmd.addr] = Started(w.devices[cmd.addr], cmd.read)]
    <3>1. after = Wire(c, next, cmd.addr)
      BY <1>5, <2>2 DEF HostServes
    <3>2. u = Observed(c.rx, "NDF" \in c.sticky, next, cmd.addr)
      BY <1>2, <2>1, <2>2 DEF StartIn
    <3> HIDE DEF after, u, v, next, cmd
    <3>3. u.rx = c.rx /\ u.at = cmd.addr /\ u.devices = next /\ u.nack = ("NDF" \in c.sticky)
      BY <3>2 DEF Observed
    <3> QED
      BY <1>1, <1>9, <3>1, <3>3
  <2>3. CASE cmd.addr \notin DOMAIN w.devices
    <3>1. after = Wire(SetNack(c), w.devices, NoDevice)
      BY <1>5, <2>3 DEF HostServes
    <3>2. u = Observed(c.rx, TRUE, w.devices, NoDevice)
      BY <1>2, <2>1, <2>3 DEF StartIn
    <3> HIDE DEF after, u, v, cmd
    <3>3. u.rx = c.rx /\ u.at = NoDevice /\ u.devices = w.devices /\ u.nack = TRUE
      BY <3>2 DEF Observed
    <3> QED
      BY <1>11, <3>1, <3>3
  <2> QED
    BY <2>2, <2>3
<1>6. CASE cmd.op = "TX"
  <2>1. u = TransmitIn(v, cmd)
    BY <1>6 DEF Act
  <2>2. CASE w.at = NoDevice
    <3>1. after = Wire(SetNack(c), w.devices, NoDevice)
      BY <1>6, <2>2 DEF HostServes
    <3>2. u = Observed(c.rx, TRUE, w.devices, NoDevice)
      BY <1>2, <2>1, <2>2 DEF TransmitIn
    <3> HIDE DEF after, u, v, cmd
    <3>3. u.rx = c.rx /\ u.at = NoDevice /\ u.devices = w.devices /\ u.nack = TRUE
      BY <3>2 DEF Observed
    <3> QED
      BY <1>11, <3>1, <3>3
  <2>3. CASE w.at # NoDevice
    <3> DEFINE next == [w.devices EXCEPT ![w.at] = Stored(w.devices[w.at], cmd.byte)]
    <3>1. after = Wire(c, next, w.at)
      BY <1>6, <2>3 DEF HostServes
    <3>2. u = Observed(c.rx, "NDF" \in c.sticky, next, w.at)
      BY <1>2, <2>1, <2>3 DEF TransmitIn
    <3> HIDE DEF after, u, v, next, cmd
    <3>3. u.rx = c.rx /\ u.at = w.at /\ u.devices = next /\ u.nack = ("NDF" \in c.sticky)
      BY <3>2 DEF Observed
    <3> QED
      BY <1>1, <1>9, <3>1, <3>3
  <2> QED
    BY <2>2, <2>3
<1>7. CASE cmd.op \in {"RX", "DISCARD"}
  <2>1. u = ReceiveIn(v, cmd)
    BY <1>7 DEF Act
  <2>2. CASE w.at = NoDevice
    <3>1. after = w /\ u = v
      BY <1>2, <1>7, <2>1, <2>2 DEF HostServes, ReceiveIn
    <3> HIDE DEF after, u, v, cmd
    <3>2. after = Wire(c, w.devices, w.at)
      BY <1>1, <3>1 DEF Wire
    <3>3. after = Wire([c EXCEPT !.sticky = c.sticky, !.rx = u.rx, !.ext_busy = c.ext_busy], u.devices, u.at)
      BY <1>2, <1>9, <3>1, <3>2
    <3>4. ("NDF" \in c.sticky) = u.nack
      BY <1>2, <3>1
    <3> QED
      BY <1>1, <1>9, <3>3, <3>4
  <2>3. CASE w.at # NoDevice
    <3> DEFINE next == [w.devices EXCEPT ![w.at] = FetchedFrom(w.devices[w.at], cmd.count)]
               rx   == IF cmd.op = "RX" THEN c.rx \o Fetched(w.devices[w.at], cmd.count) ELSE c.rx
    <3>1. after = Wire([c EXCEPT !.rx = rx], next, w.at)
      <4>1. CASE cmd.op = "RX"
        BY <2>3, <4>1 DEF HostServes, RxPushed
      <4>2. CASE cmd.op # "RX"
        <5>1. after = Wire(c, next, w.at)
          BY <1>7, <2>3, <4>2 DEF HostServes
        <5>2. rx = c.rx
          BY <4>2
        <5>3. [c EXCEPT !.rx = c.rx] = c
          BY <1>1 DEF I2cCtl
        <5> HIDE DEF after, rx
        <5> QED
          BY <5>1, <5>2, <5>3
      <4> QED
        BY <4>1, <4>2
    <3>2. u = Observed(rx, "NDF" \in c.sticky, next, w.at)
      BY <1>2, <2>1, <2>3 DEF ReceiveIn
    <3> HIDE DEF after, u, v, next, rx, cmd
    <3>3. u.rx = rx /\ u.at = w.at /\ u.devices = next /\ u.nack = ("NDF" \in c.sticky)
      BY <3>2 DEF Observed
    <3> QED
      BY <1>1, <1>9, <1>10, <3>1, <3>3
  <2> QED
    BY <2>2, <2>3
<1>8. CASE cmd.op = "STOP"
  <2>1. after = Wire(c, w.devices, NoDevice)
    BY <1>8 DEF HostServes
  <2>2. u = Observed(c.rx, "NDF" \in c.sticky, w.devices, NoDevice)
    BY <1>2, <1>8 DEF Act
  <2> HIDE DEF after, u, v, cmd
  <2>3. u.rx = c.rx /\ u.at = NoDevice /\ u.devices = w.devices /\ u.nack = ("NDF" \in c.sticky)
    BY <2>2 DEF Observed
  <2> QED
    BY <1>1, <1>9, <2>1, <2>3
<1> QED
  BY <1>0, <1>5, <1>6, <1>7, <1>8, CommandsAreTyped

(* In external mode a command leaves what was received.                    *)
LEMMA ExternalIsTyped ==
  ASSUME NEW b \in Benches, NEW c \in I2cCtl(b), NEW cmd \in Commands
  PROVE  LET after == External(c, cmd)
         IN  /\ after \in I2cCtl(b) /\ after.rx = c.rx /\ ("NDF" \in after.sticky) = ("NDF" \in c.sticky)
             /\ after.active = c.active \/ after.active = NoDevice
<1>1. c.sticky \in SUBSET {"EPF", "SDF", "NDF"}
  BY DEF I2cCtl
<1>2. CASE cmd.op = "START"
  BY <1>2 DEF External, I2cCtl
<1>3. CASE cmd.op = "STOP"
  <2> DEFINE sticky == c.sticky \union {"SDF", "EPF"}
  <2>1. External(c, cmd) = [c EXCEPT !.active = NoDevice, !.ext_busy = FALSE, !.sticky = sticky]
    BY <1>3 DEF External, Stop
  <2>2. ("NDF" \in sticky) = ("NDF" \in c.sticky) /\ sticky \in SUBSET {"EPF", "SDF", "NDF"}
    BY <1>1
  <2>3. NoDevice \in Addresses(b)
    BY DEF Addresses
  <2> HIDE DEF sticky
  <2> QED
    BY <2>1, <2>2, <2>3 DEF I2cCtl
<1>4. CASE cmd.op \notin {"START", "STOP"}
  BY <1>4 DEF External
<1> QED
  BY <1>2, <1>3, <1>4

(* The host serves the trace of an LPI2C.                                  *)
LEMMA HostOfI2c ==
  ASSUME NEW b \in Benches, b.kind = "i2c", NEW w \in I2cWires(b), NEW event \in I2cEvents
  PROVE  /\ HostTakes(w, event) \in I2cWires(b) /\ ViewOf(w) \in Views(b)
         /\ ViewOf(HostTakes(w, event)) = Act(ViewOf(w), event.cmd)
<1>1. HostTakes(w, event) = HostServes(w, event)
  BY DEF HostTakes, I2cEvents
<1> QED
  BY <1>1, HostServesIsAct

LEMMA TraceOfI2c ==
  ASSUME NEW b \in Benches, b.kind = "i2c", NEW w \in I2cWires(b), NEW list \in Seq(I2cEvents)
  PROVE  /\ Served(w, list) \in I2cWires(b) /\ ViewOf(Served(w, list)) \in Views(b)
         /\ Served(w, <<>>) = w
         /\ \A event \in I2cEvents :
              ViewOf(Served(w, Append(list, event))) = Act(ViewOf(Served(w, list)), event.cmd)
<1> DEFINE S == I2cWires(b)
           E == I2cEvents
<1>1. \A v \in S, e \in E : HostTakes(v, e) \in S
  BY HostOfI2c
<1>2. /\ Served(w, list) \in S /\ Served(w, <<>>) = w
      /\ \A e \in E : Served(w, Append(list, e)) = HostTakes(Served(w, list), e)
  <2> HIDE DEF S, E
  <2>1. w \in S /\ list \in Seq(E)
    BY DEF S, E
  <2> QED
    BY <1>1, <2>1, ServedGrows
<1>3. ASSUME NEW e \in I2cEvents
      PROVE  ViewOf(Served(w, Append(list, e))) = Act(ViewOf(Served(w, list)), e.cmd)
  BY <1>2, HostOfI2c
<1>4. ViewOf(Served(w, list)) \in Views(b)
  <2>1. \A v \in I2cWires(b) : v.c \in I2cCtl(b) /\ v.devices \in Banks(b) /\ v.at \in Addresses(b)
    BY DEF I2cWires
  <2>2. \A c \in I2cCtl(b) : c.rx \in Seq(Byte)
    BY DEF I2cCtl
  <2> QED
    BY <1>2, <2>1, <2>2 DEF ViewOf, View, Observed, Views
<1> QED
  BY <1>2, <1>3, <1>4

LEMMA TraceBehind ==
  ASSUME NEW b \in Benches, b.kind = "i2c", NEW w \in I2cWires(b), NEW v \in I2cWires(b),
         NEW p \in Seq(Byte), ViewOf(w) = Queued(p, ViewOf(v)), NEW list \in Seq(I2cEvents)
  PROVE  ViewOf(Served(w, list)) = Queued(p, ViewOf(Served(v, list)))
<1> DEFINE S == I2cWires(b)
           E == I2cEvents
           n == Len(list)
           Chain(f, x) == /\ ServedSteps(f, x, list) /\ Served(x, list) = f[n]
                          /\ \A k \in 0 .. n : f[k] \in S
<1>1. \A x \in S : \E f : Chain(f, x)
  <2>1. \A x \in S, e \in E : HostTakes(x, e) \in S
    BY HostOfI2c
  <2>2. list \in Seq(E)
    OBVIOUS
  <2> HIDE DEF S, E
  <2> QED
    BY <2>1, <2>2, ServedFollowsTheTrace
<1>2. n \in Nat /\ \A k \in 1 .. n : list[k] \in I2cEvents
  BY LenProperties, ElementOfSeq
<1>3. w \in S /\ v \in S
  OBVIOUS
<1> HIDE DEF Chain
<1>4. PICK f : Chain(f, w)
  BY <1>1, <1>3
<1>5. PICK g : Chain(g, v)
  BY <1>1, <1>3
<1> DEFINE Holds == {k \in 0 .. n : ViewOf(f[k]) = Queued(p, ViewOf(g[k]))}
<1>6. 0 \in Holds
  BY <1>2, <1>4, <1>5 DEF Chain, ServedSteps
<1>7. ASSUME NEW k \in 1 .. n, k - 1 \in Holds PROVE k \in Holds
  <2> DEFINE x == f[k - 1]
             y == g[k - 1]
             e == list[k]
  <2>1. k - 1 \in 0 .. n /\ k \in 0 .. n
    BY <1>2
  <2>2. x \in S /\ y \in S /\ f[k] = HostTakes(x, e) /\ g[k] = HostTakes(y, e) /\ e \in I2cEvents
    BY <1>2, <1>4, <1>5, <2>1 DEF Chain, ServedSteps
  <2>3. ViewOf(x) = Queued(p, ViewOf(y))
    BY <1>7
  <2> HIDE DEF x, y, e, n
  <2>4. ViewOf(f[k]) = Act(ViewOf(x), e.cmd) /\ ViewOf(g[k]) = Act(ViewOf(y), e.cmd) /\ ViewOf(y) \in Views(b)
    BY <2>2, HostOfI2c
  <2>5. e.cmd \in Commands
    BY <2>2 DEF I2cEvents
  <2>6. Act(ViewOf(x), e.cmd) = Queued(p, Act(ViewOf(y), e.cmd))
    BY <2>3, <2>4, <2>5, ActBehind
  <2> QED
    BY <2>1, <2>4, <2>6
<1> HIDE DEF Holds, n
<1>8. \A k \in 0 .. n : k \in Holds
  BY <1>2, <1>6, <1>7, UpToTheBound
<1> QED
  BY <1>2, <1>4, <1>5, <1>8 DEF Holds, Chain

(***************************************************************************)
(* The host shifts against the devices of the chip selects                 *)
(***************************************************************************)
SpiBehind(p, w, v) == w.c.rx = p \o v.c.rx /\ w.devices = v.devices /\ w.at = v.at

(* What a word brings, and what it leaves.                                 *)
Reply(w, event) ==
  (IF \E d \in DOMAIN w.devices : w.at = {d} THEN Miso(w.devices[CHOOSE d \in w.at : TRUE]) ELSE Idle)
    % (2 ^ event.bits)

Drained(w) ==
  IF \E d \in DOMAIN w.devices : w.at = {d}
  THEN [w.devices EXCEPT ![CHOOSE d \in w.at : TRUE] = Consumed(w.devices[CHOOSE d \in w.at : TRUE])]
  ELSE w.devices

LEMMA RepliesAreTyped ==
  ASSUME NEW replies \in Seq(Word)
  PROVE  Miso(replies) \in Word /\ Consumed(replies) \in Seq(Word)
<1>1. CASE replies = <<>>
  BY <1>1, PowersArePositive DEF Miso, Consumed
<1>2. CASE replies # <<>>
  BY <1>2, HeadTailProperties DEF Miso, Consumed
<1> QED
  BY <1>1, <1>2

LEMMA HostOfSpi ==
  ASSUME NEW b \in Benches, b.kind = "spi", NEW w \in SpiWires(b), NEW event \in SpiEvents
  PROVE  /\ HostTakes(w, event) \in SpiWires(b)
         /\ event.from = "gpio" => HostTakes(w, event) = Wire(w.c, w.devices, event.gdir \ event.dr)
         /\ event.from # "gpio" =>
              /\ Reply(w, event) \in Word
              /\ HostTakes(w, event) = Wire(Answered(w.c, <<Reply(w, event)>>), Drained(w), w.at)
<1>1. HostTakes(w, event) = HostShifts(w, event)
  BY DEF HostTakes, SpiEvents
<1>2. /\ w.c \in SpiCtl(b) /\ w.devices \in SpiBanks(b) /\ w.at \in SUBSET Pins
      /\ w.c.rx \in Seq(Word)
  BY DEF SpiWires, SpiCtl
<1>3. CASE event.from = "gpio"
  <2>1. event.gdir \ event.dr \in SUBSET Pins
    BY <1>3 DEF SpiEvents
  <2>2. HostTakes(w, event) = Wire(w.c, w.devices, event.gdir \ event.dr)
    BY <1>1, <1>3 DEF HostShifts
  <2> QED
    BY <1>2, <1>3, <2>1, <2>2 DEF Wire, SpiWires
<1>4. CASE event.from # "gpio"
  <2>1. event.bits \in 1 .. WordBits
    BY <1>4 DEF SpiEvents
  <2>2. Reply(w, event) \in Word /\ Drained(w) \in SpiBanks(b)
    <3>1. CASE \E d \in DOMAIN w.devices : w.at = {d}
      <4>1. PICK d \in DOMAIN w.devices : w.at = {d}
        BY <3>1
      <4>2. (CHOOSE x \in w.at : TRUE) = d
        BY <4>1
      <4>3. w.devices[d] \in Seq(Word) /\ d \in DOMAIN b.peers
        BY <1>2, <4>1 DEF SpiBanks
      <4>4. Miso(w.devices[d]) \in Word /\ Consumed(w.devices[d]) \in Seq(Word)
        BY <4>3, RepliesAreTyped
      <4>5. Miso(w.devices[d]) % (2 ^ event.bits) \in Word
        BY <2>1, <4>4, PowersArePositive
      <4>6. [w.devices EXCEPT ![d] = Consumed(w.devices[d])] \in SpiBanks(b)
        BY <1>2, <4>3, <4>4 DEF SpiBanks
      <4> QED
        BY <3>1, <4>2, <4>5, <4>6 DEF Reply, Drained
    <3>2. CASE ~\E d \in DOMAIN w.devices : w.at = {d}
      <4>1. Idle % (2 ^ event.bits) \in Word
        BY <2>1, PowersArePositive
      <4> QED
        BY <1>2, <3>2, <4>1 DEF Reply, Drained
    <3> QED
      BY <3>1, <3>2
  <2>3. HostTakes(w, event) = Wire(Answered(w.c, <<Reply(w, event)>>), Drained(w), w.at)
    <3>1. CASE \E d \in DOMAIN w.devices : w.at = {d}
      BY <1>1, <1>4, <3>1 DEF HostShifts, Reply, Drained
    <3>2. CASE ~\E d \in DOMAIN w.devices : w.at = {d}
      BY <1>1, <1>4, <3>2 DEF HostShifts, Reply, Drained
    <3> QED
      BY <3>1, <3>2
  <2>4. Answered(w.c, <<Reply(w, event)>>) \in SpiCtl(b)
    <3> DEFINE rx == w.c.rx \o <<Reply(w, event)>>
    <3>1. rx \in Seq(Word)
      BY <1>2, <2>2, ConcatProperties
    <3>2. Answered(w.c, <<Reply(w, event)>>) = [w.c EXCEPT !.rx = rx]
      BY DEF Answered
    <3> HIDE DEF rx
    <3> QED
      BY <1>2, <3>1, <3>2 DEF SpiCtl
  <2> QED
    BY <1>2, <1>4, <2>2, <2>3, <2>4 DEF Wire, SpiWires
<1> QED
  BY <1>3, <1>4

LEMMA TraceOfSpi ==
  ASSUME NEW b \in Benches, b.kind = "spi", NEW w \in SpiWires(b), NEW list \in Seq(SpiEvents)
  PROVE  /\ Served(w, list) \in SpiWires(b) /\ Served(w, <<>>) = w
         /\ \A event \in SpiEvents :
              Served(w, Append(list, event)) = HostTakes(Served(w, list), event)
<1> DEFINE S == SpiWires(b)
           E == SpiEvents
<1>1. \A v \in S, e \in E : HostTakes(v, e) \in S
  BY HostOfSpi
<1> HIDE DEF S, E
<1>2. w \in S /\ list \in Seq(E)
  BY DEF S, E
<1> QED
  BY <1>1, <1>2, ServedGrows DEF S, E

LEMMA TakesBehind ==
  ASSUME NEW b \in Benches, b.kind = "spi", NEW w \in SpiWires(b), NEW v \in SpiWires(b),
         NEW p \in Seq(Word), SpiBehind(p, w, v), NEW event \in SpiEvents
  PROVE  SpiBehind(p, HostTakes(w, event), HostTakes(v, event))
<1>1. w.c \in SpiCtl(b) /\ v.c \in SpiCtl(b) /\ v.c.rx \in Seq(Word)
  BY DEF SpiWires, SpiCtl
<1>2. w.c.rx = p \o v.c.rx /\ w.devices = v.devices /\ w.at = v.at
  BY DEF SpiBehind
<1>3. CASE event.from = "gpio"
  <2> DEFINE at == event.gdir \ event.dr
  <2>1. HostTakes(w, event) = Wire(w.c, w.devices, at) /\ HostTakes(v, event) = Wire(v.c, v.devices, at)
    BY <1>3, HostOfSpi
  <2> HIDE DEF at
  <2>2. /\ HostTakes(w, event).c = w.c /\ HostTakes(v, event).c = v.c
        /\ HostTakes(w, event).devices = w.devices /\ HostTakes(v, event).devices = v.devices
        /\ HostTakes(w, event).at = at /\ HostTakes(v, event).at = at
    BY <2>1 DEF Wire
  <2> QED
    BY <1>2, <2>2 DEF SpiBehind
<1>4. CASE event.from # "gpio"
  <2>1. Reply(w, event) = Reply(v, event) /\ Drained(w) = Drained(v)
    BY <1>2 DEF Reply, Drained
  <2> DEFINE r == Reply(v, event)
  <2>2. /\ HostTakes(w, event) = Wire(Answered(w.c, <<r>>), Drained(v), v.at)
        /\ HostTakes(v, event) = Wire(Answered(v.c, <<r>>), Drained(v), v.at) /\ r \in Word
    BY <1>2, <1>4, <2>1, HostOfSpi
  <2> HIDE DEF r
  <2>3. Answered(w.c, <<r>>).rx = w.c.rx \o <<r>> /\ Answered(v.c, <<r>>).rx = v.c.rx \o <<r>>
    BY <1>1 DEF Answered, SpiCtl
  <2>4. (p \o v.c.rx) \o <<r>> = p \o (v.c.rx \o <<r>>)
    <3>1. <<r>> \in Seq(Word)
      BY <2>2
    <3>2. \A q, x, t \in Seq(Word) : (q \o x) \o t = q \o (x \o t)
      BY ConcatAssociative
    <3> QED
      BY <1>1, <3>1, <3>2
  <2>5. /\ HostTakes(w, event).c = Answered(w.c, <<r>>) /\ HostTakes(v, event).c = Answered(v.c, <<r>>)
        /\ HostTakes(w, event).devices = Drained(v) /\ HostTakes(v, event).devices = Drained(v)
        /\ HostTakes(w, event).at = v.at /\ HostTakes(v, event).at = v.at
    BY <2>2 DEF Wire
  <2> QED
    BY <1>2, <2>3, <2>4, <2>5 DEF SpiBehind
<1> QED
  BY <1>3, <1>4

LEMMA SpiTraceBehind ==
  ASSUME NEW b \in Benches, b.kind = "spi", NEW w \in SpiWires(b), NEW v \in SpiWires(b),
         NEW p \in Seq(Word), SpiBehind(p, w, v), NEW list \in Seq(SpiEvents)
  PROVE  SpiBehind(p, Served(w, list), Served(v, list))
<1> DEFINE S == SpiWires(b)
           E == SpiEvents
           n == Len(list)
           Chain(f, x) == /\ ServedSteps(f, x, list) /\ Served(x, list) = f[n]
                          /\ \A k \in 0 .. n : f[k] \in S
<1>1. \A x \in S : \E f : Chain(f, x)
  <2>1. \A x \in S, e \in E : HostTakes(x, e) \in S
    BY HostOfSpi
  <2>2. list \in Seq(E)
    OBVIOUS
  <2> HIDE DEF S, E
  <2> QED
    BY <2>1, <2>2, ServedFollowsTheTrace
<1>2. n \in Nat /\ \A k \in 1 .. n : list[k] \in SpiEvents
  <2> HIDE DEF S
  <2> QED BY LenProperties, ElementOfSeq
<1>3. w \in S /\ v \in S
  OBVIOUS
<1> HIDE DEF Chain
<1>4. PICK f : Chain(f, w)
  BY <1>1, <1>3
<1>5. PICK g : Chain(g, v)
  BY <1>1, <1>3
<1> DEFINE Holds == {k \in 0 .. n : SpiBehind(p, f[k], g[k])}
<1>6. 0 \in Holds
  BY <1>2, <1>4, <1>5 DEF Chain, ServedSteps
<1>7. ASSUME NEW k \in 1 .. n, k - 1 \in Holds PROVE k \in Holds
  <2> DEFINE x == f[k - 1]
             y == g[k - 1]
             e == list[k]
  <2>1. k - 1 \in 0 .. n /\ k \in 0 .. n
    BY <1>2
  <2>2. x \in S /\ y \in S /\ f[k] = HostTakes(x, e) /\ g[k] = HostTakes(y, e) /\ e \in SpiEvents
    BY <1>2, <1>4, <1>5, <2>1 DEF Chain, ServedSteps
  <2>3. SpiBehind(p, x, y)
    BY <1>7
  <2> HIDE DEF x, y, e, n
  <2>4. SpiBehind(p, f[k], g[k])
    BY <2>2, <2>3, TakesBehind
  <2> QED
    BY <2>1, <2>4
<1> HIDE DEF Holds, n
<1>8. \A k \in 0 .. n : k \in Holds
  BY <1>2, <1>6, <1>7, UpToTheBound
<1> QED
  BY <1>2, <1>4, <1>5, <1>8 DEF Holds, Chain

(***************************************************************************)
(* A driver and its controller keep their types                            *)
(***************************************************************************)
LEMMA WiringStart ==
  ASSUME WiringInit
  PROVE  WiringTyped
<1>1. bench \in Benches /\ peers = bench.peers
  BY DEF WiringInit
<1>2. i2c \in I2cCtl(bench)
  <2>1. bench.external \in BOOLEAN /\ bench.dma \in BOOLEAN
    BY <1>1, KindsOfBenches
  <2>2. i2c = [external |-> bench.external, men |-> TRUE, rdde |-> bench.dma, sticky |-> {},
               mier |-> {"NDF"} \union IF bench.dma THEN {} ELSE {"RDF"},
               rx |-> <<>>, active |-> NoDevice, ext_busy |-> FALSE]
    BY DEF WiringInit, I2cReady, I2cNew, WriteMcr
  <2>3. {"NDF"} \union (IF bench.dma THEN {} ELSE {"RDF"}) \in SUBSET {"NDF", "RDF"}
    OBVIOUS
  <2> QED
    BY <2>1, <2>2, <2>3, EmptySeq DEF I2cCtl, Addresses
<1>3. spi \in SpiCtl(bench)
  <2>1. spi = [external |-> bench.external, men |-> TRUE, ier |-> IF bench.dma THEN {} ELSE {"RDF"},
               der |-> IF bench.dma THEN {"TDDE", "RDDE"} ELSE {}, framesz |-> 0, sticky |-> {}, rx |-> <<>>]
    BY DEF WiringInit, SpiReady, SpiNew, WriteCr
  <2>2. 0 \in 0 .. WordBits - 1
    BY PowersArePositive
  <2> QED
    BY <2>1, <2>2, EmptySeq DEF SpiCtl
<1>4. adc \in AdcCtl
  <2> DEFINE inputs == [ch \in 0 .. Channels - 1 |-> Min(AdcValues)]
  <2>1. Min(AdcValues) \in AdcValues
    BY WiringAssumption, LeastIsIn
  <2>2. inputs \in [0 .. Channels - 1 -> AdcValues]
    BY <2>1
  <2>3. bench.dma \in BOOLEAN
    BY <1>1, KindsOfBenches
  <2>4. adc = [hc |-> [n \in Slots |-> [adch |-> Disabled, aien |-> FALSE]], r |-> [n \in Slots |-> 0],
               coco |-> {}, dmaen |-> bench.dma, channels |-> inputs]
    BY DEF WiringInit, AdcNew
  <2> HIDE DEF inputs
  <2> QED
    BY <2>2, <2>3, <2>4, AdcAssumption DEF AdcCtl
<1>5. pads \in Outputs
  BY DEF WiringInit, DrSet, GpioNew, Outputs
<1>6. events = <<>> /\ job = None /\ todo = <<>> /\ due = 0 /\ host = IF bench.kind = "i2c" THEN NoDevice ELSE {}
  BY DEF WiringInit
<1>7. ControllersTyped
  BY <1>1, <1>2, <1>3, <1>4, <1>5, <1>6, KindsOfBenches, EmptySeq DEF ControllersTyped, Addresses
<1> QED
  BY <1>1, <1>6, <1>7, EmptySeq DEF WiringTyped, DriverTyped

(* The next write, by its controller.                                      *)
LEMMA WriteIsTyped ==
  ASSUME WiringTyped, todo # <<>>
  PROVE  /\ Tail(todo) \in Seq(Ops(bench)) /\ Dues(Write) \in Nat
         /\ \/ bench.kind = "i2c" /\ Write \in Commands
               /\ Write.op \in {"START", "TX", "RX", "DISCARD", "STOP"}
            \/ bench.kind = "spi" /\ Write \in SpiWrites
               /\ \/ Write.op = "TCR" /\ Write.bits \in 1 .. WordBits
                  \/ Write.op = "TDR" /\ Write.word \in Word
                  \/ Write.op \in {"SELECT", "RELEASE"} /\ Write.pin \in Pins
            \/ bench.kind = "adc" /\ Write.op = "HC" /\ Write.slot \in Slots /\ Write.channel \in Nat
<1>1. todo \in Seq(Ops(bench)) /\ bench \in Benches
  BY DEF WiringTyped, DriverTyped
<1>2. Write \in Ops(bench) /\ Tail(todo) \in Seq(Ops(bench))
  <2> DEFINE S == Ops(bench)
  <2> HIDE DEF S
  <2>1. todo \in Seq(S)
    BY <1>1 DEF S
  <2>2. Head(todo) \in S /\ Tail(todo) \in Seq(S)
    BY <2>1, HeadTailProperties
  <2> QED
    BY <2>2 DEF S, Write
<1>3. CASE bench.kind = "i2c"
  <2>1. Write \in Commands
    BY <1>2, <1>3 DEF Ops
  <2>2. Write.op \in {"START", "TX", "RX", "DISCARD", "STOP"} /\ Dues(Write) \in Nat
    BY <2>1, CommandsAreTyped DEF Dues
  <2> QED
    BY <1>2, <1>3, <2>1, <2>2
<1>4. CASE bench.kind = "spi"
  <2>1. Write \in SpiWrites
    BY <1>2, <1>4 DEF Ops
  <2>2. \/ Write.op = "TCR" /\ Write.bits \in 1 .. WordBits
        \/ Write.op = "TDR" /\ Write.word \in Word
        \/ Write.op \in {"SELECT", "RELEASE"} /\ Write.pin \in Pins
    BY <2>1 DEF SpiWrites
  <2>3. Dues(Write) \in Nat
    BY <2>2 DEF Dues
  <2> QED
    BY <1>2, <1>4, <2>1, <2>2, <2>3
<1>5. CASE bench.kind = "adc"
  <2>1. Write \in Conversions
    BY <1>2, <1>5 DEF Ops
  <2>2. Write.op = "HC" /\ Write.slot \in Slots /\ Write.channel \in Nat
    BY <2>1 DEF Conversions
  <2>3. Dues(Write) \in Nat
    BY <2>2 DEF Dues
  <2> QED
    BY <1>2, <1>5, <2>2, <2>3
<1> QED
  BY <1>1, <1>3, <1>4, <1>5, KindsOfBenches

LEMMA IssuingIsTyped ==
  ASSUME WiringTyped, NEW ops, Issuing(ops)
  PROVE  bench' = bench /\ host' = host /\ DriverTyped'
<1>1. todo # <<>> /\ todo' = Tail(todo) /\ due' = due + Dues(Write) /\ bench' = bench /\ host' = host /\ job' = job
  BY DEF Issuing
<1>2. Tail(todo) \in Seq(Ops(bench)) /\ Dues(Write) \in Nat
  BY <1>1, WriteIsTyped
<1>3. job # None /\ job \in JobsOf[bench.kind] \union {None} /\ due \in Nat
  BY <1>1 DEF WiringTyped, DriverTyped
<1>4. due' \in Nat
  BY <1>1, <1>2, <1>3
<1> QED
  BY <1>1, <1>2, <1>3, <1>4 DEF DriverTyped

(* What is traced is an event of the controller's.                         *)
LEMMA TracedIsTyped ==
  ASSUME WiringTyped, NEW event \in Events(bench), Traced(event)
  PROVE  events' \in Seq(Events(bench)) /\ (events' # <<>> => bench.external)
<1>1. events \in Seq(Events(bench)) /\ (events # <<>> => bench.external)
  BY DEF WiringTyped, ControllersTyped
<1> DEFINE S == Events(bench)
<1>2. event \in S /\ events \in Seq(S)
  BY <1>1
<1> HIDE DEF S
<1>3. Append(events, event) \in Seq(S)
  BY <1>2, AppendProperties
<1> QED
  BY <1>1, <1>3 DEF Traced, S

LEMMA CommandStep ==
  ASSUME WiringTyped, IssueCommand
  PROVE  WiringTyped'
<1>1. /\ Issuing({"START", "TX", "RX", "DISCARD", "STOP"}) /\ todo # <<>>
      /\ Write.op \in {"START", "TX", "RX", "DISCARD", "STOP"}
      /\ i2c' = Commanded(i2c, peers, Write).c /\ peers' = Commanded(i2c, peers, Write).bank
      /\ Traced([from |-> "i2c", cmd |-> Write])
      /\ UNCHANGED <<spi, adc, pads, plan>>
  BY DEF IssueCommand, Issuing
<1>2. bench' = bench /\ host' = host /\ DriverTyped' /\ bench \in Benches
  BY <1>1, IssuingIsTyped DEF WiringTyped
<1>3. bench.kind = "i2c" /\ Write \in Commands
  <2>1. Write.op \notin {"TCR", "TDR", "SELECT", "RELEASE", "HC"}
    BY <1>1
  <2> QED
    BY <1>1, <2>1, WriteIsTyped
<1>4. /\ i2c \in I2cCtl(bench) /\ spi \in SpiCtl(bench) /\ adc \in AdcCtl /\ pads \in Outputs
      /\ peers \in Banks(bench) /\ host \in Addresses(bench)
  BY <1>3 DEF WiringTyped, ControllersTyped
<1>5. i2c' \in I2cCtl(bench) /\ peers' \in Banks(bench)
  <2>1. CASE i2c.external
    <3>1. i2c' = External(i2c, Write) /\ peers' = peers
      BY <1>1, <2>1 DEF Commanded, Bus
    <3> QED
      BY <1>2, <1>3, <1>4, <3>1, ExternalIsTyped
  <2>2. CASE ~i2c.external
    <3>1. i2c' = Local(i2c, peers, Write).c /\ peers' = Local(i2c, peers, Write).bank
      BY <1>1, <2>2 DEF Commanded
    <3> QED
      BY <1>2, <1>3, <1>4, <3>1, LocalIsAct
  <2> QED
    BY <2>1, <2>2
<1>6. [from |-> "i2c", cmd |-> Write] \in Events(bench)
  BY <1>3 DEF Events, I2cEvents
<1>7. events' \in Seq(Events(bench)) /\ (events' # <<>> => bench.external)
  BY <1>1, <1>6, TracedIsTyped
<1>8. ControllersTyped'
  BY <1>1, <1>2, <1>3, <1>4, <1>5, <1>7 DEF ControllersTyped
<1> QED
  BY <1>2, <1>8 DEF WiringTyped

(* A word shifted by an enabled controller.                                *)
LEMMA MaskedIsWord ==
  ASSUME NEW b \in Benches, NEW s \in SpiCtl(b), NEW word \in Word
  PROVE  Masked(s, word) \in Word /\ FrameBits(s) \in 1 .. WordBits
<1>1. s.framesz \in 0 .. WordBits - 1 /\ WordBits \in Nat \ {0} /\ word \in Nat
  BY PowersArePositive DEF SpiCtl
<1>2. FrameBits(s) \in 1 .. WordBits
  BY <1>1 DEF FrameBits
<1>3. word % (2 ^ FrameBits(s)) \in Word
  BY <1>1, <1>2, PowersArePositive
<1> QED
  BY <1>2, <1>3 DEF Masked

LEMMA ShiftIsTyped ==
  ASSUME NEW b \in Benches, b.kind = "spi", NEW s \in SpiCtl(b), NEW devices \in SpiBanks(b), NEW word \in Word
  PROVE  LET attached == IF b.external THEN <<>> ELSE devices
         IN  /\ Shifted(s, attached, word) \in SpiCtl(b)
             /\ (IF b.external THEN devices ELSE ShiftedAgainst(s, attached)) \in SpiBanks(b)
<1> DEFINE attached == IF b.external THEN <<>> ELSE devices
           flags == {"WCF", "FCF", "TCF"}
           done == [s EXCEPT !.sticky = s.sticky \union flags]
<1>1. s.external = b.external /\ s.men /\ s.rx \in Seq(Word) /\ s.sticky \in SUBSET flags
  BY DEF SpiCtl
<1>2. done \in SpiCtl(b)
  BY <1>1 DEF SpiCtl
<1>3. CASE b.external
  <2>1. Shifted(s, attached, word) = done
    BY <1>1, <1>3 DEF Shifted
  <2> HIDE DEF done
  <2> QED
    BY <1>2, <1>3, <2>1
<1>4. CASE ~b.external
  <2>1. b.peers \in Seq(Seq(Word)) /\ Len(b.peers) <= 1
    BY <1>4, KindsOfBenches
  <2>2. DOMAIN devices = 1 .. Len(b.peers) /\ \A d \in DOMAIN devices : devices[d] \in Seq(Word)
    BY <2>1, LenProperties DEF SpiBanks
  <2> DEFINE sent == IF devices = <<>> THEN word ELSE Miso(devices[1])
             reply == Masked(s, sent)
  <2>3. sent \in Word
    <3>1. CASE devices = <<>>
      BY <3>1
    <3>2. CASE devices # <<>>
      <4>1. Len(b.peers) # 0
        <5> SUFFICES ASSUME Len(b.peers) = 0 PROVE devices = <<>>
          BY <3>2
        <5>1. DOMAIN devices = {} /\ devices = [d \in DOMAIN devices |-> devices[d]]
          BY <2>2 DEF SpiBanks
        <5>2. \A d \in {} : d = d
          OBVIOUS
        <5> QED
          BY <5>1
      <4>2. 1 \in DOMAIN devices
        BY <2>1, <2>2, <4>1, LenProperties
      <4>3. devices[1] \in Seq(Word)
        BY <2>2, <4>2
      <4> QED
        BY <3>2, <4>3, RepliesAreTyped
    <3> QED
      BY <3>1, <3>2
  <2>4. reply \in Word
    BY <2>3, MaskedIsWord
  <2>5. Shifted(s, attached, word) = Answered(done, <<reply>>)
    BY <1>1, <1>4 DEF Shifted
  <2>6. Answered(done, <<reply>>) \in SpiCtl(b)
    <3> HIDE DEF reply
    <3> DEFINE rx == s.rx \o <<reply>>
    <3>1. rx \in Seq(Word)
      BY <1>1, <2>4, ConcatProperties
    <3>2. done.rx = s.rx
      BY <1>2 DEF SpiCtl
    <3>3. Answered(done, <<reply>>) = [done EXCEPT !.rx = rx]
      BY <3>2 DEF Answered
    <3> HIDE DEF rx, done
    <3> QED
      BY <1>2, <3>1, <3>3 DEF SpiCtl
  <2>7. ShiftedAgainst(s, attached) = [d \in DOMAIN devices |-> Consumed(devices[d])]
    BY <1>1, <1>4 DEF ShiftedAgainst
  <2>8. \A d \in DOMAIN devices : Consumed(devices[d]) \in Seq(Word)
    BY <2>2, RepliesAreTyped
  <2>9. ShiftedAgainst(s, attached) \in SpiBanks(b)
    BY <2>7, <2>8 DEF SpiBanks
  <2> HIDE DEF attached, reply, done
  <2> QED
    BY <1>4, <2>5, <2>6, <2>9 DEF attached
<1> QED
  BY <1>3, <1>4

LEMMA WordStep ==
  ASSUME WiringTyped, IssueWord
  PROVE  WiringTyped'
<1> DEFINE attached == IF bench.external THEN <<>> ELSE peers
<1>1. /\ Issuing({"TDR"}) /\ todo # <<>> /\ Write.op = "TDR"
      /\ spi' = Shifted(spi, attached, Write.word)
      /\ peers' = IF bench.external THEN peers ELSE ShiftedAgainst(spi, attached)
      /\ spi.men => Traced([from |-> "spi", word |-> Masked(spi, Write.word), bits |-> FrameBits(spi)])
      /\ UNCHANGED <<i2c, adc, pads, plan>>
  BY DEF IssueWord, Issuing
<1>2. bench' = bench /\ host' = host /\ DriverTyped' /\ bench \in Benches
  BY <1>1, IssuingIsTyped DEF WiringTyped
<1>3. bench.kind = "spi" /\ Write.word \in Word
  BY <1>1, WriteIsTyped
<1>4. /\ i2c \in I2cCtl(bench) /\ spi \in SpiCtl(bench) /\ adc \in AdcCtl /\ pads \in Outputs
      /\ peers \in SpiBanks(bench) /\ host \in SUBSET Pins
  BY <1>3 DEF WiringTyped, ControllersTyped
<1>5. spi' \in SpiCtl(bench) /\ peers' \in SpiBanks(bench)
  BY <1>1, <1>2, <1>3, <1>4, ShiftIsTyped
<1>6. [from |-> "spi", word |-> Masked(spi, Write.word), bits |-> FrameBits(spi)] \in Events(bench)
  <2>1. Masked(spi, Write.word) \in Word /\ FrameBits(spi) \in 1 .. WordBits
    BY <1>2, <1>3, <1>4, MaskedIsWord
  <2> QED
    BY <1>3, <2>1 DEF Events, SpiEvents
<1>7. events' \in Seq(Events(bench)) /\ (events' # <<>> => bench.external)
  <2>1. spi.men
    BY <1>4 DEF SpiCtl
  <2> QED
    BY <1>1, <1>6, <2>1, TracedIsTyped
<1>8. ControllersTyped'
  BY <1>1, <1>2, <1>3, <1>4, <1>5, <1>7 DEF ControllersTyped
<1> QED
  BY <1>2, <1>8 DEF WiringTyped

LEMMA FrameStep ==
  ASSUME WiringTyped, SetFrame
  PROVE  WiringTyped'
<1>1. /\ Issuing({"TCR"}) /\ todo # <<>> /\ Write.op = "TCR"
      /\ spi' = [spi EXCEPT !.framesz = Write.bits - 1]
      /\ UNCHANGED <<i2c, adc, pads, peers, events, plan>>
  BY DEF SetFrame, Issuing
<1>2. bench' = bench /\ host' = host /\ DriverTyped'
  BY <1>1, IssuingIsTyped
<1>3. Write.bits \in 1 .. WordBits
  BY <1>1, WriteIsTyped
<1>4. spi \in SpiCtl(bench) /\ Write.bits - 1 \in 0 .. WordBits - 1
  BY <1>3, PowersArePositive DEF WiringTyped, ControllersTyped
<1>5. spi' \in SpiCtl(bench)
  BY <1>1, <1>4 DEF SpiCtl
<1> QED
  BY <1>1, <1>2, <1>5 DEF WiringTyped, ControllersTyped

LEMMA SelectStep ==
  ASSUME WiringTyped, IssueSelect
  PROVE  WiringTyped'
<1>1. /\ Issuing({"SELECT", "RELEASE"}) /\ todo # <<>> /\ Write.op \in {"SELECT", "RELEASE"}
      /\ pads' \in Selected(pads, Write.pin) \union Released(pads, Write.pin)
      /\ Traced(CsEvent(pads')) /\ UNCHANGED <<i2c, spi, adc, peers, plan>>
  BY DEF IssueSelect, Issuing
<1>2. bench' = bench /\ host' = host /\ DriverTyped'
  BY <1>1, IssuingIsTyped
<1>3. bench.kind = "spi" /\ Write.pin \in Pins
  <2>1. Write.op \notin {"START", "TX", "RX", "DISCARD", "STOP", "TCR", "TDR", "HC"}
    BY <1>1
  <2> QED
    BY <1>1, <2>1, WriteIsTyped
<1>4. pads \in Outputs
  BY DEF WiringTyped, ControllersTyped
<1>5. pads' \in Outputs
  BY <1>1, <1>3, <1>4 DEF Selected, Released, DrSet, DrClear, DrToggle, WriteDr, Outputs
<1>6. CsEvent(pads') \in Events(bench)
  BY <1>3, <1>5 DEF CsEvent, Outputs, Events, SpiEvents
<1>7. events' \in Seq(Events(bench)) /\ (events' # <<>> => bench.external)
  BY <1>1, <1>6, TracedIsTyped
<1> QED
  BY <1>1, <1>2, <1>5, <1>7 DEF WiringTyped, ControllersTyped

LEMMA ConversionStep ==
  ASSUME WiringTyped, IssueConversion
  PROVE  WiringTyped'
<1> DEFINE set == [adch |-> Write.channel, aien |-> ~bench.dma]
<1>1. /\ Issuing({"HC"}) /\ todo # <<>> /\ Write.op = "HC"
      /\ adc' = WriteHc(adc, Write.slot, set)
      /\ UNCHANGED <<i2c, spi, pads, peers, events>>
  BY DEF IssueConversion, Issuing
<1>2. bench' = bench /\ host' = host /\ DriverTyped' /\ bench \in Benches
  BY <1>1, IssuingIsTyped DEF WiringTyped
<1>3. Write.slot \in Slots /\ Write.channel \in Nat
  BY <1>1, WriteIsTyped
<1>4. adc \in AdcCtl
  BY DEF WiringTyped, ControllersTyped
<1>5. set \in [adch : Nat, aien : BOOLEAN]
  BY <1>2, <1>3, KindsOfBenches
<1>6. adc' \in AdcCtl
  <2>1. Input(Write.channel) \in 0 .. Channels - 1
    BY <1>3, AdcAssumption DEF Input
  <2>2. adc.channels[Input(Write.channel)] \in AdcValues
    BY <1>4, <2>1 DEF AdcCtl
  <2> HIDE DEF set
  <2>3. [adc EXCEPT !.hc[Write.slot] = set] \in AdcCtl
    BY <1>3, <1>4, <1>5 DEF AdcCtl
  <2>4. \A a \in AdcCtl, v \in AdcValues, n \in Slots :
          /\ [a EXCEPT !.coco = @ \ {n}] \in AdcCtl
          /\ [a EXCEPT !.r[n] = v, !.coco = @ \union {n}] \in AdcCtl
    BY DEF AdcCtl
  <2> DEFINE a == [adc EXCEPT !.hc[Write.slot] = set]
             v == adc.channels[Input(set.adch)]
  <2>5. set.adch = Write.channel
    BY DEF set
  <2>6. adc' = IF set.adch = Disabled THEN [a EXCEPT !.coco = @ \ {Write.slot}]
               ELSE [a EXCEPT !.r[Write.slot] = v, !.coco = @ \union {Write.slot}]
    BY <1>1 DEF WriteHc
  <2>7. a \in AdcCtl /\ v \in AdcValues
    BY <2>2, <2>3, <2>5
  <2> HIDE DEF a, v
  <2> QED
    BY <1>3, <2>4, <2>6, <2>7
<1> QED
  BY <1>1, <1>2, <1>6 DEF WiringTyped, ControllersTyped

(* Taking a word leaves the driver typed.                                  *)
LEMMA TookIsTyped ==
  ASSUME WiringTyped, due > 0, NEW word, Took(word)
  PROVE  /\ bench' = bench /\ host' = host /\ pads' = pads /\ peers' = peers /\ events' = events
         /\ DriverTyped'
<1>1. /\ bench' = bench /\ host' = host /\ job' = job /\ todo' = todo /\ due' = due - 1
      /\ pads' = pads /\ peers' = peers /\ events' = events
  BY DEF Took
<1>2. due \in Nat /\ job # None
  BY DEF WiringTyped, DriverTyped
<1>3. due' \in Nat
  BY <1>1, <1>2
<1> QED
  BY <1>1, <1>2, <1>3 DEF WiringTyped, DriverTyped

LEMMA TakeStep ==
  ASSUME WiringTyped, Take
  PROVE  WiringTyped'
<1>1. i2c \in I2cCtl(bench) /\ spi \in SpiCtl(bench) /\ adc \in AdcCtl
  BY DEF WiringTyped, ControllersTyped
<1>2. CASE TakeByte
  <2>1. /\ due > 0 /\ Took(Head(i2c.rx)) /\ i2c.rx # <<>> /\ i2c' = ReadMrdr(i2c)
        /\ spi' = spi /\ adc' = adc
    BY <1>2 DEF TakeByte, Called
  <2>2. Tail(i2c.rx) \in Seq(Byte)
    BY <1>1, <2>1, HeadTailProperties DEF I2cCtl
  <2>3. i2c' = [i2c EXCEPT !.rx = Tail(i2c.rx)]
    BY <2>1 DEF ReadMrdr
  <2>4. i2c' \in I2cCtl(bench)
    BY <1>1, <2>2, <2>3 DEF I2cCtl
  <2> QED
    BY <2>1, <2>4, TookIsTyped DEF WiringTyped, ControllersTyped
<1>3. CASE TakeWord
  <2>1. /\ due > 0 /\ Took(Head(spi.rx)) /\ spi.rx # <<>> /\ spi' = ReadRdr(spi)
        /\ i2c' = i2c /\ adc' = adc
    BY <1>3 DEF TakeWord, Called
  <2>2. Tail(spi.rx) \in Seq(Word)
    BY <1>1, <2>1, HeadTailProperties DEF SpiCtl
  <2>3. spi' = [spi EXCEPT !.rx = Tail(spi.rx)]
    BY <2>1 DEF ReadRdr
  <2>4. spi' \in SpiCtl(bench)
    BY <1>1, <2>2, <2>3 DEF SpiCtl
  <2> QED
    BY <2>1, <2>4, TookIsTyped DEF WiringTyped, ControllersTyped
<1>4. CASE TakeResult
  <2> DEFINE slot == job[Len(got) + 1].slot
  <2>1. /\ due > 0 /\ slot \in adc.coco /\ Took(adc.r[slot]) /\ adc' = ReadR(adc, slot)
        /\ i2c' = i2c /\ spi' = spi
    BY <1>4 DEF TakeResult, Called
  <2>2. adc' \in AdcCtl
    <3> HIDE DEF slot
    <3> QED BY <1>1, <2>1 DEF ReadR, AdcCtl
  <2> HIDE DEF slot
  <2> QED
    BY <2>1, <2>2, TookIsTyped DEF WiringTyped, ControllersTyped
<1> QED
  BY <1>2, <1>3, <1>4 DEF Take

LEMMA NackStep ==
  ASSUME WiringTyped, SeeNack
  PROVE  WiringTyped'
<1>1. /\ job # None /\ i2c' = WriteMcr(WriteMsr(i2c, {"NDF"}), {"MEN", "RRF"})
      /\ todo' = (IF todo = <<>> THEN todo ELSE <<Last(todo)>>) /\ due' = 0
      /\ UNCHANGED <<bench, spi, adc, pads, peers, events, host, job>>
  BY DEF SeeNack
<1>2. i2c \in I2cCtl(bench) /\ todo \in Seq(Ops(bench))
  BY DEF WiringTyped, ControllersTyped, DriverTyped
<1>3. i2c' \in I2cCtl(bench)
  <2>1. i2c' = [i2c EXCEPT !.sticky = i2c.sticky \ {"NDF"}, !.men = TRUE, !.rx = <<>>]
    BY <1>1, <1>2 DEF WriteMcr, WriteMsr, I2cCtl
  <2> QED
    BY <1>2, <2>1, EmptySeq DEF I2cCtl
<1>4. todo' \in Seq(Ops(bench))
  <2> DEFINE S == Ops(bench)
  <2> HIDE DEF S
  <2>1. todo \in Seq(S)
    BY <1>2 DEF S
  <2>2. todo # <<>> => todo[Len(todo)] \in S
    BY <2>1, LenProperties, ElementOfSeq, EmptySeq
  <2>3. todo' \in Seq(S)
    BY <1>1, <2>1, <2>2 DEF Last
  <2> QED
    BY <2>3 DEF S
<1> QED
  BY <1>1, <1>3, <1>4 DEF WiringTyped, ControllersTyped, DriverTyped

LEMMA FinishStep ==
  ASSUME WiringTyped, Finish
  PROVE  WiringTyped'
<1>1. /\ i2c' = WriteMsr(i2c, {"SDF", "EPF"}) /\ spi' = WriteSr(spi, {"WCF", "FCF", "TCF"})
      /\ job' = None /\ todo' = <<>> /\ due' = 0
      /\ UNCHANGED <<bench, adc, pads, peers, events, host>>
  BY DEF Finish, Rest
<1>2. i2c \in I2cCtl(bench) /\ spi \in SpiCtl(bench)
  BY DEF WiringTyped, ControllersTyped
<1>3. i2c' \in I2cCtl(bench)
  BY <1>1, <1>2 DEF WriteMsr, I2cCtl
<1>4. spi' \in SpiCtl(bench)
  BY <1>1, <1>2 DEF WriteSr, SpiCtl
<1> QED
  BY <1>1, <1>3, <1>4, EmptySeq DEF WiringTyped, ControllersTyped, DriverTyped

LEMMA ResetsAreTyped ==
  ASSUME NEW b \in Benches, b = bench, NEW c \in I2cCtl(b), NEW s \in SpiCtl(b)
  PROVE  /\ I2cReady(WriteMcr(c, {"RST"})) \in I2cCtl(b)
         /\ I2cReady(WriteMcr(c, {"RST"})).rx = <<>> /\ I2cReady(WriteMcr(c, {"RST"})).sticky = {}
         /\ SpiReady(WriteCr(s, {"RST"})) \in SpiCtl(b)
         /\ SpiReady(WriteCr(s, {"RST"})).rx = <<>>
<1>1. /\ I2cReady(WriteMcr(c, {"RST"})) \in I2cCtl(b)
      /\ I2cReady(WriteMcr(c, {"RST"})).rx = <<>> /\ I2cReady(WriteMcr(c, {"RST"})).sticky = {}
  <2> DEFINE r    == WriteMcr(c, {"RST"})
             mier == {"NDF"} \union IF bench.dma THEN {} ELSE {"RDF"}
  <2>1. <<>> \in Seq(Byte) /\ NoDevice \in Addresses(b)
    BY EmptySeq DEF Addresses
  <2>2. I2cReset(c) \in I2cCtl(b) /\ I2cReset(c).rx = <<>> /\ I2cReset(c).sticky = {}
    BY <2>1 DEF I2cReset, I2cNew, I2cCtl
  <2> DEFINE fresh == IF "RST" \in {"RST"} THEN I2cReset(c) ELSE c
             men   == "MEN" \in {"RST"}
             rx    == IF "RRF" \in {"RST"} THEN <<>> ELSE fresh.rx
  <2>8. r = [fresh EXCEPT !.men = men, !.rx = rx]
    BY DEF WriteMcr
  <2>9. fresh = I2cReset(c) /\ men \in BOOLEAN
    OBVIOUS
  <2>10. rx = <<>>
    BY <2>2, <2>9
  <2> HIDE DEF fresh, men, rx, r
  <2>3. r.rx = <<>> /\ r.sticky = {}
    BY <2>2, <2>8, <2>9, <2>10 DEF I2cCtl
  <2>4. r \in I2cCtl(b)
    BY <2>1, <2>2, <2>8, <2>9, <2>10 DEF I2cCtl
  <2> HIDE DEF r
  <2>5. WriteMcr(r, {"MEN"}) = [r EXCEPT !.men = TRUE, !.rx = r.rx]
    BY <2>3, <2>4 DEF WriteMcr, I2cCtl
  <2>6. mier \in SUBSET {"NDF", "RDF"} /\ I2cReady(r) = [WriteMcr(r, {"MEN"}) EXCEPT !.mier = mier]
    BY DEF I2cReady
  <2> HIDE DEF mier
  <2>7. I2cReady(r) \in I2cCtl(b) /\ I2cReady(r).rx = <<>> /\ I2cReady(r).sticky = {}
    BY <2>1, <2>3, <2>4, <2>5, <2>6 DEF I2cCtl
  <2> QED
    BY <2>7 DEF r
<1>2. SpiReady(WriteCr(s, {"RST"})) \in SpiCtl(b) /\ SpiReady(WriteCr(s, {"RST"})).rx = <<>>
  <2> DEFINE r   == WriteCr(s, {"RST"})
             ier == IF bench.dma THEN {} ELSE {"RDF"}
  <2> DEFINE Ctl == [external : {b.external}, men : BOOLEAN, ier : SUBSET {"RDF"},
                     der : SUBSET {"TDDE", "RDDE"}, framesz : 0 .. WordBits - 1,
                     sticky : SUBSET {"WCF", "FCF", "TCF"}, rx : Seq(Word)]
  <2>1. <<>> \in Seq(Word) /\ 0 \in 0 .. WordBits - 1
    BY EmptySeq, PowersArePositive
  <2>2. SpiReset(s) \in Ctl /\ SpiReset(s).rx = <<>>
    BY <2>1 DEF SpiReset, SpiNew, SpiCtl
  <2> DEFINE fresh == IF "RST" \in {"RST"} THEN SpiReset(s) ELSE s
             men   == "MEN" \in {"RST"}
             rx    == IF "RRF" \in {"RST"} THEN <<>> ELSE fresh.rx
  <2>7. r = [fresh EXCEPT !.men = men, !.rx = rx]
    BY DEF WriteCr
  <2>8. fresh = SpiReset(s) /\ men \in BOOLEAN
    OBVIOUS
  <2>9. rx = <<>>
    BY <2>2, <2>8
  <2> HIDE DEF fresh, men, rx, r
  <2>3. r \in Ctl /\ r.rx = <<>>
    BY <2>1, <2>2, <2>7, <2>8, <2>9
  <2> HIDE DEF r
  <2>4. WriteCr(r, {"MEN"}) \in SpiCtl(b) /\ WriteCr(r, {"MEN"}).rx = <<>>
    BY <2>3 DEF WriteCr, SpiCtl
  <2>5. ier \in SUBSET {"RDF"} /\ SpiReady(r) = [WriteCr(r, {"MEN"}) EXCEPT !.ier = ier]
    BY DEF SpiReady
  <2> HIDE DEF ier
  <2>6. SpiReady(r) \in SpiCtl(b) /\ SpiReady(r).rx = <<>>
    BY <2>4, <2>5 DEF SpiCtl
  <2> QED
    BY <2>6 DEF r
<1> QED
  BY <1>1, <1>2

LEMMA GiveUpStep ==
  ASSUME WiringTyped, GiveUp
  PROVE  WiringTyped'
<1>1. /\ i2c' = I2cReady(WriteMcr(i2c, {"RST"})) /\ spi' = SpiReady(WriteCr(spi, {"RST"}))
      /\ adc' = [adc EXCEPT !.hc = [n \in Slots |-> [adch |-> Disabled, aien |-> FALSE]], !.coco = {}]
      /\ pads' = DrSet(pads, Pins)
      /\ IF bench.kind = "spi" THEN Traced(CsEvent(pads')) ELSE UNCHANGED events
      /\ job' = None /\ todo' = <<>> /\ due' = 0
      /\ UNCHANGED <<bench, peers, host>>
  BY DEF GiveUp, Rest
<1>2. /\ i2c \in I2cCtl(bench) /\ spi \in SpiCtl(bench) /\ adc \in AdcCtl /\ pads \in Outputs
      /\ events \in Seq(Events(bench)) /\ (events # <<>> => bench.external) /\ bench \in Benches
  BY DEF WiringTyped, ControllersTyped
<1>3. i2c' \in I2cCtl(bench) /\ spi' \in SpiCtl(bench)
  BY <1>1, <1>2, ResetsAreTyped
<1>4. adc' \in AdcCtl
  <2> DEFINE hc == [n \in Slots |-> [adch |-> Disabled, aien |-> FALSE]]
  <2>1. hc \in [Slots -> [adch : Nat, aien : BOOLEAN]]
    BY AdcAssumption
  <2>2. adc' = [adc EXCEPT !.hc = hc, !.coco = {}]
    BY <1>1
  <2> HIDE DEF hc
  <2> QED
    BY <1>2, <2>1, <2>2 DEF AdcCtl
<1>5. pads' \in Outputs
  BY <1>1, <1>2 DEF DrSet, Outputs
<1>6. events' \in Seq(Events(bench)) /\ (events' # <<>> => bench.external)
  <2>1. CASE bench.kind = "spi"
    <3>1. CsEvent(pads') \in Events(bench)
      BY <1>5, <2>1 DEF CsEvent, Outputs, Events, SpiEvents
    <3> QED
      BY <1>1, <2>1, <3>1, TracedIsTyped
  <2>2. CASE bench.kind # "spi"
    BY <1>1, <1>2, <2>2
  <2> QED
    BY <2>1, <2>2
<1> QED
  BY <1>1, <1>3, <1>4, <1>5, <1>6, EmptySeq DEF WiringTyped, ControllersTyped, DriverTyped

LEMMA HostTakesStep ==
  ASSUME WiringTyped, HostTakesEvents
  PROVE  WiringTyped'
<1> DEFINE w == Wire(IF bench.kind = "i2c" THEN i2c ELSE spi, peers, host)
           after == Served(w, events)
<1>1. /\ events # <<>> /\ events' = <<>> /\ peers' = after.devices /\ host' = after.at
      /\ IF bench.kind = "i2c" THEN i2c' = after.c /\ UNCHANGED spi ELSE spi' = after.c /\ UNCHANGED i2c
      /\ UNCHANGED <<bench, adc, pads, job, todo, due, got, plan>>
  BY DEF HostTakesEvents, driver
<1>2. /\ i2c \in I2cCtl(bench) /\ spi \in SpiCtl(bench) /\ events \in Seq(Events(bench)) /\ bench \in Benches
      /\ bench.kind = "i2c" => peers \in Banks(bench) /\ host \in Addresses(bench)
      /\ bench.kind = "spi" => peers \in SpiBanks(bench) /\ host \in SUBSET Pins
  BY DEF WiringTyped, ControllersTyped
<1>3. CASE bench.kind = "i2c"
  <2>1. w \in I2cWires(bench) /\ events \in Seq(I2cEvents)
    BY <1>2, <1>3 DEF Wire, I2cWires, Events
  <2>2. after \in I2cWires(bench)
    <3> HIDE DEF w
    <3> QED BY <1>2, <1>3, <2>1, TraceOfI2c
  <2> HIDE DEF after
  <2>3. after.c \in I2cCtl(bench) /\ after.devices \in Banks(bench) /\ after.at \in Addresses(bench)
    BY <2>2 DEF I2cWires
  <2> QED
    BY <1>1, <1>3, <2>3, EmptySeq DEF WiringTyped, ControllersTyped, DriverTyped
<1>4. CASE bench.kind = "spi"
  <2>1. w \in SpiWires(bench) /\ events \in Seq(SpiEvents)
    BY <1>2, <1>4 DEF Wire, SpiWires, Events
  <2>2. after \in SpiWires(bench)
    <3> HIDE DEF w
    <3> QED BY <1>2, <1>4, <2>1, TraceOfSpi
  <2> HIDE DEF after
  <2>3. after.c \in SpiCtl(bench) /\ after.devices \in SpiBanks(bench) /\ after.at \in SUBSET Pins
    BY <2>2 DEF SpiWires
  <2> QED
    BY <1>1, <1>4, <2>3, EmptySeq DEF WiringTyped, ControllersTyped, DriverTyped
<1>5. CASE bench.kind = "adc"
  <2>1. events \in Seq({})
    BY <1>2, <1>5 DEF Events
  <2>2. Head(events) \in {}
    BY <1>1, <2>1, HeadTailProperties
  <2> QED
    BY <2>2
<1> QED
  BY <1>2, <1>3, <1>4, <1>5, KindsOfBenches

LEMMA WiringStep ==
  ASSUME WiringTyped, WiringNext
  PROVE  WiringTyped'
<1>1. CASE Begin
  <2>1. /\ job' \in JobsOf[bench.kind] /\ todo' = Writes(job') /\ due' = 0
        /\ UNCHANGED <<bench, i2c, spi, adc, pads, peers, events, host>>
    BY <1>1 DEF Begin, wires
  <2>2. bench \in Benches /\ bench.kind \in {"i2c", "spi", "adc"}
    BY KindsOfBenches DEF WiringTyped
  <2>3. Writes(job') \in Seq(Ops(bench))
    BY <2>1, <2>2, WritesAreTyped
  <2>4. job' # None
    BY <2>1, <2>2, WiringAssumption
  <2> QED
    BY <2>1, <2>3, <2>4 DEF WiringTyped, ControllersTyped, DriverTyped
<1>2. CASE HostSetsChannel
  <2>1. PICK ch \in 0 .. Channels - 1, v \in AdcValues : adc' = SetChannel(adc, ch, v)
    BY <1>2 DEF HostSetsChannel
  <2>2. UNCHANGED <<bench, i2c, spi, pads, peers, events, host, job, todo, due, got, plan>>
    BY <1>2 DEF HostSetsChannel, driver
  <2>3. adc \in AdcCtl
    BY DEF WiringTyped, ControllersTyped
  <2>4. adc' \in AdcCtl
    BY <2>1, <2>3 DEF SetChannel, AdcCtl
  <2> QED
    BY <2>2, <2>4 DEF WiringTyped, ControllersTyped, DriverTyped
<1> QED
  BY <1>1, <1>2, CommandStep, FrameStep, WordStep, SelectStep, ConversionStep, TakeStep, NackStep,
     FinishStep, GiveUpStep, HostTakesStep DEF WiringNext, WiringServes, Issue

LEMMA WiringTypedIsTypes == WiringTyped => WiringTypes
<1> SUFFICES ASSUME WiringTyped PROVE WiringTypes
  OBVIOUS
<1>1. /\ bench \in Benches /\ i2c \in I2cCtl(bench) /\ spi \in SpiCtl(bench) /\ adc \in AdcCtl
      /\ bench.kind = "i2c" => peers \in Banks(bench)
      /\ events # <<>> => bench.external
  BY DEF WiringTyped, ControllersTyped
<1>2. Msr(i2c) \subseteq {"TDF", "RDF", "EPF", "SDF", "NDF", "MBF"}
  <2>1. i2c.sticky \in SUBSET {"EPF", "SDF", "NDF"}
    BY <1>1 DEF I2cCtl
  <2> QED
    BY <2>1 DEF Msr
<1>3. Sr(spi) \subseteq {"TDF", "RDF", "WCF", "FCF", "TCF"}
  <2>1. spi.sticky \in SUBSET {"WCF", "FCF", "TCF"}
    BY <1>1 DEF SpiCtl
  <2> QED
    BY <2>1 DEF Sr
<1>4. ASSUME bench.kind = "i2c", NEW a \in DOMAIN peers
      PROVE  peers[a].ptr \in 0 .. RegCount - 1 /\ peers[a].expect_ptr \in BOOLEAN
  <2>1. peers[a] \in RegFile
    BY <1>1, <1>4 DEF Banks
  <2> QED
    BY <2>1 DEF RegFile, Byte
<1>5. ASSUME NEW k \in DOMAIN spi.rx PROVE spi.rx[k] \in 0 .. 2 ^ WordBits - 1
  <2>1. spi.rx \in Seq(Word)
    BY <1>1 DEF SpiCtl
  <2>2. spi.rx[k] \in Word
    BY <2>1, LenProperties, ElementOfSeq
  <2> QED
    BY <2>2 DEF Word
<1>6. adc.coco \subseteq Slots /\ \A n \in Slots : adc.r[n] \in AdcValues \union {0}
  BY <1>1 DEF AdcCtl
<1>7. due \in Nat /\ (job = None => todo = <<>>)
  BY DEF WiringTyped, DriverTyped
<1> QED
  BY <1>1, <1>2, <1>3, <1>4, <1>5, <1>6, <1>7 DEF WiringTypes

(* The handler of the inputs has a controller in hand, or nothing.         *)
InputsTyped ==
  /\ gpio \in [Ports -> Pad]
  /\ sampled = Nothing \/ sampled \in [port : Ports, pins : (SUBSET Pins) \ {{}}]
  /\ visits \subseteq Ports \X Pins /\ seen \subseteq Ports \X Pins

LEMMA InputsStepTyped ==
  ASSUME InputsTyped, InputsInv, InputsNext
  PROVE  InputsTyped'
<1>1. gpio' \in [Ports -> Pad]
  BY InputsStep DEF InputsInv, PadsAreConfigured
<1>2. CASE Sample
  <2>1. PICK line \in LinesUp : \E x \in Behind(line) :
          /\ IrqPending(gpio[x[1]], x[2])
          /\ sampled' = [port |-> x[1], pins |-> gpio[x[1]].isr \intersect gpio[x[1]].imr \intersect Half(x[2])]
    BY <1>2 DEF Sample
  <2>2. PICK x \in Behind(line) :
          /\ IrqPending(gpio[x[1]], x[2])
          /\ sampled' = [port |-> x[1], pins |-> gpio[x[1]].isr \intersect gpio[x[1]].imr \intersect Half(x[2])]
    BY <2>1
  <2>3. x[1] \in Ports
    BY <2>2 DEF Behind
  <2>4. gpio[x[1]] \in Pad
    BY <2>3 DEF InputsTyped
  <2> DEFINE pins == gpio[x[1]].isr \intersect gpio[x[1]].imr \intersect Half(x[2])
  <2>5. pins \in (SUBSET Pins) \ {{}}
    BY <2>2, <2>4 DEF IrqPending, Pad
  <2>6. sampled' = [port |-> x[1], pins |-> pins]
    BY <2>2
  <2> HIDE DEF pins
  <2>7. sampled' \in [port : Ports, pins : (SUBSET Pins) \ {{}}]
    BY <2>3, <2>5, <2>6
  <2>8. UNCHANGED <<visits, seen>>
    BY <1>2 DEF Sample
  <2> QED
    BY <1>1, <2>7, <2>8 DEF InputsTyped
<1>3. CASE Acknowledge
  BY <1>1, <1>3 DEF Acknowledge, InputsTyped
<1>4. CASE Look
  BY <1>1, <1>4 DEF Look, InputsTyped
<1>5. CASE SetMask
  BY <1>1, <1>5 DEF SetMask, InputsTyped
<1>6. CASE TurnRound
  BY <1>1, <1>6 DEF TurnRound, InputsTyped
<1>7. CASE HostMoves
  BY <1>1, <1>7 DEF HostMoves, InputsTyped
<1> QED
  BY <1>2, <1>3, <1>4, <1>5, <1>6, <1>7 DEF InputsNext, InputsServes

LEMMA InputsTypedIsTypes == InputsTyped => InputsTypes
<1> SUFFICES ASSUME InputsTyped PROVE InputsTypes
  OBVIOUS
<1>1. \A port \in Ports : \A reg \in {"dr", "gdir", "input", "imr", "isr"} : gpio[port][reg] \subseteq Pins
  <2> TAKE port \in Ports
  <2>1. gpio[port] \in Pad
    BY DEF InputsTyped
  <2> QED
    BY <2>1 DEF Pad
<1> QED
  BY <1>1 DEF InputsTyped, InputsTypes

LEMMA MailboxInvIsTypes == MailboxInv => MailboxTypes
<1> SUFFICES ASSUME MailboxInv PROVE MailboxTypes
  OBVIOUS
<1>1. can \in Can /\ sending \in {"free", "filled", "busy"}
  BY DEF MailboxInv, BuffersOk, SendingOk
<1>2. \A m \in Mbs : can.mb[m].code \in {"none", "empty", "full", "inactive"}
  BY <1>1 DEF Can, Mb, Code
<1> QED
  BY <1>1, <1>2 DEF Can, MailboxTypes

DevicesInv == WiringTyped /\ InputsInv /\ InputsTyped /\ MailboxInv

(* For every bench, every device and every transaction within WiringAssumption, *)
(* and any number of pins, buffers and frames: the status registers hold their  *)
(* flags, the pointer of a register file stays in it, what was received are     *)
(* words, and only a controller of the host leaves a trace.                     *)
THEOREM DevicesAreTyped == Spec => []TypeInvariant
<1>1. Init => DevicesInv
  <2> SUFFICES ASSUME Init PROVE DevicesInv
    OBVIOUS
  <2>1. InputsInv
    BY InputsStart DEF Init
  <2>2. InputsTyped
    BY <2>1 DEF Init, InputsInit, InputsInv, PadsAreConfigured, InputsTyped
  <2> QED
    BY <2>1, <2>2, WiringStart, MailboxStart DEF Init, DevicesInv
<1>2. DevicesInv /\ [Next]_vars => DevicesInv'
  <2> SUFFICES ASSUME DevicesInv, [Next]_vars PROVE DevicesInv'
    OBVIOUS
  <2>1. MailboxInv'
    BY MailboxStep DEF DevicesInv
  <2>2. WiringTyped'
    <3>1. CASE UNCHANGED wiringVars
      BY <3>1 DEF DevicesInv, WiringTyped, ControllersTyped, DriverTyped, wiringVars, wires, driver
    <3>2. CASE WiringNext
      BY <3>2, WiringStep DEF DevicesInv
    <3> QED
      BY <3>1, <3>2 DEF Next, Only, vars
  <2>3. InputsInv' /\ InputsTyped'
    <3>1. CASE UNCHANGED inputsVars
      BY <3>1 DEF DevicesInv, InputsInv, PadsAreConfigured, InputsAreFollowed, Believed, Watched, IsHigh, Psr,
                  InputsTyped, inputsVars
    <3>2. CASE InputsNext
      BY <3>2, InputsStep, InputsStepTyped DEF DevicesInv
    <3> QED
      BY <3>1, <3>2 DEF Next, Only, vars
  <2> QED
    BY <2>1, <2>2, <2>3 DEF DevicesInv
<1>3. DevicesInv => TypeInvariant
  BY WiringTypedIsTypes, InputsTypedIsTypes, MailboxInvIsTypes DEF DevicesInv, TypeInvariant
<1> QED
  BY <1>1, <1>2, <1>3, PTL DEF Spec

(***************************************************************************)
(* A transaction moves the controller of its bench only                    *)
(***************************************************************************)
Quiet ==
  /\ bench.kind # "i2c" => i2c.rx = <<>> /\ "NDF" \notin i2c.sticky
  /\ bench.kind # "spi" => spi.rx = <<>>
  /\ bench.kind # "adc" => adc.coco = {}

LEMMA QuietStart ==
  ASSUME WiringInit
  PROVE  Quiet
<1>1. i2c.rx = <<>> /\ i2c.sticky = {}
  BY DEF WiringInit, I2cReady, I2cNew, WriteMcr
<1>2. spi.rx = <<>>
  BY DEF WiringInit, SpiReady, SpiNew, WriteCr
<1>3. adc.coco = {}
  BY DEF WiringInit, AdcNew
<1> QED
  BY <1>1, <1>2, <1>3 DEF Quiet

(* What each kind of bench may do.                                         *)
I2cSteps == IssueCommand \/ TakeByte \/ SeeNack \/ Finish \/ HostTakesEvents \/ Begin \/ GiveUp
SpiSteps == SetFrame \/ IssueWord \/ IssueSelect \/ TakeWord \/ Finish \/ HostTakesEvents \/ Begin \/ GiveUp
AdcSteps == IssueConversion \/ TakeResult \/ Finish \/ Begin \/ GiveUp \/ HostSetsChannel

LEMMA StepsOfKinds ==
  ASSUME WiringTyped, Quiet, WiringNext
  PROVE  /\ bench.kind = "i2c" => I2cSteps
         /\ bench.kind = "spi" => SpiSteps
         /\ bench.kind = "adc" => AdcSteps
<1>1. bench \in Benches /\ bench.kind \in {"i2c", "spi", "adc"}
  BY KindsOfBenches DEF WiringTyped
<1>2. IssueCommand => bench.kind = "i2c"
  <2> SUFFICES ASSUME IssueCommand PROVE bench.kind = "i2c"
    OBVIOUS
  <2>1. todo # <<>> /\ Write.op \in {"START", "TX", "RX", "DISCARD", "STOP"}
    BY DEF IssueCommand, Issuing
  <2>2. Write.op \notin {"TCR", "TDR", "SELECT", "RELEASE", "HC"}
    BY <2>1
  <2> QED
    BY <2>1, <2>2, WriteIsTyped
<1>3. SetFrame \/ IssueWord \/ IssueSelect => bench.kind = "spi"
  <2> SUFFICES ASSUME SetFrame \/ IssueWord \/ IssueSelect PROVE bench.kind = "spi"
    OBVIOUS
  <2>1. todo # <<>> /\ Write.op \in {"TCR", "TDR", "SELECT", "RELEASE"}
    BY DEF SetFrame, IssueWord, IssueSelect, Issuing
  <2>2. Write.op \notin {"START", "TX", "RX", "DISCARD", "STOP", "HC"}
    BY <2>1
  <2> QED
    BY <2>1, <2>2, WriteIsTyped
<1>4. IssueConversion => bench.kind = "adc"
  <2> SUFFICES ASSUME IssueConversion PROVE bench.kind = "adc"
    OBVIOUS
  <2>1. todo # <<>> /\ Write.op = "HC"
    BY DEF IssueConversion, Issuing
  <2>2. Write.op \notin {"START", "TX", "RX", "DISCARD", "STOP", "TCR", "TDR", "SELECT", "RELEASE"}
    BY <2>1
  <2> QED
    BY <2>1, <2>2, WriteIsTyped
<1>5. TakeByte => bench.kind = "i2c"
  BY DEF TakeByte, Quiet
<1>6. TakeWord => bench.kind = "spi"
  BY DEF TakeWord, Quiet
<1>7. TakeResult => bench.kind = "adc"
  BY DEF TakeResult, Quiet
<1>8. SeeNack => bench.kind = "i2c"
  <2> SUFFICES ASSUME SeeNack, bench.kind # "i2c" PROVE FALSE
    OBVIOUS
  <2>1. "NDF" \in Msr(i2c) /\ "NDF" \notin i2c.sticky
    BY DEF SeeNack, Failed, Quiet
  <2> QED
    BY <2>1 DEF Msr
<1>9. HostTakesEvents => bench.kind # "adc"
  <2> SUFFICES ASSUME HostTakesEvents, bench.kind = "adc" PROVE FALSE
    OBVIOUS
  <2>1. events # <<>> /\ events \in Seq({})
    BY DEF HostTakesEvents, WiringTyped, ControllersTyped, Events
  <2>2. Head(events) \in {}
    BY <2>1, HeadTailProperties
  <2> QED
    BY <2>2
<1>10. HostSetsChannel => bench.kind = "adc"
  BY DEF HostSetsChannel
<1> QED
  BY <1>1, <1>2, <1>3, <1>4, <1>5, <1>6, <1>7, <1>8, <1>9, <1>10
     DEF WiringNext, WiringServes, Issue, Take, I2cSteps, SpiSteps, AdcSteps

(* The controllers after a transaction.                                    *)
LEMMA FinishedControllers ==
  ASSUME WiringTyped, Finish
  PROVE  /\ i2c'.rx = i2c.rx /\ ("NDF" \in i2c'.sticky) = ("NDF" \in i2c.sticky)
         /\ i2c'.active = i2c.active /\ spi'.rx = spi.rx
<1>1. i2c \in I2cCtl(bench) /\ spi \in SpiCtl(bench)
  BY DEF WiringTyped, ControllersTyped
<1>2. i2c' = WriteMsr(i2c, {"SDF", "EPF"}) /\ spi' = WriteSr(spi, {"WCF", "FCF", "TCF"})
  BY DEF Finish
<1>3. i2c'.rx = i2c.rx /\ ("NDF" \in i2c'.sticky) = ("NDF" \in i2c.sticky) /\ i2c'.active = i2c.active
  BY <1>1, <1>2 DEF WriteMsr, I2cCtl
<1> QED
  BY <1>1, <1>2, <1>3 DEF WriteSr, SpiCtl

LEMMA GivenUpControllers ==
  ASSUME WiringTyped, GiveUp
  PROVE  /\ i2c'.rx = <<>> /\ i2c'.sticky = {} /\ spi'.rx = <<>> /\ adc'.coco = {}
         /\ adc'.r = adc.r /\ adc'.channels = adc.channels
<1>1. i2c \in I2cCtl(bench) /\ spi \in SpiCtl(bench) /\ adc \in AdcCtl /\ bench \in Benches
  BY DEF WiringTyped, ControllersTyped
<1>2. /\ i2c' = I2cReady(WriteMcr(i2c, {"RST"})) /\ spi' = SpiReady(WriteCr(spi, {"RST"}))
      /\ adc' = [adc EXCEPT !.hc = [n \in Slots |-> [adch |-> Disabled, aien |-> FALSE]], !.coco = {}]
  BY DEF GiveUp
<1>3. adc'.coco = {} /\ adc'.r = adc.r /\ adc'.channels = adc.channels
  BY <1>1, <1>2 DEF AdcCtl
<1> QED
  BY <1>1, <1>2, <1>3, ResetsAreTyped

LEMMA QuietStep ==
  ASSUME WiringTyped, Quiet, WiringNext
  PROVE  Quiet'
<1>1. bench' = bench /\ bench.kind \in {"i2c", "spi", "adc"}
  <2>1. bench' = bench
    BY DEF WiringNext, WiringServes, Issue, Take, IssueCommand, SetFrame, IssueWord, IssueSelect, IssueConversion,
           Issuing, TakeByte, TakeWord, TakeResult, Took, SeeNack, Finish, HostTakesEvents, Begin, GiveUp, HostSetsChannel
  <2> QED
    BY <2>1, KindsOfBenches DEF WiringTyped
<1>2. CASE Finish
  <2>1. adc' = adc
    BY <1>2 DEF Finish
  <2> QED
    BY <1>1, <1>2, <2>1, FinishedControllers DEF Quiet
<1>3. CASE GiveUp
  BY <1>1, <1>3, GivenUpControllers DEF Quiet
<1>4. CASE ~Finish /\ ~GiveUp
  <2>1. bench.kind # "i2c" => i2c' = i2c
    <3> SUFFICES ASSUME bench.kind # "i2c" PROVE i2c' = i2c
      OBVIOUS
    <3> QED
      BY <1>1, <1>4, StepsOfKinds DEF SpiSteps, AdcSteps, SetFrame, IssueWord, IssueSelect, IssueConversion, TakeWord,
         TakeResult, HostTakesEvents, Begin, HostSetsChannel, wires
  <2>2. bench.kind # "spi" => spi' = spi
    <3> SUFFICES ASSUME bench.kind # "spi" PROVE spi' = spi
      OBVIOUS
    <3>1. CASE bench.kind = "i2c"
      BY <1>4, <3>1, StepsOfKinds DEF I2cSteps, IssueCommand, TakeByte, SeeNack, HostTakesEvents, Begin, wires
    <3>2. CASE bench.kind = "adc"
      BY <1>4, <3>2, StepsOfKinds DEF AdcSteps, IssueConversion, TakeResult, Begin, HostSetsChannel, wires
    <3> QED
      BY <1>1, <3>1, <3>2
  <2>3. bench.kind # "adc" => adc' = adc
    <3> SUFFICES ASSUME bench.kind # "adc" PROVE adc' = adc
      OBVIOUS
    <3>1. CASE bench.kind = "i2c"
      BY <1>4, <3>1, StepsOfKinds DEF I2cSteps, IssueCommand, TakeByte, SeeNack, HostTakesEvents, Begin, wires
    <3>2. CASE bench.kind = "spi"
      BY <1>4, <3>2, StepsOfKinds DEF SpiSteps, SetFrame, IssueWord, IssueSelect, TakeWord, HostTakesEvents, Begin, wires
    <3> QED
      BY <1>1, <3>1, <3>2
  <2> QED
    BY <1>1, <2>1, <2>2, <2>3 DEF Quiet
<1> QED
  BY <1>2, <1>3, <1>4

(***************************************************************************)
(* Conversions                                                             *)
(***************************************************************************)

(* The answers that were taken are those of the plan, and the results that *)
(* wait in their slots are the next of it.                                 *)
AdcAnswers ==
  /\ job \in Seq([slot : Slots, channel : Nat])
  /\ plan \in [answer : Seq(Nat), peers : {peers}]
  /\ Len(plan.answer) + Len(todo) = Len(job)
  /\ \A i \in 1 .. Len(todo) : todo[i].slot = job[Len(plan.answer) + i].slot
  /\ got \in Seq(Nat) /\ Len(got) + due = Len(plan.answer)
  /\ \A k \in 1 .. Len(got) : got[k] = plan.answer[k]
  /\ \A k \in Len(got) + 1 .. Len(plan.answer) :
       job[k].slot \in adc.coco => adc.r[job[k].slot] = plan.answer[k]

AdcInv == bench.kind = "adc" /\ job # None => AdcAnswers

LEMMA BeginConversions ==
  ASSUME WiringTyped, bench.kind = "adc", Begin
  PROVE  AdcAnswers'
<1>1. /\ job' \in JobsOf["adc"] /\ plan' = [answer |-> <<>>, peers |-> peers]
      /\ todo' = [k \in DOMAIN job' |-> [op |-> "HC", slot |-> job'[k].slot, channel |-> job'[k].channel]]
      /\ due' = 0 /\ got' = <<>> /\ peers' = peers
  BY DEF Begin, PlanOf, Writes, wires
<1>2. job' \in Seq([slot : Slots, channel : Nat])
  BY <1>1, WiringAssumption
<1> DEFINE n == Len(job')
<1>3. n \in Nat /\ DOMAIN job' = 1 .. n
  BY <1>2, LenProperties
<1>4. Len(todo') = n /\ \A i \in 1 .. n : todo'[i].slot = job'[i].slot
  <2>1. todo' = [k \in 1 .. n |-> [op |-> "HC", slot |-> job'[k].slot, channel |-> job'[k].channel]]
    BY <1>1, <1>3
  <2>2. Len(todo') = n
    <3> HIDE DEF n
    <3> QED BY <1>3, <2>1
  <2>3. ASSUME NEW i \in 1 .. n PROVE todo'[i].slot = job'[i].slot
    BY <2>1
  <2> QED
    BY <2>2, <2>3
<1>5. <<>> \in Seq(Nat) /\ Len(<<>>) = 0
  BY EmptySeq
<1>6. plan' \in [answer : Seq(Nat), peers : {peers'}] /\ plan'.answer = <<>>
  BY <1>1, <1>5
<1> HIDE DEF n
<1> QED
  BY <1>1, <1>2, <1>3, <1>4, <1>5, <1>6 DEF AdcAnswers, n

LEMMA ConversionAnswers ==
  ASSUME WiringTyped, bench.kind = "adc", job # None, AdcAnswers, IssueConversion
  PROVE  AdcAnswers'
<1> DEFINE p     == Len(plan.answer)
           slot  == Write.slot
           value == adc.channels[Input(Write.channel)]
<1>1. /\ todo # <<>> /\ Write.op = "HC" /\ todo' = Tail(todo) /\ due' = due + 1
      /\ job' = job /\ got' = got /\ peers' = peers
      /\ adc' = WriteHc(adc, slot, [adch |-> Write.channel, aien |-> ~bench.dma])
      /\ plan' = [plan EXCEPT !.answer = Append(plan.answer, adc.channels[Min({Write.channel, Channels - 1})])]
  BY DEF IssueConversion, Issuing, Dues
<1>2. slot \in Slots /\ Write.channel \in Nat
  BY <1>1, WriteIsTyped
<1>3. adc \in AdcCtl /\ todo \in Seq(Ops(bench)) /\ due \in Nat
  BY DEF WiringTyped, ControllersTyped, DriverTyped
<1>4. /\ plan.answer \in Seq(Nat) /\ plan.peers = peers /\ p \in Nat /\ got \in Seq(Nat) /\ Len(got) \in Nat
      /\ job \in Seq([slot : Slots, channel : Nat]) /\ Len(job) \in Nat /\ DOMAIN job = 1 .. Len(job)
  BY LenProperties DEF AdcAnswers
<1>5. Input(Write.channel) \in 0 .. Channels - 1 /\ Min({Write.channel, Channels - 1}) = Input(Write.channel)
  BY <1>2, AdcAssumption, SmallerOfTwo DEF Input
<1>6. value \in Nat
  <2>1. value \in AdcValues
    BY <1>3, <1>5 DEF AdcCtl
  <2> QED
    BY <2>1, WiringAssumption
<1>7. /\ plan'.answer = Append(plan.answer, value) /\ plan' \in [answer : Seq(Nat), peers : {peers'}]
      /\ Len(plan'.answer) = p + 1 /\ plan'.answer[p + 1] = value
      /\ \A k \in 1 .. p : plan'.answer[k] = plan.answer[k]
  <2> DEFINE a == Append(plan.answer, value)
  <2>1. plan' = [plan EXCEPT !.answer = a]
    BY <1>1, <1>5
  <2>2. a \in Seq(Nat) /\ Len(a) = p + 1 /\ a[p + 1] = value /\ \A k \in 1 .. p : a[k] = plan.answer[k]
    BY <1>4, <1>6, AppendProperties
  <2> HIDE DEF a
  <2>3. plan'.answer = a /\ plan' \in [answer : Seq(Nat), peers : {peers}]
    BY <1>4, <2>1, <2>2 DEF AdcAnswers
  <2> QED
    BY <1>1, <2>2, <2>3 DEF a
<1>8. /\ Len(todo) \in Nat \ {0} /\ Len(todo') = Len(todo) - 1 /\ slot = todo[1].slot
      /\ \A i \in 1 .. Len(todo) - 1 : todo'[i] = todo[i + 1]
  <2> DEFINE S == Ops(bench)
  <2> HIDE DEF S
  <2>1. todo \in Seq(S) /\ todo # <<>>
    BY <1>1, <1>3 DEF S
  <2>2. Len(todo) \in Nat \ {0}
    BY <2>1, EmptySeq
  <2>3. /\ Len(Tail(todo)) = Len(todo) - 1 /\ Head(todo) = todo[1]
        /\ \A i \in 1 .. Len(Tail(todo)) : Tail(todo)[i] = todo[i + 1]
    BY <2>1, HeadTailProperties
  <2> QED
    BY <1>1, <2>2, <2>3 DEF Write
<1>9. slot = job[p + 1].slot /\ p + 1 \in 1 .. Len(job)
  <2>1. 1 \in 1 .. Len(todo)
    BY <1>8
  <2>2. todo[1].slot = job[p + 1].slot /\ p + Len(todo) = Len(job)
    BY <2>1 DEF AdcAnswers
  <2> HIDE DEF p, slot
  <2>3. p + 1 \in 1 .. Len(job)
    BY <1>4, <1>8, <2>2
  <2> QED
    BY <1>8, <2>2, <2>3
<1>10. /\ slot \in adc'.coco => adc'.r[slot] = value
       /\ \A n \in Slots : n # slot => (n \in adc'.coco <=> n \in adc.coco) /\ adc'.r[n] = adc.r[n]
  <2> DEFINE v == [adch |-> Write.channel, aien |-> ~bench.dma]
  <2>1. v.adch = Write.channel
    OBVIOUS
  <2>2. adc' = WriteHc(adc, slot, v)
    BY <1>1
  <2> HIDE DEF v, slot
  <2>3. CASE v.adch = Disabled
    BY <1>2, <1>3, <2>2, <2>3 DEF WriteHc, AdcCtl
  <2>4. CASE v.adch # Disabled
    <3>1. adc'.coco = adc.coco \union {slot} /\ adc'.r = [adc.r EXCEPT ![slot] = value]
      BY <1>2, <1>3, <2>1, <2>2, <2>4 DEF WriteHc, AdcCtl
    <3> HIDE DEF value
    <3>2. adc.r \in [Slots -> AdcValues \union {0}]
      BY <1>3 DEF AdcCtl
    <3> QED
      BY <1>2, <3>1, <3>2
  <2> QED
    BY <2>3, <2>4
<1>11. \A k \in 1 .. p : job[k].slot # slot /\ job[k].slot \in Slots
  <2> TAKE k \in 1 .. p
  <2>1. k \in DOMAIN job /\ p + 1 \in DOMAIN job /\ k # p + 1
    BY <1>4, <1>9
  <2>2. job \in JobsOf["adc"]
    BY DEF WiringTyped, DriverTyped
  <2>3. job[k].slot # job[p + 1].slot
    BY <2>1, <2>2, TransactionAssumption
  <2>4. job[k] \in [slot : Slots, channel : Nat]
    BY <1>4, <2>1, ElementOfSeq
  <2> QED
    BY <1>9, <2>3, <2>4
<1> HIDE DEF p, slot, value
<1>12. /\ p + Len(todo) = Len(job) /\ Len(got) + due = p
       /\ \A i \in 1 .. Len(todo) : todo[i].slot = job[p + i].slot
       /\ \A k \in 1 .. Len(got) : got[k] = plan.answer[k]
       /\ \A k \in Len(got) + 1 .. p : job[k].slot \in adc.coco => adc.r[job[k].slot] = plan.answer[k]
  BY DEF AdcAnswers, p
<1>13. \A i \in 1 .. Len(todo') : todo'[i].slot = job'[p + 1 + i].slot
  <2> TAKE i \in 1 .. Len(todo')
  <2>1. i + 1 \in 1 .. Len(todo) /\ i \in 1 .. Len(todo) - 1
    BY <1>8
  <2>2. todo[i + 1].slot = job[p + (i + 1)].slot /\ todo'[i] = todo[i + 1]
    BY <1>8, <1>12, <2>1
  <2>3. p + (i + 1) = p + 1 + i
    BY <1>4, <2>1
  <2> QED
    BY <1>1, <2>2, <2>3
<1>14. \A k \in 1 .. Len(got) : k \in 1 .. p
  BY <1>3, <1>4, <1>12
<1>15. \A k \in Len(got') + 1 .. p + 1 :
         job'[k].slot \in adc'.coco => adc'.r[job'[k].slot] = plan'.answer[k]
  <2> TAKE k \in Len(got') + 1 .. p + 1
  <2>1. CASE k = p + 1
    BY <1>1, <1>7, <1>9, <1>10, <2>1
  <2>2. CASE k # p + 1
    <3>1. k \in 1 .. p /\ k \in Len(got) + 1 .. p
      BY <1>1, <1>4, <2>2
    <3> DEFINE n == job[k].slot
    <3>2. n \in Slots /\ n # slot
      BY <1>11, <3>1
    <3>3. n \in adc.coco => adc.r[n] = plan.answer[k]
      BY <1>12, <3>1
    <3>4. plan'.answer[k] = plan.answer[k]
      BY <1>7, <3>1
    <3> HIDE DEF n
    <3>5. n \in adc'.coco => adc'.r[n] = plan'.answer[k]
      BY <1>10, <3>2, <3>3, <3>4
    <3> QED
      BY <1>1, <3>5 DEF n
  <2> QED
    BY <2>1, <2>2
<1>16. p + 1 + Len(todo') = Len(job') /\ Len(got') + due' = p + 1
  <2>1. job' = job /\ got' = got /\ due' = due + 1
    BY <1>1
  <2>2. p \in Nat /\ Len(got) \in Nat /\ due \in Nat /\ Len(todo) \in Nat /\ Len(todo') = Len(todo) - 1
    BY <1>3, <1>4, <1>8
  <2>3. p + Len(todo) = Len(job) /\ Len(got) + due = p
    BY <1>12
  <2> QED
    BY <2>1, <2>2, <2>3
<1>17. Len(plan'.answer) = p + 1 /\ plan' \in [answer : Seq(Nat), peers : {peers'}]
  BY <1>7
<1>18. got' \in Seq(Nat) /\ job' \in Seq([slot : Slots, channel : Nat])
  BY <1>1, <1>4
<1>19. \A k \in 1 .. Len(got') : got'[k] = plan'.answer[k]
  BY <1>1, <1>7, <1>12, <1>14
<1> QED
  BY <1>13, <1>15, <1>16, <1>17, <1>18, <1>19 DEF AdcAnswers

LEMMA ResultAnswers ==
  ASSUME WiringTyped, bench.kind = "adc", job # None, AdcAnswers, TakeResult
  PROVE  AdcAnswers'
<1> DEFINE t    == Len(got)
           p    == Len(plan.answer)
           slot == job[t + 1].slot
<1>1. /\ due > 0 /\ slot \in adc.coco /\ got' = Append(got, adc.r[slot]) /\ due' = due - 1
      /\ adc' = ReadR(adc, slot) /\ job' = job /\ todo' = todo /\ plan' = plan /\ peers' = peers
  BY DEF TakeResult, Took, Called
<1>2. adc \in AdcCtl /\ due \in Nat
  BY DEF WiringTyped, ControllersTyped, DriverTyped
<1>3. /\ got \in Seq(Nat) /\ t \in Nat /\ p \in Nat /\ plan.answer \in Seq(Nat) /\ t + due = p
      /\ \A k \in 1 .. t : got[k] = plan.answer[k]
      /\ \A k \in t + 1 .. p : job[k].slot \in adc.coco => adc.r[job[k].slot] = plan.answer[k]
  BY LenProperties DEF AdcAnswers
<1>4. t + 1 \in t + 1 .. p /\ t + 1 \in 1 .. p
  BY <1>1, <1>2, <1>3
<1>5. adc.r[slot] = plan.answer[t + 1] /\ plan.answer[t + 1] \in Nat
  BY <1>1, <1>3, <1>4, ElementOfSeq
<1>6. /\ got' \in Seq(Nat) /\ Len(got') = t + 1 /\ got'[t + 1] = plan.answer[t + 1]
      /\ \A k \in 1 .. t : got'[k] = got[k]
  <2> DEFINE v == plan.answer[t + 1]
  <2>1. got' = Append(got, v) /\ v \in Nat
    BY <1>1, <1>5
  <2> HIDE DEF v
  <2>2. got' \in Seq(Nat) /\ Len(got') = t + 1 /\ got'[t + 1] = v /\ \A k \in 1 .. t : got'[k] = got[k]
    BY <1>3, <2>1, AppendProperties
  <2> QED
    BY <2>2 DEF v
<1>7. adc'.r = adc.r /\ adc'.coco \subseteq adc.coco
  BY <1>1, <1>2 DEF ReadR, AdcCtl
<1> HIDE DEF t, p
<1>8. \A k \in 1 .. t + 1 : got'[k] = plan'.answer[k]
  <2> TAKE k \in 1 .. t + 1
  <2>1. k = t + 1 \/ k \in 1 .. t
    BY <1>3
  <2> QED
    BY <1>1, <1>3, <1>6, <2>1
<1>9. \A k \in t + 1 + 1 .. p : k \in t + 1 .. p
  BY <1>3
<1>10. t + 1 + due' = p
  BY <1>1, <1>2, <1>3
<1>11. \A k \in Len(got') + 1 .. p : job[k].slot \in adc'.coco => adc'.r[job[k].slot] = plan.answer[k]
  BY <1>3, <1>6, <1>7, <1>9
<1>12. UNCHANGED <<job, todo, plan, peers>> /\ Len(plan.answer) = p
  BY <1>1 DEF p
<1>13. Len(got') + due' = p
  BY <1>6, <1>10
<1>14. \A k \in 1 .. Len(got') : got'[k] = plan'.answer[k]
  BY <1>6, <1>8
<1> QED
  BY <1>6, <1>11, <1>12, <1>13, <1>14 DEF AdcAnswers

LEMMA AdcStart ==
  ASSUME WiringInit
  PROVE  AdcInv
BY DEF WiringInit, AdcInv

LEMMA AdcStep ==
  ASSUME WiringTyped, Quiet, AdcInv, WiringNext
  PROVE  AdcInv'
<1> SUFFICES ASSUME bench'.kind = "adc", job' # None PROVE AdcAnswers'
  BY DEF AdcInv
<1>1. bench.kind = "adc"
  BY DEF WiringNext, WiringServes, Issue, Take, IssueCommand, SetFrame, IssueWord, IssueSelect, IssueConversion,
         Issuing, TakeByte, TakeWord, TakeResult, Took, SeeNack, Finish, HostTakesEvents, Begin, GiveUp, HostSetsChannel
<1>2. AdcSteps
  BY <1>1, StepsOfKinds
<1>3. CASE Begin
  BY <1>1, <1>3, BeginConversions
<1>4. CASE IssueConversion
  <2>1. job # None
    BY <1>4 DEF IssueConversion, Issuing
  <2> QED
    BY <1>1, <1>4, <2>1, ConversionAnswers DEF AdcInv
<1>5. CASE TakeResult
  <2>1. job # None
    BY <1>5 DEF TakeResult, Took
  <2> QED
    BY <1>1, <1>5, <2>1, ResultAnswers DEF AdcInv
<1>6. CASE HostSetsChannel
  <2>1. PICK ch \in 0 .. Channels - 1, v \in AdcValues : adc' = SetChannel(adc, ch, v)
    BY <1>6 DEF HostSetsChannel
  <2>2. UNCHANGED <<peers, job, todo, due, got, plan>>
    BY <1>6 DEF HostSetsChannel, driver
  <2>3. adc'.coco = adc.coco /\ adc'.r = adc.r
    BY <2>1 DEF SetChannel, WiringTyped, ControllersTyped, AdcCtl
  <2> QED
    BY <1>1, <2>2, <2>3 DEF AdcInv, AdcAnswers
<1>7. CASE Finish \/ GiveUp
  BY <1>7 DEF Finish, GiveUp, Rest
<1> QED
  BY <1>2, <1>3, <1>4, <1>5, <1>6, <1>7 DEF AdcSteps

LEMMA AdcMatches ==
  ASSUME WiringTyped, AdcInv, bench.kind = "adc"
  PROVE  AnswersMatchPeers
<1> SUFFICES ASSUME Complete PROVE got = plan.answer /\ Held(peers) = Held(plan.peers)
  BY DEF AnswersMatchPeers
<1>1. AdcAnswers /\ due = 0
  BY DEF AdcInv, Complete
<1>2. got \in Seq(Nat) /\ plan.answer \in Seq(Nat) /\ plan.peers = peers /\ Len(got) = Len(plan.answer)
  BY <1>1, LenProperties DEF AdcAnswers
<1>3. got = plan.answer
  BY <1>1, <1>2, SeqEqual DEF AdcAnswers
<1> QED
  BY <1>2, <1>3

(***************************************************************************)
(* A transfer, write by write and word by word                             *)
(***************************************************************************)
SpiJobs == [pin : Pins, bits : 1 .. WordBits, words : Seq(Word)]

Transfer(j) == Len(j.words) + 3

SpiWrite(j, i) ==
  IF i = 1 THEN [op |-> "TCR", bits |-> j.bits]
  ELSE IF i = 2 THEN [op |-> "SELECT", pin |-> j.pin]
  ELSE IF i <= Len(j.words) + 2 THEN [op |-> "TDR", word |-> j.words[i - 2]]
  ELSE [op |-> "RELEASE", pin |-> j.pin]

LEMMA TransferIsWrites ==
  ASSUME bench.kind = "spi", NEW j \in SpiJobs
  PROVE  /\ Len(j.words) \in Nat /\ Len(Writes(j)) = Transfer(j)
         /\ \A i \in 1 .. Transfer(j) : Writes(j)[i] = SpiWrite(j, i)
<1> DEFINE n    == Len(j.words)
           tcr  == [op |-> "TCR", bits |-> j.bits]
           down == [op |-> "SELECT", pin |-> j.pin]
           up   == [op |-> "RELEASE", pin |-> j.pin]
           tdr  == [k \in 1 .. n |-> [op |-> "TDR", word |-> j.words[k]]]
           All  == {tcr, down, up} \union {tdr[k] : k \in 1 .. n}
           head == <<tcr, down>>
           tail == <<up>>
<1>1. n \in Nat /\ DOMAIN j.words = 1 .. n
  BY LenProperties DEF SpiJobs
<1>2. Writes(j) = (head \o tdr) \o tail
  BY <1>1 DEF Writes
<1>3. \A k \in 1 .. n : tdr[k] = [op |-> "TDR", word |-> j.words[k]]
  OBVIOUS
<1>4. tdr \in Seq(All) /\ Len(tdr) = n
  <2>1. \A k \in 1 .. n : tdr[k] \in All
    OBVIOUS
  <2>2. tdr = [k \in 1 .. n |-> tdr[k]]
    OBVIOUS
  <2> HIDE DEF tdr, All
  <2>3. tdr \in [1 .. n -> All]
    BY <2>1, <2>2
  <2> QED
    BY <1>1, <2>3
<1>5. /\ head \in Seq(All) /\ Len(head) = 2 /\ head[1] = tcr /\ head[2] = down
      /\ tail \in Seq(All) /\ Len(tail) = 1 /\ tail[1] = up
  <2>1. tcr \in All /\ down \in All /\ up \in All
    OBVIOUS
  <2> HIDE DEF All, tcr, down, up
  <2> QED
    BY <2>1
<1>c. \A s, t \in Seq(All) :
        /\ s \o t \in Seq(All) /\ Len(s \o t) = Len(s) + Len(t)
        /\ \A i \in 1 .. Len(s) + Len(t) : (s \o t)[i] = IF i <= Len(s) THEN s[i] ELSE t[i - Len(s)]
  <2> HIDE DEF All
  <2> QED
    BY ConcatProperties
<1> HIDE DEF All, head, tail, tdr, n
<1> DEFINE most == head \o tdr
           all  == most \o tail
<1>6. /\ most \in Seq(All) /\ Len(most) = Len(head) + Len(tdr)
      /\ \A i \in 1 .. Len(head) + Len(tdr) : most[i] = IF i <= Len(head) THEN head[i] ELSE tdr[i - Len(head)]
  BY <1>4, <1>5, <1>c, Zenon
<1>6a. /\ Len(all) = Len(most) + Len(tail)
       /\ \A i \in 1 .. Len(most) + Len(tail) : all[i] = IF i <= Len(most) THEN most[i] ELSE tail[i - Len(most)]
  <2>1. most \in Seq(All) /\ tail \in Seq(All)
    BY <1>5, <1>6
  <2> HIDE DEF most
  <2> QED
    BY <1>c, <2>1, Zenon
<1> HIDE DEF most, all
<1>7. /\ Len(Writes(j)) = n + 3
      /\ \A i \in 1 .. n + 3 : Writes(j)[i] = IF i <= 2 + n THEN most[i] ELSE tail[i - (2 + n)]
      /\ \A i \in 1 .. n + 2 : most[i] = IF i <= 2 THEN head[i] ELSE tdr[i - 2]
  <2>1. Writes(j) = all
    BY <1>2 DEF all, most
  <2>2. Len(head) = 2 /\ Len(tail) = 1 /\ Len(tdr) = n
    BY <1>4, <1>5
  <2>3. Len(most) = 2 + n /\ (2 + n) + 1 = n + 3 /\ 2 + n = n + 2
    BY <1>1, <1>6, <2>2
  <2> QED
    BY <1>6, <1>6a, <2>1, <2>2, <2>3
<1>8. ASSUME NEW i \in 1 .. n + 3 PROVE Writes(j)[i] = SpiWrite(j, i)
  <2>1. CASE i = 1
    <3>1. Writes(j)[i] = head[1]
      BY <1>1, <1>6, <1>7, <2>1
    <3> QED
      BY <1>5, <2>1, <3>1 DEF SpiWrite
  <2>2. CASE i = 2
    <3>1. Writes(j)[i] = head[2]
      BY <1>1, <1>6, <1>7, <2>2
    <3> QED
      BY <1>5, <2>2, <3>1 DEF SpiWrite
  <2>3. CASE i \in 3 .. n + 2
    <3>a. i \in 1 .. n + 2 /\ i <= 2 + n /\ ~(i <= 2) /\ i - 2 \in 1 .. n
      BY <1>1, <2>3
    <3>1. Writes(j)[i] = tdr[i - 2] /\ i - 2 \in 1 .. n
      BY <1>7, <3>a
    <3>2. Writes(j)[i] = [op |-> "TDR", word |-> j.words[i - 2]]
      BY <1>3, <3>1
    <3>3. i # 1 /\ i # 2 /\ i <= n + 2
      BY <1>1, <2>3
    <3> HIDE DEF tcr, down, up
    <3> QED
      BY <3>2, <3>3 DEF SpiWrite, n
  <2>4. CASE i = n + 3
    <3>1. Writes(j)[i] = tail[1] /\ i # 1 /\ i # 2 /\ ~(i <= n + 2)
      BY <1>1, <1>7, <2>4
    <3> QED
      BY <1>5, <3>1 DEF SpiWrite, n
  <2> QED
    BY <1>1, <2>1, <2>2, <2>3, <2>4
<1> QED
  BY <1>1, <1>7, <1>8 DEF n, Transfer

(* The replies that are left after n words.                                *)
LEMMA RepliesLeft ==
  ASSUME NEW s \in Seq(Word), NEW n \in Nat
  PROVE  /\ SubSeq(s, n + 1, Len(s)) \in Seq(Word)
         /\ Miso(SubSeq(s, n + 1, Len(s))) = Nth(s, n + 1)
         /\ Consumed(SubSeq(s, n + 1, Len(s))) = SubSeq(s, n + 2, Len(s))
<1> DEFINE m    == Len(s)
           left == SubSeq(s, n + 1, m)
<1>1. m \in Nat
  BY LenProperties
<1>2. left \in Seq(Word)
  <2>1. \A i \in n + 1 .. m : s[i] \in Word
    BY <1>1, ElementOfSeq
  <2>2. n + 1 \in Int /\ m \in Int
    BY <1>1
  <2> HIDE DEF m
  <2> QED
    BY <2>1, <2>2, SubSeqProperties
<1>3. CASE n + 1 <= m
  <2>1. n + 1 \in 1 .. m /\ m \in n + 1 .. m
    BY <1>1, <1>3
  <2>2. Head(left) = s[n + 1] /\ Tail(left) = SubSeq(s, (n + 1) + 1, m)
    BY <2>1, HeadTailOfSubSeq
  <2>3. Len(left) # 0
    <3>1. \A i \in n + 1 .. m : s[i] \in Word
      BY <1>1, ElementOfSeq
    <3>2. n + 1 \in Int /\ m \in Int
      BY <1>1
    <3>3. Len(left) = m - (n + 1) + 1
      <4> HIDE DEF m
      <4> QED
        BY <1>3, <3>1, <3>2, SubSeqProperties
    <3> HIDE DEF left, m
    <3> QED
      BY <1>1, <1>3, <3>3
  <2>4. (n + 1) + 1 = n + 2 /\ left # <<>>
    <3>1. (n + 1) + 1 = n + 2
      OBVIOUS
    <3>2. Len(<<>>) = 0
      BY EmptySeq
    <3> HIDE DEF left
    <3> QED
      BY <2>3, <3>1, <3>2
  <2> HIDE DEF left
  <2> QED
    BY <1>2, <1>3, <2>2, <2>4 DEF Miso, Consumed, Nth, left, m
<1>4. CASE m < n + 1
  <2>1. left = <<>> /\ SubSeq(s, n + 2, m) = <<>>
    <3>1. n + 1 \in Int /\ n + 2 \in Int /\ m \in Int /\ m < n + 2 /\ ~(n + 1 <= m)
      BY <1>1, <1>4
    <3> HIDE DEF m
    <3> QED
      BY <1>4, <3>1, SubSeqEmpty
  <2>2. ~(n + 1 <= m)
    BY <1>1, <1>4
  <2> HIDE DEF left, m
  <2> QED
    BY <1>2, <2>1, <2>2 DEF Miso, Consumed, Nth, left, m
<1> QED
  BY <1>1, <1>3, <1>4

(* The device that a transfer is against, what its words bring, and the    *)
(* replies that n of them leave.                                           *)
Port(b, j) == IF b.external THEN j.pin ELSE 1

Brings(b, devices, j, k) ==
  (IF Port(b, j) \in DOMAIN devices THEN Nth(devices[Port(b, j)], k)
   ELSE IF b.external THEN Idle ELSE j.words[k]) % (2 ^ j.bits)

Remaining(devices, at, n) ==
  [d \in DOMAIN devices |-> IF d = at THEN SubSeq(devices[d], n + 1, Len(devices[d])) ELSE devices[d]]

Fewer(devices, at) == [devices EXCEPT ![at] = Consumed(devices[at])]

LEMMA RemainingStart ==
  ASSUME NEW b, NEW devices \in SpiBanks(b), NEW at
  PROVE  Remaining(devices, at, 0) = devices
<1>1. \A d \in DOMAIN devices : SubSeq(devices[d], 0 + 1, Len(devices[d])) = devices[d]
  <2> TAKE d \in DOMAIN devices
  <2>1. devices[d] \in Seq(Word) /\ 0 + 1 = 1
    BY DEF SpiBanks
  <2> QED
    BY <2>1, SubSeqFull
<1>2. devices = [d \in DOMAIN devices |-> devices[d]]
  BY DEF SpiBanks
<1> QED
  BY <1>1, <1>2 DEF Remaining

LEMMA RemainingStep ==
  ASSUME NEW b, NEW devices \in SpiBanks(b), NEW at, NEW n \in Nat
  PROVE  LET now == Remaining(devices, at, n)
         IN  /\ now \in SpiBanks(b) /\ DOMAIN now = DOMAIN devices
             /\ at \in DOMAIN devices => /\ Miso(now[at]) = Nth(devices[at], n + 1)
                                         /\ Fewer(now, at) = Remaining(devices, at, n + 1)
             /\ at \notin DOMAIN devices => now = Remaining(devices, at, n + 1)
<1> DEFINE now == Remaining(devices, at, n)
           D   == DOMAIN devices
<1>1. D = DOMAIN b.peers /\ \A d \in D : devices[d] \in Seq(Word)
  BY DEF SpiBanks
<1>2. DOMAIN now = D /\ \A d \in D : now[d] = IF d = at THEN SubSeq(devices[d], n + 1, Len(devices[d])) ELSE devices[d]
  BY DEF Remaining
<1>3. now \in SpiBanks(b)
  <2>1. \A d \in D : SubSeq(devices[d], n + 1, Len(devices[d])) \in Seq(Word)
    BY <1>1, RepliesLeft
  <2> QED
    BY <1>1, <2>1 DEF Remaining, SpiBanks
<1>4. ASSUME at \in D
      PROVE  /\ Miso(now[at]) = Nth(devices[at], n + 1)
             /\ Fewer(now, at) = Remaining(devices, at, n + 1)
  <2>1. now[at] = SubSeq(devices[at], n + 1, Len(devices[at])) /\ devices[at] \in Seq(Word)
    BY <1>1, <1>2, <1>4
  <2>2. Miso(now[at]) = Nth(devices[at], n + 1) /\ Consumed(now[at]) = SubSeq(devices[at], n + 2, Len(devices[at]))
    BY <2>1, RepliesLeft
  <2>3. (n + 1) + 1 = n + 2
    OBVIOUS
  <2>4. Remaining(devices, at, n + 1)
          = [d \in D |-> IF d = at THEN SubSeq(devices[d], n + 2, Len(devices[d])) ELSE devices[d]]
    BY <2>3 DEF Remaining
  <2> DEFINE left == SubSeq(devices[at], n + 2, Len(devices[at]))
  <2>5. [now EXCEPT ![at] = left] = [d \in D |-> IF d = at THEN left ELSE devices[d]]
    <3> HIDE DEF left, now
    <3>1. [now EXCEPT ![at] = left] = [d \in D |-> IF d = at THEN left ELSE now[d]]
      BY <1>2, <1>3, <1>4 DEF SpiBanks
    <3> QED
      BY <1>2, <3>1
  <2> QED
    BY <2>2, <2>4, <2>5 DEF Fewer
<1>5. at \notin D => now = Remaining(devices, at, n + 1)
  BY DEF Remaining
<1> QED
  BY <1>2, <1>3, <1>4, <1>5

(* What the driver will see when the host has taken the trace.             *)
SpiSeen ==
  IF bench.external THEN Served(Wire(spi, peers, host), events)
  ELSE Wire(spi, peers, Pins \ pads.dr)

(* The words a transfer has sent after p of its writes.                    *)
Sent(j, p) == IF p <= 2 THEN 0 ELSE IF p <= Len(j.words) + 2 THEN p - 2 ELSE Len(j.words)

SpiTodo(p) ==
  /\ job \in SpiJobs /\ p \in 0 .. Transfer(job) /\ Len(todo) = Transfer(job) - p
  /\ \A i \in 1 .. Len(todo) : todo[i] = SpiWrite(job, p + i)

SpiPlanned(orig) ==
  /\ orig \in SpiBanks(bench)
  /\ plan.answer \in Seq(Word) /\ Len(plan.answer) = Len(job.words)
  /\ \A k \in 1 .. Len(job.words) : plan.answer[k] = Brings(bench, orig, job, k)
  /\ plan.peers = Remaining(orig, Port(bench, job), Len(job.words))

SpiLines(p) ==
  /\ p >= 1 => spi.framesz = job.bits - 1
  /\ pads.dr = IF p \in 2 .. Len(job.words) + 2 THEN Pins \ {job.pin} ELSE Pins

SpiArrived(orig, p) ==
  /\ got \in Seq(Word) /\ Len(SpiSeen.c.rx) = due
  /\ Len(got \o SpiSeen.c.rx) = Sent(job, p)
  /\ \A k \in 1 .. Sent(job, p) : (got \o SpiSeen.c.rx)[k] = plan.answer[k]
  /\ SpiSeen.devices = Remaining(orig, Port(bench, job), Sent(job, p))

SpiRests == pads.dr = Pins /\ SpiSeen.c.rx = <<>> /\ SpiSeen.devices = peers

(* A transfer, from the replies that the devices had when it began.        *)
SpiInv ==
  bench.kind = "spi" =>
    /\ SpiSeen.at = Pins \ pads.dr
    /\ job = None => SpiRests
    /\ job # None => \E orig, p : SpiTodo(p) /\ SpiPlanned(orig) /\ SpiLines(p) /\ SpiArrived(orig, p)

LEMMA SeenIsTyped ==
  ASSUME WiringTyped, bench.kind = "spi"
  PROVE  /\ SpiSeen \in SpiWires(bench) /\ SpiSeen.c \in SpiCtl(bench) /\ SpiSeen.c.rx \in Seq(Word)
         /\ SpiSeen.devices \in SpiBanks(bench)
         /\ events = <<>> => SpiSeen.c = spi /\ SpiSeen.devices = peers
<1>1. /\ bench \in Benches /\ spi \in SpiCtl(bench) /\ peers \in SpiBanks(bench) /\ host \in SUBSET Pins
      /\ events \in Seq(SpiEvents) /\ pads \in Outputs /\ bench.external \in BOOLEAN
  BY KindsOfBenches DEF WiringTyped, ControllersTyped, Events
<1>2. Wire(spi, peers, host) \in SpiWires(bench) /\ Wire(spi, peers, Pins \ pads.dr) \in SpiWires(bench)
  BY <1>1 DEF Wire, SpiWires
<1>3. SpiSeen \in SpiWires(bench)
  BY <1>1, <1>2, TraceOfSpi DEF SpiSeen
<1>4. ASSUME events = <<>> PROVE SpiSeen.c = spi /\ SpiSeen.devices = peers
  <2>1. Served(Wire(spi, peers, host), events) = Wire(spi, peers, host)
    BY <1>1, <1>2, <1>4, TraceOfSpi
  <2> QED
    BY <2>1 DEF SpiSeen, Wire
<1> QED
  BY <1>3, <1>4 DEF SpiWires, SpiCtl

(* Words taken, or a change that no word depends on: the rest is as it was.*)
LEMMA SeenBehind ==
  ASSUME WiringTyped, WiringTyped', bench.kind = "spi", bench' = bench,
         UNCHANGED <<peers, host, events, pads>>, NEW q \in Seq(Word), spi.rx = q \o spi'.rx
  PROVE  /\ SpiSeen.c.rx = q \o SpiSeen'.c.rx /\ SpiSeen'.c.rx \in Seq(Word)
         /\ SpiSeen'.devices = SpiSeen.devices /\ SpiSeen'.at = SpiSeen.at
<1> DEFINE w == Wire(spi, peers, host)
           v == Wire(spi', peers, host)
<1>1. /\ bench \in Benches /\ spi \in SpiCtl(bench) /\ peers \in SpiBanks(bench) /\ host \in SUBSET Pins
      /\ events \in Seq(SpiEvents) /\ spi' \in SpiCtl(bench)
  BY DEF WiringTyped, ControllersTyped, Events
<1>2. w \in SpiWires(bench) /\ v \in SpiWires(bench) /\ SpiBehind(q, w, v)
  BY <1>1 DEF Wire, SpiWires, SpiBehind
<1>3. CASE bench.external
  <2>1. SpiSeen = Served(w, events) /\ SpiSeen' = Served(v, events)
    BY <1>3 DEF SpiSeen
  <2> HIDE DEF w, v
  <2>2. SpiBehind(q, Served(w, events), Served(v, events))
    BY <1>1, <1>2, SpiTraceBehind
  <2>3. Served(v, events) \in SpiWires(bench)
    BY <1>1, <1>2, TraceOfSpi
  <2> QED
    BY <2>1, <2>2, <2>3 DEF SpiBehind, SpiWires, SpiCtl
<1>4. CASE ~bench.external
  BY <1>1, <1>4 DEF SpiSeen, Wire, SpiCtl
<1> QED
  BY <1>3, <1>4

(* One more event of the trace.                                            *)
LEMMA SeenTraced ==
  ASSUME WiringTyped, bench.kind = "spi", bench.external, bench' = bench, UNCHANGED <<peers, host>>,
         spi' \in SpiCtl(bench), spi'.rx = spi.rx,
         NEW event \in SpiEvents, events' = Append(events, event)
  PROVE  LET now == HostTakes(SpiSeen, event)
         IN  SpiSeen'.c.rx = now.c.rx /\ SpiSeen'.devices = now.devices /\ SpiSeen'.at = now.at
<1> DEFINE w == Wire(spi, peers, host)
           v == Wire(spi', peers, host)
<1>1. /\ bench \in Benches /\ spi \in SpiCtl(bench) /\ peers \in SpiBanks(bench) /\ host \in SUBSET Pins
      /\ events \in Seq(SpiEvents)
  BY DEF WiringTyped, ControllersTyped, Events
<1>2. <<>> \o spi.rx = spi.rx /\ <<>> \in Seq(Word)
  BY <1>1, ConcatEmptySeq DEF SpiCtl
<1>3. w \in SpiWires(bench) /\ v \in SpiWires(bench) /\ SpiBehind(<<>>, v, w)
  BY <1>1, <1>2 DEF Wire, SpiWires, SpiBehind
<1>4. SpiSeen = Served(w, events) /\ SpiSeen' = Served(v, Append(events, event))
  BY DEF SpiSeen
<1> HIDE DEF w, v
<1> DEFINE more == Append(events, event)
<1>5. more \in Seq(SpiEvents)
  BY <1>1, AppendProperties
<1>6. Served(w, more) = HostTakes(SpiSeen, event)
  BY <1>1, <1>3, <1>4, TraceOfSpi
<1>7. Served(w, more) \in SpiWires(bench)
  <2> HIDE DEF more
  <2> QED
    BY <1>1, <1>3, <1>5, TraceOfSpi
<1>8. SpiBehind(<<>>, Served(v, more), Served(w, more))
  <2> HIDE DEF more
  <2> QED
    BY <1>1, <1>2, <1>3, <1>5, SpiTraceBehind
<1>9. <<>> \o Served(w, more).c.rx = Served(w, more).c.rx
  <2>1. Served(w, more).c.rx \in Seq(Word)
    BY <1>7 DEF SpiWires, SpiCtl
  <2> HIDE DEF more
  <2> QED
    BY <2>1, ConcatEmptySeq
<1> QED
  BY <1>4, <1>6, <1>8, <1>9 DEF SpiBehind

(* The next write of a transfer.                                           *)
LEMMA TransferAdvances ==
  ASSUME WiringTyped, NEW p, SpiTodo(p), NEW ops, Issuing(ops)
  PROVE  /\ p \in 0 .. Len(job.words) + 2 /\ Len(job.words) \in Nat /\ Write = SpiWrite(job, p + 1)
         /\ SpiTodo(p + 1)' /\ due' = due + Dues(Write)
         /\ bench' = bench /\ host' = host /\ job' = job /\ got' = got
<1>1. /\ todo # <<>> /\ todo' = Tail(todo) /\ due' = due + Dues(Write)
      /\ bench' = bench /\ host' = host /\ job' = job /\ got' = got
  BY DEF Issuing
<1>2. /\ Len(todo) \in Nat \ {0} /\ Write = todo[1] /\ Len(todo') = Len(todo) - 1
      /\ \A i \in 1 .. Len(todo) - 1 : todo'[i] = todo[i + 1]
  <2> DEFINE S == Ops(bench)
  <2>1. todo \in Seq(S)
    BY DEF WiringTyped, DriverTyped
  <2> HIDE DEF S
  <2>2. Len(todo) \in Nat \ {0}
    BY <1>1, <2>1, EmptySeq
  <2>3. Len(Tail(todo)) = Len(todo) - 1 /\ \A i \in 1 .. Len(Tail(todo)) : Tail(todo)[i] = todo[i + 1]
    BY <1>1, <2>1, HeadTailProperties
  <2>4. Head(todo) = todo[1]
    BY <1>1, <2>1
  <2> QED
    BY <1>1, <2>2, <2>3, <2>4 DEF Write
<1>3. /\ job \in SpiJobs /\ p \in 0 .. Transfer(job) /\ Len(todo) = Transfer(job) - p
      /\ \A i \in 1 .. Len(todo) : todo[i] = SpiWrite(job, p + i)
  BY DEF SpiTodo
<1>4. Len(job.words) \in Nat
  BY <1>3, LenProperties DEF SpiJobs
<1>5. Transfer(job) = Len(job.words) + 3
  BY DEF Transfer
<1>6. /\ p \in 0 .. Len(job.words) + 2 /\ p + 1 \in 0 .. Transfer(job)
      /\ Len(todo') = Transfer(job) - (p + 1)
  BY <1>2, <1>3, <1>4, <1>5
<1>7. Write = SpiWrite(job, p + 1)
  BY <1>2, <1>3
<1>8. \A i \in 1 .. Len(todo') : todo'[i] = SpiWrite(job, (p + 1) + i)
  <2> TAKE i \in 1 .. Len(todo')
  <2>1. i + 1 \in 1 .. Len(todo) /\ i \in 1 .. Len(todo) - 1 /\ p + (i + 1) = (p + 1) + i
    BY <1>2, <1>6
  <2>2. todo'[i] = todo[i + 1] /\ todo[i + 1] = SpiWrite(job, p + (i + 1))
    BY <1>2, <1>3, <2>1
  <2> QED
    BY <2>1, <2>2
<1>9. SpiTodo(p + 1)'
  BY <1>1, <1>3, <1>6, <1>8 DEF SpiTodo, Transfer
<1> QED
  BY <1>1, <1>4, <1>6, <1>7, <1>9

(* What makes the lines and the frame of a transfer after p writes.        *)
LEMMA BeginTransfer ==
  ASSUME WiringTyped, WiringTyped', bench.kind = "spi", SpiInv, Begin
  PROVE  SpiTodo(0)' /\ SpiPlanned(peers)' /\ SpiLines(0)' /\ SpiArrived(peers, 0)' /\ SpiSeen' = SpiSeen
<1> DEFINE n  == Len(job'.words)
           at == Port(bench, job')
<1>1. /\ job = None /\ job' \in JobsOf["spi"] /\ plan' = SpiPlan(peers, job') /\ todo' = Writes(job')
      /\ due' = 0 /\ got' = <<>> /\ bench' = bench
      /\ UNCHANGED <<i2c, spi, adc, pads, peers, events, host>>
  BY DEF Begin, PlanOf, wires
<1>2. /\ job' \in SpiJobs /\ n \in Nat /\ peers \in SpiBanks(bench) /\ bench \in Benches
      /\ DOMAIN job'.words = 1 .. n
  BY <1>1, WiringAssumption, LenProperties DEF SpiJobs, WiringTyped, ControllersTyped
<1>3. SpiSeen' = SpiSeen
  BY <1>1 DEF SpiSeen
<1>4. SpiTodo(0)'
  <2>1. Len(todo') = Transfer(job') /\ \A i \in 1 .. Transfer(job') : todo'[i] = SpiWrite(job', i)
    BY <1>1, <1>2, TransferIsWrites
  <2>2. Transfer(job') \in Nat
    BY <1>2 DEF Transfer
  <2> QED
    BY <1>2, <2>1, <2>2 DEF SpiTodo
<1>5. /\ plan'.answer = [k \in 1 .. n |-> Brings(bench, peers, job', k)]
      /\ plan'.peers = Remaining(peers, at, n)
  BY <1>1, <1>2 DEF SpiPlan, Port, Brings, Remaining
<1>6. \A k \in 1 .. n : Brings(bench, peers, job', k) \in Word
  <2> TAKE k \in 1 .. n
  <2>1. job'.bits \in 1 .. WordBits /\ job'.words[k] \in Word
    BY <1>2, ElementOfSeq DEF SpiJobs
  <2> DEFINE x == IF at \in DOMAIN peers THEN Nth(peers[at], k)
                  ELSE IF bench.external THEN Idle ELSE job'.words[k]
  <2>2. x \in Word
    <3>1. at \in DOMAIN peers => peers[at] \in Seq(Word)
      BY <1>2 DEF SpiBanks
    <3>2. at \in DOMAIN peers => Nth(peers[at], k) \in Word
      <4> SUFFICES ASSUME at \in DOMAIN peers PROVE Nth(peers[at], k) \in Word
        OBVIOUS
      <4>1. CASE k <= Len(peers[at])
        <5>1. k \in 1 .. Len(peers[at])
          BY <1>2, <3>1, <4>1, LenProperties
        <5> QED
          BY <3>1, <4>1, <5>1, ElementOfSeq DEF Nth
      <4>2. CASE ~(k <= Len(peers[at]))
        BY <4>2, PowersArePositive DEF Nth
      <4> QED
        BY <4>1, <4>2
    <3> QED
      BY <2>1, <3>2, PowersArePositive
  <2>3. x \in Nat
    BY <2>2, PowersArePositive
  <2>4. Brings(bench, peers, job', k) = x % (2 ^ job'.bits)
    BY DEF Brings
  <2> HIDE DEF x
  <2> QED
    BY <2>1, <2>3, <2>4, PowersArePositive
<1>7. SpiPlanned(peers)'
  <2>1. plan'.answer \in Seq(Word) /\ Len(plan'.answer) = n
    <3> DEFINE a == plan'.answer
    <3>1. a = [k \in 1 .. n |-> a[k]] /\ \A k \in 1 .. n : a[k] \in Word
      BY <1>5, <1>6
    <3> HIDE DEF a, n
    <3>2. a \in [1 .. n -> Word]
      BY <3>1
    <3>3. a \in Seq(Word) /\ Len(a) = n
      BY <1>2, <3>2
    <3> QED
      BY <3>3 DEF a
  <2>2. \A k \in 1 .. n : plan'.answer[k] = Brings(bench, peers, job', k)
    BY <1>5
  <2> HIDE DEF n, at
  <2> QED
    BY <1>1, <1>2, <1>5, <2>1, <2>2 DEF SpiPlanned, n, at
<1>8. SpiRests
  BY <1>1 DEF SpiInv
<1>9. SpiLines(0)'
  <2>1. ~(0 >= 1) /\ 0 \notin 2 .. n + 2
    OBVIOUS
  <2> QED
    BY <1>1, <1>8, <2>1 DEF SpiLines, SpiRests
<1>10. SpiArrived(peers, 0)'
  <2>1. Sent(job', 0) = 0
    BY DEF Sent
  <2>2. got' = <<>> /\ SpiSeen'.c.rx = <<>> /\ SpiSeen'.devices = peers /\ due' = 0
    BY <1>1, <1>3, <1>8 DEF SpiRests
  <2>3. <<>> \in Seq(Word) /\ Len(<<>>) = 0 /\ <<>> \o <<>> = <<>>
    BY EmptySeq, ConcatEmptySeq
  <2>4. Remaining(peers, Port(bench, job'), 0) = peers
    BY <1>2, RemainingStart
  <2>5. got' \in Seq(Word) /\ Len(SpiSeen'.c.rx) = due' /\ Len(got' \o SpiSeen'.c.rx) = 0
    BY <2>2, <2>3
  <2> QED
    BY <1>1, <2>1, <2>2, <2>4, <2>5 DEF SpiArrived
<1> QED
  BY <1>3, <1>4, <1>7, <1>9, <1>10

(* A write that sends no word.                                             *)
LEMMA ArrivedKept ==
  ASSUME NEW orig, NEW p, SpiArrived(orig, p), NEW r, Sent(job, r) = Sent(job, p),
         UNCHANGED <<bench, job, got>>, due' = due, plan' = plan,
         SpiSeen'.c.rx = SpiSeen.c.rx, SpiSeen'.devices = SpiSeen.devices
  PROVE  SpiArrived(orig, r)'
BY DEF SpiArrived

LEMMA FrameAnswers ==
  ASSUME WiringTyped, WiringTyped', bench.kind = "spi", SetFrame,
         NEW orig, NEW p, SpiTodo(p), SpiPlanned(orig), SpiLines(p), SpiArrived(orig, p)
  PROVE  /\ SpiTodo(p + 1)' /\ SpiPlanned(orig)' /\ SpiLines(p + 1)' /\ SpiArrived(orig, p + 1)'
         /\ SpiSeen'.at = SpiSeen.at
<1>1. /\ Issuing({"TCR"}) /\ Write.op = "TCR" /\ Dues(Write) = 0
      /\ spi' = [spi EXCEPT !.framesz = Write.bits - 1]
      /\ UNCHANGED <<i2c, adc, pads, peers, events, plan>>
  BY DEF SetFrame, Issuing, Dues
<1>2. /\ p \in 0 .. Len(job.words) + 2 /\ Len(job.words) \in Nat /\ Write = SpiWrite(job, p + 1)
      /\ SpiTodo(p + 1)' /\ due' = due + Dues(Write)
      /\ bench' = bench /\ host' = host /\ job' = job /\ got' = got
  BY <1>1, TransferAdvances
<1>3. p = 0 /\ Write.bits = job.bits
  <2>1. p + 1 = 1
    BY <1>1, <1>2 DEF SpiWrite
  <2> QED
    BY <1>2, <2>1 DEF SpiWrite
<1>4. spi \in SpiCtl(bench) /\ spi'.framesz = job.bits - 1 /\ spi'.rx = spi.rx /\ spi.rx \in Seq(Word)
  BY <1>1, <1>3 DEF WiringTyped, ControllersTyped, SpiCtl
<1>5. spi.rx = <<>> \o spi'.rx /\ <<>> \in Seq(Word)
  BY <1>4, ConcatEmptySeq
<1>6. /\ SpiSeen.c.rx = <<>> \o SpiSeen'.c.rx /\ SpiSeen'.c.rx \in Seq(Word)
      /\ SpiSeen'.devices = SpiSeen.devices /\ SpiSeen'.at = SpiSeen.at
  BY <1>1, <1>2, <1>5, SeenBehind
<1>7. SpiSeen'.c.rx = SpiSeen.c.rx
  BY <1>6, ConcatEmptySeq
<1>8. due' = due
  BY <1>1, <1>2 DEF WiringTyped, DriverTyped
<1>9. Sent(job, p + 1) = Sent(job, p)
  BY <1>3 DEF Sent
<1>10. SpiArrived(orig, p + 1)'
  BY <1>1, <1>2, <1>6, <1>7, <1>8, <1>9, ArrivedKept
<1>11. SpiPlanned(orig)'
  BY <1>1, <1>2 DEF SpiPlanned
<1>12. SpiLines(p + 1)'
  <2>1. p + 1 \notin 2 .. Len(job.words) + 2 /\ p \notin 2 .. Len(job.words) + 2
    BY <1>3
  <2> QED
    BY <1>1, <1>2, <1>4, <2>1 DEF SpiLines
<1> QED
  BY <1>2, <1>6, <1>10, <1>11, <1>12

LEMMA SelectAnswers ==
  ASSUME WiringTyped, WiringTyped', bench.kind = "spi", IssueSelect, SpiSeen.at = Pins \ pads.dr,
         NEW orig, NEW p, SpiTodo(p), SpiPlanned(orig), SpiLines(p), SpiArrived(orig, p)
  PROVE  /\ SpiTodo(p + 1)' /\ SpiPlanned(orig)' /\ SpiLines(p + 1)' /\ SpiArrived(orig, p + 1)'
         /\ SpiSeen'.at = Pins \ pads'.dr
<1>1. /\ Issuing({"SELECT", "RELEASE"}) /\ Write.op \in {"SELECT", "RELEASE"}
      /\ pads' \in IF Write.op = "SELECT" THEN Selected(pads, Write.pin) ELSE Released(pads, Write.pin)
      /\ Traced(CsEvent(pads')) /\ UNCHANGED <<i2c, spi, adc, peers, plan>>
  BY DEF IssueSelect, Issuing
<1>2. /\ p \in 0 .. Len(job.words) + 2 /\ Len(job.words) \in Nat /\ Write = SpiWrite(job, p + 1)
      /\ SpiTodo(p + 1)' /\ due' = due + Dues(Write)
      /\ bench' = bench /\ host' = host /\ job' = job /\ got' = got
  BY <1>1, TransferAdvances
<1>3. /\ Write.pin = job.pin
      /\ \/ Write.op = "SELECT" /\ p = 1
         \/ Write.op = "RELEASE" /\ p = Len(job.words) + 2
  <2>1. p + 1 = 2 \/ (p + 1 > Len(job.words) + 2 /\ p + 1 # 1 /\ p + 1 # 2)
    <3>1. p + 1 # 1
      BY <1>1, <1>2 DEF SpiWrite
    <3>2. p + 1 # 2 => ~(p + 1 <= Len(job.words) + 2)
      BY <1>1, <1>2, <3>1 DEF SpiWrite
    <3> QED
      BY <1>2, <3>1, <3>2
  <2>2. CASE p + 1 = 2
    BY <1>2, <2>2 DEF SpiWrite
  <2>3. CASE p + 1 > Len(job.words) + 2 /\ p + 1 # 1 /\ p + 1 # 2
    <3>1. ~(p + 1 <= Len(job.words) + 2) /\ p = Len(job.words) + 2
      BY <1>2, <2>3
    <3> QED
      BY <1>2, <2>3, <3>1 DEF SpiWrite
  <2> QED
    BY <2>1, <2>2, <2>3
<1>4. pads \in Outputs /\ pads' \in Outputs /\ spi \in SpiCtl(bench) /\ job.pin \in Pins /\ events \in Seq(SpiEvents)
  BY <1>1 DEF WiringTyped, ControllersTyped, SpiTodo, SpiJobs, Events
<1>5. pads'.dr = IF p = 1 THEN Pins \ {job.pin} ELSE Pins
  <2>1. CASE p = 1
    <3>1. Write.op = "SELECT" /\ pads.dr = Pins
      <4>1. p \notin 2 .. Len(job.words) + 2 /\ p # Len(job.words) + 2
        BY <1>2, <2>1
      <4> QED
        BY <1>3, <4>1 DEF SpiLines
    <3> QED
      BY <1>1, <1>3, <1>4, <2>1, <3>1 DEF Selected, DrClear, WriteDr, DrToggle, Outputs
  <2>2. CASE p # 1
    <3>1. Write.op = "RELEASE" /\ pads.dr = Pins \ {job.pin}
      <4>1. p \in 2 .. Len(job.words) + 2 /\ Write.op = "RELEASE"
        BY <1>2, <1>3, <2>2
      <4> QED
        BY <4>1 DEF SpiLines
    <3> DEFINE pin == job.pin
    <3>2. pads' \in Released(pads, pin) /\ pin \in Pins /\ pads.dr = Pins \ {pin}
      BY <1>1, <1>3, <1>4, <3>1
    <3>3. pads \in Outputs
      BY <1>4
    <3> HIDE DEF pin
    <3>4. pads'.dr = pads.dr \union {pin}
      BY <3>2, <3>3 DEF Released, DrSet, WriteDr, DrToggle, Outputs
    <3>5. pads.dr \union {pin} = Pins
      BY <3>2
    <3> QED
      BY <2>2, <3>4, <3>5
  <2> QED
    BY <2>1, <2>2
<1>6. SpiSeen'.c.rx = SpiSeen.c.rx /\ SpiSeen'.devices = SpiSeen.devices /\ SpiSeen'.at = Pins \ pads'.dr
  <2>1. CASE bench.external
    <3> DEFINE event == CsEvent(pads')
    <3>0. event = [from |-> "gpio", dr |-> pads'.dr, gdir |-> Pins] /\ pads'.dr \in SUBSET Pins
      BY <1>4 DEF CsEvent, Outputs
    <3>1. event \in SpiEvents /\ event.from = "gpio" /\ event.gdir = Pins /\ event.dr = pads'.dr
      <4> HIDE DEF event
      <4>1. event.from = "gpio" /\ event.gdir = Pins /\ event.dr = pads'.dr
        BY <3>0
      <4>2. event \in {[from |-> "gpio", dr |-> pins, gdir |-> Pins] : pins \in SUBSET Pins}
        BY <3>0
      <4> QED
        BY <4>1, <4>2 DEF SpiEvents
    <3>2. events' = Append(events, event)
      BY <1>1, <2>1 DEF Traced
    <3>3. spi' \in SpiCtl(bench) /\ spi'.rx = spi.rx
      BY <1>1, <1>4
    <3> HIDE DEF event
    <3>4. LET now == HostTakes(SpiSeen, event)
          IN  SpiSeen'.c.rx = now.c.rx /\ SpiSeen'.devices = now.devices /\ SpiSeen'.at = now.at
      BY <1>1, <1>2, <2>1, <3>1, <3>2, <3>3, SeenTraced
    <3>5. HostTakes(SpiSeen, event) = Wire(SpiSeen.c, SpiSeen.devices, Pins \ pads'.dr)
      <4>1. SpiSeen \in SpiWires(bench) /\ bench \in Benches
        BY SeenIsTyped DEF WiringTyped
      <4>2. HostTakes(SpiSeen, event) = Wire(SpiSeen.c, SpiSeen.devices, event.gdir \ event.dr)
        BY <3>1, <4>1, HostOfSpi
      <4> QED
        BY <3>1, <4>2
    <3> QED
      BY <3>4, <3>5 DEF Wire
  <2>2. CASE ~bench.external
    BY <1>1, <1>2, <2>2 DEF SpiSeen, Wire
  <2> QED
    BY <2>1, <2>2
<1>7. due' = due
  <2>1. Dues(Write) = 0
    BY <1>1 DEF Dues
  <2> QED
    BY <1>2, <2>1 DEF WiringTyped, DriverTyped
<1>8. Sent(job, p + 1) = Sent(job, p)
  <2>1. p = 1 \/ p = Len(job.words) + 2
    BY <1>3
  <2>2. CASE p = 1
    BY <2>2 DEF Sent
  <2>3. CASE p = Len(job.words) + 2 /\ p # 1
    <3>1. ~(p + 1 <= 2) /\ ~(p + 1 <= Len(job.words) + 2) /\ p <= Len(job.words) + 2 /\ p - 2 = Len(job.words)
      BY <1>2, <2>3
    <3>2. p <= 2 => Len(job.words) = 0
      BY <1>2, <2>3
    <3> QED
      BY <3>1, <3>2 DEF Sent
  <2> QED
    BY <2>1, <2>2, <2>3
<1>9. SpiArrived(orig, p + 1)'
  BY <1>1, <1>2, <1>6, <1>7, <1>8, ArrivedKept
<1>10. SpiPlanned(orig)'
  BY <1>1, <1>2 DEF SpiPlanned
<1>11. SpiLines(p + 1)'
  <2>1. p >= 1 /\ spi'.framesz = job.bits - 1
    <3>1. p >= 1
      BY <1>2, <1>3
    <3> QED
      BY <1>1, <3>1 DEF SpiLines
  <2>2. p + 1 \in 2 .. Len(job.words) + 2 <=> p = 1
    BY <1>2, <1>3
  <2> QED
    BY <1>2, <1>5, <2>1, <2>2 DEF SpiLines
<1> QED
  BY <1>2, <1>6, <1>9, <1>10, <1>11

LEMMA MaskedIsRemainder ==
  ASSUME NEW b \in Benches, NEW s \in SpiCtl(b), NEW word \in Word
  PROVE  Masked(s, word) = word % (2 ^ FrameBits(s))
<1>1. FrameBits(s) \in 1 .. WordBits /\ WordBits \in Nat \ {0}
  BY MaskedIsWord, PowersArePositive
<1>2. CASE FrameBits(s) >= WordBits
  <2>1. FrameBits(s) = WordBits
    BY <1>1, <1>2
  <2> DEFINE top == 2 ^ WordBits
  <2>2. top \in Nat \ {0} /\ word \in 0 .. top - 1
    BY <1>1, PowersArePositive DEF Word
  <2> HIDE DEF top
  <2>3. word \in Nat /\ word < top
    BY <2>2
  <2>4. word % top = word
    BY <2>2, <2>3, ModulusOfSmall
  <2> QED
    BY <1>2, <2>1, <2>4 DEF Masked, top
<1> QED
  BY <1>2 DEF Masked

(* The word that a transfer sends next, against the attached device or by  *)
(* the host, brings the next reply.                                        *)
LEMMA WordBrings ==
  ASSUME WiringTyped, WiringTyped', bench.kind = "spi", IssueWord, bench' = bench, host' = host,
         SpiSeen.at = Pins \ pads.dr,
         NEW orig \in SpiBanks(bench), NEW n \in Nat, job \in SpiJobs, Write.word = job.words[n + 1],
         Write.word \in Word, pads.dr = Pins \ {job.pin}, spi.framesz = job.bits - 1,
         SpiSeen.devices = Remaining(orig, Port(bench, job), n)
  PROVE  /\ SpiSeen'.c.rx = SpiSeen.c.rx \o <<Brings(bench, orig, job, n + 1)>>
         /\ SpiSeen'.devices = Remaining(orig, Port(bench, job), n + 1)
         /\ SpiSeen'.at = SpiSeen.at
<1> DEFINE at       == Port(bench, job)
           now      == Remaining(orig, at, n)
           attached == IF bench.external THEN <<>> ELSE peers
           reply    == Brings(bench, orig, job, n + 1)
<1>1. /\ spi' = Shifted(spi, attached, Write.word)
      /\ peers' = IF bench.external THEN peers ELSE ShiftedAgainst(spi, attached)
      /\ spi.men => Traced([from |-> "spi", word |-> Masked(spi, Write.word), bits |-> FrameBits(spi)])
      /\ UNCHANGED <<i2c, adc, pads, plan>>
  BY DEF IssueWord
<1>2. /\ bench \in Benches /\ spi \in SpiCtl(bench) /\ spi' \in SpiCtl(bench) /\ peers \in SpiBanks(bench)
      /\ spi.men = TRUE /\ spi.external = bench.external /\ spi.rx \in Seq(Word) /\ events \in Seq(SpiEvents)
      /\ bench.external \in BOOLEAN
  BY KindsOfBenches DEF WiringTyped, ControllersTyped, SpiCtl, Events
<1>3. FrameBits(spi) = job.bits /\ job.bits \in 1 .. WordBits /\ job.pin \in Pins
  <2>1. job.bits \in 1 .. WordBits /\ job.pin \in Pins
    BY DEF SpiJobs
  <2> QED
    BY <2>1, PowersArePositive DEF FrameBits
<1>4. /\ DOMAIN now = DOMAIN orig /\ DOMAIN orig = DOMAIN bench.peers
      /\ at \in DOMAIN orig => /\ Miso(now[at]) = Nth(orig[at], n + 1)
                               /\ Fewer(now, at) = Remaining(orig, at, n + 1)
      /\ at \notin DOMAIN orig => now = Remaining(orig, at, n + 1)
  <2>1. DOMAIN orig = DOMAIN bench.peers
    BY DEF SpiBanks
  <2> HIDE DEF at
  <2>2. orig \in SpiBanks(bench) /\ n \in Nat
    OBVIOUS
  <2> QED
    BY <2>1, <2>2, RemainingStep
<1>5. CASE bench.external
  <2> DEFINE word  == Masked(spi, Write.word)
             event == [from |-> "spi", word |-> word, bits |-> FrameBits(spi)]
  <2>1. word \in Word
    BY <1>2, MaskedIsWord
  <2>2. event.from # "gpio" /\ event.bits = job.bits /\ event \in SpiEvents
    <3>1. event \in {[from |-> "spi", word |-> x, bits |-> m] : x \in Word, m \in 1 .. WordBits}
      BY <1>3, <2>1
    <3>2. event.from # "gpio" /\ event.bits = job.bits
      BY <1>3
    <3> HIDE DEF event
    <3> QED
      BY <3>1, <3>2 DEF SpiEvents
  <2>3. events' = Append(events, event) /\ peers' = peers
    BY <1>1, <1>2, <1>5 DEF Traced
  <2>4. spi'.rx = spi.rx
    <3>1. spi' = [spi EXCEPT !.sticky = spi.sticky \union {"WCF", "FCF", "TCF"}]
      BY <1>1, <1>2, <1>5 DEF Shifted
    <3> QED
      BY <1>2, <3>1 DEF SpiCtl
  <2> HIDE DEF event, word
  <2> DEFINE w == SpiSeen
  <2>5. w \in SpiWires(bench) /\ w.c \in SpiCtl(bench)
    BY SeenIsTyped
  <2>6. LET next == HostTakes(w, event)
        IN  SpiSeen'.c.rx = next.c.rx /\ SpiSeen'.devices = next.devices /\ SpiSeen'.at = next.at
    BY <1>2, <1>5, <2>2, <2>3, <2>4, SeenTraced
  <2>7. w.devices = now /\ w.at = {job.pin} /\ at = job.pin
    BY <1>3, <1>5 DEF Port
  <2> HIDE DEF w
  <2>8. HostTakes(w, event) = Wire(Answered(w.c, <<Reply(w, event)>>), Drained(w), w.at)
    BY <1>2, <2>2, <2>5, HostOfSpi
  <2>9. Reply(w, event) = reply /\ Drained(w) = Remaining(orig, at, n + 1)
    <3>1. CASE at \in DOMAIN orig
      <4>1. \E d \in DOMAIN w.devices : w.at = {d}
        BY <1>4, <2>7, <3>1
      <4>2. (CHOOSE d \in w.at : TRUE) = at
        BY <2>7
      <4>3. Reply(w, event) = Miso(now[at]) % (2 ^ job.bits)
        BY <2>2, <2>7, <4>1, <4>2 DEF Reply
      <4>4. Drained(w) = Fewer(now, at)
        BY <2>7, <4>1, <4>2 DEF Drained, Fewer
      <4>5. reply = Nth(orig[at], n + 1) % (2 ^ job.bits)
        BY <3>1 DEF Brings
      <4> HIDE DEF now, reply, at
      <4> QED
        BY <1>4, <3>1, <4>3, <4>4, <4>5
    <3>2. CASE at \notin DOMAIN orig
      <4>1. ~ \E d \in DOMAIN w.devices : w.at = {d}
        BY <1>4, <2>7, <3>2
      <4>2. Reply(w, event) = Idle % (2 ^ job.bits)
        BY <2>2, <4>1 DEF Reply
      <4>3. Drained(w) = now
        BY <2>7, <4>1 DEF Drained
      <4>4. reply = Idle % (2 ^ job.bits)
        BY <1>5, <3>2 DEF Brings
      <4> HIDE DEF now, reply, at
      <4> QED
        BY <1>4, <3>2, <4>2, <4>3, <4>4
    <3> QED
      BY <3>1, <3>2
  <2>10. Answered(w.c, <<reply>>).rx = w.c.rx \o <<reply>>
    BY <2>5 DEF Answered, SpiCtl
  <2>11. /\ HostTakes(w, event).c = Answered(w.c, <<reply>>)
         /\ HostTakes(w, event).devices = Remaining(orig, at, n + 1) /\ HostTakes(w, event).at = w.at
    BY <2>8, <2>9 DEF Wire
  <2> HIDE DEF reply, at
  <2>12. SpiSeen = w
    BY DEF w
  <2> QED
    BY <2>6, <2>10, <2>11, <2>12 DEF reply, at
<1>6. CASE ~bench.external
  <2>1. at = 1 /\ attached = peers
    BY <1>6 DEF Port
  <2>2. SpiSeen = Wire(spi, peers, Pins \ pads.dr) /\ SpiSeen' = Wire(spi', peers', Pins \ pads.dr)
    BY <1>1, <1>6 DEF SpiSeen
  <2>3. /\ SpiSeen.c = spi /\ SpiSeen.devices = peers /\ SpiSeen.at = Pins \ pads.dr
        /\ SpiSeen'.c = spi' /\ SpiSeen'.devices = peers' /\ SpiSeen'.at = Pins \ pads.dr
    BY <2>2 DEF Wire
  <2>4. peers = now
    BY <2>3
  <2>5. DOMAIN bench.peers = 1 .. Len(bench.peers) /\ Len(bench.peers) \in {0, 1}
    <3>1. bench.peers \in Seq(Seq(Word)) /\ Len(bench.peers) <= 1
      BY <1>2, <1>6, KindsOfBenches
    <3>2. Len(bench.peers) \in Nat /\ DOMAIN bench.peers = 1 .. Len(bench.peers)
      BY <3>1, LenProperties
    <3>3. \A m \in Nat : m <= 1 => m \in {0, 1}
      OBVIOUS
    <3> QED
      BY <3>1, <3>2, <3>3, Zenon
  <2>6. DOMAIN orig = {1} \/ DOMAIN orig = {}
    <3>1. 1 .. 0 = {} /\ 1 .. 1 = {1}
      OBVIOUS
    <3> QED
      BY <1>4, <2>5, <3>1
  <2>7. peers = <<>> <=> DOMAIN orig = {}
    <3>1. peers = [d \in DOMAIN orig |-> peers[d]]
      BY <1>2, <1>4 DEF SpiBanks
    <3>2. DOMAIN orig = {} => peers = <<>>
      BY <3>1
    <3>3. peers = <<>> => DOMAIN orig = {}
      BY <3>1
    <3> QED
      BY <3>2, <3>3
  <2> DEFINE sent == IF peers = <<>> THEN Write.word ELSE Miso(peers[1])
  <2>8. sent \in Word /\ sent % (2 ^ job.bits) = reply
    <3>1. CASE DOMAIN orig = {}
      BY <1>6, <2>1, <2>7, <3>1 DEF Brings
    <3>2. CASE DOMAIN orig = {1}
      <4>1. peers[1] \in Seq(Word) /\ peers # <<>>
        BY <1>2, <1>4, <2>7, <3>2 DEF SpiBanks
      <4>2. sent = Miso(peers[1]) /\ sent \in Word
        BY <4>1, RepliesAreTyped
      <4>3. Miso(peers[1]) = Nth(orig[1], n + 1)
        <5>1. 1 \in DOMAIN orig
          BY <3>2
        <5> HIDE DEF now
        <5> QED
          BY <1>4, <2>1, <2>4, <5>1
      <4>4. reply = Nth(orig[1], n + 1) % (2 ^ job.bits)
        BY <2>1, <3>2 DEF Brings
      <4> QED
        BY <4>2, <4>3, <4>4
    <3> QED
      BY <2>6, <3>1, <3>2
  <2>9. Masked(spi, sent) = reply
    <3> HIDE DEF sent, reply
    <3>1. Masked(spi, sent) = sent % (2 ^ FrameBits(spi))
      BY <1>2, <2>8, MaskedIsRemainder
    <3> QED
      BY <1>3, <2>8, <3>1
  <2> DEFINE done == [spi EXCEPT !.sticky = spi.sticky \union {"WCF", "FCF", "TCF"}]
  <2>10. spi' = Answered(done, <<Masked(spi, sent)>>)
    BY <1>1, <1>2, <1>6, <2>1 DEF Shifted
  <2>11. spi'.rx = spi.rx \o <<reply>>
    <3>1. done.rx = spi.rx /\ "rx" \in DOMAIN done
      BY <1>2 DEF SpiCtl
    <3> HIDE DEF done, sent, reply
    <3> QED
      BY <2>9, <2>10, <3>1 DEF Answered
  <2>12. peers' = Remaining(orig, at, n + 1)
    <3>1. peers' = [k \in DOMAIN peers |-> Consumed(peers[k])]
      BY <1>1, <1>2, <1>6 DEF ShiftedAgainst
    <3>2. DOMAIN peers = DOMAIN orig
      BY <1>2, <1>4 DEF SpiBanks
    <3>3. CASE DOMAIN orig = {}
      <4>1. peers' = peers
        <5>1. peers = [k \in DOMAIN peers |-> peers[k]]
          BY <1>2 DEF SpiBanks
        <5> HIDE DEF now
        <5> QED
          BY <3>1, <3>2, <3>3, <5>1
      <4>2. at \notin DOMAIN orig
        BY <3>3
      <4> HIDE DEF now, at
      <4> QED
        BY <1>4, <2>4, <4>1, <4>2
    <3>4. CASE DOMAIN orig = {1}
      <4>1. peers' = Fewer(peers, 1)
        <5>1. peers = [k \in DOMAIN peers |-> peers[k]]
          BY <1>2 DEF SpiBanks
        <5>2. peers' = [k \in {1} |-> Consumed(peers[1])]
          BY <3>1, <3>2, <3>4
        <5>3. [peers EXCEPT ![1] = Consumed(peers[1])] = [k \in {1} |-> Consumed(peers[1])]
          <6> DEFINE x == Consumed(peers[1])
          <6>1. DOMAIN peers = {1}
            BY <3>2, <3>4
          <6> HIDE DEF x
          <6> QED
            BY <5>1, <6>1
        <5> QED
          BY <5>2, <5>3 DEF Fewer
      <4>2. at \in DOMAIN orig /\ at = 1
        BY <2>1, <3>4
      <4> HIDE DEF now, at
      <4> QED
        BY <1>4, <2>4, <4>1, <4>2
    <3> QED
      BY <2>6, <3>3, <3>4
  <2> HIDE DEF reply, at, now
  <2> QED
    BY <2>3, <2>11, <2>12 DEF reply, at
<1> QED
  BY <1>2, <1>5, <1>6

LEMMA WordAnswers ==
  ASSUME WiringTyped, WiringTyped', bench.kind = "spi", IssueWord, SpiSeen.at = Pins \ pads.dr,
         NEW orig, NEW p, SpiTodo(p), SpiPlanned(orig), SpiLines(p), SpiArrived(orig, p)
  PROVE  /\ SpiTodo(p + 1)' /\ SpiPlanned(orig)' /\ SpiLines(p + 1)' /\ SpiArrived(orig, p + 1)'
         /\ SpiSeen'.at = Pins \ pads'.dr
<1> DEFINE N == Len(job.words)
           n == p - 2
<1>1. Issuing({"TDR"}) /\ Write.op = "TDR" /\ Dues(Write) = 1 /\ UNCHANGED <<pads, plan>>
  BY DEF IssueWord, Issuing, Dues
<1>2. /\ p \in 0 .. N + 2 /\ N \in Nat /\ Write = SpiWrite(job, p + 1)
      /\ SpiTodo(p + 1)' /\ due' = due + 1
      /\ bench' = bench /\ host' = host /\ job' = job /\ got' = got
  BY <1>1, TransferAdvances
<1>3. p \in 2 .. N + 1 /\ Write.word = job.words[n + 1]
  <2>1. p + 1 # 1
    BY <1>1, <1>2 DEF SpiWrite
  <2>2. p + 1 # 2
    BY <1>1, <1>2, <2>1 DEF SpiWrite
  <2>3. p + 1 <= N + 2
    BY <1>1, <1>2, <2>1, <2>2 DEF SpiWrite
  <2>4. p \in 2 .. N + 1 /\ (p + 1) - 2 = n + 1
    BY <1>2, <2>1, <2>2, <2>3
  <2>5. Write.word = job.words[(p + 1) - 2]
    BY <1>2, <2>1, <2>2, <2>3 DEF SpiWrite
  <2> QED
    BY <2>4, <2>5
<1>4. /\ n \in Nat /\ n + 1 \in 1 .. N /\ Sent(job, p) = n /\ Sent(job, p + 1) = n + 1
      /\ p \in 2 .. N + 2 /\ p + 1 \in 2 .. N + 2 /\ p >= 1
  <2>1. n \in Nat /\ n + 1 \in 1 .. N /\ p \in 2 .. N + 2 /\ p + 1 \in 2 .. N + 2 /\ p >= 1
    BY <1>2, <1>3
  <2>2. Sent(job, p) = n
    <3>1. p <= N + 2 /\ (p <= 2 => n = 0)
      BY <1>2, <1>3
    <3> QED
      BY <3>1 DEF Sent
  <2>3. Sent(job, p + 1) = n + 1
    <3>1. ~(p + 1 <= 2) /\ p + 1 <= N + 2 /\ (p + 1) - 2 = n + 1
      BY <1>2, <1>3
    <3> QED
      BY <3>1 DEF Sent
  <2> QED
    BY <2>1, <2>2, <2>3
<1>5. job \in SpiJobs /\ job.words[n + 1] \in Word /\ orig \in SpiBanks(bench)
  <2>1. job \in SpiJobs /\ job.words \in Seq(Word)
    BY DEF SpiTodo, SpiJobs
  <2> QED
    BY <1>4, <2>1, ElementOfSeq DEF SpiPlanned
<1>6. /\ pads.dr = Pins \ {job.pin} /\ spi.framesz = job.bits - 1
      /\ SpiSeen.devices = Remaining(orig, Port(bench, job), n)
  BY <1>4 DEF SpiLines, SpiArrived
<1> DEFINE reply == Brings(bench, orig, job, n + 1)
<1> HIDE DEF n
<1>7. /\ SpiSeen'.c.rx = SpiSeen.c.rx \o <<reply>>
      /\ SpiSeen'.devices = Remaining(orig, Port(bench, job), n + 1)
      /\ SpiSeen'.at = SpiSeen.at
  BY <1>2, <1>3, <1>4, <1>5, <1>6, WordBrings
<1>8. reply = plan.answer[n + 1] /\ plan.answer \in Seq(Word) /\ Len(plan.answer) = N /\ reply \in Word
  <2>1. reply = plan.answer[n + 1] /\ plan.answer \in Seq(Word) /\ Len(plan.answer) = N
    BY <1>4 DEF SpiPlanned
  <2> QED
    BY <1>4, <2>1, ElementOfSeq
<1> HIDE DEF reply, N
<1>9. SpiArrived(orig, p + 1)'
  <2> DEFINE rx == SpiSeen.c.rx
             all == got \o rx
             more == got \o (rx \o <<reply>>)
  <2>1. /\ got \in Seq(Word) /\ Len(rx) = due /\ Len(all) = n
        /\ \A k \in 1 .. n : all[k] = plan.answer[k]
    BY <1>4 DEF SpiArrived
  <2>2. rx \in Seq(Word)
    BY SeenIsTyped
  <2> HIDE DEF rx
  <2>3. <<reply>> \in Seq(Word) /\ Len(<<reply>>) = 1 /\ <<reply>>[1] = reply
    BY <1>8
  <2>4. more = all \o <<reply>>
    <3>1. \A q, r, t \in Seq(Word) : (q \o r) \o t = q \o (r \o t)
      BY ConcatAssociative
    <3> HIDE DEF rx
    <3> QED
      BY <2>1, <2>2, <2>3, <3>1
  <2>5. all \in Seq(Word) /\ rx \o <<reply>> \in Seq(Word) /\ Len(rx \o <<reply>>) = Len(rx) + 1
    <3> DEFINE one == <<reply>>
    <3>1. one \in Seq(Word) /\ Len(one) = 1
      BY <2>3
    <3> HIDE DEF one
    <3>2. all \in Seq(Word)
      BY <2>1, <2>2, ConcatProperties
    <3>3. rx \o one \in Seq(Word) /\ Len(rx \o one) = Len(rx) + Len(one)
      BY <2>2, <3>1, ConcatProperties
    <3> QED
      BY <3>1, <3>2, <3>3 DEF one
  <2> HIDE DEF all
  <2>6. more = Append(all, reply)
    BY <1>8, <2>4, <2>5, AppendIsConcat
  <2> HIDE DEF more
  <2>7. /\ Len(more) = n + 1 /\ more[n + 1] = plan.answer[n + 1]
        /\ \A k \in 1 .. n : more[k] = plan.answer[k]
    <3>1. /\ Len(Append(all, reply)) = Len(all) + 1 /\ Append(all, reply)[Len(all) + 1] = reply
          /\ \A k \in 1 .. Len(all) : Append(all, reply)[k] = all[k]
      BY <1>8, <2>5, AppendProperties
    <3> QED
      BY <1>8, <2>1, <2>6, <3>1 DEF all
  <2>8. \A k \in 1 .. n + 1 : more[k] = plan.answer[k]
    <3> TAKE k \in 1 .. n + 1
    <3>1. k = n + 1 \/ k \in 1 .. n
      BY <1>4
    <3> QED
      BY <2>7, <3>1
  <2>9. got' \o SpiSeen'.c.rx = more
    BY <1>2, <1>7 DEF more, rx
  <2>10. Len(SpiSeen'.c.rx) = due'
    BY <1>2, <1>7, <2>1, <2>5 DEF rx
  <2>11. UNCHANGED <<bench, job, got, plan>>
    BY <1>1, <1>2
  <2> QED
    BY <1>4, <1>7, <2>1, <2>7, <2>8, <2>9, <2>10, <2>11 DEF SpiArrived
<1>10. SpiPlanned(orig)'
  BY <1>1, <1>2 DEF SpiPlanned
<1>11. SpiLines(p + 1)'
  <2>1. spi'.framesz = spi.framesz
    <3>1. spi' = Shifted(spi, IF bench.external THEN <<>> ELSE peers, Write.word) /\ spi \in SpiCtl(bench)
      BY DEF IssueWord, WiringTyped, ControllersTyped
    <3> QED
      BY <3>1 DEF Shifted, Answered, SpiCtl
  <2> QED
    BY <1>1, <1>2, <1>4, <1>6, <2>1 DEF SpiLines, N
<1> QED
  BY <1>1, <1>2, <1>7, <1>9, <1>10, <1>11

LEMMA TakenAnswers ==
  ASSUME WiringTyped, WiringTyped', bench.kind = "spi", TakeWord,
         NEW orig, NEW p, SpiTodo(p), SpiPlanned(orig), SpiLines(p), SpiArrived(orig, p)
  PROVE  /\ SpiTodo(p)' /\ SpiPlanned(orig)' /\ SpiLines(p)' /\ SpiArrived(orig, p)'
         /\ SpiSeen'.at = SpiSeen.at
<1> DEFINE word == Head(spi.rx)
<1>1. /\ spi.rx # <<>> /\ spi' = ReadRdr(spi) /\ due > 0 /\ got' = Append(got, word) /\ due' = due - 1
      /\ UNCHANGED <<bench, host, job, todo, plan, pads, peers, events>>
  BY DEF TakeWord, Called, Took
<1>2. spi \in SpiCtl(bench) /\ spi.rx \in Seq(Word) /\ got \in Seq(Word) /\ due \in Nat
  BY DEF WiringTyped, ControllersTyped, SpiCtl, SpiArrived, DriverTyped
<1>3. spi'.rx = Tail(spi.rx) /\ spi'.framesz = spi.framesz
  BY <1>1, <1>2 DEF ReadRdr, SpiCtl
<1>4. word \in Word /\ spi.rx = <<word>> \o spi'.rx /\ spi'.rx \in Seq(Word)
  <2> DEFINE s == spi.rx
  <2>1. s \in Seq(Word) /\ s # <<>>
    BY <1>1, <1>2
  <2> HIDE DEF s
  <2>2. Head(s) \in Word /\ Tail(s) \in Seq(Word) /\ s = <<Head(s)>> \o Tail(s)
    BY <2>1, HeadTailProperties
  <2> QED
    BY <1>3, <2>2 DEF s
<1> HIDE DEF word
<1> DEFINE one == <<word>>
<1>5. one \in Seq(Word) /\ Len(one) = 1
  BY <1>4
<1> HIDE DEF one
<1>6. /\ SpiSeen.c.rx = one \o SpiSeen'.c.rx /\ SpiSeen'.c.rx \in Seq(Word)
      /\ SpiSeen'.devices = SpiSeen.devices /\ SpiSeen'.at = SpiSeen.at
  <2>1. spi.rx = one \o spi'.rx
    BY <1>4 DEF one
  <2> QED
    BY <1>1, <1>5, <2>1, SeenBehind
<1> DEFINE rx == SpiSeen'.c.rx
<1>7. got' = got \o one
  BY <1>1, <1>2, <1>4, AppendIsConcat DEF one
<1>8. got' \o rx = got \o SpiSeen.c.rx
  <2>1. \A q, r, t \in Seq(Word) : (q \o r) \o t = q \o (r \o t)
    BY ConcatAssociative
  <2> DEFINE old == SpiSeen.c.rx
  <2>2. rx \in Seq(Word) /\ old = one \o rx
    BY <1>6
  <2> HIDE DEF rx, old
  <2>3. (got \o one) \o rx = got \o (one \o rx)
    BY <1>2, <1>5, <2>1, <2>2
  <2> QED
    BY <1>7, <2>2, <2>3 DEF old
<1>9. got' \in Seq(Word) /\ Len(rx) = due'
  <2> DEFINE old == SpiSeen.c.rx
  <2>1. got \o one \in Seq(Word)
    BY <1>2, <1>5, ConcatProperties
  <2>2. Len(old) = due /\ old = one \o rx /\ rx \in Seq(Word)
    BY <1>6 DEF SpiArrived
  <2> HIDE DEF old, rx
  <2>3. Len(one \o rx) = Len(one) + Len(rx) /\ Len(rx) \in Nat
    BY <1>5, <2>2, ConcatProperties, LenProperties
  <2>4. due = 1 + Len(rx)
    BY <1>5, <2>2, <2>3
  <2> QED
    BY <1>1, <1>2, <1>7, <2>1, <2>3, <2>4
<1>10. SpiArrived(orig, p)'
  <2>1. /\ Len(got \o SpiSeen.c.rx) = Sent(job, p)
        /\ \A k \in 1 .. Sent(job, p) : (got \o SpiSeen.c.rx)[k] = plan.answer[k]
        /\ SpiSeen.devices = Remaining(orig, Port(bench, job), Sent(job, p))
    BY DEF SpiArrived
  <2>2. UNCHANGED <<bench, job, plan>>
    BY <1>1
  <2> QED
    BY <1>6, <1>8, <1>9, <2>1, <2>2 DEF SpiArrived
<1>11. SpiTodo(p)' /\ SpiPlanned(orig)' /\ SpiLines(p)'
  BY <1>1, <1>3 DEF SpiTodo, SpiPlanned, SpiLines
<1> QED
  BY <1>6, <1>10, <1>11

LEMMA FrameOfTrace ==
  ASSUME NEW b \in Benches, b.kind = "spi", NEW w \in SpiWires(b), NEW list \in Seq(SpiEvents)
  PROVE  Served(w, list).c.framesz = w.c.framesz
<1> DEFINE S == {v \in SpiWires(b) : v.c.framesz = w.c.framesz}
           E == SpiEvents
<1>1. ASSUME NEW v \in S, NEW e \in E PROVE HostTakes(v, e) \in S
  <2>1. v \in SpiWires(b) /\ v.c \in SpiCtl(b) /\ v.c.framesz = w.c.framesz
    BY DEF SpiWires
  <2>2. HostTakes(v, e) \in SpiWires(b)
    BY <2>1, HostOfSpi
  <2>3. HostTakes(v, e).c = v.c \/ \E r : HostTakes(v, e).c = Answered(v.c, <<r>>)
    <3>1. CASE e.from = "gpio"
      <4>1. HostTakes(v, e) = Wire(v.c, v.devices, e.gdir \ e.dr)
        BY <2>1, <3>1, HostOfSpi
      <4> QED
        BY <4>1 DEF Wire
    <3>2. CASE e.from # "gpio"
      <4>1. HostTakes(v, e) = Wire(Answered(v.c, <<Reply(v, e)>>), Drained(v), v.at)
        BY <2>1, <3>2, HostOfSpi
      <4>2. HostTakes(v, e).c = Answered(v.c, <<Reply(v, e)>>)
        BY <4>1 DEF Wire
      <4> QED
        BY <4>2
    <3> QED
      BY <3>1, <3>2
  <2>4. HostTakes(v, e).c.framesz = v.c.framesz
    BY <2>1, <2>3 DEF Answered, SpiCtl
  <2> QED
    BY <2>1, <2>2, <2>4
<1>2. w \in S
  OBVIOUS
<1> HIDE DEF S
<1>3. Served(w, list) \in S
  BY <1>1, <1>2, ServedGrows
<1> QED
  BY <1>3 DEF S

(* The host takes the trace: nothing that the driver will see changes.     *)
LEMMA HostKeepsSeen ==
  ASSUME WiringTyped, WiringTyped', bench.kind = "spi", HostTakesEvents
  PROVE  /\ SpiSeen'.c.rx = SpiSeen.c.rx /\ SpiSeen'.devices = SpiSeen.devices /\ SpiSeen'.at = SpiSeen.at
         /\ peers' = SpiSeen.devices /\ spi'.framesz = spi.framesz
         /\ UNCHANGED <<bench, pads, driver>>
<1> DEFINE w == Served(Wire(spi, peers, host), events)
<1>1. /\ bench \in Benches /\ spi \in SpiCtl(bench) /\ peers \in SpiBanks(bench) /\ host \in SUBSET Pins
      /\ events \in Seq(SpiEvents) /\ (events # <<>> => bench.external)
  BY DEF WiringTyped, ControllersTyped, Events
<1>2. /\ bench.external /\ events' = <<>> /\ peers' = w.devices /\ host' = w.at /\ spi' = w.c
      /\ UNCHANGED <<bench, pads, driver>>
  BY <1>1 DEF HostTakesEvents
<1>3. Wire(spi, peers, host) \in SpiWires(bench)
  BY <1>1 DEF Wire, SpiWires
<1>4. w \in SpiWires(bench) /\ w.c.framesz = spi.framesz
  <2>1. Wire(spi, peers, host).c = spi
    BY DEF Wire
  <2> QED
    BY <1>1, <1>3, <2>1, TraceOfSpi, FrameOfTrace
<1>5. SpiSeen = w
  BY <1>2 DEF SpiSeen
<1> HIDE DEF w
<1> DEFINE v == Wire(spi', peers', host')
<1>6. v \in SpiWires(bench) /\ v.c = spi' /\ v.devices = peers' /\ v.at = host'
  BY <1>2, <1>4 DEF Wire, SpiWires
<1>7. SpiSeen' = v
  <2>1. SpiSeen' = Served(v, <<>>)
    BY <1>2 DEF SpiSeen
  <2> HIDE DEF v
  <2>2. <<>> \in Seq(SpiEvents)
    BY EmptySeq
  <2> QED
    BY <1>1, <1>6, <2>1, <2>2, TraceOfSpi
<1> HIDE DEF v
<1> QED
  BY <1>2, <1>4, <1>5, <1>6, <1>7

LEMMA SpiStart ==
  ASSUME WiringInit, WiringTyped
  PROVE  SpiInv
<1> SUFFICES ASSUME bench.kind = "spi" PROVE SpiSeen.at = Pins \ pads.dr /\ SpiRests /\ job = None
  BY DEF SpiInv
<1>1. /\ events = <<>> /\ job = None /\ host = {} /\ spi.rx = <<>>
      /\ pads = [DrSet(GpioNew, Pins) EXCEPT !.gdir = Pins]
  BY DEF WiringInit, SpiReady, SpiNew, WriteCr
<1>2. pads.dr = Pins
  BY <1>1 DEF DrSet, GpioNew
<1>3. SpiSeen.c = spi /\ SpiSeen.devices = peers
  BY <1>1, SeenIsTyped
<1>4. SpiSeen.at = {}
  <2>1. Wire(spi, peers, host) \in SpiWires(bench) /\ bench \in Benches
    BY DEF WiringTyped, ControllersTyped, Wire, SpiWires
  <2>2. Served(Wire(spi, peers, host), <<>>) = Wire(spi, peers, host)
    BY <2>1, EmptySeq, TraceOfSpi
  <2> QED
    BY <1>1, <1>2, <2>2 DEF SpiSeen, Wire
<1> QED
  BY <1>1, <1>2, <1>3, <1>4 DEF SpiRests

(* A transfer that is complete.                                            *)
LEMMA TransferComplete ==
  ASSUME WiringTyped, bench.kind = "spi", Complete, NEW orig, NEW p,
         SpiTodo(p), SpiPlanned(orig), SpiLines(p), SpiArrived(orig, p)
  PROVE  /\ got = plan.answer /\ peers = plan.peers
         /\ pads.dr = Pins /\ SpiSeen.c = spi /\ spi.rx = <<>> /\ SpiSeen.devices = peers
<1> DEFINE N == Len(job.words)
<1>1. /\ todo = <<>> /\ due = 0 /\ events = <<>>
      /\ SpiSeen.c = spi /\ SpiSeen.devices = peers /\ spi.rx \in Seq(Word)
  BY SeenIsTyped DEF Complete
<1>2. N \in Nat /\ p = N + 3
  <2>1. Len(todo) = 0 /\ p \in 0 .. Transfer(job) /\ Len(todo) = Transfer(job) - p /\ job \in SpiJobs
    BY <1>1 DEF SpiTodo
  <2>2. N \in Nat
    BY <2>1, LenProperties DEF SpiJobs
  <2> QED
    BY <2>1, <2>2 DEF Transfer
<1>3. Sent(job, p) = N
  <2>1. ~(p <= 2) /\ ~(p <= N + 2)
    BY <1>2
  <2> QED
    BY <2>1 DEF Sent
<1>4. pads.dr = Pins
  <2>1. p \notin 2 .. N + 2
    BY <1>2
  <2> QED
    BY <2>1 DEF SpiLines
<1>5. spi.rx = <<>>
  <2>1. Len(spi.rx) = 0
    BY <1>1 DEF SpiArrived
  <2> QED
    BY <1>1, <2>1, EmptySeq
<1>6. got = plan.answer
  <2>1. /\ got \in Seq(Word) /\ plan.answer \in Seq(Word) /\ Len(plan.answer) = N
        /\ got \o <<>> = got
    BY ConcatEmptySeq DEF SpiArrived, SpiPlanned
  <2>2. Len(got) = N /\ \A k \in 1 .. N : got[k] = plan.answer[k]
    BY <1>1, <1>3, <1>5, <2>1 DEF SpiArrived
  <2> HIDE DEF N
  <2> QED
    BY <2>1, <2>2, SeqEqual
<1>7. peers = plan.peers
  BY <1>1, <1>3 DEF SpiArrived, SpiPlanned
<1> QED
  BY <1>1, <1>4, <1>5, <1>6, <1>7

LEMMA FinishRests ==
  ASSUME WiringTyped, WiringTyped', bench.kind = "spi", SpiInv, Finish
  PROVE  SpiRests' /\ SpiSeen'.at = Pins \ pads'.dr
<1>1. PICK orig, p : SpiTodo(p) /\ SpiPlanned(orig) /\ SpiLines(p) /\ SpiArrived(orig, p)
  BY DEF SpiInv, Finish, Complete
<1>2. Complete /\ UNCHANGED <<bench, pads, peers, events, host>>
  BY DEF Finish
<1>3. pads.dr = Pins /\ SpiSeen.c = spi /\ spi.rx = <<>> /\ SpiSeen.devices = peers
  BY <1>1, <1>2, TransferComplete
<1>4. spi'.rx = spi.rx
  BY FinishedControllers
<1>5. spi.rx = <<>> \o spi'.rx
  BY <1>3, <1>4, ConcatEmptySeq
<1>6. /\ SpiSeen.c.rx = <<>> \o SpiSeen'.c.rx /\ SpiSeen'.c.rx \in Seq(Word)
      /\ SpiSeen'.devices = SpiSeen.devices /\ SpiSeen'.at = SpiSeen.at
  BY <1>2, <1>5, EmptySeq, SeenBehind
<1>7. SpiSeen'.c.rx = <<>>
  BY <1>3, <1>6, ConcatEmptySeq
<1> QED
  BY <1>2, <1>3, <1>6, <1>7 DEF SpiRests, SpiInv

LEMMA GiveUpRests ==
  ASSUME WiringTyped, WiringTyped', bench.kind = "spi", GiveUp
  PROVE  SpiRests' /\ SpiSeen'.at = Pins \ pads'.dr
<1>1. /\ events = <<>> /\ pads' = DrSet(pads, Pins) /\ Traced(CsEvent(pads'))
      /\ UNCHANGED <<bench, peers, host>>
  BY DEF GiveUp
<1>2. /\ bench \in Benches /\ spi' \in SpiCtl(bench) /\ peers \in SpiBanks(bench) /\ host \in SUBSET Pins
      /\ pads \in Outputs /\ pads' \in Outputs
  BY <1>1 DEF WiringTyped, ControllersTyped
<1>3. pads'.dr = Pins /\ spi'.rx = <<>>
  <2>1. spi'.rx = <<>>
    BY GivenUpControllers
  <2> QED
    BY <1>1, <1>2, <2>1 DEF DrSet, Outputs
<1>4. CASE ~bench.external
  BY <1>1, <1>3, <1>4 DEF SpiRests, SpiSeen, Wire
<1>5. CASE bench.external
  <2> DEFINE event == CsEvent(pads')
             v     == Wire(spi', peers, host)
  <2>1. event = [from |-> "gpio", dr |-> pads'.dr, gdir |-> Pins] /\ pads'.dr \in SUBSET Pins
    BY <1>2 DEF CsEvent, Outputs
  <2>2. event \in SpiEvents /\ event.from = "gpio" /\ event.gdir = Pins /\ event.dr = Pins
    <3> HIDE DEF event
    <3>1. event.from = "gpio" /\ event.gdir = Pins /\ event.dr = Pins
      BY <1>3, <2>1
    <3>2. event \in {[from |-> "gpio", dr |-> pins, gdir |-> Pins] : pins \in SUBSET Pins}
      BY <2>1
    <3> QED
      BY <3>1, <3>2 DEF SpiEvents
  <2>3. events' = Append(<<>>, event)
    BY <1>1, <1>5 DEF Traced
  <2> HIDE DEF event
  <2>4. v \in SpiWires(bench) /\ v.c = spi' /\ v.devices = peers
    BY <1>2 DEF Wire, SpiWires
  <2>5. SpiSeen' = Served(v, Append(<<>>, event))
    BY <1>1, <1>5, <2>3 DEF SpiSeen
  <2> HIDE DEF v
  <2>6. SpiSeen' = HostTakes(v, event)
    <3>1. <<>> \in Seq(SpiEvents)
      BY EmptySeq
    <3>2. Served(v, <<>>) = v /\ Served(v, Append(<<>>, event)) = HostTakes(Served(v, <<>>), event)
      BY <1>2, <2>2, <2>4, <3>1, TraceOfSpi
    <3> QED
      BY <2>5, <3>2
  <2>7. HostTakes(v, event) = Wire(spi', peers, {})
    <3>1. HostTakes(v, event) = Wire(v.c, v.devices, event.gdir \ event.dr)
      BY <1>2, <2>2, <2>4, HostOfSpi
    <3>2. event.gdir \ event.dr = {}
      BY <2>2
    <3> QED
      BY <2>4, <3>1, <3>2
  <2> QED
    BY <1>1, <1>3, <2>6, <2>7 DEF SpiRests, Wire
<1> QED
  BY <1>4, <1>5

LEMMA SpiStep ==
  ASSUME WiringTyped, WiringTyped', Quiet, SpiInv, WiringNext
  PROVE  SpiInv'
<1> SUFFICES ASSUME bench'.kind = "spi"
             PROVE  /\ SpiSeen'.at = Pins \ pads'.dr
                    /\ job' = None => SpiRests'
                    /\ job' # None => \E orig, p : SpiTodo(p)' /\ SpiPlanned(orig)' /\ SpiLines(p)' /\ SpiArrived(orig, p)'
  BY DEF SpiInv
<1>1. bench' = bench /\ bench.kind = "spi"
  BY DEF WiringNext, WiringServes, Issue, Take, IssueCommand, SetFrame, IssueWord, IssueSelect, IssueConversion,
         Issuing, TakeByte, TakeWord, TakeResult, Took, SeeNack, Finish, HostTakesEvents, Begin, GiveUp, HostSetsChannel
<1>2. SpiSteps
  BY <1>1, StepsOfKinds
<1>3. SpiSeen.at = Pins \ pads.dr /\ (job = None => SpiRests)
  BY <1>1 DEF SpiInv
<1>4. CASE Begin
  <2>2. SpiSeen' = SpiSeen /\ pads' = pads /\ peers' = peers /\ job' \in JobsOf["spi"]
    BY <1>1, <1>4, BeginTransfer DEF Begin, wires
  <2>3. job' # None
    BY <2>2, WiringAssumption
  <2> QED
    BY <1>1, <1>3, <1>4, <2>2, <2>3, BeginTransfer
<1>5. CASE SetFrame \/ IssueWord \/ IssueSelect \/ TakeWord
  <2>1. job # None /\ job' = job
    <3>1. SetFrame \/ IssueWord \/ IssueSelect => todo # <<>> /\ job' = job
      BY DEF SetFrame, IssueWord, IssueSelect, Issuing
    <3>2. TakeWord => due > 0 /\ job' = job
      BY DEF TakeWord, Called, Took
    <3>3. job = None => todo = <<>> /\ due = 0
      BY DEF WiringTyped, DriverTyped
    <3>4. ~(0 > 0)
      OBVIOUS
    <3> QED
      BY <1>5, <3>1, <3>2, <3>3, <3>4
  <2>2. PICK orig, p : SpiTodo(p) /\ SpiPlanned(orig) /\ SpiLines(p) /\ SpiArrived(orig, p)
    BY <1>1, <2>1 DEF SpiInv
  <2>3. CASE SetFrame
    <3>1. pads' = pads
      BY <2>3 DEF SetFrame
    <3> QED
      BY <1>1, <1>3, <2>1, <2>2, <2>3, <3>1, FrameAnswers
  <2>4. CASE IssueWord
    BY <1>1, <1>3, <2>1, <2>2, <2>4, WordAnswers
  <2>5. CASE IssueSelect
    BY <1>1, <1>3, <2>1, <2>2, <2>5, SelectAnswers
  <2>6. CASE TakeWord
    <3>1. pads' = pads
      BY <2>6 DEF TakeWord, Took
    <3> QED
      BY <1>1, <1>3, <2>1, <2>2, <2>6, <3>1, TakenAnswers
  <2> QED
    BY <1>5, <2>3, <2>4, <2>5, <2>6
<1>6. CASE Finish \/ GiveUp
  <2>1. job' = None
    BY <1>6 DEF Finish, GiveUp, Rest
  <2> QED
    BY <1>1, <1>6, <2>1, FinishRests, GiveUpRests
<1>7. CASE HostTakesEvents
  <2>1. /\ SpiSeen'.c.rx = SpiSeen.c.rx /\ SpiSeen'.devices = SpiSeen.devices /\ SpiSeen'.at = SpiSeen.at
        /\ peers' = SpiSeen.devices /\ spi'.framesz = spi.framesz
        /\ UNCHANGED <<bench, pads, job, todo, due, got, plan>>
    BY <1>1, <1>7, HostKeepsSeen DEF driver
  <2>2. CASE job = None
    BY <1>3, <2>1, <2>2 DEF SpiRests
  <2>3. CASE job # None
    <3>1. PICK orig, p : SpiTodo(p) /\ SpiPlanned(orig) /\ SpiLines(p) /\ SpiArrived(orig, p)
      BY <1>1, <2>3 DEF SpiInv
    <3>2. SpiTodo(p)'
      BY <2>1, <3>1 DEF SpiTodo
    <3>3. SpiPlanned(orig)'
      BY <2>1, <3>1 DEF SpiPlanned
    <3>4. SpiLines(p)'
      BY <2>1, <3>1 DEF SpiLines
    <3>5. SpiArrived(orig, p)'
      BY <2>1, <3>1, ArrivedKept
    <3> QED
      BY <1>3, <2>1, <2>3, <3>2, <3>3, <3>4, <3>5
  <2> QED
    BY <2>2, <2>3
<1> QED
  BY <1>2, <1>4, <1>5, <1>6, <1>7 DEF SpiSteps

LEMMA SpiMatches ==
  ASSUME WiringTyped, SpiInv, bench.kind = "spi"
  PROVE  AnswersMatchPeers
<1> SUFFICES ASSUME Complete PROVE got = plan.answer /\ Held(peers) = Held(plan.peers)
  BY DEF AnswersMatchPeers
<1>1. PICK orig, p : SpiTodo(p) /\ SpiPlanned(orig) /\ SpiLines(p) /\ SpiArrived(orig, p)
  BY DEF SpiInv, Complete
<1>2. got = plan.answer /\ peers = plan.peers
  BY <1>1, TransferComplete
<1> QED
  BY <1>2

(***************************************************************************)
(* A segment, command by command, is what the plan makes of it             *)
(***************************************************************************)
LEMMA GreatestIsIn ==
  ASSUME NEW m \in Nat, NEW S \in SUBSET (1 .. m), S # {}
  PROVE  Max(S) \in S /\ \A y \in S : Max(S) >= y
<1> DEFINE T == {m - x : x \in S}
<1>1. T \in SUBSET Nat /\ T # {}
  <2>1. \A x \in S : m - x \in Nat
    OBVIOUS
  <2>2. PICK x \in S : TRUE
    OBVIOUS
  <2>3. m - x \in T
    BY <2>2
  <2> QED
    BY <2>1, <2>3
<1>2. PICK t \in T : \A u \in T : t <= u
  <2> HIDE DEF T
  <2> QED
    BY <1>1, LeastNumber
<1>3. PICK x \in S : t = m - x
  OBVIOUS
<1>4. \A y \in S : x >= y
  <2> TAKE y \in S
  <2>1. m - y \in T /\ x \in Nat /\ y \in Nat
    OBVIOUS
  <2>2. m - x <= m - y
    BY <1>2, <1>3, <2>1
  <2> QED
    BY <2>1, <2>2
<1> QED
  BY <1>3, <1>4 DEF Max

LEMMA GreatestAdded ==
  ASSUME NEW m \in Nat, NEW S \in SUBSET (1 .. m)
  PROVE  Max(S \union {m + 1}) = m + 1
<1> DEFINE T == S \union {m + 1}
<1>1. m + 1 \in T /\ \A y \in T : m + 1 >= y
  OBVIOUS
<1>2. \A x \in T : (\A y \in T : x >= y) => x = m + 1
  <2> TAKE x \in T
  <2>1. x \in Nat /\ (x >= m + 1 => x = m + 1)
    OBVIOUS
  <2> QED
    BY <1>1, <2>1
<1> HIDE DEF T
<1>3. Max(T) = m + 1
  BY <1>1, <1>2 DEF Max
<1> QED
  BY <1>3 DEF T

(* The registers of a device after a segment of the plan.                  *)
Refilled(d, seg) ==
  [r \in DOMAIN d.regs |->
     IF StoresIn(d, seg, r) = {} THEN d.regs[r] ELSE seg.bytes[Max(StoresIn(d, seg, r)) + 1]]

LEMMA FirstAndMoved ==
  ASSUME NEW d \in RegFile, NEW seg, IsSegment(seg)
  PROVE  /\ First(d, seg) \in Nat /\ Moved(seg) \in Nat
         /\ ~seg.read => Moved(seg) = IF seg.bytes = <<>> THEN 0 ELSE Len(seg.bytes) - 1
<1>1. /\ seg.read \in BOOLEAN /\ seg.skip \in Nat /\ seg.count \in Nat /\ seg.bytes \in Seq(Byte)
      /\ Len(seg.bytes) \in Nat /\ d.ptr \in Nat /\ Byte \in SUBSET Nat
  BY LenProperties, RegistersStayRegisters DEF IsSegment, Byte
<1>2. seg.bytes # <<>> => Len(seg.bytes) \in Nat \ {0} /\ seg.bytes[1] \in Byte
  <2> SUFFICES ASSUME seg.bytes # <<>> PROVE Len(seg.bytes) \in Nat \ {0} /\ seg.bytes[1] \in Byte
    OBVIOUS
  <2>1. Len(seg.bytes) \in Nat \ {0}
    BY <1>1, EmptySeq
  <2>2. 1 \in 1 .. Len(seg.bytes)
    BY <2>1
  <2> QED
    BY <1>1, <2>1, <2>2, ElementOfSeq
<1>3. First(d, seg) \in Nat
  BY <1>1, <1>2 DEF First
<1>4. ASSUME ~seg.read PROVE Moved(seg) = IF seg.bytes = <<>> THEN 0 ELSE Len(seg.bytes) - 1
  <2>1. Moved(seg) = Max({0, Len(seg.bytes) - 1})
    BY <1>4 DEF Moved
  <2>2. CASE seg.bytes = <<>>
    <3>1. Len(seg.bytes) - 1 = 0 - 1
      BY <2>2
    <3>2. \A x \in {0, 0 - 1} : (\A y \in {0, 0 - 1} : x >= y) <=> x = 0
      OBVIOUS
    <3>3. Max({0, 0 - 1}) = 0
      BY <3>2 DEF Max
    <3> QED
      BY <2>1, <2>2, <3>1, <3>3
  <2>3. CASE seg.bytes # <<>>
    <3> DEFINE n == Len(seg.bytes) - 1
    <3>1. n \in Nat
      BY <1>2, <2>3
    <3> HIDE DEF n
    <3>2. \A x \in {0, n} : (\A y \in {0, n} : x >= y) <=> x = n
      BY <3>1
    <3>3. Max({0, n}) = n
      BY <3>2 DEF Max
    <3> QED
      BY <2>1, <2>3, <3>3 DEF n
  <2> QED
    BY <2>2, <2>3
<1>5. Moved(seg) \in Nat
  <2>1. CASE seg.read
    BY <1>1, <2>1 DEF Moved
  <2>2. CASE ~seg.read
    BY <1>2, <1>4, <2>2
  <2> QED
    BY <2>1, <2>2
<1> QED
  BY <1>3, <1>4, <1>5

LEMMA RefilledIsTyped ==
  ASSUME NEW d \in RegFile, NEW seg, IsSegment(seg)
  PROVE  Refilled(d, seg) \in [Byte -> Byte]
<1>1. d.regs \in [Byte -> Byte] /\ seg.bytes \in Seq(Byte) /\ Moved(seg) \in Nat
  BY RegistersStayRegisters, FirstAndMoved DEF IsSegment
<1>2. ASSUME NEW r \in Byte, StoresIn(d, seg, r) # {}
      PROVE  seg.bytes[Max(StoresIn(d, seg, r)) + 1] \in Byte
  <2> DEFINE S == StoresIn(d, seg, r)
             k == Max(S)
  <2>1. S \in SUBSET (1 .. Moved(seg)) /\ ~seg.read
    BY <1>2 DEF StoresIn
  <2> HIDE DEF S
  <2>2. k \in S
    BY <1>1, <1>2, <2>1, GreatestIsIn DEF S
  <2>3. k \in 1 .. Moved(seg)
    BY <2>1, <2>2
  <2> HIDE DEF k
  <2>4. Moved(seg) = Len(seg.bytes) - 1 /\ Len(seg.bytes) \in Nat
    <3>1. Moved(seg) # 0
      BY <2>3
    <3> QED
      BY <1>1, <2>1, <3>1, FirstAndMoved, LenProperties
  <2>5. k + 1 \in 1 .. Len(seg.bytes)
    BY <1>1, <2>3, <2>4
  <2>6. seg.bytes[k + 1] \in Byte
    BY <1>1, <2>5, ElementOfSeq
  <2> QED
    BY <2>6 DEF k, S
<1> QED
  BY <1>1, <1>2 DEF Refilled

(* What a segment of the plan brings and leaves.                           *)
LEMMA AfterIsTyped ==
  ASSUME NEW b \in Benches, b.kind = "i2c", NEW bank \in Banks(b), NEW seg, IsSegment(seg),
         seg.addr \in DOMAIN b.peers
  PROVE  LET d == bank[seg.addr]
         IN  /\ After(bank, seg) \in Banks(b) /\ ReadBack(bank, seg) \in Seq(Byte)
             /\ After(bank, seg)[seg.addr].ptr = (First(d, seg) + Moved(seg)) % RegCount
             /\ After(bank, seg)[seg.addr].regs = Refilled(d, seg)
             /\ \A a \in DOMAIN b.peers : a # seg.addr => After(bank, seg)[a] = bank[a]
<1> DEFINE a    == seg.addr
           d    == bank[a]
           p    == (First(d, seg) + Moved(seg)) % RegCount
           regs == Refilled(d, seg)
           e    == [d EXCEPT !.ptr = p, !.regs = regs]
<1>1. d \in RegFile /\ DOMAIN bank = DOMAIN b.peers
  BY DEF Banks
<1>2. p \in Byte /\ regs \in [Byte -> Byte]
  <2>1. First(d, seg) + Moved(seg) \in Int
    BY <1>1, FirstAndMoved
  <2> QED
    BY <1>1, <2>1, RefilledIsTyped, RemainderIsByte
<1>3. After(bank, seg) = [bank EXCEPT ![a] = e]
  <2>1. After(bank, seg) = [bank EXCEPT ![a].ptr = p, ![a].regs = regs]
    BY DEF After, Refilled
  <2> HIDE DEF p, regs
  <2>2. [bank EXCEPT ![a].ptr = p, ![a].regs = regs] = [bank EXCEPT ![a] = e]
    BY <1>1
  <2> QED
    BY <2>1, <2>2
<1> HIDE DEF p, regs
<1>4. e \in RegFile /\ e.ptr = p /\ e.regs = regs
  BY <1>1, <1>2 DEF RegFile
<1> HIDE DEF e
<1>5. /\ [bank EXCEPT ![a] = e] \in Banks(b) /\ [bank EXCEPT ![a] = e][a] = e
      /\ \A x \in DOMAIN b.peers : x # a => [bank EXCEPT ![a] = e][x] = bank[x]
  BY <1>1, <1>4, BanksStayBanks
<1>6. ReadBack(bank, seg) \in Seq(Byte)
  <2>1. CASE ~seg.read
    BY <2>1, EmptySeq DEF ReadBack
  <2>2. CASE seg.read
    <3>1. seg.count \in Nat /\ seg.skip \in Nat /\ d.ptr \in Nat /\ d.regs \in [Byte -> Byte]
      BY <1>1, RegistersStayRegisters DEF IsSegment
    <3>2. \A k \in 1 .. seg.count : d.regs[(d.ptr + seg.skip + k - 1) % RegCount] \in Byte
      <4> TAKE k \in 1 .. seg.count
      <4>1. (d.ptr + seg.skip + k - 1) % RegCount \in Byte
        BY <3>1, RemainderIsByte
      <4> QED
        BY <3>1, <4>1
    <3>3. ReadBack(bank, seg) = [k \in 1 .. seg.count |-> d.regs[(d.ptr + seg.skip + k - 1) % RegCount]]
      BY <2>2 DEF ReadBack
    <3> DEFINE f == [k \in 1 .. seg.count |-> d.regs[(d.ptr + seg.skip + k - 1) % RegCount]]
    <3>4. f \in [1 .. seg.count -> Byte]
      BY <3>2
    <3> HIDE DEF f
    <3>5. f \in Seq(Byte)
      BY <3>1, <3>4
    <3> QED
      BY <3>3, <3>5 DEF f
  <2> QED
    BY <2>1, <2>2
<1> QED
  BY <1>3, <1>4, <1>5, <1>6 DEF p, regs

(* A device at work: what it holds and has brought, the others of the bank *)
(* as they were.                                                           *)
On(v, a, regs, ptr, rx, bank) ==
  /\ ~v.nack /\ v.at = a /\ v.rx = rx
  /\ v.devices[a].regs = regs /\ v.devices[a].ptr = ptr
  /\ \A x \in DOMAIN bank : x # a => v.devices[x].regs = bank[x].regs /\ v.devices[x].ptr = bank[x].ptr

Same(devices, bank) == \A a \in DOMAIN bank : devices[a].regs = bank[a].regs /\ devices[a].ptr = bank[a].ptr

(* A driver that sees a nack writes no more of the transaction.            *)
Runs(v, cmd) == IF v.nack THEN v ELSE Act(v, cmd)

LEMMA StartsOn ==
  ASSUME NEW b \in Benches, b.kind = "i2c", NEW v \in Views(b), NEW bank \in Banks(b), ~v.nack,
         Same(v.devices, bank), NEW cmd, cmd.op = "START", cmd.read \in BOOLEAN, cmd.addr \in DOMAIN b.peers
  PROVE  /\ On(Runs(v, cmd), cmd.addr, bank[cmd.addr].regs, bank[cmd.addr].ptr, v.rx, bank)
         /\ Runs(v, cmd).devices[cmd.addr].expect_ptr = ~cmd.read
<1> DEFINE a == cmd.addr
           d == v.devices[a]
           e == Started(d, cmd.read)
           u == [v.devices EXCEPT ![a] = e]
<1>1. /\ v.devices \in Banks(b) /\ DOMAIN v.devices = DOMAIN b.peers /\ DOMAIN bank = DOMAIN b.peers
      /\ d \in RegFile /\ a \in DOMAIN b.peers
  BY DEF Views, Banks
<1>2. e.regs = d.regs /\ e.ptr = d.ptr /\ e.expect_ptr = ~cmd.read
  BY <1>1 DEF Started, RegFile
<1>3. Runs(v, cmd) = Observed(v.rx, v.nack, u, a)
  BY <1>1 DEF Runs, Act, StartIn
<1> HIDE DEF e
<1>4. u[a] = e /\ \A x \in DOMAIN b.peers : x # a => u[x] = v.devices[x]
  BY <1>1
<1> HIDE DEF u
<1>5. /\ Runs(v, cmd).devices = u /\ Runs(v, cmd).rx = v.rx /\ Runs(v, cmd).nack = v.nack
      /\ Runs(v, cmd).at = a
  BY <1>3 DEF Observed
<1> QED
  BY <1>1, <1>2, <1>4, <1>5 DEF On, Same

(* What a command leaves of the device that is addressed.                  *)
Worked(v, a, d, new) == Observed(new, v.nack, [v.devices EXCEPT ![a] = d], v.at)

LEMMA WorksOn ==
  ASSUME NEW b \in Benches, b.kind = "i2c", NEW v \in Views(b), NEW bank \in Banks(b),
         NEW a \in DOMAIN b.peers, NEW regs, NEW ptr, NEW rx, On(v, a, regs, ptr, rx, bank),
         NEW d, NEW new
  PROVE  On(Worked(v, a, d, new), a, d.regs, d.ptr, new, bank) /\ Worked(v, a, d, new).devices[a] = d
<1> DEFINE u == [v.devices EXCEPT ![a] = d]
           w == Worked(v, a, d, new)
<1>1. v.devices \in Banks(b) /\ DOMAIN v.devices = DOMAIN b.peers /\ DOMAIN bank = DOMAIN b.peers
  BY DEF Views, Banks
<1>2. u[a] = d /\ \A x \in DOMAIN b.peers : x # a => u[x] = v.devices[x]
  BY <1>1
<1> HIDE DEF u
<1>3. w.devices = u /\ w.rx = new /\ w.nack = v.nack /\ w.at = v.at
  BY DEF Worked, Observed, u
<1> HIDE DEF w
<1>4. On(w, a, d.regs, d.ptr, new, bank) /\ w.devices[a] = d
  BY <1>1, <1>2, <1>3 DEF On
<1> QED
  BY <1>4 DEF w

ReadFrom(regs, ptr, n) == [k \in 1 .. n |-> regs[(ptr + k - 1) % RegCount]]

LEMMA ReadsOn ==
  ASSUME NEW b \in Benches, b.kind = "i2c", NEW v \in Views(b), NEW bank \in Banks(b),
         NEW a \in DOMAIN b.peers, NEW regs, NEW ptr, NEW rx, On(v, a, regs, ptr, rx, bank),
         NEW cmd, cmd.op \in {"RX", "DISCARD"}, cmd.count \in Nat
  PROVE  On(Runs(v, cmd), a, regs, (ptr + cmd.count) % RegCount,
            IF cmd.op = "RX" THEN rx \o ReadFrom(regs, ptr, cmd.count) ELSE rx, bank)
<1> DEFINE d   == v.devices[a]
           e   == FetchedFrom(d, cmd.count)
           new == IF cmd.op = "RX" THEN rx \o Fetched(d, cmd.count) ELSE rx
<1>1. d \in RegFile /\ a # NoDevice /\ v.at = a /\ ~v.nack /\ v.rx = rx /\ d.regs = regs /\ d.ptr = ptr
  BY BenchIsTyped DEF On, Views, Banks
<1>2. e.regs = regs /\ e.ptr = (ptr + cmd.count) % RegCount
  BY <1>1 DEF FetchedFrom, RegFile
<1>3. Fetched(d, cmd.count) = ReadFrom(regs, ptr, cmd.count)
  BY <1>1 DEF Fetched, ReadFrom
<1>4. Runs(v, cmd) = Worked(v, a, e, new)
  BY <1>1 DEF Runs, Act, ReceiveIn, Worked
<1> HIDE DEF e
<1>5. On(Runs(v, cmd), a, e.regs, e.ptr, new, bank)
  <2> HIDE DEF new
  <2> QED
    BY <1>4, WorksOn
<1> QED
  BY <1>2, <1>3, <1>5

LEMMA TransmitsOn ==
  ASSUME NEW b \in Benches, b.kind = "i2c", NEW v \in Views(b), NEW bank \in Banks(b),
         NEW a \in DOMAIN b.peers, NEW regs, NEW ptr, NEW rx, On(v, a, regs, ptr, rx, bank),
         NEW cmd, cmd.op = "TX"
  PROVE  LET w == Runs(v, cmd)
         IN  /\ w.devices[a].expect_ptr = FALSE
             /\ v.devices[a].expect_ptr => On(w, a, regs, cmd.byte, rx, bank)
             /\ ~v.devices[a].expect_ptr =>
                  On(w, a, [regs EXCEPT ![ptr] = cmd.byte], (ptr + 1) % RegCount, rx, bank)
<1> DEFINE d == v.devices[a]
           e == Stored(d, cmd.byte)
<1>1. /\ d \in RegFile /\ a # NoDevice /\ v.at = a /\ ~v.nack /\ v.rx = rx /\ d.regs = regs /\ d.ptr = ptr
      /\ d.expect_ptr \in BOOLEAN
  BY BenchIsTyped DEF On, Views, Banks, RegFile
<1>2. d.expect_ptr => e.regs = regs /\ e.ptr = cmd.byte /\ e.expect_ptr = FALSE
  BY <1>1 DEF Stored, RegFile
<1>3. ~d.expect_ptr =>
        e.regs = [regs EXCEPT ![ptr] = cmd.byte] /\ e.ptr = (ptr + 1) % RegCount /\ e.expect_ptr = FALSE
  <2> SUFFICES ASSUME ~d.expect_ptr
               PROVE  /\ e.regs = [regs EXCEPT ![ptr] = cmd.byte] /\ e.ptr = (ptr + 1) % RegCount
                      /\ e.expect_ptr = FALSE
    OBVIOUS
  <2> DEFINE f == [d EXCEPT !.regs = [d.regs EXCEPT ![d.ptr] = cmd.byte], !.ptr = Stepped(d.ptr)]
  <2>1. e = [d EXCEPT !.regs[d.ptr] = cmd.byte, !.ptr = Stepped(@)]
    BY DEF Stored
  <2>2. [d EXCEPT !.regs[d.ptr] = cmd.byte, !.ptr = Stepped(@)] = f
    OBVIOUS
  <2>3. f.regs = [d.regs EXCEPT ![d.ptr] = cmd.byte] /\ f.ptr = Stepped(d.ptr) /\ f.expect_ptr = d.expect_ptr
    BY <1>1 DEF RegFile
  <2> QED
    BY <1>1, <2>1, <2>2, <2>3 DEF Stepped
<1>4. Runs(v, cmd) = Worked(v, a, e, rx)
  BY <1>1 DEF Runs, Act, TransmitIn, Worked
<1> HIDE DEF e
<1>5. On(Runs(v, cmd), a, e.regs, e.ptr, rx, bank) /\ Runs(v, cmd).devices[a] = e
  BY <1>4, WorksOn
<1> QED
  BY <1>1, <1>2, <1>3, <1>5

(* The views of a segment, write by write.                                 *)
SegmentRun(b, s, seg) ==
  /\ s \in [0 .. SegmentLength(seg) -> Views(b)]
  /\ \A i \in 1 .. SegmentLength(seg) : s[i] = Runs(s[i - 1], SegmentWrite(seg, i))

LEMMA SegmentStarts ==
  ASSUME NEW b \in Benches, b.kind = "i2c", NEW bank \in Banks(b), NEW seg, IsSegment(seg),
         seg.addr \in DOMAIN b.peers, NEW s, SegmentRun(b, s, seg), ~s[0].nack, Same(s[0].devices, bank)
  PROVE  /\ On(s[1], seg.addr, bank[seg.addr].regs, bank[seg.addr].ptr, s[0].rx, bank)
         /\ s[1].devices[seg.addr].expect_ptr = ~seg.read
<1>1. SegmentLength(seg) \in Nat \ {0}
  BY SegmentIsWrites
<1>2. 1 \in 1 .. SegmentLength(seg) /\ 0 \in 0 .. SegmentLength(seg) /\ 1 - 1 = 0
  BY <1>1
<1>3. s[1] = Runs(s[0], SegmentWrite(seg, 1)) /\ s[0] \in Views(b)
  BY <1>2 DEF SegmentRun
<1> DEFINE cmd == SegmentWrite(seg, 1)
<1>4. cmd.op = "START" /\ cmd.addr = seg.addr /\ cmd.read = seg.read /\ seg.read \in BOOLEAN
  BY DEF SegmentWrite, IsSegment
<1> HIDE DEF cmd
<1>5. /\ On(Runs(s[0], cmd), cmd.addr, bank[cmd.addr].regs, bank[cmd.addr].ptr, s[0].rx, bank)
      /\ Runs(s[0], cmd).devices[cmd.addr].expect_ptr = ~cmd.read
  BY <1>3, <1>4, StartsOn
<1> QED
  BY <1>3, <1>4, <1>5 DEF cmd

LEMMA ReadSegment ==
  ASSUME NEW b \in Benches, b.kind = "i2c", NEW bank \in Banks(b), NEW seg, IsSegment(seg), seg.read,
         seg.addr \in DOMAIN b.peers, NEW s, SegmentRun(b, s, seg), ~s[0].nack, Same(s[0].devices, bank)
  PROVE  On(s[SegmentLength(seg)], seg.addr, Refilled(bank[seg.addr], seg),
            (First(bank[seg.addr], seg) + Moved(seg)) % RegCount, s[0].rx \o ReadBack(bank, seg), bank)
<1> DEFINE a    == seg.addr
           d    == bank[a]
           regs == d.regs
           ptr  == d.ptr
           rx   == s[0].rx
           L    == SegmentLength(seg)
           n    == seg.count
           m    == seg.skip
<1>1. /\ d \in RegFile /\ ptr \in Nat /\ regs \in [Byte -> Byte] /\ n \in Nat /\ m \in Nat
      /\ RegCount \in Nat \ {0}
  BY RegistersStayRegisters, WiringAssumption DEF Banks, IsSegment
<1>2. On(s[1], a, regs, ptr, rx, bank)
  BY SegmentStarts
<1>3. First(d, seg) = ptr /\ Moved(seg) = m + n
  BY DEF First, Moved
<1>4. Refilled(d, seg) = regs
  <2>1. \A r \in DOMAIN regs : StoresIn(d, seg, r) = {}
    BY DEF StoresIn
  <2>2. Refilled(d, seg) = [r \in DOMAIN regs |-> regs[r]]
    BY <2>1 DEF Refilled
  <2> QED
    BY <1>1, <2>2
<1>5. ReadBack(bank, seg) = [k \in 1 .. n |-> regs[(ptr + m + k - 1) % RegCount]]
  BY DEF ReadBack
<1>6. CASE m = 0
  <2>1. L = 2 /\ SegmentWrite(seg, 2) = [op |-> "RX", count |-> n]
    BY <1>6 DEF SegmentLength, SegmentWrite
  <2>2. s[1] \in Views(b) /\ s[2] = Runs(s[1], [op |-> "RX", count |-> n])
    <3>1. 1 \in 0 .. 2 /\ 2 \in 1 .. 2 /\ 2 - 1 = 1
      OBVIOUS
    <3> QED
      BY <2>1, <3>1 DEF SegmentRun
  <2>3. On(s[2], a, regs, (ptr + n) % RegCount, rx \o ReadFrom(regs, ptr, n), bank)
    <3> DEFINE cmd == [op |-> "RX", count |-> n]
    <3>1. cmd.op = "RX" /\ cmd.count = n
      OBVIOUS
    <3> HIDE DEF cmd
    <3>2. cmd.op \in {"RX", "DISCARD"} /\ cmd.count \in Nat
      BY <1>1, <3>1
    <3>3. On(Runs(s[1], cmd), a, regs, (ptr + cmd.count) % RegCount,
             IF cmd.op = "RX" THEN rx \o ReadFrom(regs, ptr, cmd.count) ELSE rx, bank)
      BY <1>2, <2>2, <3>2, ReadsOn
    <3> QED
      BY <2>2, <3>1, <3>3 DEF cmd
  <2>4. ptr + n = ptr + (m + n) /\ \A k \in 1 .. n : ptr + m + k - 1 = ptr + k - 1
    BY <1>1, <1>6
  <2>5. ReadBack(bank, seg) = ReadFrom(regs, ptr, n)
    BY <1>5, <2>4 DEF ReadFrom
  <2> QED
    BY <1>3, <1>4, <2>1, <2>3, <2>4, <2>5
<1>7. CASE m # 0
  <2>1. /\ L = 3 /\ SegmentWrite(seg, 3) = [op |-> "RX", count |-> n]
        /\ SegmentWrite(seg, 2) = [op |-> "DISCARD", count |-> m]
    BY <1>7 DEF SegmentLength, SegmentWrite
  <2>2. /\ s[1] \in Views(b) /\ s[2] = Runs(s[1], [op |-> "DISCARD", count |-> m])
        /\ s[2] \in Views(b) /\ s[3] = Runs(s[2], [op |-> "RX", count |-> n])
    <3>1. 1 \in 0 .. 3 /\ 2 \in 0 .. 3 /\ 2 \in 1 .. 3 /\ 3 \in 1 .. 3 /\ 2 - 1 = 1 /\ 3 - 1 = 2
      OBVIOUS
    <3> QED
      BY <2>1, <3>1 DEF SegmentRun
  <2> DEFINE p == (ptr + m) % RegCount
  <2>3. On(s[2], a, regs, p, rx, bank)
    <3> DEFINE cmd == [op |-> "DISCARD", count |-> m]
    <3>1. cmd.op = "DISCARD" /\ cmd.count = m
      OBVIOUS
    <3> HIDE DEF cmd
    <3>2. cmd.op \in {"RX", "DISCARD"} /\ cmd.count \in Nat
      BY <1>1, <3>1
    <3>3. On(Runs(s[1], cmd), a, regs, (ptr + cmd.count) % RegCount,
             IF cmd.op = "RX" THEN rx \o ReadFrom(regs, ptr, cmd.count) ELSE rx, bank)
      BY <1>2, <2>2, <3>2, ReadsOn
    <3> QED
      BY <2>2, <3>1, <3>3 DEF cmd
  <2>4. p \in Nat
    <3>1. ptr + m \in Nat
      BY <1>1
    <3> QED
      BY <1>1, <3>1, RemainderIsSmall
  <2> HIDE DEF p
  <2>5. On(s[3], a, regs, (p + n) % RegCount, rx \o ReadFrom(regs, p, n), bank)
    <3> DEFINE cmd == [op |-> "RX", count |-> n]
    <3>1. cmd.op = "RX" /\ cmd.count = n
      OBVIOUS
    <3> HIDE DEF cmd
    <3>2. cmd.op \in {"RX", "DISCARD"} /\ cmd.count \in Nat
      BY <1>1, <3>1
    <3>3. On(Runs(s[2], cmd), a, regs, (p + cmd.count) % RegCount,
             IF cmd.op = "RX" THEN rx \o ReadFrom(regs, p, cmd.count) ELSE rx, bank)
      BY <2>2, <2>3, <3>2, ReadsOn
    <3> QED
      BY <2>2, <3>1, <3>3 DEF cmd
  <2>6. \A k \in Nat : (p + k) % RegCount = (ptr + m + k) % RegCount
    <3> TAKE k \in Nat
    <3>1. ptr + m \in Nat
      BY <1>1
    <3> QED
      BY <1>1, <3>1, RemaindersOfSums DEF p
  <2>7. (p + n) % RegCount = (ptr + (m + n)) % RegCount
    <3>1. ptr + m + n = ptr + (m + n)
      BY <1>1
    <3> QED
      BY <1>1, <2>6, <3>1
  <2>8. \A k \in 1 .. n : (p + k - 1) % RegCount = (ptr + m + k - 1) % RegCount
    <3> TAKE k \in 1 .. n
    <3>1. k - 1 \in Nat /\ p + k - 1 = p + (k - 1) /\ ptr + m + k - 1 = ptr + m + (k - 1)
      BY <1>1, <2>4
    <3> QED
      BY <2>6, <3>1
  <2>9. ReadBack(bank, seg) = ReadFrom(regs, p, n)
    BY <1>5, <2>8 DEF ReadFrom
  <2> QED
    BY <1>3, <1>4, <2>1, <2>5, <2>7, <2>9
<1> QED
  BY <1>6, <1>7

(* The registers after i bytes stored from f on, those of a write that     *)
(* follow its first byte.                                                  *)
Into(f, i, r) == {k \in 1 .. i : (f + k - 1) % RegCount = r}

Partly(regs, bytes, f, i) ==
  [r \in DOMAIN regs |-> IF Into(f, i, r) = {} THEN regs[r] ELSE bytes[Max(Into(f, i, r)) + 1]]

Put(regs, r, byte) == [regs EXCEPT ![r] = byte]

LEMMA PartlyOfNone ==
  ASSUME NEW regs \in [Byte -> Byte], NEW bytes, NEW f
  PROVE  Partly(regs, bytes, f, 0) = regs
<1>1. \A x : Into(f, 0, x) = {}
  BY DEF Into
<1>2. Partly(regs, bytes, f, 0) = [x \in DOMAIN regs |-> regs[x]]
  BY <1>1 DEF Partly
<1> QED
  BY <1>2

LEMMA PartlyGrows ==
  ASSUME NEW regs, NEW bytes, NEW f \in Nat, NEW i \in Nat \ {0},
         NEW h, h = i - 1, NEW q, q = (f + h) % RegCount, NEW byte, byte = bytes[i + 1]
  PROVE  Partly(regs, bytes, f, i) = Put(Partly(regs, bytes, f, h), q, byte)
<1> DEFINE p   == (f + (i - 1)) % RegCount
           old == Partly(regs, bytes, f, i - 1)
           new == Partly(regs, bytes, f, i)
<1>3. f + i - 1 = f + (i - 1) /\ i - 1 \in Nat
  OBVIOUS
<1>4. Into(f, i, p) = Into(f, i - 1, p) \union {(i - 1) + 1}
  <2>1. (i - 1) + 1 = i /\ i \in 1 .. i /\ \A k : k \in 1 .. i <=> k \in 1 .. i - 1 \/ k = i
    OBVIOUS
  <2>2. (f + i - 1) % RegCount = p
    BY <1>3
  <2> HIDE DEF p
  <2>3. \A k : k \in Into(f, i, p) <=> k \in Into(f, i - 1, p) \/ k = i
    BY <2>1, <2>2 DEF Into
  <2> QED
    BY <2>1, <2>3
<1>5. \A x : x # p => Into(f, i, x) = Into(f, i - 1, x)
  <2> TAKE x
  <2> SUFFICES ASSUME x # p PROVE Into(f, i, x) = Into(f, i - 1, x)
    OBVIOUS
  <2>1. \A k : k \in 1 .. i <=> k \in 1 .. i - 1 \/ k = i
    OBVIOUS
  <2>2. (f + i - 1) % RegCount # x
    BY <1>3
  <2>3. \A k : k \in Into(f, i, x) <=> k \in Into(f, i - 1, x)
    BY <2>1, <2>2 DEF Into
  <2> QED
    BY <2>3
<1>6. Into(f, i, p) # {} /\ Max(Into(f, i, p)) = i
  <2>1. Into(f, i - 1, p) \in SUBSET (1 .. (i - 1))
    BY DEF Into
  <2>2. Max(Into(f, i - 1, p) \union {(i - 1) + 1}) = (i - 1) + 1
    <3> HIDE DEF p
    <3> QED
      BY <1>3, <2>1, GreatestAdded
  <2>3. (i - 1) + 1 = i
    OBVIOUS
  <2> QED
    BY <1>4, <2>2, <2>3
<1>7. /\ DOMAIN old = DOMAIN regs /\ DOMAIN new = DOMAIN regs /\ new = [x \in DOMAIN regs |-> new[x]]
      /\ old = [x \in DOMAIN regs |-> old[x]]
  BY DEF Partly
<1>8. \A x \in DOMAIN regs : new[x] = IF x = p THEN bytes[i + 1] ELSE old[x]
  <2> TAKE x \in DOMAIN regs
  <2>1. /\ new[x] = IF Into(f, i, x) = {} THEN regs[x] ELSE bytes[Max(Into(f, i, x)) + 1]
        /\ old[x] = IF Into(f, i - 1, x) = {} THEN regs[x] ELSE bytes[Max(Into(f, i - 1, x)) + 1]
    BY DEF Partly
  <2> HIDE DEF old, new, p
  <2>2. CASE x = p
    BY <1>6, <2>1, <2>2
  <2>3. CASE x # p
    BY <1>5, <2>1, <2>3
  <2> QED
    BY <2>2, <2>3
<1> HIDE DEF old, new, p
<1>9. new = [old EXCEPT ![p] = bytes[i + 1]]
  BY <1>7, <1>8
<1> QED
  BY <1>9 DEF Put, old, new, p

LEMMA WriteSegment ==
  ASSUME NEW b \in Benches, b.kind = "i2c", NEW bank \in Banks(b), NEW seg, IsSegment(seg), ~seg.read,
         seg.addr \in DOMAIN b.peers, NEW s, SegmentRun(b, s, seg), ~s[0].nack, Same(s[0].devices, bank)
  PROVE  On(s[SegmentLength(seg)], seg.addr, Refilled(bank[seg.addr], seg),
            (First(bank[seg.addr], seg) + Moved(seg)) % RegCount, s[0].rx \o ReadBack(bank, seg), bank)
<1> DEFINE a     == seg.addr
           d     == bank[a]
           regs  == d.regs
           bytes == seg.bytes
           rx    == s[0].rx
           n     == Len(seg.bytes)
<1>1. /\ d \in RegFile /\ d.ptr \in Nat /\ d.ptr \in Byte /\ regs \in [Byte -> Byte] /\ bytes \in Seq(Byte)
      /\ n \in Nat /\ RegCount \in Nat \ {0}
  BY RegistersStayRegisters, WiringAssumption, LenProperties DEF Banks, IsSegment
<1>2. On(s[1], a, regs, d.ptr, rx, bank) /\ s[1].devices[a].expect_ptr = TRUE
  BY SegmentStarts
<1>3. SegmentLength(seg) = 1 + n
  BY DEF SegmentLength
<1>4. rx \o ReadBack(bank, seg) = rx
  <2>1. 0 \in 0 .. SegmentLength(seg)
    BY <1>1, <1>3
  <2>2. rx \in Seq(Byte) /\ ReadBack(bank, seg) = <<>>
    BY <2>1 DEF SegmentRun, Views, ReadBack
  <2> QED
    BY <2>2, ConcatEmptySeq
<1>5. Refilled(d, seg) = Partly(regs, bytes, First(d, seg), Moved(seg))
  <2>1. \A r : StoresIn(d, seg, r) = Into(First(d, seg), Moved(seg), r)
    BY DEF StoresIn, Into
  <2> QED
    BY <2>1 DEF Refilled, Partly
<1>6. CASE bytes = <<>>
  <2>1. n = 0 /\ First(d, seg) = d.ptr /\ Moved(seg) = 0
    BY <1>1, <1>6, FirstAndMoved DEF First
  <2>2. (First(d, seg) + Moved(seg)) % RegCount = d.ptr
    <3> DEFINE q == d.ptr
    <3>1. q \in Byte /\ q \in Nat /\ First(d, seg) = q
      BY <1>1, <2>1
    <3> HIDE DEF q
    <3>2. q + 0 = q /\ q < RegCount
      BY <3>1, WiringAssumption DEF Byte
    <3>3. q % RegCount = q
      BY <1>1, <3>1, <3>2, ModulusOfSmall
    <3> QED
      BY <2>1, <3>1, <3>2, <3>3 DEF q
  <2>3. Refilled(d, seg) = regs
    <3> HIDE DEF regs, bytes
    <3>2. Partly(regs, bytes, d.ptr, 0) = regs
      BY <1>1, PartlyOfNone
    <3> QED
      BY <1>5, <2>1, <3>2
  <2>4. SegmentLength(seg) = 1
    BY <1>3, <2>1
  <2> QED
    BY <1>2, <1>4, <2>2, <2>3, <2>4
<1>7. CASE bytes # <<>>
  <2> DEFINE f == bytes[1]
             m == n - 1
  <2>1. n \in Nat \ {0} /\ m \in Nat /\ SegmentLength(seg) = m + 2
    <3>1. n # 0
      BY <1>1, <1>7, EmptySeq
    <3> QED
      BY <1>1, <1>3, <3>1
  <2>2. First(d, seg) = f /\ Moved(seg) = m
    BY <1>1, <1>7, FirstAndMoved DEF First
  <2>3. f \in Byte /\ f \in Nat /\ f < RegCount
    <3>1. 1 \in 1 .. n
      BY <2>1
    <3> HIDE DEF n
    <3>2. f \in Byte
      BY <1>1, <3>1, ElementOfSeq DEF n
    <3> HIDE DEF f
    <3> QED
      BY <1>1, <3>2 DEF Byte
  <2>4. \A i \in 0 .. m :
          /\ s[i + 1] \in Views(b) /\ s[i + 2] = Runs(s[i + 1], [op |-> "TX", byte |-> bytes[i + 1]])
    <3> TAKE i \in 0 .. m
    <3>1. /\ i + 1 \in 0 .. m + 2 /\ i + 2 \in 1 .. m + 2 /\ i + 2 - 1 = i + 1 /\ i + 2 # 1
          /\ (i + 2) - 1 = i + 1
      BY <2>1
    <3>2. SegmentWrite(seg, i + 2) = [op |-> "TX", byte |-> bytes[i + 1]]
      BY <3>1 DEF SegmentWrite
    <3> HIDE DEF m, bytes
    <3> QED
      BY <2>1, <3>1, <3>2 DEF SegmentRun
  <2> DEFINE Wrote(i) == /\ On(s[i + 2], a, Partly(regs, bytes, f, i), (f + i) % RegCount, rx, bank)
                      /\ s[i + 2].devices[a].expect_ptr = FALSE
             S == {i \in 0 .. m : Wrote(i)}
  <2>5. 0 \in S
    <3> DEFINE cmd == [op |-> "TX", byte |-> f]
    <3>1. cmd.op = "TX" /\ cmd.byte = f
      OBVIOUS
    <3>2. 0 \in 0 .. m /\ 0 + 1 = 1 /\ 0 + 2 = 2
      BY <2>1
    <3>3. s[1] \in Views(b) /\ s[2] = Runs(s[1], cmd)
      BY <2>4, <3>2
    <3> HIDE DEF cmd, regs, rx, f, a
    <3>4. On(Runs(s[1], cmd), a, regs, cmd.byte, rx, bank) /\ Runs(s[1], cmd).devices[a].expect_ptr = FALSE
      <4>1. a \in DOMAIN b.peers
        BY DEF a
      <4> QED
        BY <1>2, <3>1, <3>3, <4>1, TransmitsOn
    <3>5. (f + 0) % RegCount = f
      <4>1. f + 0 = f
        BY <2>3
      <4> QED
        BY <1>1, <2>3, <4>1, ModulusOfSmall
    <3>6. Partly(regs, bytes, f, 0) = regs
      <4> HIDE DEF bytes
      <4> QED
        BY <1>1, PartlyOfNone
    <3> QED
      BY <3>1, <3>2, <3>3, <3>4, <3>5, <3>6
  <2>6. ASSUME NEW i \in 1 .. m, i - 1 \in S PROVE i \in S
    <3> DEFINE cmd == [op |-> "TX", byte |-> bytes[i + 1]]
               old == Partly(regs, bytes, f, i - 1)
               p   == (f + (i - 1)) % RegCount
    <3>1. cmd.op = "TX" /\ cmd.byte = bytes[i + 1]
      OBVIOUS
    <3>2. i \in 0 .. m /\ (i - 1) + 2 = i + 1 /\ i \in Nat \ {0} /\ i - 1 \in Nat
      BY <2>1
    <3>3. s[i + 1] \in Views(b) /\ s[i + 2] = Runs(s[i + 1], cmd)
      BY <2>4, <3>2
    <3>4. On(s[i + 1], a, old, p, rx, bank) /\ s[i + 1].devices[a].expect_ptr = FALSE
      BY <2>6, <3>2
    <3>5. Put(old, p, bytes[i + 1]) = Partly(regs, bytes, f, i)
      <4> HIDE DEF regs, bytes, f
      <4>1. i \in Nat \ {0} /\ f \in Nat
        BY <1>1, <2>3, <3>2
      <4> DEFINE h == i - 1
                 byte == bytes[i + 1]
      <4>2. p = (f + h) % RegCount
        OBVIOUS
      <4>3. h = i - 1 /\ byte = bytes[i + 1]
        OBVIOUS
      <4> HIDE DEF h, byte, p
      <4>4. Partly(regs, bytes, f, i) = Put(Partly(regs, bytes, f, h), p, byte)
        BY <4>1, <4>2, <4>3, PartlyGrows
      <4> QED
        BY <4>4 DEF h, byte
    <3>6. (p + 1) % RegCount = (f + i) % RegCount
      <4> HIDE DEF f
      <4>1. f + (i - 1) \in Nat /\ f + (i - 1) + 1 = f + i /\ 1 \in Nat
        BY <2>3, <3>2
      <4>2. (((f + (i - 1)) % RegCount) + 1) % RegCount = (f + (i - 1) + 1) % RegCount
        BY <1>1, <4>1, RemaindersOfSums
      <4> QED
        BY <4>1, <4>2
    <3> HIDE DEF cmd, old, p, regs, rx, f, a
    <3>7. /\ On(Runs(s[i + 1], cmd), a, [old EXCEPT ![p] = cmd.byte], (p + 1) % RegCount, rx, bank)
          /\ Runs(s[i + 1], cmd).devices[a].expect_ptr = FALSE
      <4>1. a \in DOMAIN b.peers
        BY DEF a
      <4> QED
        BY <3>1, <3>3, <3>4, <4>1, TransmitsOn
    <3> QED
      BY <3>1, <3>2, <3>3, <3>5, <3>6, <3>7 DEF Put
  <2>7. m \in S
    <3>1. m \in 0 .. m
      BY <2>1
    <3> HIDE DEF S, m
    <3>2. \A i \in 0 .. m : i \in S
      BY <2>1, <2>5, <2>6, UpToTheBound
    <3> QED
      BY <3>1, <3>2
  <2> HIDE DEF m
  <2>8. Wrote(m)
    BY <2>7
  <2> QED
    BY <1>4, <1>5, <2>1, <2>2, <2>8
<1> QED
  BY <1>6, <1>7

LEMMA SegmentRuns ==
  ASSUME NEW b \in Benches, b.kind = "i2c", NEW bank \in Banks(b), NEW seg, IsSegment(seg),
         seg.addr \in DOMAIN b.peers, NEW s, SegmentRun(b, s, seg), ~s[0].nack, Same(s[0].devices, bank)
  PROVE  LET last == s[SegmentLength(seg)]
         IN  ~last.nack /\ last.rx = s[0].rx \o ReadBack(bank, seg) /\ Same(last.devices, After(bank, seg))
<1> DEFINE a    == seg.addr
           d    == bank[a]
           last == s[SegmentLength(seg)]
           regs == Refilled(d, seg)
           ptr  == (First(d, seg) + Moved(seg)) % RegCount
           rx   == s[0].rx \o ReadBack(bank, seg)
           next == After(bank, seg)
<1>1. On(last, a, regs, ptr, rx, bank)
  BY ReadSegment, WriteSegment
<1>2. /\ next \in Banks(b) /\ next[a].ptr = ptr /\ next[a].regs = regs
      /\ \A x \in DOMAIN b.peers : x # a => next[x] = bank[x]
  BY AfterIsTyped
<1>3. DOMAIN next = DOMAIN b.peers /\ DOMAIN bank = DOMAIN b.peers
  BY <1>2 DEF Banks
<1> HIDE DEF last, regs, ptr, rx, next
<1>4. Same(last.devices, next)
  BY <1>1, <1>2, <1>3 DEF On, Same
<1> QED
  BY <1>1, <1>4 DEF On, last, rx, next

(* A driver is lost only when no device answers.                           *)
Calm(b) == {v \in Views(b) : v.nack => v.at = NoDevice}

RunOf(b, r, s) ==
  /\ r \in [0 .. Len(s) -> Calm(b)]
  /\ \A i \in 1 .. Len(s) : r[i] = Runs(r[i - 1], s[i])

LEMMA RunsStayCalm ==
  ASSUME NEW b \in Benches, b.kind = "i2c", NEW v \in Calm(b), NEW cmd \in Commands
  PROVE  Runs(v, cmd) \in Calm(b)
<1>1. v \in Views(b) /\ (v.nack => v.at = NoDevice)
  BY DEF Calm
<1>2. CASE v.nack
  BY <1>2 DEF Runs
<1>3. CASE ~v.nack
  <2>1. Runs(v, cmd) = Act(v, cmd) /\ Act(v, cmd) \in Views(b)
    BY <1>1, <1>3, ActIsTyped DEF Runs
  <2>2. Act(v, cmd).nack => Act(v, cmd).at = NoDevice
    <3>1. CASE cmd.op = "START"
      <4>1. CASE cmd.addr \in DOMAIN v.devices
        BY <1>3, <3>1, <4>1 DEF Act, StartIn, Observed
      <4>2. CASE cmd.addr \notin DOMAIN v.devices
        BY <3>1, <4>2 DEF Act, StartIn, Observed
      <4> QED
        BY <4>1, <4>2
    <3>2. CASE cmd.op = "TX"
      <4>1. CASE v.at = NoDevice
        BY <3>2, <4>1 DEF Act, TransmitIn, Observed
      <4>2. CASE v.at # NoDevice
        BY <1>3, <3>2, <4>2 DEF Act, TransmitIn, Observed
      <4> QED
        BY <4>1, <4>2
    <3>3. CASE cmd.op \in {"RX", "DISCARD"}
      <4>1. CASE v.at = NoDevice
        BY <1>3, <3>3, <4>1 DEF Act, ReceiveIn
      <4>2. CASE v.at # NoDevice
        BY <1>3, <3>3, <4>2 DEF Act, ReceiveIn, Observed
      <4> QED
        BY <4>1, <4>2
    <3>4. CASE cmd.op = "STOP"
      BY <3>4 DEF Act, Observed
    <3> QED
      BY <3>1, <3>2, <3>3, <3>4, CommandsAreTyped
  <2> QED
    BY <2>1, <2>2 DEF Calm
<1> QED
  BY <1>2, <1>3

LEMMA RunExists ==
  ASSUME NEW b \in Benches, b.kind = "i2c", NEW v \in Calm(b), NEW s \in Seq(Commands)
  PROVE  \E r : RunOf(b, r, s) /\ r[0] = v
<1> DEFINE n    == Len(s)
           S    == Calm(b)
           step == [i \in 1 .. n |-> [u \in S |-> Runs(u, s[i])]]
<1>1. n \in Nat /\ \A i \in 1 .. n : s[i] \in Commands
  BY LenProperties, ElementOfSeq
<1>2. step \in [1 .. n -> [S -> S]]
  <2>1. \A i \in 1 .. n, u \in S : Runs(u, s[i]) \in S
    BY <1>1, RunsStayCalm
  <2> HIDE DEF n, S
  <2> QED
    BY <2>1
<1>3. PICK r : r \in [0 .. n -> S] /\ r[0] = v /\ \A i \in 1 .. n : r[i] = step[i][r[i - 1]]
  <2> HIDE DEF step, n, S
  <2>1. \E r : IsChain(r, n, S, v, step)
    <3>1. v \in S
      BY DEF S
    <3> QED
      BY <1>1, <1>2, <3>1, ChainExists
  <2> QED
    BY <2>1 DEF IsChain
<1>4. \A i \in 1 .. n : r[i] = Runs(r[i - 1], s[i])
  <2> TAKE i \in 1 .. n
  <2>1. i - 1 \in 0 .. n
    BY <1>1
  <2> HIDE DEF S, n
  <2> QED
    BY <1>3, <2>1
<1> QED
  BY <1>3, <1>4 DEF RunOf

(* Nothing happens after a nack.                                           *)
LEMMA NackLasts ==
  ASSUME NEW b, NEW s, Len(s) \in Nat, NEW r, RunOf(b, r, s), NEW i \in 0 .. Len(s), r[i].nack
  PROVE  \A k \in i .. Len(s) : r[k] = r[i]
<1> DEFINE n == Len(s)
           S == {m \in 0 .. n - i : r[i + m] = r[i]}
<1>1. 0 \in S /\ n - i \in Nat
  OBVIOUS
<1>2. ASSUME NEW m \in 1 .. n - i, m - 1 \in S PROVE m \in S
  <2>1. i + (m - 1) = (i + m) - 1 /\ i + m \in 1 .. n /\ m \in 0 .. n - i
    OBVIOUS
  <2>2. r[i + m] = Runs(r[(i + m) - 1], s[i + m]) /\ r[(i + m) - 1] = r[i]
    <3>1. r[i + (m - 1)] = r[i]
      BY <1>2
    <3> QED
      BY <2>1, <3>1 DEF RunOf
  <2> QED
    BY <2>1, <2>2 DEF Runs
<1>3. \A m \in 0 .. n - i : m \in S
  <2> DEFINE d == n - i
  <2> HIDE DEF S, d
  <2> QED
    BY <1>1, <1>2, UpToTheBound DEF d
<1> TAKE k \in i .. Len(s)
<1>4. k - i \in 0 .. n - i /\ i + (k - i) = k
  OBVIOUS
<1>5. r[i + (k - i)] = r[i]
  BY <1>3, <1>4
<1> QED
  BY <1>4, <1>5

(* The segments that are reached have their device.                        *)
LEMMA ReachedSegments ==
  ASSUME NEW b \in Benches, b.kind = "i2c", NEW bank \in Banks(b), NEW j \in JobsOf["i2c"]
  PROVE  LET n == Reached(bank, j)
         IN  /\ n \in 0 .. Len(j) /\ \A k \in 1 .. n : j[k].addr \in DOMAIN b.peers
             /\ n # Len(j) => n + 1 \in 1 .. Len(j) /\ j[n + 1].addr \notin DOMAIN b.peers
<1> DEFINE A == Absent(bank, j)
           n == Reached(bank, j)
<1>1. Len(j) \in Nat \ {0} /\ DOMAIN j = 1 .. Len(j) /\ DOMAIN bank = DOMAIN b.peers
  BY SegmentsAreCommands DEF Banks
<1>2. A \in SUBSET (1 .. Len(j)) /\ \A k \in 1 .. Len(j) : k \notin A => j[k].addr \in DOMAIN b.peers
  BY <1>1 DEF Absent
<1>3. CASE A = {}
  <2>1. n = Len(j)
    BY <1>3 DEF Reached
  <2> HIDE DEF n, A
  <2> QED
    BY <1>1, <1>2, <1>3, <2>1 DEF n
<1>4. CASE A # {}
  <2> DEFINE m == Min(A)
  <2>1. n = m - 1
    BY <1>4 DEF Reached
  <2>2. A \in SUBSET Nat
    BY <1>2
  <2>3. m \in A /\ \A k \in A : m <= k
    <3>1. PICK x \in A : \A y \in A : x <= y
      <4> HIDE DEF A
      <4> QED
        BY <1>4, <2>2, LeastNumber
    <3> HIDE DEF A
    <3> QED
      BY <3>1 DEF Min
  <2>4. m \in 1 .. Len(j) /\ j[m].addr \notin DOMAIN b.peers
    BY <1>1, <1>2, <2>3 DEF Absent
  <2> HIDE DEF n, m, A
  <2>5. n \in 0 .. Len(j) /\ n + 1 = m /\ \A k \in 1 .. n : k \in 1 .. Len(j) /\ ~(m <= k)
    BY <1>1, <2>1, <2>4
  <2> QED
    BY <1>2, <2>3, <2>4, <2>5 DEF n
<1> QED
  BY <1>3, <1>4

(* The plan of a transaction, segment by segment.                          *)
Plans(b) == [answer : Seq(Byte), peers : Banks(b)]

PlanSteps(after, b, bank, j) ==
  LET n == Reached(bank, j)
  IN  /\ after \in [0 .. n -> Plans(b)] /\ after[0].answer = <<>> /\ after[0].peers = bank
      /\ \A k \in 1 .. n : after[k] = Extended(after[k - 1], j[k])

LEMMA PlanIsSteps ==
  ASSUME NEW b \in Benches, b.kind = "i2c", NEW bank \in Banks(b), NEW j \in JobsOf["i2c"]
  PROVE  LET n == Reached(bank, j)
         IN  \E after : /\ PlanSteps(after, b, bank, j)
                        /\ I2cPlan(bank, j).peers = after[n].peers
                        /\ I2cPlan(bank, j).answer = IF n = Len(j) THEN after[n].answer ELSE Nack
<1> DEFINE n     == Reached(bank, j)
           S     == Plans(b)
           first == [answer |-> <<>>, peers |-> bank]
           step  == [k \in 1 .. n |-> [p \in S |-> Extended(p, j[k])]]
           Solves(f) == f = [k \in 0 .. n |-> IF k = 0 THEN first ELSE Extended(f[k - 1], j[k])]
<1>1. /\ n \in Nat /\ n \in 0 .. Len(j) /\ \A k \in 1 .. n : IsSegment(j[k]) /\ j[k].addr \in DOMAIN b.peers
  <2>1. n \in 0 .. Len(j) /\ \A k \in 1 .. n : j[k].addr \in DOMAIN b.peers
    BY ReachedSegments
  <2> HIDE DEF n
  <2>2. Len(j) \in Nat /\ \A k \in 1 .. Len(j) : IsSegment(j[k])
    BY SegmentsAreCommands
  <2> QED
    BY <2>1, <2>2
<1>2. first \in S /\ first.answer = <<>> /\ first.peers = bank
  BY EmptySeq DEF Plans
<1>3. \A k \in 1 .. n, p \in S : Extended(p, j[k]) \in S
  <2> TAKE k \in 1 .. n, p \in S
  <2> HIDE DEF n
  <2>1. p.answer \in Seq(Byte) /\ p.peers \in Banks(b)
    BY DEF Plans
  <2>2. After(p.peers, j[k]) \in Banks(b) /\ ReadBack(p.peers, j[k]) \in Seq(Byte)
    BY <1>1, <2>1, AfterIsTyped
  <2>3. p.answer \o ReadBack(p.peers, j[k]) \in Seq(Byte)
    BY <2>1, <2>2, ConcatProperties
  <2> QED
    BY <2>2, <2>3 DEF Extended, Plans
<1> HIDE DEF n, S, first
<1>4. step \in [1 .. n -> [S -> S]]
  BY <1>3
<1>5. PICK g : g \in [0 .. n -> S] /\ g[0] = first /\ \A k \in 1 .. n : g[k] = step[k][g[k - 1]]
  <2> HIDE DEF step
  <2>1. \E g : IsChain(g, n, S, first, step)
    BY <1>1, <1>2, <1>4, ChainExists
  <2> QED
    BY <2>1 DEF IsChain
<1>6. \A k \in 1 .. n : g[k] = Extended(g[k - 1], j[k])
  <2> TAKE k \in 1 .. n
  <2>1. k - 1 \in 0 .. n
    BY <1>1
  <2> QED
    BY <1>5, <2>1
<1>7. Solves(g)
  <2>1. g = [k \in 0 .. n |-> g[k]]
    BY <1>5
  <2>2. \A k \in 0 .. n : g[k] = IF k = 0 THEN first ELSE Extended(g[k - 1], j[k])
    <3> TAKE k \in 0 .. n
    <3>1. k = 0 \/ k \in 1 .. n
      BY <1>1
    <3> QED
      BY <1>5, <1>6, <3>1
  <2> QED
    BY <2>1, <2>2
<1>8. PICK f : /\ Solves(f)
               /\ I2cPlan(bank, j) = IF n = Len(j) THEN f[n] ELSE [f[n] EXCEPT !.answer = Nack]
  <2>1. LET c == CHOOSE f : Solves(f)
        IN  I2cPlan(bank, j) = IF n = Len(j) THEN c[n] ELSE [c[n] EXCEPT !.answer = Nack]
    BY DEF I2cPlan, n, first
  <2> HIDE DEF Solves
  <2> QED
    BY <1>7, <2>1
<1>9. \A k \in 0 .. n : f[k] = IF k = 0 THEN first ELSE Extended(f[k - 1], j[k])
  BY <1>8
<1>10. \A k \in 0 .. n : f[k] \in S
  <2> DEFINE Typed == {k \in 0 .. n : f[k] \in S}
  <2>1. 0 \in Typed
    BY <1>1, <1>2, <1>9
  <2>2. ASSUME NEW k \in 1 .. n, k - 1 \in Typed PROVE k \in Typed
    <3>1. f[k - 1] \in S /\ k \in 0 .. n /\ k # 0
      BY <1>1, <2>2
    <3> QED
      BY <1>3, <1>9, <3>1
  <2> HIDE DEF Typed
  <2>3. \A k \in 0 .. n : k \in Typed
    BY <1>1, <2>1, <2>2, UpToTheBound
  <2> QED
    BY <2>3 DEF Typed
<1>11. PlanSteps(f, b, bank, j)
  <2>1. f \in [0 .. n -> S]
    <3>1. f = [k \in 0 .. n |-> f[k]]
      BY <1>8
    <3> HIDE DEF Solves
    <3> QED
      BY <1>10, <3>1
  <2>2. f[0] = first
    BY <1>1, <1>9
  <2>3. \A k \in 1 .. n : f[k] = Extended(f[k - 1], j[k])
    <3> TAKE k \in 1 .. n
    <3>1. k \in 0 .. n /\ k # 0
      BY <1>1
    <3> HIDE DEF Solves
    <3> QED
      BY <1>9, <3>1
  <2> HIDE DEF Solves
  <2> QED
    BY <1>2, <2>1, <2>2, <2>3 DEF PlanSteps, S, n
<1>12. f[n] \in Plans(b)
  BY <1>1, <1>10 DEF S
<1>13. /\ I2cPlan(bank, j).peers = f[n].peers
       /\ I2cPlan(bank, j).answer = IF n = Len(j) THEN f[n].answer ELSE Nack
  <2> HIDE DEF Solves
  <2> QED
    BY <1>8, <1>12 DEF Plans
<1> HIDE DEF Solves
<1> QED
  BY <1>11, <1>13 DEF n

(* Where the writes of a segment are among those of the transaction.       *)
LEMMA FlatPositions ==
  ASSUME NEW j \in JobsOf["i2c"], NEW g, Flat(g, j)
  PROVE  \A k \in 0 .. Len(j) : \A q \in 1 .. k :
           /\ Len(g[q]) = Len(g[q - 1]) + SegmentLength(j[q])
           /\ Len(g[q]) <= Len(g[k])
           /\ \A i \in 1 .. SegmentLength(j[q]) : g[k][Len(g[q - 1]) + i] = SegmentWrite(j[q], i)
<1> DEFINE n == Len(j)
           Placed(k) == \A q \in 1 .. k :
             /\ Len(g[q]) = Len(g[q - 1]) + SegmentLength(j[q])
             /\ Len(g[q]) <= Len(g[k])
             /\ \A i \in 1 .. SegmentLength(j[q]) : g[k][Len(g[q - 1]) + i] = SegmentWrite(j[q], i)
           S == {k \in 0 .. n : Placed(k)}
<1>1. n \in Nat /\ \A k \in 0 .. n : g[k] \in Seq(Commands) /\ Len(g[k]) \in Nat
  BY SegmentsAreCommands, LenProperties DEF Flat
<1>2. 0 \in S
  BY <1>1
<1>3. ASSUME NEW k \in 1 .. n, k - 1 \in S PROVE k \in S
  <2> DEFINE w == SegmentWrites(j[k])
             L == SegmentLength(j[k])
             s == g[k - 1]
             t == g[k]
  <2>1. /\ k \in 0 .. n /\ k - 1 \in 0 .. n /\ s \in Seq(Commands) /\ Len(s) \in Nat /\ t = s \o w
        /\ \A q \in 1 .. k : q \in 1 .. k - 1 \/ q = k
    <3>1. k \in 0 .. n /\ k - 1 \in 0 .. n /\ \A q \in 1 .. k : q \in 1 .. k - 1 \/ q = k
      BY <1>1
    <3>2. t = s \o w
      BY DEF Flat
    <3> HIDE DEF t, w
    <3> QED
      BY <1>1, <3>1, <3>2
  <2>2. w \in Seq(Commands) /\ L \in Nat /\ Len(w) = L /\ \A i \in 1 .. L : w[i] = SegmentWrite(j[k], i)
    <3>1. IsSegment(j[k]) /\ w \in Seq(Commands)
      BY SegmentsAreCommands
    <3>2. L \in Nat \ {0} /\ w = [i \in 1 .. L |-> SegmentWrite(j[k], i)]
      BY <3>1, SegmentIsWrites
    <3> HIDE DEF w, L
    <3> QED
      BY <3>1, <3>2
  <2> HIDE DEF w, L, s, t
  <2>3. /\ Len(t) = Len(s) + L
        /\ \A i \in 1 .. Len(s) + L : t[i] = IF i <= Len(s) THEN s[i] ELSE w[i - Len(s)]
    <3>1. \A x, y \in Seq(Commands) :
            /\ Len(x \o y) = Len(x) + Len(y)
            /\ \A i \in 1 .. Len(x) + Len(y) : (x \o y)[i] = IF i <= Len(x) THEN x[i] ELSE y[i - Len(x)]
      BY ConcatProperties
    <3>2. /\ Len(s \o w) = Len(s) + Len(w)
          /\ \A i \in 1 .. Len(s) + Len(w) : (s \o w)[i] = IF i <= Len(s) THEN s[i] ELSE w[i - Len(s)]
      BY <2>1, <2>2, <3>1, Zenon
    <3> QED
      BY <2>1, <2>2, <3>2
  <2>4. \A i \in 1 .. L : t[Len(s) + i] = SegmentWrite(j[k], i)
    <3> TAKE i \in 1 .. L
    <3>1. Len(s) + i \in 1 .. Len(s) + L /\ ~(Len(s) + i <= Len(s)) /\ Len(s) + i - Len(s) = i
      BY <2>1, <2>2
    <3>2. t[Len(s) + i] = w[i]
      BY <2>3, <3>1
    <3> QED
      BY <2>2, <3>2
  <2>5. ASSUME NEW q \in 1 .. k - 1
        PROVE  /\ Len(g[q]) = Len(g[q - 1]) + SegmentLength(j[q]) /\ Len(g[q]) <= Len(t)
               /\ \A i \in 1 .. SegmentLength(j[q]) : t[Len(g[q - 1]) + i] = SegmentWrite(j[q], i)
    <3>1. /\ Len(g[q]) = Len(g[q - 1]) + SegmentLength(j[q]) /\ Len(g[q]) <= Len(s)
          /\ \A i \in 1 .. SegmentLength(j[q]) : s[Len(g[q - 1]) + i] = SegmentWrite(j[q], i)
      BY <1>3 DEF s
    <3>2. q \in 0 .. n /\ q - 1 \in 0 .. n /\ q \in 1 .. n
      BY <1>1
    <3>3. Len(g[q]) \in Nat /\ Len(g[q - 1]) \in Nat /\ SegmentLength(j[q]) \in Nat
      BY <1>1, <3>2, SegmentsAreCommands, SegmentIsWrites
    <3>4. ASSUME NEW i \in 1 .. SegmentLength(j[q])
          PROVE  t[Len(g[q - 1]) + i] = SegmentWrite(j[q], i)
      <4>1. Len(g[q - 1]) + i \in 1 .. Len(s) + L /\ Len(g[q - 1]) + i <= Len(s)
        <5> DEFINE x == Len(g[q - 1])
                   y == Len(g[q])
                   l == SegmentLength(j[q])
                   m == Len(s)
        <5>1. x \in Nat /\ y = x + l /\ y <= m /\ m \in Nat /\ L \in Nat /\ l \in Nat /\ i \in 1 .. l
          BY <2>1, <2>2, <3>1, <3>3
        <5> HIDE DEF x, y, l, m
        <5>2. x + i \in 1 .. m + L /\ x + i <= m
          BY <5>1
        <5> QED
          BY <5>2 DEF x, m
      <4>2. t[Len(g[q - 1]) + i] = s[Len(g[q - 1]) + i]
        BY <2>3, <4>1
      <4> QED
        BY <3>1, <4>2
    <3>5. Len(s) <= Len(t)
      BY <2>1, <2>2, <2>3
    <3>6. Len(g[q]) <= Len(t)
      BY <2>1, <2>2, <2>3, <3>1, <3>3, <3>5
    <3> QED
      BY <3>1, <3>4, <3>6
  <2>6. /\ Len(t) = Len(g[k - 1]) + L /\ Len(t) <= Len(t)
        /\ \A i \in 1 .. L : t[Len(g[k - 1]) + i] = SegmentWrite(j[k], i)
    BY <2>1, <2>2, <2>3, <2>4 DEF s
  <2>7. Placed(k)
    <3> TAKE q \in 1 .. k
    <3>1. CASE q = k
      BY <2>6, <3>1 DEF t, L
    <3>2. CASE q \in 1 .. k - 1
      BY <2>5, <3>2 DEF t
    <3> QED
      BY <2>1, <3>1, <3>2
  <2> QED
    BY <2>1, <2>7
<1> HIDE DEF S
<1>4. \A k \in 0 .. n : k \in S
  BY <1>1, <1>2, <1>3, UpToTheBound
<1> QED
  BY <1>4 DEF S

LEMMA WritesAreSegments ==
  ASSUME bench.kind = "i2c", NEW j \in JobsOf["i2c"]
  PROVE  \E g : /\ Flat(g, j) /\ Len(g[Len(j)]) \in Nat
                /\ Writes(j) \in Seq(Commands) /\ Len(Writes(j)) = Len(g[Len(j)]) + 1
                /\ \A i \in 1 .. Len(g[Len(j)]) : Writes(j)[i] = g[Len(j)][i]
                /\ Writes(j)[Len(g[Len(j)]) + 1] = Ending
<1> DEFINE n == Len(j)
<1>1. PICK g : Flat(g, j) /\ FlattenSeq([k \in DOMAIN j |-> SegmentWrites(j[k])]) = g[n]
  BY FlatExists
<1> DEFINE s == g[n]
           e == <<Ending>>
<1>2. Writes(j) = s \o e
  BY <1>1 DEF Writes, Ending
<1>3. s \in Seq(Commands)
  <2>1. n \in Nat /\ n \in 0 .. n
    BY SegmentsAreCommands
  <2> HIDE DEF n
  <2> QED
    BY <1>1, <2>1 DEF Flat, n
<1>4. e \in Seq(Commands) /\ Len(e) = 1 /\ e[1] = Ending
  BY EndingIsCommand
<1> HIDE DEF s, e
<1>5. /\ Len(s) \in Nat /\ s \o e \in Seq(Commands) /\ Len(s \o e) = Len(s) + Len(e)
      /\ \A i \in 1 .. Len(s) + Len(e) : (s \o e)[i] = IF i <= Len(s) THEN s[i] ELSE e[i - Len(s)]
  <2>1. \A x, y \in Seq(Commands) :
          /\ Len(x) \in Nat /\ x \o y \in Seq(Commands) /\ Len(x \o y) = Len(x) + Len(y)
          /\ \A i \in 1 .. Len(x) + Len(y) : (x \o y)[i] = IF i <= Len(x) THEN x[i] ELSE y[i - Len(x)]
    BY ConcatProperties, LenProperties
  <2> QED
    BY <1>3, <1>4, <2>1, Zenon
<1>6. /\ Len(s) \in Nat /\ Writes(j) \in Seq(Commands) /\ Len(Writes(j)) = Len(s) + 1
      /\ \A i \in 1 .. Len(s) : Writes(j)[i] = s[i]
      /\ Writes(j)[Len(s) + 1] = Ending
  BY <1>2, <1>4, <1>5
<1> QED
  BY <1>1, <1>6 DEF s

(* A list of commands that are the writes of a transaction.                *)
AreWrites(s, g, j) ==
  /\ Flat(g, j) /\ Len(g[Len(j)]) \in Nat /\ Len(s) = Len(g[Len(j)]) + 1
  /\ \A i \in 1 .. Len(g[Len(j)]) : s[i] = g[Len(j)][i]
  /\ s[Len(g[Len(j)]) + 1] = Ending

LEMMA PlaceOfSegment ==
  ASSUME NEW j \in JobsOf["i2c"], NEW g, NEW s, AreWrites(s, g, j), NEW k \in 1 .. Len(j)
  PROVE  /\ Len(g[k - 1]) \in Nat /\ SegmentLength(j[k]) \in Nat \ {0} /\ Len(g[0]) = 0
         /\ Len(g[k]) = Len(g[k - 1]) + SegmentLength(j[k]) /\ Len(g[k]) < Len(s) /\ Len(s) \in Nat
         /\ \A i \in 1 .. SegmentLength(j[k]) : s[Len(g[k - 1]) + i] = SegmentWrite(j[k], i)
<1> DEFINE n == Len(j)
           L == SegmentLength(j[k])
           m == Len(g[k - 1])
           t == Len(g[n])
<1>1. n \in Nat /\ k - 1 \in 0 .. n /\ n \in 0 .. n /\ 0 \in 0 .. n
  BY SegmentsAreCommands
<1>2. m \in Nat /\ g[0] = <<>> /\ t \in Nat /\ Len(s) = t + 1
  <2>1. \A q \in 0 .. n : Len(g[q]) \in Nat
    BY LenProperties DEF AreWrites, Flat
  <2> HIDE DEF n
  <2> QED
    BY <1>1, <2>1 DEF AreWrites, Flat, n
<1>3. L \in Nat \ {0}
  BY SegmentsAreCommands, SegmentIsWrites
<1>4. /\ Len(g[k]) = m + L /\ Len(g[k]) <= t
      /\ \A i \in 1 .. L : g[n][m + i] = SegmentWrite(j[k], i)
  <2> HIDE DEF n, m, L
  <2>1. Flat(g, j)
    BY DEF AreWrites
  <2> QED
    BY <1>1, <2>1, FlatPositions DEF n, m, L, t
<1>5. \A i \in 1 .. t : s[i] = g[n][i]
  BY DEF AreWrites
<1> HIDE DEF n, m, L, t
<1>6. \A i \in 1 .. L : s[m + i] = SegmentWrite(j[k], i)
  <2> TAKE i \in 1 .. L
  <2>1. m + i \in 1 .. t
    BY <1>2, <1>3, <1>4
  <2> QED
    BY <1>4, <1>5, <2>1
<1>7. Len(g[k]) < Len(s) /\ Len(s) \in Nat
  BY <1>2, <1>3, <1>4
<1>8. Len(g[0]) = 0
  BY <1>2
<1> QED
  BY <1>2, <1>3, <1>4, <1>6, <1>7, <1>8 DEF m, L

LEMMA SegmentOfRun ==
  ASSUME NEW b \in Benches, b.kind = "i2c", NEW j \in JobsOf["i2c"], NEW g, NEW s, AreWrites(s, g, j),
         NEW r, RunOf(b, r, s), NEW k \in 1 .. Len(j)
  PROVE  SegmentRun(b, [i \in 0 .. SegmentLength(j[k]) |-> r[Len(g[k - 1]) + i]], j[k])
<1> DEFINE L == SegmentLength(j[k])
           m == Len(g[k - 1])
           u == [i \in 0 .. L |-> r[m + i]]
<1>1. /\ m \in Nat /\ L \in Nat \ {0} /\ m + L < Len(s) /\ Len(s) \in Nat
      /\ \A i \in 1 .. L : s[m + i] = SegmentWrite(j[k], i)
  BY PlaceOfSegment
<1> HIDE DEF L, m
<1>2. \A i \in 0 .. L : m + i \in 0 .. Len(s)
  BY <1>1
<1>3. \A i \in 0 .. Len(s) : r[i] \in Views(b)
  BY DEF RunOf, Calm
<1>4. u \in [0 .. L -> Views(b)]
  BY <1>2, <1>3
<1>5. ASSUME NEW i \in 1 .. L PROVE u[i] = Runs(u[i - 1], SegmentWrite(j[k], i))
  <2>1. i \in 0 .. L /\ i - 1 \in 0 .. L /\ m + i \in 1 .. Len(s) /\ (m + i) - 1 = m + (i - 1)
    BY <1>1
  <2>2. u[i] = r[m + i] /\ u[i - 1] = r[m + (i - 1)]
    BY <2>1
  <2>3. r[m + i] = Runs(r[(m + i) - 1], s[m + i])
    <3> DEFINE h == m + i
    <3>1. h \in 1 .. Len(s)
      BY <2>1
    <3> HIDE DEF h
    <3>2. r[h] = Runs(r[h - 1], s[h])
      BY <3>1 DEF RunOf
    <3> QED
      BY <3>2 DEF h
  <2> QED
    BY <1>1, <2>1, <2>2, <2>3
<1> QED
  BY <1>4, <1>5 DEF SegmentRun, L, m

(* A run of the writes follows the plan, segment by segment.               *)
LEMMA RunFollowsPlan ==
  ASSUME NEW b \in Benches, b.kind = "i2c", NEW j \in JobsOf["i2c"], NEW g, NEW s, AreWrites(s, g, j),
         NEW r, RunOf(b, r, s), ~r[0].nack, r[0].rx = <<>>,
         NEW after, PlanSteps(after, b, r[0].devices, j),
         NEW n, n = Reached(r[0].devices, j)
  PROVE  \A k \in 0 .. n : LET v == r[Len(g[k])]
                           IN  ~v.nack /\ v.rx = after[k].answer /\ Same(v.devices, after[k].peers)
<1> DEFINE Follows(k) == /\ ~r[Len(g[k])].nack /\ r[Len(g[k])].rx = after[k].answer
                         /\ Same(r[Len(g[k])].devices, after[k].peers)
           S == {k \in 0 .. n : Follows(k)}
<1>1. /\ Len(j) \in Nat \ {0} /\ Len(s) \in Nat /\ 0 \in 0 .. Len(s) /\ 1 \in 1 .. Len(j)
  BY SegmentsAreCommands DEF AreWrites
<1>2. r[0] \in Views(b) /\ r[0].devices \in Banks(b)
  BY <1>1 DEF RunOf, Calm, Views
<1>3. n \in 0 .. Len(j) /\ \A k \in 1 .. n : j[k].addr \in DOMAIN b.peers
  BY <1>2, ReachedSegments
<1>4. /\ \A k \in 0 .. n : after[k] \in Plans(b)
      /\ after[0].answer = <<>> /\ after[0].peers = r[0].devices
      /\ \A k \in 1 .. n : after[k] = Extended(after[k - 1], j[k])
  BY DEF PlanSteps
<1>5. 0 \in S
  <2>1. Len(g[0]) = 0
    BY <1>1, PlaceOfSegment
  <2>2. Same(r[0].devices, r[0].devices)
    BY DEF Same
  <2> QED
    BY <1>3, <1>4, <2>1, <2>2
<1>6. ASSUME NEW k \in 1 .. n, k - 1 \in S PROVE k \in S
  <2> DEFINE seg  == j[k]
             L    == SegmentLength(seg)
             m    == Len(g[k - 1])
             u    == [i \in 0 .. L |-> r[m + i]]
             bank == after[k - 1].peers
  <2>1. k \in 1 .. Len(j) /\ k \in 0 .. n /\ k - 1 \in 0 .. n
    BY <1>1, <1>3
  <2>2. /\ m \in Nat /\ L \in Nat \ {0} /\ Len(g[k]) = m + L /\ IsSegment(seg)
        /\ seg.addr \in DOMAIN b.peers /\ bank \in Banks(b)
    BY <1>3, <1>4, <2>1, PlaceOfSegment, SegmentsAreCommands DEF Plans
  <2>3. SegmentRun(b, u, seg)
    BY <2>1, SegmentOfRun
  <2>4. u[0] = r[m] /\ u[L] = r[Len(g[k])]
    <3>1. 0 \in 0 .. L /\ L \in 0 .. L /\ m + 0 = m
      BY <2>2
    <3> HIDE DEF L, m
    <3> QED
      BY <2>2, <3>1
  <2>5. ~r[m].nack /\ r[m].rx = after[k - 1].answer /\ Same(r[m].devices, bank)
    BY <1>6
  <2>6. after[k].answer = after[k - 1].answer \o ReadBack(bank, seg) /\ after[k].peers = After(bank, seg)
    <3> DEFINE a == after[k - 1].answer \o ReadBack(bank, seg)
               p == After(bank, seg)
    <3>1. after[k] = [answer |-> a, peers |-> p]
      BY <1>4 DEF Extended
    <3> HIDE DEF a, p
    <3>2. after[k].answer = a /\ after[k].peers = p
      BY <3>1
    <3> QED
      BY <3>2 DEF a, p
  <2> HIDE DEF u, m, bank, seg
  <2>7. ~u[L].nack /\ u[L].rx = u[0].rx \o ReadBack(bank, seg) /\ Same(u[L].devices, After(bank, seg))
    BY <2>2, <2>3, <2>4, <2>5, SegmentRuns
  <2> HIDE DEF L
  <2>8. Follows(k)
    BY <2>4, <2>5, <2>6, <2>7
  <2> QED
    BY <2>1, <2>8
<1> HIDE DEF S
<1>7. \A k \in 0 .. n : k \in S
  <2>1. n \in Nat
    BY <1>1, <1>3
  <2> QED
    BY <1>5, <1>6, <2>1, UpToTheBound
<1> QED
  BY <1>7 DEF S

(* What a run of commands brings and leaves, with nobody addressed anew    *)
(* after a nack of which the host has yet to tell.                         *)
RunAnswers(b, r, s, p) ==
  LET last == r[Len(s)]
  IN  /\ p.answer = IF last.nack THEN Nack ELSE last.rx
      /\ p.peers \in Banks(b) /\ Same(last.devices, p.peers)
      /\ b.external =>
           \A i \in 0 .. Len(s) : r[i].nack => \A k \in i + 1 .. Len(s) : s[k].op # "START"

LEMMA PlanWithoutNack ==
  ASSUME NEW b \in Benches, b.kind = "i2c", NEW s, Len(s) \in Nat \ {0}, s[Len(s)] = Ending,
         NEW r, RunOf(b, r, s), ~r[Len(s) - 1].nack,
         NEW p, p.answer = r[Len(s) - 1].rx, p.peers \in Banks(b), Same(r[Len(s) - 1].devices, p.peers)
  PROVE  RunAnswers(b, r, s, p)
<1> DEFINE n == Len(s)
           w == r[n - 1]
<1>1. n \in Nat /\ n \in 1 .. n /\ n \in 0 .. n
  OBVIOUS
<1>2. r[n] = Runs(w, Ending)
  BY <1>1 DEF RunOf
<1>3. ~w.nack
  OBVIOUS
<1>4. r[n] = Observed(w.rx, w.nack, w.devices, NoDevice)
  <2> HIDE DEF w
  <2>1. Runs(w, Ending) = Act(w, Ending)
    BY <1>3 DEF Runs
  <2> QED
    BY <1>2, <2>1 DEF Act, Ending
<1>5. r[n].nack = w.nack /\ r[n].rx = w.rx /\ r[n].devices = w.devices
  <2> HIDE DEF w
  <2> QED
    BY <1>4 DEF Observed
<1>6. \A i \in 0 .. n : ~r[i].nack
  <2> SUFFICES ASSUME NEW i \in 0 .. n, r[i].nack PROVE FALSE
    OBVIOUS
  <2>1. \A k \in i .. n : r[k] = r[i]
    <3> HIDE DEF w
    <3> QED
      BY <1>1, NackLasts
  <2>2. n \in i .. n
    BY <1>1
  <2> QED
    BY <1>3, <1>5, <2>1, <2>2
<1> QED
  BY <1>1, <1>3, <1>5, <1>6 DEF RunAnswers

LEMMA PlanWithNack ==
  ASSUME NEW b \in Benches, b.kind = "i2c", NEW j \in JobsOf["i2c"], NEW g, NEW s, AreWrites(s, g, j),
         NEW r, RunOf(b, r, s), NEW n \in 1 .. Len(j), j[n].addr \notin DOMAIN b.peers,
         ~r[Len(g[n - 1])].nack,
         NEW p, p.answer = Nack, p.peers \in Banks(b), Same(r[Len(g[n - 1])].devices, p.peers)
  PROVE  RunAnswers(b, r, s, p)
<1> DEFINE q   == Len(g[n - 1])
           L   == SegmentLength(j[n])
           w   == r[q]
           cmd == SegmentWrite(j[n], 1)
<1>1. /\ q \in Nat /\ L \in Nat \ {0} /\ Len(g[n]) = q + L /\ q + L < Len(s) /\ Len(s) \in Nat
      /\ \A i \in 1 .. L : s[q + i] = SegmentWrite(j[n], i)
  BY PlaceOfSegment
<1>2. w \in Views(b) /\ ~w.nack
  <2>1. q \in 0 .. Len(s)
    BY <1>1
  <2> QED
    BY <2>1 DEF RunOf, Calm
<1>3. cmd.op = "START" /\ cmd.addr = j[n].addr
  BY DEF SegmentWrite
<1>4. q + 1 \in 0 .. Len(s) /\ r[q + 1] = Runs(w, cmd)
  <2>1. q + 1 \in 1 .. Len(s) /\ q + 1 \in 0 .. Len(s) /\ (q + 1) - 1 = q /\ 1 \in 1 .. L
    BY <1>1
  <2>2. s[q + 1] = cmd
    BY <1>1, <2>1
  <2> HIDE DEF q, cmd
  <2>3. r[q + 1] = Runs(r[(q + 1) - 1], s[q + 1])
    BY <2>1 DEF RunOf
  <2> QED
    BY <2>1, <2>2, <2>3
<1> HIDE DEF cmd, w
<1>5. r[q + 1] = Observed(w.rx, TRUE, w.devices, NoDevice)
  <2>1. cmd.addr \notin DOMAIN w.devices
    BY <1>2, <1>3 DEF Views, Banks
  <2> QED
    BY <1>2, <1>3, <1>4, <2>1 DEF Runs, Act, StartIn
<1>6. r[q + 1].nack = TRUE /\ r[q + 1].devices = w.devices
  BY <1>5 DEF Observed
<1>7. r[Len(s)] = r[q + 1]
  <2>1. \A k \in q + 1 .. Len(s) : r[k] = r[q + 1]
    <3> DEFINE h == q + 1
    <3>1. h \in 0 .. Len(s) /\ r[h].nack
      BY <1>4, <1>6
    <3> HIDE DEF h
    <3>2. \A k \in h .. Len(s) : r[k] = r[h]
      BY <1>1, <3>1, NackLasts
    <3> QED
      BY <3>2 DEF h
  <2> QED
    BY <1>1, <2>1
<1>8. ASSUME b.external, NEW i \in 0 .. Len(s), r[i].nack, NEW k \in i + 1 .. Len(s)
      PROVE  s[k].op # "START"
  <2>1. n = Len(j)
    <3>1. Len(j) \in Nat /\ \A m \in 1 .. Len(j) - 1 : j[m].addr \in DOMAIN b.peers
      BY <1>8, SegmentsAreCommands, TransactionAssumption
    <3> QED
      BY <3>1
  <2>2. i > q
    <3> SUFFICES ASSUME i <= q PROVE FALSE
      BY <1>1
    <3>1. \A m \in i .. Len(s) : r[m] = r[i]
      BY <1>1, <1>8, NackLasts
    <3>2. q \in i .. Len(s)
      BY <1>1
    <3> QED
      BY <1>2, <1>8, <3>1, <3>2 DEF w
  <2>3. k \in q + 2 .. Len(s)
    BY <1>1, <2>2
  <2>4. Len(s) = q + L + 1 /\ s[Len(s)] = Ending
    BY <1>1, <2>1 DEF AreWrites
  <2>5. CASE k = Len(s)
    BY <2>4, <2>5 DEF Ending
  <2>6. CASE k # Len(s)
    <3> DEFINE h == k - q
    <3>1. h \in 1 .. L /\ h # 1 /\ q + h = k
      <4> HIDE DEF q, L
      <4> QED
        BY <1>1, <2>3, <2>4, <2>6
    <3> HIDE DEF h, q, L
    <3>2. s[k] = SegmentWrite(j[n], h)
      BY <1>1, <3>1
    <3> QED
      BY <3>1, <3>2 DEF SegmentWrite
  <2> QED
    BY <2>5, <2>6
<1> QED
  BY <1>6, <1>7, <1>8 DEF RunAnswers, w

LEMMA PlanIsRun ==
  ASSUME bench \in Benches, bench.kind = "i2c", NEW j \in JobsOf["i2c"],
         NEW v \in Views(bench), ~v.nack, v.rx = <<>>
  PROVE  \E r : /\ RunOf(bench, r, Writes(j)) /\ r[0] = v
                /\ RunAnswers(bench, r, Writes(j), I2cPlan(v.devices, j))
<1> DEFINE s == Writes(j)
           n == Reached(v.devices, j)
           p == I2cPlan(v.devices, j)
<1>1. PICK g : AreWrites(s, g, j) /\ s \in Seq(Commands)
  BY WritesAreSegments DEF AreWrites
<1>2. v \in Calm(bench) /\ v.devices \in Banks(bench)
  BY DEF Calm, Views
<1> HIDE DEF s, p
<1>3. PICK r : RunOf(bench, r, s) /\ r[0] = v
  BY <1>1, <1>2, RunExists
<1>4. PICK after : /\ PlanSteps(after, bench, v.devices, j) /\ p.peers = after[n].peers
                   /\ p.answer = IF n = Len(j) THEN after[n].answer ELSE Nack
  BY <1>2, PlanIsSteps DEF p
<1>5. /\ n \in 0 .. Len(j) /\ Len(j) \in Nat
      /\ n # Len(j) => n + 1 \in 1 .. Len(j) /\ j[n + 1].addr \notin DOMAIN bench.peers
  BY <1>2, ReachedSegments, SegmentsAreCommands
<1> DEFINE w == r[Len(g[n])]
<1>6. ~w.nack /\ w.rx = after[n].answer /\ Same(w.devices, after[n].peers)
  <2>1. \A k \in 0 .. n : LET u == r[Len(g[k])]
                          IN  ~u.nack /\ u.rx = after[k].answer /\ Same(u.devices, after[k].peers)
    BY <1>1, <1>3, <1>4, RunFollowsPlan
  <2>2. n \in 0 .. n
    BY <1>5
  <2> HIDE DEF n
  <2> QED
    BY <2>1, <2>2
<1>7. p.peers \in Banks(bench)
  <2>1. n \in 0 .. n
    BY <1>5
  <2>2. after[n] \in Plans(bench)
    BY <1>4, <2>1 DEF PlanSteps
  <2> HIDE DEF n
  <2> QED
    BY <1>4, <2>2 DEF Plans
<1>8. RunAnswers(bench, r, s, p)
  <2>1. CASE n = Len(j)
    <3> DEFINE t == Len(s) - 1
    <3>1. Len(s) \in Nat \ {0} /\ t = Len(g[n]) /\ s[Len(s)] = Ending
      BY <1>1, <2>1 DEF AreWrites
    <3> HIDE DEF n
    <3>2. ~r[t].nack /\ r[t].rx = p.answer /\ Same(r[t].devices, p.peers)
      BY <1>4, <1>6, <2>1, <3>1
    <3> QED
      BY <1>3, <1>7, <3>1, <3>2, PlanWithoutNack
  <2>2. CASE n # Len(j)
    <3> DEFINE m == n + 1
    <3>1. m \in 1 .. Len(j) /\ j[m].addr \notin DOMAIN bench.peers /\ m - 1 = n
      BY <1>5, <2>2
    <3> HIDE DEF n, m
    <3>2. ~r[Len(g[m - 1])].nack /\ p.answer = Nack /\ Same(r[Len(g[m - 1])].devices, p.peers)
      BY <1>4, <1>6, <2>2, <3>1
    <3> QED
      BY <1>1, <1>3, <1>7, <3>1, <3>2, PlanWithNack
  <2> QED
    BY <2>1, <2>2
<1> QED
  BY <1>3, <1>8 DEF s, p

(***************************************************************************)
(* What a driver of the LPI2C will see                                     *)
(***************************************************************************)
Lost(c) == "NDF" \in c.sticky

SeenOf(b, c, bank, at, list) ==
  IF b.external THEN ViewOf(Served(Wire(c, bank, at), list)) ELSE View(c, bank, c.active)

LEMMA WireIsTyped ==
  ASSUME NEW b, NEW c \in I2cCtl(b), NEW bank \in Banks(b), NEW at \in Addresses(b)
  PROVE  /\ Wire(c, bank, at) \in I2cWires(b)
         /\ ViewOf(Wire(c, bank, at)) = View(c, bank, at)
BY DEF Wire, I2cWires, ViewOf

LEMMA SeenOfIsTyped ==
  ASSUME NEW b \in Benches, b.kind = "i2c", NEW c \in I2cCtl(b), NEW bank \in Banks(b),
         NEW at \in Addresses(b), NEW list \in Seq(I2cEvents)
  PROVE  LET now == SeenOf(b, c, bank, at, list)
         IN  /\ now \in Views(b)
             /\ list = <<>> => now.rx = c.rx /\ now.nack = Lost(c) /\ now.devices = bank
<1> DEFINE w == Wire(c, bank, at)
<1>1. w \in I2cWires(b) /\ ViewOf(w) = View(c, bank, at)
  BY WireIsTyped
<1>2. View(c, bank, c.active) \in Views(b)
  BY DEF View, Observed, Views, I2cCtl
<1> HIDE DEF w
<1>3. ViewOf(Served(w, list)) \in Views(b) /\ Served(w, <<>>) = w
  BY <1>1, TraceOfI2c
<1>4. \A x : /\ View(c, bank, x).rx = c.rx /\ View(c, bank, x).nack = Lost(c)
             /\ View(c, bank, x).devices = bank
  BY DEF View, Observed, Lost
<1>5. CASE b.external
  <2>1. SeenOf(b, c, bank, at, list) = ViewOf(Served(w, list))
    BY <1>5 DEF SeenOf, w
  <2> QED
    BY <1>1, <1>3, <1>4, <2>1
<1>6. CASE ~b.external
  <2>1. SeenOf(b, c, bank, at, list) = View(c, bank, c.active)
    BY <1>6 DEF SeenOf
  <2> QED
    BY <1>2, <1>4, <2>1
<1> QED
  BY <1>5, <1>6

LEMMA QueuedNothing ==
  ASSUME NEW b, NEW v \in Views(b)
  PROVE  Queued(<<>>, v) = v
<1>1. v.rx \in Seq(Byte) /\ v = Observed(v.rx, v.nack, v.devices, v.at)
  BY DEF Views, Observed
<1>2. <<>> \o v.rx = v.rx
  BY <1>1, ConcatEmptySeq
<1> QED
  BY <1>1, <1>2 DEF Queued

(* Controllers of which the first has bytes that the second has not.       *)
Ahead(c, q, d) == c.rx = q \o d.rx /\ Lost(c) = Lost(d)

LEMMA TraceQueued ==
  ASSUME NEW b \in Benches, b.kind = "i2c", NEW c \in I2cCtl(b), NEW d \in I2cCtl(b),
         NEW bank \in Banks(b), NEW at \in Addresses(b), NEW list \in Seq(I2cEvents),
         NEW q \in Seq(Byte), Ahead(c, q, d)
  PROVE  ViewOf(Served(Wire(c, bank, at), list)) = Queued(q, ViewOf(Served(Wire(d, bank, at), list)))
<1> DEFINE w == Wire(c, bank, at)
           v == Wire(d, bank, at)
<1>1. /\ w \in I2cWires(b) /\ ViewOf(w) = View(c, bank, at)
      /\ v \in I2cWires(b) /\ ViewOf(v) = View(d, bank, at)
  BY WireIsTyped
<1>2. View(c, bank, at) = Queued(q, View(d, bank, at))
  BY QueuedBehind DEF View, Ahead, Lost
<1> HIDE DEF w, v
<1>3. ViewOf(w) = Queued(q, ViewOf(v))
  BY <1>1, <1>2
<1>4. ViewOf(Served(w, list)) = Queued(q, ViewOf(Served(v, list)))
  BY <1>1, <1>3, TraceBehind
<1> QED
  BY <1>4 DEF w, v

LEMMA TraceUnmoved ==
  ASSUME NEW b \in Benches, b.kind = "i2c", NEW c \in I2cCtl(b), NEW d \in I2cCtl(b),
         NEW bank \in Banks(b), NEW at \in Addresses(b), NEW list \in Seq(I2cEvents),
         c.rx = d.rx, Lost(c) = Lost(d)
  PROVE  ViewOf(Served(Wire(c, bank, at), list)) = ViewOf(Served(Wire(d, bank, at), list))
<1> DEFINE none == <<>>
           u    == ViewOf(Served(Wire(d, bank, at), list))
<1>1. none \in Seq(Byte) /\ Ahead(c, none, d)
  <2>1. d.rx \in Seq(Byte)
    BY DEF I2cCtl
  <2> QED
    BY <2>1, ConcatEmptySeq, EmptySeq DEF Ahead
<1>2. u \in Views(b)
  <2> DEFINE v == Wire(d, bank, at)
  <2>1. v \in I2cWires(b)
    BY WireIsTyped
  <2> HIDE DEF v
  <2> QED
    BY <2>1, TraceOfI2c DEF v
<1>3. Queued(none, u) = u
  <2> HIDE DEF u
  <2> QED
    BY <1>2, QueuedNothing
<1> HIDE DEF none
<1>4. ViewOf(Served(Wire(c, bank, at), list)) = Queued(none, u)
  BY <1>1, TraceQueued
<1> QED
  BY <1>3, <1>4

LEMMA SeenQueued ==
  ASSUME NEW b \in Benches, b.kind = "i2c", NEW c \in I2cCtl(b), NEW d \in I2cCtl(b),
         NEW bank \in Banks(b), NEW at \in Addresses(b), NEW list \in Seq(I2cEvents),
         NEW q \in Seq(Byte), Ahead(c, q, d), c.active = d.active
  PROVE  SeenOf(b, c, bank, at, list) = Queued(q, SeenOf(b, d, bank, at, list))
<1>1. View(c, bank, c.active) = Queued(q, View(d, bank, d.active))
  BY QueuedBehind DEF View, Ahead, Lost
<1>2. CASE b.external
  BY <1>2, TraceQueued DEF SeenOf
<1>3. CASE ~b.external
  BY <1>1, <1>3 DEF SeenOf
<1> QED
  BY <1>2, <1>3

(* A command of the driver's, at once or by way of the trace.              *)
LEMMA TraceActs ==
  ASSUME NEW b \in Benches, b.kind = "i2c", NEW c \in I2cCtl(b), NEW bank \in Banks(b),
         NEW at \in Addresses(b), NEW list \in Seq(I2cEvents), NEW cmd \in Commands
  PROVE  ViewOf(Served(Wire(External(c, cmd), bank, at), Append(list, [from |-> "i2c", cmd |-> cmd])))
           = Act(ViewOf(Served(Wire(c, bank, at), list)), cmd)
<1> DEFINE w     == Wire(c, bank, at)
           d     == External(c, cmd)
           event == [from |-> "i2c", cmd |-> cmd]
           more  == Append(list, event)
<1>1. d \in I2cCtl(b) /\ d.rx = c.rx /\ Lost(d) = Lost(c)
  BY ExternalIsTyped DEF Lost
<1>2. event \in I2cEvents /\ event.cmd = cmd
  BY DEF I2cEvents
<1> HIDE DEF d, event
<1>3. more \in Seq(I2cEvents)
  BY <1>2, AppendProperties
<1>4. w \in I2cWires(b)
  BY WireIsTyped
<1> HIDE DEF w
<1>5. ViewOf(Served(w, more)) = Act(ViewOf(Served(w, list)), cmd)
  BY <1>2, <1>4, TraceOfI2c
<1> HIDE DEF more
<1>6. ViewOf(Served(Wire(d, bank, at), more)) = ViewOf(Served(Wire(c, bank, at), more))
  BY <1>1, <1>3, TraceUnmoved
<1> QED
  BY <1>5, <1>6 DEF w, d, more, event

LEMMA SeenActs ==
  ASSUME NEW b \in Benches, b.kind = "i2c", NEW c \in I2cCtl(b), NEW bank \in Banks(b),
         NEW at \in Addresses(b), NEW list \in Seq(I2cEvents), NEW cmd \in Commands
  PROVE  LET d    == IF b.external THEN External(c, cmd) ELSE Local(c, bank, cmd).c
             left == IF b.external THEN bank ELSE Local(c, bank, cmd).bank
             more == IF b.external THEN Append(list, [from |-> "i2c", cmd |-> cmd]) ELSE list
         IN  SeenOf(b, d, left, at, more) = Act(SeenOf(b, c, bank, at, list), cmd)
<1>1. CASE b.external
  BY <1>1, TraceActs DEF SeenOf
<1>2. CASE ~b.external
  <2> DEFINE after == Local(c, bank, cmd)
  <2>1. View(after.c, after.bank, after.c.active) = Act(View(c, bank, c.active), cmd)
    BY LocalIsAct
  <2> HIDE DEF after
  <2> QED
    BY <1>2, <2>1 DEF SeenOf, after
<1> QED
  BY <1>1, <1>2

(* The host takes the trace.                                               *)
LEMMA SeenServed ==
  ASSUME NEW b \in Benches, b.kind = "i2c", b.external, NEW c \in I2cCtl(b), NEW bank \in Banks(b),
         NEW at \in Addresses(b), NEW list \in Seq(I2cEvents),
         NEW w, w = Served(Wire(c, bank, at), list)
  PROVE  SeenOf(b, w.c, w.devices, w.at, <<>>) = SeenOf(b, c, bank, at, list)
<1> DEFINE v == Wire(c, bank, at)
<1>1. v \in I2cWires(b)
  BY WireIsTyped
<1> HIDE DEF v
<1>2. w \in I2cWires(b)
  BY <1>1, TraceOfI2c DEF v
<1>3. Wire(w.c, w.devices, w.at) = w
  BY <1>2 DEF I2cWires, Wire
<1>4. Served(w, <<>>) = w
  <2>1. <<>> \in Seq(I2cEvents)
    BY EmptySeq
  <2> QED
    BY <1>2, <2>1, TraceOfI2c
<1>5. SeenOf(b, c, bank, at, list) = ViewOf(w)
  BY DEF SeenOf
<1>6. SeenOf(b, w.c, w.devices, w.at, <<>>) = ViewOf(Served(w, <<>>))
  BY <1>3 DEF SeenOf
<1> QED
  BY <1>4, <1>5, <1>6

(* What a command adds to what was received, and to what is lost.          *)
LEMMA ActIsDue ==
  ASSUME NEW b \in Benches, b.kind = "i2c", NEW v \in Views(b), NEW cmd \in Commands
  PROVE  /\ Dues(cmd) \in Nat /\ Len(Act(v, cmd).rx) <= Len(v.rx) + Dues(cmd)
         /\ v.nack /\ v.at = NoDevice /\ cmd.op # "START" => Act(v, cmd) = v
<1>1. /\ v.rx \in Seq(Byte) /\ Len(v.rx) \in Nat /\ v.nack \in BOOLEAN
      /\ v = Observed(v.rx, v.nack, v.devices, v.at)
  BY LenProperties DEF Views, Observed
<1>2. \/ cmd.op = "START" \/ cmd.op = "TX" \/ cmd.op = "STOP"
      \/ cmd.op \in {"RX", "DISCARD"} /\ cmd.count \in Nat
  BY CommandsAreTyped
<1>3. Dues(cmd) = IF cmd.op = "RX" THEN cmd.count ELSE 0
  BY <1>2 DEF Dues
<1>4. Act(v, cmd).rx = v.rx \/ (cmd.op = "RX" /\ v.at # NoDevice)
  <2> SUFFICES ASSUME ~(cmd.op = "RX" /\ v.at # NoDevice) PROVE Act(v, cmd).rx = v.rx
    OBVIOUS
  <2>1. CASE cmd.op = "START"
    BY <2>1 DEF Act, StartIn, Observed
  <2>2. CASE cmd.op = "TX"
    BY <2>2 DEF Act, TransmitIn, Observed
  <2>3. CASE cmd.op = "STOP"
    BY <2>3 DEF Act, Observed
  <2>4. CASE cmd.op = "DISCARD"
    BY <2>4 DEF Act, ReceiveIn, Observed
  <2>5. CASE cmd.op = "RX" /\ v.at = NoDevice
    BY <2>5 DEF Act, ReceiveIn
  <2> QED
    BY <1>2, <2>1, <2>2, <2>3, <2>4, <2>5
<1>5. ASSUME cmd.op = "RX", v.at # NoDevice PROVE Len(Act(v, cmd).rx) = Len(v.rx) + cmd.count
  <2> DEFINE d == v.devices[v.at]
             f == Fetched(d, cmd.count)
  <2>1. d \in RegFile /\ cmd.count \in Nat
    BY <1>2, <1>5 DEF Views, Addresses, Banks
  <2>2. f \in Seq(Byte) /\ Len(f) = cmd.count
    BY <2>1, RegistersStayRegisters
  <2> HIDE DEF f
  <2>3. Act(v, cmd).rx = v.rx \o f
    BY <1>5 DEF Act, ReceiveIn, Observed, f
  <2>4. \A x, y \in Seq(Byte) : Len(x \o y) = Len(x) + Len(y)
    BY ConcatProperties
  <2> QED
    BY <1>1, <2>2, <2>3, <2>4
<1>6. ASSUME v.nack, v.at = NoDevice, cmd.op # "START" PROVE Act(v, cmd) = v
  <2>1. CASE cmd.op = "TX"
    <3>1. Act(v, cmd) = Observed(v.rx, TRUE, v.devices, NoDevice)
      BY <1>6, <2>1 DEF Act, TransmitIn
    <3> QED
      BY <1>1, <1>6, <3>1
  <2>2. CASE cmd.op = "STOP"
    <3>1. Act(v, cmd) = Observed(v.rx, v.nack, v.devices, NoDevice)
      BY <2>2 DEF Act
    <3> QED
      BY <1>1, <1>6, <3>1
  <2>3. CASE cmd.op \in {"RX", "DISCARD"}
    BY <1>6, <2>3 DEF Act, ReceiveIn
  <2> QED
    BY <1>2, <1>6, <2>1, <2>2, <2>3
<1>7. Dues(cmd) \in Nat /\ Len(Act(v, cmd).rx) <= Len(v.rx) + Dues(cmd)
  <2>1. CASE cmd.op = "RX" /\ v.at # NoDevice
    <3>1. cmd.count \in Nat /\ Dues(cmd) = cmd.count
      BY <1>2, <1>3, <2>1
    <3> QED
      BY <1>1, <1>5, <2>1, <3>1
  <2>2. CASE ~(cmd.op = "RX" /\ v.at # NoDevice)
    <3>1. Act(v, cmd).rx = v.rx /\ Dues(cmd) \in Nat
      BY <1>2, <1>3, <1>4, <2>2
    <3> HIDE DEF Act
    <3>2. Len(v.rx) <= Len(v.rx) + Dues(cmd)
      BY <1>1, <3>1
    <3> QED
      BY <3>1, <3>2
  <2> QED
    BY <2>1, <2>2
<1> QED
  BY <1>6, <1>7

(***************************************************************************)
(* A transaction, write by write and byte by byte                          *)
(***************************************************************************)
I2cSeen == SeenOf(bench, i2c, peers, host, events)

(* What is left of the transaction, from what was and will be taken, is    *)
(* what the plan says.                                                     *)
I2cRunning(r) ==
  /\ RunOf(bench, r, todo) /\ r[0] = Queued(got, I2cSeen) /\ RunAnswers(bench, r, todo, plan)
  /\ todo # <<>> => todo[Len(todo)] = Ending
  /\ got \in Seq(Byte) /\ Len(I2cSeen.rx) <= due

(* After a nack only the end of the transaction is left.                   *)
I2cStopping ==
  /\ got = Nack /\ plan.answer = Nack /\ due = 0 /\ todo \in {<<>>, <<Ending>>}
  /\ I2cSeen.rx = <<>> /\ ~I2cSeen.nack
  /\ plan.peers \in Banks(bench) /\ Same(I2cSeen.devices, plan.peers)

I2cRests == events = <<>> /\ I2cSeen.rx = <<>> /\ ~I2cSeen.nack

I2cInv ==
  bench.kind = "i2c" =>
    /\ Failed => events = <<>>
    /\ job = None => I2cRests
    /\ job # None => (\E r : I2cRunning(r)) \/ I2cStopping

LEMMA I2cIsTyped ==
  ASSUME WiringTyped, bench.kind = "i2c"
  PROVE  /\ bench \in Benches /\ i2c \in I2cCtl(bench) /\ peers \in Banks(bench) /\ host \in Addresses(bench)
         /\ events \in Seq(I2cEvents) /\ (events # <<>> => bench.external) /\ bench.external \in BOOLEAN
         /\ todo \in Seq(Commands) /\ Len(todo) \in Nat /\ due \in Nat
         /\ Failed = Lost(i2c) /\ i2c.rx \in Seq(Byte)
<1>1. /\ bench \in Benches /\ i2c \in I2cCtl(bench) /\ peers \in Banks(bench) /\ host \in Addresses(bench)
      /\ events \in Seq(I2cEvents) /\ (events # <<>> => bench.external)
      /\ todo \in Seq(Commands) /\ due \in Nat
  BY DEF WiringTyped, ControllersTyped, DriverTyped, Events, Ops
<1>2. Len(todo) \in Nat /\ bench.external \in BOOLEAN
  BY <1>1, LenProperties, BenchIsTyped
<1>3. Failed = Lost(i2c)
  BY DEF Failed, Msr, Lost
<1> QED
  BY <1>1, <1>2, <1>3 DEF I2cCtl

LEMMA I2cSeenIsTyped ==
  ASSUME WiringTyped, bench.kind = "i2c"
  PROVE  /\ I2cSeen \in Views(bench) /\ I2cSeen.rx \in Seq(Byte) /\ I2cSeen.devices \in Banks(bench)
         /\ events = <<>> => I2cSeen.rx = i2c.rx /\ I2cSeen.nack = Failed /\ I2cSeen.devices = peers
<1>1. I2cSeen \in Views(bench)
  BY I2cIsTyped, SeenOfIsTyped DEF I2cSeen
<1>2. events = <<>> => I2cSeen.rx = i2c.rx /\ I2cSeen.nack = Lost(i2c) /\ I2cSeen.devices = peers
  BY I2cIsTyped, SeenOfIsTyped DEF I2cSeen
<1> QED
  BY <1>1, <1>2, I2cIsTyped DEF Views

(* What the driver will see when nothing of the trace is left.             *)
LEMMA SeenWithoutTrace ==
  ASSUME NEW b \in Benches, b.kind = "i2c", NEW c \in I2cCtl(b), NEW bank \in Banks(b),
         NEW at \in Addresses(b)
  PROVE  LET v == SeenOf(b, c, bank, at, <<>>)
         IN  v.rx = c.rx /\ v.nack = Lost(c) /\ v.devices = bank
<1>1. \A list \in Seq(I2cEvents) :
        LET v == SeenOf(b, c, bank, at, list)
        IN  list = <<>> => v.rx = c.rx /\ v.nack = Lost(c) /\ v.devices = bank
  BY SeenOfIsTyped
<1>2. <<>> \in Seq(I2cEvents)
  BY EmptySeq
<1> QED
  BY <1>1, <1>2, Zenon

LEMMA I2cSeenNext ==
  ASSUME WiringTyped', bench' = bench, bench.kind = "i2c", events' = <<>>
  PROVE  I2cSeen'.rx = i2c'.rx /\ I2cSeen'.nack = Lost(i2c') /\ I2cSeen'.devices = peers'
<1>1. /\ i2c' \in I2cCtl(bench) /\ peers' \in Banks(bench) /\ host' \in Addresses(bench)
      /\ events' \in Seq(I2cEvents) /\ bench \in Benches
  BY EmptySeq DEF WiringTyped, ControllersTyped
<1> DEFINE now == SeenOf(bench, i2c', peers', host', <<>>)
<1>2. now.rx = i2c'.rx /\ now.nack = Lost(i2c') /\ now.devices = peers'
  BY <1>1, SeenWithoutTrace
<1>3. I2cSeen' = now
  BY DEF I2cSeen
<1> HIDE DEF now
<1> QED
  BY <1>2, <1>3

LEMMA FailedNext ==
  ASSUME TRUE
  PROVE  Failed' = Lost(i2c')
BY DEF Failed, Msr, Lost

LEMMA I2cBegins ==
  ASSUME WiringTyped, bench.kind = "i2c", I2cInv, Begin
  PROVE  (\E r : I2cRunning(r)') /\ I2cSeen' = I2cSeen
<1>1. /\ job = None /\ job' \in JobsOf["i2c"] /\ plan' = I2cPlan(peers, job') /\ todo' = Writes(job')
      /\ due' = 0 /\ got' = <<>> /\ UNCHANGED <<bench, i2c, peers, host, events>>
  BY DEF Begin, PlanOf, wires
<1>2. I2cSeen' = I2cSeen
  BY <1>1 DEF I2cSeen
<1>3. I2cRests
  BY <1>1 DEF I2cInv
<1>4. /\ I2cSeen \in Views(bench) /\ I2cSeen.devices = peers /\ ~I2cSeen.nack /\ I2cSeen.rx = <<>>
      /\ bench \in Benches
  BY <1>3, I2cSeenIsTyped, I2cIsTyped DEF I2cRests
<1> DEFINE j == job'
<1>5. j \in JobsOf["i2c"]
  BY <1>1
<1> HIDE DEF j
<1>6. PICK r : /\ RunOf(bench, r, Writes(j)) /\ r[0] = I2cSeen
               /\ RunAnswers(bench, r, Writes(j), I2cPlan(peers, j))
  BY <1>4, <1>5, PlanIsRun
<1>7. Writes(j) # <<>> => Writes(j)[Len(Writes(j))] = Ending
  <2>1. PICK g : Len(Writes(j)) = Len(g[Len(j)]) + 1 /\ Writes(j)[Len(g[Len(j)]) + 1] = Ending
    BY <1>5, WritesAreSegments
  <2> QED
    BY <2>1
<1>8. Queued(<<>>, I2cSeen) = I2cSeen
  BY <1>4, QueuedNothing
<1>9. todo' = Writes(j) /\ plan' = I2cPlan(peers, j)
  BY <1>1 DEF j
<1>10. /\ RunOf(bench', r, todo') /\ r[0] = Queued(got', I2cSeen') /\ RunAnswers(bench', r, todo', plan')
       /\ todo' # <<>> => todo'[Len(todo')] = Ending
  BY <1>1, <1>2, <1>6, <1>7, <1>8, <1>9
<1>11. got' \in Seq(Byte) /\ Len(I2cSeen'.rx) <= due'
  BY <1>1, <1>2, <1>4, EmptySeq
<1>12. I2cRunning(r)'
  BY <1>10, <1>11 DEF I2cRunning
<1> QED
  BY <1>2, <1>12

(* The next write, of which the driver will see what it does.              *)
LEMMA CommandSeen ==
  ASSUME WiringTyped, bench.kind = "i2c", IssueCommand
  PROVE  /\ I2cSeen' = Act(I2cSeen, Write) /\ Write \in Commands /\ todo # <<>> /\ ~Failed
         /\ UNCHANGED <<bench, host, job, got, plan>> /\ todo' = Tail(todo) /\ due' = due + Dues(Write)
         /\ Lost(i2c') => ~bench.external
         /\ ~bench.external => events' = events
<1>1. /\ todo # <<>> /\ ~Failed /\ UNCHANGED <<bench, host, job, got, plan>>
      /\ todo' = Tail(todo) /\ due' = due + Dues(Write)
  BY DEF IssueCommand, Issuing
<1>2. Write \in Commands
  <2>1. Write.op \in {"START", "TX", "RX", "DISCARD", "STOP"}
    BY DEF IssueCommand, Issuing
  <2> QED
    BY <1>1, WriteIsTyped
<1> DEFINE cmd == Write
<1>3. /\ i2c' = Commanded(i2c, peers, cmd).c /\ peers' = Commanded(i2c, peers, cmd).bank
      /\ events' = IF bench.external THEN Append(events, [from |-> "i2c", cmd |-> cmd]) ELSE events
  BY DEF IssueCommand, Traced
<1>4. i2c.external = bench.external
  BY I2cIsTyped DEF I2cCtl
<1> HIDE DEF cmd
<1>5. /\ i2c' = IF bench.external THEN External(i2c, cmd) ELSE Local(i2c, peers, cmd).c
      /\ peers' = IF bench.external THEN peers ELSE Local(i2c, peers, cmd).bank
  <2>1. CASE bench.external
    BY <1>3, <1>4, <2>1 DEF Commanded, Bus
  <2>2. CASE ~bench.external
    BY <1>3, <1>4, <2>2 DEF Commanded
  <2> QED
    BY <2>1, <2>2
<1>6. I2cSeen' = SeenOf(bench, i2c', peers', host, events')
  BY <1>1 DEF I2cSeen
<1>7. SeenOf(bench, i2c', peers', host, events') = Act(I2cSeen, cmd)
  <2>1. cmd \in Commands
    BY <1>2 DEF cmd
  <2> QED
    BY <1>3, <1>5, <2>1, I2cIsTyped, SeenActs DEF I2cSeen
<1>8. Lost(i2c') => ~bench.external
  <2> SUFFICES ASSUME bench.external PROVE ~Lost(i2c')
    OBVIOUS
  <2>1. Lost(External(i2c, cmd)) = Lost(i2c)
    BY <1>2, I2cIsTyped, ExternalIsTyped DEF Lost, cmd
  <2> QED
    BY <1>1, <1>5, <2>1, I2cIsTyped
<1>9. ~bench.external => events' = events
  BY <1>3
<1> QED
  BY <1>1, <1>2, <1>6, <1>7, <1>8, <1>9 DEF cmd

(* A run without its first command is a run from what that command leaves. *)
LEMMA RunGoesOn ==
  ASSUME NEW b \in Benches, b.kind = "i2c", NEW s \in Seq(Commands), s # <<>>, NEW r, RunOf(b, r, s),
         NEW p, RunAnswers(b, r, s, p), NEW v \in Views(b), NEW old \in Seq(Byte), r[0] = Queued(old, v),
         v.nack => b.external
  PROVE  \E q : RunOf(b, q, Tail(s)) /\ q[0] = Queued(old, Act(v, Head(s))) /\ RunAnswers(b, q, Tail(s), p)
<1> DEFINE n == Len(Tail(s))
           q == [i \in 0 .. n |-> r[i + 1]]
<1>1. /\ n \in Nat /\ Len(s) = n + 1 /\ Head(s) = s[1] /\ Head(s) \in Commands
      /\ \A i \in 1 .. n : Tail(s)[i] = s[i + 1]
  <2>1. Len(s) \in Nat \ {0}
    BY EmptySeq
  <2>2. /\ Tail(s) \in Seq(Commands) /\ Len(Tail(s)) = Len(s) - 1 /\ Head(s) = s[1] /\ Head(s) \in Commands
        /\ \A i \in 1 .. Len(Tail(s)) : Tail(s)[i] = s[i + 1]
    BY HeadTailProperties
  <2> QED
    BY <2>1, <2>2
<1> HIDE DEF n
<1>2. /\ r \in [0 .. n + 1 -> Calm(b)]
      /\ \A i \in 1 .. n + 1 : r[i] = Runs(r[i - 1], s[i])
  BY <1>1 DEF RunOf
<1>3. \A i \in 0 .. n : q[i] = r[i + 1] /\ r[i + 1] \in Calm(b)
  BY <1>1, <1>2
<1>4. RunOf(b, q, Tail(s))
  <2>1. q \in [0 .. n -> Calm(b)]
    BY <1>3
  <2>2. ASSUME NEW i \in 1 .. n PROVE q[i] = Runs(q[i - 1], Tail(s)[i])
    <3>1. i + 1 \in 1 .. n + 1 /\ (i + 1) - 1 = i /\ i - 1 \in 0 .. n /\ (i - 1) + 1 = i /\ i \in 0 .. n
      BY <1>1
    <3>2. r[i + 1] = Runs(r[(i + 1) - 1], s[i + 1])
      BY <1>2, <3>1
    <3>3. q[i - 1] = r[(i - 1) + 1]
      BY <1>3, <3>1
    <3>4. q[i] = r[i + 1]
      BY <1>3, <3>1
    <3> HIDE DEF q
    <3> QED
      BY <1>1, <3>1, <3>2, <3>3, <3>4
  <2> HIDE DEF q
  <2> QED
    BY <2>1, <2>2 DEF RunOf, n
<1>5. r[1] = Runs(r[0], s[1])
  <2>1. 1 \in 1 .. n + 1 /\ 1 - 1 = 0
    BY <1>1
  <2> QED
    BY <1>2, <2>1
<1>6. Act(r[0], s[1]) = Queued(old, Act(v, s[1]))
  BY <1>1, ActBehind
<1>7. r[0].nack = v.nack /\ r[0] \in Calm(b)
  <2>1. r[0].nack = v.nack
    BY DEF Queued, Observed
  <2>2. 0 \in 0 .. n + 1
    BY <1>1
  <2> QED
    BY <1>2, <2>1, <2>2
<1>8. r[1] = Queued(old, Act(v, s[1]))
  <2>1. CASE ~v.nack
    BY <1>5, <1>6, <1>7, <2>1 DEF Runs
  <2>2. CASE v.nack
    <3>1. r[0] \in Views(b) /\ r[0].at = NoDevice /\ r[0].nack
      BY <1>7, <2>2 DEF Calm
    <3>2. 0 \in 0 .. n + 1 /\ 1 \in 0 + 1 .. n + 1
      BY <1>1
    <3>3. s[1].op # "START"
      BY <1>1, <2>2, <3>1, <3>2 DEF RunAnswers
    <3>4. Act(r[0], s[1]) = r[0]
      BY <1>1, <3>1, <3>3, ActIsDue
    <3> QED
      BY <1>5, <1>6, <3>1, <3>4 DEF Runs
  <2> QED
    BY <2>1, <2>2
<1>9. q[0] = r[1]
  <2>1. 0 \in 0 .. n /\ 0 + 1 = 1
    BY <1>1
  <2> QED
    BY <1>3, <2>1
<1>10. q[n] = r[n + 1]
  <2>1. n \in 0 .. n
    BY <1>1
  <2> QED
    BY <1>3, <2>1
<1>11. RunAnswers(b, q, Tail(s), p)
  <2> HIDE DEF q
  <2>1. /\ p.answer = IF r[n + 1].nack THEN Nack ELSE r[n + 1].rx
        /\ p.peers \in Banks(b) /\ Same(r[n + 1].devices, p.peers)
        /\ b.external =>
             \A i \in 0 .. n + 1 : r[i].nack => \A k \in i + 1 .. n + 1 : s[k].op # "START"
    BY <1>1 DEF RunAnswers
  <2>2. ASSUME b.external, NEW i \in 0 .. n, q[i].nack, NEW k \in i + 1 .. n
        PROVE  Tail(s)[k].op # "START"
    <3>1. i + 1 \in 0 .. n + 1 /\ k + 1 \in (i + 1) + 1 .. n + 1 /\ k \in 1 .. n
      BY <1>1
    <3>2. r[i + 1].nack
      BY <1>3, <2>2
    <3>3. s[k + 1].op # "START"
      BY <2>1, <2>2, <3>1, <3>2
    <3> QED
      BY <1>1, <3>1, <3>3
  <2> QED
    BY <1>10, <2>1, <2>2 DEF RunAnswers, n
<1> HIDE DEF q
<1> QED
  BY <1>1, <1>4, <1>8, <1>9, <1>11

LEMMA TailEnds ==
  ASSUME NEW S, NEW s \in Seq(S), s # <<>>, Tail(s) # <<>>
  PROVE  Tail(s)[Len(Tail(s))] = s[Len(s)]
<1>1. Len(s) \in Nat \ {0} /\ Tail(s) \in Seq(S)
  BY EmptySeq, HeadTailProperties
<1>2. /\ Len(Tail(s)) = Len(s) - 1
      /\ \A i \in 1 .. Len(Tail(s)) : Tail(s)[i] = s[i + 1]
  BY HeadTailProperties
<1> DEFINE n == Len(Tail(s))
<1>3. n \in Nat \ {0} /\ Len(s) = n + 1 /\ Tail(s)[n] = s[n + 1]
  <2>1. n \in Nat \ {0}
    BY <1>1, EmptySeq
  <2>2. n \in 1 .. n
    BY <2>1
  <2> QED
    BY <1>1, <1>2, <2>1, <2>2
<1> QED
  BY <1>3

(***************************************************************************)
(* The steps of such a transaction                                         *)
(***************************************************************************)
LEMMA CommandAnswers ==
  ASSUME WiringTyped, WiringTyped', bench.kind = "i2c", I2cInv, IssueCommand
  PROVE  I2cInv'
<1>1. /\ I2cSeen' = Act(I2cSeen, Write) /\ Write \in Commands /\ todo # <<>> /\ ~Failed
      /\ UNCHANGED <<bench, host, job, got, plan>> /\ todo' = Tail(todo) /\ due' = due + Dues(Write)
      /\ Lost(i2c') => ~bench.external
      /\ ~bench.external => events' = events
  BY CommandSeen
<1>2. /\ bench \in Benches /\ (events # <<>> => bench.external) /\ bench.external \in BOOLEAN
      /\ todo \in Seq(Commands) /\ due \in Nat
  BY I2cIsTyped
<1>3. /\ I2cSeen \in Views(bench) /\ I2cSeen.rx \in Seq(Byte)
      /\ events = <<>> => I2cSeen.nack = Failed
  BY I2cSeenIsTyped
<1>4. Failed' => events' = <<>>
  BY <1>1, <1>2, FailedNext
<1>5. job # None /\ job' # None
  BY <1>1 DEF WiringTyped, DriverTyped
<1>6. /\ Dues(Write) \in Nat /\ Len(Act(I2cSeen, Write).rx) <= Len(I2cSeen.rx) + Dues(Write)
  BY <1>1, <1>2, <1>3, ActIsDue
<1>7. CASE \E r : I2cRunning(r)
  <2>1. PICK r : I2cRunning(r)
    BY <1>7
  <2>2. /\ RunOf(bench, r, todo) /\ r[0] = Queued(got, I2cSeen) /\ RunAnswers(bench, r, todo, plan)
        /\ todo[Len(todo)] = Ending /\ got \in Seq(Byte) /\ Len(I2cSeen.rx) <= due
    BY <1>1, <2>1 DEF I2cRunning
  <2>3. I2cSeen.nack => bench.external
    BY <1>1, <1>2, <1>3
  <2>4. PICK q : /\ RunOf(bench, q, Tail(todo)) /\ q[0] = Queued(got, Act(I2cSeen, Head(todo)))
                 /\ RunAnswers(bench, q, Tail(todo), plan)
    BY <1>1, <1>2, <1>3, <2>2, <2>3, RunGoesOn
  <2>5. Tail(todo) # <<>> => Tail(todo)[Len(Tail(todo))] = Ending
    BY <1>1, <1>2, <2>2, TailEnds
  <2>6. Len(I2cSeen'.rx) <= due'
    <3>1. Len(I2cSeen.rx) \in Nat /\ I2cSeen'.rx \in Seq(Byte)
      <4>1. I2cSeen' \in Views(bench)
        BY <1>1, <1>2, <1>3, ActIsTyped
      <4> QED
        BY <1>3, <4>1, LenProperties DEF Views
    <3>2. Len(I2cSeen'.rx) \in Nat
      BY <3>1, LenProperties
    <3>3. Len(I2cSeen'.rx) <= Len(I2cSeen.rx) + Dues(Write)
      BY <1>1, <1>6
    <3>4. due' = due + Dues(Write)
      BY <1>1
    <3> QED
      BY <1>2, <1>6, <2>2, <3>1, <3>2, <3>3, <3>4
  <2>7. I2cRunning(q)'
    BY <1>1, <2>2, <2>4, <2>5, <2>6 DEF I2cRunning, Write
  <2> QED
    BY <1>4, <1>5, <2>7 DEF I2cInv
<1>8. CASE I2cStopping
  <2>1. Write = Ending /\ Tail(todo) = <<>>
    <3>1. todo = <<Ending>>
      BY <1>1, <1>8 DEF I2cStopping
    <3>2. \A e : Head(<<e>>) = e /\ Tail(<<e>>) = <<>>
      OBVIOUS
    <3> QED
      BY <3>1, <3>2 DEF Write
  <2>2. I2cSeen' = Observed(I2cSeen.rx, I2cSeen.nack, I2cSeen.devices, NoDevice) /\ Dues(Write) = 0
    BY <1>1, <2>1 DEF Act, Ending, Dues
  <2>3. I2cSeen'.rx = <<>> /\ ~I2cSeen'.nack /\ I2cSeen'.devices = I2cSeen.devices
    BY <1>8, <2>2 DEF Observed, I2cStopping
  <2>4. I2cStopping'
    BY <1>1, <1>8, <2>1, <2>2, <2>3 DEF I2cStopping
  <2> QED
    BY <1>4, <1>5, <2>4 DEF I2cInv
<1> QED
  BY <1>5, <1>7, <1>8 DEF I2cInv

LEMMA QueuedTwice ==
  ASSUME NEW b, NEW v \in Views(b), NEW q \in Seq(Byte), NEW e \in Byte, NEW u, u = Queued(<<e>>, v)
  PROVE  /\ Queued(q, u) = Queued(Append(q, e), v)
         /\ Len(u.rx) = Len(v.rx) + 1
<1>1. v.rx \in Seq(Byte) /\ <<e>> \in Seq(Byte)
  BY DEF Views
<1>2. u = Observed(<<e>> \o v.rx, v.nack, v.devices, v.at)
  BY DEF Queued
<1>3. \A r, s, t \in Seq(Byte) : (r \o s) \o t = r \o (s \o t)
  BY ConcatAssociative
<1>4. q \o <<e>> = Append(q, e)
  BY AppendIsConcat
<1>5. q \o (<<e>> \o v.rx) = Append(q, e) \o v.rx
  <2> DEFINE one == <<e>>
             rx  == v.rx
  <2>1. one \in Seq(Byte) /\ rx \in Seq(Byte) /\ q \o one = Append(q, e)
    BY <1>1, <1>4
  <2> HIDE DEF one, rx
  <2>2. (q \o one) \o rx = q \o (one \o rx)
    BY <1>3, <2>1
  <2>3. q \o (one \o rx) = Append(q, e) \o rx
    BY <2>1, <2>2
  <2> QED
    BY <2>3 DEF one, rx
<1>6. Len(<<e>> \o v.rx) = Len(v.rx) + 1
  <2> DEFINE one == <<e>>
  <2>1. one \in Seq(Byte) /\ Len(one) = 1
    BY <1>1
  <2> HIDE DEF one
  <2>2. Len(one \o v.rx) = Len(one) + Len(v.rx) /\ Len(v.rx) \in Nat
    BY <1>1, <2>1, ConcatProperties, LenProperties
  <2> QED
    BY <2>1, <2>2 DEF one
<1>7. u.rx = <<e>> \o v.rx /\ Queued(q, u) = Observed(q \o (<<e>> \o v.rx), v.nack, v.devices, v.at)
  <2> DEFINE big == <<e>> \o v.rx
  <2>1. u = Observed(big, v.nack, v.devices, v.at)
    BY <1>2
  <2> HIDE DEF big
  <2>2. Queued(q, u) = Observed(q \o big, v.nack, v.devices, v.at)
    BY <2>1, QueuedBehind
  <2>3. u.rx = big
    BY <2>1 DEF Observed
  <2> QED
    BY <2>2, <2>3 DEF big
<1> QED
  BY <1>5, <1>6, <1>7 DEF Queued

LEMMA ByteAnswers ==
  ASSUME WiringTyped, WiringTyped', bench.kind = "i2c", I2cInv, TakeByte
  PROVE  I2cInv'
<1> DEFINE e == Head(i2c.rx)
<1>1. /\ due > 0 /\ ~Failed /\ i2c.rx # <<>> /\ got' = Append(got, e) /\ due' = due - 1
      /\ i2c' = ReadMrdr(i2c) /\ UNCHANGED <<bench, host, job, todo, plan, peers, events>>
  BY DEF TakeByte, Called, Took
<1>2. /\ bench \in Benches /\ i2c \in I2cCtl(bench) /\ peers \in Banks(bench) /\ host \in Addresses(bench)
      /\ events \in Seq(I2cEvents) /\ due \in Nat /\ i2c.rx \in Seq(Byte) /\ Failed = Lost(i2c)
  BY I2cIsTyped
<1>3. i2c' \in I2cCtl(bench)
  BY <1>1 DEF WiringTyped, ControllersTyped
<1>4. i2c'.rx = Tail(i2c.rx) /\ i2c'.active = i2c.active /\ i2c'.sticky = i2c.sticky
  BY <1>1, <1>2 DEF ReadMrdr, I2cCtl
<1>5. e \in Byte /\ <<e>> \in Seq(Byte) /\ i2c.rx = <<e>> \o i2c'.rx
  <2> DEFINE s == i2c.rx
  <2>1. s \in Seq(Byte) /\ s # <<>>
    BY <1>1, <1>2
  <2> HIDE DEF s
  <2>2. Head(s) \in Byte /\ s = <<Head(s)>> \o Tail(s)
    BY <2>1, HeadTailProperties
  <2> QED
    BY <1>4, <2>2 DEF s
<1> HIDE DEF e
<1>6. Ahead(i2c, <<e>>, i2c') /\ ~Failed'
  <2>1. Lost(i2c') = Lost(i2c)
    BY <1>4 DEF Lost
  <2> QED
    BY <1>1, <1>2, <1>5, <2>1, FailedNext DEF Ahead
<1>7. /\ I2cSeen = SeenOf(bench, i2c, peers, host, events)
      /\ I2cSeen' = SeenOf(bench, i2c', peers, host, events)
  BY <1>1 DEF I2cSeen
<1>8. I2cSeen = Queued(<<e>>, I2cSeen') /\ I2cSeen' \in Views(bench)
  <2>1. \A c \in I2cCtl(bench), d \in I2cCtl(bench), q \in Seq(Byte) :
          Ahead(c, q, d) /\ c.active = d.active =>
            SeenOf(bench, c, peers, host, events) = Queued(q, SeenOf(bench, d, peers, host, events))
    BY <1>2, SeenQueued
  <2>2. SeenOf(bench, i2c', peers, host, events) \in Views(bench)
    BY <1>2, <1>3, SeenOfIsTyped
  <2> QED
    BY <1>2, <1>3, <1>4, <1>5, <1>6, <1>7, <2>1, <2>2
<1>9. PICK r : I2cRunning(r)
  <2>1. job # None
    <3>1. job = None => due = 0
      BY DEF WiringTyped, DriverTyped
    <3> QED
      BY <1>1, <1>2, <3>1
  <2>2. ~I2cStopping
    BY <1>1, <1>2 DEF I2cStopping
  <2> QED
    BY <2>1, <2>2 DEF I2cInv
<1>10. /\ RunOf(bench, r, todo) /\ r[0] = Queued(got, I2cSeen) /\ RunAnswers(bench, r, todo, plan)
       /\ todo # <<>> => todo[Len(todo)] = Ending
       /\ got \in Seq(Byte) /\ Len(I2cSeen.rx) <= due
  BY <1>9 DEF I2cRunning
<1>11. Queued(got, I2cSeen) = Queued(got', I2cSeen') /\ Len(I2cSeen.rx) = Len(I2cSeen'.rx) + 1
  BY <1>1, <1>5, <1>8, <1>10, QueuedTwice
<1>12. got' \in Seq(Byte)
  BY <1>1, <1>5, <1>10, AppendProperties
<1>13. Len(I2cSeen'.rx) <= due'
  <2>1. Len(I2cSeen'.rx) \in Nat
    BY <1>8, LenProperties DEF Views
  <2> QED
    BY <1>1, <1>2, <1>10, <1>11, <2>1
<1>14. I2cRunning(r)'
  BY <1>1, <1>10, <1>11, <1>12, <1>13 DEF I2cRunning
<1>15. job' # None
  BY <1>1, <1>2 DEF WiringTyped, DriverTyped
<1> QED
  BY <1>6, <1>14, <1>15 DEF I2cInv

LEMMA NackAnswers ==
  ASSUME WiringTyped, WiringTyped', bench.kind = "i2c", I2cInv, SeeNack
  PROVE  I2cInv'
<1>1. /\ job # None /\ Failed /\ i2c' = WriteMcr(WriteMsr(i2c, {"NDF"}), {"MEN", "RRF"})
      /\ todo' = (IF todo = <<>> THEN todo ELSE <<Last(todo)>>) /\ due' = 0 /\ got' = Nack
      /\ UNCHANGED <<bench, peers, events, host, job, plan>>
  BY DEF SeeNack
<1>2. events = <<>> /\ ((\E r : I2cRunning(r)) \/ I2cStopping)
  BY <1>1 DEF I2cInv
<1>3. I2cSeen.nack /\ I2cSeen.devices = peers
  BY <1>1, <1>2, I2cSeenIsTyped
<1>4. PICK r : I2cRunning(r)
  BY <1>2, <1>3 DEF I2cStopping
<1>5. /\ RunOf(bench, r, todo) /\ r[0] = Queued(got, I2cSeen) /\ RunAnswers(bench, r, todo, plan)
      /\ todo # <<>> => todo[Len(todo)] = Ending
  BY <1>4 DEF I2cRunning
<1>6. bench \in Benches /\ i2c \in I2cCtl(bench) /\ Len(todo) \in Nat
  BY I2cIsTyped
<1>7. r[0].nack /\ r[0].devices = peers
  BY <1>3, <1>5 DEF Queued, Observed
<1>8. r[Len(todo)] = r[0]
  <2>1. 0 \in 0 .. Len(todo) /\ Len(todo) \in 0 .. Len(todo)
    BY <1>6
  <2> DEFINE s == todo
             b == bench
  <2>2. Len(s) \in Nat /\ RunOf(b, r, s)
    BY <1>5, <1>6
  <2> HIDE DEF s, b
  <2>3. \A i \in 0 .. Len(s) : r[i].nack => \A k \in i .. Len(s) : r[k] = r[i]
    BY <2>2, NackLasts
  <2>4. \A k \in 0 .. Len(todo) : r[k] = r[0]
    BY <1>7, <2>1, <2>3 DEF s
  <2> QED
    BY <2>1, <2>4
<1>9. plan.answer = Nack /\ plan.peers \in Banks(bench) /\ Same(peers, plan.peers)
  BY <1>5, <1>7, <1>8 DEF RunAnswers
<1>10. i2c'.rx = <<>> /\ "NDF" \notin i2c'.sticky
  BY <1>1, <1>6 DEF WriteMcr, WriteMsr, I2cCtl
<1>11. I2cSeen'.rx = <<>> /\ ~I2cSeen'.nack /\ I2cSeen'.devices = peers
  BY <1>1, <1>2, <1>10, I2cSeenNext DEF Lost
<1>12. todo' \in {<<>>, <<Ending>>}
  BY <1>1, <1>5 DEF Last
<1>13. I2cStopping'
  BY <1>1, <1>9, <1>11, <1>12 DEF I2cStopping
<1> QED
  BY <1>1, <1>2, <1>13 DEF I2cInv

(* A transaction that is complete.                                         *)
LEMMA TransactionComplete ==
  ASSUME WiringTyped, bench.kind = "i2c", I2cInv, Complete
  PROVE  /\ i2c.rx = <<>> /\ ~Lost(i2c) /\ events = <<>>
         /\ got = plan.answer /\ Same(peers, plan.peers) /\ plan.peers \in Banks(bench)
<1>1. job # None /\ todo = <<>> /\ due = 0 /\ events = <<>> /\ ~Failed
  BY DEF Complete
<1>2. /\ I2cSeen \in Views(bench) /\ I2cSeen.rx \in Seq(Byte)
      /\ I2cSeen.rx = i2c.rx /\ ~I2cSeen.nack /\ I2cSeen.devices = peers
  BY <1>1, I2cSeenIsTyped
<1>3. ~Lost(i2c)
  BY <1>1, I2cIsTyped
<1>4. CASE \E r : I2cRunning(r)
  <2>1. PICK r : I2cRunning(r)
    BY <1>4
  <2>2. /\ r[0] = Queued(got, I2cSeen) /\ RunAnswers(bench, r, todo, plan)
        /\ got \in Seq(Byte) /\ Len(I2cSeen.rx) <= 0
    BY <1>1, <2>1 DEF I2cRunning
  <2>3. I2cSeen.rx = <<>>
    <3> DEFINE s == I2cSeen.rx
    <3>1. s \in Seq(Byte) /\ Len(s) <= 0
      BY <1>2, <2>2
    <3> HIDE DEF s
    <3>2. Len(s) = 0
      BY <3>1, LenProperties
    <3>3. s = <<>>
      BY <3>1, <3>2, EmptySeq
    <3> QED
      BY <3>3 DEF s
  <2>4. Len(todo) = 0
    BY <1>1
  <2>5. r[0].rx = got \o I2cSeen.rx /\ ~r[0].nack /\ r[0].devices = peers
    BY <1>2, <2>2 DEF Queued, Observed
  <2>6. got \o <<>> = got
    BY <2>2, ConcatEmptySeq
  <2>7. plan.answer = r[0].rx /\ plan.peers \in Banks(bench) /\ Same(peers, plan.peers)
    BY <2>2, <2>4, <2>5 DEF RunAnswers
  <2> QED
    BY <1>1, <1>2, <1>3, <2>3, <2>5, <2>6, <2>7
<1>5. CASE I2cStopping
  BY <1>1, <1>2, <1>3, <1>5 DEF I2cStopping
<1> QED
  BY <1>1, <1>4, <1>5 DEF I2cInv

LEMMA I2cEnds ==
  ASSUME WiringTyped, WiringTyped', bench.kind = "i2c", I2cInv, Finish \/ GiveUp
  PROVE  I2cInv'
<1>1. UNCHANGED <<bench, peers, host>> /\ job' = None /\ events' = <<>>
  BY DEF Finish, Complete, GiveUp, Rest
<1>2. i2c'.rx = <<>> /\ ~Lost(i2c')
  <2>1. CASE Finish
    <3>1. Complete
      BY <2>1 DEF Finish
    <3>2. i2c.rx = <<>> /\ ~Lost(i2c)
      BY <3>1, TransactionComplete
    <3> QED
      BY <2>1, <3>2, FinishedControllers DEF Lost
  <2>2. CASE GiveUp
    BY <2>2, GivenUpControllers DEF Lost
  <2> QED
    BY <2>1, <2>2
<1>3. I2cSeen'.rx = <<>> /\ ~I2cSeen'.nack
  BY <1>1, <1>2, I2cSeenNext
<1>4. I2cRests'
  BY <1>1, <1>3 DEF I2cRests
<1> QED
  BY <1>1, <1>4 DEF I2cInv

LEMMA HostAnswers ==
  ASSUME WiringTyped, WiringTyped', bench.kind = "i2c", I2cInv, HostTakesEvents
  PROVE  I2cInv'
<1> DEFINE w == Served(Wire(i2c, peers, host), events)
<1>1. /\ events # <<>> /\ events' = <<>> /\ i2c' = w.c /\ peers' = w.devices /\ host' = w.at
      /\ UNCHANGED <<bench, job, todo, due, got, plan>>
  BY DEF HostTakesEvents, driver
<1> HIDE DEF w
<1>2. /\ bench \in Benches /\ i2c \in I2cCtl(bench) /\ peers \in Banks(bench) /\ host \in Addresses(bench)
      /\ events \in Seq(I2cEvents) /\ bench.external
  BY <1>1, I2cIsTyped
<1>3. SeenOf(bench, w.c, w.devices, w.at, <<>>) = SeenOf(bench, i2c, peers, host, events)
  BY <1>2, SeenServed DEF w
<1>4. I2cSeen' = I2cSeen
  <2>1. I2cSeen' = SeenOf(bench', i2c', peers', host', events')
    BY DEF I2cSeen
  <2> QED
    BY <1>1, <1>3, <2>1 DEF I2cSeen
<1>5. job # None
  BY <1>1 DEF I2cInv, I2cRests
<1>6. CASE \E r : I2cRunning(r)
  <2>1. PICK r : I2cRunning(r)
    BY <1>6
  <2>2. I2cRunning(r)'
    BY <1>1, <1>4, <2>1 DEF I2cRunning
  <2> QED
    BY <1>1, <1>5, <2>2 DEF I2cInv
<1>7. CASE I2cStopping
  <2>1. I2cStopping'
    BY <1>1, <1>4, <1>7 DEF I2cStopping
  <2> QED
    BY <1>1, <1>5, <2>1 DEF I2cInv
<1> QED
  BY <1>5, <1>6, <1>7 DEF I2cInv

LEMMA I2cStart ==
  ASSUME WiringInit, WiringTyped
  PROVE  I2cInv
<1> SUFFICES ASSUME bench.kind = "i2c" PROVE I2cRests /\ job = None
  BY DEF I2cInv, I2cRests
<1>1. /\ events = <<>> /\ job = None
      /\ i2c = I2cReady([I2cNew(bench.external) EXCEPT !.rdde = bench.dma])
  BY DEF WiringInit
<1>2. i2c.rx = <<>> /\ "NDF" \notin i2c.sticky
  BY <1>1 DEF I2cReady, I2cNew, WriteMcr
<1>3. I2cSeen.rx = <<>> /\ ~I2cSeen.nack
  BY <1>1, <1>2, I2cSeenIsTyped DEF Failed, Msr
<1> QED
  BY <1>1, <1>3 DEF I2cRests

LEMMA I2cStep ==
  ASSUME WiringTyped, WiringTyped', Quiet, I2cInv, WiringNext
  PROVE  I2cInv'
<1> SUFFICES ASSUME bench'.kind = "i2c" PROVE I2cInv'
  BY DEF I2cInv
<1>1. bench.kind = "i2c" /\ bench' = bench
  BY DEF WiringNext, WiringServes, Issue, Take, IssueCommand, SetFrame, IssueWord, IssueSelect, IssueConversion,
         Issuing, TakeByte, TakeWord, TakeResult, Took, SeeNack, Finish, HostTakesEvents, Begin, GiveUp, HostSetsChannel
<1>2. I2cSteps
  BY <1>1, StepsOfKinds
<1>3. CASE Begin
  <2>1. PICK r : I2cRunning(r)'
    BY <1>1, <1>3, I2cBegins
  <2>2. job = None /\ UNCHANGED <<i2c, events>> /\ job' # None
    BY <1>1, <1>3, WiringAssumption DEF Begin, wires
  <2>3. events' = <<>>
    BY <1>1, <2>2 DEF I2cInv, I2cRests
  <2> QED
    BY <2>1, <2>2, <2>3 DEF I2cInv
<1> QED
  BY <1>1, <1>2, <1>3, CommandAnswers, ByteAnswers, NackAnswers, I2cEnds, HostAnswers DEF I2cSteps

LEMMA I2cMatches ==
  ASSUME WiringTyped, I2cInv, bench.kind = "i2c"
  PROVE  AnswersMatchPeers
<1> SUFFICES ASSUME Complete PROVE got = plan.answer /\ Held(peers) = Held(plan.peers)
  BY DEF AnswersMatchPeers
<1>1. got = plan.answer /\ Same(peers, plan.peers) /\ plan.peers \in Banks(bench) /\ peers \in Banks(bench)
  BY TransactionComplete, I2cIsTyped
<1>2. DOMAIN peers = DOMAIN bench.peers /\ DOMAIN plan.peers = DOMAIN bench.peers
  BY <1>1 DEF Banks
<1>3. \A a \in DOMAIN bench.peers : peers[a].regs = plan.peers[a].regs /\ peers[a].ptr = plan.peers[a].ptr
  BY <1>1, <1>2 DEF Same
<1>4. Held(peers) = Held(plan.peers)
  BY <1>2, <1>3 DEF Held
<1> QED
  BY <1>1, <1>4

(***************************************************************************)
(* Every bench                                                             *)
(***************************************************************************)
AnswersInv == WiringTyped /\ Quiet /\ AdcInv /\ SpiInv /\ I2cInv

LEMMA AnswersStart ==
  ASSUME WiringInit
  PROVE  AnswersInv
BY WiringStart, QuietStart, AdcStart, SpiStart, I2cStart DEF AnswersInv

LEMMA AnswersStep ==
  ASSUME AnswersInv, WiringNext
  PROVE  AnswersInv'
<1>1. WiringTyped'
  BY WiringStep DEF AnswersInv
<1> QED
  BY <1>1, QuietStep, AdcStep, SpiStep, I2cStep DEF AnswersInv

LEMMA AnswersMatch ==
  ASSUME AnswersInv
  PROVE  AnswersMatchPeers
<1>1. bench.kind \in {"i2c", "spi", "adc"}
  BY KindsOfBenches DEF AnswersInv, WiringTyped
<1> QED
  BY <1>1, AdcMatches, SpiMatches, I2cMatches DEF AnswersInv

LEMMA AnswersStutter ==
  ASSUME AnswersInv, UNCHANGED wiringVars
  PROVE  AnswersInv'
<1>1. UNCHANGED <<bench, i2c, spi, adc, pads, peers, events, host, job, todo, due, got, plan>>
  BY DEF wiringVars, wires, driver
<1>2. WiringTyped'
  BY <1>1 DEF AnswersInv, WiringTyped, ControllersTyped, DriverTyped
<1>3. Quiet' /\ AdcInv'
  BY <1>1 DEF AnswersInv, Quiet, AdcInv, AdcAnswers
<1>4. SpiInv'
  <2>1. SpiSeen' = SpiSeen
    BY <1>1 DEF SpiSeen
  <2>2. SpiRests => SpiRests'
    BY <1>1, <2>1 DEF SpiRests
  <2>3. ASSUME NEW orig, NEW p, SpiTodo(p), SpiPlanned(orig), SpiLines(p), SpiArrived(orig, p)
        PROVE  SpiTodo(p)' /\ SpiPlanned(orig)' /\ SpiLines(p)' /\ SpiArrived(orig, p)'
    BY <1>1, <2>1, <2>3 DEF SpiTodo, SpiPlanned, SpiLines, SpiArrived
  <2> QED
    BY <1>1, <2>1, <2>2, <2>3 DEF AnswersInv, SpiInv
<1>5. I2cInv'
  <2>1. I2cSeen' = I2cSeen
    BY <1>1 DEF I2cSeen
  <2>2. I2cRests => I2cRests'
    BY <1>1, <2>1 DEF I2cRests
  <2>3. I2cStopping => I2cStopping'
    BY <1>1, <2>1 DEF I2cStopping
  <2>4. ASSUME NEW r, I2cRunning(r)
        PROVE  I2cRunning(r)'
    BY <1>1, <2>1, <2>4 DEF I2cRunning
  <2>5. Failed' = Failed
    BY <1>1 DEF Failed
  <2> QED
    BY <1>1, <2>1, <2>2, <2>3, <2>4, <2>5 DEF AnswersInv, I2cInv
<1> QED
  BY <1>2, <1>3, <1>4, <1>5 DEF AnswersInv

(* For every bench, with devices attached or a host that answers for them, *)
(* by interrupts or DMA, for any registers, any transactions within the    *)
(* assumptions and whatever was given up before: what a driver is brought  *)
(* is what the devices held, it is told of a nack exactly if a device is   *)
(* absent, and the devices are left as the transaction should leave them   *)
(* (src/src/peripherals/lpi2c.rs:177, lpspi.rs:153, mod.rs:516,            *)
(* adc.rs:100).                                                            *)
THEOREM DriversGetTheAnswers == Spec => []AnswersMatchPeers
<1>1. Init => AnswersInv
  BY AnswersStart DEF Init
<1>2. AnswersInv /\ [Next]_vars => AnswersInv'
  <2> SUFFICES ASSUME AnswersInv, [Next]_vars PROVE AnswersInv'
    OBVIOUS
  <2>1. CASE UNCHANGED wiringVars
    BY <2>1, AnswersStutter
  <2>2. CASE WiringNext
    BY <2>2, AnswersStep
  <2> QED
    BY <2>1, <2>2 DEF Next, Only, vars
<1>3. AnswersInv => AnswersMatchPeers
  BY AnswersMatch
<1> QED
  BY <1>1, <1>2, <1>3, PTL DEF Spec
=============================================================================
