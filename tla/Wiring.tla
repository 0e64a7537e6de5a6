------------------------------- MODULE Wiring -------------------------------
(***************************************************************************)
(* Firmware drivers of the LPI2C, LPSPI and ADC, and what is wired to the  *)
(* other end: devices attached to the controller, or an embedding host     *)
(* that learns of the firmware's writes from the bus-event trace of        *)
(* src/src/peripherals/mod.rs, between batches of steps, and answers for   *)
(* the devices it has.                                                     *)
(*                                                                         *)
(* A driver makes one transaction at a time, a sequence of register        *)
(* writes, and takes the words due when the interrupt line or the DMA      *)
(* request says so.  It may give a transaction up, with a reset of the     *)
(* controller, once the host has seen what it wrote.                       *)
(***************************************************************************)
EXTENDS Lpi2c, Lpspi, Gpio, Adc, SequencesExt

CONSTANTS
  Benches,   \* what is wired: [kind, external, dma, peers], see Peers below
  JobsOf,    \* the transactions the driver of each kind makes
  None

VARIABLES
  bench,     \* the bench this behaviour is about
  i2c, spi, adc, pads,   \* the controllers; pads drives the chip selects
  peers,     \* i2c: a bank; spi: the attached device, or those of the chip selects
  events,    \* the trace, since the host last took it
  host,      \* external: the address the host serves, or the pins it sees low
  job, todo, due, got,   \* transaction, writes left of it, words due, words taken
  plan       \* [answer, peers]: what the transaction should bring and leave

(* What a driver asks for, and what it is wired to.                        *)
Word == 0 .. 2 ^ WordBits - 1

IsSegment(seg) ==
  seg.read \in BOOLEAN /\ seg.bytes \in Seq(Byte) /\ seg.skip \in Nat /\ seg.count \in Nat

IsBench(b) ==
  /\ b.kind \in {"i2c", "spi", "adc"} /\ b.external \in BOOLEAN /\ b.dma \in BOOLEAN
  /\ b.kind = "i2c" => NoDevice \notin DOMAIN b.peers /\ b.peers \in [DOMAIN b.peers -> RegFile]
  /\ b.kind = "spi" => IF b.external THEN b.peers \in [DOMAIN b.peers -> Seq(Word)]
                       ELSE b.peers \in Seq(Seq(Word)) /\ Len(b.peers) <= 1

ASSUME WiringAssumption ==
  /\ RegCount \in Nat \ {0} /\ WordBits \in Nat \ {0} /\ Idle \in Word
  /\ AdcValues \subseteq Nat /\ AdcValues # {}
  /\ \A b \in Benches : IsBench(b)
  /\ \A kind \in {"i2c", "spi", "adc"} : None \notin JobsOf[kind]
  /\ \A j \in JobsOf["i2c"] :
       j \in Seq({j[k] : k \in DOMAIN j}) /\ j # <<>> /\ \A k \in DOMAIN j : IsSegment(j[k])
  /\ JobsOf["spi"] \subseteq [pin : Pins, bits : 1 .. WordBits, words : Seq(Word)]
  /\ JobsOf["adc"] \subseteq Seq([slot : Slots, channel : Nat])

(* A host learns of a write when the batch of steps is over, so a driver   *)
(* goes on after an address that is absent: it is in the last segment.  A  *)
(* conversion overwrites the result that its slot still holds.             *)
ASSUME TransactionAssumption ==
  /\ \A b \in Benches : b.kind = "i2c" /\ b.external =>
       \A j \in JobsOf["i2c"] : \A k \in 1 .. Len(j) - 1 : j[k].addr \in DOMAIN b.peers
  /\ \A j \in JobsOf["adc"] : \A k, l \in DOMAIN j : j[k].slot = j[l].slot => k = l

(* What the provers do not know of powers.                                 *)
ASSUME WordAssumption == \A n \in 0 .. WordBits : 2 ^ n \in Nat \ {0} /\ 2 ^ n <= 2 ^ WordBits

wires      == <<i2c, spi, adc, pads, peers, events>>
driver     == <<job, todo, due, got, plan>>
wiringVars == <<bench, wires, host, driver>>

(***************************************************************************)
(* Transactions as register writes                                         *)
(***************************************************************************)
Skips(seg) == IF seg.skip = 0 THEN <<>> ELSE <<[op |-> "DISCARD", count |-> seg.skip]>>

SegmentWrites(seg) ==
  <<[op |-> "START", addr |-> seg.addr, read |-> seg.read]>>
    \o (IF seg.read THEN Skips(seg) \o <<[op |-> "RX", count |-> seg.count]>>
        ELSE [k \in DOMAIN seg.bytes |-> [op |-> "TX", byte |-> seg.bytes[k]]])

Writes(j) ==
  CASE bench.kind = "i2c" ->
         FlattenSeq([k \in DOMAIN j |-> SegmentWrites(j[k])]) \o <<[op |-> "STOP"]>>
    [] bench.kind = "spi" ->
         <<[op |-> "TCR", bits |-> j.bits], [op |-> "SELECT", pin |-> j.pin]>>
           \o [k \in DOMAIN j.words |-> [op |-> "TDR", word |-> j.words[k]]]
           \o <<[op |-> "RELEASE", pin |-> j.pin]>>
    [] bench.kind = "adc" ->
         [k \in DOMAIN j |-> [op |-> "HC", slot |-> j[k].slot, channel |-> j[k].channel]]

(***************************************************************************)
(* What a transaction should bring and leave, as the devices have it       *)
(***************************************************************************)
(* The answer to a transaction that was not acknowledged.                  *)
Nack == <<None>>

Absent(bank, j) == {k \in DOMAIN j : j[k].addr \notin DOMAIN bank}

(* A register file: the first byte of a write sets the pointer, the others *)
(* are stored from there, a read continues from the pointer.               *)
First(d, seg) == IF seg.read \/ seg.bytes = <<>> THEN d.ptr ELSE seg.bytes[1]
Moved(seg)    == IF seg.read THEN seg.skip + seg.count ELSE Max({0, Len(seg.bytes) - 1})

(* The moves that store in register r.                                     *)
StoresIn(d, seg, r) ==
  {k \in 1 .. Moved(seg) : ~seg.read /\ (First(d, seg) + k - 1) % RegCount = r}

After(bank, seg) ==
  LET d == bank[seg.addr]
      stores(r) == StoresIn(d, seg, r)
  IN  [bank EXCEPT ![seg.addr].ptr  = (First(d, seg) + Moved(seg)) % RegCount,
                   ![seg.addr].regs = [r \in DOMAIN d.regs |->
                      IF stores(r) = {} THEN d.regs[r] ELSE seg.bytes[Max(stores(r)) + 1]]]

ReadBack(bank, seg) ==
  IF ~seg.read THEN <<>>
  ELSE [k \in 1 .. seg.count |-> bank[seg.addr].regs[(bank[seg.addr].ptr + seg.skip + k - 1) % RegCount]]

(* The segments before the first whose address is absent.                  *)
Reached(bank, j) == IF Absent(bank, j) = {} THEN Len(j) ELSE Min(Absent(bank, j)) - 1

Extended(p, seg) == [answer |-> p.answer \o ReadBack(p.peers, seg), peers |-> After(p.peers, seg)]

I2cPlan(bank, j) ==
  LET reached == Reached(bank, j)
      after[k \in 0 .. reached] ==
        IF k = 0 THEN [answer |-> <<>>, peers |-> bank] ELSE Extended(after[k - 1], j[k])
  IN  IF reached = Len(j) THEN after[reached] ELSE [after[reached] EXCEPT !.answer = Nack]

Nth(replies, k) == IF k <= Len(replies) THEN replies[k] ELSE Idle

SpiPlan(devices, j) ==
  LET at == IF bench.external THEN j.pin ELSE 1
  IN  [answer |-> [k \in DOMAIN j.words |->
                     (IF at \in DOMAIN devices THEN Nth(devices[at], k) ELSE
                      IF bench.external THEN Idle ELSE j.words[k]) % (2 ^ j.bits)],
       peers  |-> [d \in DOMAIN devices |->
                     IF d = at THEN SubSeq(devices[d], Len(j.words) + 1, Len(devices[d]))
                     ELSE devices[d]]]

PlanOf(j) ==
  CASE bench.kind = "i2c" -> I2cPlan(peers, j)
    [] bench.kind = "spi" -> SpiPlan(peers, j)
    [] bench.kind = "adc" -> [answer |-> <<>>, peers |-> peers]

(***************************************************************************)
(* The driver                                                              *)
(***************************************************************************)
(* trace_bus_write, behind the dispatch of a write.                        *)
Traced(event) == events' = IF bench.external THEN Append(events, event) ELSE events

CsEvent(g) == [from |-> "gpio", dr |-> g.dr, gdir |-> g.gdir]

Begin ==
  /\ job = None
  /\ job' \in JobsOf[bench.kind]
  /\ plan' = PlanOf(job')
  /\ todo' = Writes(job') /\ due' = 0 /\ got' = <<>>
  /\ UNCHANGED <<bench, wires, host>>

Write == Head(todo)
Failed == "NDF" \in Msr(i2c)

(* The words a write makes due.                                            *)
Dues(w) == CASE w.op = "RX" -> w.count [] w.op \in {"TDR", "HC"} -> 1 [] OTHER -> 0

Issuing(ops) ==
  /\ todo # <<>> /\ Write.op \in ops /\ ~Failed
  /\ todo' = Tail(todo) /\ due' = due + Dues(Write)
  /\ UNCHANGED <<bench, host, job, got>>

(* MTDR.                                                                   *)
IssueCommand ==
  /\ Issuing({"START", "TX", "RX", "DISCARD", "STOP"})
  /\ \E after \in {Commanded(i2c, peers, Write)} : i2c' = after.c /\ peers' = after.bank
  /\ Traced([from |-> "i2c", cmd |-> Write])
  /\ UNCHANGED <<spi, adc, pads, plan>>

(* TCR, TDR: an event only while the module is enabled.  With DMA, words   *)
(* go out at the request of the transmitter.                               *)
SetFrame ==
  /\ Issuing({"TCR"})
  /\ spi' = [spi EXCEPT !.framesz = Write.bits - 1]
  /\ UNCHANGED <<i2c, adc, pads, peers, events, plan>>

IssueWord ==
  /\ Issuing({"TDR"}) /\ (bench.dma => SpiDmaTxRequest(spi))
  /\ LET attached == IF bench.external THEN <<>> ELSE peers
     IN  /\ spi' = Shifted(spi, attached, Write.word)
         /\ peers' = IF bench.external THEN peers ELSE ShiftedAgainst(spi, attached)
  /\ IF spi.men THEN Traced([from |-> "spi", word |-> Masked(spi, Write.word), bits |-> FrameBits(spi)])
     ELSE UNCHANGED events
  /\ UNCHANGED <<i2c, adc, pads, plan>>

(* The pin of a chip select, which is active low, by DR_CLEAR and DR_SET,  *)
(* by a write of DR, or by DR_TOGGLE where it has to change.               *)
Selected(g, pin) ==
  {DrClear(g, {pin}), WriteDr(g, g.dr \ {pin}), DrToggle(g, g.dr \intersect {pin})}
Released(g, pin) ==
  {DrSet(g, {pin}), WriteDr(g, g.dr \union {pin}), DrToggle(g, {pin} \ g.dr)}

IssueSelect ==
  /\ Issuing({"SELECT", "RELEASE"})
  /\ pads' \in IF Write.op = "SELECT" THEN Selected(pads, Write.pin) ELSE Released(pads, Write.pin)
  /\ Traced(CsEvent(pads'))
  /\ UNCHANGED <<i2c, spi, adc, peers, plan>>

(* HC: what the input is at now is what the slot should bring.             *)
IssueConversion ==
  /\ Issuing({"HC"})
  /\ adc' = WriteHc(adc, Write.slot, [adch |-> Write.channel, aien |-> ~bench.dma])
  /\ plan' = [plan EXCEPT !.answer = Append(@, adc.channels[Min({Write.channel, Channels - 1})])]
  /\ UNCHANGED <<i2c, spi, pads, peers, events>>

(* A word that is due: in the interrupt handler, or by the eDMA.           *)
Called(irq, request) == due > 0 /\ ~Failed /\ IF bench.dma THEN request ELSE irq

Took(word) ==
  /\ got' = Append(got, word) /\ due' = due - 1
  /\ UNCHANGED <<bench, host, job, todo, plan, pads, peers, events>>

TakeByte ==
  /\ Called(I2cIrq(i2c), I2cDmaRequest(i2c)) /\ i2c.rx # <<>>
  /\ Took(Head(i2c.rx)) /\ i2c' = ReadMrdr(i2c)
  /\ UNCHANGED <<spi, adc>>

TakeWord ==
  /\ Called(SpiIrq(spi), SpiDmaRxRequest(spi)) /\ spi.rx # <<>>
  /\ Took(Head(spi.rx)) /\ spi' = ReadRdr(spi)
  /\ UNCHANGED <<i2c, adc>>

TakeResult ==
  /\ Called(AdcIrq(adc), AdcDmaRequest(adc))
  /\ LET slot == job[Len(got) + 1].slot
     IN  slot \in adc.coco /\ Took(adc.r[slot]) /\ adc' = ReadR(adc, slot)
  /\ UNCHANGED <<i2c, spi>>

(* NDF interrupts the driver: it stops and drops what it has.              *)
SeeNack ==
  /\ job # None /\ I2cIrq(i2c) /\ Failed
  /\ i2c' \in {WriteMcr(WriteMsr(i2c, {"NDF"}), {"MEN", "RRF"})}
  /\ todo' = (IF todo = <<>> THEN todo ELSE <<Last(todo)>>) /\ due' = 0 /\ got' = Nack
  /\ UNCHANGED <<bench, spi, adc, pads, peers, events, host, job, plan>>

(* The driver looks at the flags when the host has seen its writes.        *)
Complete == job # None /\ todo = <<>> /\ due = 0 /\ events = <<>> /\ ~Failed

Rest == job' = None /\ todo' = <<>> /\ due' = 0 /\ got' = <<>> /\ plan' = None

Finish ==
  /\ Complete
  /\ CASE bench.kind = "i2c" -> {"SDF", "EPF"} \subseteq Msr(i2c)
       [] bench.kind = "spi" -> {"WCF", "FCF", "TCF"} \subseteq Sr(spi)
       [] bench.kind = "adc" -> TRUE
  /\ i2c' = WriteMsr(i2c, {"SDF", "EPF"}) /\ spi' = WriteSr(spi, {"WCF", "FCF", "TCF"})
  /\ Rest /\ UNCHANGED <<bench, adc, pads, peers, events, host>>

(* The set-up of the controllers, which a reset of theirs makes necessary. *)
I2cReady(c) == [WriteMcr(c, {"MEN"}) EXCEPT !.mier = {"NDF"} \union IF bench.dma THEN {} ELSE {"RDF"}]
SpiReady(s) == [WriteCr(s, {"MEN"}) EXCEPT !.ier = IF bench.dma THEN {} ELSE {"RDF"}]

GiveUp ==
  /\ job # None /\ events = <<>>
  /\ i2c' = I2cReady(WriteMcr(i2c, {"RST"})) /\ spi' = SpiReady(WriteCr(spi, {"RST"}))
  /\ adc' = [adc EXCEPT !.hc = [n \in Slots |-> [adch |-> Disabled, aien |-> FALSE]], !.coco = {}]
  /\ pads' = DrSet(pads, Pins)
  /\ IF bench.kind = "spi" THEN Traced(CsEvent(pads')) ELSE UNCHANGED events
  /\ Rest /\ UNCHANGED <<bench, peers, host>>

(***************************************************************************)
(* The other end                                                           *)
(***************************************************************************)
Wire(c, devices, at) == [c |-> c, devices |-> devices, at |-> at]

HostServes(w, event) ==
  LET cmd == event.cmd IN
  CASE cmd.op = "START" ->
         IF cmd.addr \in DOMAIN w.devices
         THEN Wire(w.c, [w.devices EXCEPT ![cmd.addr] = Started(@, cmd.read)], cmd.addr)
         ELSE Wire(SetNack(w.c), w.devices, NoDevice)
    [] cmd.op = "STOP" -> Wire(w.c, w.devices, NoDevice)
    [] cmd.op = "TX" ->
         IF w.at = NoDevice THEN Wire(SetNack(w.c), w.devices, w.at)
         ELSE Wire(w.c, [w.devices EXCEPT ![w.at] = Stored(@, cmd.byte)], w.at)
    [] cmd.op \in {"RX", "DISCARD"} ->
         IF w.at = NoDevice THEN w
         ELSE Wire(IF cmd.op = "RX" THEN RxPushed(w.c, Fetched(w.devices[w.at], cmd.count)) ELSE w.c,
                   [w.devices EXCEPT ![w.at] = FetchedFrom(@, cmd.count)], w.at)

(* Exactly one device selected answers; a floating line reads Idle.        *)
HostShifts(w, event) ==
  IF event.from = "gpio" THEN Wire(w.c, w.devices, event.gdir \ event.dr)
  ELSE IF \E d \in DOMAIN w.devices : w.at = {d}
       THEN LET d == CHOOSE d \in w.at : TRUE
            IN  Wire(Answered(w.c, <<Miso(w.devices[d]) % (2 ^ event.bits)>>),
                     [w.devices EXCEPT ![d] = Consumed(@)], w.at)
       ELSE Wire(Answered(w.c, <<Idle % (2 ^ event.bits)>>), w.devices, w.at)

HostTakes(w, event) == IF event.from = "i2c" THEN HostServes(w, event) ELSE HostShifts(w, event)

(* The same from a value, as TLC would compute w anew wherever it occurs.  *)
TakesNext(w, event) == CHOOSE x \in {HostTakes(v, event) : v \in {w}} : TRUE

Served(w, list) ==
  LET after[k \in 0 .. Len(list)] == IF k = 0 THEN w ELSE TakesNext(after[k - 1], list[k])
  IN  after[Len(list)]

HostTakesEvents ==
  /\ events # <<>> /\ events' = <<>>
  /\ \E w \in {Served(Wire(IF bench.kind = "i2c" THEN i2c ELSE spi, peers, host), events)} :
        /\ peers' = w.devices /\ host' = w.at
        /\ IF bench.kind = "i2c" THEN i2c' = w.c /\ UNCHANGED spi ELSE spi' = w.c /\ UNCHANGED i2c
  /\ UNCHANGED <<bench, adc, pads, driver>>

HostSetsChannel ==
  /\ bench.kind = "adc"
  /\ \E ch \in 0 .. Channels - 1, v \in AdcValues :
        v # adc.channels[ch] /\ adc' = SetChannel(adc, ch, v)
  /\ UNCHANGED <<bench, i2c, spi, pads, peers, events, host, driver>>

(***************************************************************************)
(* The specification                                                       *)
(***************************************************************************)
WiringInit ==
  /\ bench \in Benches /\ peers = bench.peers
  /\ i2c = I2cReady([I2cNew(bench.external) EXCEPT !.rdde = bench.dma])
  /\ spi = SpiReady([SpiNew(bench.external) EXCEPT !.der = IF bench.dma THEN {"TDDE", "RDDE"} ELSE {}])
  /\ adc = [AdcNew([ch \in 0 .. Channels - 1 |-> Min(AdcValues)]) EXCEPT !.dmaen = bench.dma]
  /\ pads = [DrSet(GpioNew, Pins) EXCEPT !.gdir = Pins]
  /\ events = <<>> /\ host = IF bench.kind = "i2c" THEN NoDevice ELSE {}
  /\ job = None /\ todo = <<>> /\ due = 0 /\ got = <<>> /\ plan = None

Issue == IssueCommand \/ SetFrame \/ IssueWord \/ IssueSelect \/ IssueConversion
Take  == TakeByte \/ TakeWord \/ TakeResult

WiringServes == Issue \/ Take \/ SeeNack \/ Finish \/ HostTakesEvents
WiringNext   == WiringServes \/ Begin \/ GiveUp \/ HostSetsChannel

(***************************************************************************)
(* Correctness                                                             *)
(***************************************************************************)
WiringTypes ==
  /\ bench \in Benches
  /\ Msr(i2c) \subseteq {"TDF", "RDF", "EPF", "SDF", "NDF", "MBF"}
  /\ Sr(spi) \subseteq {"TDF", "RDF", "WCF", "FCF", "TCF"}
  /\ bench.kind = "i2c" =>
       \A a \in DOMAIN peers : peers[a].ptr \in 0 .. RegCount - 1 /\ peers[a].expect_ptr \in BOOLEAN
  /\ \A k \in DOMAIN spi.rx : spi.rx[k] \in 0 .. 2 ^ WordBits - 1
  /\ adc.coco \subseteq Slots /\ \A n \in Slots : adc.r[n] \in AdcValues \union {0}
  /\ due \in Nat /\ (job = None => todo = <<>>)
  /\ events # <<>> => bench.external

(* What the devices hold, without the state of a transaction.              *)
Held(devices) ==
  IF bench.kind = "i2c" THEN [a \in DOMAIN devices |-> <<devices[a].regs, devices[a].ptr>>] ELSE devices

(* Attached devices or a host, interrupts or DMA, whatever was given up    *)
(* before: a transaction brings what the devices hold, a nack exactly if   *)
(* one is absent, and leaves what it should (src/src/peripherals/          *)
(* lpi2c.rs:177, lpspi.rs:153, mod.rs:516, adc.rs:100).                    *)
AnswersMatchPeers ==
  Complete => got = plan.answer /\ Held(peers) = Held(plan.peers)
=============================================================================
