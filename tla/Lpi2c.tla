------------------------------- MODULE Lpi2c -------------------------------
(***************************************************************************)
(* One LPI2C controller of src/src/peripherals/lpi2c.rs with the register  *)
(* files (MemI2cDevice) on its bus.  A command acts at once on the device  *)
(* that is addressed; in external mode it is only recorded, and the host   *)
(* answers.                                                                *)
(*                                                                         *)
(* A controller is a record, a register the set of its bits, a bank maps   *)
(* the addresses that are present to their devices.                        *)
(***************************************************************************)
EXTENDS Integers, Sequences

CONSTANTS RegCount, NoDevice

(***************************************************************************)
(* The device                                                              *)
(***************************************************************************)
Byte    == 0 .. RegCount - 1
RegFile == [regs : [Byte -> Byte], ptr : Byte, expect_ptr : BOOLEAN]

I2cDevice(regs) == [regs |-> regs, ptr |-> 0, expect_ptr |-> TRUE]

Started(d, read) == [d EXCEPT !.expect_ptr = ~read]

(* Mutant of Stepped: the pointer does not wrap.                           *)
SteppedOn(ptr) == ptr + 1

Stepped(ptr) == (ptr + 1) % RegCount

Stored(d, byte) ==
  IF d.expect_ptr THEN [d EXCEPT !.ptr = byte, !.expect_ptr = FALSE]
  ELSE [d EXCEPT !.regs[d.ptr] = byte, !.ptr = Stepped(@)]

(* What n reads bring, and the device after them.                          *)
Fetched(d, n) == [k \in 1 .. n |-> d.regs[(d.ptr + k - 1) % RegCount]]
FetchedFrom(d, n) == [d EXCEPT !.ptr = (@ + n) % RegCount]

(***************************************************************************)
(* The controller                                                          *)
(***************************************************************************)
I2cNew(external) ==
  [external |-> external, men |-> FALSE, mier |-> {}, rdde |-> FALSE,
   sticky |-> {}, rx |-> <<>>, active |-> NoDevice, ext_busy |-> FALSE]

Msr(c) ==
  c.sticky \union (IF c.men THEN {"TDF"} ELSE {})
           \union (IF c.rx # <<>> THEN {"RDF"} ELSE {})
           \union (IF c.active # NoDevice \/ c.ext_busy THEN {"MBF"} ELSE {})

(* Mutant of I2cReset: the receive FIFO is not emptied.                    *)
I2cResetKeepsFifo(c) == [I2cNew(c.external) EXCEPT !.rdde = c.rdde, !.rx = c.rx]

(* A reset keeps MDER.                                                     *)
I2cReset(c) == [I2cNew(c.external) EXCEPT !.rdde = c.rdde]

WriteMcr(c, bits) ==
  LET fresh == IF "RST" \in bits THEN I2cReset(c) ELSE c
  IN  [fresh EXCEPT !.men = "MEN" \in bits, !.rx = IF "RRF" \in bits THEN <<>> ELSE @]

WriteMsr(c, bits) == [c EXCEPT !.sticky = @ \ (bits \intersect {"EPF", "SDF", "NDF"})]

(* A read of MRDR: the oldest byte, if there is one.                       *)
ReadMrdr(c) == [c EXCEPT !.rx = IF @ = <<>> THEN @ ELSE Tail(@)]

I2cIrq(c)        == Msr(c) \intersect c.mier # {}
I2cDmaRequest(c) == c.rdde /\ c.rx # <<>>

(* The host's answers.                                                     *)
RxPushed(c, bytes) == [c EXCEPT !.rx = @ \o bytes]
SetNack(c) == [c EXCEPT !.sticky = @ \union {"NDF"}, !.ext_busy = FALSE]

(***************************************************************************)
(* The commands of MTDR: [op, addr, read, byte, count], as far as op needs *)
(* them.  A pair of a controller and the bank on its bus.                  *)
(***************************************************************************)
Bus(c, bank) == [c |-> c, bank |-> bank]

Nacked(c) == [c EXCEPT !.sticky = @ \union {"NDF"}]

Start(c, bank, cmd) ==
  IF cmd.addr \in DOMAIN bank
  THEN Bus([c EXCEPT !.active = cmd.addr], [bank EXCEPT ![cmd.addr] = Started(@, cmd.read)])
  ELSE Bus([Nacked(c) EXCEPT !.active = NoDevice], bank)

Transmit(c, bank, cmd) ==
  IF c.active = NoDevice THEN Bus(Nacked(c), bank)
  ELSE Bus(c, [bank EXCEPT ![c.active] = Stored(@, cmd.byte)])

Receive(c, bank, cmd) ==
  IF c.active = NoDevice THEN Bus(c, bank)
  ELSE Bus(IF cmd.op = "RX" THEN RxPushed(c, Fetched(bank[c.active], cmd.count)) ELSE c,
           [bank EXCEPT ![c.active] = FetchedFrom(@, cmd.count)])

Stop(c) == [c EXCEPT !.active = NoDevice, !.ext_busy = FALSE, !.sticky = @ \union {"SDF", "EPF"}]

Local(c, bank, cmd) ==
  CASE cmd.op = "START" -> Start(c, bank, cmd)
    [] cmd.op = "TX"    -> Transmit(c, bank, cmd)
    [] cmd.op \in {"RX", "DISCARD"} -> Receive(c, bank, cmd)
    [] cmd.op = "STOP"  -> Bus(Stop(c), bank)

External(c, cmd) ==
  CASE cmd.op = "START" -> [c EXCEPT !.ext_busy = TRUE]
    [] cmd.op = "STOP"  -> Stop(c)
    [] OTHER            -> c

Commanded(c, bank, cmd) ==
  IF c.external THEN Bus(External(c, cmd), bank) ELSE Local(c, bank, cmd)
=============================================================================
