------------------------------ MODULE FlexCan ------------------------------
(***************************************************************************)
(* One FlexCAN controller of src/src/peripherals/flexcan.rs: message       *)
(* buffers that transmit when their CS word says so, and take a frame in   *)
(* when they are armed.                                                    *)
(*                                                                         *)
(* A buffer is a record of the fields of its CS, ID and data words.  The   *)
(* code has 64 buffers and 32 flags: FlagBits is the width of IFLAG1.      *)
(***************************************************************************)
EXTENDS Integers, Sequences, FiniteSetsExt

CONSTANTS
  NumMb, FlagBits,
  StdBits, ExtBits,   \* widths of the two kinds of identifier: 11 and 29
  DataBytes           \* bytes of the data words: 8

Mbs == 0 .. NumMb - 1

CanNew ==
  [mcr    |-> {"MDIS", "FRZ", "HALT"}, lpb |-> FALSE, imask |-> {}, iflag |-> {},
   mb     |-> [m \in Mbs |-> [code |-> "none", ide |-> FALSE, rtr |-> FALSE, dlc |-> 0,
                              id |-> 0, data |-> [k \in 1 .. DataBytes |-> 0]]],
   tx     |-> <<>>]

(* MCR as it reads: frozen or disabled shows in FRZACK and NOTRDY.         *)
McrRead(c) ==
  c.mcr \union (IF "MDIS" \in c.mcr \/ {"FRZ", "HALT"} \subseteq c.mcr
                THEN {"FRZACK", "NOTRDY"} ELSE {})

WriteCanMcr(c, bits) == [c EXCEPT !.mcr = bits \ {"SOFTRST"}]
WriteIflag(c, flags) == [c EXCEPT !.iflag = @ \ flags]

CanIrq(c) == c.iflag \intersect c.imask # {}

(* The flag of a buffer: 1 << mb in 32 bits.                               *)
Flag(m) == m % FlagBits

(* Where an identifier lies in the ID word.                                *)
IdShift == 2 ^ (ExtBits - StdBits)
IdField(frame) ==
  IF frame.extended THEN frame.id % (2 ^ ExtBits) ELSE (frame.id % (2 ^ StdBits)) * IdShift
IdOf(ide, field) ==
  IF ide THEN field % (2 ^ ExtBits) ELSE (field \div IdShift) % (2 ^ StdBits)

FrameOf(b) ==
  [id |-> IdOf(b.ide, b.id), extended |-> b.ide, rtr |-> b.rtr,
   data |-> SubSeq(b.data, 1, Min({b.dlc, DataBytes}))]

Padded(data) == [k \in 1 .. DataBytes |-> IF k <= Len(data) THEN data[k] ELSE 0]

Filled(frame) ==
  [code |-> "full", ide |-> frame.extended, rtr |-> frame.rtr,
   dlc |-> Min({Len(frame.data), DataBytes}), id |-> IdField(frame), data |-> Padded(frame.data)]

(* Mutant of EmptyMbs: a buffer takes a frame over the one it has.          *)
UnlockedMbs(c) == {m \in Mbs : c.mb[m].code \in {"empty", "full"}}

EmptyMbs(c) == {m \in Mbs : c.mb[m].code = "empty"}

(* A frame goes to the first empty buffer, and is lost without one.        *)
Delivered(c, frame) ==
  IF EmptyMbs(c) = {} THEN c
  ELSE LET m == Min(EmptyMbs(c))
       IN  [c EXCEPT !.mb[m] = Filled(frame), !.iflag = @ \union {Flag(m)}]

(* A write of the CS word [code, ide, rtr, dlc] of a buffer.               *)
WriteCs(c, m, cs) ==
  LET written == [c EXCEPT !.mb[m] = [code |-> cs.code, ide |-> cs.ide, rtr |-> cs.rtr,
                                      dlc |-> cs.dlc, id |-> @.id, data |-> @.data]]
      sent    == [written EXCEPT !.mb[m].code = "inactive", !.iflag = @ \union {Flag(m)}]
      frame   == FrameOf(written.mb[m])
      heard   == IF c.lpb THEN Delivered(sent, frame) ELSE sent
  IN  IF cs.code = "tx" THEN [heard EXCEPT !.tx = Append(@, frame)] ELSE written

(* The identifier and data words.                                          *)
WriteBody(c, m, field, data) == [c EXCEPT !.mb[m].id = field, !.mb[m].data = Padded(data)]

TakeTx(c) == [c EXCEPT !.tx = <<>>]
=============================================================================
