----------------------------- MODULE Mailboxes -----------------------------
(***************************************************************************)
(* A driver of the FlexCAN message buffers: it arms the buffers it         *)
(* receives in, leaves freeze mode, and serves one flagged buffer at a     *)
(* time: read the frame, clear the flag, arm the buffer again.  It sends   *)
(* from one buffer.  The host is the other node on the bus.                *)
(***************************************************************************)
EXTENDS FlexCan, SequencesExt

CONSTANTS
  RxMbs, TxMb,       \* the buffers of the driver, below FlagBits
  Incoming,          \* frames the other node sends, each once
  Outgoing,          \* frames the driver sends, each once
  NoMb

(* The frames of the bus.                                                  *)
CanFrame ==
  {f \in [id : Nat, extended : BOOLEAN, rtr : BOOLEAN, data : Seq(Nat)] :
     f.id < 2 ^ (IF f.extended THEN ExtBits ELSE StdBits) /\ Len(f.data) <= DataBytes}

ASSUME BufferAssumption ==
  /\ NumMb \in Nat /\ FlagBits \in Nat \ {0} /\ DataBytes \in Nat
  /\ RxMbs \union {TxMb} \subseteq 0 .. Min({NumMb, FlagBits}) - 1 /\ TxMb \notin RxMbs
  /\ Incoming \union Outgoing \subseteq CanFrame /\ Incoming \intersect Outgoing = {}

(* What the provers do not know of powers.                                 *)
ASSUME WidthAssumption == \A k \in {StdBits, ExtBits, ExtBits - StdBits} : 2 ^ k \in Nat \ {0}

VARIABLES
  can,
  serving,   \* the buffer being served, and the step in that
  sending,   \* the transmit buffer: "free", "filled" or "busy"
  frames,    \* frames read, in order
  asked,     \* frames written to the transmit buffer, in order
  wire,      \* frames the host took off the bus
  accepted   \* frames that found a buffer

mailboxVars == <<can, serving, sending, frames, asked, wire, accepted>>

At(m, step) == [mb |-> m, step |-> step]

Cs(code, frame) == [code |-> code, ide |-> frame.extended, rtr |-> frame.rtr, dlc |-> Len(frame.data)]
Armed(c, m) == WriteCs(c, m, [code |-> "empty", ide |-> FALSE, rtr |-> FALSE, dlc |-> 0])

(* The set-up: IMASK1, CTRL1.LPB, the buffers, then MCR; the driver waits  *)
(* for NOTRDY to go.                                                       *)
Prepare ==
  /\ serving.step = "setup"
  /\ IF can.imask = {}
     THEN \E lpb \in BOOLEAN :
            can' = [can EXCEPT !.imask = {Flag(m) : m \in RxMbs \union {TxMb}}, !.lpb = lpb]
     ELSE \E m \in {m \in RxMbs : can.mb[m].code = "none"} : can' = Armed(can, m)
  /\ UNCHANGED <<serving, sending, frames, asked, wire, accepted>>

LeaveFreeze ==
  /\ serving.step = "setup" /\ can.imask # {}
  /\ \A m \in RxMbs : can.mb[m].code # "none"
  /\ can' = WriteCanMcr(can, {"SOFTRST"})
  /\ serving' = At(NoMb, "ready")
  /\ UNCHANGED <<sending, frames, asked, wire, accepted>>

(* The interrupt handler.                                                  *)
Serve ==
  /\ serving = At(NoMb, "ready") /\ CanIrq(can) /\ "NOTRDY" \notin McrRead(can)
  /\ \E m \in RxMbs \union {TxMb} :
        Flag(m) \in can.iflag /\ serving' = At(m, IF m = TxMb THEN "clear" ELSE "read")
  /\ UNCHANGED <<can, sending, frames, asked, wire, accepted>>

ReadFrame ==
  /\ serving.step = "read"
  /\ frames' = Append(frames, FrameOf(can.mb[serving.mb]))
  /\ serving' = At(serving.mb, "clear")
  /\ UNCHANGED <<can, sending, asked, wire, accepted>>

ClearFlag ==
  /\ serving.step = "clear"
  /\ can' = WriteIflag(can, {Flag(serving.mb)})
  /\ IF serving.mb = TxMb THEN serving' = At(NoMb, "ready") /\ sending' = "free"
     ELSE serving' = At(serving.mb, "arm") /\ UNCHANGED sending
  /\ UNCHANGED <<frames, asked, wire, accepted>>

Arm ==
  /\ serving.step = "arm"
  /\ can' = Armed(can, serving.mb)
  /\ serving' = At(NoMb, "ready")
  /\ UNCHANGED <<sending, frames, asked, wire, accepted>>

(* The sender: ID and data words, then the CS word.                        *)
Fill ==
  /\ serving = At(NoMb, "ready") /\ sending = "free"
  /\ \E frame \in Outgoing \ Range(asked) :
        /\ asked' = Append(asked, frame)
        /\ can' = WriteBody(can, TxMb, IdField(frame), frame.data)
  /\ sending' = "filled"
  /\ UNCHANGED <<serving, frames, wire, accepted>>

Launch ==
  /\ serving = At(NoMb, "ready") /\ sending = "filled"
  /\ can' = WriteCs(can, TxMb, Cs("tx", Last(asked)))
  /\ accepted' = IF can.lpb /\ EmptyMbs(can) # {} THEN accepted \union {Last(asked)} ELSE accepted
  /\ sending' = "busy"
  /\ UNCHANGED <<serving, frames, asked, wire>>

(* The host: rx_push tells it whether the frame was accepted.              *)
HostPushes ==
  /\ EmptyMbs(can) # {}
  /\ \E frame \in Incoming \ accepted :
        can' = Delivered(can, frame) /\ accepted' = accepted \union {frame}
  /\ UNCHANGED <<serving, sending, frames, asked, wire>>

HostTakesFrames ==
  /\ can.tx # <<>>
  /\ wire' = wire \o can.tx /\ can' = TakeTx(can)
  /\ UNCHANGED <<serving, sending, frames, asked, accepted>>

MailboxInit ==
  /\ can = CanNew
  /\ serving = At(NoMb, "setup") /\ sending = "free"
  /\ frames = <<>> /\ asked = <<>> /\ wire = <<>> /\ accepted = {}

MailboxServes == Prepare \/ LeaveFreeze \/ Serve \/ ReadFrame \/ ClearFlag \/ Arm \/ Launch
MailboxNext   == MailboxServes \/ Fill \/ HostPushes \/ HostTakesFrames

MailboxTypes ==
  /\ can.iflag \union can.imask \subseteq 0 .. FlagBits - 1
  /\ can.mcr \subseteq {"MDIS", "FRZ", "HALT"}
  /\ \A m \in Mbs : can.mb[m].code \in {"none", "empty", "full", "inactive"}
  /\ sending \in {"free", "filled", "busy"}

(* A frame that was accepted is read once and as it was sent, or waits in  *)
(* one buffer; a frame that was sent is on the bus once and in order, and  *)
(* in loopback received as well (src/src/peripherals/flexcan.rs:120,       *)
(* :154).                                                                  *)
Waiting == {m \in RxMbs : can.mb[m].code = "full" /\ serving \notin {At(m, "clear"), At(m, "arm")}}

FramesAreKept ==
  LET launched == IF sending = "filled" THEN Front(asked) ELSE asked
  IN  /\ IsInjective(frames)
      /\ Range(frames) \union {FrameOf(can.mb[m]) : m \in Waiting} = accepted
      /\ Len(frames) + Cardinality(Waiting) = Cardinality(accepted)
      /\ wire \o can.tx = launched
=============================================================================
