------------------------------- MODULE LpUart -------------------------------
(***************************************************************************)
(* One LPUART of src/src/peripherals/lpuart.rs: a transmitter that sends   *)
(* at once into a host-side sink, a receive FIFO the host pushes into, the *)
(* DMA request lines and the interrupt line.                               *)
(*                                                                         *)
(* A register is the set of its bits that have an effect.  stat_sticky is  *)
(* left out: nothing ever sets it.                                         *)
(***************************************************************************)
EXTENDS Integers, Sequences

VARIABLES
  ctrl,   \* CTRL: which of TE, TIE, TCIE, RIE are set
  baud,   \* BAUD: which of TDMAE, RDMAE are set
  rx,     \* receive FIFO, oldest byte first
  out     \* bytes transmitted since the host last took them

uartVars == <<ctrl, baud, rx, out>>

CtrlBits == {"TE", "TIE", "TCIE", "RIE"}
BaudBits == {"TDMAE", "RDMAE"}

UartInit ==
  /\ ctrl = {} /\ baud = {}
  /\ rx = <<>> /\ out = <<>>

(* The host's side: a byte arrives.                                        *)
RxPush(byte) ==
  /\ rx' = Append(rx, byte)
  /\ UNCHANGED <<ctrl, baud, out>>

(* A read of DATA pops the FIFO and yields 0 when it is empty.             *)
DataValue == IF rx = <<>> THEN 0 ELSE Head(rx)

RxAfterRead == IF rx = <<>> THEN rx ELSE Tail(rx)

(* A write of DATA transmits while TE is set and is dropped otherwise.     *)
OutAfterWrite(byte) == IF "TE" \in ctrl THEN Append(out, byte) ELSE out

(* Mutant of DmaRxRequest: a second byte has to wait.                      *)
DmaRxRequestAboveOne == "RDMAE" \in baud /\ Len(rx) > 1

DmaTxRequest == "TDMAE" \in baud /\ "TE" \in ctrl
DmaRxRequest == "RDMAE" \in baud /\ rx # <<>>
=============================================================================
