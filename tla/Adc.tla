-------------------------------- MODULE Adc --------------------------------
(***************************************************************************)
(* One ADC of src/src/peripherals/adc.rs: a write of HC converts at once,  *)
(* a read of the result clears its flag.                                   *)
(***************************************************************************)
EXTENDS Integers

CONSTANTS
  Slots,      \* pairs of a control and a result register
  Channels,   \* inputs, 0 .. Channels - 1
  AdcValues,  \* what an input converts to
  Disabled    \* the channel number that stands for no conversion

ASSUME AdcAssumption == Channels \in Nat \ {0} /\ Disabled \in Nat /\ Disabled >= Channels

AdcNew(inputs) ==
  [hc |-> [n \in Slots |-> [adch |-> Disabled, aien |-> FALSE]], r |-> [n \in Slots |-> 0],
   coco |-> {}, dmaen |-> FALSE, channels |-> inputs]

SetChannel(a, channel, value) ==
  IF channel < Channels THEN [a EXCEPT !.channels[channel] = value] ELSE a

(* Numbers beyond the inputs convert the last one.                         *)
Input(channel) == IF channel < Channels THEN channel ELSE Channels - 1

WriteHc(a, n, value) ==
  LET set == [a EXCEPT !.hc[n] = value]
  IN  IF value.adch = Disabled THEN [set EXCEPT !.coco = @ \ {n}]
      ELSE [set EXCEPT !.r[n] = a.channels[Input(value.adch)], !.coco = @ \union {n}]

ReadR(a, n) == [a EXCEPT !.coco = @ \ {n}]

AdcIrq(a)        == \E n \in a.coco : a.hc[n].aien
AdcDmaRequest(a) == a.dmaen /\ a.coco # {}
=============================================================================
