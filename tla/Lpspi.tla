------------------------------- MODULE Lpspi -------------------------------
(***************************************************************************)
(* One LPSPI controller of src/src/peripherals/lpspi.rs: a word written to *)
(* TDR is shifted at once against the attached device (SeqSpiDevice), or   *)
(* looped back without one; in external mode it is only recorded, and the  *)
(* host answers with the word shifted in.                                  *)
(***************************************************************************)
EXTENDS Integers, Sequences

CONSTANTS
  WordBits,   \* width of a word, 32 in the code
  Idle        \* what a device answers when its replies are used up

(* A device is the sequence of the replies it has left.                    *)
Miso(replies)     == IF replies = <<>> THEN Idle ELSE Head(replies)
Consumed(replies) == IF replies = <<>> THEN replies ELSE Tail(replies)

SpiNew(external) ==
  [external |-> external, men |-> FALSE, ier |-> {}, der |-> {}, framesz |-> 0,
   sticky |-> {}, rx |-> <<>>]

Sr(s) ==
  s.sticky \union (IF s.men THEN {"TDF"} ELSE {})
           \union (IF s.rx # <<>> THEN {"RDF"} ELSE {})

(* A reset keeps DER.                                                      *)
SpiReset(s) == [SpiNew(s.external) EXCEPT !.der = s.der]

WriteCr(s, bits) ==
  LET fresh == IF "RST" \in bits THEN SpiReset(s) ELSE s
  IN  [fresh EXCEPT !.men = "MEN" \in bits, !.rx = IF "RRF" \in bits THEN <<>> ELSE @]

WriteSr(s, bits) == [s EXCEPT !.sticky = @ \ (bits \intersect {"WCF", "FCF", "TCF"})]

(* The frame of TCR.FRAMESZ + 1 bits of a word.                            *)
FrameBits(s)    == s.framesz + 1
Masked(s, word) == IF FrameBits(s) >= WordBits THEN word ELSE word % (2 ^ FrameBits(s))

ReadRdr(s) == [s EXCEPT !.rx = IF @ = <<>> THEN @ ELSE Tail(@)]

Answered(s, words) == [s EXCEPT !.rx = @ \o words]

(* A write of TDR; device is <<>> or the replies of the attached one.      *)
Shifted(s, device, word) ==
  LET done == [s EXCEPT !.sticky = @ \union {"WCF", "FCF", "TCF"}]
  IN  IF ~s.men THEN s
      ELSE IF s.external THEN done
      ELSE Answered(done, <<Masked(s, IF device = <<>> THEN word ELSE Miso(device[1]))>>)

(* The device after it.                                                    *)
ShiftedAgainst(s, device) ==
  IF s.men /\ ~s.external THEN [k \in DOMAIN device |-> Consumed(device[k])] ELSE device

SpiIrq(s)          == Sr(s) \intersect s.ier # {}
SpiDmaTxRequest(s) == "TDDE" \in s.der /\ s.men
SpiDmaRxRequest(s) == "RDDE" \in s.der /\ s.rx # <<>>
=============================================================================
