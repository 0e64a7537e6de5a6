--------------------------------- MODULE Gpt ---------------------------------
(***************************************************************************)
(* The general purpose timer of src/src/peripherals/gpt.rs: a prescaled    *)
(* up-counter that wraps, with output compare channels.                    *)
(***************************************************************************)
EXTENDS Integers

CONSTANTS
  CounterSize,   \* values of CNT (2^32 in the RT1062)
  LastOcr        \* compare channels are 1 .. LastOcr (3 in the RT1062)

ASSUME GptAssumption == CounterSize \in Nat \ {0} /\ LastOcr \in Nat

VARIABLES
  gpt   \* the registers and the prescaler's accumulator

Ocr     == 1 .. LastOcr
Rollover == LastOcr + 1   \* SR.ROV, beside SR.OFn

(* The clocks CR.CLKSRC selects.                                           *)
GptClock == {"off", "perclk", "osc", "lf"}

GptReset ==
  [en |-> FALSE, enmod |-> FALSE, clksrc |-> "off", pr |-> 0, presc_acc |-> 0,
   cnt |-> 0, ocr |-> [i \in Ocr |-> CounterSize - 1], sr |-> {}, ir |-> {}]

GptInit == gpt = GptReset

GptTypes ==
  gpt \in [en : BOOLEAN, enmod : BOOLEAN, clksrc : GptClock, pr : Nat,
           presc_acc : Nat, cnt : 0 .. CounterSize - 1,
           ocr : [Ocr -> 0 .. CounterSize - 1],
           sr : SUBSET (Ocr \union {Rollover}),
           ir : SUBSET (Ocr \union {Rollover})]

(***************************************************************************)
(* Registers                                                               *)
(***************************************************************************)

(* CR with SWR: the block is as after reset.                               *)
GptSoftwareReset == gpt' = GptReset

(* Mutant of WriteGptCr: ENMOD forgets the prescaler.                      *)
WriteGptCrKeepsPrescaler(en, enmod, clksrc) ==
  LET restart == en /\ ~gpt.en /\ enmod
  IN  gpt' = [gpt EXCEPT !.en = en, !.enmod = enmod, !.clksrc = clksrc,
                         !.cnt = IF restart THEN 0 ELSE @]

(* CR without SWR: with ENMOD an enabled counter starts from zero.         *)
WriteGptCr(en, enmod, clksrc) ==
  LET restart == en /\ ~gpt.en /\ enmod
  IN  gpt' = [gpt EXCEPT !.en = en, !.enmod = enmod, !.clksrc = clksrc,
                         !.cnt = IF restart THEN 0 ELSE @,
                         !.presc_acc = IF restart THEN 0 ELSE @]

(* PR leaves the accumulator alone, also when that already exceeds it.     *)
WriteGptPr(value)     == gpt' = [gpt EXCEPT !.pr = value]
WriteGptOcr(i, value) == gpt' = [gpt EXCEPT !.ocr[i] = value]
WriteGptIr(flags)     == gpt' = [gpt EXCEPT !.ir = flags]
ClearGptSr(flags)     == gpt' = [gpt EXCEPT !.sr = @ \ flags]

(***************************************************************************)
(* Counting                                                                *)
(***************************************************************************)

(* The values the counter takes in this many steps.                        *)
Passed(steps) == {(gpt.cnt + k) % CounterSize : k \in 1 .. steps}

GptTick(cycles) ==
  LET total == gpt.presc_acc + cycles
      steps == total \div (gpt.pr + 1)
      flags == {i \in Ocr : gpt.ocr[i] \in Passed(steps)}
                 \union (IF gpt.cnt + steps >= CounterSize THEN {Rollover}
                                                           ELSE {})
  IN  IF ~gpt.en \/ gpt.clksrc = "off"
        THEN UNCHANGED gpt
        ELSE gpt' = [gpt EXCEPT !.presc_acc = total % (gpt.pr + 1),
                                !.cnt = (@ + steps) % CounterSize,
                                !.sr = @ \union flags]
=============================================================================
