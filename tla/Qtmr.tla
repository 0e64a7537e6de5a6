-------------------------------- MODULE Qtmr --------------------------------
(***************************************************************************)
(* One channel of a quad timer, src/src/peripherals/qtmr.rs: a prescaled   *)
(* up-counter that compares with COMP1 and restarts from LOAD.  The four   *)
(* channels of a timer share nothing but the interrupt line.  Accesses are *)
(* 16 or 32 bits wide; a byte write bypasses the flag's rule and is not    *)
(* modelled.                                                               *)
(***************************************************************************)
EXTENDS Integers

CONSTANT CntrSize   \* values of CNTR (2^16 in the RT1062)

ASSUME CntrAssumption == CntrSize \in Nat \ {0}

VARIABLES
  qtmr   \* the registers and the prescaler's accumulator

QtmrInit ==
  qtmr = [counting |-> FALSE, div |-> 1, length |-> FALSE, presc |-> 0,
          comp1 |-> 0, load |-> 0, cntr |-> 0, tcf |-> FALSE, tcfie |-> FALSE]

QtmrTypes ==
  qtmr \in [counting : BOOLEAN, div : Nat \ {0}, length : BOOLEAN, presc : Nat,
            comp1 : 0 .. CntrSize - 1, load : 0 .. CntrSize - 1,
            cntr : 0 .. CntrSize - 1, tcf : BOOLEAN, tcfie : BOOLEAN]

(***************************************************************************)
(* Registers                                                               *)
(***************************************************************************)

(* CTRL: counting is CM # 0 with a PERCLK source, whose divisor is div.    *)
WriteQtmrCtrl(counting, div, length) ==
  qtmr' = [qtmr EXCEPT !.counting = counting, !.div = div, !.length = length]

WriteComp1(value) == qtmr' = [qtmr EXCEPT !.comp1 = value]
WriteLoad(value)  == qtmr' = [qtmr EXCEPT !.load = value]
WriteCntr(value)  == qtmr' = [qtmr EXCEPT !.cntr = value]

(* SCTRL: TCF is cleared by writing 0 and cannot be set.                   *)
WriteSctrl(tcf, tcfie) ==
  qtmr' = [qtmr EXCEPT !.tcf = @ /\ tcf, !.tcfie = tcfie]

(***************************************************************************)
(* Counting                                                                *)
(***************************************************************************)

(* Mutant of CntrNext: the counter restarts on reaching COMP1, not after.  *)
CntrNextEarly(cntr) ==
  IF (cntr + 1) % CntrSize = qtmr.comp1 /\ qtmr.length THEN qtmr.load
  ELSE (cntr + 1) % CntrSize

CntrNext(cntr) ==
  IF cntr = qtmr.comp1 /\ qtmr.length THEN qtmr.load
  ELSE (cntr + 1) % CntrSize

(* The counter's values from now on.                                       *)
CntrRun(steps) ==
  LET run[k \in 0 .. steps] == IF k = 0 THEN qtmr.cntr ELSE CntrNext(run[k - 1])
  IN  run

QtmrTick(ticks) ==
  LET total == qtmr.presc + ticks
      steps == total \div qtmr.div
      run   == CntrRun(steps)
  IN  IF ~qtmr.counting \/ ticks = 0
        THEN UNCHANGED qtmr
        ELSE qtmr' = [qtmr EXCEPT
                        !.presc = total % qtmr.div,
                        !.cntr = run[steps],
                        !.tcf = @ \/ \E k \in 0 .. steps - 1 :
                                       run[k] = qtmr.comp1]
=============================================================================
