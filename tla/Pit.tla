--------------------------------- MODULE Pit ---------------------------------
(***************************************************************************)
(* The periodic interrupt timer of src/src/peripherals/pit.rs: down        *)
(* counters of LDVAL + 1 ticks that can be chained, each clocked by the    *)
(* timeouts of the one before it.  Time arrives in batches of any size.    *)
(***************************************************************************)
EXTENDS Integers

CONSTANT LastChannel   \* channels are 0 .. LastChannel (3 in the RT1062)

ASSUME LastChannelAssumption == LastChannel \in Nat

VARIABLES
  mdis,   \* MCR.MDIS: the module is stopped
  pit     \* the channels

PitChannel == 0 .. LastChannel

PitInit ==
  /\ mdis = TRUE
  /\ pit = [c \in PitChannel |->
              [ldval |-> 0, cval |-> 0, ten |-> FALSE, tie |-> FALSE,
               chn |-> FALSE, tif |-> FALSE]]

PitTypes ==
  /\ mdis \in BOOLEAN
  /\ pit \in [PitChannel -> [ldval : Nat, cval : Nat, ten : BOOLEAN,
                             tie : BOOLEAN, chn : BOOLEAN, tif : BOOLEAN]]

(***************************************************************************)
(* Registers                                                               *)
(***************************************************************************)

WriteMcr(stopped) ==
  /\ mdis' = stopped
  /\ UNCHANGED pit

(* A new LDVAL is counted from the next reload on.                         *)
WriteLdval(c, value) ==
  /\ pit' = [pit EXCEPT ![c].ldval = value]
  /\ UNCHANGED mdis

(* Enabling a channel loads CVAL.                                          *)
WriteTctrl(c, ten, tie, chn) ==
  /\ pit' = [pit EXCEPT ![c].ten = ten, ![c].tie = tie, ![c].chn = chn,
                        ![c].cval = IF ten /\ ~pit[c].ten THEN pit[c].ldval
                                                          ELSE @]
  /\ UNCHANGED mdis

(* TFLG.TIF, write 1 to clear.                                             *)
ClearTif(c) ==
  /\ pit' = [pit EXCEPT ![c].tif = FALSE]
  /\ UNCHANGED mdis

(***************************************************************************)
(* Counting                                                                *)
(***************************************************************************)

(* advance(): the first timeout is cval + 1 ticks away, the others follow  *)
(* a period apart.                                                         *)
Timeouts(ch, ticks) ==
  IF ticks <= ch.cval THEN 0
  ELSE 1 + (ticks - ch.cval - 1) \div (ch.ldval + 1)

(* Mutant of CvalAfter: the reload is forgotten.                           *)
CvalUnderflows(ch, ticks) == ch.cval - ticks

CvalAfter(ch, ticks) ==
  IF ticks <= ch.cval THEN ch.cval - ticks
  ELSE ch.ldval - ((ticks - ch.cval - 1) % (ch.ldval + 1))

(* Mutant of PitInputs: a chained channel sees that there was a timeout,   *)
(* not how many.                                                           *)
PitInputsByFlag(ticks) ==
  LET input[c \in PitChannel] ==
        IF c > 0 /\ pit[c].chn
          THEN IF pit[c - 1].ten /\ Timeouts(pit[c - 1], input[c - 1]) > 0
                 THEN 1 ELSE 0
          ELSE ticks
  IN  input

(* What each channel counts when the module gets this many ticks.          *)
PitInputs(ticks) ==
  LET input[c \in PitChannel] ==
        IF c > 0 /\ pit[c].chn
          THEN IF pit[c - 1].ten THEN Timeouts(pit[c - 1], input[c - 1])
                                 ELSE 0
          ELSE ticks
  IN  input

PitTick(ticks) ==
  /\ UNCHANGED mdis
  /\ IF mdis THEN UNCHANGED pit
     ELSE LET input == PitInputs(ticks)
          IN  pit' = [c \in PitChannel |->
                        IF pit[c].ten
                          THEN [pit[c] EXCEPT
                                  !.cval = CvalAfter(pit[c], input[c]),
                                  !.tif = @ \/ Timeouts(pit[c], input[c]) > 0]
                          ELSE pit[c]]
=============================================================================
