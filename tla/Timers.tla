------------------------------- MODULE Timers -------------------------------
(***************************************************************************)
(* Time in the SoC: Rt1060::step turns the cycle an instruction retired    *)
(* into ticks of every clock domain and hands them to the timers           *)
(* (Peripherals::tick, then tick_systick_external).  A step runs, in this  *)
(* order: the SysTick tick of the processor clock and the entry of its     *)
(* handler ("core"), the instruction ("instruction"), the domains and      *)
(* their timers ("tick").  A host program may also call Peripherals::tick  *)
(* with a batch of cycles between two steps.                               *)
(*                                                                         *)
(* The history variables count every tick by the manual's arithmetic, one  *)
(* position in the period per timer; the properties compare the two.       *)
(***************************************************************************)
EXTENDS Pit, Gpt, Qtmr, SysTickTimer

CONSTANTS
  Clocks,       \* what Clocks::compute may return: [core, perclk] in Hz
  Osc,          \* frequency of the crystal
  LowFreq,      \* frequency of the slow clock
  SysTickHz,    \* frequency of SysTick's external clock
  Second,       \* common multiple of the core frequencies
  HostBatches,  \* cycles a host program passes to Peripherals::tick
  Drivers,      \* the timers the firmware may choose to use
  Values,       \* values the firmware writes to counters and LDVAL, RVR
  Divisors,     \* prescaler divisors
  MaxRetunes    \* bound: writes that change the clock tree

Domain == {"perclk", "osc", "lf", "systick"}

ASSUME ClocksAssumption ==
  /\ Clocks \subseteq [core : Nat \ {0}, perclk : Nat \ {0}]
  /\ Clocks # {}
  /\ Osc \in Nat /\ LowFreq \in Nat /\ SysTickHz \in Nat
  /\ Second \in Nat /\ \A k \in Clocks : Second % k.core = 0
ASSUME InputAssumption ==
  /\ HostBatches \subseteq Nat /\ Values \subseteq Nat
  /\ Divisors \subseteq Nat \ {0}
  /\ MaxRetunes \in Nat

VARIABLES
  clock,     \* core_hz and perclk_hz, as refresh_clocks left them
  frac,      \* dom_frac and systick_ext_frac: carries in core cycles
  phase,     \* "core", "instruction", "tick"
  driver,    \* the timer this firmware uses
  retunes,   \* changes of the clock tree so far
  \* History variables.
  meter,     \* per domain since the last retune: the carry at its start,
             \*   cycles spent and ticks delivered, modulo a second
  ahead,     \* ticks of the external SysTick clock beyond wall-clock time,
             \*   in 1/Second of a tick
  pitPos,    \* ticks into each PIT channel's period, or Unknown
  pitOwed,   \* PIT channels that timed out since TIF was cleared
  gptPos,    \* ticks into the period of CNT, or Unknown
  gptOwed,   \* events of the GPT since they were cleared
  qtmrPos,   \* ticks into the period of CNTR, or Unknown
  qtmrOwed,  \* the QTMR compared since TCF was cleared
  sysPos,    \* ticks since CVR was last zero, or Unknown
  sysOwed    \* which of "flag" and "exception" SysTick owes

pitVars     == <<mdis, pit>>
sysTickVars == <<systick, pendst>>
clockVars   == <<clock, frac, retunes, meter, ahead>>
pitLaw      == <<pitPos, pitOwed>>
gptLaw      == <<gptPos, gptOwed>>
qtmrLaw     == <<qtmrPos, qtmrOwed>>
sysLaw      == <<sysPos, sysOwed>>
vars == <<pitVars, gpt, qtmr, sysTickVars, clockVars, phase, driver,
          pitLaw, gptLaw, qtmrLaw, sysLaw>>

Unknown == -1

(***************************************************************************)
(* Clock domains                                                           *)
(***************************************************************************)

Hz(d) ==
  CASE d = "perclk"  -> clock.perclk
    [] d = "osc"     -> Osc
    [] d = "lf"      -> LowFreq
    [] d = "systick" -> SysTickHz

DomainTicks(d, cycles) == (frac[d] + cycles * Hz(d)) \div clock.core

(* Mutant of Carry: the remainder is dropped.                              *)
CarryDropped(d, cycles) == 0

Carry(d, cycles) == (frac[d] + cycles * Hz(d)) % clock.core

(* External SysTick is clocked by the steps of the SoC alone.              *)
External == systick.enable /\ systick.external

Clocked(external) ==
  IF external THEN Domain ELSE Domain \ {"systick"}

MeterAfter(d, cycles) ==
  LET spent == meter[d].spent + cycles
      whole == spent \div clock.core
  IN  [base  |-> meter[d].base,
       spent |-> spent - whole * clock.core,
       ticks |-> meter[d].ticks + DomainTicks(d, cycles) - whole * Hz(d)]

AdvanceClocks(cycles, external) ==
  LET ds == Clocked(external)
  IN  /\ frac' = [d \in Domain |-> IF d \in ds THEN Carry(d, cycles)
                                               ELSE frac[d]]
      /\ meter' = [d \in Domain |-> IF d \in ds THEN MeterAfter(d, cycles)
                                                ELSE meter[d]]
      /\ ahead' = IF external
                    THEN ahead + DomainTicks("systick", cycles) * Second
                           - cycles * SysTickHz * (Second \div clock.core)
                    ELSE ahead
      /\ UNCHANGED <<clock, retunes>>

(***************************************************************************)
(* The law of each timer: what its counter shows after a number of ticks   *)
(***************************************************************************)

(* PIT: positions count up where CVAL counts down.  A channel has a        *)
(* position from the moment it is enabled, until its LDVAL is rewritten    *)
(* while it runs; a chained one only if its clock has one.                 *)
PitRunning(c) == ~mdis /\ pit[c].ten

PitDue(ticks) ==
  LET due[c \in PitChannel] ==
        LET input == IF c > 0 /\ pit[c].chn THEN due[c - 1] ELSE ticks
        IN  IF PitRunning(c) /\ pitPos[c] # Unknown
              THEN (pitPos[c] + input) \div (pit[c].ldval + 1) ELSE 0
  IN  due

PitLawTick(ticks) ==
  LET due == PitDue(ticks)
      input(c) == IF c > 0 /\ pit[c].chn THEN due[c - 1] ELSE ticks
  IN  /\ pitPos' = [c \in PitChannel |->
           IF PitRunning(c) /\ pitPos[c] # Unknown
             THEN (pitPos[c] + input(c)) % (pit[c].ldval + 1) ELSE pitPos[c]]
      /\ pitOwed' = {c \in PitChannel :
           IF pitPos[c] = Unknown THEN pit'[c].tif
           ELSE c \in pitOwed \/ due[c] > 0}

PitLawWrite(c) ==
  LET ch == pit'[c]
      lost == \/ ch.ten /\ pit[c].ten /\ ch.ldval # pit[c].ldval
              \/ /\ ch.ten /\ ch.chn /\ c > 0
                 /\ pit[c - 1].ten /\ pitPos[c - 1] = Unknown
      from == IF lost THEN Unknown
              ELSE IF ch.ten /\ ~pit[c].ten THEN 0 ELSE pitPos[c]
  IN  /\ pitPos' = [d \in PitChannel |->
           IF d = c THEN from
           ELSE IF d > c /\ from = Unknown THEN Unknown ELSE pitPos[d]]
      /\ pitOwed' = IF ch.tif THEN pitOwed ELSE pitOwed \ {c}

(* GPT: a period of CNT takes CounterSize times PR + 1 ticks.              *)
GptPeriod(g) == CounterSize * (g.pr + 1)

GptPosition(g) ==
  IF g.presc_acc <= g.pr THEN g.cnt * (g.pr + 1) + g.presc_acc ELSE Unknown

GptEvents(ticks) ==
  LET reached == {(gptPos + k) % GptPeriod(gpt) : k \in 1 .. ticks}
  IN  {i \in Ocr : gpt.ocr[i] * (gpt.pr + 1) \in reached}
        \union (IF gptPos + ticks >= GptPeriod(gpt) THEN {Rollover} ELSE {})

GptLawTick(ticks) ==
  IF ~gpt.en \/ gpt.clksrc = "off" THEN UNCHANGED gptLaw
  ELSE IF gptPos = Unknown
    THEN gptPos' = GptPosition(gpt') /\ gptOwed' = gpt'.sr
    ELSE /\ gptPos' = (gptPos + ticks) % GptPeriod(gpt)
         /\ gptOwed' = gptOwed \union GptEvents(ticks)

(* QTMR: the counter runs from LOAD to COMP1, or through all its values.   *)
From(q) == IF q.length THEN q.load ELSE 0

QtmrValues(q) ==
  IF q.length THEN ((q.comp1 - q.load) % CntrSize) + 1 ELSE CntrSize

QtmrPeriod(q) == QtmrValues(q) * q.div

QtmrPosition(q) ==
  LET value == (q.cntr - From(q)) % CntrSize
  IN  IF q.presc < q.div /\ value < QtmrValues(q)
        THEN value * q.div + q.presc ELSE Unknown

(* COMP1 was shown for a whole step of the prescaler.                      *)
QtmrCompares(ticks) ==
  LET after == (((qtmr.comp1 - From(qtmr)) % CntrSize) + 1) * qtmr.div
  IN  \E k \in 1 .. ticks :
        (qtmrPos + k - after) % QtmrPeriod(qtmr) = 0

QtmrLawTick(ticks) ==
  IF ~qtmr.counting THEN UNCHANGED qtmrLaw
  ELSE IF qtmrPos = Unknown
    THEN qtmrPos' = QtmrPosition(qtmr') /\ qtmrOwed' = qtmr'.tcf
    ELSE /\ qtmrPos' = (qtmrPos + ticks) % QtmrPeriod(qtmr)
         /\ qtmrOwed' = (qtmrOwed \/ QtmrCompares(ticks))

(* SysTick: RVR + 1 ticks from one zero to the next.                       *)
SysLawTick(ticks) ==
  IF sysPos = Unknown
    THEN /\ sysPos' = Unknown
         /\ sysOwed' = (IF systick'.countflag THEN {"flag"} ELSE {})
                         \union (IF pendst' THEN {"exception"} ELSE {})
    ELSE /\ sysPos' = (sysPos + ticks) % (systick.rvr + 1)
         /\ sysOwed' = sysOwed \union
              (IF sysPos + ticks <= systick.rvr THEN {}
               ELSE IF systick.tickint THEN {"flag", "exception"}
               ELSE {"flag"})

SysLawWrite ==
  /\ sysPos' = IF systick'.cvr = 0 /\ systick'.rvr > 0 THEN 0
               ELSE IF systick'.rvr # systick.rvr THEN Unknown ELSE sysPos
  /\ sysOwed' = IF systick'.countflag THEN sysOwed ELSE sysOwed \ {"flag"}

(***************************************************************************)
(* A step of the SoC                                                       *)
(***************************************************************************)

(* The start of CortexM7::step: SysTick on the processor clock counts.     *)
CoreTick ==
  /\ phase = "core" /\ phase' = "instruction"
  /\ SysTickStep
  /\ IF systick.enable /\ ~systick.external
       THEN SysLawTick(1) ELSE UNCHANGED sysLaw
  /\ UNCHANGED <<pitVars, gpt, qtmr, clockVars, driver, pitLaw, gptLaw,
                 qtmrLaw>>

(* The preemption decision of the same step enters the handler.            *)
EnterSysTick ==
  /\ phase = "instruction"
  /\ TakeSysTick
  /\ sysOwed' = sysOwed \ {"exception"}
  /\ UNCHANGED <<pitVars, gpt, qtmr, clockVars, phase, driver, pitLaw, gptLaw,
                 qtmrLaw, sysPos>>

(* Peripherals::tick.                                                      *)
TimersTick(cycles) ==
  LET source == gpt.clksrc
      count  == IF source = "off" THEN 0 ELSE DomainTicks(source, cycles)
      per    == DomainTicks("perclk", cycles)
  IN  /\ GptTick(count) /\ GptLawTick(count)
      /\ PitTick(per) /\ PitLawTick(per)
      /\ QtmrTick(per) /\ QtmrLawTick(per)

(* The end of Rt1060::step, after one retired cycle.                       *)
Tick ==
  /\ phase = "tick" /\ phase' = "core"
  /\ AdvanceClocks(1, External)
  /\ TimersTick(1)
  /\ IF External
       THEN /\ SysTickAdvance(DomainTicks("systick", 1))
            /\ SysLawTick(DomainTicks("systick", 1))
       ELSE UNCHANGED <<sysTickVars, sysLaw>>
  /\ UNCHANGED driver

HostTick(cycles) ==
  /\ phase = "core"
  /\ AdvanceClocks(cycles, FALSE)
  /\ TimersTick(cycles)
  /\ UNCHANGED <<phase, driver, sysTickVars, sysLaw>>

(* Rt1060::chip_reset: a new core, and a new carry of SysTick's clock; the *)
(* other timers and their clocks go on.                                    *)
ChipReset ==
  /\ phase = "core"
  /\ driver = "systick"
  /\ systick' = [enable |-> FALSE, tickint |-> FALSE, external |-> TRUE,
                 countflag |-> FALSE, rvr |-> 0, cvr |-> 0]
  /\ pendst' = FALSE
  /\ frac' = [frac EXCEPT !["systick"] = 0]
  /\ meter' = [meter EXCEPT !["systick"] = [base |-> 0, spent |-> 0, ticks |-> 0]]
  /\ ahead' = 0
  /\ sysPos' = Unknown /\ sysOwed' = {}
  /\ UNCHANGED <<pitVars, gpt, qtmr, clock, retunes, phase, driver, pitLaw,
                 gptLaw, qtmrLaw>>

(***************************************************************************)
(* Instructions                                                            *)
(***************************************************************************)

Instruction == phase = "instruction" /\ phase' = "tick" /\ UNCHANGED driver

Uses(d) == Instruction /\ driver = d

OtherInstruction ==
  /\ Instruction
  /\ UNCHANGED <<pitVars, gpt, qtmr, sysTickVars, clockVars, pitLaw, gptLaw,
                 qtmrLaw, sysLaw>>

(* A write into CCM or CCM_ANALOG: refresh_clocks; no carry is converted.  *)
Retune ==
  /\ Instruction
  /\ retunes < MaxRetunes /\ retunes' = retunes + 1
  /\ clock' \in Clocks \ {clock}
  /\ meter' = [d \in Domain |-> [base |-> frac[d], spent |-> 0, ticks |-> 0]]
  /\ UNCHANGED <<frac, ahead, pitVars, gpt, qtmr, sysTickVars, pitLaw, gptLaw,
                 qtmrLaw, sysLaw>>

UsePit ==
  /\ Uses("pit")
  /\ \/ /\ \E stopped \in BOOLEAN : WriteMcr(stopped)
        /\ UNCHANGED pitLaw
     \/ \E c \in PitChannel :
          /\ \/ \E value \in Values : WriteLdval(c, value)
             \/ \E ten, chn \in BOOLEAN :
                  (chn => c > 0) /\ WriteTctrl(c, ten, TRUE, chn)
             \/ ClearTif(c)
          /\ PitLawWrite(c)
  /\ UNCHANGED <<gpt, qtmr, sysTickVars, clockVars, gptLaw, qtmrLaw, sysLaw>>

GptRestarts == gpt'.en /\ ~gpt.en /\ gpt'.enmod

UseGpt ==
  /\ Uses("gpt")
  /\ \/ /\ \/ GptSoftwareReset
           \/ \E en, enmod \in BOOLEAN, source \in GptClock \ {"lf"} :
                WriteGptCr(en, enmod, source)
        /\ gptPos' = IF gpt' = GptReset \/ GptRestarts THEN 0 ELSE gptPos
     \/ /\ \E div \in Divisors : WriteGptPr(div - 1)
        /\ gptPos' = GptPosition(gpt')
     \/ /\ \/ \E i \in Ocr, value \in Values : WriteGptOcr(i, value % CounterSize)
           \/ \E flag \in Ocr \union {Rollover} : ClearGptSr({flag})
        /\ UNCHANGED gptPos
  /\ gptOwed' = gptOwed \intersect gpt'.sr
  /\ UNCHANGED <<pitVars, qtmr, sysTickVars, clockVars, pitLaw, qtmrLaw, sysLaw>>

UseQtmr ==
  /\ Uses("qtmr")
  /\ \/ /\ \/ \E counting, length \in BOOLEAN, div \in Divisors :
                WriteQtmrCtrl(counting, div, length)
           \/ \E value \in Values :
                \/ WriteComp1(value % CntrSize)
                \/ WriteLoad(value % CntrSize)
                \/ WriteCntr(value % CntrSize)
        /\ qtmrPos' = QtmrPosition(qtmr')
        /\ UNCHANGED qtmrOwed
     \/ /\ \E tcf \in BOOLEAN : WriteSctrl(tcf, TRUE)
        /\ qtmrOwed' = (qtmrOwed /\ qtmr'.tcf)
        /\ UNCHANGED qtmrPos
  /\ UNCHANGED <<pitVars, gpt, sysTickVars, clockVars, pitLaw, gptLaw, sysLaw>>

UseSysTick ==
  /\ Uses("systick")
  /\ \/ \E enable, tickint, external \in BOOLEAN :
          WriteCsr(enable, tickint, external)
     \/ \E value \in Values : WriteRvr(value)
     \/ WriteCvr
     \/ ReadCsr
  /\ SysLawWrite
  /\ UNCHANGED <<pitVars, gpt, qtmr, clockVars, pitLaw, gptLaw, qtmrLaw>>

(***************************************************************************)
(* The specification                                                       *)
(***************************************************************************)

Init ==
  /\ PitInit /\ GptInit /\ QtmrInit /\ SysTickInit
  /\ clock \in Clocks
  /\ frac = [d \in Domain |-> 0]
  /\ phase = "core"
  /\ driver \in Drivers
  /\ retunes = 0
  /\ meter = [d \in Domain |-> [base |-> 0, spent |-> 0, ticks |-> 0]]
  /\ ahead = 0
  /\ pitPos = [c \in PitChannel |-> 0] /\ pitOwed = {}
  /\ gptPos = 0 /\ gptOwed = {}
  /\ qtmrPos = 0 /\ qtmrOwed = FALSE
  /\ sysPos = Unknown /\ sysOwed = {}

Execute ==
  \/ OtherInstruction
  \/ Retune
  \/ UsePit
  \/ UseGpt
  \/ UseQtmr
  \/ UseSysTick

Next ==
  \/ CoreTick
  \/ EnterSysTick
  \/ Execute
  \/ Tick
  \/ \E cycles \in HostBatches : HostTick(cycles)
  \/ ChipReset

Spec == Init /\ [][Next]_vars

(* The run loop keeps stepping; nothing is assumed of the firmware.        *)
FairSpec == Spec /\ WF_vars(CoreTick) /\ WF_vars(Execute) /\ WF_vars(Tick)

(***************************************************************************)
(* Safety                                                                  *)
(***************************************************************************)

TypeInvariant ==
  /\ PitTypes /\ GptTypes /\ QtmrTypes /\ SysTickTypes
  /\ clock \in Clocks
  /\ frac \in [Domain -> Nat]
  /\ phase \in {"core", "instruction", "tick"}
  /\ retunes \in 0 .. MaxRetunes
  /\ meter \in [Domain -> [base : Nat, spent : Nat, ticks : Int]]
  /\ ahead \in Int

(* No tick of a domain is lost to or invented by the division: carry and   *)
(* ticks together are the cycles spent, whatever the batches, and the      *)
(* carry is less than a tick once the domain has been advanced (domain in  *)
(* Peripherals::tick, tick_systick_external).                              *)
TicksFollowClock ==
  \A d \in Domain :
    /\ meter[d].ticks * clock.core + frac[d]
         = meter[d].base + meter[d].spent * Hz(d)
    /\ frac[d] < clock.core
         \/ meter[d] = [base |-> frac[d], spent |-> 0, ticks |-> 0]

(* CVAL and TIF of an enabled channel are those of a counter that went     *)
(* tick by tick, however the ticks were batched and the channels chained.  *)
PitKeepsTime ==
  \A c \in PitChannel :
    /\ pit[c].ten /\ pitPos[c] # Unknown =>
         pit[c].cval = pit[c].ldval - pitPos[c]
    /\ pit[c].tif <=> c \in pitOwed

(* CNT is the number of ticks divided by PR + 1, and every compare and     *)
(* rollover passed since SR was cleared stands in SR.                      *)
GptKeepsTime ==
  /\ gptPos # Unknown =>
       /\ gpt.cnt = gptPos \div (gpt.pr + 1)
       /\ gpt.presc_acc = gptPos % (gpt.pr + 1)
  /\ gpt.sr = gptOwed

(* CNTR runs from LOAD through COMP1, one value per divisor, and no        *)
(* compare is missed or made up.                                           *)
QtmrKeepsTime ==
  /\ qtmrPos # Unknown =>
       /\ qtmr.cntr = (From(qtmr) + qtmrPos \div qtmr.div) % CntrSize
       /\ qtmr.presc = qtmrPos % qtmr.div
  /\ qtmr.tcf <=> qtmrOwed

(* SysTick fires every RVR + 1 ticks whichever clock it is on and however  *)
(* often that changes: the batched counter of the external clock mirrors   *)
(* the per-step logic, and neither COUNTFLAG nor the exception is lost.    *)
SysTickKeepsTime ==
  /\ sysPos # Unknown =>
       systick.cvr = IF sysPos = 0 THEN 0 ELSE systick.rvr + 1 - sysPos
  /\ systick.countflag <=> "flag" \in sysOwed
  /\ pendst <=> "exception" \in sysOwed

(* "delay() and millis() stay correct across ARM-clock changes": a change  *)
(* of the clock tree costs the external SysTick at most one tick.          *)
TicksFollowWallClock ==
  /\ ahead <= (1 + retunes) * Second
  /\ ahead >= -((1 + retunes) * Second)

(***************************************************************************)
(* Liveness                                                                *)
(***************************************************************************)

(* A channel that stays enabled, with those it may be chained to, times    *)
(* out again and again; SysTick does as long as its counter is not         *)
(* restarted.                                                              *)
RestartsSysTick ==
  phase = "instruction" /\ systick.cvr # 0 /\ systick'.cvr = 0

TimersKeepFiring ==
  /\ \A c \in PitChannel :
       <>[](~mdis /\ \A d \in 0 .. c : pit[d].ten) => []<>(pit[c].tif)
  /\ /\ <>[](systick.enable /\ systick.rvr > 0)
     /\ <>[][~RestartsSysTick]_vars
     => []<>(systick.countflag)
=============================================================================
