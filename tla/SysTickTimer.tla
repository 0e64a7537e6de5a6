---------------------------- MODULE SysTickTimer ----------------------------
(***************************************************************************)
(* The SysTick timer of src/src/cortex_m/mod.rs.  On the processor clock   *)
(* CortexM7::step counts one tick per instruction, before the instruction; *)
(* on the external clock Rt1060::step counts a batch of ticks after it     *)
(* (systick_advance).                                                      *)
(***************************************************************************)
EXTENDS Integers

VARIABLES
  systick,   \* CSR, RVR and CVR
  pendst     \* ICSR.PENDST: the exception is pending

SysTickInit ==
  /\ systick = [enable |-> FALSE, tickint |-> FALSE, external |-> TRUE,
                countflag |-> FALSE, rvr |-> 0, cvr |-> 0]
  /\ pendst = FALSE

SysTickTypes ==
  /\ systick \in [enable : BOOLEAN, tickint : BOOLEAN, external : BOOLEAN,
                  countflag : BOOLEAN, rvr : Nat, cvr : Nat]
  /\ pendst \in BOOLEAN

(***************************************************************************)
(* Registers                                                               *)
(***************************************************************************)

(* COUNTFLAG survives a write of CSR.                                      *)
WriteCsr(enable, tickint, external) ==
  /\ systick' = [systick EXCEPT !.enable = enable, !.tickint = tickint,
                                !.external = external]
  /\ UNCHANGED pendst

WriteRvr(value) ==
  /\ systick' = [systick EXCEPT !.rvr = value]
  /\ UNCHANGED pendst

(* Any write clears CVR and COUNTFLAG.                                     *)
WriteCvr ==
  /\ systick' = [systick EXCEPT !.cvr = 0, !.countflag = FALSE]
  /\ UNCHANGED pendst

(* Reading CSR clears COUNTFLAG.                                           *)
ReadCsr ==
  /\ systick' = [systick EXCEPT !.countflag = FALSE]
  /\ UNCHANGED pendst

(* The handler is entered.                                                 *)
TakeSysTick ==
  /\ pendst
  /\ pendst' = FALSE
  /\ UNCHANGED systick

(***************************************************************************)
(* Counting                                                                *)
(***************************************************************************)

(* Mutant of SysTickStep: a counter at zero is not reloaded.               *)
SysTickStepWithoutReload ==
  LET fires == systick.cvr = 1
  IN  IF ~systick.enable \/ systick.external \/ systick.cvr = 0
        THEN UNCHANGED <<systick, pendst>>
        ELSE /\ systick' = [systick EXCEPT !.cvr = @ - 1,
                                           !.countflag = @ \/ fires]
             /\ pendst' = (pendst \/ (fires /\ systick.tickint))

(* One step of the processor clock: a counter at zero is reloaded, and one *)
(* that reaches zero fires.                                                *)
SysTickStep ==
  LET fires == systick.cvr = 1
  IN  IF ~systick.enable \/ systick.external
        THEN UNCHANGED <<systick, pendst>>
        ELSE /\ systick' = [systick EXCEPT
                              !.cvr = IF @ = 0 THEN systick.rvr ELSE @ - 1,
                              !.countflag = @ \/ fires]
             /\ pendst' = (pendst \/ (fires /\ systick.tickint))

(* Mutant of SysTickAdvance: the reload costs no tick.                     *)
SysTickAdvanceFreeReload(ticks) ==
  LET start == IF systick.cvr = 0 THEN systick.rvr ELSE systick.cvr
      rest  == (ticks - start) % (systick.rvr + 1)
      fires == ticks >= start /\ start # 0
  IN  IF ~systick.enable \/ ticks = 0
        THEN UNCHANGED <<systick, pendst>>
        ELSE /\ systick' = [systick EXCEPT
                   !.cvr = IF start = 0 THEN 0
                           ELSE IF ticks < start THEN start - ticks
                           ELSE IF rest = 0 THEN 0
                           ELSE systick.rvr - (rest - 1),
                   !.countflag = @ \/ fires]
             /\ pendst' = (pendst \/ (fires /\ systick.tickint))

(* systick_advance(): the same for a batch; it looks at ENABLE only.  A    *)
(* counter at zero spends the first tick on its reload, and stays there    *)
(* for good when RVR is zero.                                              *)
SysTickAdvance(ticks) ==
  LET reloads == systick.cvr = 0
      start   == IF reloads THEN systick.rvr ELSE systick.cvr
      left    == IF reloads THEN ticks - 1 ELSE ticks
      rest    == (left - start) % (systick.rvr + 1)
      fires   == left >= start /\ start # 0
  IN  IF ~systick.enable \/ ticks = 0
        THEN UNCHANGED <<systick, pendst>>
        ELSE /\ systick' = [systick EXCEPT
                   !.cvr = IF left < start THEN start - left
                           ELSE IF start = 0 \/ systick.rvr = 0 \/ rest = 0
                             THEN 0
                           ELSE systick.rvr - (rest - 1),
                   !.countflag = @ \/ fires]
             /\ pendst' = (pendst \/ (fires /\ systick.tickint))
=============================================================================
