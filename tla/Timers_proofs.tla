---------------------------- MODULE Timers_proofs ----------------------------
(***************************************************************************)
(* Proofs about Timers: the clock domains neither lose nor invent a tick,  *)
(* and SysTick keeps time on either of its clocks, for every frequency,    *)
(* reload value and batch.                                                 *)
(***************************************************************************)
EXTENDS Timers, TLAPS

(***************************************************************************)
(* Arithmetic                                                              *)
(***************************************************************************)

(* Quotient and remainder, and that nothing else is one.                   *)
LEMMA DivMod ==
  ASSUME NEW a \in Nat, NEW b \in Nat \ {0}
  PROVE  /\ a \div b \in Nat
         /\ a % b \in 0 .. b - 1
         /\ a = (a \div b) * b + (a % b)
  BY Z3

LEMMA DivModUnique ==
  ASSUME NEW a \in Nat, NEW b \in Nat \ {0}, NEW q \in Nat,
         NEW r \in 0 .. b - 1, a = q * b + r
  PROVE  a \div b = q /\ a % b = r
  BY Z3

(***************************************************************************)
(* The clock domains                                                       *)
(***************************************************************************)

ClockTypes ==
  /\ clock \in Clocks
  /\ frac \in [Domain -> Nat]
  /\ meter \in [Domain -> [base : Nat, spent : Nat, ticks : Int]]

ClockInv == ClockTypes /\ TicksFollowClock

(* Every domain has a frequency, and the core has one that is not zero.    *)
LEMMA Frequencies ==
  ASSUME clock \in Clocks
  PROVE  /\ clock.core \in Nat \ {0}
         /\ \A d \in Domain : Hz(d) \in Nat
<1>1. clock \in [core : Nat \ {0}, perclk : Nat \ {0}]
  BY ClocksAssumption
<1>2. clock.core \in Nat \ {0} /\ clock.perclk \in Nat
  BY <1>1
<1>3. Hz("perclk") = clock.perclk /\ Hz("osc") = Osc
        /\ Hz("lf") = LowFreq /\ Hz("systick") = SysTickHz
  BY DEF Hz
<1> QED
  BY <1>2, <1>3, ClocksAssumption DEF Domain

(* What one domain makes of a batch: whole ticks, and less than a tick.    *)
LEMMA BatchSplits ==
  ASSUME ClockTypes, NEW d \in Domain, NEW n \in Nat
  PROVE  /\ DomainTicks(d, n) \in Nat
         /\ Carry(d, n) \in 0 .. clock.core - 1
         /\ frac[d] + n * Hz(d) = DomainTicks(d, n) * clock.core + Carry(d, n)
<1>1. clock.core \in Nat \ {0} /\ Hz(d) \in Nat /\ frac[d] \in Nat
  BY Frequencies DEF ClockTypes
<1>2. frac[d] + n * Hz(d) \in Nat
  BY <1>1
<1> QED
  BY <1>1, <1>2, DivMod DEF DomainTicks, Carry

(* The meter of one domain after a batch.                                  *)
LEMMA MeterIsExact ==
  ASSUME ClockInv, NEW d \in Domain, NEW n \in Nat
  PROVE  /\ MeterAfter(d, n) \in [base : Nat, spent : Nat, ticks : Int]
         /\ MeterAfter(d, n).ticks * clock.core + Carry(d, n)
              = MeterAfter(d, n).base + MeterAfter(d, n).spent * Hz(d)
<1> DEFINE c == clock.core
           m == meter[d]
           s == m.spent + n
           w == s \div c
           q == DomainTicks(d, n)
           r == Carry(d, n)
<1>1. c \in Nat \ {0} /\ Hz(d) \in Nat /\ frac[d] \in Nat
  BY Frequencies DEF ClockInv, ClockTypes
<1>2. m \in [base : Nat, spent : Nat, ticks : Int]
  BY DEF ClockInv, ClockTypes
<1>3. m.base \in Nat /\ m.spent \in Nat /\ m.ticks \in Int
  BY <1>2
<1>4. s \in Nat
  BY <1>3
<1>5. w \in Nat /\ s = w * c + (s % c) /\ s % c \in Nat
  <2> HIDE DEF c, s
  <2>1. s \div c \in Nat /\ s % c \in 0 .. c - 1 /\ s = (s \div c) * c + (s % c)
    BY <1>1, <1>4, DivMod
  <2> QED
    BY <1>1, <2>1
<1>6. s - w * c \in Nat
  BY <1>1, <1>5
<1>7. q \in Nat /\ r \in Nat /\ frac[d] + n * Hz(d) = q * c + r
  BY BatchSplits, <1>1 DEF ClockInv
<1>8. MeterAfter(d, n) = [base |-> m.base, spent |-> s - w * c,
                          ticks |-> m.ticks + q - w * Hz(d)]
  BY DEF MeterAfter
<1>9. /\ MeterAfter(d, n).base = m.base
      /\ MeterAfter(d, n).spent = s - w * c
      /\ MeterAfter(d, n).ticks = m.ticks + q - w * Hz(d)
      /\ MeterAfter(d, n) \in [base : Nat, spent : Nat, ticks : Int]
  <2>1. w * Hz(d) \in Int
    BY <1>1, <1>5
  <2>2. m.ticks + q - w * Hz(d) \in Int
    BY <2>1, <1>3, <1>7
  <2> HIDE DEF m, s, w, q, c
  <2> QED
    BY <1>3, <1>6, <1>8, <2>2
<1>10. m.ticks * c + frac[d] = m.base + m.spent * Hz(d)
  BY DEF ClockInv, TicksFollowClock
<1>11. (m.ticks + q - w * Hz(d)) * c + r
         = m.base + ((m.spent + n) - w * c) * Hz(d)
  <2>1. /\ m.ticks \in Int /\ c \in Int /\ frac[d] \in Int /\ m.base \in Int
        /\ m.spent \in Int /\ Hz(d) \in Int /\ q \in Int /\ r \in Int
        /\ w \in Int /\ n \in Int
    BY <1>1, <1>3, <1>5, <1>7
  <2>2. frac[d] + n * Hz(d) = q * c + r
    BY <1>7
  <2> HIDE DEF m, w, q, r, c, s
  <2>3. (m.ticks + q - w * Hz(d)) * c = m.ticks * c + q * c - (w * Hz(d)) * c
    BY <2>1
  <2>4. ((m.spent + n) - w * c) * Hz(d)
          = m.spent * Hz(d) + n * Hz(d) - (w * c) * Hz(d)
    BY <2>1
  <2>5. (w * Hz(d)) * c = (w * c) * Hz(d)
    BY <2>1
  <2> DEFINE tc == m.ticks * c  qc == q * c  wh == (w * c) * Hz(d)
             sh == m.spent * Hz(d)  nh == n * Hz(d)
  <2>6. /\ tc \in Int /\ qc \in Int /\ wh \in Int /\ sh \in Int /\ nh \in Int
        /\ frac[d] \in Int /\ r \in Int /\ m.base \in Int
    BY <2>1
  <2>7. /\ (m.ticks + q - w * Hz(d)) * c = tc + qc - wh
        /\ ((m.spent + n) - w * c) * Hz(d) = sh + nh - wh
        /\ tc + frac[d] = m.base + sh
        /\ frac[d] + nh = qc + r
    BY <1>10, <2>2, <2>3, <2>4, <2>5
  <2> HIDE DEF tc, qc, wh, sh, nh
  <2> QED
    BY <2>6, <2>7
<1> QED
  BY <1>9, <1>11

LEMMA AdvanceKeepsClockInv ==
  ASSUME ClockInv, NEW n \in Nat, NEW external, AdvanceClocks(n, external)
  PROVE  ClockInv'
<1> DEFINE ds == Clocked(external)
<1>1. /\ clock' = clock
      /\ frac' = [d \in Domain |-> IF d \in ds THEN Carry(d, n) ELSE frac[d]]
      /\ meter' = [d \in Domain |-> IF d \in ds THEN MeterAfter(d, n)
                                                ELSE meter[d]]
  BY DEF AdvanceClocks, clockVars
<1>2. clock.core \in Nat \ {0} /\ \A d \in Domain : Hz(d)' = Hz(d)
  BY <1>1, Frequencies DEF ClockInv, ClockTypes, Hz
<1>3. \A d \in Domain : /\ Carry(d, n) \in 0 .. clock.core - 1
                        /\ Carry(d, n) \in Nat
  BY BatchSplits, <1>2 DEF ClockInv
<1>4. ClockTypes'
  <2>1. frac' \in [Domain -> Nat]
    BY <1>1, <1>3 DEF ClockInv, ClockTypes
  <2>2. meter' \in [Domain -> [base : Nat, spent : Nat, ticks : Int]]
    BY <1>1, MeterIsExact DEF ClockInv, ClockTypes
  <2> QED
    BY <1>1, <2>1, <2>2 DEF ClockInv, ClockTypes
<1>5. TicksFollowClock'
  <2> SUFFICES ASSUME NEW d \in Domain
      PROVE /\ meter'[d].ticks * clock'.core + frac'[d]
                 = meter'[d].base + meter'[d].spent * Hz(d)'
            /\ \/ frac'[d] < clock'.core
               \/ meter'[d] = [base |-> frac'[d], spent |-> 0, ticks |-> 0]
    BY DEF TicksFollowClock
  <2>1. CASE d \in ds
    <3>1. frac'[d] = Carry(d, n) /\ meter'[d] = MeterAfter(d, n)
      BY <1>1, <2>1
    <3>2. frac'[d] < clock'.core
      BY <1>1, <1>2, <1>3, <3>1
    <3> QED
      BY <1>1, <1>2, <3>1, <3>2, MeterIsExact
  <2>2. CASE d \notin ds
    <3>1. frac'[d] = frac[d] /\ meter'[d] = meter[d]
      BY <1>1, <2>2
    <3> QED
      BY <1>1, <1>2, <3>1 DEF ClockInv, TicksFollowClock
  <2> QED
    BY <2>1, <2>2
<1> QED
  BY <1>4, <1>5 DEF ClockInv

LEMMA ClockInit ==
  ASSUME Init
  PROVE  ClockInv
<1>1. ClockTypes
  BY DEF Init, ClockTypes
<1>2. TicksFollowClock
  <2> SUFFICES ASSUME NEW d \in Domain
      PROVE /\ meter[d].ticks * clock.core + frac[d]
                 = meter[d].base + meter[d].spent * Hz(d)
            /\ frac[d] < clock.core
    BY DEF TicksFollowClock
  <2>1. clock.core \in Nat \ {0} /\ Hz(d) \in Nat
    BY <1>1, Frequencies DEF ClockTypes
  <2>2. frac[d] = 0 /\ meter[d] = [base |-> 0, spent |-> 0, ticks |-> 0]
    BY DEF Init
  <2> QED
    BY <2>1, <2>2
<1> QED
  BY <1>1, <1>2 DEF ClockInv

LEMMA ClockStep ==
  ASSUME ClockInv, [Next]_vars
  PROVE  ClockInv'
<1>1. CASE UNCHANGED clockVars
  BY <1>1 DEF clockVars, ClockInv, ClockTypes, TicksFollowClock, Hz
<1>2. CASE Retune
  <2>1. /\ clock' \in Clocks /\ frac' = frac
        /\ meter' = [d \in Domain |->
                       [base |-> frac[d], spent |-> 0, ticks |-> 0]]
    BY <1>2 DEF Retune
  <2>2. ClockTypes'
    BY <2>1 DEF ClockInv, ClockTypes
  <2>3. TicksFollowClock'
    <3> SUFFICES ASSUME NEW d \in Domain
        PROVE /\ meter'[d].ticks * clock'.core + frac'[d]
                   = meter'[d].base + meter'[d].spent * Hz(d)'
              /\ meter'[d] = [base |-> frac'[d], spent |-> 0, ticks |-> 0]
      BY DEF TicksFollowClock
    <3>1. clock'.core \in Nat /\ Hz(d)' \in Nat /\ frac[d] \in Nat
      <4>1. /\ clock' \in [core : Nat \ {0}, perclk : Nat \ {0}]
            /\ Hz("perclk")' = clock'.perclk /\ Hz("osc")' = Osc
            /\ Hz("lf")' = LowFreq /\ Hz("systick")' = SysTickHz
        BY <2>1, ClocksAssumption DEF Hz
      <4> QED
        BY <4>1, ClocksAssumption DEF Domain, ClockInv, ClockTypes
    <3> QED
      BY <2>1, <3>1
  <2> QED
    BY <2>2, <2>3 DEF ClockInv
<1>3. CASE Tick
  BY <1>3, AdvanceKeepsClockInv DEF Tick
<1>4. CASE \E cycles \in HostBatches : HostTick(cycles)
  BY <1>4, AdvanceKeepsClockInv, InputAssumption DEF HostTick
<1>5. CASE ChipReset
  <2> DEFINE zero == [base |-> 0, spent |-> 0, ticks |-> 0]
  <2>1. /\ clock' = clock
        /\ frac' = [frac EXCEPT !["systick"] = 0]
        /\ meter' = [meter EXCEPT !["systick"] = zero]
    BY <1>5 DEF ChipReset
  <2>2. ClockTypes'
    <3>1. zero \in [base : Nat, spent : Nat, ticks : Int]
      OBVIOUS
    <3>2. frac' \in [Domain -> Nat]
      BY <2>1 DEF ClockInv, ClockTypes
    <3>3. meter' \in [Domain -> [base : Nat, spent : Nat, ticks : Int]]
      <4> HIDE DEF zero
      <4> QED
        BY <2>1, <3>1 DEF ClockInv, ClockTypes
    <3> QED
      BY <2>1, <3>2, <3>3 DEF ClockInv, ClockTypes
  <2>3. TicksFollowClock'
    <3> SUFFICES ASSUME NEW d \in Domain
        PROVE /\ meter'[d].ticks * clock'.core + frac'[d]
                   = meter'[d].base + meter'[d].spent * Hz(d)'
              /\ \/ frac'[d] < clock'.core
                 \/ meter'[d] = [base |-> frac'[d], spent |-> 0, ticks |-> 0]
      BY DEF TicksFollowClock
    <3>1. Hz(d)' = Hz(d) /\ Hz(d) \in Nat /\ clock.core \in Nat \ {0}
      BY <2>1, Frequencies DEF Hz, ClockInv, ClockTypes
    <3>2. CASE d = "systick"
      <4>1. frac'[d] = 0 /\ meter'[d] = zero
        BY <2>1, <3>2 DEF ClockInv, ClockTypes
      <4> QED
        BY <2>1, <3>1, <4>1
    <3>3. CASE d # "systick"
      <4>1. frac'[d] = frac[d] /\ meter'[d] = meter[d]
        BY <2>1, <3>3 DEF ClockInv, ClockTypes
      <4> QED
        BY <2>1, <3>1, <4>1 DEF ClockInv, TicksFollowClock
    <3> QED
      BY <3>2, <3>3
  <2> QED
    BY <2>2, <2>3 DEF ClockInv
<1>6. CASE CoreTick \/ EnterSysTick
  BY <1>6, <1>1 DEF CoreTick, EnterSysTick
<1>7. CASE OtherInstruction \/ UsePit \/ UseGpt \/ UseQtmr \/ UseSysTick
  BY <1>7, <1>1 DEF OtherInstruction, UsePit, UseGpt, UseQtmr, UseSysTick
<1>8. CASE UNCHANGED vars
  BY <1>8, <1>1 DEF vars
<1> QED
  BY <1>2, <1>3, <1>4, <1>5, <1>6, <1>7, <1>8 DEF Next, Execute

(* The carries of Peripherals::tick and tick_systick_external account for  *)
(* every cycle, for all frequencies and all batches, also across changes   *)
(* of the clock tree.                                                      *)
THEOREM CarriesAreExact == Spec => []TicksFollowClock
<1>1. Init => ClockInv
  BY ClockInit
<1>2. ClockInv /\ [Next]_vars => ClockInv'
  BY ClockStep
<1>3. ClockInv => TicksFollowClock
  BY DEF ClockInv
<1> QED
  BY <1>1, <1>2, <1>3, PTL DEF Spec

(***************************************************************************)
(* SysTick                                                                 *)
(***************************************************************************)

(* A position is one of RVR + 1 steps; RVR is not zero where there is one. *)
PositionOk ==
  sysPos = Unknown \/ (systick.rvr > 0 /\ sysPos \in 0 .. systick.rvr)

SysInv == SysTickTypes /\ PositionOk /\ SysTickKeepsTime

(* Counting a period further does not change the position.                 *)
LEMMA ModShift ==
  ASSUME NEW a \in Nat, NEW p \in Nat \ {0}
  PROVE  /\ a < p => a % p = a /\ a \div p = 0
         /\ a >= p => a % p = (a - p) % p
<1>1. a < p => a % p = a /\ a \div p = 0
  BY DivModUnique
<1>2. ASSUME a >= p PROVE a % p = (a - p) % p
  <2>1. a - p \in Nat
    BY <1>2
  <2> DEFINE q == (a - p) \div p
             r == (a - p) % p
  <2>2. q \in Nat /\ r \in 0 .. p - 1 /\ a - p = q * p + r
    BY <2>1, DivMod
  <2> HIDE DEF q, r
  <2>3. a = (q + 1) * p + r /\ q + 1 \in Nat
    BY <2>2
  <2>4. a % p = r
    BY <2>2, <2>3, DivModUnique
  <2> QED
    BY <2>4 DEF r
<1> QED
  BY <1>1, <1>2

(* What systick_advance makes of CVR and whether it fires, when the        *)
(* counter stood at the position pos of a period of rvr + 1 ticks.         *)
AdvancedCvr(cvr, rvr, ticks) ==
  LET reloads == cvr = 0
      start   == IF reloads THEN rvr ELSE cvr
      left    == IF reloads THEN ticks - 1 ELSE ticks
      rest    == (left - start) % (rvr + 1)
  IN  IF left < start THEN start - left
      ELSE IF start = 0 \/ rvr = 0 \/ rest = 0 THEN 0
      ELSE rvr - (rest - 1)

AdvanceFires(cvr, rvr, ticks) ==
  LET reloads == cvr = 0
      start   == IF reloads THEN rvr ELSE cvr
      left    == IF reloads THEN ticks - 1 ELSE ticks
  IN  left >= start /\ start # 0

CvrAt(pos, rvr) == IF pos = 0 THEN 0 ELSE rvr + 1 - pos

(* The closed form of a batch is the position moved on by the batch.       *)
LEMMA BatchFollowsPosition ==
  ASSUME NEW rvr \in Nat \ {0}, NEW pos \in 0 .. rvr, NEW n \in Nat \ {0}
  PROVE  /\ AdvancedCvr(CvrAt(pos, rvr), rvr, n) = CvrAt((pos + n) % (rvr + 1), rvr)
         /\ AdvanceFires(CvrAt(pos, rvr), rvr, n) <=> pos + n > rvr
<1> DEFINE p == rvr + 1
           start == IF pos = 0 THEN rvr ELSE p - pos
           left == IF pos = 0 THEN n - 1 ELSE n
<1>1. p \in Nat \ {0} /\ pos + n \in Nat
  OBVIOUS
<1>2. left - start = pos + n - p
  OBVIOUS
<1>3. left < start <=> pos + n < p
  OBVIOUS
<1>4. CASE pos + n < p
  <2>1. (pos + n) % p = pos + n
    BY <1>1, <1>4, ModShift
  <2>2. AdvancedCvr(CvrAt(pos, rvr), rvr, n) = start - left
    BY <1>3, <1>4 DEF AdvancedCvr, CvrAt
  <2>3. start - left = p - (pos + n)
    OBVIOUS
  <2>4. ~AdvanceFires(CvrAt(pos, rvr), rvr, n)
    BY <1>3, <1>4 DEF AdvanceFires, CvrAt
  <2>5. CvrAt(pos + n, rvr) = p - (pos + n)
    BY DEF CvrAt
  <2> QED
    BY <1>4, <2>1, <2>2, <2>3, <2>4, <2>5
<1>5. CASE pos + n >= p
  <2> DEFINE rest == (pos + n - p) % p
  <2>1. (pos + n) % p = rest
    <3> DEFINE a == pos + n
    <3>1. a \in Nat /\ a >= p
      BY <1>5
    <3> HIDE DEF a, p
    <3>2. a % p = (a - p) % p
      BY <3>1, <1>1, ModShift
    <3> QED
      BY <3>2 DEF a, p
  <2>2. pos + n - p \in Nat
    BY <1>5
  <2>3. rest \in 0 .. p - 1
    BY <1>1, <2>2, DivMod
  <2>4. AdvancedCvr(CvrAt(pos, rvr), rvr, n)
          = IF rest = 0 THEN 0 ELSE rvr - (rest - 1)
    BY <1>2, <1>3, <1>5 DEF AdvancedCvr, CvrAt
  <2>5. AdvanceFires(CvrAt(pos, rvr), rvr, n)
    BY <1>3, <1>5 DEF AdvanceFires, CvrAt
  <2> HIDE DEF rest
  <2>6. CvrAt(rest, rvr) = IF rest = 0 THEN 0 ELSE rvr - (rest - 1)
    BY <2>3 DEF CvrAt
  <2> QED
    BY <1>5, <2>1, <2>4, <2>5, <2>6
<1> QED
  BY <1>1, <1>4, <1>5

(* A batch leaves CVR a number.                                            *)
LEMMA AdvancedCvrIsNat ==
  ASSUME NEW cvr \in Nat, NEW rvr \in Nat, NEW n \in Nat \ {0}
  PROVE  AdvancedCvr(cvr, rvr, n) \in Nat
<1> DEFINE start == IF cvr = 0 THEN rvr ELSE cvr
           left == IF cvr = 0 THEN n - 1 ELSE n
           rest == (left - start) % (rvr + 1)
<1>1. start \in Nat /\ left \in Nat
  OBVIOUS
<1>2. CASE left < start
  BY <1>1, <1>2 DEF AdvancedCvr
<1>3. CASE left >= start
  <2>1. left - start \in Nat /\ rvr + 1 \in Nat \ {0}
    BY <1>1, <1>3
  <2>2. rest \in 0 .. rvr
    <3> HIDE DEF left, start
    <3>1. rest \in 0 .. (rvr + 1) - 1
      BY <2>1, DivMod
    <3> QED
      BY <3>1
  <2>3. AdvancedCvr(cvr, rvr, n)
          = IF start = 0 \/ rvr = 0 \/ rest = 0 THEN 0 ELSE rvr - (rest - 1)
    BY <1>3 DEF AdvancedCvr
  <2> HIDE DEF rest, start
  <2> QED
    BY <2>2, <2>3
<1> QED
  BY <1>1, <1>2, <1>3

(* The registers after systick' changed two or three of its fields.        *)
LEMMA CountedRegisters ==
  ASSUME SysTickTypes, NEW v \in Nat, NEW f \in BOOLEAN,
         systick' = [systick EXCEPT !.cvr = v, !.countflag = f],
         pendst' \in BOOLEAN
  PROVE  /\ SysTickTypes'
         /\ systick'.cvr = v /\ systick'.countflag = f
         /\ systick'.rvr = systick.rvr /\ systick'.tickint = systick.tickint
BY DEF SysTickTypes

(* A counter that moves as its position does keeps the law of SysTick.     *)
LEMMA MovesKeepSysInv ==
  ASSUME SysInv, NEW n \in Nat, NEW v \in Nat, NEW fires \in BOOLEAN,
         systick' = [systick EXCEPT !.cvr = v, !.countflag = @ \/ fires],
         pendst' = (pendst \/ (fires /\ systick.tickint)),
         SysLawTick(n),
         sysPos # Unknown =>
           /\ v = CvrAt((sysPos + n) % (systick.rvr + 1), systick.rvr)
           /\ fires <=> sysPos + n > systick.rvr
  PROVE  SysInv'
<1> DEFINE f == systick.countflag \/ fires
<1>1. SysTickTypes /\ PositionOk /\ SysTickKeepsTime
  BY DEF SysInv
<1>2. /\ systick.countflag \in BOOLEAN /\ systick.tickint \in BOOLEAN
      /\ systick.rvr \in Nat /\ pendst \in BOOLEAN
  BY <1>1 DEF SysTickTypes
<1>3. f \in BOOLEAN /\ pendst' \in BOOLEAN
  BY <1>2
<1>4. systick' = [systick EXCEPT !.cvr = v, !.countflag = f]
  OBVIOUS
<1> HIDE DEF f
<1>5. /\ SysTickTypes'
      /\ systick'.cvr = v /\ systick'.countflag = f
      /\ systick'.rvr = systick.rvr /\ systick'.tickint = systick.tickint
  BY <1>1, <1>3, <1>4, CountedRegisters
<1>6. CASE sysPos = Unknown
  <2>1. /\ sysPos' = Unknown
        /\ sysOwed' = (IF systick'.countflag THEN {"flag"} ELSE {})
                         \union (IF pendst' THEN {"exception"} ELSE {})
    BY <1>6 DEF SysLawTick
  <2>2. SysTickKeepsTime'
    BY <1>3, <1>5, <2>1 DEF SysTickKeepsTime
  <2> QED
    BY <1>5, <2>1, <2>2 DEF SysInv, PositionOk
<1>7. CASE sysPos # Unknown
  <2>1. systick.rvr > 0 /\ sysPos \in 0 .. systick.rvr
    BY <1>1, <1>7 DEF PositionOk
  <2> DEFINE pos == (sysPos + n) % (systick.rvr + 1)
  <2>2. pos \in 0 .. systick.rvr
    <3> DEFINE a == sysPos + n
               p == systick.rvr + 1
    <3>1. a \in Nat /\ p \in Nat \ {0} /\ systick.rvr = p - 1
      BY <1>2, <2>1
    <3> HIDE DEF a, p
    <3>2. a % p \in 0 .. p - 1
      BY <3>1, DivMod
    <3> QED
      BY <3>1, <3>2 DEF a, p
  <2>3. v = CvrAt(pos, systick.rvr) /\ (fires <=> sysPos + n > systick.rvr)
    BY <1>7
  <2>4. /\ sysPos' = pos
        /\ sysOwed' = sysOwed \union
              (IF sysPos + n <= systick.rvr THEN {}
               ELSE IF systick.tickint THEN {"flag", "exception"}
               ELSE {"flag"})
    BY <1>7 DEF SysLawTick
  <2>5. fires <=> ~(sysPos + n <= systick.rvr)
    BY <1>2, <2>1, <2>3
  <2> HIDE DEF pos
  <2>6. PositionOk'
    BY <1>5, <2>1, <2>2, <2>4 DEF PositionOk
  <2>7. /\ systick.countflag <=> "flag" \in sysOwed
        /\ pendst <=> "exception" \in sysOwed
    BY <1>1 DEF SysTickKeepsTime
  <2>8. f <=> "flag" \in sysOwed'
    BY <1>2, <2>4, <2>5, <2>7 DEF f
  <2>9. pendst' <=> "exception" \in sysOwed'
    BY <1>2, <2>4, <2>5, <2>7
  <2>10. systick'.cvr = IF sysPos' = 0 THEN 0 ELSE systick'.rvr + 1 - sysPos'
    BY <1>5, <2>3, <2>4 DEF CvrAt
  <2>11. SysTickKeepsTime'
    BY <1>5, <2>8, <2>9, <2>10 DEF SysTickKeepsTime
  <2> QED
    BY <1>5, <2>6, <2>11 DEF SysInv
<1> QED
  BY <1>6, <1>7

(* A tick of the processor clock is one position.                          *)
LEMMA StepKeepsSysInv ==
  ASSUME SysInv, SysTickStep, systick.enable, ~systick.external, SysLawTick(1)
  PROVE  SysInv'
<1> DEFINE v == IF systick.cvr = 0 THEN systick.rvr ELSE systick.cvr - 1
           fires == systick.cvr = 1
<1>1. SysTickTypes /\ PositionOk /\ SysTickKeepsTime
  BY DEF SysInv
<1>2. systick.cvr \in Nat /\ systick.rvr \in Nat
  BY <1>1 DEF SysTickTypes
<1>3. v \in Nat /\ fires \in BOOLEAN
  BY <1>2
<1>4. /\ systick' = [systick EXCEPT !.cvr = v, !.countflag = @ \/ fires]
      /\ pendst' = (pendst \/ (fires /\ systick.tickint))
  BY DEF SysTickStep
<1>5. ASSUME sysPos # Unknown
      PROVE  /\ v = CvrAt((sysPos + 1) % (systick.rvr + 1), systick.rvr)
             /\ fires <=> sysPos + 1 > systick.rvr
  <2>1. systick.rvr > 0 /\ sysPos \in 0 .. systick.rvr
    BY <1>1, <1>5 DEF PositionOk
  <2>2. systick.cvr = IF sysPos = 0 THEN 0 ELSE systick.rvr + 1 - sysPos
    BY <1>1, <1>5 DEF SysTickKeepsTime
  <2> DEFINE a == sysPos + 1
             p == systick.rvr + 1
  <2>3. a \in Nat /\ p \in Nat \ {0} /\ (a = p \/ a < p)
    BY <1>2, <2>1
  <2>4. a % p = IF a = p THEN 0 ELSE a
    <3> HIDE DEF a, p
    <3>1. CASE a = p
      <4>1. a = 1 * p + 0
        BY <2>3, <3>1
      <4> QED
        BY <2>3, <3>1, <4>1, DivModUnique
    <3>2. CASE a < p
      <4>1. a # p
        BY <2>3, <3>2
      <4> QED
        BY <2>3, <3>2, <4>1, ModShift
    <3> QED
      BY <2>3, <3>1, <3>2
  <2>5. v = CvrAt(IF a = p THEN 0 ELSE a, systick.rvr)
    BY <1>2, <2>1, <2>2 DEF CvrAt
  <2>6. fires <=> sysPos + 1 > systick.rvr
    BY <1>2, <2>1, <2>2
  <2> QED
    BY <2>4, <2>5, <2>6
<1> HIDE DEF v, fires
<1> QED
  BY <1>3, <1>4, <1>5, MovesKeepSysInv

(* A batch of the external clock is as many positions.                     *)
LEMMA AdvanceKeepsSysInv ==
  ASSUME SysInv, NEW n \in Nat, systick.enable, SysTickAdvance(n),
         SysLawTick(n)
  PROVE  SysInv'
<1> DEFINE v == AdvancedCvr(systick.cvr, systick.rvr, n)
           fires == AdvanceFires(systick.cvr, systick.rvr, n)
<1>1. SysTickTypes /\ PositionOk /\ SysTickKeepsTime
  BY DEF SysInv
<1>2. systick.cvr \in Nat /\ systick.rvr \in Nat
  BY <1>1 DEF SysTickTypes
<1>3. CASE n # 0
  <2>1. v \in Nat
    BY <1>2, <1>3, AdvancedCvrIsNat
  <2>2. fires \in BOOLEAN
    BY DEF AdvanceFires
  <2>3. /\ systick' = [systick EXCEPT !.cvr = v, !.countflag = @ \/ fires]
        /\ pendst' = (pendst \/ (fires /\ systick.tickint))
    BY <1>3 DEF SysTickAdvance, AdvancedCvr, AdvanceFires
  <2>4. ASSUME sysPos # Unknown
        PROVE  /\ v = CvrAt((sysPos + n) % (systick.rvr + 1), systick.rvr)
               /\ fires <=> sysPos + n > systick.rvr
    <3>1. systick.rvr > 0 /\ sysPos \in 0 .. systick.rvr
      BY <1>1, <2>4 DEF PositionOk
    <3>2. systick.cvr = CvrAt(sysPos, systick.rvr)
      BY <1>1, <2>4 DEF SysTickKeepsTime, CvrAt
    <3>3. systick.rvr \in Nat \ {0} /\ n \in Nat \ {0}
      BY <1>2, <1>3, <3>1
    <3>4. /\ AdvancedCvr(CvrAt(sysPos, systick.rvr), systick.rvr, n)
               = CvrAt((sysPos + n) % (systick.rvr + 1), systick.rvr)
          /\ AdvanceFires(CvrAt(sysPos, systick.rvr), systick.rvr, n)
               <=> sysPos + n > systick.rvr
      BY <3>1, <3>3, BatchFollowsPosition
    <3> QED
      BY <3>2, <3>4
  <2> HIDE DEF v, fires
  <2> QED
    BY <2>1, <2>2, <2>3, <2>4, MovesKeepSysInv
<1>4. CASE n = 0
  <2>1. UNCHANGED <<systick, pendst>>
    BY <1>4 DEF SysTickAdvance
  <2>2. CASE sysPos = Unknown
    <3>1. /\ sysPos' = Unknown
          /\ sysOwed' = (IF systick.countflag THEN {"flag"} ELSE {})
                          \union (IF pendst THEN {"exception"} ELSE {})
      BY <2>1, <2>2 DEF SysLawTick
    <3> QED
      BY <1>1, <2>1, <3>1
      DEF SysInv, SysTickTypes, PositionOk, SysTickKeepsTime
  <2>3. CASE sysPos # Unknown
    <3>1. systick.rvr > 0 /\ sysPos \in 0 .. systick.rvr
      BY <1>1, <2>3 DEF PositionOk
    <3> DEFINE p == systick.rvr + 1
    <3>2. p \in Nat \ {0} /\ sysPos \in Nat /\ sysPos < p /\ sysPos + n = sysPos
      BY <1>2, <1>4, <3>1
    <3> HIDE DEF p
    <3>3. (sysPos + n) % p = sysPos
      BY <3>2, ModShift
    <3>4. sysPos' = (sysPos + n) % p
      BY <2>3 DEF SysLawTick, p
    <3>5. sysPos + n <= systick.rvr
      BY <1>2, <3>1, <3>2
    <3>6. sysOwed' = sysOwed
      BY <2>3, <3>5 DEF SysLawTick
    <3> QED
      BY <1>1, <2>1, <3>3, <3>4, <3>6
      DEF SysInv, SysTickTypes, PositionOk, SysTickKeepsTime
  <2> QED
    BY <2>2, <2>3
<1> QED
  BY <1>3, <1>4

(* A write of a register.                                                  *)
LEMMA WriteKeepsSysInv ==
  ASSUME SysInv, SysTickTypes', pendst' = pendst, SysLawWrite,
         systick'.countflag = systick.countflag \/ systick'.countflag = FALSE,
         systick'.cvr = systick.cvr \/ systick'.cvr = 0
  PROVE  SysInv'
<1>1. SysTickTypes /\ PositionOk /\ SysTickKeepsTime
  BY DEF SysInv
<1>2. /\ systick.cvr \in Nat /\ systick.rvr \in Nat
      /\ systick'.cvr \in Nat /\ systick'.rvr \in Nat
      /\ systick.countflag \in BOOLEAN
  BY <1>1 DEF SysTickTypes
<1>3. /\ systick'.countflag <=> "flag" \in sysOwed'
      /\ pendst' <=> "exception" \in sysOwed'
  BY <1>1, <1>2 DEF SysLawWrite, SysTickKeepsTime
<1>4. PositionOk'
  BY <1>1, <1>2 DEF SysLawWrite, PositionOk, Unknown
<1>5. sysPos' # Unknown' =>
        systick'.cvr = IF sysPos' = 0 THEN 0 ELSE systick'.rvr + 1 - sysPos'
  BY <1>1, <1>2 DEF SysLawWrite, PositionOk, SysTickKeepsTime, Unknown
<1> QED
  BY <1>3, <1>4, <1>5 DEF SysInv, SysTickKeepsTime

LEMMA SysInit == Init => SysInv
<1> SUFFICES ASSUME Init PROVE SysInv
  OBVIOUS
<1>1. /\ systick = [enable |-> FALSE, tickint |-> FALSE, external |-> TRUE,
                    countflag |-> FALSE, rvr |-> 0, cvr |-> 0]
      /\ pendst = FALSE /\ sysPos = Unknown /\ sysOwed = {}
  BY DEF Init, SysTickInit
<1>2. SysTickTypes
  BY <1>1 DEF SysTickTypes
<1>3. SysTickKeepsTime
  <2>1. systick.countflag = FALSE
    BY <1>1
  <2> QED
    BY <1>1, <2>1 DEF SysTickKeepsTime
<1> QED
  BY <1>1, <1>2, <1>3 DEF SysInv, PositionOk

LEMMA SysStep ==
  ASSUME ClockInv, SysInv, [Next]_vars
  PROVE  SysInv'
<1>1. SysTickTypes /\ PositionOk /\ SysTickKeepsTime
  BY DEF SysInv
<1>2. ASSUME UNCHANGED <<systick, pendst, sysPos, sysOwed>>
      PROVE  SysInv'
  BY <1>1, <1>2
  DEF SysInv, SysTickTypes, PositionOk, SysTickKeepsTime, Unknown
<1>3. CASE CoreTick
  <2>1. CASE systick.enable /\ ~systick.external
    BY <1>3, <2>1, StepKeepsSysInv DEF CoreTick
  <2>2. CASE ~(systick.enable /\ ~systick.external)
    <3>1. systick.enable \in BOOLEAN /\ systick.external \in BOOLEAN
      BY <1>1 DEF SysTickTypes
    <3> QED
      BY <1>2, <1>3, <2>2, <3>1 DEF CoreTick, SysTickStep, sysLaw
  <2> QED
    BY <2>1, <2>2
<1>4. CASE EnterSysTick
  <2>1. /\ pendst' = FALSE /\ systick' = systick
        /\ sysPos' = sysPos /\ sysOwed' = sysOwed \ {"exception"}
    BY <1>4 DEF EnterSysTick, TakeSysTick
  <2> QED
    BY <1>1, <2>1
    DEF SysInv, SysTickTypes, PositionOk, SysTickKeepsTime, Unknown
<1>5. CASE Tick
  <2>1. CASE External
    <3> DEFINE n == DomainTicks("systick", 1)
    <3>1. n \in Nat
      BY BatchSplits DEF ClockInv, Domain
    <3>2. systick.enable /\ SysTickAdvance(n) /\ SysLawTick(n)
      BY <1>5, <2>1 DEF Tick, External
    <3> HIDE DEF n
    <3> QED
      BY <3>1, <3>2, AdvanceKeepsSysInv
  <2>2. CASE ~External
    BY <1>2, <1>5, <2>2 DEF Tick, sysTickVars, sysLaw
  <2> QED
    BY <2>1, <2>2
<1>6. CASE UseSysTick
  <2>1. SysLawWrite
    BY <1>6 DEF UseSysTick
  <2>2. ASSUME NEW enable \in BOOLEAN, NEW tickint \in BOOLEAN,
               NEW external \in BOOLEAN, WriteCsr(enable, tickint, external)
        PROVE  SysInv'
    BY <1>1, <2>1, <2>2, WriteKeepsSysInv DEF WriteCsr, SysTickTypes
  <2>3. ASSUME NEW value \in Values, WriteRvr(value)
        PROVE  SysInv'
    <3>1. value \in Nat
      BY InputAssumption
    <3> QED
      BY <1>1, <2>1, <2>3, <3>1, WriteKeepsSysInv DEF WriteRvr, SysTickTypes
  <2>4. CASE WriteCvr
    BY <1>1, <2>1, <2>4, WriteKeepsSysInv DEF WriteCvr, SysTickTypes
  <2>5. CASE ReadCsr
    BY <1>1, <2>1, <2>5, WriteKeepsSysInv DEF ReadCsr, SysTickTypes
  <2> QED
    BY <1>6, <2>2, <2>3, <2>4, <2>5 DEF UseSysTick
<1>7. CASE ChipReset
  BY <1>7 DEF ChipReset, SysInv, SysTickTypes, PositionOk, SysTickKeepsTime,
              Unknown
<1>8. CASE \/ OtherInstruction \/ Retune \/ UsePit \/ UseGpt \/ UseQtmr
           \/ UNCHANGED vars
           \/ \E cycles \in HostBatches : HostTick(cycles)
  BY <1>2, <1>8
  DEF OtherInstruction, Retune, UsePit, UseGpt, UseQtmr, vars, HostTick,
      sysTickVars, sysLaw
<1> QED
  BY <1>3, <1>4, <1>5, <1>6, <1>7, <1>8 DEF Next, Execute

(* SysTick keeps its period for every RVR, every batch and every mixture   *)
(* of its two clocks: the closed form of systick_advance is the iterated   *)
(* step, and neither COUNTFLAG nor the exception is lost on the way.       *)
THEOREM SysTickIsExact == Spec => []SysTickKeepsTime
<1>1. Init => ClockInv /\ SysInv
  BY ClockInit, SysInit
<1>2. ClockInv /\ SysInv /\ [Next]_vars => (ClockInv /\ SysInv)'
  BY ClockStep, SysStep
<1>3. ClockInv /\ SysInv => SysTickKeepsTime
  BY DEF SysInv
<1> QED
  BY <1>1, <1>2, <1>3, PTL DEF Spec
=============================================================================
