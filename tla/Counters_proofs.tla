---------------------------- MODULE Counters_proofs ----------------------------
(***************************************************************************)
(* Proofs that the batched counters of Timers keep time: PIT with its      *)
(* chained channels, GPT with its prescaler and QTMR with its reload count *)
(* every tick of a batch, for every reload value, divisor and batch, and   *)
(* whatever the firmware rewrites between two batches.                     *)
(***************************************************************************)
EXTENDS Timers_proofs, Induction_proofs

(***************************************************************************)
(* PIT: one channel                                                        *)
(***************************************************************************)

(* A channel whose CVAL mirrors its position makes of a batch what the     *)
(* position makes of it: as many timeouts as periods are completed.        *)
LEMMA BatchFollowsPeriod ==
  ASSUME NEW ch, ch.ldval \in Nat, NEW pos \in 0 .. ch.ldval, NEW n \in Nat,
         ch.cval = ch.ldval - pos
  PROVE  /\ Timeouts(ch, n) = (pos + n) \div (ch.ldval + 1)
         /\ CvalAfter(ch, n) = ch.ldval - ((pos + n) % (ch.ldval + 1))
<1> DEFINE L == ch.ldval
           p == L + 1
           a == pos + n
<1>1. p \in Nat \ {0} /\ a \in Nat /\ L = p - 1
  OBVIOUS
<1>2. CASE a <= L
  <2>1. n <= ch.cval
    BY <1>2
  <2>2. a % p = a /\ a \div p = 0
    <3>1. a < p
      BY <1>2
    <3> HIDE DEF a, p
    <3> QED
      BY <1>1, <3>1, ModShift
  <2>3. Timeouts(ch, n) = 0 /\ CvalAfter(ch, n) = L - a
    BY <2>1 DEF Timeouts, CvalAfter
  <2> QED
    BY <2>2, <2>3
<1>3. CASE a > L
  <2> DEFINE b == a - p
  <2>1. ~(n <= ch.cval) /\ n - ch.cval - 1 = b /\ b \in Nat
    BY <1>3
  <2>2. Timeouts(ch, n) = 1 + (b \div p) /\ CvalAfter(ch, n) = L - (b % p)
    BY <2>1 DEF Timeouts, CvalAfter
  <2>3. a = b + p
    BY <1>1
  <2> HIDE DEF a, p, b
  <2>4. a \div p = 1 + (b \div p) /\ a % p = b % p
    <3> DEFINE q == b \div p
               r == b % p
    <3>1. q \in Nat /\ r \in 0 .. p - 1 /\ b = q * p + r
      BY <1>1, <2>1, DivMod
    <3> HIDE DEF q, r
    <3>2. a = (1 + q) * p + r /\ 1 + q \in Nat
      BY <1>1, <2>3, <3>1
    <3>3. a \div p = 1 + q /\ a % p = r
      BY <1>1, <3>1, <3>2, DivModUnique
    <3> QED
      BY <3>3 DEF q, r
  <2>5. Timeouts(ch, n) = a \div p /\ CvalAfter(ch, n) = L - (a % p)
    BY <2>2, <2>4
  <2> QED
    BY <2>5 DEF a, p
<1> QED
  BY <1>1, <1>2, <1>3

(* What a channel counts are numbers, also where no law says which.        *)
LEMMA BatchIsCounted ==
  ASSUME NEW ch, ch.ldval \in Nat, ch.cval \in Nat, NEW n \in Nat
  PROVE  Timeouts(ch, n) \in Nat /\ CvalAfter(ch, n) \in Nat
<1> DEFINE p == ch.ldval + 1
           b == n - ch.cval - 1
<1>1. CASE n <= ch.cval
  BY <1>1 DEF Timeouts, CvalAfter
<1>2. CASE n > ch.cval
  <2>1. p \in Nat \ {0} /\ b \in Nat /\ ch.ldval = p - 1
    BY <1>2
  <2>2. Timeouts(ch, n) = 1 + (b \div p) /\ CvalAfter(ch, n) = ch.ldval - (b % p)
    BY <1>2 DEF Timeouts, CvalAfter
  <2> HIDE DEF p, b
  <2>3. b \div p \in Nat /\ b % p \in 0 .. p - 1
    BY <2>1, DivMod
  <2> QED
    BY <2>1, <2>2, <2>3
<1> QED
  BY <1>1, <1>2

(***************************************************************************)
(* PIT: the chain of channels                                              *)
(***************************************************************************)

PitPositions == pitPos \in [PitChannel -> Nat \union {Unknown}]

(* What enters a channel of the code, and what the law says comes out.     *)
Entering(f, c, ticks) ==
  IF c > 0 /\ pit[c].chn
    THEN IF pit[c - 1].ten THEN Timeouts(pit[c - 1], f[c - 1]) ELSE 0
    ELSE ticks

Completed(f, c, ticks) ==
  LET input == IF c > 0 /\ pit[c].chn THEN f[c - 1] ELSE ticks
  IN  IF PitRunning(c) /\ pitPos[c] # Unknown
        THEN (pitPos[c] + input) \div (pit[c].ldval + 1) ELSE 0

LEMMA PitChannels ==
  /\ 0 \in PitChannel
  /\ \A c \in PitChannel : c \in Nat /\ (c > 0 => c - 1 \in PitChannel)
  /\ LastChannel \in Nat
  BY LastChannelAssumption DEF PitChannel

LEMMA ChannelIsTyped ==
  ASSUME PitTypes, NEW c \in PitChannel
  PROVE  /\ pit[c].ldval \in Nat /\ pit[c].cval \in Nat /\ pit[c].ten \in BOOLEAN
         /\ pit[c].chn \in BOOLEAN /\ pit[c].tif \in BOOLEAN
         /\ pit[c] \in [ldval : Nat, cval : Nat, ten : BOOLEAN,
                        tie : BOOLEAN, chn : BOOLEAN, tif : BOOLEAN]
  BY DEF PitTypes

LEMMA InputsFollowTheChain ==
  ASSUME PitTypes, NEW ticks \in Nat
  PROVE  /\ PitInputs(ticks) \in [PitChannel -> Nat]
         /\ \A c \in PitChannel :
              PitInputs(ticks)[c] = Entering(PitInputs(ticks), c, ticks)
<1> DEFINE step == [c \in 1 .. LastChannel |-> [n \in Nat |->
                      IF pit[c].chn
                        THEN IF pit[c - 1].ten THEN Timeouts(pit[c - 1], n) ELSE 0
                        ELSE ticks]]
           Solves(f) == f = [c \in PitChannel |-> Entering(f, c, ticks)]
<1>1. step \in [1 .. LastChannel -> [Nat -> Nat]]
  <2> SUFFICES ASSUME NEW c \in 1 .. LastChannel, NEW n \in Nat
               PROVE  (IF pit[c].chn
                        THEN IF pit[c - 1].ten THEN Timeouts(pit[c - 1], n) ELSE 0
                        ELSE ticks) \in Nat
    OBVIOUS
  <2>1. c - 1 \in PitChannel
    BY PitChannels DEF PitChannel
  <2> QED
    BY <2>1, ChannelIsTyped, BatchIsCounted
<1>2. PICK g \in [PitChannel -> Nat] :
        g[0] = ticks /\ \A c \in 1 .. LastChannel : g[c] = step[c][g[c - 1]]
  <2> HIDE DEF step
  <2>1. \E g : IsChain(g, LastChannel, Nat, ticks, step)
    BY <1>1, PitChannels, ChainExists
  <2> QED
    BY <2>1 DEF PitChannel, IsChain
<1>3. Solves(g)
  <2> SUFFICES ASSUME NEW c \in PitChannel PROVE g[c] = Entering(g, c, ticks)
    <3>1. g = [c \in PitChannel |-> g[c]]
      BY <1>2
    <3> QED
      BY <3>1
  <2>1. CASE c = 0
    BY <1>2, <2>1 DEF Entering
  <2>2. CASE c # 0
    <3>1. c \in 1 .. LastChannel /\ c > 0 /\ g[c - 1] \in Nat
      BY <1>2, <2>2, PitChannels DEF PitChannel
    <3>2. g[c] = step[c][g[c - 1]]
      BY <1>2, <3>1
    <3> QED
      BY <3>1, <3>2 DEF Entering
  <2> QED
    BY <2>1, <2>2
<1>4. PitInputs(ticks) = CHOOSE f : Solves(f)
  BY DEF PitInputs, Entering
<1> DEFINE f == PitInputs(ticks)
<1>5. Solves(f)
  <2> HIDE DEF Solves
  <2> QED
    BY <1>3, <1>4
<1> HIDE DEF f
<1>6. \A c \in PitChannel : f[c] = Entering(f, c, ticks)
  BY <1>5
<1>7. \A c \in PitChannel : f[c] \in Nat
  <2> DEFINE Typed == {c \in PitChannel : f[c] \in Nat}
  <2>1. 0 \in Typed
    <3>1. f[0] = ticks
      BY <1>6, PitChannels DEF Entering
    <3> QED
      BY <3>1, PitChannels
  <2>2. ASSUME NEW c \in 1 .. LastChannel, c - 1 \in Typed
        PROVE  c \in Typed
    <3>1. c \in PitChannel /\ c - 1 \in PitChannel /\ f[c - 1] \in Nat
      BY <2>2 DEF PitChannel
    <3>2. Timeouts(pit[c - 1], f[c - 1]) \in Nat
      BY <3>1, ChannelIsTyped, BatchIsCounted
    <3>3. Entering(f, c, ticks) \in Nat
      BY <3>2 DEF Entering
    <3> QED
      BY <1>6, <3>1, <3>3
  <2> HIDE DEF Typed
  <2>3. \A c \in 0 .. LastChannel : c \in Typed
    BY <2>1, <2>2, PitChannels, UpToTheBound
  <2> QED
    BY <2>3 DEF PitChannel, Typed
<1>8. f \in [PitChannel -> Nat]
  <2>1. f = [c \in PitChannel |-> Entering(f, c, ticks)]
    BY <1>5
  <2> HIDE DEF Solves
  <2> QED
    BY <1>6, <1>7, <2>1
<1> QED
  BY <1>6, <1>8 DEF f

LEMMA DueFollowsTheChain ==
  ASSUME PitTypes, PitPositions, NEW ticks \in Nat
  PROVE  /\ PitDue(ticks) \in [PitChannel -> Nat]
         /\ \A c \in PitChannel :
              PitDue(ticks)[c] = Completed(PitDue(ticks), c, ticks)
<1> DEFINE done(c, n) == IF PitRunning(c) /\ pitPos[c] # Unknown
                           THEN (pitPos[c] + n) \div (pit[c].ldval + 1) ELSE 0
           step == [c \in 1 .. LastChannel |-> [n \in Nat |->
                      done(c, IF pit[c].chn THEN n ELSE ticks)]]
           Solves(f) == f = [c \in PitChannel |-> Completed(f, c, ticks)]
<1>1. \A c \in PitChannel, n \in Nat : done(c, n) \in Nat
  <2> SUFFICES ASSUME NEW c \in PitChannel, NEW n \in Nat, pitPos[c] # Unknown
               PROVE  (pitPos[c] + n) \div (pit[c].ldval + 1) \in Nat
    OBVIOUS
  <2> DEFINE a == pitPos[c] + n
             p == pit[c].ldval + 1
  <2>1. a \in Nat /\ p \in Nat \ {0}
    BY ChannelIsTyped DEF PitPositions
  <2> HIDE DEF a, p
  <2>2. a \div p \in Nat
    BY <2>1, DivMod
  <2> QED
    BY <2>2 DEF a, p
<1>2. \A f, c : Completed(f, c, ticks) =
                 done(c, IF c > 0 /\ pit[c].chn THEN f[c - 1] ELSE ticks)
  BY DEF Completed
<1> HIDE DEF done
<1>3. step \in [1 .. LastChannel -> [Nat -> Nat]]
  BY <1>1 DEF PitChannel
<1>4. PICK g : /\ g \in [PitChannel -> Nat] /\ g[0] = done(0, ticks)
               /\ \A c \in 1 .. LastChannel : g[c] = step[c][g[c - 1]]
  <2> HIDE DEF step
  <2>1. done(0, ticks) \in Nat
    BY <1>1, PitChannels
  <2>2. \E g : IsChain(g, LastChannel, Nat, done(0, ticks), step)
    BY <1>3, <2>1, PitChannels, ChainExists
  <2> QED
    BY <2>2 DEF PitChannel, IsChain
<1>5. Solves(g)
  <2> SUFFICES ASSUME NEW c \in PitChannel PROVE g[c] = Completed(g, c, ticks)
    <3>1. g = [c \in PitChannel |-> g[c]]
      BY <1>4
    <3> QED
      BY <3>1
  <2>1. CASE c = 0
    BY <1>2, <1>4, <2>1
  <2>2. CASE c # 0
    <3>1. c \in 1 .. LastChannel /\ c > 0 /\ g[c - 1] \in Nat
      BY <1>4, <2>2, PitChannels DEF PitChannel
    <3>2. g[c] = step[c][g[c - 1]]
      BY <1>4, <3>1
    <3> QED
      BY <1>2, <3>1, <3>2
  <2> QED
    BY <2>1, <2>2
<1>6. PitDue(ticks) = CHOOSE f : Solves(f)
  BY DEF PitDue, Completed
<1> DEFINE f == PitDue(ticks)
<1>7. Solves(f)
  <2> HIDE DEF Solves
  <2> QED
    BY <1>5, <1>6
<1> HIDE DEF f
<1>8. \A c \in PitChannel : f[c] = Completed(f, c, ticks)
  BY <1>7
<1>9. \A c \in PitChannel : f[c] \in Nat
  <2> DEFINE Typed == {c \in PitChannel : f[c] \in Nat}
  <2>1. 0 \in Typed
    <3>1. f[0] = done(0, ticks)
      BY <1>2, <1>8, PitChannels
    <3> QED
      BY <1>1, <3>1, PitChannels
  <2>2. ASSUME NEW c \in 1 .. LastChannel, c - 1 \in Typed
        PROVE  c \in Typed
    <3>1. c \in PitChannel /\ f[c - 1] \in Nat
      BY <2>2 DEF PitChannel
    <3>2. Completed(f, c, ticks) \in Nat
      BY <1>1, <1>2, <3>1
    <3> QED
      BY <1>8, <3>1, <3>2
  <2> HIDE DEF Typed
  <2>3. \A c \in 0 .. LastChannel : c \in Typed
    BY <2>1, <2>2, PitChannels, UpToTheBound
  <2> QED
    BY <2>3 DEF PitChannel, Typed
<1>10. f \in [PitChannel -> Nat]
  <2>1. f = [c \in PitChannel |-> Completed(f, c, ticks)]
    BY <1>7
  <2> HIDE DEF Solves
  <2> QED
    BY <1>8, <1>9, <2>1
<1> QED
  BY <1>8, <1>10 DEF f

(***************************************************************************)
(* PIT: the invariant                                                      *)
(***************************************************************************)

(* An enabled channel with a position is within its period, and its clock  *)
(* has a position too.                                                     *)
PitWithinPeriod ==
  \A c \in PitChannel : pit[c].ten /\ pitPos[c] # Unknown =>
                         pitPos[c] \in 0 .. pit[c].ldval

PitClocksAreKnown ==
  \A c \in PitChannel :
    /\ c > 0 /\ pit[c].chn /\ pit[c].ten /\ pitPos[c] # Unknown
    /\ pit[c - 1].ten
    => pitPos[c - 1] # Unknown

PitInv ==
  PitTypes /\ PitPositions /\ PitWithinPeriod /\ PitClocksAreKnown /\ PitKeepsTime

(* One channel of the code and of the law count the same.                  *)
LEMMA ChannelKeepsTime ==
  ASSUME PitInv, NEW c \in PitChannel, pit[c].ten, pitPos[c] # Unknown, NEW n \in Nat
  PROVE  /\ Timeouts(pit[c], n) = (pitPos[c] + n) \div (pit[c].ldval + 1)
         /\ CvalAfter(pit[c], n)
              = pit[c].ldval - ((pitPos[c] + n) % (pit[c].ldval + 1))
         /\ (pitPos[c] + n) % (pit[c].ldval + 1) \in 0 .. pit[c].ldval
<1>1. /\ pit[c].ldval \in Nat /\ pitPos[c] \in 0 .. pit[c].ldval
      /\ pit[c].cval = pit[c].ldval - pitPos[c]
  BY ChannelIsTyped DEF PitInv, PitWithinPeriod, PitKeepsTime
<1>2. (pitPos[c] + n) % (pit[c].ldval + 1) \in 0 .. pit[c].ldval
  <2> DEFINE a == pitPos[c] + n
             p == pit[c].ldval + 1
  <2>1. a \in Nat /\ p \in Nat \ {0} /\ pit[c].ldval = p - 1
    BY <1>1
  <2> HIDE DEF a, p
  <2>2. a % p \in 0 .. p - 1
    BY <2>1, DivMod
  <2> QED
    BY <2>1, <2>2 DEF a, p
<1>3. /\ Timeouts(pit[c], n) = (pitPos[c] + n) \div (pit[c].ldval + 1)
      /\ CvalAfter(pit[c], n)
           = pit[c].ldval - ((pitPos[c] + n) % (pit[c].ldval + 1))
  <2> DEFINE ch == pit[c]
             pos == pitPos[c]
  <2>1. ch.ldval \in Nat /\ pos \in 0 .. ch.ldval /\ ch.cval = ch.ldval - pos
    BY <1>1
  <2> HIDE DEF ch, pos
  <2>2. /\ Timeouts(ch, n) = (pos + n) \div (ch.ldval + 1)
        /\ CvalAfter(ch, n) = ch.ldval - ((pos + n) % (ch.ldval + 1))
    BY <2>1, BatchFollowsPeriod
  <2> QED
    BY <2>2 DEF ch, pos
<1> QED
  BY <1>2, <1>3

(* What enters a channel that counts is what the law says its clock gave.  *)
LEMMA ClocksAgree ==
  ASSUME PitInv, ~mdis, NEW ticks \in Nat, NEW c \in PitChannel,
         pit[c].ten, pitPos[c] # Unknown
  PROVE  /\ PitInputs(ticks)[c] \in Nat
         /\ PitInputs(ticks)[c] =
              IF c > 0 /\ pit[c].chn THEN PitDue(ticks)[c - 1] ELSE ticks
<1> DEFINE in  == PitInputs(ticks)
           due == PitDue(ticks)
           Agrees(k) == pit[k].ten /\ pitPos[k] # Unknown =>
                          in[k] = IF k > 0 /\ pit[k].chn THEN due[k - 1] ELSE ticks
           Agreed == {k \in PitChannel : Agrees(k)}
<1>1. /\ in \in [PitChannel -> Nat] /\ due \in [PitChannel -> Nat]
      /\ \A k \in PitChannel : in[k] = Entering(in, k, ticks)
      /\ \A k \in PitChannel : due[k] = Completed(due, k, ticks)
  BY InputsFollowTheChain, DueFollowsTheChain DEF PitInv
<1> HIDE DEF in, due
<1>2. 0 \in Agreed
  BY <1>1, PitChannels DEF Entering
<1>3. ASSUME NEW k \in 1 .. LastChannel, k - 1 \in Agreed
      PROVE  k \in Agreed
  <2>1. k \in PitChannel /\ k > 0 /\ k - 1 \in PitChannel /\ Agrees(k - 1)
    BY <1>3 DEF PitChannel
  <2>2. SUFFICES ASSUME pit[k].ten, pitPos[k] # Unknown
                 PROVE  in[k] = IF pit[k].chn THEN due[k - 1] ELSE ticks
    BY <2>1
  <2>3. CASE ~pit[k].chn
    BY <1>1, <2>1, <2>3 DEF Entering
  <2>4. CASE pit[k].chn /\ ~pit[k - 1].ten
    <3>1. in[k] = 0
      BY <1>1, <2>1, <2>4 DEF Entering
    <3>2. due[k - 1] = 0
      BY <1>1, <2>1, <2>4 DEF Completed, PitRunning
    <3> QED
      BY <2>4, <3>1, <3>2
  <2>5. CASE pit[k].chn /\ pit[k - 1].ten
    <3> DEFINE j == k - 1
    <3>1. j \in PitChannel /\ pit[j].ten /\ pitPos[j] # Unknown /\ in[j] \in Nat
      BY <1>1, <2>1, <2>2, <2>5 DEF PitInv, PitClocksAreKnown
    <3>2. in[k] = Timeouts(pit[j], in[j])
      BY <1>1, <2>1, <2>5 DEF Entering
    <3>3. in[j] = IF j > 0 /\ pit[j].chn THEN due[j - 1] ELSE ticks
      BY <2>1, <3>1
    <3> HIDE DEF j
    <3>4. due[j] = (pitPos[j] + in[j]) \div (pit[j].ldval + 1)
      BY <1>1, <3>1, <3>3 DEF Completed, PitRunning
    <3>5. in[k] = due[j]
      BY <3>1, <3>2, <3>4, ChannelKeepsTime
    <3> QED
      BY <2>5, <3>5 DEF j
  <2> QED
    BY <2>1, <2>3, <2>4, <2>5, ChannelIsTyped DEF PitInv
<1> HIDE DEF Agreed
<1>4. \A k \in 0 .. LastChannel : k \in Agreed
  BY <1>2, <1>3, PitChannels, UpToTheBound
<1> QED
  BY <1>1, <1>4 DEF PitChannel, Agreed, in, due

LEMMA TickKeepsPitInv ==
  ASSUME PitInv, NEW ticks \in Nat, PitTick(ticks), PitLawTick(ticks)
  PROVE  PitInv'
<1> DEFINE in  == PitInputs(ticks)
           due == PitDue(ticks)
           given(c) == IF c > 0 /\ pit[c].chn THEN due[c - 1] ELSE ticks
           moves(c) == PitRunning(c) /\ pitPos[c] # Unknown
           next(c) == (pitPos[c] + given(c)) % (pit[c].ldval + 1)
           counted(c) == [pit[c] EXCEPT !.cval = CvalAfter(pit[c], in[c]),
                                        !.tif = @ \/ Timeouts(pit[c], in[c]) > 0]
<1>1. /\ in \in [PitChannel -> Nat] /\ due \in [PitChannel -> Nat]
      /\ \A c \in PitChannel : due[c] = Completed(due, c, ticks)
  BY InputsFollowTheChain, DueFollowsTheChain DEF PitInv
<1>2. /\ mdis' = mdis
      /\ pit' = [c \in PitChannel |->
                   IF ~mdis /\ pit[c].ten THEN counted(c) ELSE pit[c]]
  <2>1. CASE mdis
    BY <2>1 DEF PitTick, PitInv, PitTypes
  <2>2. CASE ~mdis
    BY <2>2 DEF PitTick
  <2> QED
    BY <2>1, <2>2
<1>3. /\ pitPos' = [c \in PitChannel |-> IF moves(c) THEN next(c) ELSE pitPos[c]]
      /\ pitOwed' = {c \in PitChannel :
           IF pitPos[c] = Unknown THEN pit'[c].tif ELSE c \in pitOwed \/ due[c] > 0}
  BY DEF PitLawTick
<1>4. ASSUME NEW c \in PitChannel
      PROVE  given(c) \in Nat
  BY <1>1, <1>4, PitChannels
<1>5. ASSUME NEW c \in PitChannel, ~mdis, pit[c].ten
      PROVE  /\ CvalAfter(pit[c], in[c]) \in Nat
             /\ Timeouts(pit[c], in[c]) \in Nat
  BY <1>1, <1>5, ChannelIsTyped, BatchIsCounted DEF PitInv
<1>6. ASSUME NEW c \in PitChannel, moves(c)
      PROVE  /\ CvalAfter(pit[c], in[c]) = pit[c].ldval - next(c)
             /\ Timeouts(pit[c], in[c]) = due[c]
             /\ next(c) \in 0 .. pit[c].ldval /\ pit[c].ldval \in Nat
  <2>1. ~mdis /\ pit[c].ten /\ pitPos[c] # Unknown
    BY <1>6 DEF PitRunning
  <2>2. in[c] = given(c)
    BY <2>1, ClocksAgree
  <2>3. due[c] = (pitPos[c] + given(c)) \div (pit[c].ldval + 1)
    BY <1>1, <1>6 DEF Completed
  <2>4. pit[c].ldval \in Nat
    BY ChannelIsTyped DEF PitInv
  <2> HIDE DEF in, due, given
  <2> QED
    BY <1>4, <2>1, <2>2, <2>3, <2>4, ChannelKeepsTime
<1> HIDE DEF in, due, given, next
<1>7. ASSUME NEW c \in PitChannel
      PROVE  /\ pit'[c] \in [ldval : Nat, cval : Nat, ten : BOOLEAN,
                              tie : BOOLEAN, chn : BOOLEAN, tif : BOOLEAN]
             /\ pit'[c].ldval = pit[c].ldval /\ pit'[c].ten = pit[c].ten
             /\ pit'[c].chn = pit[c].chn
             /\ pit'[c].cval = IF ~mdis /\ pit[c].ten
                                 THEN CvalAfter(pit[c], in[c]) ELSE pit[c].cval
             /\ pit'[c].tif <=> \/ pit[c].tif
                                \/ ~mdis /\ pit[c].ten /\ Timeouts(pit[c], in[c]) > 0
  <2> DEFINE v == CvalAfter(pit[c], in[c])
             t == Timeouts(pit[c], in[c])
  <2>1. pit[c] \in [ldval : Nat, cval : Nat, ten : BOOLEAN,
                     tie : BOOLEAN, chn : BOOLEAN, tif : BOOLEAN]
    BY ChannelIsTyped DEF PitInv
  <2>2. CASE ~mdis /\ pit[c].ten
    <3>1. v \in Nat /\ t \in Nat
      BY <1>5, <2>2
    <3>2. pit'[c] = [pit[c] EXCEPT !.cval = v, !.tif = @ \/ t > 0]
      BY <1>2, <2>2
    <3> HIDE DEF v, t
    <3>3. /\ pit'[c] \in [ldval : Nat, cval : Nat, ten : BOOLEAN,
                           tie : BOOLEAN, chn : BOOLEAN, tif : BOOLEAN]
          /\ pit'[c].ldval = pit[c].ldval /\ pit'[c].ten = pit[c].ten
          /\ pit'[c].chn = pit[c].chn /\ pit'[c].cval = v
          /\ pit'[c].tif = (pit[c].tif \/ t > 0)
      BY <2>1, <3>1, <3>2
    <3> QED
      BY <2>2, <3>3 DEF v, t
  <2>3. CASE ~(~mdis /\ pit[c].ten)
    BY <1>2, <2>1, <2>3
  <2> QED
    BY <2>2, <2>3
<1>8. ASSUME NEW c \in PitChannel, pitPos[c] # Unknown, pit[c].ten, ~mdis
      PROVE  moves(c)
  BY <1>8 DEF PitRunning
<1>9. PitTypes'
  BY <1>2, <1>7 DEF PitTypes, PitInv
<1>10. \A c \in PitChannel : pitPos'[c] = Unknown <=> pitPos[c] = Unknown
  BY <1>3, <1>6 DEF Unknown
<1>11. PitPositions'
  BY <1>3, <1>6 DEF PitInv, PitPositions, Unknown
<1>12. PitWithinPeriod'
  <2> SUFFICES ASSUME NEW c \in PitChannel, pit'[c].ten, pitPos'[c] # Unknown
               PROVE  pitPos'[c] \in 0 .. pit'[c].ldval
    BY DEF PitWithinPeriod, Unknown
  <2>1. pit[c].ten /\ pitPos[c] # Unknown /\ pit'[c].ldval = pit[c].ldval
    BY <1>7, <1>10
  <2> QED
    BY <1>3, <1>6, <2>1 DEF PitInv, PitWithinPeriod
<1>13. PitClocksAreKnown'
  <2> SUFFICES ASSUME NEW c \in PitChannel, c > 0, pit'[c].chn, pit'[c].ten,
                      pitPos'[c] # Unknown, pit'[c - 1].ten
               PROVE  pitPos'[c - 1] # Unknown
    BY DEF PitClocksAreKnown, Unknown
  <2>1. c - 1 \in PitChannel
    BY PitChannels
  <2> QED
    BY <1>7, <1>10, <2>1 DEF PitInv, PitClocksAreKnown
<1>14. PitKeepsTime'
  <2> SUFFICES ASSUME NEW c \in PitChannel
               PROVE  /\ pit'[c].ten /\ pitPos'[c] # Unknown =>
                           pit'[c].cval = pit'[c].ldval - pitPos'[c]
                      /\ pit'[c].tif <=> c \in pitOwed'
    BY DEF PitKeepsTime, Unknown
  <2>1. pit[c].tif <=> c \in pitOwed
    BY DEF PitInv, PitKeepsTime
  <2>2. ASSUME pit'[c].ten, pitPos'[c] # Unknown
        PROVE  pit'[c].cval = pit'[c].ldval - pitPos'[c]
    <3>1. pit[c].ten /\ pitPos[c] # Unknown
      BY <1>7, <1>10, <2>2
    <3>2. pit[c].cval = pit[c].ldval - pitPos[c]
      BY <3>1 DEF PitInv, PitKeepsTime
    <3>3. CASE mdis
      BY <1>3, <1>7, <3>2, <3>3 DEF PitRunning
    <3>4. CASE ~mdis
      BY <1>3, <1>6, <1>7, <1>8, <3>1, <3>4
    <3> QED
      BY <3>3, <3>4
  <2>3. pit'[c].tif <=> c \in pitOwed'
    <3>1. CASE pitPos[c] = Unknown
      BY <1>3, <1>7, <3>1
    <3>2. CASE pitPos[c] # Unknown /\ moves(c)
      <4>1. Timeouts(pit[c], in[c]) = due[c] /\ ~mdis /\ pit[c].ten
        BY <1>6, <3>2 DEF PitRunning
      <4> QED
        BY <1>3, <1>7, <2>1, <3>2, <4>1
    <3>3. CASE pitPos[c] # Unknown /\ ~moves(c)
      <4>1. due[c] = 0
        BY <1>1, <3>3 DEF Completed
      <4>2. ~(~mdis /\ pit[c].ten)
        BY <1>8, <3>3
      <4> QED
        BY <1>3, <1>7, <2>1, <3>3, <4>1, <4>2
    <3> QED
      BY <3>1, <3>2, <3>3
  <2> QED
    BY <2>2, <2>3
<1> QED
  BY <1>9, <1>11, <1>12, <1>13, <1>14 DEF PitInv

LEMMA WriteKeepsPitInv ==
  ASSUME PitInv, NEW c \in PitChannel, PitTypes', PitLawWrite(c),
         \A d \in PitChannel \ {c} : pit'[d] = pit[d],
         pit'[c].ten /\ ~pit[c].ten => pit'[c].cval = pit'[c].ldval,
         pit'[c].ten /\ pit[c].ten => pit'[c].cval = pit[c].cval,
         pit'[c].tif => pit[c].tif, pit[c].tif /\ ~pit'[c].tif => c \in pitOwed
  PROVE  PitInv'
<1> DEFINE ch == pit'[c]
           lost == \/ ch.ten /\ pit[c].ten /\ ch.ldval # pit[c].ldval
                   \/ /\ ch.ten /\ ch.chn /\ c > 0
                      /\ pit[c - 1].ten /\ pitPos[c - 1] = Unknown
           from == IF lost THEN Unknown
                   ELSE IF ch.ten /\ ~pit[c].ten THEN 0 ELSE pitPos[c]
<1>1. /\ pitPos' = [d \in PitChannel |->
           IF d = c THEN from
           ELSE IF d > c /\ from = Unknown THEN Unknown ELSE pitPos[d]]
      /\ pitOwed' = IF ch.tif THEN pitOwed ELSE pitOwed \ {c}
  BY DEF PitLawWrite
<1>2. from \in Nat \union {Unknown}
  BY DEF PitInv, PitPositions
<1>3. from # Unknown =>
        /\ ~lost
        /\ from = IF ch.ten /\ ~pit[c].ten THEN 0 ELSE pitPos[c]
  OBVIOUS
<1>4. PitPositions'
  <2> HIDE DEF from
  <2> QED
    BY <1>1, <1>2 DEF PitInv, PitPositions, Unknown
<1>5. \A d \in PitChannel : pitPos'[d] # Unknown =>
        /\ d = c => from # Unknown /\ pitPos'[d] = from
        /\ d # c => pitPos'[d] = pitPos[d]
        /\ d > c => from # Unknown
  <2> HIDE DEF from
  <2> QED
    BY <1>1
<1>6. \A d \in PitChannel : d < c => pitPos'[d] = pitPos[d]
  <2> HIDE DEF from
  <2> QED
    BY <1>1, PitChannels
<1>7. PitWithinPeriod'
  <2> SUFFICES ASSUME NEW d \in PitChannel, pit'[d].ten, pitPos'[d] # Unknown
               PROVE  pitPos'[d] \in 0 .. pit'[d].ldval
    BY DEF PitWithinPeriod, Unknown
  <2>1. CASE d # c
    BY <1>5, <2>1 DEF PitInv, PitWithinPeriod
  <2>2. CASE d = c /\ ~pit[c].ten
    <3>1. from = 0 /\ pitPos'[d] = from
      BY <1>3, <1>5, <2>2
    <3>2. pit'[d].ldval \in Nat
      BY DEF PitTypes
    <3> QED
      BY <3>1, <3>2
  <2>3. CASE d = c /\ pit[c].ten
    <3>1. pitPos'[d] = pitPos[c] /\ pitPos[c] # Unknown /\ pit'[d].ldval = pit[c].ldval
      BY <1>3, <1>5, <2>3
    <3> QED
      BY <2>3, <3>1 DEF PitInv, PitWithinPeriod
  <2> QED
    BY <2>1, <2>2, <2>3 DEF PitInv, PitTypes
<1>8. PitClocksAreKnown'
  <2> SUFFICES ASSUME NEW d \in PitChannel, d > 0, pit'[d].chn, pit'[d].ten,
                      pitPos'[d] # Unknown, pit'[d - 1].ten
               PROVE  pitPos'[d - 1] # Unknown
    BY DEF PitClocksAreKnown, Unknown
  <2>1. d - 1 \in PitChannel /\ d \in Nat /\ c \in Nat /\ d - 1 < d
    BY PitChannels
  <2>2. CASE d = c
    <3>1. ~lost /\ pit[d - 1].ten
      BY <1>3, <1>5, <2>1, <2>2
    <3>2. pitPos[d - 1] # Unknown
      BY <2>2, <3>1
    <3> QED
      BY <1>6, <2>1, <2>2, <3>2
  <2>3. CASE d - 1 = c
    <3>1. from # Unknown
      BY <1>5, <2>1, <2>3
    <3> HIDE DEF from
    <3> QED
      BY <1>1, <2>1, <2>3, <3>1
  <2>4. CASE d # c /\ d - 1 # c
    <3>1. pitPos[d - 1] # Unknown
      <4>1. /\ pit'[d] = pit[d] /\ pit'[d - 1] = pit[d - 1]
            /\ pitPos[d] # Unknown
        BY <1>5, <2>1, <2>4
      <4> QED
        BY <4>1 DEF PitInv, PitClocksAreKnown
    <3>2. d > c => from # Unknown
      BY <1>5
    <3>3. pitPos'[d - 1] = pitPos[d - 1]
      <4> HIDE DEF from
      <4> QED
        BY <1>1, <2>1, <2>4, <3>2
    <3> QED
      BY <3>1, <3>3
  <2> QED
    BY <2>2, <2>3, <2>4
<1>9. PitKeepsTime'
  <2> SUFFICES ASSUME NEW d \in PitChannel
               PROVE  /\ pit'[d].ten /\ pitPos'[d] # Unknown =>
                           pit'[d].cval = pit'[d].ldval - pitPos'[d]
                      /\ pit'[d].tif <=> d \in pitOwed'
    BY DEF PitKeepsTime, Unknown
  <2>1. /\ pit[d].ten /\ pitPos[d] # Unknown =>
             pit[d].cval = pit[d].ldval - pitPos[d]
        /\ pit[d].tif <=> d \in pitOwed
    BY DEF PitInv, PitKeepsTime
  <2>2. pit'[d].ldval \in Nat /\ pit[d].ten \in BOOLEAN
    BY DEF PitInv, PitTypes
  <2>3. pit'[d].tif <=> d \in pitOwed'
    BY <1>1, <2>1
  <2>4. ASSUME pit'[d].ten, pitPos'[d] # Unknown
        PROVE  pit'[d].cval = pit'[d].ldval - pitPos'[d]
    <3>1. CASE d # c
      BY <1>5, <2>1, <2>4, <3>1
    <3>2. CASE d = c /\ ~pit[c].ten
      <4>1. from = 0 /\ pitPos'[d] = from /\ pit'[d].cval = pit'[d].ldval
        BY <1>3, <1>5, <2>4, <3>2
      <4> QED
        BY <2>2, <4>1
    <3>3. CASE d = c /\ pit[c].ten
      <4>1. /\ pitPos'[d] = pitPos[c] /\ pitPos[c] # Unknown
            /\ pit'[d].ldval = pit[c].ldval /\ pit'[d].cval = pit[c].cval
        BY <1>3, <1>5, <2>4, <3>3
      <4> QED
        BY <2>1, <3>3, <4>1
    <3> QED
      BY <2>2, <3>1, <3>2, <3>3
  <2> QED
    BY <2>3, <2>4
<1> QED
  BY <1>4, <1>7, <1>8, <1>9 DEF PitInv

LEMMA PitStart == Init => PitInv
<1> SUFFICES ASSUME Init PROVE PitInv
  OBVIOUS
<1>1. /\ mdis = TRUE /\ pitPos = [c \in PitChannel |-> 0] /\ pitOwed = {}
      /\ pit = [c \in PitChannel |->
                  [ldval |-> 0, cval |-> 0, ten |-> FALSE, tie |-> FALSE,
                   chn |-> FALSE, tif |-> FALSE]]
  BY DEF Init, PitInit
<1>2. PitTypes
  BY <1>1 DEF PitTypes
<1>3. \A c \in PitChannel : pit[c].ten = FALSE /\ pit[c].tif = FALSE /\ pitPos[c] = 0
  BY <1>1
<1> QED
  BY <1>1, <1>2, <1>3
  DEF PitInv, PitPositions, PitWithinPeriod, PitClocksAreKnown, PitKeepsTime

(* The ticks of a domain that Peripherals::tick hands to its timers.       *)
LEMMA TicksAreCounted ==
  ASSUME ClockInv, NEW cycles \in Nat
  PROVE  /\ DomainTicks("perclk", cycles) \in Nat
         /\ \A s \in GptClock \ {"off"} : DomainTicks(s, cycles) \in Nat
  BY BatchSplits DEF ClockInv, Domain, GptClock

LEMMA PitStep ==
  ASSUME ClockInv, PitInv, [Next]_vars
  PROVE  PitInv'
<1>1. ASSUME UNCHANGED <<mdis, pit, pitPos, pitOwed>>
      PROVE  PitInv'
  BY <1>1
  DEF PitInv, PitTypes, PitPositions, PitWithinPeriod, PitClocksAreKnown,
      PitKeepsTime, Unknown
<1>2. ASSUME NEW cycles \in Nat, TimersTick(cycles)
      PROVE  PitInv'
  <2> DEFINE n == DomainTicks("perclk", cycles)
  <2>1. n \in Nat /\ PitTick(n) /\ PitLawTick(n)
    BY <1>2, TicksAreCounted DEF TimersTick
  <2> HIDE DEF n
  <2> QED
    BY <2>1, TickKeepsPitInv
<1>3. CASE Tick
  BY <1>2, <1>3 DEF Tick
<1>4. ASSUME NEW cycles \in HostBatches, HostTick(cycles)
      PROVE  PitInv'
  BY <1>2, <1>4, InputAssumption DEF HostTick
<1>5. CASE UsePit
  <2>1. ASSUME NEW stopped \in BOOLEAN, WriteMcr(stopped), UNCHANGED pitLaw
        PROVE  PitInv'
    BY <2>1
    DEF WriteMcr, pitLaw, PitInv, PitTypes, PitPositions, PitWithinPeriod,
        PitClocksAreKnown, PitKeepsTime, Unknown
  <2>2. ASSUME NEW c \in PitChannel, PitLawWrite(c),
               NEW value \in Values, WriteLdval(c, value)
        PROVE  PitInv'
    <3>1. value \in Nat
      BY InputAssumption
    <3>2. pit[c].tif => c \in pitOwed
      BY DEF PitInv, PitKeepsTime
    <3>3. PitTypes'
      BY <2>2, <3>1 DEF WriteLdval, PitInv, PitTypes
    <3>4. /\ \A d \in PitChannel \ {c} : pit'[d] = pit[d]
          /\ pit'[c].cval = pit[c].cval /\ pit'[c].ten = pit[c].ten
          /\ pit'[c].tif = pit[c].tif
      BY <2>2 DEF WriteLdval, PitInv, PitTypes
    <3> QED
      BY <2>2, <3>2, <3>3, <3>4, WriteKeepsPitInv
  <2>3. ASSUME NEW c \in PitChannel, PitLawWrite(c),
               NEW ten \in BOOLEAN, NEW chn \in BOOLEAN, WriteTctrl(c, ten, TRUE, chn)
        PROVE  PitInv'
    <3> DEFINE ch == [pit[c] EXCEPT !.ten = ten, !.tie = TRUE, !.chn = chn,
                        !.cval = IF ten /\ ~pit[c].ten THEN pit[c].ldval ELSE @]
    <3>1. pit[c].tif => c \in pitOwed
      BY DEF PitInv, PitKeepsTime
    <3>2. pit[c] \in [ldval : Nat, cval : Nat, ten : BOOLEAN,
                      tie : BOOLEAN, chn : BOOLEAN, tif : BOOLEAN]
      BY DEF PitInv, PitTypes
    <3>3. /\ ch \in [ldval : Nat, cval : Nat, ten : BOOLEAN,
                      tie : BOOLEAN, chn : BOOLEAN, tif : BOOLEAN]
          /\ ch.cval = (IF ten /\ ~pit[c].ten THEN pit[c].ldval ELSE pit[c].cval)
          /\ ch.ldval = pit[c].ldval /\ ch.ten = ten /\ ch.tif = pit[c].tif
      BY <3>2
    <3>4. pit' = [pit EXCEPT ![c] = ch] /\ mdis' = mdis
      BY <2>3 DEF WriteTctrl, PitInv, PitTypes
    <3> HIDE DEF ch
    <3>5. PitTypes'
      BY <3>3, <3>4 DEF PitInv, PitTypes
    <3>6. pit'[c] = ch /\ \A d \in PitChannel \ {c} : pit'[d] = pit[d]
      BY <3>4 DEF PitInv, PitTypes
    <3> QED
      BY <2>3, <3>1, <3>3, <3>5, <3>6, WriteKeepsPitInv
  <2>4. ASSUME NEW c \in PitChannel, PitLawWrite(c), ClearTif(c)
        PROVE  PitInv'
    <3>1. pit[c].tif => c \in pitOwed
      BY DEF PitInv, PitKeepsTime
    <3>2. PitTypes'
      BY <2>4 DEF ClearTif, PitInv, PitTypes
    <3>3. /\ \A d \in PitChannel \ {c} : pit'[d] = pit[d]
          /\ pit'[c].cval = pit[c].cval /\ pit'[c].ten = pit[c].ten
          /\ pit'[c].tif = FALSE
      BY <2>4 DEF ClearTif, PitInv, PitTypes
    <3> QED
      BY <2>4, <3>1, <3>2, <3>3, WriteKeepsPitInv
  <2> QED
    BY <1>5, <2>1, <2>2, <2>3, <2>4 DEF UsePit
<1>6. CASE \/ CoreTick \/ EnterSysTick \/ OtherInstruction \/ Retune \/ UseGpt
           \/ UseQtmr \/ UseSysTick \/ ChipReset \/ UNCHANGED vars
  BY <1>1, <1>6
  DEF CoreTick, EnterSysTick, OtherInstruction, Retune, UseGpt, UseQtmr,
      UseSysTick, ChipReset, vars, pitVars, pitLaw
<1> QED
  BY <1>3, <1>4, <1>5, <1>6 DEF Next, Execute

(* CVAL and TIF of every channel are those of a counter that went tick by  *)
(* tick, for every LDVAL, chain and batch, and whatever the firmware       *)
(* rewrites while a channel runs (advance and Pit::tick).                  *)
THEOREM PitIsExact == Spec => []PitKeepsTime
<1>1. Init => ClockInv /\ PitInv
  BY ClockInit, PitStart
<1>2. ClockInv /\ PitInv /\ [Next]_vars => (ClockInv /\ PitInv)'
  BY ClockStep, PitStep
<1>3. ClockInv /\ PitInv => PitKeepsTime
  BY DEF PitInv
<1> QED
  BY <1>1, <1>2, <1>3, PTL DEF Spec

(***************************************************************************)
(* GPT: a prescaler before a counter                                       *)
(***************************************************************************)

LEMMA ProductIsNat ==
  ASSUME NEW a \in Nat, NEW b \in Nat
  PROVE  a * b \in Nat
  OBVIOUS

LEMMA ProductIsMonotone ==
  ASSUME NEW a \in Int, NEW b \in Int, NEW p \in Nat \ {0}
  PROVE  /\ a <= b <=> a * p <= b * p
         /\ a < b <=> a * p < b * p
         /\ a = b <=> a * p = b * p
  BY Z3

LEMMA Distributes ==
  ASSUME NEW a \in Int, NEW b \in Int, NEW p \in Int
  PROVE  (a + b) * p = a * p + b * p /\ (a - b) * p = a * p - b * p
  BY Z3

LEMMA ProductRegroups ==
  ASSUME NEW a \in Int, NEW b \in Int, NEW p \in Int
  PROVE  (a * b) * p = a * (b * p)
  BY Z3

(* A number in two digits: p values of the low one, c of the high one.     *)
LEMMA TwoDigits ==
  ASSUME NEW p \in Nat \ {0}, NEW c \in Nat \ {0},
         NEW high \in 0 .. c - 1, NEW low \in 0 .. p - 1
  PROVE  /\ high * p + low \in 0 .. (c * p) - 1
         /\ (high * p + low) \div p = high /\ (high * p + low) % p = low
<1> DEFINE x == high * p
           y == c * p
           z == (c - 1) * p
<1>1. x \in Nat /\ y \in Nat /\ z \in Nat
  BY ProductIsNat
<1>2. z = y - p
  BY Distributes
<1>3. x <= z
  BY ProductIsMonotone
<1>4. x + low \in Nat /\ high \in Nat
  BY <1>1
<1>5. (high * p + low) \div p = high /\ (high * p + low) % p = low
  <2> DEFINE a == high * p + low
  <2>1. a \in Nat /\ a = high * p + low
    BY <1>4
  <2> HIDE DEF a
  <2>2. a \div p = high /\ a % p = low
    BY <1>4, <2>1, DivModUnique
  <2> QED
    BY <2>2 DEF a
<1> HIDE DEF x, y, z
<1>6. x + low \in 0 .. y - 1
  BY <1>1, <1>2, <1>3
<1> QED
  BY <1>5, <1>6 DEF x, y

(* A batch of n ticks on a counter of c values behind a divisor p: quotient *)
(* steps of the counter, and the remainder stays in the prescaler.         *)
Splits(p, c, high, low, n) ==
  LET steps == (low + n) \div p
  IN  /\ steps \in Nat
      /\ (high * p + low + n) % (c * p)
           = ((high + steps) % c) * p + ((low + n) % p)
      /\ high * p + low + n >= c * p <=> high + steps >= c
      /\ steps * p <= low + n /\ low + n < (steps + 1) * p

LEMMA PrescaledBatch ==
  ASSUME NEW p \in Nat \ {0}, NEW c \in Nat \ {0},
         NEW high \in 0 .. c - 1, NEW low \in 0 .. p - 1, NEW n \in Nat
  PROVE  Splits(p, c, high, low, n)
<1> DEFINE steps == (low + n) \div p
           t == low + n
           r == t % p
           h == high + steps
           w == h \div c
           d == h % c
<1>1. t \in Nat
  OBVIOUS
<1>2. steps \in Nat /\ r \in 0 .. p - 1 /\ t = steps * p + r
  <2> HIDE DEF t
  <2>1. t \div p \in Nat /\ t % p \in 0 .. p - 1 /\ t = (t \div p) * p + (t % p)
    BY <1>1, DivMod
  <2>2. steps = t \div p
    BY DEF t
  <2> HIDE DEF steps
  <2> QED
    BY <2>1, <2>2
<1>13. Splits(p, c, high, low, n) <=>
        /\ steps \in Nat
        /\ (high * p + low + n) % (c * p)
             = ((high + steps) % c) * p + ((low + n) % p)
        /\ high * p + low + n >= c * p <=> high + steps >= c
        /\ steps * p <= low + n /\ low + n < (steps + 1) * p
  BY DEF Splits
<1> HIDE DEF r, steps
<1>3. h \in Nat
  BY <1>2
<1>4. w \in Nat /\ d \in 0 .. c - 1 /\ h = w * c + d
  <2> HIDE DEF h
  <2> QED
    BY <1>3, DivMod
<1> HIDE DEF w, d
<1>5. high * p + t = h * p + r
  <2> DEFINE x == high * p
             y == steps * p
  <2>1. h * p = x + y
    BY <1>2, Distributes
  <2>2. x \in Nat /\ y \in Nat
    BY <1>2, ProductIsNat
  <2> HIDE DEF x, y, h, t
  <2>3. x + t = h * p + r
    BY <1>1, <1>2, <2>1, <2>2 DEF y
  <2> QED
    BY <2>3 DEF x
<1>6. h * p = w * (c * p) + d * p
  <2>1. (w * c + d) * p = (w * c) * p + d * p
    <3>1. w * c \in Int
      BY <1>4
    <3> QED
      BY <1>4, <3>1, Distributes
  <2>2. (w * c) * p = w * (c * p)
    BY <1>4, ProductRegroups
  <2> HIDE DEF h
  <2> QED
    BY <1>4, <2>1, <2>2
<1>7. d * p + r \in 0 .. (c * p) - 1
  BY <1>2, <1>4, TwoDigits
<1> DEFINE a == high * p + t
           b == c * p
           e == d * p + r
<1>8. a \in Nat /\ b \in Nat \ {0} /\ e \in 0 .. b - 1 /\ a = w * b + e
  <2>1. a \in Nat
    <3>1. high * p \in Nat
      BY ProductIsNat
    <3> QED
      BY <1>1, <3>1
  <2>2. b \in Nat
    BY ProductIsNat
  <2>3. b # 0
    <3> HIDE DEF e, b
    <3> QED
      BY <1>7, <2>2 DEF b, e
  <2>4. a = w * b + e
    <3> DEFINE x == w * b
               y == d * p
    <3>1. x \in Nat /\ y \in Nat
      BY <1>4, <2>2, ProductIsNat
    <3>2. h * p = x + y
      BY <1>6
    <3>3. a = h * p + r
      BY <1>5
    <3> HIDE DEF x, y, a, h
    <3>4. a = x + (y + r)
      BY <1>2, <3>1, <3>2, <3>3
    <3> QED
      BY <3>4 DEF x, y
  <2> QED
    BY <1>7, <2>1, <2>2, <2>3, <2>4
<1>9. a % b = e
  <2> HIDE DEF a, b, e
  <2> QED
    BY <1>4, <1>8, DivModUnique
<1>10. a >= b <=> h >= c
  <2> DEFINE x == h * p
  <2>1. x \in Nat
    BY <1>3, ProductIsNat
  <2>2. ASSUME h >= c PROVE a >= b
    <3>1. c * p <= h * p
      BY <1>3, <2>2, ProductIsMonotone
    <3>2. a = x + r /\ b <= x
      BY <1>5, <3>1
    <3> HIDE DEF a, b, x
    <3> QED
      BY <1>2, <1>8, <2>1, <3>2
  <2>3. ASSUME ~(h >= c) PROVE ~(a >= b)
    <3>1. (h + 1) * p <= c * p
      <4>1. h + 1 <= c /\ h + 1 \in Int
        BY <1>3, <2>3
      <4> HIDE DEF h
      <4> QED
        BY <4>1, ProductIsMonotone
    <3>2. (h + 1) * p = x + p
      BY <1>3, Distributes
    <3>3. a = x + r /\ x + p <= b
      BY <1>5, <3>1, <3>2
    <3> HIDE DEF a, b, x, h
    <3> QED
      BY <1>2, <1>8, <2>1, <3>3
  <2> QED
    BY <2>2, <2>3
<1>11. steps * p <= t /\ t < (steps + 1) * p
  <2> DEFINE x == steps * p
  <2>1. x \in Nat /\ (steps + 1) * p = x + p
    BY <1>2, ProductIsNat, Distributes
  <2>2. t = x + r
    BY <1>2
  <2> HIDE DEF t, x
  <2>3. x <= t /\ t < x + p
    BY <1>1, <1>2, <2>1, <2>2
  <2> QED
    BY <2>1, <2>3 DEF x
<1>12. /\ a = high * p + low + n
       /\ e = ((high + steps) % c) * p + ((low + n) % p)
  <2>1. high * p \in Nat
    BY ProductIsNat
  <2>2. a = high * p + low + n
    <3> DEFINE x == high * p
    <3>1. x \in Nat
      BY <2>1
    <3> HIDE DEF x
    <3>2. x + (low + n) = x + low + n
      BY <3>1
    <3> QED
      BY <3>2 DEF x
  <2> QED
    BY <2>2 DEF r, d
<1> QED
  BY <1>2, <1>9, <1>10, <1>11, <1>12, <1>13

(* The position passes value x of the counter as often as the counter does. *)
PassesTogether(p, c, high, low, n, x) ==
  (\E k \in 1 .. n : x * p = (high * p + low + k) % (c * p))
    <=> (\E j \in 1 .. (low + n) \div p : x = (high + j) % c)

LEMMA PositionsPassed ==
  ASSUME NEW p \in Nat \ {0}, NEW c \in Nat \ {0},
         NEW high \in 0 .. c - 1, NEW low \in 0 .. p - 1, NEW n \in Nat,
         NEW x \in 0 .. c - 1
  PROVE  PassesTogether(p, c, high, low, n, x)
<1> DEFINE steps == (low + n) \div p
<1>1. /\ steps \in Nat /\ steps * p <= low + n /\ low + n < (steps + 1) * p
      /\ low \in Nat /\ high \in Nat /\ x \in Nat
  <2>1. Splits(p, c, high, low, n)
    BY PrescaledBatch
  <2> QED
    BY <2>1 DEF Splits
<1> HIDE DEF steps
<1>2. ASSUME NEW j \in 1 .. steps, x = (high + j) % c
      PROVE  \E k \in 1 .. n : x * p = (high * p + low + k) % (c * p)
  <2> DEFINE k == j * p - low
  <2>1. /\ j \in Nat /\ j * p \in Nat /\ steps * p \in Nat
        /\ 1 * p <= j * p /\ j * p <= steps * p
    BY <1>1, ProductIsNat, ProductIsMonotone
  <2>2. k \in 1 .. n /\ low + k = j * p
    <3> DEFINE y == j * p
               z == steps * p
    <3>1. y \in Nat /\ z \in Nat /\ p <= y /\ y <= z /\ z <= low + n
      BY <1>1, <2>1
    <3> HIDE DEF y, z
    <3>2. y - low \in 1 .. n /\ low + (y - low) = y
      BY <1>1, <3>1
    <3> QED
      BY <3>2 DEF y
  <2> HIDE DEF k
  <2>3. (low + k) \div p = j /\ (low + k) % p = 0
    <3> DEFINE a == low + k
               r == 0
    <3>1. a \in Nat /\ a = j * p + r /\ r \in 0 .. p - 1
      BY <2>1, <2>2
    <3> HIDE DEF a, r
    <3>2. a \div p = j /\ a % p = r
      BY <2>1, <3>1, DivModUnique
    <3> QED
      BY <3>2 DEF a, r
  <2>4. (high * p + low + k) % (c * p) = ((high + j) % c) * p + ((low + k) % p)
    <3>1. j = (low + k) \div p /\ k \in Nat
      BY <2>2, <2>3
    <3>2. Splits(p, c, high, low, k)
      BY <3>1, PrescaledBatch
    <3> QED
      BY <3>1, <3>2 DEF Splits
  <2>5. x * p \in Nat /\ x * p = ((high + j) % c) * p
    BY <1>1, <1>2, ProductIsNat
  <2>6. x * p = (high * p + low + k) % (c * p)
    <3> DEFINE y == x * p
    <3>1. y \in Nat /\ (high * p + low + k) % (c * p) = y + 0
      BY <2>3, <2>4, <2>5
    <3> HIDE DEF y
    <3>2. (high * p + low + k) % (c * p) = y
      BY <3>1
    <3> QED
      BY <3>2 DEF y
  <2> QED
    BY <2>2, <2>6
<1>3. ASSUME NEW k \in 1 .. n, x * p = (high * p + low + k) % (c * p)
      PROVE  \E j \in 1 .. steps : x = (high + j) % c
  <2> DEFINE j == (low + k) \div p
             d == (high + j) % c
             r == (low + k) % p
  <2>1. /\ j \in Nat /\ (high * p + low + k) % (c * p) = d * p + r
        /\ j * p <= low + k
    <3>1. k \in Nat
      OBVIOUS
    <3>2. Splits(p, c, high, low, k)
      BY <3>1, PrescaledBatch
    <3> QED
      BY <3>2 DEF Splits
  <2>2. r \in 0 .. p - 1 /\ low + k = j * p + r
    <3> DEFINE a == low + k
    <3>1. a \in Nat
      BY <1>1
    <3> HIDE DEF a
    <3>2. a % p \in 0 .. p - 1 /\ a = (a \div p) * p + (a % p)
      BY <3>1, DivMod
    <3> QED
      BY <3>2 DEF a
  <2>3. d \in 0 .. c - 1
    <3> DEFINE a == high + j
    <3>1. a \in Nat
      BY <1>1, <2>1
    <3> HIDE DEF a
    <3>2. a % c \in 0 .. c - 1
      BY <3>1, DivMod
    <3> QED
      BY <3>2 DEF a
  <2> HIDE DEF d, r
  <2>4. x * p = d * p + r
    BY <1>3, <2>1
  <2>5. x = d /\ r = 0
    <3>1. 0 \in 0 .. p - 1 /\ x * p \in Nat
      BY <1>1, ProductIsNat
    <3>2. (x * p + 0) \div p = x /\ (x * p + 0) % p = 0
      BY <3>1, TwoDigits
    <3>3. (d * p + r) \div p = d /\ (d * p + r) % p = r
      BY <2>2, <2>3, TwoDigits
    <3>4. x * p + 0 = d * p + r
      BY <2>4, <3>1
    <3> QED
      BY <3>2, <3>3, <3>4
  <2>6. j \in 1 .. steps
    <3>1. low + k = j * p /\ k >= 1 /\ k <= n
      <4>1. j * p \in Nat
        BY <2>1, ProductIsNat
      <4> QED
        BY <2>2, <2>5, <4>1
    <3> HIDE DEF j
    <3>2. j # 0
      <4> SUFFICES ASSUME j = 0 PROVE FALSE
        OBVIOUS
      <4>1. j * p = 0
        OBVIOUS
      <4> QED
        BY <1>1, <3>1, <4>1
    <3>3. j * p < (steps + 1) * p
      <4> DEFINE y == (steps + 1) * p
      <4>1. y \in Nat /\ low + n < y
        BY <1>1, ProductIsNat
      <4>2. low + k < y
        <5> HIDE DEF y
        <5> QED
          BY <1>1, <3>1, <4>1
      <4> QED
        BY <3>1, <4>2
    <3>4. j < steps + 1
      <4>1. steps + 1 \in Int /\ j \in Int
        BY <1>1, <2>1
      <4> QED
        BY <3>3, <4>1, ProductIsMonotone
    <3> QED
      BY <1>1, <2>1, <3>2, <3>4
  <2> QED
    BY <2>5, <2>6 DEF d
<1> QED
  BY <1>2, <1>3 DEF PassesTogether, steps

(***************************************************************************)
(* GPT: the invariant                                                      *)
(***************************************************************************)

GptWithinPeriod == gptPos = Unknown \/ gptPos \in 0 .. GptPeriod(gpt) - 1

GptInv == GptTypes /\ GptWithinPeriod /\ GptKeepsTime

LEMMA GptIsTyped ==
  ASSUME GptTypes
  PROVE  /\ gpt.pr + 1 \in Nat \ {0} /\ gpt.pr \in Nat /\ gpt.presc_acc \in Nat
         /\ CounterSize \in Nat \ {0} /\ gpt.cnt \in 0 .. CounterSize - 1
         /\ gpt.cnt \in Nat /\ gpt.sr \in SUBSET (Ocr \union {Rollover})
         /\ \A i \in Ocr : gpt.ocr[i] \in 0 .. CounterSize - 1
  BY GptAssumption DEF GptTypes

(* The registers with the prescaler below PR + 1 have a position, which is *)
(* theirs.                                                                 *)
LEMMA PositionIsExact ==
  ASSUME NEW p \in Nat \ {0}, NEW cnt \in 0 .. CounterSize - 1, NEW acc \in 0 .. p - 1
  PROVE  /\ cnt * p + acc \in 0 .. (CounterSize * p) - 1
         /\ (cnt * p + acc) \div p = cnt /\ (cnt * p + acc) % p = acc
         /\ cnt * p + acc # Unknown
<1>1. CounterSize \in Nat \ {0}
  BY GptAssumption
<1>2. /\ cnt * p + acc \in 0 .. (CounterSize * p) - 1
      /\ (cnt * p + acc) \div p = cnt /\ (cnt * p + acc) % p = acc
  BY <1>1, TwoDigits
<1>3. cnt * p \in Nat
  BY ProductIsNat
<1> DEFINE x == cnt * p
<1>4. x + acc \in Nat
  BY <1>3
<1> HIDE DEF x
<1>5. x + acc # Unknown
  BY <1>4 DEF Unknown
<1> QED
  BY <1>2, <1>5 DEF x

LEMMA GptPositionIsExact ==
  ASSUME NEW g, g.pr \in Nat, g.cnt \in 0 .. CounterSize - 1, g.presc_acc \in Nat,
         GptPosition(g) # Unknown
  PROVE  /\ GptPosition(g) \in 0 .. GptPeriod(g) - 1
         /\ g.cnt = GptPosition(g) \div (g.pr + 1)
         /\ g.presc_acc = GptPosition(g) % (g.pr + 1)
<1> DEFINE p == g.pr + 1
           cnt == g.cnt
           acc == g.presc_acc
           pos == GptPosition(g)
<1>1. p \in Nat \ {0} /\ cnt \in 0 .. CounterSize - 1 /\ acc \in 0 .. p - 1
  BY DEF GptPosition
<1>2. pos = cnt * p + acc
  BY DEF GptPosition
<1>3. GptPeriod(g) = CounterSize * p
  BY DEF GptPeriod
<1> HIDE DEF p, cnt, acc, pos
<1>4. pos \in 0 .. (CounterSize * p) - 1 /\ pos \div p = cnt /\ pos % p = acc
  BY <1>1, <1>2, PositionIsExact
<1> QED
  BY <1>3, <1>4 DEF p, cnt, acc, pos

LEMMA TickKeepsGptInv ==
  ASSUME GptInv, NEW n \in Nat, GptTick(n), GptLawTick(n)
  PROVE  GptInv'
<1> DEFINE p     == gpt.pr + 1
           c     == CounterSize
           cnt   == gpt.cnt
           acc   == gpt.presc_acc
           steps == (acc + n) \div p
           flags == {i \in Ocr : gpt.ocr[i] \in Passed(steps)}
                      \union (IF cnt + steps >= c THEN {Rollover} ELSE {})
           acc2  == (acc + n) % p
           cnt2  == (cnt + steps) % c
           sr2   == gpt.sr \union flags
<1>1. CASE ~gpt.en \/ gpt.clksrc = "off"
  BY <1>1 DEF GptTick, GptLawTick, gptLaw, GptInv, GptTypes, GptWithinPeriod,
              GptPeriod, GptKeepsTime, Unknown
<1>2. CASE ~(~gpt.en \/ gpt.clksrc = "off")
  <2>1. /\ p \in Nat \ {0} /\ c \in Nat \ {0} /\ acc \in Nat
        /\ cnt \in Nat /\ cnt \in 0 .. c - 1
    BY GptIsTyped DEF GptInv
  <2>2. gpt' = [gpt EXCEPT !.presc_acc = acc2, !.cnt = cnt2, !.sr = sr2]
    BY <1>2 DEF GptTick
  <2>3. steps \in Nat /\ acc2 \in 0 .. p - 1 /\ acc2 \in Nat
    <3> DEFINE t == acc + n
    <3>1. t \in Nat
      BY <2>1
    <3> HIDE DEF t, p
    <3>2. t \div p \in Nat /\ t % p \in 0 .. p - 1
      BY <2>1, <3>1, DivMod
    <3> QED
      BY <2>1, <3>2 DEF t
  <2>4. cnt2 \in 0 .. c - 1
    <3> DEFINE t == cnt + steps
    <3>1. t \in Nat
      BY <2>1, <2>3
    <3> HIDE DEF t
    <3>2. t % c \in 0 .. c - 1
      BY <2>1, <3>1, DivMod
    <3> QED
      BY <3>2 DEF t
  <2>5. sr2 \in SUBSET (Ocr \union {Rollover})
    BY GptIsTyped DEF GptInv
  <2> HIDE DEF acc2, cnt2, sr2
  <2>6. /\ GptTypes'
        /\ gpt'.pr = gpt.pr /\ gpt'.cnt = cnt2 /\ gpt'.presc_acc = acc2
        /\ gpt'.sr = sr2
    BY <2>2, <2>3, <2>4, <2>5 DEF GptInv, GptTypes
  <2>7. CASE gptPos = Unknown
    <3>1. gptPos' = GptPosition(gpt') /\ gptOwed' = gpt'.sr
      BY <1>2, <2>7 DEF GptLawTick
    <3>2. gpt'.pr \in Nat /\ gpt'.cnt \in 0 .. CounterSize - 1 /\ gpt'.presc_acc \in Nat
      BY <2>6 DEF GptTypes
    <3>3. gptPos' # Unknown => /\ gptPos' \in 0 .. GptPeriod(gpt') - 1
                               /\ gpt'.cnt = gptPos' \div (gpt'.pr + 1)
                               /\ gpt'.presc_acc = gptPos' % (gpt'.pr + 1)
      BY <3>1, <3>2, GptPositionIsExact
    <3> QED
      BY <2>6, <3>1, <3>3 DEF GptInv, GptWithinPeriod, GptKeepsTime, GptPeriod, Unknown
  <2>8. CASE gptPos # Unknown
    <3>1. gptPos \in 0 .. (c * p) - 1 /\ cnt = gptPos \div p /\ acc = gptPos % p
      BY <2>8 DEF GptInv, GptWithinPeriod, GptKeepsTime, GptPeriod
    <3>2. acc \in 0 .. p - 1 /\ gptPos = cnt * p + acc /\ gptPos \in Nat
      <4> HIDE DEF p, cnt, acc
      <4>1. gptPos \in Nat
        <5> DEFINE m == c * p
        <5>1. gptPos \in 0 .. m - 1
          BY <3>1
        <5> HIDE DEF m
        <5> QED
          BY <5>1
      <4>2. /\ gptPos % p \in 0 .. p - 1
            /\ gptPos = (gptPos \div p) * p + (gptPos % p)
        BY <2>1, <4>1, DivMod
      <4> QED
        BY <3>1, <4>1, <4>2
    <3>3. /\ gptPos' = (gptPos + n) % (c * p)
          /\ gptOwed' = gptOwed \union GptEvents(n)
      BY <1>2, <2>8 DEF GptLawTick, GptPeriod
    <3>4. Splits(p, c, cnt, acc, n)
      BY <2>1, <3>2, PrescaledBatch
    <3>5. gptPos' = cnt2 * p + acc2
      BY <3>2, <3>3, <3>4 DEF Splits, cnt2, acc2
    <3>6. /\ gptPos' \in 0 .. (c * p) - 1
          /\ gptPos' \div p = cnt2 /\ gptPos' % p = acc2
      <4> HIDE DEF p
      <4> QED
        BY <2>1, <2>3, <2>4, <3>5, PositionIsExact
    <3>7. GptEvents(n) = flags
      <4>1. \A i \in Ocr : gpt.ocr[i] * p \in {(gptPos + k) % (c * p) : k \in 1 .. n}
                            <=> gpt.ocr[i] \in Passed(steps)
        <5> TAKE i \in Ocr
        <5> DEFINE x == gpt.ocr[i]
        <5>1. x \in 0 .. c - 1
          BY GptIsTyped DEF GptInv
        <5> HIDE DEF x
        <5>2. (\E k \in 1 .. n : x * p = (cnt * p + acc + k) % (c * p))
                <=> (\E j \in 1 .. steps : x = (cnt + j) % c)
          <6> HIDE DEF p, cnt, acc
          <6>1. PassesTogether(p, c, cnt, acc, n, x)
            BY <2>1, <3>2, <5>1, PositionsPassed
          <6> QED
            BY <6>1 DEF PassesTogether
        <5>3. x \in Passed(steps) <=> \E j \in 1 .. steps : x = (cnt + j) % c
          BY DEF Passed
        <5>4. x * p \in {(gptPos + k) % (c * p) : k \in 1 .. n}
                <=> \E k \in 1 .. n : x * p = (cnt * p + acc + k) % (c * p)
          <6> HIDE DEF p, cnt, acc
          <6> QED
            BY <3>2
        <5>5. x * p \in {(gptPos + k) % (c * p) : k \in 1 .. n} <=> x \in Passed(steps)
          BY <5>2, <5>3, <5>4
        <5> QED
          BY <5>5 DEF x
      <4>2. gptPos + n >= c * p <=> cnt + steps >= c
        BY <3>2, <3>4 DEF Splits
      <4>3. GptEvents(n) =
              {i \in Ocr : gpt.ocr[i] * p \in {(gptPos + k) % (c * p) : k \in 1 .. n}}
                \union (IF gptPos + n >= c * p THEN {Rollover} ELSE {})
        BY DEF GptEvents, GptPeriod
      <4> HIDE DEF p, cnt, acc, steps
      <4> QED
        BY <4>1, <4>2, <4>3
    <3>8. gpt.sr = gptOwed
      BY DEF GptInv, GptKeepsTime
    <3>9. gpt'.sr = gptOwed'
      <4> HIDE DEF flags
      <4> QED
        BY <2>6, <3>3, <3>7, <3>8 DEF sr2
    <3>10. GptWithinPeriod'
      <4>1. GptPeriod(gpt)' = c * p
        BY <2>6 DEF GptPeriod
      <4> QED
        BY <3>6, <4>1 DEF GptWithinPeriod, Unknown
    <3>11. GptKeepsTime'
      <4>1. gpt'.pr + 1 = p
        BY <2>6
      <4> HIDE DEF p
      <4> QED
        BY <2>6, <3>6, <3>9, <4>1 DEF GptKeepsTime, Unknown
    <3> QED
      BY <2>6, <3>10, <3>11 DEF GptInv
  <2> QED
    BY <2>7, <2>8
<1> QED
  BY <1>1, <1>2

(* A write that moves no counter but to zero.                              *)
LEMMA WriteKeepsGptInv ==
  ASSUME GptInv, GptTypes', gpt'.sr \in SUBSET gpt.sr, gptOwed' = gptOwed \intersect gpt'.sr,
         \/ gptPos' = 0 /\ gpt'.cnt = 0 /\ gpt'.presc_acc = 0
         \/ /\ gptPos' = gptPos /\ gpt'.cnt = gpt.cnt
            /\ gpt'.presc_acc = gpt.presc_acc /\ gpt'.pr = gpt.pr
  PROVE  GptInv'
<1>1. gpt.sr = gptOwed
  BY DEF GptInv, GptKeepsTime
<1>2. gpt'.sr = gptOwed'
  BY <1>1
<1>3. CASE gptPos' = 0 /\ gpt'.cnt = 0 /\ gpt'.presc_acc = 0
  <2> DEFINE p == gpt'.pr + 1
             zero == 0
  <2>1. p \in Nat \ {0} /\ zero \in 0 .. p - 1 /\ zero \in 0 .. CounterSize - 1
    BY GptAssumption DEF GptTypes
  <2>2. zero * p + zero = zero
    BY <2>1
  <2> HIDE DEF p, zero
  <2>3. /\ zero \in 0 .. (CounterSize * p) - 1
        /\ zero \div p = zero /\ zero % p = zero
    BY <2>1, <2>2, PositionIsExact
  <2>4. GptPeriod(gpt)' = CounterSize * p
    BY DEF GptPeriod, p
  <2>5. GptWithinPeriod'
    BY <1>3, <2>3, <2>4 DEF GptWithinPeriod, zero
  <2>6. GptKeepsTime'
    BY <1>2, <1>3, <2>3 DEF GptKeepsTime, zero, p
  <2> QED
    BY <2>5, <2>6 DEF GptInv
<1>4. CASE /\ gptPos' = gptPos /\ gpt'.cnt = gpt.cnt
           /\ gpt'.presc_acc = gpt.presc_acc /\ gpt'.pr = gpt.pr
  BY <1>2, <1>4 DEF GptInv, GptWithinPeriod, GptKeepsTime, GptPeriod, Unknown
<1> QED
  BY <1>3, <1>4

LEMMA GptStart == Init => GptInv
<1> SUFFICES ASSUME Init PROVE GptInv
  OBVIOUS
<1>1. gpt = GptReset /\ gptPos = 0 /\ gptOwed = {}
  BY DEF Init, GptInit
<1>2. GptTypes
  BY <1>1, GptAssumption DEF GptTypes, GptReset, GptClock
<1>3. gpt.cnt = 0 /\ gpt.presc_acc = 0 /\ gpt.pr = 0 /\ gpt.sr = {}
  BY <1>1 DEF GptReset
<1> QED
  BY <1>1, <1>2, <1>3, GptAssumption DEF GptInv, GptWithinPeriod, GptPeriod, GptKeepsTime

LEMMA GptStep ==
  ASSUME ClockInv, GptInv, [Next]_vars
  PROVE  GptInv'
<1>1. ASSUME UNCHANGED <<gpt, gptPos, gptOwed>>
      PROVE  GptInv'
  BY <1>1 DEF GptInv, GptTypes, GptWithinPeriod, GptPeriod, GptKeepsTime, Unknown
<1>2. ASSUME NEW cycles \in Nat, TimersTick(cycles)
      PROVE  GptInv'
  <2> DEFINE n == IF gpt.clksrc = "off" THEN 0 ELSE DomainTicks(gpt.clksrc, cycles)
  <2>1. gpt.clksrc \in GptClock
    BY DEF GptInv, GptTypes
  <2>2. n \in Nat /\ GptTick(n) /\ GptLawTick(n)
    BY <1>2, <2>1, TicksAreCounted DEF TimersTick
  <2> HIDE DEF n
  <2> QED
    BY <2>2, TickKeepsGptInv
<1>3. CASE Tick
  BY <1>2, <1>3 DEF Tick
<1>4. ASSUME NEW cycles \in HostBatches, HostTick(cycles)
      PROVE  GptInv'
  BY <1>2, <1>4, InputAssumption DEF HostTick
<1>5. CASE UseGpt
  <2>1. gptOwed' = gptOwed \intersect gpt'.sr /\ GptTypes
    BY <1>5 DEF UseGpt, GptInv
  <2>2. ASSUME GptSoftwareReset, gptPos' = IF gpt' = GptReset \/ GptRestarts THEN 0 ELSE gptPos
        PROVE  GptInv'
    <3>1. gpt' = GptReset /\ gptPos' = 0
      BY <2>2 DEF GptSoftwareReset
    <3>2. GptTypes'
      BY <3>1, GptAssumption DEF GptTypes, GptReset, GptClock
    <3>3. gpt'.cnt = 0 /\ gpt'.presc_acc = 0 /\ gpt'.sr = {}
      BY <3>1 DEF GptReset
    <3> QED
      BY <2>1, <3>1, <3>2, <3>3, WriteKeepsGptInv
  <2>3. ASSUME NEW en \in BOOLEAN, NEW enmod \in BOOLEAN, NEW source \in GptClock \ {"lf"},
               WriteGptCr(en, enmod, source),
               gptPos' = IF gpt' = GptReset \/ GptRestarts THEN 0 ELSE gptPos
        PROVE  GptInv'
    <3> DEFINE restart == en /\ ~gpt.en /\ enmod
               cnt == IF restart THEN 0 ELSE gpt.cnt
               acc == IF restart THEN 0 ELSE gpt.presc_acc
    <3>1. cnt \in 0 .. CounterSize - 1 /\ acc \in Nat
      BY <2>1, GptIsTyped
    <3>2. gpt' = [gpt EXCEPT !.en = en, !.enmod = enmod, !.clksrc = source,
                             !.cnt = cnt, !.presc_acc = acc]
      BY <2>1, <2>3 DEF WriteGptCr, GptTypes
    <3>3. restart => cnt = 0 /\ acc = 0
      OBVIOUS
    <3>4. ~restart => cnt = gpt.cnt /\ acc = gpt.presc_acc
      OBVIOUS
    <3> HIDE DEF cnt, acc
    <3>5. /\ GptTypes' /\ gpt'.sr = gpt.sr /\ gpt'.pr = gpt.pr
          /\ gpt'.cnt = cnt /\ gpt'.presc_acc = acc
          /\ gpt'.en = en /\ gpt'.enmod = enmod
      BY <2>1, <3>1, <3>2 DEF GptTypes
    <3>6. GptRestarts <=> restart
      BY <3>5 DEF GptRestarts
    <3>7. gpt' = GptReset => gpt'.cnt = 0 /\ gpt'.presc_acc = 0
      BY DEF GptReset
    <3>8. CASE gpt' = GptReset \/ GptRestarts
      BY <2>1, <2>3, <3>3, <3>5, <3>6, <3>7, <3>8, WriteKeepsGptInv
    <3>9. CASE ~(gpt' = GptReset \/ GptRestarts)
      BY <2>1, <2>3, <3>4, <3>5, <3>6, <3>9, WriteKeepsGptInv
    <3> QED
      BY <3>8, <3>9
  <2>4. ASSUME NEW div \in Divisors, WriteGptPr(div - 1), gptPos' = GptPosition(gpt')
        PROVE  GptInv'
    <3>1. div - 1 \in Nat
      BY InputAssumption
    <3>2. GptTypes' /\ gpt'.sr = gpt.sr
      BY <2>1, <2>4, <3>1 DEF WriteGptPr, GptTypes
    <3>3. gpt'.pr \in Nat /\ gpt'.cnt \in 0 .. CounterSize - 1 /\ gpt'.presc_acc \in Nat
      BY <3>2 DEF GptTypes
    <3>4. gptPos' # Unknown => /\ gptPos' \in 0 .. GptPeriod(gpt') - 1
                               /\ gpt'.cnt = gptPos' \div (gpt'.pr + 1)
                               /\ gpt'.presc_acc = gptPos' % (gpt'.pr + 1)
      BY <2>4, <3>3, GptPositionIsExact
    <3>5. gpt'.sr = gptOwed'
      BY <2>1, <3>2 DEF GptInv, GptKeepsTime
    <3> QED
      BY <3>2, <3>4, <3>5 DEF GptInv, GptWithinPeriod, GptKeepsTime, GptPeriod, Unknown
  <2>5. ASSUME NEW i \in Ocr, NEW value \in Values,
               WriteGptOcr(i, value % CounterSize), UNCHANGED gptPos
        PROVE  GptInv'
    <3>1. value % CounterSize \in 0 .. CounterSize - 1
      BY InputAssumption, GptAssumption, DivMod
    <3>2. /\ GptTypes' /\ gpt'.sr = gpt.sr /\ gpt'.pr = gpt.pr
          /\ gpt'.cnt = gpt.cnt /\ gpt'.presc_acc = gpt.presc_acc
      <4> DEFINE v == value % CounterSize
      <4>1. gpt' = [gpt EXCEPT !.ocr = [gpt.ocr EXCEPT ![i] = v]]
        BY <2>1, <2>5 DEF WriteGptOcr, GptTypes
      <4>2. [gpt.ocr EXCEPT ![i] = v] \in [Ocr -> 0 .. CounterSize - 1]
        <5> HIDE DEF v
        <5> QED
          BY <2>1, <3>1 DEF GptTypes, v
      <4> HIDE DEF v
      <4> QED
        BY <2>1, <4>1, <4>2 DEF GptTypes
    <3> QED
      BY <2>1, <2>5, <3>2, WriteKeepsGptInv
  <2>6. ASSUME NEW flag \in Ocr \union {Rollover}, ClearGptSr({flag}), UNCHANGED gptPos
        PROVE  GptInv'
    <3>1. /\ GptTypes' /\ gpt'.sr = gpt.sr \ {flag} /\ gpt'.pr = gpt.pr
          /\ gpt'.cnt = gpt.cnt /\ gpt'.presc_acc = gpt.presc_acc
      BY <2>1, <2>6 DEF ClearGptSr, GptTypes
    <3> QED
      BY <2>1, <2>6, <3>1, WriteKeepsGptInv
  <2> QED
    BY <1>5, <2>2, <2>3, <2>4, <2>5, <2>6 DEF UseGpt
<1>6. CASE \/ CoreTick \/ EnterSysTick \/ OtherInstruction \/ Retune \/ UsePit
           \/ UseQtmr \/ UseSysTick \/ ChipReset \/ UNCHANGED vars
  BY <1>1, <1>6
  DEF CoreTick, EnterSysTick, OtherInstruction, Retune, UsePit, UseQtmr,
      UseSysTick, ChipReset, vars, gptLaw
<1> QED
  BY <1>3, <1>4, <1>5, <1>6 DEF Next, Execute

(* CNT is the number of ticks divided by PR + 1, and SR has every compare  *)
(* and rollover passed since it was cleared, for every counter width, PR,  *)
(* OCR and batch (Gpt::tick).                                              *)
THEOREM GptIsExact == Spec => []GptKeepsTime
<1>1. Init => ClockInv /\ GptInv
  BY ClockInit, GptStart
<1>2. ClockInv /\ GptInv /\ [Next]_vars => (ClockInv /\ GptInv)'
  BY ClockStep, GptStep
<1>3. ClockInv /\ GptInv => GptKeepsTime
  BY DEF GptInv
<1> QED
  BY <1>1, <1>2, <1>3, PTL DEF Spec

(***************************************************************************)
(* QTMR: a counter that runs from LOAD through COMP1                       *)
(***************************************************************************)

LEMMA DivModOfInt ==
  ASSUME NEW a \in Int, NEW b \in Nat \ {0}
  PROVE  /\ a \div b \in Int /\ a % b \in 0 .. b - 1
         /\ a = (a \div b) * b + (a % b)
  BY Z3

LEMMA ModOfIntUnique ==
  ASSUME NEW a \in Int, NEW b \in Nat \ {0}, NEW q \in Int, NEW r \in 0 .. b - 1,
         a = q * b + r
  PROVE  a % b = r
  BY Z3

(* On a ring of b values: one round up, and one round down.                *)
LEMMA OnceAround ==
  ASSUME NEW b \in Nat \ {0}
  PROVE  /\ \A a \in 0 .. b - 1 : a % b = a
         /\ \A a \in b .. 2 * b - 1 : a % b = a - b
         /\ \A a \in -b .. -1 : a % b = a + b
<1>1. ASSUME NEW a \in 0 .. b - 1 PROVE a % b = a
  <2>1. a = 0 * b + a
    OBVIOUS
  <2> QED
    BY <2>1, ModOfIntUnique
<1>2. ASSUME NEW a \in b .. 2 * b - 1 PROVE a % b = a - b
  <2>1. a = 1 * b + (a - b) /\ a - b \in 0 .. b - 1 /\ a \in Int
    OBVIOUS
  <2> QED
    BY <2>1, ModOfIntUnique
<1>3. ASSUME NEW a \in -b .. -1 PROVE a % b = a + b
  <2>1. a = (-1) * b + (a + b) /\ a + b \in 0 .. b - 1 /\ a \in Int
    OBVIOUS
  <2> QED
    BY <2>1, ModOfIntUnique
<1> QED
  BY <1>1, <1>2, <1>3

(* The way from a to b on a ring, and back.                                *)
LEMMA AroundTheRing ==
  ASSUME NEW c \in Nat \ {0}, NEW a \in 0 .. c - 1, NEW b \in 0 .. c - 1
  PROVE  /\ (b - a) % c = IF a <= b THEN b - a ELSE b - a + c
         /\ (b - a) % c \in 0 .. c - 1
         /\ (a + b) % c = IF a + b < c THEN a + b ELSE a + b - c
<1>1. /\ a <= b => b - a \in 0 .. c - 1
      /\ ~(a <= b) => b - a \in -c .. -1 /\ b - a + c \in 0 .. c - 1
      /\ a + b < c => a + b \in 0 .. c - 1
      /\ ~(a + b < c) => a + b \in c .. 2 * c - 1
  OBVIOUS
<1> DEFINE d == b - a
           e == a + b
<1> HIDE DEF d, e
<1>2. /\ d \in 0 .. c - 1 => d % c = d
      /\ d \in -c .. -1 => d % c = d + c
      /\ e \in 0 .. c - 1 => e % c = e
      /\ e \in c .. 2 * c - 1 => e % c = e - c
  BY OnceAround
<1> QED
  BY <1>1, <1>2 DEF d, e

LEMMA QtmrIsTyped ==
  ASSUME QtmrTypes
  PROVE  /\ CntrSize \in Nat \ {0} /\ qtmr.div \in Nat \ {0} /\ qtmr.presc \in Nat
         /\ qtmr.comp1 \in 0 .. CntrSize - 1 /\ qtmr.load \in 0 .. CntrSize - 1
         /\ qtmr.cntr \in 0 .. CntrSize - 1 /\ qtmr.length \in BOOLEAN
         /\ qtmr.tcf \in BOOLEAN /\ From(qtmr) \in 0 .. CntrSize - 1
  BY CntrAssumption DEF QtmrTypes, From

(* The values between two reloads, in the order they are shown.            *)
Shown(u) == (From(qtmr) + u) % CntrSize

(* COMP1 among them.                                                       *)
CompareAt == (qtmr.comp1 - From(qtmr)) % CntrSize

LEMMA ValuesOfAPeriod ==
  ASSUME QtmrTypes
  PROVE  /\ QtmrValues(qtmr) \in 1 .. CntrSize
         /\ CompareAt \in 0 .. QtmrValues(qtmr) - 1
         /\ qtmr.length => QtmrValues(qtmr) = CompareAt + 1
         /\ ~qtmr.length => QtmrValues(qtmr) = CntrSize
<1>1. CompareAt \in 0 .. CntrSize - 1
  BY QtmrIsTyped, AroundTheRing DEF CompareAt
<1>2. qtmr.length => QtmrValues(qtmr) = CompareAt + 1
  BY DEF QtmrValues, CompareAt, From
<1>3. ~qtmr.length => QtmrValues(qtmr) = CntrSize
  BY DEF QtmrValues
<1> QED
  BY <1>1, <1>2, <1>3, QtmrIsTyped

LEMMA ShownIsExact ==
  ASSUME QtmrTypes, NEW u \in 0 .. QtmrValues(qtmr) - 1
  PROVE  /\ Shown(u) \in 0 .. CntrSize - 1
         /\ Shown(u) = qtmr.comp1 <=> u = CompareAt
         /\ CntrNext(Shown(u)) =
              Shown(IF u + 1 < QtmrValues(qtmr) THEN u + 1 ELSE 0)
<1> DEFINE c == CntrSize
           f == From(qtmr)
           n == QtmrValues(qtmr)
           t == CompareAt
           comp == qtmr.comp1
<1>1. /\ c \in Nat \ {0} /\ f \in 0 .. c - 1 /\ comp \in 0 .. c - 1
      /\ qtmr.length \in BOOLEAN
  BY QtmrIsTyped
<1>2. n \in 1 .. c /\ t \in 0 .. n - 1 /\ (qtmr.length => n = t + 1) /\ (~qtmr.length => n = c)
  BY ValuesOfAPeriod
<1>3. u \in 0 .. n - 1 /\ u \in 0 .. c - 1
  BY <1>1, <1>2
<1>4. \A v \in 0 .. c - 1 : Shown(v) = IF f + v < c THEN f + v ELSE f + v - c
  BY <1>1, AroundTheRing DEF Shown
<1>5. t = IF f <= comp THEN comp - f ELSE comp - f + c
  BY <1>1, AroundTheRing DEF CompareAt
<1>6. f = IF qtmr.length THEN qtmr.load ELSE 0
  BY DEF From
<1> HIDE DEF f, n, t, comp
<1>7. Shown(u) \in 0 .. c - 1 /\ (Shown(u) = comp <=> u = t)
  BY <1>1, <1>2, <1>3, <1>4, <1>5
<1>8. CntrNext(Shown(u)) = Shown(IF u + 1 < n THEN u + 1 ELSE 0)
  <2> DEFINE s == Shown(u)
             next == IF u + 1 < n THEN u + 1 ELSE 0
  <2>1. next \in 0 .. c - 1
    BY <1>1, <1>2, <1>3
  <2>2. Shown(next) = IF f + next < c THEN f + next ELSE f + next - c
    BY <1>4, <2>1
  <2>3. s \in 0 .. c - 1 /\ s = IF f + u < c THEN f + u ELSE f + u - c
    BY <1>3, <1>4, <1>7
  <2>4. CASE s = comp /\ qtmr.length
    <3>1. CntrNext(s) = f
      BY <1>6, <2>4 DEF CntrNext, comp
    <3>2. u = t /\ next = 0
      BY <1>1, <1>2, <1>3, <1>7, <2>4
    <3> HIDE DEF s, next
    <3>3. Shown(next) = f
      BY <1>1, <2>2, <3>2
    <3> QED
      BY <3>1, <3>3 DEF s, next
  <2>5. CASE ~(s = comp /\ qtmr.length)
    <3>1. CntrNext(s) = (s + 1) % c
      BY <2>5 DEF CntrNext, comp
    <3>2. (s + 1) % c = IF s + 1 < c THEN s + 1 ELSE 0
      <4> HIDE DEF s
      <4>1. /\ s + 1 < c => s + 1 \in 0 .. c - 1
            /\ ~(s + 1 < c) => s + 1 \in c .. 2 * c - 1 /\ s + 1 - c = 0
        BY <1>1, <2>3
      <4> DEFINE x == s + 1
      <4> HIDE DEF x
      <4>2. /\ x \in 0 .. c - 1 => x % c = x
            /\ x \in c .. 2 * c - 1 => x % c = x - c
        BY <1>1, OnceAround
      <4> QED
        BY <1>1, <2>3, <4>1, <4>2 DEF x
    <3>3. CASE qtmr.length
      <4>1. u # t /\ u + 1 < n
        BY <1>2, <1>3, <1>7, <2>5, <3>3
      <4>2. next = u + 1
        BY <4>1
      <4> HIDE DEF s, next
      <4>3. Shown(next) = IF s + 1 < c THEN s + 1 ELSE 0
        BY <1>1, <1>3, <2>2, <2>3, <4>2
      <4> QED
        BY <3>1, <3>2, <4>3 DEF s, next
    <3>4. CASE ~qtmr.length
      <4>1. f = 0 /\ n = c
        BY <1>2, <1>6, <3>4
      <4>2. next = IF u + 1 < c THEN u + 1 ELSE 0
        BY <4>1
      <4> HIDE DEF s, next
      <4>3. s = u
        <5>1. f + u = u /\ u < c
          BY <1>1, <1>3, <4>1
        <5> QED
          BY <2>3, <5>1
      <4>4. Shown(next) = IF s + 1 < c THEN s + 1 ELSE 0
        BY <1>1, <1>3, <2>1, <2>2, <4>1, <4>2, <4>3
      <4> QED
        BY <3>1, <3>2, <4>4 DEF s, next
    <3> QED
      BY <1>1, <3>3, <3>4
  <2> QED
    BY <2>4, <2>5
<1> QED
  BY <1>7, <1>8 DEF n, t, comp

LEMMA CntrNextIsTyped ==
  ASSUME QtmrTypes, NEW v \in 0 .. CntrSize - 1
  PROVE  CntrNext(v) \in 0 .. CntrSize - 1
<1> DEFINE x == v + 1
<1>1. x \in Nat /\ CntrSize \in Nat \ {0} /\ qtmr.load \in 0 .. CntrSize - 1
  BY QtmrIsTyped
<1> HIDE DEF x
<1>2. x % CntrSize \in 0 .. CntrSize - 1
  BY <1>1, DivMod
<1> QED
  BY <1>1, <1>2 DEF CntrNext, x

LEMMA RunFollowsTheCounter ==
  ASSUME QtmrTypes, NEW steps \in Nat
  PROVE  /\ \A k \in 0 .. steps : CntrRun(steps)[k] \in 0 .. CntrSize - 1
         /\ CntrRun(steps)[0] = qtmr.cntr
         /\ \A k \in 1 .. steps : CntrRun(steps)[k] = CntrNext(CntrRun(steps)[k - 1])
<1> DEFINE Cntr == 0 .. CntrSize - 1
           step == [k \in 1 .. steps |-> [v \in Cntr |-> CntrNext(v)]]
           Solves(f) == f = [k \in 0 .. steps |->
                               IF k = 0 THEN qtmr.cntr ELSE CntrNext(f[k - 1])]
<1>1. step \in [1 .. steps -> [Cntr -> Cntr]] /\ qtmr.cntr \in Cntr
  BY CntrNextIsTyped, QtmrIsTyped
<1>2. PICK g : /\ g \in [0 .. steps -> Cntr] /\ g[0] = qtmr.cntr
               /\ \A k \in 1 .. steps : g[k] = step[k][g[k - 1]]
  <2> HIDE DEF step, Cntr
  <2>1. \E g : IsChain(g, steps, Cntr, qtmr.cntr, step)
    BY <1>1, ChainExists
  <2> QED
    BY <2>1 DEF IsChain
<1> HIDE DEF Cntr
<1>3. Solves(g)
  <2>1. \A k \in 1 .. steps : g[k] = CntrNext(g[k - 1])
    <3> TAKE k \in 1 .. steps
    <3>1. k - 1 \in 0 .. steps
      OBVIOUS
    <3>2. g[k - 1] \in Cntr
      BY <1>2, <3>1
    <3> QED
      BY <1>2, <3>2
  <2>2. g = [k \in 0 .. steps |-> g[k]]
    BY <1>2
  <2>3. \A k \in 0 .. steps : g[k] = IF k = 0 THEN qtmr.cntr ELSE CntrNext(g[k - 1])
    <3> TAKE k \in 0 .. steps
    <3>1. k = 0 \/ k \in 1 .. steps
      OBVIOUS
    <3> QED
      BY <1>2, <2>1, <3>1
  <2> QED
    BY <2>2, <2>3
<1>4. CntrRun(steps) = CHOOSE f : Solves(f)
  BY DEF CntrRun
<1> DEFINE f == CntrRun(steps)
<1>5. Solves(f)
  <2> HIDE DEF Solves
  <2> QED
    BY <1>3, <1>4
<1> HIDE DEF f
<1>6. f[0] = qtmr.cntr /\ \A k \in 1 .. steps : f[k] = CntrNext(f[k - 1])
  <2>1. \A k \in 0 .. steps : f[k] = IF k = 0 THEN qtmr.cntr ELSE CntrNext(f[k - 1])
    BY <1>5
  <2> HIDE DEF Solves
  <2> QED
    BY <2>1
<1>7. \A k \in 0 .. steps : f[k] \in Cntr
  <2> DEFINE Typed == {k \in 0 .. steps : f[k] \in Cntr}
  <2>1. 0 \in Typed
    BY <1>1, <1>6
  <2>2. ASSUME NEW k \in 1 .. steps, k - 1 \in Typed
        PROVE  k \in Typed
    <3>1. f[k - 1] \in Cntr /\ k \in 0 .. steps
      BY <2>2
    <3>2. f[k] = CntrNext(f[k - 1])
      BY <1>6
    <3>3. CntrNext(f[k - 1]) \in Cntr
      BY <3>1, CntrNextIsTyped DEF Cntr
    <3> QED
      BY <3>1, <3>2, <3>3
  <2> HIDE DEF Typed
  <2>3. \A k \in 0 .. steps : k \in Typed
    BY <2>1, <2>2, UpToTheBound
  <2> QED
    BY <2>3 DEF Typed
<1> QED
  BY <1>6, <1>7 DEF f, Cntr

(* A counter that shows value number v shows value number v + k, around    *)
(* the period, k steps later.                                              *)
LEMMA RunFollowsThePeriod ==
  ASSUME QtmrTypes, NEW steps \in Nat, NEW v \in 0 .. QtmrValues(qtmr) - 1,
         qtmr.cntr = Shown(v)
  PROVE  \A k \in 0 .. steps :
           CntrRun(steps)[k] = Shown((v + k) % QtmrValues(qtmr))
<1> DEFINE n == QtmrValues(qtmr)
           run == CntrRun(steps)
           Right == {k \in 0 .. steps : run[k] = Shown((v + k) % n)}
<1>1. n \in Nat \ {0} /\ v \in 0 .. n - 1 /\ v \in Nat
  BY ValuesOfAPeriod, QtmrIsTyped
<1>2. run[0] = qtmr.cntr /\ \A k \in 1 .. steps : run[k] = CntrNext(run[k - 1])
  BY RunFollowsTheCounter
<1>3. \A u \in 0 .. n - 1 : CntrNext(Shown(u)) = Shown(IF u + 1 < n THEN u + 1 ELSE 0)
  BY ShownIsExact
<1> HIDE DEF n, run
<1>4. 0 \in Right
  <2>1. v % n = v /\ v + 0 = v
    BY <1>1, OnceAround
  <2> QED
    BY <1>2, <2>1
<1>5. ASSUME NEW k \in 1 .. steps, k - 1 \in Right
      PROVE  k \in Right
  <2> DEFINE a == v + (k - 1)
             u == a % n
             next == IF u + 1 < n THEN u + 1 ELSE 0
  <2>1. run[k - 1] = Shown(u) /\ a \in Nat /\ v + k = a + 1
    BY <1>1, <1>5
  <2>2. u \in 0 .. n - 1 /\ a \div n \in Nat /\ a = (a \div n) * n + u
    <3> HIDE DEF a
    <3> QED
      BY <1>1, <2>1, DivMod
  <2>3. run[k] = Shown(next)
    <3> HIDE DEF u, next
    <3>1. run[k] = CntrNext(Shown(u))
      BY <1>2, <2>1
    <3> QED
      BY <1>3, <2>2, <3>1 DEF next
  <2>4. (v + k) % n = next
    <3> DEFINE q == a \div n
               b == a + 1
    <3>1. b \in Int /\ q \in Int /\ u \in 0 .. n - 1
      BY <2>1, <2>2
    <3>2. CASE u + 1 < n
      <4>1. b = q * n + (u + 1) /\ u + 1 \in 0 .. n - 1
        <5> DEFINE y == q * n
        <5>1. y \in Int
          BY <1>1, <3>1
        <5> HIDE DEF y, u, a
        <5>2. a = y + u /\ a \in Nat
          BY <2>1, <2>2 DEF y
        <5>3. a + 1 = y + (u + 1) /\ u + 1 \in 0 .. n - 1
          BY <1>1, <2>2, <3>2, <5>1, <5>2
        <5> QED
          BY <5>3 DEF y
      <4> HIDE DEF b, q, u, a
      <4>2. b % n = u + 1
        BY <1>1, <3>1, <4>1, ModOfIntUnique
      <4> QED
        BY <2>1, <3>2, <4>2 DEF b
    <3>3. CASE ~(u + 1 < n)
      <4>1. b = (q + 1) * n + 0
        <5> DEFINE y == q * n
        <5>1. y \in Int /\ (q + 1) * n = y + n
          BY <1>1, <3>1, Distributes
        <5> HIDE DEF y, u, a
        <5>2. a = y + u /\ a \in Nat
          BY <2>1, <2>2 DEF y
        <5>3. a + 1 = (y + n) + 0
          BY <1>1, <2>2, <3>3, <5>1, <5>2
        <5> QED
          BY <5>1, <5>3
      <4> DEFINE q1 == q + 1
                 zero == 0
      <4>2. b = q1 * n + zero /\ q1 \in Int /\ zero \in 0 .. n - 1
        BY <1>1, <3>1, <4>1
      <4> HIDE DEF b, q1, u, a, zero
      <4>3. b % n = zero
        BY <1>1, <3>1, <4>2, ModOfIntUnique
      <4> QED
        BY <2>1, <3>3, <4>3 DEF b, zero
    <3> QED
      BY <3>2, <3>3
  <2> HIDE DEF next
  <2> QED
    BY <2>3, <2>4
<1> HIDE DEF Right
<1>6. \A k \in 0 .. steps : k \in Right
  BY <1>4, <1>5, UpToTheBound
<1> QED
  BY <1>6 DEF Right, n, run

(* The position leaves value t of a period of n values as often as the     *)
(* counter steps on from it.                                               *)
ComparesTogether(d, n, v, low, ticks, t) ==
  (\E k \in 1 .. ticks : ((v * d + low + k) - (t + 1) * d) % (n * d) = 0)
    <=> (\E j \in 0 .. (low + ticks) \div d - 1 : (v + j) % n = t)

LEMMA ValuesLeft ==
  ASSUME NEW d \in Nat \ {0}, NEW n \in Nat \ {0}, NEW v \in 0 .. n - 1,
         NEW low \in 0 .. d - 1, NEW ticks \in Nat, NEW t \in 0 .. n - 1
  PROVE  ComparesTogether(d, n, v, low, ticks, t)
<1> DEFINE steps == (low + ticks) \div d
           m == n * d
<1>1. /\ steps \in Nat /\ steps * d <= low + ticks /\ low + ticks < (steps + 1) * d
      /\ low \in Nat /\ v \in Nat /\ t \in Nat
  <2>1. Splits(d, n, v, low, ticks)
    BY PrescaledBatch
  <2> QED
    BY <2>1 DEF Splits
<1>2. m \in Nat \ {0}
  <2>1. 1 * d <= n * d /\ n * d \in Nat
    BY ProductIsMonotone, ProductIsNat
  <2> QED
    BY <2>1
<1> HIDE DEF steps
<1>3. ASSUME NEW j \in 0 .. steps - 1, (v + j) % n = t
      PROVE  \E k \in 1 .. ticks : ((v * d + low + k) - (t + 1) * d) % (n * d) = 0
  <2> DEFINE a == v + j
             w == a \div n
             k == (j + 1) * d - low
  <2>1. w \in Nat /\ a = w * n + t /\ a \in Nat /\ j \in Nat
    <3>1. a \in Nat /\ a % n = t
      BY <1>1, <1>3
    <3> HIDE DEF a
    <3>2. a \div n \in Nat /\ a = (a \div n) * n + (a % n)
      BY <3>1, DivMod
    <3> QED
      BY <3>1, <3>2
  <2>2. k \in 1 .. ticks
    <3> DEFINE y == (j + 1) * d
               z == steps * d
    <3>1. 1 * d <= y /\ y <= z
      <4>1. 1 <= j + 1 /\ j + 1 <= steps /\ j + 1 \in Int /\ steps \in Int /\ 1 \in Int
        BY <1>1
      <4> QED
        BY <4>1, ProductIsMonotone
    <3>2. y \in Int /\ z \in Int
      BY <1>1
    <3> HIDE DEF y, z
    <3>3. y - low \in 1 .. ticks
      BY <1>1, <3>1, <3>2 DEF z
    <3> QED
      BY <3>3 DEF y
  <2>3. (v * d + low + k) - (t + 1) * d = w * m + 0
    <3>1. /\ (j + 1) * d = j * d + d /\ (t + 1) * d = t * d + d
          /\ (v + j) * d = v * d + j * d
      BY <1>1, <2>1, Distributes
    <3>2. (w * n + t) * d = w * m + t * d
      <4>1. w * n \in Int /\ (w * n + t) * d = (w * n) * d + t * d
        BY <1>1, <2>1, Distributes
      <4>2. (w * n) * d = w * (n * d)
        BY <2>1, ProductRegroups
      <4> QED
        BY <4>1, <4>2
    <3> DEFINE jd == j * d
               td == t * d
               vd == v * d
               wm == w * m
    <3>3. jd \in Int /\ td \in Int /\ vd \in Int /\ wm \in Int
      BY <1>1, <1>2, <2>1
    <3>4. vd + jd = wm + td
      BY <2>1, <3>1, <3>2
    <3>5. k = jd + d - low /\ (t + 1) * d = td + d
      BY <3>1
    <3> HIDE DEF jd, td, vd, wm, k
    <3>6. (vd + low + k) - (td + d) = wm + 0
      BY <1>1, <3>3, <3>4, <3>5
    <3> QED
      BY <3>5, <3>6 DEF vd, wm
  <2> DEFINE e == (v * d + low + k) - (t + 1) * d
             zero == 0
  <2>4. e \in Int /\ e = w * m + zero /\ zero \in 0 .. m - 1 /\ w \in Int
    <3>1. w * m \in Int
      BY <1>2, <2>1
    <3> QED
      BY <1>2, <2>1, <2>3, <3>1
  <2> HIDE DEF e, w, m, zero
  <2>5. e % m = zero
    BY <1>2, <2>4, ModOfIntUnique
  <2> HIDE DEF k
  <2> QED
    BY <2>2, <2>5 DEF e, m, zero
<1>4. ASSUME NEW k \in 1 .. ticks, ((v * d + low + k) - (t + 1) * d) % (n * d) = 0
      PROVE  \E j \in 0 .. steps - 1 : (v + j) % n = t
  <2> DEFINE e == (v * d + low + k) - (t + 1) * d
             w == e \div m
             j == w * n + t - v
  <2>1. e \in Int /\ e % m = 0
    <3>1. v * d \in Int /\ (t + 1) * d \in Int
      BY <1>1
    <3> QED
      BY <1>1, <1>4, <3>1
  <2>2. w \in Int /\ e = w * m
    <3> HIDE DEF e, m
    <3>1. e \div m \in Int /\ e = (e \div m) * m + (e % m)
      BY <1>2, <2>1, DivModOfInt
    <3>2. (e \div m) * m \in Int
      BY <1>2, <3>1
    <3> QED
      BY <2>1, <3>1, <3>2
  <2> HIDE DEF w
  <2>3. j \in Int /\ w * n \in Int
    BY <1>1, <2>2
  <2>4. (j + 1) * d = low + k
    <3>1. j + 1 = (w * n + (t + 1)) - v
      BY <1>1, <2>3
    <3>2. /\ ((w * n + (t + 1)) - v) * d = (w * n + (t + 1)) * d - v * d
          /\ (w * n + (t + 1)) * d = (w * n) * d + (t + 1) * d
      <4>1. w * n + (t + 1) \in Int /\ t + 1 \in Int /\ v \in Int /\ d \in Int
        BY <1>1, <2>3
      <4> QED
        BY <2>3, <4>1, Distributes
    <3>3. (w * n) * d = w * m
      BY <2>2, ProductRegroups
    <3> DEFINE vd == v * d
               td == (t + 1) * d
               wm == w * m
    <3>4. vd \in Int /\ td \in Int /\ wm \in Int
      BY <1>1, <1>2, <2>2
    <3>5. (j + 1) * d = (wm + td) - vd /\ (vd + low + k) - td = wm
      BY <2>2, <3>1, <3>2, <3>3
    <3> HIDE DEF vd, td, wm, j
    <3> QED
      BY <1>1, <3>4, <3>5
  <2>5. j \in 0 .. steps - 1
    <3> DEFINE h == j + 1
    <3>1. h \in Int /\ h * d = low + k
      BY <2>3, <2>4
    <3> HIDE DEF h, j
    <3>2. h > 0
      <4>1. 0 * d = 0 /\ h * d > 0
        BY <1>1, <3>1
      <4>2. 0 * d < h * d /\ 0 \in Int
        BY <1>1, <3>1
      <4> QED
        BY <3>1, <4>2, ProductIsMonotone
    <3>3. h < steps + 1
      <4>1. h * d < (steps + 1) * d
        <5> DEFINE y == (steps + 1) * d
        <5>1. y \in Int /\ low + ticks < y
          BY <1>1
        <5> HIDE DEF y
        <5>2. h * d < y
          BY <1>1, <3>1, <5>1
        <5> QED
          BY <5>2 DEF y
      <4>2. steps + 1 \in Int
        BY <1>1
      <4> QED
        BY <3>1, <4>1, <4>2, ProductIsMonotone
    <3> QED
      BY <1>1, <2>3, <3>1, <3>2, <3>3 DEF h
  <2>6. (v + j) % n = t
    <3> DEFINE a == v + j
    <3>1. a \in Int /\ a = w * n + t
      BY <1>1, <2>3
    <3> HIDE DEF a
    <3>2. a % n = t
      BY <2>2, <3>1, ModOfIntUnique
    <3> QED
      BY <3>2 DEF a
  <2> HIDE DEF j
  <2> QED
    BY <2>5, <2>6
<1> QED
  BY <1>3, <1>4 DEF ComparesTogether, steps

(***************************************************************************)
(* QTMR: the invariant                                                     *)
(***************************************************************************)

QtmrWithinPeriod == qtmrPos = Unknown \/ qtmrPos \in 0 .. QtmrPeriod(qtmr) - 1

QtmrInv == QtmrTypes /\ QtmrWithinPeriod /\ QtmrKeepsTime

(* A position as the two digits of the registers.                          *)
LEMMA QtmrDigits ==
  ASSUME QtmrInv, qtmrPos # Unknown
  PROVE  \E v \in 0 .. QtmrValues(qtmr) - 1 :
           /\ qtmrPos = v * qtmr.div + qtmr.presc /\ qtmr.cntr = Shown(v)
           /\ qtmr.presc \in 0 .. qtmr.div - 1
<1> DEFINE d == qtmr.div
           n == QtmrValues(qtmr)
           pos == qtmrPos
           v == pos \div d
           r == pos % d
<1>1. d \in Nat \ {0} /\ n \in Nat \ {0}
  BY QtmrIsTyped, ValuesOfAPeriod DEF QtmrInv
<1>2. pos \in 0 .. (n * d) - 1 /\ pos \in Nat
  <2> DEFINE m == n * d
  <2>1. pos \in 0 .. m - 1
    BY DEF QtmrInv, QtmrWithinPeriod, QtmrPeriod
  <2> HIDE DEF m
  <2>2. pos \in Nat
    BY <2>1
  <2> QED
    BY <2>1, <2>2 DEF m
<1>3. v \in Nat /\ r \in 0 .. d - 1 /\ pos = v * d + r
  <2> HIDE DEF d, n, pos
  <2> QED
    BY <1>1, <1>2, DivMod
<1>4. qtmr.cntr = Shown(v) /\ qtmr.presc = r
  BY DEF QtmrInv, QtmrKeepsTime, Shown
<1> HIDE DEF d, n, pos, v, r
<1>5. v \in 0 .. n - 1
  <2> DEFINE x == v * d
             y == n * d
  <2>1. x \in Int /\ y \in Int /\ pos = x + r /\ pos \in 0 .. y - 1
    BY <1>1, <1>2, <1>3
  <2>2. x < y
    <3> HIDE DEF x, y
    <3> QED
      BY <1>1, <1>3, <2>1
  <2>3. v < n
    BY <1>1, <1>3, <2>2, ProductIsMonotone
  <2> QED
    BY <1>1, <1>3, <2>3
<1> QED
  BY <1>3, <1>4, <1>5 DEF d, n, pos

(* The position of given registers is theirs.                              *)
LEMMA QtmrPositionIsExact ==
  ASSUME NEW q, q.div \in Nat \ {0}, q.presc \in Nat, q.length \in BOOLEAN,
         q.cntr \in 0 .. CntrSize - 1, q.load \in 0 .. CntrSize - 1,
         q.comp1 \in 0 .. CntrSize - 1, QtmrPosition(q) # Unknown
  PROVE  /\ QtmrPosition(q) \in 0 .. QtmrPeriod(q) - 1
         /\ q.cntr = (From(q) + QtmrPosition(q) \div q.div) % CntrSize
         /\ q.presc = QtmrPosition(q) % q.div
<1> DEFINE d == q.div
           n == QtmrValues(q)
           f == From(q)
           c == CntrSize
           cntr == q.cntr
           low == q.presc
           v == (cntr - f) % c
           pos == QtmrPosition(q)
<1>1. /\ d \in Nat \ {0} /\ c \in Nat \ {0}
      /\ f \in 0 .. c - 1 /\ cntr \in 0 .. c - 1 /\ low \in Nat
  BY CntrAssumption DEF From
<1>2. n \in Nat \ {0}
  <2> DEFINE e == (q.comp1 - q.load) % CntrSize
  <2>1. e \in 0 .. CntrSize - 1
    BY CntrAssumption, AroundTheRing
  <2>2. n = IF q.length THEN e + 1 ELSE CntrSize
    BY DEF QtmrValues
  <2> HIDE DEF e, n
  <2> QED
    BY <2>1, <2>2, CntrAssumption
<1>3. pos = v * d + low /\ low < d /\ v < n
  BY DEF QtmrPosition
<1>4. QtmrPeriod(q) = n * d
  BY DEF QtmrPeriod
<1>5. v \in 0 .. c - 1 /\ v = IF f <= cntr THEN cntr - f ELSE cntr - f + c
  <2> HIDE DEF f, cntr, c
  <2> QED
    BY <1>1, AroundTheRing
<1> HIDE DEF d, n, f, cntr, low, v, pos
<1>6. v \in 0 .. n - 1 /\ low \in 0 .. d - 1
  BY <1>1, <1>2, <1>3, <1>5
<1>7. pos \in 0 .. (n * d) - 1 /\ pos \div d = v /\ pos % d = low
  BY ZenonT(60), <1>1, <1>2, <1>3, <1>6, TwoDigits
<1>8. cntr = (f + v) % c
  <2>1. (f + v) % c = IF f + v < c THEN f + v ELSE f + v - c
    BY <1>1, <1>5, AroundTheRing
  <2> QED
    BY <1>1, <1>5, <2>1
<1> QED
  BY <1>4, <1>7, <1>8 DEF d, n, f, cntr, low, pos

(* The invariant holds of registers whose position is computed afresh.     *)
LEMMA FreshPosition ==
  ASSUME QtmrTypes', qtmrPos' = QtmrPosition(qtmr'), qtmr'.tcf <=> qtmrOwed'
  PROVE  QtmrInv'
<1> DEFINE q == qtmr'
<1>1. /\ q.div \in Nat \ {0} /\ q.presc \in Nat /\ q.length \in BOOLEAN
      /\ q.cntr \in 0 .. CntrSize - 1 /\ q.load \in 0 .. CntrSize - 1
      /\ q.comp1 \in 0 .. CntrSize - 1
  BY DEF QtmrTypes
<1>2. qtmrPos' # Unknown => /\ qtmrPos' \in 0 .. QtmrPeriod(qtmr') - 1
                            /\ qtmr'.cntr = (From(qtmr') + qtmrPos' \div qtmr'.div) % CntrSize
                            /\ qtmr'.presc = qtmrPos' % qtmr'.div
  <2> HIDE DEF q
  <2>1. QtmrPosition(q) # Unknown => /\ QtmrPosition(q) \in 0 .. QtmrPeriod(q) - 1
                                     /\ q.cntr = (From(q) + QtmrPosition(q) \div q.div) % CntrSize
                                     /\ q.presc = QtmrPosition(q) % q.div
    BY <1>1, QtmrPositionIsExact
  <2> QED
    BY <2>1 DEF q
<1>3. (qtmrPos # Unknown)' <=> qtmrPos' # Unknown
  BY DEF Unknown
<1> QED
  BY <1>2, <1>3
  DEF QtmrInv, QtmrWithinPeriod, QtmrKeepsTime, QtmrPeriod, QtmrValues, From, Unknown

LEMMA TickKeepsQtmrInv ==
  ASSUME QtmrInv, NEW ticks \in Nat, QtmrTick(ticks), QtmrLawTick(ticks)
  PROVE  QtmrInv'
<1> DEFINE d == qtmr.div
           n == QtmrValues(qtmr)
           low == qtmr.presc
           total == low + ticks
           steps == total \div d
           run == CntrRun(steps)
           low2 == total % d
           cntr2 == run[steps]
           tcf2 == qtmr.tcf \/ \E k \in 0 .. steps - 1 : run[k] = qtmr.comp1
<1>1. /\ d \in Nat \ {0} /\ n \in Nat \ {0} /\ low \in Nat /\ QtmrTypes
      /\ qtmr.tcf \in BOOLEAN /\ QtmrPeriod(qtmr) = n * d
  BY QtmrIsTyped, ValuesOfAPeriod DEF QtmrInv, QtmrPeriod
<1>2. CASE ~qtmr.counting
  BY <1>2 DEF QtmrTick, QtmrLawTick, qtmrLaw, QtmrInv, QtmrTypes, QtmrWithinPeriod,
              QtmrPeriod, QtmrValues, From, QtmrKeepsTime, Unknown
<1>3. CASE qtmr.counting /\ ticks = 0
  <2>1. qtmr' = qtmr
    BY <1>3 DEF QtmrTick
  <2>2. CASE qtmrPos = Unknown
    <3>1. qtmrPos' = QtmrPosition(qtmr) /\ qtmrOwed' = qtmr.tcf
      BY <1>3, <2>1, <2>2 DEF QtmrLawTick
    <3>2. QtmrTypes' /\ qtmrPos' = QtmrPosition(qtmr') /\ (qtmr'.tcf <=> qtmrOwed')
      BY <1>1, <2>1, <3>1 DEF QtmrTypes
    <3> QED
      BY <3>2, FreshPosition
  <2>3. CASE qtmrPos # Unknown
    <3>1. /\ qtmrPos' = (qtmrPos + ticks) % QtmrPeriod(qtmr)
          /\ qtmrOwed' = (qtmrOwed \/ QtmrCompares(ticks))
      BY <1>3, <2>3 DEF QtmrLawTick
    <3>2. ~QtmrCompares(ticks)
      BY <1>3 DEF QtmrCompares
    <3>3. qtmrPos' = qtmrPos
      <4> DEFINE m == QtmrPeriod(qtmr)
      <4>1. qtmrPos \in 0 .. m - 1 /\ m \in Int
        BY <1>1, <2>3 DEF QtmrInv, QtmrWithinPeriod
      <4> HIDE DEF m
      <4>2. m \in Nat \ {0} /\ qtmrPos + ticks = qtmrPos
        BY <1>3, <4>1
      <4>3. qtmrPos % m = qtmrPos
        BY <4>1, <4>2, OnceAround
      <4> QED
        BY <3>1, <4>2, <4>3 DEF m
    <3> HIDE DEF tcf2
    <3> QED
      BY <2>1, <3>1, <3>2, <3>3
      DEF QtmrInv, QtmrTypes, QtmrWithinPeriod, QtmrPeriod, QtmrValues, From,
          QtmrKeepsTime, Unknown
  <2> QED
    BY <2>2, <2>3
<1>4. CASE qtmr.counting /\ ticks # 0
  <2>1. qtmr' = [qtmr EXCEPT !.presc = low2, !.cntr = cntr2, !.tcf = tcf2]
    BY <1>4 DEF QtmrTick
  <2>2. steps \in Nat /\ low2 \in 0 .. d - 1 /\ low2 \in Nat
    <3>1. total \in Nat
      BY <1>1
    <3> HIDE DEF total, d
    <3>2. total \div d \in Nat /\ total % d \in 0 .. d - 1
      BY <1>1, <3>1, DivMod
    <3> QED
      BY <1>1, <3>2
  <2>3. cntr2 \in 0 .. CntrSize - 1
    <3> HIDE DEF steps
    <3> QED
      BY <1>1, <2>2, RunFollowsTheCounter
  <2>4. tcf2 \in BOOLEAN
    BY <1>1
  <2> HIDE DEF low2, cntr2, tcf2
  <2>5. /\ QtmrTypes'
        /\ qtmr'.cntr = cntr2 /\ qtmr'.presc = low2 /\ qtmr'.tcf = tcf2
        /\ qtmr'.div = qtmr.div /\ qtmr'.comp1 = qtmr.comp1
        /\ qtmr'.load = qtmr.load /\ qtmr'.length = qtmr.length
    BY <1>1, <2>1, <2>2, <2>3, <2>4 DEF QtmrTypes
  <2>6. From(qtmr') = From(qtmr) /\ QtmrValues(qtmr') = n
    BY <2>5 DEF From, QtmrValues
  <2>7. QtmrPeriod(qtmr') = n * d
    BY <2>5, <2>6 DEF QtmrPeriod
  <2>8. CASE qtmrPos = Unknown
    <3>1. qtmrPos' = QtmrPosition(qtmr') /\ qtmrOwed' = qtmr'.tcf
      BY <1>4, <2>8 DEF QtmrLawTick
    <3> QED
      BY <2>5, <3>1, FreshPosition
  <2>9. CASE qtmrPos # Unknown
    <3>1. PICK v \in 0 .. n - 1 :
            /\ qtmrPos = v * d + low /\ qtmr.cntr = Shown(v) /\ low \in 0 .. d - 1
      BY <2>9, QtmrDigits
    <3>2. /\ qtmrPos' = (qtmrPos + ticks) % (n * d)
          /\ qtmrOwed' = (qtmrOwed \/ QtmrCompares(ticks))
      BY <1>1, <1>4, <2>9 DEF QtmrLawTick
    <3>4. \A k \in 0 .. steps : run[k] = Shown((v + k) % n)
      <4> HIDE DEF steps
      <4> QED
        BY <1>1, <2>2, <3>1, RunFollowsThePeriod
    <3> DEFINE u == (v + steps) % n
    <3>5. u \in 0 .. n - 1
      <4> DEFINE a == v + steps
      <4>1. a \in Nat
        BY <2>2, <3>1
      <4> HIDE DEF a, n
      <4>2. a % n \in 0 .. n - 1
        BY <1>1, <4>1, DivMod
      <4> QED
        BY <4>2 DEF a
    <3>6. cntr2 = Shown(u)
      <4>1. steps \in 0 .. steps
        BY <2>2
      <4> QED
        BY <3>4, <4>1 DEF cntr2
    <3>7. qtmrPos' = u * d + low2
      <4>1. Splits(d, n, v, low, ticks)
        <5> HIDE DEF d, n, low
        <5> QED
          BY <1>1, <3>1, PrescaledBatch
      <4> QED
        BY <3>1, <3>2, <4>1 DEF Splits, low2
    <3> HIDE DEF u
    <3>8. qtmrPos' \in 0 .. (n * d) - 1 /\ qtmrPos' \div d = u /\ qtmrPos' % d = low2
      <4> HIDE DEF d, n
      <4> QED
        BY <1>1, <2>2, <3>5, <3>7, TwoDigits
    <3>9. QtmrCompares(ticks) <=> \E k \in 0 .. steps - 1 : run[k] = qtmr.comp1
      <4> DEFINE t == CompareAt
      <4>1. t \in 0 .. n - 1
        BY <1>1, ValuesOfAPeriod
      <4>2. \A k \in 0 .. steps - 1 : run[k] = qtmr.comp1 <=> (v + k) % n = t
        <5> TAKE k \in 0 .. steps - 1
        <5> DEFINE a == v + k
        <5>1. a \in Nat /\ k \in 0 .. steps
          BY <2>2, <3>1
        <5>2. a % n \in 0 .. n - 1
          <6> HIDE DEF a, n
          <6> QED
            BY <1>1, <5>1, DivMod
        <5>3. Shown(a % n) = qtmr.comp1 <=> a % n = t
          <6> DEFINE x == a % n
          <6> HIDE DEF x
          <6>1. x \in 0 .. QtmrValues(qtmr) - 1
            BY <5>2 DEF x
          <6>2. Shown(x) = qtmr.comp1 <=> x = CompareAt
            BY <1>1, <6>1, ShownIsExact
          <6> QED
            BY <6>2 DEF x
        <5>4. run[k] = Shown(a % n)
          BY <3>4, <5>1
        <5> QED
          BY <5>3, <5>4
      <4>3. ComparesTogether(d, n, v, low, ticks, t)
        <5> HIDE DEF d, n, low, t
        <5> QED
          BY <1>1, <3>1, <4>1, ValuesLeft
      <4>4. QtmrCompares(ticks) <=>
              \E k \in 1 .. ticks : ((v * d + low + k) - (t + 1) * d) % (n * d) = 0
        <5>1. QtmrCompares(ticks) <=>
                \E k \in 1 .. ticks : (qtmrPos + k - (t + 1) * d) % (n * d) = 0
          BY <1>1 DEF QtmrCompares, CompareAt
        <5>2. qtmrPos = v * d + low
          BY <3>1
        <5> HIDE DEF d, n, low, t
        <5>3. \A k \in 1 .. ticks : qtmrPos + k - (t + 1) * d
                                     = (v * d + low + k) - (t + 1) * d
          BY <1>1, <3>1, <4>1, <5>2
        <5> QED
          BY <5>1, <5>3
      <4> HIDE DEF t, run
      <4> QED
        BY <4>2, <4>3, <4>4 DEF ComparesTogether
    <3>10. qtmr'.tcf <=> qtmrOwed'
      <4>1. qtmr.tcf <=> qtmrOwed
        BY DEF QtmrInv, QtmrKeepsTime
      <4> QED
        BY <2>5, <3>2, <3>9, <4>1 DEF tcf2
    <3>11. QtmrWithinPeriod'
      BY <2>7, <3>8 DEF QtmrWithinPeriod, Unknown
    <3>12. qtmr'.cntr = (From(qtmr') + qtmrPos' \div qtmr'.div) % CntrSize
      BY <2>5, <2>6, <3>6, <3>8 DEF Shown
    <3>13. qtmr'.presc = qtmrPos' % qtmr'.div
      BY <2>5, <3>8
    <3> QED
      BY <2>5, <3>10, <3>11, <3>12, <3>13 DEF QtmrInv, QtmrKeepsTime, Unknown
  <2> QED
    BY <2>8, <2>9
<1> QED
  BY <1>2, <1>3, <1>4 DEF QtmrInv, QtmrTypes

LEMMA QtmrStart == Init => QtmrInv
<1> SUFFICES ASSUME Init PROVE QtmrInv
  OBVIOUS
<1>1. /\ qtmr.length = FALSE /\ qtmr.div = 1 /\ qtmr.presc = 0 /\ qtmr.cntr = 0
      /\ qtmr.tcf = FALSE /\ qtmrPos = 0 /\ qtmrOwed = FALSE
  BY DEF Init, QtmrInit
<1>2. QtmrTypes
  BY CntrAssumption DEF Init, QtmrInit, QtmrTypes
<1>3. From(qtmr) = 0 /\ QtmrPeriod(qtmr) = CntrSize
  BY <1>1, CntrAssumption DEF From, QtmrPeriod, QtmrValues
<1>4. 0 \div 1 = 0 /\ 0 % 1 = 0
  OBVIOUS
<1>5. 0 % CntrSize = 0
  BY CntrAssumption, OnceAround
<1>6. QtmrWithinPeriod
  BY <1>1, <1>3, CntrAssumption DEF QtmrWithinPeriod
<1>7. QtmrKeepsTime
  BY <1>1, <1>3, <1>4, <1>5 DEF QtmrKeepsTime
<1> QED
  BY <1>2, <1>6, <1>7 DEF QtmrInv

LEMMA QtmrStep ==
  ASSUME ClockInv, QtmrInv, [Next]_vars
  PROVE  QtmrInv'
<1>1. ASSUME UNCHANGED <<qtmr, qtmrPos, qtmrOwed>>
      PROVE  QtmrInv'
  BY <1>1
  DEF QtmrInv, QtmrTypes, QtmrWithinPeriod, QtmrPeriod, QtmrValues, From,
      QtmrKeepsTime, Unknown
<1>2. ASSUME NEW cycles \in Nat, TimersTick(cycles)
      PROVE  QtmrInv'
  <2> DEFINE n == DomainTicks("perclk", cycles)
  <2>1. n \in Nat /\ QtmrTick(n) /\ QtmrLawTick(n)
    BY <1>2, TicksAreCounted DEF TimersTick
  <2> HIDE DEF n
  <2> QED
    BY <2>1, TickKeepsQtmrInv
<1>3. CASE Tick
  BY <1>2, <1>3 DEF Tick
<1>4. ASSUME NEW cycles \in HostBatches, HostTick(cycles)
      PROVE  QtmrInv'
  BY <1>2, <1>4, InputAssumption DEF HostTick
<1>5. CASE UseQtmr
  <2>1. QtmrTypes /\ (qtmr.tcf <=> qtmrOwed)
    BY DEF QtmrInv, QtmrKeepsTime
  <2>2. ASSUME NEW counting \in BOOLEAN, NEW length \in BOOLEAN, NEW div \in Divisors,
               WriteQtmrCtrl(counting, div, length),
               qtmrPos' = QtmrPosition(qtmr'), UNCHANGED qtmrOwed
        PROVE  QtmrInv'
    <3>1. QtmrTypes' /\ qtmr'.tcf = qtmr.tcf
      BY <2>1, <2>2, InputAssumption DEF WriteQtmrCtrl, QtmrTypes
    <3> QED
      BY <2>1, <2>2, <3>1, FreshPosition
  <2>3. ASSUME NEW value \in Values,
               \/ WriteComp1(value % CntrSize)
               \/ WriteLoad(value % CntrSize)
               \/ WriteCntr(value % CntrSize),
               qtmrPos' = QtmrPosition(qtmr'), UNCHANGED qtmrOwed
        PROVE  QtmrInv'
    <3> DEFINE v == value % CntrSize
    <3>1. v \in 0 .. CntrSize - 1
      BY InputAssumption, CntrAssumption, DivMod
    <3> HIDE DEF v
    <3>2. \/ qtmr' = [qtmr EXCEPT !.comp1 = v]
          \/ qtmr' = [qtmr EXCEPT !.load = v]
          \/ qtmr' = [qtmr EXCEPT !.cntr = v]
      BY <2>3 DEF v, WriteComp1, WriteLoad, WriteCntr
    <3>3. QtmrTypes' /\ qtmr'.tcf = qtmr.tcf
      BY <2>1, <3>1, <3>2 DEF QtmrTypes
    <3> QED
      BY <2>1, <2>3, <3>3, FreshPosition
  <2>4. ASSUME NEW tcf \in BOOLEAN, WriteSctrl(tcf, TRUE),
               qtmrOwed' = (qtmrOwed /\ qtmr'.tcf), UNCHANGED qtmrPos
        PROVE  QtmrInv'
    <3> DEFINE left == qtmr.tcf /\ tcf
    <3>1. left \in BOOLEAN /\ (left => qtmr.tcf)
      BY <2>1 DEF QtmrTypes
    <3>2. qtmr' = [qtmr EXCEPT !.tcf = left, !.tcfie = TRUE]
      BY <2>1, <2>4 DEF WriteSctrl, QtmrTypes
    <3> HIDE DEF left
    <3>3. /\ QtmrTypes' /\ qtmr'.tcf = left
          /\ qtmr'.div = qtmr.div /\ qtmr'.length = qtmr.length
          /\ qtmr'.presc = qtmr.presc /\ qtmr'.comp1 = qtmr.comp1
          /\ qtmr'.load = qtmr.load /\ qtmr'.cntr = qtmr.cntr
      BY <2>1, <3>1, <3>2 DEF QtmrTypes
    <3>4. qtmr'.tcf <=> qtmrOwed'
      BY <2>1, <2>4, <3>1, <3>3
    <3>5. From(qtmr') = From(qtmr) /\ QtmrPeriod(qtmr') = QtmrPeriod(qtmr)
      BY <3>3 DEF From, QtmrPeriod, QtmrValues
    <3>6. QtmrWithinPeriod'
      BY <2>4, <3>5 DEF QtmrInv, QtmrWithinPeriod, Unknown
    <3>7. QtmrKeepsTime'
      BY <2>4, <3>3, <3>4, <3>5 DEF QtmrInv, QtmrKeepsTime, Unknown
    <3> QED
      BY <3>3, <3>6, <3>7 DEF QtmrInv
  <2> QED
    BY <1>5, <2>2, <2>3, <2>4 DEF UseQtmr
<1>6. CASE \/ CoreTick \/ EnterSysTick \/ OtherInstruction \/ Retune \/ UsePit
           \/ UseGpt \/ UseSysTick \/ ChipReset \/ UNCHANGED vars
  BY <1>1, <1>6
  DEF CoreTick, EnterSysTick, OtherInstruction, Retune, UsePit, UseGpt,
      UseSysTick, ChipReset, vars, qtmrLaw
<1> QED
  BY <1>3, <1>4, <1>5, <1>6 DEF Next, Execute

(* CNTR runs from LOAD through COMP1, one value per divisor, and TCF has   *)
(* every compare since it was cleared, for every counter width, divisor,   *)
(* LOAD, COMP1 and batch (Qtmr::tick).                                     *)
THEOREM QtmrIsExact == Spec => []QtmrKeepsTime
<1>1. Init => ClockInv /\ QtmrInv
  BY ClockInit, QtmrStart
<1>2. ClockInv /\ QtmrInv /\ [Next]_vars => (ClockInv /\ QtmrInv)'
  BY ClockStep, QtmrStep
<1>3. ClockInv /\ QtmrInv => QtmrKeepsTime
  BY DEF QtmrInv
<1> QED
  BY <1>1, <1>2, <1>3, PTL DEF Spec

(***************************************************************************)
(* Types                                                                   *)
(***************************************************************************)

(* What no other invariant types: the phase of the step, the bound of the  *)
(* retunes and the drift of SysTick.                                       *)
StepTypes ==
  /\ phase \in {"core", "instruction", "tick"}
  /\ retunes \in 0 .. MaxRetunes
  /\ ahead \in Int

LEMMA StepTypesAreKept ==
  ASSUME ClockInv, StepTypes, [Next]_vars
  PROVE  StepTypes'
<1>1. ASSUME NEW cycles \in Nat, NEW external, AdvanceClocks(cycles, external)
      PROVE  retunes' \in 0 .. MaxRetunes /\ ahead' \in Int
  <2> DEFINE n == DomainTicks("systick", cycles)
             s == Second \div clock.core
  <2>1. n \in Nat
    BY BatchSplits DEF ClockInv, Domain
  <2>2. Second \in Nat /\ SysTickHz \in Nat /\ clock.core \in Nat \ {0}
    BY ClocksAssumption DEF ClockInv, ClockTypes
  <2>3. s \in Nat
    BY <2>2, DivMod
  <2>4. /\ retunes' = retunes
        /\ ahead' = IF external THEN ahead + n * Second - cycles * SysTickHz * s
                                ELSE ahead
    BY <1>1 DEF AdvanceClocks
  <2> HIDE DEF n, s
  <2>5. n * Second \in Int /\ cycles * SysTickHz \in Nat
    BY <2>1, <2>2, ProductIsNat
  <2>6. cycles * SysTickHz * s \in Int
    BY <2>3, <2>5, ProductIsNat
  <2> QED
    BY <2>4, <2>5, <2>6 DEF StepTypes
<1>2. CASE Tick
  <2> DEFINE external == External
  <2>1. phase' = "core" /\ AdvanceClocks(1, external)
    BY <1>2 DEF Tick
  <2> HIDE DEF external
  <2>2. retunes' \in 0 .. MaxRetunes /\ ahead' \in Int
    BY <1>1, <2>1
  <2> QED
    BY <2>1, <2>2 DEF StepTypes
<1>3. ASSUME NEW cycles \in HostBatches, HostTick(cycles)
      PROVE  StepTypes'
  BY <1>1, <1>3, InputAssumption DEF HostTick, StepTypes
<1>4. CASE Retune
  BY <1>4, InputAssumption DEF Retune, Instruction, StepTypes
<1>5. ASSUME phase' \in {phase, "instruction", "tick"}, UNCHANGED <<retunes, ahead>>
      PROVE  StepTypes'
  BY <1>5 DEF StepTypes
<1>6. CASE CoreTick \/ EnterSysTick \/ UNCHANGED vars
  BY <1>5, <1>6 DEF CoreTick, EnterSysTick, vars, clockVars
<1>7. CASE OtherInstruction \/ UsePit \/ UseGpt \/ UseQtmr \/ UseSysTick
  <2>1. phase' = "tick"
    BY <1>7
    DEF OtherInstruction, UsePit, UseGpt, UseQtmr, UseSysTick, Uses, Instruction
  <2>2. UNCHANGED <<retunes, ahead>>
    BY <1>7 DEF OtherInstruction, UsePit, UseGpt, UseQtmr, UseSysTick, clockVars
  <2> QED
    BY <1>5, <2>1, <2>2
<1>8. CASE ChipReset
  BY <1>8 DEF ChipReset, StepTypes
<1> QED
  BY <1>2, <1>3, <1>4, <1>6, <1>7, <1>8 DEF Next, Execute

(* Every register of the timers stays in its range: no CVAL or CVR runs    *)
(* below zero, and CNT, CNTR, OCR, LOAD and COMP1 keep to their widths.    *)
THEOREM TimerTypesAreKept == Spec => []TypeInvariant
<1> DEFINE Inv == ClockInv /\ SysInv /\ PitInv /\ GptInv /\ QtmrInv /\ StepTypes
<1>1. Init => Inv
  <2>1. Init => StepTypes
    BY InputAssumption DEF Init, StepTypes
  <2> QED
    BY <2>1, ClockInit, SysInit, PitStart, GptStart, QtmrStart
<1>2. Inv /\ [Next]_vars => Inv'
  BY ClockStep, SysStep, PitStep, GptStep, QtmrStep, StepTypesAreKept
<1>3. Inv => TypeInvariant
  BY DEF ClockInv, ClockTypes, SysInv, PitInv, GptInv, QtmrInv, StepTypes, TypeInvariant
<1> QED
  BY <1>1, <1>2, <1>3, PTL DEF Spec
=============================================================================
