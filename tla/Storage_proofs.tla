---------------------------- MODULE Storage_proofs ----------------------------
(***************************************************************************)
(* Proof that the IP command engine of FlexSpi, driven as in Storage and   *)
(* interrupted anywhere, implements the NOR flash of NorFlash, for every   *)
(* size of flash, sector and FIFO word and every set of jobs.              *)
(***************************************************************************)
EXTENDS Storage, SequenceTheorems, TLAPS

(***************************************************************************)
(* Arithmetic and the flash operators                                      *)
(***************************************************************************)

LEMMA SmallModulus ==
  ASSUME NEW b \in Nat \ {0}, NEW a \in 0 .. b - 1
  PROVE  a % b = a
  BY Z3

(* Within the array, byte k of an access at addr is cell addr + k - 1.     *)
LEMMA CellWithin ==
  ASSUME NEW addr \in Nat, NEW k \in Nat \ {0}, addr + k <= FlashSize
  PROVE  CellOf(addr, k) = addr + k - 1
<1>1. FlashSize \in Nat \ {0} /\ addr + k - 1 \in 0 .. FlashSize - 1
  BY FlashAssumption
<1> QED
  BY <1>1, SmallModulus DEF CellOf

(* A program within the array ands its data into its cells.                *)
LEMMA ProgramIsAnd ==
  ASSUME NEW addr \in Nat, NEW data \in Seq(Byte),
         addr + Len(data) <= FlashSize, flash \in [Cell -> Byte]
  PROVE  Programmed(addr, data) =
           [a \in Cell |-> IF a - addr \in 0 .. Len(data) - 1
                             THEN flash[a] \intersect data[a - addr + 1]
                             ELSE flash[a]]
<1> DEFINE hit(a) == {b \in flash[a] : \A k \in DOMAIN data :
                        CellOf(addr, k) = a => b \in data[k]}
<1>1. \A k \in DOMAIN data : CellOf(addr, k) = addr + k - 1
  BY CellWithin, FlashAssumption
<1>2. ASSUME NEW a \in Cell, a - addr \in 0 .. Len(data) - 1
      PROVE  hit(a) = flash[a] \intersect data[a - addr + 1]
  <2>1. a - addr + 1 \in DOMAIN data /\ a \in Int
    BY <1>2 DEF Cell
  <2>2. \A k \in DOMAIN data : CellOf(addr, k) = a <=> k = a - addr + 1
    BY <1>1, <2>1
  <2> QED
    BY <2>1, <2>2
<1>3. ASSUME NEW a \in Cell, a - addr \notin 0 .. Len(data) - 1
      PROVE  hit(a) = flash[a]
  <2>1. \A k \in DOMAIN data : CellOf(addr, k) # a
    BY <1>1, <1>3 DEF Cell
  <2> QED
    BY <2>1
<1> QED
  BY <1>2, <1>3 DEF Programmed

(***************************************************************************)
(* The invariant                                                           *)
(***************************************************************************)

FlashPhase == {"configure", "address", "trigger", "push", "pop", "finish"}
CardPhase  == {"clear", "issue", "response", "read", "write", "end"}

(* Each device has its own phases and jobs.                                *)
DeviceOk ==
  /\ device \in {"flash", "card"}
  /\ job # None /\ device = "flash" => job \in FlashJobs
  /\ phase \in FlashPhase => device = "flash" /\ job # None
  /\ phase \in CardPhase => device = "card"
  /\ phase \in FlashPhase \union CardPhase \union {"idle"}

(* Byte k of the payload as the driver pushes it.                          *)
PayloadByte(k) == IF k <= Len(job.data) THEN job.data[k] ELSE {}

(* The engine has latched the job in hand and holds what was pushed of it, *)
(* whatever it held before: this is what keeps payloads apart.             *)
LatchOk ==
  /\ phase \in {"idle", "configure", "address", "trigger"} => sent = 0
  /\ phase = "trigger" =>
       ipcr = [addr |-> job.addr, size |-> job.size, seq |-> job.seq]
  /\ phase = "push" =>
       /\ "WRITE" \in Lut[job.seq]
       /\ write_op = [addr |-> job.addr, size |-> job.size,
                      to_flash |-> "RADDR" \in Lut[job.seq]]
       /\ sent \in Nat
       /\ sent * WordBytes < Len(job.data)
       /\ iptx \in Seq(Byte)
       /\ Len(iptx) = sent * WordBytes
       /\ \A k \in 1 .. Len(iptx) : iptx[k] = PayloadByte(k)
  /\ phase = "pop" => ~Changing(job)

FlashInv == DeviceOk /\ LatchOk /\ flash \in [Cell -> Byte]

LEMMA FlashInit == Init => FlashInv
<1> SUFFICES ASSUME Init PROVE FlashInv
  OBVIOUS
<1>1. flash \in [Cell -> Byte]
  BY DEF Init, FlexSpiInit, Erased, Byte
<1> QED
  BY <1>1 DEF Init, FlashInv, DeviceOk, LatchOk, FlashPhase, CardPhase

(***************************************************************************)
(* One word of payload                                                     *)
(***************************************************************************)

LEMMA JobIsTyped ==
  ASSUME FlashInv, phase \in FlashPhase
  PROVE  /\ job \in FlashJobs /\ job \in FlashJob /\ job # None
         /\ job.addr \in Nat /\ job.size \in Nat /\ job.data \in Seq(Byte)
         /\ job.seq \in DOMAIN Lut
         /\ job.addr + Len(job.data) <= FlashSize /\ job.addr < FlashSize
         /\ "WRITE" \in Lut[job.seq] => job.size = Len(job.data)
         /\ "WRITE" \notin Lut[job.seq] => job.data = <<>>
<1>1. job \in FlashJobs /\ job # None
  BY DEF FlashInv, DeviceOk
<1>2. job \in FlashJob
  BY <1>1, JobAssumption
<1> QED
  BY <1>1, <1>2, FlashJobAssumption DEF FlashJob

Pushed == iptx \o PayloadWord

(* Words are pushed in order, so the FIFO holds a prefix of the payload.   *)
LEMMA WordExtendsPayload ==
  ASSUME FlashInv, phase = "push"
  PROVE  /\ Pushed \in Seq(Byte)
         /\ Len(Pushed) = (sent + 1) * WordBytes
         /\ \A k \in 1 .. Len(Pushed) : Pushed[k] = PayloadByte(k)
<1>1. /\ sent \in Nat /\ WordBytes \in Nat \ {0}
      /\ iptx \in Seq(Byte) /\ Len(iptx) = sent * WordBytes
      /\ \A k \in 1 .. Len(iptx) : iptx[k] = PayloadByte(k)
      /\ job.data \in Seq(Byte)
  BY JobIsTyped, FlashAssumption DEF FlashInv, LatchOk, FlashPhase
<1>2. sent * WordBytes \in Nat /\ (sent + 1) * WordBytes = sent * WordBytes + WordBytes
  BY <1>1
<1>3. \A i \in 1 .. WordBytes : PayloadWord[i] = PayloadByte(Len(iptx) + i)
  BY <1>1, <1>2 DEF PayloadWord, PayloadByte
<1>4. \A i \in 1 .. WordBytes : PayloadWord[i] \in Byte
  <2>1. {} \in Byte
    BY DEF Byte
  <2>2. \A k \in 1 .. Len(job.data) : job.data[k] \in Byte
    BY <1>1
  <2>3. \A i \in 1 .. WordBytes :
          Len(iptx) + i \in Nat /\ Len(iptx) + i >= 1
    BY <1>1, <1>2
  <2> QED
    BY <1>1, <1>3, <2>1, <2>2, <2>3 DEF PayloadByte
<1>5. PayloadWord \in [1 .. WordBytes -> Byte]
  BY <1>4 DEF PayloadWord
<1>6. PayloadWord \in Seq(Byte) /\ Len(PayloadWord) = WordBytes
  BY <1>1, <1>5
<1>7. /\ Pushed \in Seq(Byte) /\ Len(Pushed) = Len(iptx) + WordBytes
      /\ \A k \in 1 .. Len(Pushed) :
           Pushed[k] = IF k <= Len(iptx) THEN iptx[k]
                                         ELSE PayloadWord[k - Len(iptx)]
  BY <1>1, <1>6, ConcatProperties DEF Pushed
<1>8. ASSUME NEW k \in 1 .. Len(Pushed) PROVE Pushed[k] = PayloadByte(k)
  <2>1. CASE k <= Len(iptx)
    BY <1>1, <1>7, <2>1
  <2>2. CASE k > Len(iptx)
    <3>1. k - Len(iptx) \in 1 .. WordBytes /\ Len(iptx) + (k - Len(iptx)) = k
      BY <1>1, <1>2, <1>7, <2>2
    <3> QED
      BY <1>3, <1>7, <2>2, <3>1
  <2> QED
    BY <1>1, <1>2, <1>7, <2>1, <2>2
<1> QED
  BY <1>1, <1>2, <1>7, <1>8

(* The last word completes it: what is programmed is exactly the payload.  *)
LEMMA PayloadIsWhole ==
  ASSUME FlashInv, phase = "push", Len(Pushed) >= Len(job.data)
  PROVE  SubSeq(Pushed, 1, Len(job.data)) = job.data
<1>1. /\ Pushed \in Seq(Byte) /\ job.data \in Seq(Byte)
      /\ \A k \in 1 .. Len(Pushed) : Pushed[k] = PayloadByte(k)
  BY WordExtendsPayload, JobIsTyped DEF FlashPhase
<1>2. \A k \in 1 .. Len(job.data) : Pushed[k] = job.data[k]
  BY <1>1 DEF PayloadByte
<1> QED
  BY <1>1, <1>2
(***************************************************************************)
(* The invariant is inductive                                              *)
(***************************************************************************)

LEMMA ErasedIsTyped ==
  ASSUME FlashInv, NEW addr \in Nat
  PROVE  SectorErased(addr) \in [Cell -> Byte]
  BY DEF FlashInv, SectorErased, Erased, Byte

LEMMA ProgrammedIsTyped ==
  ASSUME FlashInv, NEW addr \in Nat, NEW data
  PROVE  Programmed(addr, data) \in [Cell -> Byte]
<1>1. \A a \in Cell : flash[a] \in Byte
  BY DEF FlashInv
<1> QED
  BY <1>1 DEF Programmed, Byte

LEMMA StrobeKeepsInv == FlashInv /\ Strobe => FlashInv'
<1> SUFFICES ASSUME FlashInv, Strobe PROVE FlashInv'
  OBVIOUS
<1>1. /\ phase = "trigger" /\ sent = 0 /\ device = "flash"
      /\ ipcr = [addr |-> job.addr, size |-> job.size, seq |-> job.seq]
      /\ UNCHANGED <<device, job, sent>>
  BY DEF FlashInv, DeviceOk, LatchOk, Strobe, Stay, FlashPhase
<1>2. /\ job \in FlashJobs /\ job # None
      /\ job.addr \in Nat /\ job.data \in Seq(Byte)
      /\ "WRITE" \notin Lut[job.seq] => job.data = <<>>
  BY <1>1, JobIsTyped DEF FlashPhase
<1>3. flash' \in [Cell -> Byte]
  BY <1>1, <1>2, ErasedIsTyped DEF Strobe, Trigger, FlashInv
<1>4. CASE job.data # <<>>
  <2>1. /\ phase' = "push" /\ "WRITE" \in Lut[job.seq]
        /\ iptx' = <<>>
        /\ write_op' = [addr |-> job.addr, size |-> job.size,
                        to_flash |-> "RADDR" \in Lut[job.seq]]
    <3>1. ipcr.addr = job.addr /\ ipcr.size = job.size /\ ipcr.seq = job.seq
      BY <1>1
    <3>2. phase' = "push" /\ "WRITE" \in Lut[job.seq] /\ iptx' = <<>>
      BY <1>2, <1>4 DEF Strobe, Trigger
    <3>3. write_op' = IF "WRITE" \in Lut[ipcr.seq]
                        THEN [addr |-> ipcr.addr, size |-> ipcr.size,
                              to_flash |-> "RADDR" \in Lut[ipcr.seq]]
                        ELSE None
      BY Zenon DEF Strobe, Trigger
    <3> QED
      BY <3>1, <3>2, <3>3, Zenon
  <2>2. sent * WordBytes = 0 /\ Len(job.data) > 0
    BY <1>1, <1>2, <1>4, EmptySeq, FlashAssumption
  <2>3. LatchOk'
    BY <1>1, <2>1, <2>2, EmptySeq DEF LatchOk, PayloadByte
  <2> QED
    BY <1>1, <1>2, <1>3, <2>1, <2>3 DEF FlashInv, DeviceOk, FlashPhase, CardPhase
<1>5. CASE job.data = <<>>
  <2>1. phase' \in {"pop", "finish"} /\ (phase' = "pop" => "READ" \in Lut[job.seq])
    BY <1>5 DEF Strobe, Has
  <2>2. LatchOk'
    BY <1>1, <1>5, <2>1 DEF LatchOk, Changing
  <2> QED
    BY <1>1, <1>2, <1>3, <2>1, <2>2 DEF FlashInv, DeviceOk, FlashPhase, CardPhase
<1> QED
  BY <1>4, <1>5

LEMMA PushKeepsInv == FlashInv /\ Push => FlashInv'
<1> SUFFICES ASSUME FlashInv, Push PROVE FlashInv'
  OBVIOUS
<1>1. /\ phase = "push" /\ device = "flash" /\ UNCHANGED <<device, job>>
      /\ sent' = sent + 1 /\ sent \in Nat
      /\ "WRITE" \in Lut[job.seq]
      /\ write_op = [addr |-> job.addr, size |-> job.size,
                     to_flash |-> "RADDR" \in Lut[job.seq]]
  BY DEF FlashInv, DeviceOk, LatchOk, Push, Stay, FlashPhase
<1>2. /\ job \in FlashJobs /\ job # None /\ job.addr \in Nat
      /\ job.data \in Seq(Byte) /\ job.size = Len(job.data)
  BY <1>1, JobIsTyped DEF FlashPhase
<1>3. /\ Pushed \in Seq(Byte) /\ Len(Pushed) = sent' * WordBytes
      /\ \A k \in 1 .. Len(Pushed) : Pushed[k] = PayloadByte(k)
  BY <1>1, WordExtendsPayload
<1>4. flash' \in [Cell -> Byte]
  BY <1>1, <1>2, ProgrammedIsTyped DEF Push, PushPayload, FlashInv
<1>5. phase' \in {"push", "finish"}
  BY DEF Push
<1>6. ASSUME phase' = "push" PROVE LatchOk'
  <2>1. sent' * WordBytes < Len(job.data)
    BY <1>1, <1>2, <1>6, FlashAssumption DEF Push
  <2>2. ~(Len(Pushed) >= write_op.size)
    BY <1>1, <1>2, <1>3, <2>1, FlashAssumption
  <2>3. iptx' = Pushed /\ write_op' = write_op
    BY <2>2 DEF Push, PushPayload, Pushed
  <2>4. \A k : PayloadByte(k)' = PayloadByte(k)
    BY <1>1 DEF PayloadByte
  <2> QED
    BY <1>1, <1>3, <1>6, <2>1, <2>3, <2>4 DEF LatchOk
<1>7. ASSUME phase' = "finish" PROVE LatchOk'
  BY <1>7 DEF LatchOk
<1> QED
  BY <1>1, <1>2, <1>4, <1>5, <1>6, <1>7 DEF FlashInv, DeviceOk, FlashPhase, CardPhase

(* All that is left of a transfer that ends or is given up is what the     *)
(* engine holds, and the invariant says nothing of it.                     *)
LEMMA RestKeepsInv == FlashInv /\ Rest => FlashInv'
  BY DEF FlashInv, DeviceOk, LatchOk, Rest, FlashPhase, CardPhase, flexspiVars

LEMMA FlashStepKeepsInv == FlashInv /\ FlashStep => FlashInv'
<1> SUFFICES ASSUME FlashInv, FlashStep PROVE FlashInv'
  OBVIOUS
<1>1. CASE Acknowledge
  BY <1>1 DEF Acknowledge, ClearIntr, Stay, FlashInv, DeviceOk, LatchOk,
              FlashPhase, CardPhase
<1>2. CASE Configure
  BY <1>2 DEF Configure, WriteIpcr, Stay, FlashInv, DeviceOk, LatchOk,
              FlashPhase, CardPhase
<1>3. CASE Strobe
  BY <1>3, StrobeKeepsInv
<1>4. CASE Push
  BY <1>4, PushKeepsInv
<1>5. CASE Pop
  <2>1. /\ phase = "pop" /\ phase' \in {"pop", "finish"}
        /\ UNCHANGED <<flash, device, job, sent>>
    BY <1>5 DEF Pop, PopStaged, Stay
  <2>2. Changing(job)' = Changing(job)
    BY <2>1 DEF Changing
  <2> QED
    BY <2>1, <2>2 DEF FlashInv, DeviceOk, LatchOk, FlashPhase, CardPhase
<1> QED
  BY <1>1, <1>2, <1>3, <1>4, <1>5 DEF FlashStep

LEMMA CardStepKeepsInv ==
  FlashInv /\ CardStep /\ UNCHANGED flexspiVars => FlashInv'
<1> SUFFICES ASSUME FlashInv, CardStep, UNCHANGED flexspiVars PROVE FlashInv'
  OBVIOUS
<1>1. /\ phase \in CardPhase /\ phase' \in CardPhase
      /\ UNCHANGED <<device, job, flash>>
  BY DEF CardStep, Clear, Issue, Respond, ReadPort, WritePort, NextCommand,
         Stay, CardPhase, flexspiVars
<1> QED
  BY <1>1 DEF FlashInv, DeviceOk, LatchOk, FlashPhase, CardPhase

LEMMA InvStep == FlashInv /\ [Next]_vars => FlashInv'
<1> SUFFICES ASSUME FlashInv, [Next]_vars PROVE FlashInv'
  OBVIOUS
<1>1. CASE BeginFlash
  <2>1. phase = "idle"
    BY <1>1 DEF BeginFlash, FlashInv, DeviceOk, FlashPhase, CardPhase
  <2>2. job' \in FlashJobs /\ job' # None
    BY <1>1, JobAssumption DEF BeginFlash
  <2> QED
    BY <1>1, <2>1, <2>2 DEF BeginFlash, flexspiVars, FlashInv, DeviceOk,
                            LatchOk, FlashPhase, CardPhase
<1>2. CASE BeginCard /\ UNCHANGED flexspiVars
  BY <1>2 DEF BeginCard, flexspiVars, FlashInv, DeviceOk, LatchOk,
              FlashPhase, CardPhase
<1>3. CASE DriverStep
  <2>1. CASE FinishFlash \/ FinishCard \/ TimeOut
    BY <2>1, RestKeepsInv DEF FinishFlash, FinishCard, TimeOut
  <2> QED
    BY <1>3, <2>1, FlashStepKeepsInv, CardStepKeepsInv DEF DriverStep
<1>4. CASE GiveUp \/ ChipReset
  BY <1>4, RestKeepsInv DEF GiveUp, ChipReset
<1>5. CASE \/ HostInserts /\ UNCHANGED flexspiVars
           \/ UNCHANGED vars
  <2>1. UNCHANGED <<flash, ipcr, iptx, write_op, device, job, phase, sent>>
    BY <1>5 DEF HostInserts, driverVars, flexspiVars, vars
  <2>2. /\ Changing(job)' = Changing(job)
        /\ \A k : PayloadByte(k)' = PayloadByte(k)
    BY <2>1 DEF Changing, PayloadByte
  <2> QED
    BY <2>1, <2>2 DEF FlashInv, DeviceOk, LatchOk
<1> QED
  BY <1>1, <1>2, <1>3, <1>4, <1>5 DEF Next

(***************************************************************************)
(* Every step is one of the NOR flash, or none                             *)
(***************************************************************************)

LEMMA NorInit == Init => Nor!Init
<1> SUFFICES ASSUME Init PROVE Nor!Init
  OBVIOUS
<1>1. NorRequest = None /\ ~NorServed
  BY DEF Init, NorRequest, NorServed
<1>2. flash = [a \in 0 .. FlashSize - 1 |-> Bits]
  BY DEF Init, FlexSpiInit, Erased, Cell
<1> QED
  BY <1>1, <1>2, Zenon DEF Nor!Init, Nor!Address, NorServed

(* Which request there is follows from device and job.                     *)
LEMMA RequestCases ==
  ASSUME FlashInv
  PROVE  /\ NorRequest = None \/
             (device = "flash" /\ job \in FlashJobs /\ job # None
                /\ Changing(job) /\ NorRequest = NorRequestOf(job)
                /\ NorRequest # None)
         /\ phase \in FlashPhase /\ Changing(job) =>
               NorRequest = NorRequestOf(job) /\ NorRequest # None
  BY RequestAssumption DEF FlashInv, DeviceOk, NorRequest

(* The end of a transfer, early or not, withdraws its request.             *)
LEMMA RestWithdraws == FlashInv /\ Rest => [Nor!Next]_Nor!nor
<1> SUFFICES ASSUME FlashInv, Rest PROVE [Nor!Next]_Nor!nor
  OBVIOUS
<1>1. flash' = flash /\ NorRequest' = None /\ NorServed' = FALSE
  BY DEF Rest, flexspiVars, NorRequest, NorServed
<1>2. CASE NorRequest = None
  <2>1. NorServed = FALSE
    BY <1>2 DEF NorServed
  <2> QED
    BY <1>1, <1>2, <2>1, Zenon DEF Nor!nor
<1>3. CASE NorRequest # None
  BY <1>1, <1>3, Zenon DEF Nor!Next, Nor!Withdraw
<1> QED
  BY <1>2, <1>3

(* What leaves the array, the job and its end alone is a stutter.          *)
LEMMA QuietSteps ==
  ASSUME UNCHANGED <<flash, device, job>>,
         NorRequest = None \/ (phase' = "finish" <=> phase = "finish")
  PROVE  [Nor!Next]_Nor!nor
<1>1. NorRequest' = NorRequest
  BY DEF NorRequest, Changing, NorRequestOf
<1>2. NorServed' = NorServed
  BY <1>1, Zenon DEF NorServed
<1> QED
  BY <1>1, <1>2, Zenon DEF Nor!nor

(* A request is served by the step that gives the array its new contents.  *)
LEMMA ServesRequest ==
  ASSUME FlashInv, phase \in FlashPhase \ {"finish"}, phase' = "finish",
         Changing(job), UNCHANGED <<device, job>>,
         flash' = Nor!After(NorRequestOf(job))
  PROVE  Nor!Serve
<1>1. NorRequest = NorRequestOf(job) /\ NorRequest # None
  BY RequestCases
<1>2. NorRequest' = NorRequest
  BY DEF NorRequest, Changing, NorRequestOf
<1>3. ~NorServed /\ NorServed' = TRUE
  <2>1. ~NorServed
    BY DEF NorServed
  <2>2. NorRequest' # None /\ phase' = "finish"
    BY <1>1, <1>2
  <2> QED
    BY <2>1, <2>2, Zenon DEF NorServed
<1> QED
  BY <1>1, <1>2, <1>3, Zenon DEF Nor!Serve

LEMMA StrobeImplements == FlashInv /\ Strobe => [Nor!Next]_Nor!nor
<1> SUFFICES ASSUME FlashInv, Strobe PROVE [Nor!Next]_Nor!nor
  OBVIOUS
<1>1. /\ phase = "trigger" /\ phase \in FlashPhase \ {"finish"}
      /\ ipcr = [addr |-> job.addr, size |-> job.size, seq |-> job.seq]
      /\ UNCHANGED <<device, job>>
  BY DEF FlashInv, LatchOk, Strobe, Stay, FlashPhase
<1>2. ipcr.addr = job.addr /\ ipcr.seq = job.seq
  BY <1>1
<1>3. flash' = IF Lut[job.seq] = {"RADDR"} THEN SectorErased(job.addr)
                                           ELSE flash
  BY <1>2 DEF Strobe, Trigger
<1>4. /\ job.addr \in 0 .. FlashSize - 1
      /\ "WRITE" \notin Lut[job.seq] => job.data = <<>>
  BY <1>1, JobIsTyped, FlashAssumption
<1>5. CASE Lut[job.seq] = {"RADDR"}
  <2>1. job.data = <<>> /\ phase' = "finish" /\ Changing(job)
    BY <1>4, <1>5 DEF Strobe, Has, Changing
  <2>2. job.addr % FlashSize = job.addr
    BY <1>4, SmallModulus, FlashAssumption
  <2>3. NorRequestOf(job).kind = "erase" /\ NorRequestOf(job).addr = job.addr
    BY <1>5 DEF NorRequestOf
  <2>4. SectorErased(job.addr) = Nor!After(NorRequestOf(job))
    BY <2>2, <2>3 DEF SectorErased, Nor!After, Nor!Address, Cell, Erased
  <2> QED
    BY <1>1, <1>3, <1>5, <2>1, <2>4, ServesRequest DEF Nor!Next
<1>6. CASE Lut[job.seq] # {"RADDR"}
  <2>1. flash' = flash
    BY <1>3, <1>6
  <2>2. NorRequest = None \/ phase' = "push"
    BY <1>6, RequestCases DEF Strobe, Changing
  <2> QED
    BY <1>1, <2>1, <2>2, QuietSteps
<1> QED
  BY <1>5, <1>6

LEMMA PushImplements == FlashInv /\ Push => [Nor!Next]_Nor!nor
<1> SUFFICES ASSUME FlashInv, Push PROVE [Nor!Next]_Nor!nor
  OBVIOUS
<1>1. /\ phase = "push" /\ phase \in FlashPhase \ {"finish"}
      /\ UNCHANGED <<device, job>>
      /\ sent' = sent + 1 /\ sent \in Nat
      /\ sent * WordBytes < Len(job.data)
      /\ "WRITE" \in Lut[job.seq]
      /\ write_op = [addr |-> job.addr, size |-> job.size,
                     to_flash |-> "RADDR" \in Lut[job.seq]]
  BY DEF FlashInv, LatchOk, Push, Stay, FlashPhase
<1>2. /\ job.addr \in Nat /\ job.data \in Seq(Byte)
      /\ job.size = Len(job.data) /\ job.addr + Len(job.data) <= FlashSize
  BY <1>1, JobIsTyped
<1>3. Pushed \in Seq(Byte) /\ Len(Pushed) = sent' * WordBytes
  BY <1>1, WordExtendsPayload
<1>4. write_op.addr = job.addr /\ write_op.size = Len(job.data)
  BY <1>1, <1>2
<1>5. write_op.to_flash <=> "RADDR" \in Lut[job.seq]
  BY <1>1, Zenon
<1>6. CASE sent' * WordBytes < Len(job.data)
  <2>1. ~(Len(Pushed) >= write_op.size)
    BY <1>1, <1>2, <1>3, <1>4, <1>6, FlashAssumption
  <2>2. flash' = flash
    BY <2>1 DEF Push, PushPayload, Pushed
  <2>3. phase' = "push"
    BY <1>1, <1>2, <1>6, FlashAssumption DEF Push
  <2> QED
    BY <1>1, <2>2, <2>3, QuietSteps
<1>7. CASE sent' * WordBytes >= Len(job.data)
  <2>1. Len(Pushed) >= write_op.size /\ write_op # None
    <3>1. Len(Pushed) >= write_op.size
      BY <1>3, <1>4, <1>7
    <3>2. write_op \in WriteOp
      BY <1>1, <1>2 DEF WriteOp
    <3> QED
      BY <3>1, <3>2, FlashAssumption
  <2>2. phase' = "finish"
    BY <1>7 DEF Push
  <2>3. flash' = IF "RADDR" \in Lut[job.seq]
                   THEN Programmed(job.addr, SubSeq(Pushed, 1, Len(job.data)))
                   ELSE flash
    BY <1>4, <1>5, <2>1 DEF Push, PushPayload, Pushed
  <2>4. SubSeq(Pushed, 1, Len(job.data)) = job.data
    BY <1>1, <1>4, <2>1, PayloadIsWhole
  <2>5. CASE "RADDR" \in Lut[job.seq]
    <3>1. Changing(job)
      BY <1>1, <1>2, <2>5, EmptySeq, FlashAssumption DEF Changing
    <3>2. /\ NorRequestOf(job).kind = "program"
          /\ NorRequestOf(job).addr = job.addr
          /\ NorRequestOf(job).data = job.data
      BY <1>1 DEF NorRequestOf
    <3>3. Programmed(job.addr, job.data) =
            [a \in Cell |-> IF a - job.addr \in 0 .. Len(job.data) - 1
                              THEN flash[a] \intersect job.data[a - job.addr + 1]
                              ELSE flash[a]]
      BY <1>2, ProgramIsAnd DEF FlashInv
    <3>4. Programmed(job.addr, job.data) = Nor!After(NorRequestOf(job))
      BY <3>2, <3>3 DEF Nor!After, Nor!Address, Cell
    <3> QED
      BY <1>1, <2>2, <2>3, <2>4, <2>5, <3>1, <3>4, ServesRequest DEF Nor!Next
  <2>6. CASE "RADDR" \notin Lut[job.seq]
    <3>1. flash' = flash
      BY <2>3, <2>6
    <3>2. NorRequest = None
      BY <2>6, RequestCases DEF Changing
    <3> QED
      BY <1>1, <3>1, <3>2, QuietSteps
  <2> QED
    BY <2>5, <2>6
<1> QED
  BY <1>1, <1>2, <1>6, <1>7, FlashAssumption

LEMMA BeginImplements == FlashInv /\ BeginFlash => [Nor!Next]_Nor!nor
<1> SUFFICES ASSUME FlashInv, BeginFlash PROVE [Nor!Next]_Nor!nor
  OBVIOUS
<1>1. /\ device = "flash" /\ device' = device /\ flash' = flash
      /\ job = None /\ job' \in FlashJobs /\ job' # None
      /\ phase' = "configure"
  BY JobAssumption DEF BeginFlash, flexspiVars
<1>2. NorRequest = None /\ NorServed = FALSE
  BY <1>1 DEF NorRequest, NorServed
<1>3. NorServed' = FALSE
  BY <1>1 DEF NorServed
<1>4. CASE Changing(job)'
  <2>1. NorRequest' \in {NorRequestOf(j) : j \in {j \in FlashJobs : Changing(j)}}
    BY <1>1, <1>4 DEF NorRequest, Changing, NorRequestOf
  <2> QED
    BY <1>1, <1>2, <1>3, <2>1, Zenon DEF Nor!Next, Nor!Ask
<1>5. CASE ~Changing(job)'
  <2>1. NorRequest' = None
    BY <1>1, <1>5 DEF NorRequest, Changing
  <2> QED
    BY <1>1, <1>2, <1>3, <2>1, Zenon DEF Nor!nor
<1> QED
  BY <1>4, <1>5

LEMMA StepImplements == FlashInv /\ [Next]_vars => [Nor!Next]_Nor!nor
<1> SUFFICES ASSUME FlashInv, [Next]_vars PROVE [Nor!Next]_Nor!nor
  OBVIOUS
<1>1. CASE BeginFlash
  BY <1>1, BeginImplements
<1>2. CASE \/ BeginCard /\ UNCHANGED flexspiVars
           \/ CardStep /\ UNCHANGED flexspiVars
  <2>1. device = "card" /\ UNCHANGED <<flash, device>>
    BY <1>2 DEF BeginCard, CardStep, Clear, Issue, Respond, ReadPort,
                WritePort, NextCommand, Stay, CardPhase, FlashInv, DeviceOk,
                flexspiVars
  <2>2. NorRequest = None /\ NorRequest' = None
    BY <2>1 DEF NorRequest
  <2>3. NorServed = FALSE /\ NorServed' = FALSE
    BY <2>2 DEF NorServed
  <2> QED
    BY <2>1, <2>2, <2>3, Zenon DEF Nor!nor
<1>3. CASE FlashStep
  <2>1. CASE Strobe
    BY <2>1, StrobeImplements
  <2>2. CASE Push
    BY <2>2, PushImplements
  <2>3. CASE Acknowledge \/ Configure
    <3>1. UNCHANGED <<flash, device, job>> /\ phase # "finish" /\ phase' # "finish"
      BY <2>3 DEF Acknowledge, Configure, ClearIntr, WriteIpcr, Stay
    <3> QED
      BY <3>1, QuietSteps
  <2>4. CASE Pop
    <3>1. UNCHANGED <<flash, device, job>>
      BY <2>4 DEF Pop, PopStaged, Stay
    <3>2. NorRequest = None
      BY <2>4, RequestCases DEF Pop, FlashInv, LatchOk
    <3> QED
      BY <3>1, <3>2, QuietSteps
  <2> QED
    BY <1>3, <2>1, <2>2, <2>3, <2>4 DEF FlashStep
<1>4. CASE FinishFlash \/ FinishCard \/ TimeOut \/ GiveUp \/ ChipReset
  BY <1>4, RestWithdraws DEF FinishFlash, FinishCard, TimeOut, GiveUp, ChipReset
<1>5. CASE \/ HostInserts /\ UNCHANGED flexspiVars
           \/ UNCHANGED vars
  <2>1. UNCHANGED <<flash, device, job, phase>>
    BY <1>5 DEF HostInserts, driverVars, flexspiVars, vars
  <2> QED
    BY <2>1, QuietSteps
<1> QED
  BY <1>1, <1>2, <1>3, <1>4, <1>5 DEF Next, DriverStep

(* FlexSPI with its flash, used as in Storage, is a NOR flash: a program   *)
(* or an erase happens wholly and where it was asked for, or not at all,   *)
(* wherever the driver or a reset cuts it short (IPCMD and IPTXFDR of      *)
(* FlexSpi::write, flexspi_service).                                       *)
THEOREM FlashIsNor == Spec => ImplementsNor
<1>1. Init => FlashInv /\ Nor!Init
  BY FlashInit, NorInit
<1>2. FlashInv /\ [Next]_vars => FlashInv' /\ [Nor!Next]_Nor!nor
  BY InvStep, StepImplements
<1> QED
  BY <1>1, <1>2, PTL DEF Spec, ImplementsNor, Nor!Spec

(***************************************************************************)
(* What a read brings                                                      *)
(***************************************************************************)

(* A read with an address asks for more than what the model of the flash   *)
(* takes for an ID or a status, one without for no more than a status, or  *)
(* for the ID; no sequence both reads and writes.                          *)
ReadsAreTold ==
  \A j \in FlashJobs : "READ" \in Lut[j.seq] =>
    /\ "WRITE" \notin Lut[j.seq]
    /\ IF "RADDR" \in Lut[j.seq]
         THEN j.size > StatusBytes /\ j.size # IdBytes
         ELSE j.size <= StatusBytes \/ j.size = IdBytes

Wanted == ReadBytes(job.addr, job.size)

(* What has been read of it, and what is still staged.                     *)
ReadOk ==
  /\ device = "flash" /\ job = None => got = <<>>
  /\ phase \in {"configure", "address", "trigger"} => got = <<>>
  /\ phase = "pop" =>
       /\ Has("READ")
       /\ got \in Seq(Byte) /\ iprx \in Seq(Byte)
       /\ Len(got) < job.size /\ Len(iprx) = job.size - Len(got)
       /\ \A k \in 1 .. Len(got) : got[k] = Wanted[k]
       /\ \A k \in 1 .. Len(iprx) : iprx[k] = Wanted[Len(got) + k]
  /\ phase = "finish" /\ Has("READ") => got = Wanted

LEMMA CellOfIsCell ==
  ASSUME NEW addr \in Nat, NEW k \in Nat \ {0}
  PROVE  CellOf(addr, k) \in Cell
<1>1. addr + k - 1 \in Nat /\ FlashSize \in Nat \ {0}
  BY FlashAssumption
<1>2. (addr + k - 1) % FlashSize \in 0 .. FlashSize - 1
  BY <1>1, Z3
<1> QED
  BY <1>2 DEF CellOf, Cell

LEMMA ReadBytesAreTyped ==
  ASSUME FlashInv, NEW addr \in Nat, NEW size \in Nat
  PROVE  ReadBytes(addr, size) \in Seq(Byte) /\ Len(ReadBytes(addr, size)) = size
<1>1. CASE size = IdBytes
  BY <1>1, FlashAssumption DEF ReadBytes
<1>2. CASE size # IdBytes
  <2>1. ASSUME NEW k \in 1 .. size
        PROVE  (IF size <= StatusBytes THEN {} ELSE flash[CellOf(addr, k)]) \in Byte
    BY CellOfIsCell DEF FlashInv, Byte
  <2> DEFINE f == [k \in 1 .. size |->
                     IF size <= StatusBytes THEN {} ELSE flash[CellOf(addr, k)]]
  <2>2. f \in [1 .. size -> Byte]
    BY <2>1
  <2>3. ReadBytes(addr, size) = f
    BY <1>2 DEF ReadBytes
  <2> HIDE DEF f
  <2> QED
    BY <2>2, <2>3
<1> QED
  BY <1>1, <1>2

LEMMA SameWanted ==
  ASSUME UNCHANGED <<flash, job>>
  PROVE  Wanted' = Wanted /\ Has("READ")' = Has("READ")
<1>1. \A a, n : ReadBytes(a, n)' = ReadBytes(a, n)
  BY DEF ReadBytes
<1> QED
  BY <1>1 DEF Wanted, Has

LEMMA LeastOfTwo ==
  ASSUME NEW a \in Nat, NEW b \in Nat
  PROVE  /\ Min({a, b}) \in Nat /\ Min({a, b}) <= a /\ Min({a, b}) <= b
         /\ Min({a, b}) \in {a, b}
<1>1. \E x \in {a, b} : \A y \in {a, b} : x <= y
  OBVIOUS
<1> QED
  BY <1>1 DEF Min

(* One word of a read.                                                     *)
LEMMA PopKeepsReads == FlashInv /\ ReadOk /\ Pop => ReadOk'
<1> SUFFICES ASSUME FlashInv, ReadOk, Pop PROVE ReadOk'
  OBVIOUS
<1> DEFINE g   == Len(got)
           r   == Len(iprx)
           all == got \o StagedWord
           m   == Min({Len(all), job.size})
<1>1. /\ phase = "pop" /\ phase \in FlashPhase /\ device = "flash"
      /\ got' = SubSeq(all, 1, m)
      /\ iprx' = SubSeq(iprx, WordBytes + 1, r)
      /\ phase' = IF Len(got') = job.size THEN "finish" ELSE "pop"
      /\ UNCHANGED <<flash, device, job>>
  BY DEF Pop, PopStaged, Stay, FlashPhase, FlashInv, DeviceOk
<1>2. /\ got \in Seq(Byte) /\ iprx \in Seq(Byte) /\ g \in Nat /\ r \in Nat
      /\ g < job.size /\ r = job.size - g
      /\ \A k \in 1 .. g : got[k] = Wanted[k]
      /\ \A k \in 1 .. r : iprx[k] = Wanted[g + k]
      /\ Has("READ")
  BY <1>1, LenProperties DEF ReadOk
<1>3. job.size \in Nat /\ job.addr \in Nat /\ job # None /\ WordBytes \in Nat \ {0}
  BY <1>1, JobIsTyped, FlashAssumption
<1>4. Wanted \in Seq(Byte) /\ Len(Wanted) = job.size /\ Wanted' = Wanted
      /\ Has("READ")' = Has("READ")
  BY <1>1, <1>3, ReadBytesAreTyped, SameWanted DEF Wanted
<1>5. /\ StagedWord \in Seq(Byte) /\ Len(StagedWord) = WordBytes
      /\ \A k \in 1 .. WordBytes :
           StagedWord[k] = IF k <= r THEN iprx[k] ELSE Erased
  <2>1. ASSUME NEW k \in 1 .. WordBytes
        PROVE  (IF k <= r THEN iprx[k] ELSE Erased) \in Byte
    BY <1>2, <1>3, ElementOfSeq DEF Byte, Erased
  <2> QED
    BY <1>3, <2>1 DEF StagedWord
<1> HIDE DEF g, r
<1>6. /\ all \in Seq(Byte) /\ Len(all) = g + WordBytes
      /\ \A k \in 1 .. g : all[k] = got[k]
      /\ \A k \in 1 .. WordBytes : all[g + k] = StagedWord[k]
  <2>1. /\ all \in Seq(Byte) /\ Len(all) = Len(got) + Len(StagedWord)
        /\ \A k \in 1 .. Len(got) + Len(StagedWord) :
             all[k] = IF k <= Len(got) THEN got[k] ELSE StagedWord[k - Len(got)]
    BY <1>2, <1>5, ConcatProperties
  <2> HIDE DEF all
  <2>2. \A k \in 1 .. g + WordBytes : all[k] = IF k <= g THEN got[k] ELSE StagedWord[k - g]
    BY <1>5, <2>1 DEF g
  <2>3. \A k \in 1 .. g : all[k] = got[k]
    BY <1>2, <1>3, <2>2
  <2>4. ASSUME NEW k \in 1 .. WordBytes PROVE all[g + k] = StagedWord[k]
    <3>1. g + k \in 1 .. g + WordBytes /\ ~(g + k <= g) /\ (g + k) - g = k
      BY <1>2, <1>3
    <3> QED
      BY <2>2, <3>1
  <2> QED
    BY <1>5, <2>1, <2>3, <2>4 DEF g
<1> HIDE DEF all
<1>7. m \in Nat /\ m <= g + WordBytes /\ m <= job.size /\ m \in {g + WordBytes, job.size}
  <2>1. g + WordBytes \in Nat
    BY <1>2, <1>3
  <2> QED
    BY <1>3, <1>6, <2>1, LeastOfTwo
<1> HIDE DEF m
<1>8. \A k \in 1 .. m : all[k] \in Byte /\ all[k] = Wanted[k]
  <2> TAKE k \in 1 .. m
  <2>1. all[k] \in Byte
    BY <1>2, <1>3, <1>6, <1>7, ElementOfSeq
  <2>2. CASE k <= g
    BY <1>2, <1>6, <1>7, <2>1, <2>2
  <2>3. CASE ~(k <= g)
    <3>1. PICK i \in 1 .. WordBytes : k = g + i /\ i <= r
      <4>1. k - g \in 1 .. WordBytes /\ k = g + (k - g) /\ k - g <= r
        BY <1>2, <1>3, <1>7, <2>3
      <4> QED
        BY <4>1
    <3>2. all[k] = iprx[i] /\ iprx[i] = Wanted[g + i]
      BY <1>2, <1>5, <1>6, <3>1
    <3> QED
      BY <2>1, <3>1, <3>2
  <2> QED
    BY <2>2, <2>3
<1>9. /\ got' \in Seq(Byte) /\ Len(got') = m
      /\ \A k \in 1 .. m : got'[k] = Wanted[k]
  BY <1>1, <1>7, <1>8, SubSeqProperties
<1>10. ASSUME phase' = "finish" PROVE ReadOk'
  <2>1. m = job.size
    BY <1>1, <1>9, <1>10
  <2>2. got' = Wanted
    BY <1>4, <1>9, <2>1, SeqEqual
  <2> QED
    BY <1>1, <1>3, <1>4, <1>10, <2>2 DEF ReadOk
<1>11. ASSUME phase' = "pop" PROVE ReadOk'
  <2>1. m < job.size /\ m = g + WordBytes
    BY <1>1, <1>3, <1>7, <1>9, <1>11
  <2>2. WordBytes + 1 \in Int /\ WordBytes + 1 <= r /\ r - (WordBytes + 1) + 1 = job.size - m
    BY <1>2, <1>3, <2>1
  <2>3. \A k \in WordBytes + 1 .. r : iprx[k] \in Byte
    BY <1>2, <1>3, ElementOfSeq DEF r
  <2>4. /\ iprx' \in Seq(Byte) /\ Len(iprx') = job.size - m
        /\ \A k \in 1 .. r - (WordBytes + 1) + 1 : iprx'[k] = iprx[(WordBytes + 1) + k - 1]
    BY <1>1, <1>2, <2>2, <2>3, SubSeqProperties
  <2>5. \A k \in 1 .. Len(iprx') : iprx'[k] = Wanted[m + k]
    <3> TAKE k \in 1 .. Len(iprx')
    <3>a. /\ g \in Nat /\ r \in Nat /\ WordBytes \in Nat /\ m = g + WordBytes
          /\ job.size \in Nat /\ r = job.size - g /\ k \in 1 .. job.size - m
      BY <1>2, <1>3, <2>1, <2>4
    <3>1. PICK i \in 1 .. r : i = WordBytes + k /\ g + i = m + k /\ (WordBytes + 1) + k - 1 = i
      <4>1. WordBytes + k \in 1 .. r /\ g + (WordBytes + k) = m + k
        BY <3>a
      <4> QED
        BY <3>a, <4>1
    <3>2. iprx'[k] = iprx[i]
      BY <2>2, <2>4, <3>1
    <3> QED
      BY <1>2, <3>1, <3>2
  <2>6. /\ got' \in Seq(Byte) /\ Len(got') < job.size
        /\ \A k \in 1 .. Len(got') : got'[k] = Wanted[k]
    BY <1>9, <2>1
  <2>7. /\ iprx' \in Seq(Byte) /\ Len(iprx') = job.size - Len(got')
        /\ \A k \in 1 .. Len(iprx') : iprx'[k] = Wanted[Len(got') + k]
    BY <1>9, <2>4, <2>5
  <2>8. Has("READ")'
    BY <1>2, <1>4
  <2> QED
    BY <1>1, <1>3, <1>4, <1>11, <2>6, <2>7, <2>8 DEF ReadOk
<1> QED
  BY <1>1, <1>10, <1>11

LEMMA StrobeKeepsReads ==
  ASSUME ReadsAreTold, FlashInv, ReadOk, Strobe
  PROVE  ReadOk'
<1>1. /\ phase = "trigger" /\ phase \in FlashPhase /\ device = "flash"
      /\ ipcr = [addr |-> job.addr, size |-> job.size, seq |-> job.seq]
      /\ UNCHANGED <<device, job, got>> /\ got = <<>>
  BY DEF FlashInv, DeviceOk, LatchOk, ReadOk, Strobe, Stay, FlashPhase
<1>2. /\ job \in FlashJobs /\ job # None /\ job.size \in Nat /\ job.addr \in Nat
      /\ "WRITE" \notin Lut[job.seq] => job.data = <<>>
  BY <1>1, JobIsTyped
<1>3. phase' \in {"push", "pop", "finish"}
  BY DEF Strobe
<1>4. CASE ~Has("READ")
  BY <1>1, <1>2, <1>3, <1>4 DEF Strobe, ReadOk, Has
<1>5. CASE Has("READ")
  <2>1. "READ" \in Lut[job.seq] /\ "WRITE" \notin Lut[job.seq] /\ job.data = <<>>
    BY <1>2, <1>5 DEF ReadsAreTold, Has
  <2>2. flash' = flash /\ iprx' = Wanted
    <3>1. ipcr.addr = job.addr /\ ipcr.size = job.size /\ ipcr.seq = job.seq
      BY <1>1
    <3>2. Lut[ipcr.seq] # {"RADDR"}
      BY <2>1, <3>1
    <3> QED
      BY <2>1, <3>1, <3>2 DEF Strobe, Trigger, Staged, Wanted
  <2>3. /\ Wanted \in Seq(Byte) /\ Len(Wanted) = job.size
        /\ Wanted' = Wanted /\ Has("READ")'
    BY <1>1, <1>2, <1>5, <2>2, ReadBytesAreTyped, SameWanted DEF Wanted
  <2>4. phase' = IF job.size > 0 THEN "pop" ELSE "finish"
    BY <1>5, <2>1 DEF Strobe
  <2>5. <<>> \in Seq(Byte) /\ Len(<<>>) = 0
    BY EmptySeq
  <2>6. CASE job.size > 0
    <3>1. \A k \in 1 .. Len(Wanted) : Wanted[k] = Wanted[Len(<<>>) + k]
      BY <1>2, <2>3, <2>5
    <3> QED
      BY <1>1, <1>2, <2>2, <2>3, <2>4, <2>5, <2>6, <3>1 DEF ReadOk
  <2>7. CASE ~(job.size > 0)
    <3>1. Wanted = <<>>
      BY <1>2, <2>3, <2>7, EmptySeq
    <3> QED
      BY <1>1, <1>2, <2>3, <2>4, <2>7, <3>1 DEF ReadOk
  <2> QED
    BY <2>6, <2>7
<1> QED
  BY <1>4, <1>5

LEMMA ReadStep ==
  ASSUME ReadsAreTold, FlashInv, ReadOk, [Next]_vars
  PROVE  ReadOk'
<1>1. CASE FlashStep
  <2>1. CASE Acknowledge \/ Configure
    <3>1. /\ phase \in {"configure", "address"} /\ phase' \in {"address", "trigger"}
          /\ UNCHANGED <<device, job, got>>
      BY <2>1 DEF Acknowledge, Configure, Stay
    <3>2. job # None
      BY <3>1 DEF FlashInv, DeviceOk, FlashPhase
    <3> QED
      BY <3>1, <3>2 DEF ReadOk
  <2>2. CASE Strobe
    BY <2>2, StrobeKeepsReads
  <2>3. CASE Push
    <3>1. /\ phase = "push" /\ phase' \in {"push", "finish"}
          /\ UNCHANGED <<device, job, got>>
      BY <2>3 DEF Push, Stay
    <3>2. job \in FlashJobs /\ job # None /\ "WRITE" \in Lut[job.seq]
      BY <3>1, JobIsTyped DEF FlashInv, LatchOk, FlashPhase
    <3>3. ~Has("READ")'
      BY <3>1, <3>2 DEF Has, ReadsAreTold
    <3> QED
      BY <3>1, <3>2, <3>3 DEF ReadOk
  <2>4. CASE Pop
    BY <2>4, PopKeepsReads
  <2> QED
    BY <1>1, <2>1, <2>2, <2>3, <2>4 DEF FlashStep
<1>2. CASE BeginFlash
  BY <1>2, JobAssumption DEF BeginFlash, ReadOk
<1>3. CASE BeginCard \/ CardStep
  <2>1. phase' \in CardPhase /\ device = "card" /\ device' = device
    BY <1>3 DEF BeginCard, CardStep, Clear, Issue, Respond, ReadPort, WritePort,
                NextCommand, Stay, CardPhase, FlashInv, DeviceOk
  <2> QED
    BY <2>1 DEF ReadOk, CardPhase
<1>4. CASE FinishFlash \/ FinishCard \/ TimeOut \/ GiveUp \/ ChipReset
  BY <1>4 DEF FinishFlash, FinishCard, TimeOut, GiveUp, ChipReset, Rest, ReadOk
<1>5. CASE \/ HostInserts /\ UNCHANGED flexspiVars
           \/ UNCHANGED vars
  <2>1. UNCHANGED <<device, job, phase, got, iprx, flash>>
    BY <1>5 DEF HostInserts, driverVars, flexspiVars, vars
  <2>2. Wanted' = Wanted /\ Has("READ")' = Has("READ")
    BY <2>1, SameWanted
  <2> QED
    BY <2>1, <2>2 DEF ReadOk
<1> QED
  BY <1>1, <1>2, <1>3, <1>4, <1>5 DEF Next, DriverStep

LEMMA ReadsMeanCells ==
  ASSUME ReadsAreTold, FlashInv, ReadOk
  PROVE  ReadsReturnCells
<1> SUFFICES ASSUME phase = "finish", Has("READ")
             PROVE  got = IF Has("RADDR")
                            THEN [k \in 1 .. job.size |-> flash[CellOf(job.addr, k)]]
                          ELSE IF job.size = IdBytes THEN Jedec
                          ELSE [k \in 1 .. job.size |-> {}]
  BY DEF ReadsReturnCells
<1>1. got = Wanted
  BY DEF ReadOk
<1>2. job \in FlashJobs /\ job.size \in Nat
  BY JobIsTyped DEF FlashPhase
<1>3. CASE Has("RADDR")
  <2>1. job.size > StatusBytes /\ job.size # IdBytes
    BY <1>2, <1>3 DEF ReadsAreTold, Has
  <2>2. ~(job.size <= StatusBytes)
    BY <1>2, <2>1, FlashAssumption
  <2> QED
    BY <1>1, <1>3, <2>1, <2>2 DEF Wanted, ReadBytes
<1>4. CASE ~Has("RADDR")
  <2>1. job.size <= StatusBytes \/ job.size = IdBytes
    BY <1>2, <1>4 DEF ReadsAreTold, Has
  <2> QED
    BY <1>1, <1>4, <2>1 DEF Wanted, ReadBytes
<1> QED
  BY <1>3, <1>4

(* An IP read that is not taken for a status or an ID brings the cells at  *)
(* its address, all of them, in whole words of the FIFO or not, and none   *)
(* of what an abandoned read left there (FlashOp::Read, stage_rx).         *)
THEOREM ReadsBringCells ==
  ASSUME ReadsAreTold
  PROVE  Spec => []ReadsReturnCells
<1>1. Init => FlashInv /\ ReadOk
  BY FlashInit DEF Init, ReadOk
<1>2. FlashInv /\ ReadOk /\ [Next]_vars => (FlashInv /\ ReadOk)'
  BY InvStep, ReadStep
<1>3. FlashInv /\ ReadOk => ReadsReturnCells
  BY ReadsMeanCells
<1> QED
  BY <1>1, <1>2, <1>3, PTL DEF Spec
=============================================================================
