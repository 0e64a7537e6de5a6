------------------------------ MODULE Storage ------------------------------
(***************************************************************************)
(* The two storage devices under the drivers that use them: the NOR flash  *)
(* behind FlexSPI and the SD card behind USDHC.  They share nothing, so a  *)
(* behaviour is about one of them.                                         *)
(*                                                                         *)
(* The drivers are firmware.  They follow the order the source relies on:  *)
(* configure, trigger, then the FIFO; clear the status, issue, then poll   *)
(* PRES_STATE for the data port.  A transfer may be given up at any of its *)
(* steps, by the driver or by a reset of the chip, which leaves both       *)
(* devices as they are (Rt1060::chip_reset).                               *)
(***************************************************************************)
EXTENDS FlexSpi, Usdhc

CONSTANTS
  FlashJobs,   \* IP commands the flash driver makes, see FlashJob
  CardJobs,    \* transfers the card driver makes, see CardJob
  Startup      \* the identification sequence of the card, a CardJob

VARIABLES
  device,   \* the device this behaviour is about
  job,      \* the transfer in progress, or None
  phase,    \* the driver's next step in it
  cmd,      \* the command of the job, for the card
  sent,     \* words pushed into the FIFO or the port
  got,      \* bytes or words read from it
  ready     \* the card has been identified since the last reset

driverVars == <<device, job, phase, cmd, sent, got, ready>>
vars == <<flexspiVars, usdhcVars, driverVars>>

FlashJob == [seq : DOMAIN Lut, addr : Nat, size : Nat, data : Seq(Byte)]
CardJob  == [commands : Seq(Nat), start : Nat, count : Nat, data : Seq(Word)]

ASSUME JobAssumption ==
  /\ FlashJobs \subseteq FlashJob
  /\ CardJobs \subseteq CardJob /\ Startup \in CardJob
  /\ None \notin FlashJob \union CardJob

(* A write has a payload of its size, split at the end of the flash as the *)
(* page program of a NOR driver is; no other command has a payload.        *)
ASSUME FlashJobAssumption ==
  \A j \in FlashJobs :
    /\ j.addr + Len(j.data) <= FlashSize /\ j.addr < FlashSize
    /\ j.size = Len(j.data) \/ "WRITE" \notin Lut[j.seq]
    /\ j.data = <<>> \/ "WRITE" \in Lut[j.seq]

WriteAt(j, k) == j.commands[k] \in {24, 25}

(* A card transfer has at most one write command, which is no application  *)
(* command and has the blocks it announces as data; every CMD55 announces  *)
(* a command; the identification begins with CMD0 and writes nothing.      *)
ASSUME CardJobAssumption ==
  /\ \A j \in CardJobs \union {Startup} :
       /\ j.commands # <<>> /\ j.commands[Len(j.commands)] # 55
       /\ \A k, l \in DOMAIN j.commands : WriteAt(j, k) /\ WriteAt(j, l) => k = l
       /\ \A k \in DOMAIN j.commands : WriteAt(j, k) =>
            /\ k > 1 => j.commands[k - 1] # 55
            /\ Len(j.data) = BlockCount(j.commands[k], j.count) * BlockWords
  /\ Startup.commands[1] = 0 /\ Startup.data = <<>>

(***************************************************************************)
(* The flash driver                                                        *)
(***************************************************************************)

Has(op) == op \in Lut[job.seq]

(* The payload goes out in whole words, the last one filled up with zeros. *)
PayloadWord ==
  [i \in 1 .. WordBytes |->
     LET k == sent * WordBytes + i
     IN  IF k <= Len(job.data) THEN job.data[k] ELSE {}]

Stay == UNCHANGED <<device, job, cmd, ready>>

BeginFlash ==
  /\ device = "flash" /\ job = None
  /\ job' \in FlashJobs
  /\ phase' = "configure"
  /\ UNCHANGED <<device, cmd, sent, got, ready, flexspiVars>>

Acknowledge ==
  /\ phase = "configure" /\ phase' = "address"
  /\ ClearIntr
  /\ Stay /\ UNCHANGED <<sent, got>>

Configure ==
  /\ phase = "address" /\ phase' = "trigger"
  /\ WriteIpcr(job.addr, job.size, job.seq)
  /\ Stay /\ UNCHANGED <<sent, got>>

Strobe ==
  /\ phase = "trigger"
  /\ Trigger
  /\ phase' = IF job.data # <<>> THEN "push"
              ELSE IF Has("READ") /\ job.size > 0 THEN "pop" ELSE "finish"
  /\ Stay /\ UNCHANGED <<sent, got>>

Push ==
  /\ phase = "push"
  /\ PushPayload(PayloadWord)
  /\ sent' = sent + 1
  /\ phase' = IF sent' * WordBytes >= Len(job.data) THEN "finish" ELSE "push"
  /\ Stay /\ UNCHANGED got

Pop ==
  /\ phase = "pop"
  /\ LET all == got \o StagedWord
     IN  got' = SubSeq(all, 1, Min({Len(all), job.size}))
  /\ PopStaged
  /\ phase' = IF Len(got') = job.size THEN "finish" ELSE "pop"
  /\ Stay /\ UNCHANGED sent

(***************************************************************************)
(* The card driver                                                         *)
(***************************************************************************)

Index == job.commands[cmd]

(* The driver means an application command.                                *)
Announced == cmd > 1 /\ job.commands[cmd - 1] = 55 /\ Index # 55

(* The data it expects of the command.                                     *)
ExpectedAnswer == Response(Index, Announced)
ExpectedData   == ReadData(Index, job.start, Announced, job.count)

BeginCard ==
  /\ device = "card" /\ job = None
  /\ job' \in IF ready THEN CardJobs ELSE {Startup}
  /\ phase' = "clear"
  /\ UNCHANGED <<device, cmd, sent, got, ready, usdhcVars>>

Clear ==
  /\ phase = "clear" /\ phase' = "issue"
  /\ ClearIntStatus
  /\ Stay /\ UNCHANGED <<sent, got>>

(* BLK_ATT, CMD_ARG and CMD_XFR_TYP.                                       *)
Issue ==
  /\ phase = "issue" /\ phase' = "response"
  /\ Dispatch(Index, job.start, job.count) \/ DispatchTimesOut
  /\ got' = <<>>
  /\ Stay /\ UNCHANGED sent

(* CC: an ACMD41 is announced and issued again until the card is ready.    *)
Respond ==
  /\ phase = "response" /\ "CC" \in int_status
  /\ IF Announced /\ Index = 41 /\ resp # "ocr"
       THEN cmd' = cmd - 1 /\ phase' = "clear"
       ELSE /\ phase' = IF ExpectedData # <<>> THEN "read"
                        ELSE IF Index \in {24, 25} /\ ~Announced THEN "write"
                        ELSE "end"
            /\ UNCHANGED cmd
  /\ UNCHANGED <<device, job, ready, sent, got, usdhcVars>>

(* BREN and BWEN of PRES_STATE.                                            *)
ReadPort ==
  /\ phase = "read" /\ rx # <<>>
  /\ got' = Append(got, PortWord)
  /\ PopWord
  /\ phase' = IF Len(got') = Len(ExpectedData) THEN "end" ELSE "read"
  /\ Stay /\ UNCHANGED sent

WritePort ==
  /\ phase = "write" /\ write_blocks_left > 0
  /\ PushWord(job.data[sent + 1])
  /\ sent' = sent + 1
  /\ phase' = IF sent' = Len(job.data) THEN "end" ELSE "write"
  /\ Stay /\ UNCHANGED got

NextCommand ==
  /\ phase = "end" /\ "TC" \in int_status
  /\ cmd < Len(job.commands)
  /\ cmd' = cmd + 1 /\ phase' = "clear"
  /\ UNCHANGED <<device, job, ready, sent, got, usdhcVars>>

(***************************************************************************)
(* The end of a transfer, and what may come in between                     *)
(***************************************************************************)

Rest ==
  /\ job' = None /\ phase' = "idle" /\ cmd' = 1 /\ sent' = 0 /\ got' = <<>>
  /\ UNCHANGED <<device, flexspiVars, usdhcVars>>

FinishFlash ==
  /\ phase = "finish" /\ "IPCMDDONE" \in intr
  /\ Rest /\ UNCHANGED ready

FinishCard ==
  /\ phase = "end" /\ "TC" \in int_status
  /\ cmd = Len(job.commands)
  /\ Rest /\ ready' = TRUE

TimeOut ==
  /\ phase = "response" /\ "CTOE" \in int_status
  /\ Rest /\ ready' = FALSE

(* The driver does not give up between CMD55 and what it announces.        *)
GiveUp ==
  /\ job # None /\ ~app_cmd
  /\ Rest /\ UNCHANGED ready

ChipReset ==
  /\ job # None \/ ready
  /\ Rest /\ ready' = FALSE

(* The host may let a card into the empty port at any time.                *)
HostInserts ==
  /\ device = "card" /\ ~inserted
  /\ Insert(card)
  /\ UNCHANGED driverVars

(***************************************************************************)
(* The specification                                                       *)
(***************************************************************************)

Init ==
  /\ FlexSpiInit /\ UsdhcInit
  /\ device \in {"flash", "card"}
  /\ job = None /\ phase = "idle" /\ cmd = 1 /\ sent = 0 /\ got = <<>>
  /\ ready = FALSE

FlashStep == Acknowledge \/ Configure \/ Strobe \/ Push \/ Pop
CardStep  == Clear \/ Issue \/ Respond \/ ReadPort \/ WritePort \/ NextCommand

DriverStep ==
  \/ FlashStep /\ UNCHANGED usdhcVars
  \/ CardStep /\ UNCHANGED flexspiVars
  \/ FinishFlash \/ FinishCard \/ TimeOut

Next ==
  \/ BeginFlash /\ UNCHANGED usdhcVars
  \/ BeginCard /\ UNCHANGED flexspiVars
  \/ DriverStep
  \/ GiveUp
  \/ ChipReset
  \/ HostInserts /\ UNCHANGED flexspiVars

Spec == Init /\ [][Next]_vars

(* The firmware is executed.                                               *)
FairSpec == Spec /\ WF_vars(DriverStep)

(***************************************************************************)
(* Safety                                                                  *)
(***************************************************************************)

TypeInvariant ==
  /\ FlexSpiTypes /\ UsdhcTypes
  /\ device \in {"flash", "card"}
  /\ job \in FlashJobs \union CardJobs \union {Startup, None}
  /\ sent \in Nat
  /\ got \in Seq(IF device = "flash" THEN Byte ELSE Word)
  /\ ready \in BOOLEAN

(* What an IP read brings into the driver's buffer: the cells at its       *)
(* address, the ID, or a status without WIP; never bytes staged for a      *)
(* command that was given up, and none missing (FlashOp::Read, stage_rx).  *)
ReadsReturnCells ==
  phase = "finish" /\ Has("READ") =>
    got = IF Has("RADDR")
            THEN [k \in 1 .. job.size |-> flash[CellOf(job.addr, k)]]
          ELSE IF job.size = IdBytes THEN Jedec
          ELSE [k \in 1 .. job.size |-> {}]

(* Every command of the card driver is answered for itself: as application *)
(* command exactly if announced, with the blocks, SCR or switch status it  *)
(* asked for, whatever was given up before (app_cmd, rx of dispatch).      *)
AnswersMatchCommands ==
  phase = "end" => resp = ExpectedAnswer /\ got = ExpectedData

(***************************************************************************)
(* The promises to the drivers                                             *)
(***************************************************************************)

Changing(j) ==
  \/ Lut[j.seq] = {"RADDR"}
  \/ {"RADDR", "WRITE"} \subseteq Lut[j.seq] /\ j.data # <<>>

NorRequestOf(j) ==
  [kind |-> IF "WRITE" \in Lut[j.seq] THEN "program" ELSE "erase",
   addr |-> j.addr, data |-> j.data]

NorRequest ==
  IF device = "flash" /\ job # None
    THEN IF Changing(job) THEN NorRequestOf(job) ELSE None
    ELSE None

NorServed == NorRequest # None /\ phase = "finish"

Nor == INSTANCE NorFlash WITH
  Size     <- FlashSize,
  Sector   <- SectorSize,
  Requests <- {NorRequestOf(j) : j \in {j \in FlashJobs : Changing(j)}},
  cells    <- flash,
  request  <- NorRequest,
  served   <- NorServed

StoreRequestOf(j) ==
  [start |-> j.start,
   data  |-> [b \in 1 .. Len(j.data) \div BlockWords |->
                SubSeq(j.data, (b - 1) * BlockWords + 1, b * BlockWords)]]

ASSUME RequestAssumption ==
  /\ \A j \in FlashJobs : NorRequestOf(j) # None
  /\ \A j \in CardJobs : StoreRequestOf(j) # None

StoreRequest ==
  IF device = "card" /\ job # None
    THEN IF job.data # <<>> THEN StoreRequestOf(job) ELSE None
    ELSE None

Card == INSTANCE BlockStore WITH
  Size     <- Blocks,
  Empty    <- [w \in 1 .. BlockWords |-> Zero],
  Requests <- {StoreRequestOf(j) : j \in {j \in CardJobs : j.data # <<>>}},
  blocks   <- card,
  request  <- StoreRequest,
  stored   <- IF StoreRequest = None THEN 0 ELSE sent \div BlockWords

(* A program or an erase takes effect wholly, where it was asked for, when *)
(* the driver is through with it, or never: a payload cut short by a reset *)
(* or by the next command programs nothing (write_op and tx of FlexSpi).   *)
ImplementsNor == Nor!Spec

(* The words of a write reach the blocks it was asked for, in order, and   *)
(* those of one given up half-way mix with no other (wx of Usdhc).         *)
ImplementsCard == Card!Spec

(***************************************************************************)
(* Liveness                                                                *)
(***************************************************************************)

(* No driver waits for ever: IPCMDDONE, CC, TC, BREN and BWEN come, or the *)
(* command times out because there is no card.                             *)
TransfersFinish == job # None ~> job = None
=============================================================================
