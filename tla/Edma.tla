-------------------------------- MODULE Edma --------------------------------
(***************************************************************************)
(* The eDMA engine of src/src/peripherals/edma.rs, serviced through the    *)
(* system bus of src/src/memory/mod.rs, with the DMAMUX and one LPUART.    *)
(*                                                                         *)
(* A step of the SoC (Rt1060::step) is one instruction of the firmware,    *)
(* followed at once by a service pass when it wrote into the eDMA window   *)
(* (edma_service), and then by a pass for the hardware requests            *)
(* (edma_service_hw).  A pass visits the channels upwards; the model takes *)
(* one action per visit, per transfer of the minor loop and per end of the *)
(* loop.  Nothing interleaves inside a step; the host pushes received      *)
(* bytes between two steps.                                                *)
(*                                                                         *)
(* During a pass the engine is swapped out of the bus, so a channel that   *)
(* reads or writes the eDMA window itself meets an idle engine that is     *)
(* thrown away afterwards; no descriptor here addresses it.                *)
(***************************************************************************)
EXTENDS LpUart, FiniteSets, FiniteSetsExt, TLC

CONSTANTS
  MaxChannel,   \* channels are 0 .. MaxChannel (31 in the RT1062)
  CiterMask,    \* largest value of the 15-bit CITER and BITER
  RamSize,      \* bytes of RAM the descriptors address
  Stored,       \* descriptors in RAM: address -> TCD
  Setups,       \* what the firmware may program, see Program
  MaxPushed     \* bound: bytes the host sends, and bytes transmitted from
                \*   which on the firmware enables no request any more

VARIABLES
  tcd,       \* the transfer control descriptor of every channel
  erq,       \* ERQ: channels with hardware requests enabled
  int_req,   \* INT: channels with an interrupt request
  chcfg,     \* DMAMUX: the request source each enabled channel listens to
  mem,       \* RAM, a byte per address
  phase,     \* "cpu", "software" and "hardware" pass, "tick" between them
  at,        \* the next channel the pass visits
  requests,  \* request levels the hardware pass sampled
  run,       \* locals of run_channel, or Idle
  setup,     \* what the firmware has programmed, or None
  pushed,    \* bytes the host has sent: byte k has the value k
  handled    \* completed blocks the firmware's handler has seen

engineVars == <<tcd, erq, int_req>>
passVars   == <<phase, at, requests, run>>
driverVars == <<setup, pushed, handled, chcfg>>
vars == <<uartVars, engineVars, passVars, driverVars, mem>>

Channel == 0 .. MaxChannel
Ram     == 0 .. RamSize - 1

(* Bus addresses: RAM, the DATA register of the LPUART, and unmapped ones. *)
UartData == -1
Address  == Int

(* DMAMUX request sources of LPUART1; any other source reads low.          *)
Source == {"LPUART1_RX", "LPUART1_TX", "None"}

CsrBit == {"START", "INTMAJOR", "DREQ", "ESG", "MAJORELINK", "DONE"}

Width == {1, 2, 4}

EmptyTcd ==
  [saddr |-> 0, soff |-> 0, ssize |-> 1, slast |-> 0, nbytes |-> 0,
   daddr |-> 0, doff |-> 0, dsize |-> 1, dlast |-> 0,
   citer |-> 0, biter |-> 0, csr |-> {}, linkch |-> 0]

None == "none"
Idle == [ch |-> -1, saddr |-> 0, daddr |-> 0, moved |-> 0]

Byte == 0 .. 255

Tcd ==
  [saddr : Int, soff : Int, ssize : Width, slast : Int, nbytes : Nat,
   daddr : Int, doff : Int, dsize : Width, dlast : Int,
   citer : 0 .. CiterMask, biter : 0 .. CiterMask,
   csr : SUBSET CsrBit, linkch : Channel]

ASSUME SizeAssumption == MaxChannel \in Nat /\ CiterMask \in Nat \ {0}
                           /\ RamSize \in Nat /\ MaxPushed \in Byte
ASSUME StoredAssumption == \A a \in DOMAIN Stored : Stored[a] \in Tcd

(* What a program sets up: descriptors, request sources and memory.        *)
IsSetup(s) ==
  /\ s.name # None
  /\ DOMAIN s.tcd \subseteq Channel /\ \A c \in DOMAIN s.tcd : s.tcd[c] \in Tcd
  /\ DOMAIN s.mux \subseteq Channel /\ \A c \in DOMAIN s.mux : s.mux[c] \in Source
  /\ \A a \in DOMAIN s.mem : s.mem[a] \in Byte
  /\ s.baud \subseteq BaudBits /\ s.starts \subseteq Channel /\ s.guards \subseteq Ram
  /\ s.block \in Nat \ {0} /\ {s.copy, s.ring} \subseteq Nat /\ {s.from, s.to} \subseteq Ram

ASSUME SetupAssumption ==
  /\ \A s \in Setups : IsSetup(s)
  /\ \A r, s \in Setups : r.name = s.name => r = s

TypeInvariant ==
  /\ ctrl \subseteq CtrlBits /\ baud \subseteq BaudBits
  /\ rx \in Seq(Byte) /\ out \in Seq(Byte)
  /\ tcd \in [Channel -> Tcd]
  /\ erq \subseteq Channel /\ int_req \subseteq Channel
  /\ chcfg \in [Channel -> Source]
  /\ mem \in [Ram -> Byte]
  /\ phase \in {"cpu", "software", "tick", "hardware"}
  /\ at \in 0 .. MaxChannel + 1
  /\ requests \subseteq Channel
  /\ run \in [ch : Channel \union {-1}, saddr : Int, daddr : Int, moved : Nat]
  /\ pushed \in 0 .. MaxPushed /\ handled \in 0 .. MaxPushed

(* The bytes that one turn of the minor loop counts, and its turns.        *)
Unit(t)  == Max({t.ssize, t.dsize})
Turns(t) == (t.nbytes + Unit(t) - 1) \div Unit(t)

(* The descriptor that DLAST_SGA points at; memory elsewhere is zero.      *)
Loaded(t) == IF t.dlast \in DOMAIN Stored THEN Stored[t.dlast] ELSE EmptyTcd

(* The descriptor of a program for a channel.                              *)
TcdOf(s, c) == IF c \in DOMAIN s.tcd THEN s.tcd[c] ELSE EmptyTcd

(* Every descriptor the channel ever holds: what scatter-gather reaches    *)
(* from the one it is programmed with.                                     *)
Descriptors(s, c) ==
  LET all    == {TcdOf(s, c), EmptyTcd} \union {Stored[a] : a \in DOMAIN Stored}
      closed == {D \in SUBSET all :
                   /\ TcdOf(s, c) \in D
                   /\ \A o \in D : "ESG" \in o.csr => Loaded(o) \in D}
  IN  {o \in all : \A D \in closed : o \in D}

(* A descriptor whose major loop begins at its start and winds both        *)
(* addresses back at its end, and the bytes it writes in between.          *)
Steady(t) ==
  t.nbytes > 0 =>
    /\ t.citer = t.biter /\ t.biter > 0
    /\ "ESG" \notin t.csr =>
         /\ t.slast = - (t.biter * Turns(t) * t.soff)
         /\ t.dlast = - (t.biter * Turns(t) * t.doff)

Footprint(t) ==
  {t.daddr + j * t.doff + i :
     j \in 0 .. t.biter * Turns(t) - 1, i \in 0 .. t.dsize - 1}

(* The guards of a program are bytes that no descriptor's buffer contains. *)
ASSUME GuardAssumption ==
  \A s \in Setups : s.guards # {} =>
    \A c \in Channel : \A o \in Descriptors(s, c) :
      Steady(o) /\ Footprint(o) \intersect s.guards = {}

(* A program that copies: the channels it starts move as many bytes in a   *)
(* turn as they step on, from one block to another that is apart from it,  *)
(* and no other channel writes to either.                                  *)
AlignedCopy(s) ==
  LET source == s.from .. s.from + s.copy - 1
      target == s.to .. s.to + s.copy - 1
  IN  s.copy > 0 =>
        /\ source \union target \subseteq Ram /\ source \intersect target = {}
        /\ \A c \in s.starts :
             LET o == TcdOf(s, c)
             IN  /\ {"ESG", "DONE"} \intersect o.csr = {}
                 /\ o.saddr = s.from /\ o.daddr = s.to
                 /\ {o.soff, o.doff, o.dsize} = {o.ssize}
                 /\ o.nbytes > 0 /\ o.nbytes % o.ssize = 0
                 /\ s.copy = o.biter * o.nbytes
        /\ \A c \in Channel : \A o \in Descriptors(s, c) :
             /\ Steady(o)
             /\ c \notin s.starts => Footprint(o) \intersect (source \union target) = {}

(* A program whose channel c receives: it alone reads the FIFO, a byte at  *)
(* each request and nothing else starts it; its descriptors follow one     *)
(* another around a ring at address 0 that no other channel writes to.     *)
Receives(s, c) ==
  /\ c \in Channel /\ s.receive = {c} /\ c \notin s.starts
  /\ c \in DOMAIN s.mux /\ s.mux[c] = "LPUART1_RX"
  /\ s.ring \in 1 .. RamSize /\ TcdOf(s, c).daddr = 0
  /\ \A o \in Descriptors(s, c) :
       /\ o.ssize = 1 /\ o.dsize = 1 /\ o.nbytes = 1
       /\ o.saddr = UartData /\ o.soff = 0 /\ o.doff = 1
       /\ o.daddr \in Nat /\ o.daddr + o.biter <= s.ring
       /\ (o.daddr + o.biter) % s.ring =
            IF "ESG" \in o.csr THEN Loaded(o).daddr ELSE o.daddr
       /\ "START" \notin o.csr
  /\ \A d \in Channel : \A o \in Descriptors(s, d) :
       /\ Steady(o)
       /\ "MAJORELINK" \in o.csr => o.linkch # c
       /\ d # c => /\ \A j \in 0 .. o.biter * Turns(o) - 1 : o.saddr + j * o.soff # UartData
                   /\ Footprint(o) \intersect (0 .. s.ring - 1) = {}

(* A major loop of the receiving channel is a block.                       *)
ReceivesBlocks(s, c) ==
  Receives(s, c) /\ \A o \in Descriptors(s, c) : o.biter = s.block

(* The descriptor sends a block of the buffer at b, byte by byte.          *)
Sends(o, s, b) ==
  /\ o.ssize = 1 /\ o.dsize = 1 /\ o.soff = 1 /\ o.doff = 0
  /\ o.saddr = b /\ o.daddr = UartData /\ o.nbytes > 0 /\ o.biter * o.nbytes = s.block

(* A program whose channel t transmits: it alone writes to the LPUART, and *)
(* nobody writes to its buffer.                                            *)
Transmits(s, t) ==
  LET buffer == s.from .. s.from + s.block - 1
  IN  /\ t \in Channel /\ s.transmit = {t} /\ buffer \subseteq Ram
      /\ \A o \in Descriptors(s, t) : Sends(o, s, s.from)
      /\ \A d \in Channel : \A o \in Descriptors(s, d) :
           /\ Steady(o)
           /\ d # t => /\ \A j \in 0 .. o.biter * Turns(o) - 1 : o.daddr + j * o.doff # UartData
                       /\ Footprint(o) \intersect buffer = {}

(* A program that echoes: the receiving channel c links to k, which copies *)
(* the block out of the ring to the buffer at b, and k links to t, which   *)
(* sends it; the numbers of the channels ascend and no other one ever runs.*)
Echoes(s, c, k, t, b) ==
  /\ ReceivesBlocks(s, c) /\ s.starts = {} /\ DOMAIN s.mux = {c}
  /\ {k, t} \subseteq Channel /\ c < k /\ k < t
  /\ b \in Ram /\ b >= s.ring /\ b + s.block <= RamSize
  /\ \A o \in Descriptors(s, c) : "MAJORELINK" \in o.csr /\ o.linkch = k
  /\ TcdOf(s, k).saddr = 0
  /\ \A o \in Descriptors(s, k) :
       /\ {o.soff, o.doff, o.dsize} = {o.ssize} /\ s.block % o.ssize = 0
       /\ o.nbytes = s.block /\ o.biter = 1 /\ o.daddr = b
       /\ o.saddr \in Nat /\ o.saddr + s.block <= s.ring
       /\ (o.saddr + s.block) % s.ring =
            IF "ESG" \in o.csr THEN Loaded(o).saddr ELSE o.saddr
       /\ "MAJORELINK" \in o.csr /\ o.linkch = t
  /\ \A o \in Descriptors(s, t) : Sends(o, s, b) /\ o.biter = 1 /\ "MAJORELINK" \notin o.csr
  /\ \A d \in Channel : \A o \in Descriptors(s, d) : "START" \notin o.csr

(***************************************************************************)
(* The bus: a value is its four bytes, the lowest first                    *)
(***************************************************************************)

Zero == [i \in 0 .. 3 |-> 0]

BusValue(addr, width) ==
  IF addr = UartData THEN [Zero EXCEPT ![0] = DataValue]
  ELSE [i \in 0 .. 3 |->
          IF i < width /\ addr + i \in Ram THEN mem[addr + i] ELSE 0]

(* A read and a write of one transfer: their effect on RAM and the LPUART. *)
Transfer(t, saddr, daddr) ==
  LET value == BusValue(saddr, t.ssize)
  IN  /\ rx' = IF saddr = UartData THEN RxAfterRead ELSE rx
      /\ out' = IF daddr = UartData THEN OutAfterWrite(value[0]) ELSE out
      /\ mem' = [a \in Ram |->
                   IF daddr # UartData /\ a - daddr \in 0 .. t.dsize - 1
                     THEN value[a - daddr] ELSE mem[a]]
      /\ UNCHANGED <<ctrl, baud>>

(***************************************************************************)
(* A service pass                                                          *)
(***************************************************************************)

InPass == phase \in {"software", "hardware"}

(* Mutant of Due: the hardware pass looks at requests only.                *)
DueByRequestInHardware(c) ==
  \/ phase = "software" /\ "START" \in tcd[c].csr
  \/ phase = "hardware" /\ c \in erq /\ c \in requests

(* The test of service: a pending software START, or an enabled request.   *)
Due(c) ==
  \/ "START" \in tcd[c].csr
  \/ phase = "hardware" /\ c \in erq /\ c \in requests

(* service visits a channel that is due: START and DONE are cleared and    *)
(* the minor loop begins.  A channel at or below one already visited has   *)
(* to wait for another pass.                                               *)
Visit ==
  /\ InPass /\ run = Idle
  /\ \E c \in at .. MaxChannel :
       /\ Due(c) /\ \A d \in at .. c - 1 : ~Due(d)
       /\ tcd' = [tcd EXCEPT ![c].csr = @ \ {"START", "DONE"}]
       /\ run' = [ch |-> c, saddr |-> tcd[c].saddr,
                  daddr |-> tcd[c].daddr, moved |-> 0]
       /\ at' = c + 1
  /\ UNCHANGED <<uartVars, erq, int_req, phase, requests, driverVars, mem>>

(* Mutant of MoveUnit: the minor loop counts transfers, not bytes.         *)
MoveUnitCountsTransfers ==
  LET t == tcd[run.ch]
  IN  /\ run # Idle
      /\ run.moved < t.nbytes
      /\ Transfer(t, run.saddr, run.daddr)
      /\ run' = [run EXCEPT !.saddr = @ + t.soff,
                            !.daddr = @ + t.doff,
                            !.moved = @ + 1]
      /\ UNCHANGED <<engineVars, phase, at, requests, driverVars>>

(* One turn of the minor loop: a read, a write and both offsets.           *)
MoveUnit ==
  LET t == tcd[run.ch]
  IN  /\ run # Idle
      /\ run.moved < t.nbytes
      /\ Transfer(t, run.saddr, run.daddr)
      /\ run' = [run EXCEPT !.saddr = @ + t.soff,
                            !.daddr = @ + t.doff,
                            !.moved = @ + Unit(t)]
      /\ UNCHANGED <<engineVars, phase, at, requests, driverVars>>

MinorLoopDone == run # Idle /\ run.moved >= tcd[run.ch].nbytes

(* Mutant of NextCiter: the count is not wrapped.                          *)
NextCiterUnwrapped(citer) == citer - 1

(* citer.wrapping_sub(1) of the masked field: 0 becomes the largest count. *)
NextCiter(citer) == IF citer = 0 THEN CiterMask ELSE citer - 1

(* Mutant of EndMinorLoop: every minor loop reports DONE.                  *)
EndMinorLoopReportsDone ==
  LET c == run.ch
      n == NextCiter(tcd[c].citer)
  IN  /\ MinorLoopDone
      /\ n # 0
      /\ tcd' = [tcd EXCEPT ![c].saddr = run.saddr,
                            ![c].daddr = run.daddr,
                            ![c].citer = n,
                            ![c].csr = @ \union {"DONE"}]
      /\ run' = Idle
      /\ UNCHANGED <<uartVars, erq, int_req, phase, at, requests,
                     driverVars, mem>>

(* The major loop goes on: addresses and CITER are written back.           *)
EndMinorLoop ==
  LET c == run.ch
      n == NextCiter(tcd[c].citer)
  IN  /\ MinorLoopDone
      /\ n # 0
      /\ tcd' = [tcd EXCEPT ![c].saddr = run.saddr,
                            ![c].daddr = run.daddr,
                            ![c].citer = n]
      /\ run' = Idle
      /\ UNCHANGED <<uartVars, erq, int_req, phase, at, requests,
                     driverVars, mem>>

(* Mutant of Reloaded: SLAST and DLAST are not applied.                    *)
ReloadedInPlace(c) ==
  LET t == tcd[c]
  IN  IF "ESG" \in t.csr
        THEN Loaded(t)
        ELSE [t EXCEPT !.saddr = run.saddr,
                       !.daddr = run.daddr,
                       !.citer = t.biter,
                       !.csr = @ \union {"DONE"}]

(* What the channel's descriptor becomes when its major loop is complete:  *)
(* the stored one DLAST_SGA points at, or itself wound back and DONE.  The *)
(* CSR written back is the one read before the link.                       *)
Reloaded(c) ==
  LET t == tcd[c]
  IN  IF "ESG" \in t.csr
        THEN Loaded(t)
        ELSE [t EXCEPT !.saddr = run.saddr + t.slast,
                       !.daddr = run.daddr + t.dlast,
                       !.citer = t.biter,
                       !.csr = @ \union {"DONE"}]

(* Mutant of EndMajorLoop: scatter-gather returns before the interrupt.    *)
EndMajorLoopSilentOnEsg ==
  LET c == run.ch
      t == tcd[c]
      linked == IF "MAJORELINK" \in t.csr
                  THEN [tcd EXCEPT ![t.linkch].csr = @ \union {"START"}]
                  ELSE tcd
  IN  /\ MinorLoopDone
      /\ NextCiter(t.citer) = 0
      /\ int_req' = IF "INTMAJOR" \in t.csr /\ "ESG" \notin t.csr
                      THEN int_req \union {c} ELSE int_req
      /\ erq' = IF "DREQ" \in t.csr THEN erq \ {c} ELSE erq
      /\ tcd' = [linked EXCEPT ![c] = Reloaded(c)]
      /\ run' = Idle
      /\ UNCHANGED <<uartVars, phase, at, requests, driverVars, mem>>

(* Mutant of EndMajorLoop: DREQ does not disable the request.              *)
EndMajorLoopKeepsRequest ==
  LET c == run.ch
      t == tcd[c]
      linked == IF "MAJORELINK" \in t.csr
                  THEN [tcd EXCEPT ![t.linkch].csr = @ \union {"START"}]
                  ELSE tcd
  IN  /\ MinorLoopDone
      /\ NextCiter(t.citer) = 0
      /\ int_req' = IF "INTMAJOR" \in t.csr
                      THEN int_req \union {c} ELSE int_req
      /\ tcd' = [linked EXCEPT ![c] = Reloaded(c)]
      /\ run' = Idle
      /\ UNCHANGED <<uartVars, erq, phase, at, requests, driverVars, mem>>

(* The major loop is complete: interrupt, request disable, link, reload.   *)
EndMajorLoop ==
  LET c == run.ch
      t == tcd[c]
      linked == IF "MAJORELINK" \in t.csr
                  THEN [tcd EXCEPT ![t.linkch].csr = @ \union {"START"}]
                  ELSE tcd
  IN  /\ MinorLoopDone
      /\ NextCiter(t.citer) = 0
      /\ int_req' = IF "INTMAJOR" \in t.csr
                      THEN int_req \union {c} ELSE int_req
      /\ erq' = IF "DREQ" \in t.csr THEN erq \ {c} ELSE erq
      /\ tcd' = [linked EXCEPT ![c] = Reloaded(c)]
      /\ run' = Idle
      /\ UNCHANGED <<uartVars, phase, at, requests, driverVars, mem>>

(* No channel is left to visit.                                            *)
EndPass ==
  /\ InPass /\ run = Idle
  /\ \A c \in at .. MaxChannel : ~Due(c)
  /\ phase' = IF phase = "software" THEN "tick" ELSE "cpu"
  /\ at' = 0
  /\ requests' = {}
  /\ UNCHANGED <<uartVars, engineVars, run, driverVars, mem>>

(* dma_request_level of the source DMAMUX routes to the channel.           *)
RequestLevel(c) ==
  \/ chcfg[c] = "LPUART1_RX" /\ DmaRxRequest
  \/ chcfg[c] = "LPUART1_TX" /\ DmaTxRequest

(* edma_service_hw, at the end of the step: nothing unless a request is    *)
(* enabled; the levels are sampled once for the whole pass.                *)
Tick ==
  /\ phase = "tick"
  /\ IF erq = {}
       THEN phase' = "cpu" /\ UNCHANGED requests
       ELSE /\ phase' = "hardware"
            /\ requests' = {c \in Channel : RequestLevel(c)}
  /\ UNCHANGED <<uartVars, engineVars, at, run, driverVars, mem>>

(***************************************************************************)
(* The firmware and the host                                               *)
(***************************************************************************)

(* The rest of an instruction that does, or does not, write a register of  *)
(* the eDMA window.                                                        *)
WritesEdma ==
  /\ phase = "cpu" /\ phase' = "software"
  /\ UNCHANGED <<at, requests, run>>

LeavesEdma ==
  /\ phase = "cpu" /\ phase' = "tick"
  /\ UNCHANGED <<at, requests, run>>

OtherInstruction ==
  /\ LeavesEdma
  /\ UNCHANGED <<uartVars, engineVars, driverVars, mem>>

(* The firmware sets up its transfers: RAM, the LPUART, DMAMUX, and the    *)
(* descriptors word by word, CSR last.  No START is pending meanwhile, so  *)
(* only the pass after the last write has anything to do.                  *)
Program(s) ==
  /\ WritesEdma
  /\ setup = None
  /\ setup' = s.name
  /\ tcd' = [c \in Channel |-> TcdOf(s, c)]
  /\ chcfg' = [c \in Channel |->
                 IF c \in DOMAIN s.mux THEN s.mux[c] ELSE "None"]
  /\ mem' = [a \in Ram |-> IF a \in DOMAIN s.mem THEN s.mem[a] ELSE 0]
  /\ ctrl' = {"TE"} /\ baud' = s.baud
  /\ UNCHANGED <<rx, out, erq, int_req, pushed, handled>>

(* The program in use: channels the firmware enables and starts.           *)
InUse(s) == setup = s.name

(* SERQ and CERQ.                                                          *)
SetErq(s) ==
  /\ WritesEdma
  /\ InUse(s)
  /\ Len(out) < MaxPushed
  /\ \E c \in DOMAIN s.mux : erq' = erq \union {c}
  /\ UNCHANGED <<uartVars, tcd, int_req, driverVars, mem>>

ClearErq(s) ==
  /\ WritesEdma
  /\ InUse(s)
  /\ \E c \in DOMAIN s.mux : erq' = erq \ {c}
  /\ UNCHANGED <<uartVars, tcd, int_req, driverVars, mem>>

(* SSRT of one channel.                                                    *)
Ssrt(s) ==
  /\ WritesEdma
  /\ InUse(s)
  /\ \E c \in s.starts : tcd' = [tcd EXCEPT ![c].csr = @ \union {"START"}]
  /\ UNCHANGED <<uartVars, erq, int_req, driverVars, mem>>

(* Bytes the channels have taken from the receive FIFO, and the blocks of  *)
(* s they make up.                                                         *)
Received  == pushed - Len(rx)
Blocks(s) == Received \div s.block

(* The handler acknowledges its channel (CINT, or W1C of INT) and takes    *)
(* note of the blocks that are complete.                                   *)
Acknowledge(s) ==
  /\ WritesEdma
  /\ InUse(s)
  /\ \E c \in int_req :
       /\ int_req' = int_req \ {c}
       /\ handled' = IF c \in s.receive THEN Blocks(s) ELSE handled
  /\ UNCHANGED <<uartVars, tcd, erq, setup, pushed, chcfg, mem>>

(* The firmware turns the LPUART's DMA requests off and on.                *)
ToggleUartDma(s) ==
  /\ LeavesEdma
  /\ InUse(s)
  /\ baud' \in {{}, s.baud}
  /\ UNCHANGED <<ctrl, rx, out, engineVars, driverVars, mem>>

(* The host sends the next byte.                                           *)
HostPush ==
  /\ phase = "cpu"
  /\ pushed < MaxPushed
  /\ RxPush(pushed + 1)
  /\ pushed' = pushed + 1
  /\ UNCHANGED <<engineVars, passVars, setup, handled, chcfg, mem>>

Instruction ==
  \/ OtherInstruction
  \/ \E s \in Setups :
       \/ Program(s)
       \/ SetErq(s)
       \/ ClearErq(s)
       \/ Ssrt(s)
       \/ Acknowledge(s)
       \/ ToggleUartDma(s)

Pass ==
  \/ Visit
  \/ MoveUnit
  \/ EndMinorLoop
  \/ EndMajorLoop
  \/ EndPass

Init ==
  /\ UartInit
  /\ tcd = [c \in Channel |-> EmptyTcd]
  /\ erq = {} /\ int_req = {}
  /\ chcfg = [c \in Channel |-> "None"]
  /\ mem = [a \in Ram |-> 0]
  /\ phase = "cpu" /\ at = 0 /\ requests = {} /\ run = Idle
  /\ setup = None /\ pushed = 0 /\ handled = 0

Next == HostPush \/ Instruction \/ Pass \/ Tick

Spec == Init /\ [][Next]_vars

(* The run loop keeps stepping: an instruction follows another, and the    *)
(* pass in between ends.  Nothing is assumed of the host, nor of which     *)
(* instructions the firmware executes.                                     *)
FairSpec == Spec /\ WF_vars(Instruction) /\ WF_vars(Pass) /\ WF_vars(Tick)

(***************************************************************************)
(* Safety, at the instruction boundary                                     *)
(***************************************************************************)

AtRest == phase = "cpu"

(* Every byte the host sent is, once, in the FIFO or at its place in the   *)
(* ring of the receiving channel, whatever the firmware enables, disables  *)
(* and acknowledges in between, across the end of major loops and across   *)
(* scatter-gather (run_channel's write-back, reload and TCD load).         *)
RingHoldsLatest ==
  \A s \in Setups : InUse(s) =>
    \A k \in 1 .. Received :
      Received - k < s.ring => mem[(k - 1) % s.ring] = k

(* No transfer writes outside the buffers its descriptors name, however    *)
(* many blocks, restarts and reloads: addresses never drift (SLAST, DLAST, *)
(* CITER of run_channel).                                                  *)
GuardsIntact ==
  \A s \in Setups : InUse(s) =>
    \A a \in s.guards :
      mem[a] = IF a \in DOMAIN s.mem THEN s.mem[a] ELSE 0

(* What is sent is whole blocks, in order.  A chain of links (receive,      *)
(* copy, transmit) runs to its end in the pass that completes its first    *)
(* channel: at every instruction the host has got back exactly the         *)
(* complete blocks, none mixed or repeated.  A transmitting channel sends  *)
(* its buffer over and over, however often the firmware stops and restarts *)
(* it (service, run_channel's link, reload and write-back).                *)
OutputIsInOrder ==
  \A s \in Setups : InUse(s) =>
    /\ s.echo /\ AtRest => out = [k \in 1 .. Blocks(s) * s.block |-> k]
    /\ s.transmit # {} =>
         \A k \in DOMAIN out : out[k] = mem[s.from + ((k - 1) % s.block)]

(* A channel with DREQ stops on a block boundary: it is disabled there and *)
(* takes no further byte before the firmware enables it again.             *)
OneShotStopsOnBlock ==
  [][ \A s \in Setups : InUse(s) /\ s.oneshot =>
        \A c \in s.receive :
          /\ Received' # Received => c \in erq
          /\ c \in erq /\ c \notin erq' /\ phase # "cpu" =>
               Received % s.block = 0
          /\ run.ch = c /\ run' = Idle /\ Received % s.block = 0 =>
               c \notin erq' ]_vars

(* No completed block goes unannounced: unless the handler has seen the    *)
(* latest one, the channel's interrupt request stands (INTMAJOR before     *)
(* the scatter-gather return; requests merge, they are not lost).          *)
BlocksAreAnnounced ==
  \A s \in Setups :
    InUse(s) /\ s.announced /\ AtRest /\ handled < Blocks(s) =>
      \E c \in s.receive : c \in int_req

(* When a memory copy reports DONE its whole block is at the destination.  *)
CopiesAreComplete ==
  \A s \in Setups : InUse(s) /\ AtRest =>
    \A c \in s.starts : "DONE" \in tcd[c].csr =>
      \A i \in 0 .. s.copy - 1 : mem[s.to + i] = mem[s.from + i]

(***************************************************************************)
(* Liveness                                                                *)
(***************************************************************************)

(* A byte that waits is moved, as long as the receiving channel and the    *)
(* LPUART's request stay enabled.                                          *)
BytesAreMoved ==
  \A s \in Setups : \A c \in s.receive :
    <>[](InUse(s) /\ c \in erq /\ "RDMAE" \in baud) => []<>(rx = <<>>)

(* A START, set by the firmware or by a link, is served in the end.        *)
EveryStartIsServed ==
  \A c \in Channel :
    "START" \in tcd[c].csr ~> "START" \notin tcd[c].csr
=============================================================================
