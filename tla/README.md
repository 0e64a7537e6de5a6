# rt1060-rs in TLA+

Specifications of the i.MX RT1060 emulator in `src/`: an Armv7E-M core, the
peripherals around it, and the SoC that steps them. The modules are written from
the Rust code; where the code and a comment of it disagree the modules follow
the code and a run shows the disagreement.

## The system

`Rt1060::step` (`src/src/rt1060.rs`) is the heart of the emulator: it lets
`CortexM7::step` execute one instruction, then advances the clock domains and
their timers, serves the eDMA, and feeds SysTick's external clock. Everything
runs in one thread. What makes the code hard is not threads but the order in
which many small state machines advance each other within a step, across steps,
and across what the firmware and the host do in between.

| part | state | operations | hard behaviour |
|---|---|---|---|
| Exceptions, NVIC (`cortex_m/mod.rs`) | IPSR, two stacks, EXC_RETURN, masks, enables, pending bits, priorities | preemption decision, entry, return, register writes, SVC, reset | nesting, tail-chaining, masks and priorities that move between request and entry |
| Instruction execution (`cortex_m/*.rs`) | registers, flags, IT state, decoded operations | decode, fast path, interpreter | two executors of one instruction set, IT blocks across exceptions |
| SysTick | CSR, RVR, CVR, PENDST | tick by step or by batch | the batch is a closed form of the step |
| Clock domains (`peripherals/mod.rs`, `rt1060.rs`) | frequencies, fractional carries | `tick`, `tick_systick_external`, `refresh_clocks` | integer division, clock changes |
| PIT, GPT, QTMR | counters, prescalers, flags | `tick`, register writes | batches spanning several periods, chaining, reconfiguring a running timer |
| eDMA, DMAMUX (`edma.rs`, `memory/mod.rs`) | TCDs, ERQ, INT, CHCFG | service pass, minor and major loop, links, scatter-gather | passes interleave with register writes, requests and arriving bytes |
| LPUART | FIFO, output, CTRL, BAUD | DATA access, host input | FIFO shared by firmware, eDMA and host |
| FlexSPI and NOR | LUT, latched write, staged data | IP commands, program, erase, read | payload arrives after its command |
| USDHC and card | responses, read queue, outstanding write blocks | SD commands, data port | command sequences, missing card |
| LPI2C, LPSPI, GPIO, FlexCAN, ADC | FIFOs, flags, message buffers | register accesses, attached devices, host side | flag races, transaction sequences, answers of a host that come later |
| Bus-event trace (`peripherals/mod.rs`) | events of register writes | recorded by a write, taken by the host | the host acts on writes long past |
| SRC, WDOG, boot, loader | reset cause, memories | `chip_reset`, `load_image`, cold boots | what survives a reset |
| GDB stub (`gdb/mod.rs`) | packet buffers, breakpoints | RSP packets, continue, step | interrupt byte against stop replies |
| PWM, SAI, USB, SEMC, CCM, analog, IOMUXC | register files | read-back, self-clearing strobes | little |

The parts interact by calls only. A peripheral write by an instruction goes
through `SystemBus::periph_write` and may start an eDMA pass or a flash
operation before it returns; interrupt lines are sampled at the start of the
next step; the host calls `push_console_input`, `Peripherals::tick` and the
setters of single devices between steps.

`PROJECT.json` lists every component with what is modelled of it, and the
hazards: what can go wrong in this code that a unit test would hardly reach,
each at its line with the properties that would catch it.

## Modules

### Exceptions

`ExceptionNesting` is the promise: a tower of handler activations above a
thread; entering and leaving a handler leaves the registers of all others alone,
and only a handler may pick another thread. `Exceptions` is the code: one action
per phase of `CortexM7::step` (`CompleteReturn`, `Preempt`, then one of the
instructions) plus `ChipReset`, with the frames on the main and process stacks,
the EXC_RETURN values, the masks and the NVIC registers. Priorities are the
bytes of SHPR and IPR. `Tower` and `ThreadRegs` are the refinement mapping.

The firmware is the environment. A run picks the instruction classes it may use
(`Repertoire`), and `Disciplined` says whether it keeps two rules of the
architecture that the emulator does not enforce: SVC only where SVCall may
preempt (there is no escalation to HardFault), and no priority of an active
exception rewritten. R0-R3, R12, PC, APSR and ITSTATE are saved and restored
together and are one value.

### Edma with LpUart

`LpUart` is the device: receive FIFO, transmitted bytes, CTRL, BAUD and the two
DMA request levels. `Edma` composes it with the engine and the DMAMUX: `Visit`,
`MoveUnit`, `EndMinorLoop`, `EndMajorLoop` and `EndPass` are `Edma::service` and
`run_channel`, the "software" pass is the one a write into the eDMA window
triggers, the "hardware" pass the one each step ends with. A transfer is one
bus read and one bus write on RAM or the LPUART. `MCEdma` holds the firmwares: a
receive-copy-transmit chain by links, the same with scatter-gather between two
halves, two channels with DREQ, software-started copies, and a zero count. `Unit`,
`Turns`, `Descriptors`, `Steady` and `Footprint` say how far a descriptor reaches,
for what the theorems assume of a program (`AlignedCopy`, `Receives`,
`ReceivesBlocks`, `Transmits`, `Echoes`); `ProgramAssumption` of `MCEdma` has TLC
confirm them of the firmwares it runs. Bytes the host sends are numbered, so order and loss are visible.

### Timers

`Pit`, `Gpt`, `Qtmr` and `SysTickTimer` are the four timers; each operation is
its register write or its tick. A counter's closed-form or batched advance is
translated as the code computes it. `Timers` is the step of the SoC around them:
the clock domains with their carries, a batch passed by a host, a change of the
clock tree, a chip reset, and a firmware that uses one of the timers. History
variables count the ticks by the arithmetic of the reference manual, one
position in the period per timer; `PitKeepsTime`, `GptKeepsTime`,
`QtmrKeepsTime` and `SysTickKeepsTime` compare the two. A position is `Unknown`
while no law says what the counter shows (for example after LDVAL was rewritten
under a running channel), and known again after the next restart.

### Storage with FlexSpi and Usdhc

`NorFlash` and `BlockStore` are the promises: a NOR flash whose program or erase
takes effect wholly or never, and a card whose blocks are stored one by one, in
order. `FlexSpi` is the IP command engine (latched write, staged bytes, the
flash itself), `Usdhc` the command dispatch, the card's answers and the data
port. A flash operation happens within the register write that starts it, as
`SystemBus::periph_write` calls `flexspi_service` before it returns. `Storage`
adds the two drivers: each step of one is one access to the device. A transfer
may be given up between any two of them, by the driver or by `chip_reset`, which
leaves both devices as they are; the card driver alone never stops between CMD55
and the command it announces. A card may be absent and inserted at any time. The
devices share nothing, so the initial state picks the one a behaviour is about.
A byte is the set of its bits that are 1: programming intersects.
`NorRequest`, `NorServed` and `StoreRequest` are the refinement mappings.

### Machine with Thumb, Decoded and Alu

`Words` and `Alu` are the arithmetic: add with carry, shifts, the lanes of the
parallel operations, saturation, fields, multiplication and division, on words
of `W` bits in four bytes (or lanes) of `W / 4`. `Thumb` is the interpreter
(`exec_narrow` and its wide counterpart in `wide.rs`), one operator per group of
forms; `Decoded` is `decode_narrow`, `decode_wide` and `exec_decoded`, the fast
path; an instruction is a record of the fields of its encoding. `Machine` is
`CortexM7::step` over both: a queued return, the interrupt, then the fast path
or, inside an IT block, the interpreter with the slot's condition. One interrupt
line stands for the requests of `Exceptions`.

Two promises are stated independently of the code. `Reference` says what the
result and flags of each form are, in exact integers and per lane;
`ResultsMatchReference` compares. `Program` is a program as its author reads it:
each instruction of an IT block listed with its condition, one after another,
and what an interrupt changes invisible; `ImplementsProgram` is the refinement,
under `Visible(Context)`, the context the program will see again.

`tests.rs` compares the fast path with the interpreter, but clears IT state on
both sides and so runs the fast path twice (`decoded_matches_raw_executor`); and
the module comment of `decoded.rs` (lines 9-11) speaks of a cache in the bus
that the code does not have: operations are decoded at every fetch.

### Gdb

The server of `gdb/mod.rs` between a client and the machine: packets with their
checksum as items, damaged or not, acknowledgements, a breakpoint as a write of
code, a step, a continue in chunks of `Chunk` instructions with a look at the
socket between two of them, and the interrupt byte, which may cross a stop. The
client is external: it sends one command, waits for its answer, and sends a
command again when asked to. `MCSession` holds the instances: every form alone
and in an IT block over corner operands, a program with IT blocks of one to four
slots, a call and critical sections under two interrupts, and a loop under a
debugger.

### Devices: Wiring, Inputs and Mailboxes

`Lpi2c`, `Lpspi`, `Adc`, `Gpio` and `FlexCan` are the controllers as operators
on records, one per register access or host call. Three modules put them under
drivers, which are external:

- `Wiring`: one transaction at a time on I2C, SPI or the ADC, as the sequence of
  register writes a driver makes; it takes the words due by the interrupt line
  or the DMA request, and may give up with a reset of the controller. At the
  other end are attached devices, or an embedding host: it learns of START, RX,
  of words and of chip selects from the bus-event trace, takes the trace at any
  later moment, and answers with `rx_push` and `set_nack`. `plan` is what the
  transaction should bring and leave.
- `Inputs`: firmware that follows the levels of GPIO inputs by their interrupts:
  sample ISR, acknowledge, look. Pins are masked and turned round meanwhile, and
  GPIO6 to GPIO9 share a line.
- `Mailboxes`: a CAN driver arms buffers, leaves freeze mode, reads, clears and
  arms again; the host is the other node, loopback is on or off.

The three share nothing: `Devices` composes them with an initial choice.

## Runs

| run | asks |
|---|---|
| nesting | Do handlers nest by urgency, is no request lost, and does nothing urgent wait, under every mix of masks, enables and priorities? |
| threads | Does every return find its frame, with thread switches, SVC and resets; do stacks implement the tower? |
| liveness | Are urgent requests served, do towers unwind, is PendSV run? |
| machine | Does a program execute as its text says, whatever path executes it, whatever interrupts it and whatever a debugger does; do results mean what the instructions mean; does an interrupt byte stop the target? |
| transfers | Are all bytes moved once, in place and in order, and is everything started served? |
| backward_link (violation) | Is a START set by a link to a lower channel served? Not when the request mask is empty. |
| widths (violation) | Does a copy move NBYTES bytes when its widths differ? It does not. |
| timers | Do counters, flags and carries follow the ticks, in any batch, and do timers keep firing? |
| clock_change (violation) | Does SysTick follow the wall clock across clock changes? A stale carry adds ticks. |
| storage | Do the engines with their drivers implement a NOR flash and a block store, whatever is given up half-way; does data of one transfer get into another; does every transfer end? |
| short_read (violation) | Does an addressed read of few bytes return the flash's cells? It returns zeros, or the ID. |
| devices | Do transactions bring what the devices hold, are edges and frames neither lost nor doubled, is everything that waits served? |

Bounds. *nesting*: two interrupts, SysTick, PendSV and SVC on three priority
writes; tower depth follows from the priorities, and every pair of urgencies
and masks occurs. *threads*: two threads, one interrupt, two register values,
which tell a register of one context from another's. *MaxFrames* limits only an
undisciplined firmware. *machine*: words of 8 bits with bytes of two: every
carry, overflow, saturation and shift by 0 or by the width has an operand that
meets it, with C and V both ways; addresses are words too, so code, stack and
vector lie in 256 bytes. An IT condition is tried under all sixteen flags and
inside a program with every length of block; `MaxSteps` five commands of the
client (plant, continue, remove, step, continue) with one damaged packet and one
interrupt byte per continue. *transfers*: three channels (a chain has three
links), blocks of two bytes, six bytes sent: a ring wraps and both
scatter-gather descriptors are used more than once; CITER is two bits wide, so
its wrap-around is reached. *timers*: clocks of 4 and 1 Hz with a PERCLK of 3
and 1 Hz stand for the ratios of the real ones: a remainder occurs in both
directions and a slow core sees several ticks per cycle; GPT and QTMR counters
have 3 and 4 values, LDVAL and RVR are 0 or 2, divisors 1 or 3, batches 1 or 3,
and the clock tree changes once (`MaxRetunes`): every wrap, batch-over-a-wrap
and chained timeout occurs within these. *storage*: a flash of two sectors of
two bytes with FIFO words of two bytes and one bit per byte, so that a payload
of three bytes needs two words and its last one is padded, a program crosses a
sector, an erase starts inside one, and bits are programmed over bits already
cleared; a card of two blocks of two words, with single and multiple transfers,
some of which run past its end. The IDs and status data of the card have one
word or three, and one transfer announces its length with ACMD23. The addressed
reads of *storage* are longer than a status poll;
the short ones are what *short_read* is about. *devices*: two register files of
two bytes and an address nobody answers, transactions with repeated START,
pointer wrap-around and discarded bytes; two chip selects with answers that run
out; two slots of the ADC on one input or two; three GPIO ports, one with a line
per half and two on the shared line, a pin in each half, one by EDGE_SEL and one
by ICR, three edges and one change by the firmware (`MaxMoves`, `MaxTurns`);
four CAN buffers of which IFLAG1 covers three, two received in and one sent
from, two frames each way.

Where the runs stop short of something that does not hold:

- A breakpoint inside an IT block consumes the slot of the instruction it
  replaced: the server rewinds PC (`gdb/mod.rs:295`), the step has advanced
  ITSTATE. With `Plantable = {136}` *machine* finds `ImplementsProgram` violated;
  the run plants at 138, behind the block.
- An interrupt byte that crosses a stop is answered by a second stop reply;
  afterwards a packet can be in the buffer while the target runs, and an
  interrupt byte behind it is not seen, as the poll looks at the first byte only
  (`gdb/mod.rs:310`). `InterruptStopsTarget` is about a byte that is first.
- `execution_priority` reads IPSR only, where its comment speaks of the
  architecture's `ExecutionPriority()` over all active exceptions
  (`mod.rs:676`-`680`); `NestedUrgency` is about a disciplined firmware.
- At equal priority SysTick (15) is entered before PendSV (14), though the
  comment at `mod.rs:716` gives ties to the lowest exception number.
- A nack the host finds only after the firmware has gone on hits the next
  transaction: `Wiring` gives up, and looks at NDF for the last time, once the
  host has taken the trace. A GPIO level that is held does not assert again
  after an acknowledgement, so `InputsAreFollowed` demands an interrupt for the
  edge. A CAN frame is accepted while the module is frozen.

Fairness. Of the emulator only that its run loop keeps stepping: `WF` of the
phases of a step. In `Exceptions` the liveness run also assumes of the firmware
that a handler reaches its return and that critical sections end (strong
fairness of the return, of clearing BASEPRI, and of clearing PRIMASK while
BASEPRI is 0); without it a firmware that loops in a handler starves everything,
on the silicon too. `Edma` and `Timers` assume nothing of host or firmware; what
a firmware must keep configured is stated in the properties. In `Storage` the
driver is executed (`WF` of `DriverStep`): it is code on the core the run loop
steps. A card may stay absent for ever, then commands time out. In `Devices` the
drivers are executed in the same way, and the host takes the trace between the
batches it runs (`WF` of `Serves`). In `Gdb` the server's thread runs and the
client reads what it is sent; a target that runs needs no interrupt to be fair,
as a chunk is finite.

## Proofs

`Exceptions_proofs`, `Edma_proofs`, `Timers_proofs`, `Counters_proofs` (PIT, GPT,
QTMR), `Storage_proofs` (flash), `Card_proofs` and `Devices_proofs` hold for all
values of the constants that satisfy the assumptions of the modules.
`Induction_proofs` has what several of them rest on: the library's induction
theorems take an operator and cannot be instantiated, so induction is stated for
sets of numbers. `LeastNumber` (a set of naturals has a least element) follows
from the theorem that an injection of a finite set into itself is onto;
`UpToTheBound` is induction up to a bound; `ChainExists` gives a function defined
by recursion over `0 .. n`, without which nothing could be said of the `LET`
functions of `PitInputs` and `CntrRun`.

Exceptions. The hypothesis of all but `HandlersNestByUrgency` is
`HandlersStayOnMain`: a disciplined firmware, or one without MSR CONTROL.

- `FramesAreInOrder` and `TypesAreKept`: `FrameDiscipline` and `TypeInvariant`.
  `CoreInv` is inductive because a frame records the EXC_RETURN its entry left in
  LR: `HandlersAreLinked` ties each frame to the one beneath it,
  `ThreadsAreParked` to the process stacks. `EntryKeepsStacks` and
  `ReturnKeepsStacks` are the two lemmas; all other steps leave stacks alone.
- `HandlersNestByUrgency`: `NestedUrgency` for a disciplined firmware, by
  `UrgencyInv`, which adds to `CoreInv` that no active priority is rewritten.
- `DecisionsAreComplete`: `NothingUrgentWaits`. `SomeCandidateIsBest` shows that
  the scan picks a least request; `DecisionStep` that one entry, after which the
  taken exception's own priority is the bar, leaves none that outranks it.
- `RequestsAreKept`: the action property `RequestsSurvive`, action by action:
  the entry clears the pending bit of what it enters and of nothing else.
- `StacksImplementTower`: the refinement `ImplementsNesting`. `TowerHasShape`
  says how the levels of the tower lie on the two stacks (at most the lowest
  frame of the main stack is a thread's); with it an entry pushes one level, a
  return pops one, and a tail-chained return followed by an entry is two steps
  of the abstract machine at the two ends of a decision.

eDMA. The theorems hold for any number of channels, any descriptors in RAM and
any set of programs that is well-formed (`SetupAssumption`). What a program must
be for a theorem to be about it is an operator of `Edma`; TLC evaluates
`GuardAssumption` in every run and the hypotheses of the other theorems, for all
programs of *transfers*, as `ProgramAssumption`.

- `EdmaTypesAreKept`: `TypeInvariant`. `TypeInv` adds that the locals of
  `run_channel` live inside a pass only and the sampled levels inside a hardware
  pass, and that the FIFO holds no more than the host has sent.
- `BuffersAreRespected`: `GuardsIntact`, for descriptors that wind their
  addresses back at the end of the major loop (`Steady`) and whose buffers avoid
  the guards. `LineInv` is the invariant all transfers rest on: each descriptor
  is one of those scatter-gather reaches from the programmed one, some whole
  minor loops later (`Along`), and `run_channel` is some turns further
  (`UnderWay`). `TurnOfTheLine` gives the address of every turn from it,
  `MajorLoopWindsBack` that the major loop ends where it began. The guards
  themselves would not be inductive: they say nothing of where a channel is.
- `CopiesComplete`: `CopiesAreComplete` if both sides have one width
  (`AlignedCopy`; the run `widths` shows what happens otherwise). `CopyLine` adds
  that all below the current destination address has been copied.
- `RingIsExact`: `RingHoldsLatest` if the channel alone reads the FIFO, its
  descriptors follow one another around the ring and nobody links to it
  (`Receives`). `RingInv` adds that the place of the next byte is the number of
  bytes received, modulo the ring (`RemaindersGrow`, `RemaindersDiffer`), and
  that a sampled request still finds a byte when its channel is visited
  (`OnRequest`): nothing else empties the FIFO in between, and a channel is
  visited once per pass.
- `CompleteBlocksAreAnnounced` and `OneShotsStop`: `BlocksAreAnnounced` and the
  action property `OneShotStopsOnBlock`, if each major loop is a block
  (`ReceivesBlocks`) and all descriptors have INTMAJOR or DREQ. `BlockInv` counts:
  what was received is a number of complete blocks and what CITER has counted of
  the one in hand; those the handler has not seen stand in INT.
- `OutputIsExact`: `OutputIsInOrder`, if a program that transmits has one channel
  that writes to the LPUART and nobody writes its buffer (`Transmits`), and one
  that echoes has a receiving channel that links up to a copying one and that to
  a sending one, with no other channel ever started (`Echoes`). A pass leaves the
  chain half done between any two of its steps, so the invariant says where it
  can be (`EchoInv`): all complete blocks are sent and nobody is started
  (`Echoed`), the last one is still in the ring and the copying channel is started
  or at it (`Copying`), or the last one is in the buffer and the sending channel is
  started or at it (`Sending`). Ascending numbers make the pass that ends a block
  visit the other two (`LinkPending`), so at the next instruction it is `Echoed`;
  `RingInv` says that the block in the ring is the received one (`BlockInTheRing`),
  and `Copying` that the buffer has it up to where the channel is. The run `backward_link` shows what happens if a number descends.

Timers.

- `CarriesAreExact`: `TicksFollowClock` for all frequencies and batches.
  `ClockInv` adds the types and that a carry is below one tick;
  `MeterIsExact` is the arithmetic, from division with remainder (`DivMod`).
- `SysTickIsExact`: `SysTickKeepsTime` for every RVR. `SysInv` adds that a
  position lies in the period and that RVR is not zero while there is one.
  `BatchFollowsPosition` says that the closed form of `systick_advance` is the
  position moved on modulo RVR + 1; `MovesKeepSysInv` carries flags along.
- `PitIsExact`: `PitKeepsTime`. `PitInv` adds that a position lies in its period
  (`PitWithinPeriod`) and that an enabled chained channel whose own position is
  known has a clock whose position is known (`PitClocksAreKnown`): that is why
  the law forgets the channels above one that was rewritten while it ran. The
  two recursions over the chain, the code's and the law's, are compared channel
  by channel (`InputsFollowTheChain`, `DueFollowsTheChain`, `ClocksAgree`).
- `GptIsExact`: `GptKeepsTime`. `PrescaledBatch` splits a batch over prescaler
  and counter, `PositionsPassed` says that the compares and rollovers the code
  computes from the counter alone are the positions of the history it passes,
  in a batch longer than the period too.
- `QtmrIsExact`: `QtmrKeepsTime`. The values between two reloads are numbered
  (`Shown`, around the ring of the counter's width when LOAD is above COMP1);
  `ShownIsExact` says that one step shows the next of them, `RunFollowsThePeriod`
  that k steps show the k-th, `ValuesLeft` that the prescaled position leaves
  the value of COMP1 as often as the counter steps on from it.
- `TimerTypesAreKept`: `TypeInvariant`, from the invariants above.

Storage.

- `FlashIsNor`: `ImplementsNor` for every size of flash, sector and FIFO word,
  every LUT and all jobs. `FlashInv` is inductive: the engine's registers hold
  what the driver of the job in hand wrote (`DeviceOk`), and while it pushes, the
  latched write is that job's and its bytes are a prefix of the payload
  (`LatchOk`). What a job given up leaves latched therefore never reaches the
  flash: the next trigger replaces it. `WordExtendsPayload` and `PayloadIsWhole`
  show that the padded words add up to the payload; `StrobeImplements` and
  `PushImplements` are the two steps that may change a cell. It needs
  `FlashJobAssumption`: the driver splits its payloads at the end of the array.
- `ReadsBringCells`: `ReadsReturnCells`, by `ReadOk`: while a job's read is
  drained, what it has and what the FIFO still holds are together the cells it
  asked for. A read no longer than a status poll would be answered with the
  status (`flexspi.rs` tells them by the length): that is the finding of the run
  `short_read`, and the theorem's hypothesis `ReadsAreTold` excludes it.
- `CommandsAreAnswered`: `AnswersMatchCommands`, by `CardInv`: once the card has
  taken a command its response is there, and what the driver has and what the
  port holds are together the data it asked for (`AnswerOk`); APP_CMD is set
  exactly if the driver has just announced an application command
  (`AnnouncementOk`): the driver does not give up between the two, and after a
  reset in between, which the card does not notice, CMD0 comes first.
- `CardIsBlockStore`: `ImplementsCard`, from the same invariant: the words sent
  are whole blocks in the card and a partial block in the port (`WriteOk`), so a
  step of the port is a step of `BlockStore` exactly if it fills the block.
  Both need `CardJobAssumption`: a transfer has at most one write command, with
  the blocks it announces as data, and a CMD55 announces a command.
- `StorageTypesAreKept`: `TypeInvariant` of both engines and both drivers.

Devices.

- `InputsKeepUp`: `InputsAreFollowed` for all ports, pins, triggers and moves.
  `InputsInv` adds that the registers hold pins and that EDGE_SEL and ICR are
  what the set-up made them. `EdgesLatch` shows that a change of level the
  firmware watches for latches its interrupt; in `InputsStep` the
  acknowledgement clears only what was sampled, and those pins are about to be
  looked at.
- `MailboxesKeepFrames`: `FramesAreKept` for any number of buffers and any
  frames. `MailboxInv` adds that only receive buffers are armed and that a flag
  of theirs stands for a frame (`BuffersOk`), where the handler is and that the
  buffer in its hands keeps its frame until it is armed again (`ServingOk`), and
  that no frame waits twice. It needs that no two flags share a bit
  (`BufferAssumption`); `WidthAssumption` says that powers of two are positive,
  which the provers do not know.
- `DevicesAreTyped`: `TypeInvariant` for all benches and transactions of the right
  form (`WiringAssumption`; `WordAssumption` is what the provers do not know of
  powers). `WiringTyped` says what controllers, devices, the trace and the writes
  left are made of; a trace is not empty only where a host takes it.
- `DriversGetTheAnswers`: `AnswersMatchPeers` for the same, with attached devices
  or a host, by interrupts or DMA. When the driver looks, everything has
  arrived; before that an answer can be in `got`, in a FIFO, or not even computed,
  as the host has yet to take the trace. So the invariants speak of what the
  driver *will* see: the controller and the devices as the host would leave them
  if it took the trace now (`I2cSeen`, `SpiSeen`). A write then changes that view
  as it would change the state of an attached device (`SeenActs`, `LocalIsAct`,
  `HostServesIsAct`), the host's taking of the trace leaves it alone
  (`SeenServed`, `HostKeepsSeen`), and a byte taken moves from it to `got`
  (`SeenQueued`). `AnswersInv` is inductive and has one part per kind:
  - `Quiet`: the controllers of the other kinds have nothing to say, so a bench
    makes the steps of its kind only (`StepsOfKinds`).
  - `AdcInv`: what was taken is the beginning of the plan, and a result that waits
    in its slot is the next of it.
  - `SpiInv`: the driver is some writes into its transfer, what was and will be
    taken are the replies up to there, the device has the rest, and the host sees
    low exactly the pin that is driven.
  - `I2cInv`: a run of the writes that are left, from what was and will be taken,
    ends in the answer of the plan and in its devices (`I2cRunning`); after a nack
    only the STOP is left and the plan says so too (`I2cStopping`). That the writes
    of a transaction do what its plan says is `PlanIsRun`: byte by byte within a
    segment (`SegmentRun`, `ReadSegment`, `WriteSegment`), segment by segment
    (`RunFollowsPlan`), with nothing after the nack of an absent device
    (`PlanWithNack`).

  `TransactionAssumption` has two parts. A driver behind a trace learns of a nack
  when the host has taken it, so an address may be absent in its last segment
  only; and a conversion overwrites a result that was not read, so the slots of a
  transaction differ. Both are what a driver of this emulator must observe, not
  what the controllers enforce.

Only model-checked: liveness (fairness is out of the prover's reach);
`ImplementsProgram` and all of `Machine` and `Gdb`, as `Alu` uses the bit
operations of the community modules, which no module with a theorem may reach.

## Not modelled

The FPU and the test assembler are computation without interleaving and are
tested instruction by instruction in the crate; of the integer instructions TT,
the special registers other than PRIMASK, and forms whose definition repeats
another's. The register arithmetic of `clocks.rs` enters as the set `Clocks`.
Logging changes nothing. Register files with read-back (PWM, SAI, USB, SEMC,
IOMUXC) have no step that depends on another. Of the storage devices:
reprogramming of the LUT, FLEXSPI2 (no flash behind it), replacing a card by
another, and the contents of CID and CSD. Of the serial devices: the calibration of
the ADC, and CAN buffers beyond IFLAG1. Of the debugger: queries and reads, which change nothing, and the
end of a session. Parsing of images is parsing of bytes.

`load_image` into a SoC that has run is not an action. `CortexM7::reset` clears
SP, PC, IPSR, ITSTATE and the stack selection only (`mod.rs:359`-`366`), so the
enables, the masks and a queued EXC_RETURN of the old program meet the new one,
though the comment at `rt1060.rs:151` promises power-on defaults of the
peripherals; a model with that action has no invariant of frames to keep.

## Plan

Done: Exceptions, Edma with LpUart, Timers, Storage, Machine with Gdb, Devices.

Left: `Boot`, the two cold boots and `chip_reset` over memories, with `SRC` and
`WDOG`, as far as a promise can be found that the code keeps.

Seen while reading, not shown by a run: a FlexSPI block erase clears one 4 KiB
sector only (`flexspi.rs:190`, `memory/mod.rs:239`); `chip_reset` reports a
power-on reset in SRSR whatever the cause (`rt1060.rs:301`).
