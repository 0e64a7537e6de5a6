------------------------------ MODULE FlexSpi ------------------------------
(***************************************************************************)
(* The IP command engine of src/src/peripherals/flexspi.rs with the NOR    *)
(* flash behind it (flexspi_service in src/src/memory/mod.rs).  The bus    *)
(* serves the operation a register write staged before the write returns,  *)
(* so both are one action here.                                            *)
(*                                                                         *)
(* A byte is the set of its bits that are 1.  The flash, its sectors, the  *)
(* FIFO words and the two special read sizes are parameters.               *)
(***************************************************************************)
EXTENDS Integers, Sequences

CONSTANTS
  Bits,         \* the bits of a byte
  FlashSize,    \* bytes of flash (16 MiB)
  SectorSize,   \* bytes an erase restores (4 KiB)
  WordBytes,    \* bytes of a FIFO word (4)
  StatusBytes,  \* reads of up to this many bytes answer a status poll (4)
  IdBytes,      \* a read of this many bytes answers the JEDEC ID (3)
  Jedec,        \* the JEDEC ID
  Lut,          \* what the instructions of each LUT sequence contain
  None          \* no latched write, no job

VARIABLES
  flash,      \* the NOR array
  ipcr,       \* IPCR0 and IPCR1: address, size and sequence
  intr,       \* INTR, of which IPCMDDONE is a latch
  iptx,       \* tx: payload bytes pushed so far
  iprx,       \* rx: bytes staged by a read
  write_op    \* a write sequence awaiting its payload

flexspiVars == <<flash, ipcr, intr, iptx, iprx, write_op>>

Byte   == SUBSET Bits
Erased == Bits
Cell   == 0 .. FlashSize - 1

Ipcr    == [addr : Nat, size : Nat, seq : DOMAIN Lut]
WriteOp == [addr : Nat, size : Nat, to_flash : BOOLEAN]

ASSUME FlashAssumption ==
  /\ FlashSize \in Nat \ {0} /\ SectorSize \in Nat \ {0}
  /\ FlashSize % SectorSize = 0
  /\ WordBytes \in Nat \ {0} /\ StatusBytes \in Nat /\ IdBytes \in Nat
  /\ Jedec \in [1 .. IdBytes -> Byte]
  /\ DOMAIN Lut # {}
  /\ \A seq \in DOMAIN Lut : Lut[seq] \subseteq {"READ", "WRITE", "RADDR"}
  /\ None \notin WriteOp

FlexSpiInit ==
  /\ flash = [a \in Cell |-> Erased]
  /\ ipcr = [addr |-> 0, size |-> 0, seq |-> CHOOSE seq \in DOMAIN Lut : TRUE]
  /\ intr = {}
  /\ iptx = <<>> /\ iprx = <<>>
  /\ write_op = None

FlexSpiTypes ==
  /\ flash \in [Cell -> Byte]
  /\ ipcr \in Ipcr
  /\ intr \subseteq {"IPCMDDONE"}
  /\ iptx \in Seq(Byte) /\ iprx \in Seq(Byte)
  /\ write_op \in WriteOp \union {None}

(***************************************************************************)
(* The flash                                                               *)
(***************************************************************************)

(* The cell that byte k of an access at addr falls on.                     *)
CellOf(addr, k) == (addr + k - 1) % FlashSize

(* Mutant of Programmed: the bytes replace what is there.                  *)
Overwritten(addr, data) ==
  [a \in Cell |->
     IF \E k \in DOMAIN data : CellOf(addr, k) = a
       THEN data[CHOOSE k \in DOMAIN data : CellOf(addr, k) = a]
       ELSE flash[a]]

(* A program only clears bits.                                             *)
Programmed(addr, data) ==
  [a \in Cell |->
     {b \in flash[a] :
        \A k \in DOMAIN data : CellOf(addr, k) = a => b \in data[k]}]

SectorErased(addr) ==
  LET sector == (addr % FlashSize) \div SectorSize
  IN  [a \in Cell |-> IF a \div SectorSize = sector THEN Erased ELSE flash[a]]

(* What a read stages: small ones are taken for the ID or a status poll,   *)
(* with or without an address.                                             *)
ReadBytes(addr, size) ==
  IF size = IdBytes THEN Jedec
  ELSE [k \in 1 .. size |->
          IF size <= StatusBytes THEN {} ELSE flash[CellOf(addr, k)]]

(***************************************************************************)
(* Register accesses                                                       *)
(***************************************************************************)

WriteIpcr(addr, size, seq) ==
  /\ ipcr' = [addr |-> addr, size |-> size, seq |-> seq]
  /\ UNCHANGED <<flash, intr, iptx, iprx, write_op>>

ClearIntr ==
  /\ intr' = {}
  /\ UNCHANGED <<flash, ipcr, iptx, iprx, write_op>>

(* Mutant of Staged: what an earlier read left over comes first.           *)
StagedBehindLeftovers(bytes) == iprx \o bytes

(* stage_rx: the receive FIFO holds these bytes and no others.             *)
Staged(bytes) == bytes

(* IPCMD.TRG: the sequence decides.  A write is latched until its payload  *)
(* has arrived, a read is staged and an erase done at once.                *)
Trigger ==
  LET ops == Lut[ipcr.seq]
  IN  /\ intr' = intr \union {"IPCMDDONE"}
      /\ iptx' = <<>>
      /\ write_op' = IF "WRITE" \in ops
                       THEN [addr |-> ipcr.addr, size |-> ipcr.size,
                             to_flash |-> "RADDR" \in ops]
                       ELSE None
      /\ iprx' = IF "READ" \in ops /\ "WRITE" \notin ops
                   THEN Staged(ReadBytes(ipcr.addr, ipcr.size)) ELSE iprx
      /\ flash' = IF ops = {"RADDR"} THEN SectorErased(ipcr.addr) ELSE flash
      /\ UNCHANGED ipcr

(* IPTXFDR: the write is finished when all its bytes are there; what is    *)
(* pushed beyond them is dropped, and one without an address only taken.   *)
PushPayload(word) ==
  LET all  == iptx \o word
      full == write_op # None /\ Len(all) >= write_op.size
  IN  /\ iptx' = IF full THEN <<>> ELSE all
      /\ write_op' = IF full THEN None ELSE write_op
      /\ flash' = IF full /\ write_op.to_flash
                    THEN Programmed(write_op.addr,
                                    SubSeq(all, 1, write_op.size))
                    ELSE flash
      /\ UNCHANGED <<ipcr, intr, iprx>>

(* IPRXFDR: a word of staged bytes, 0xFF beyond them.                      *)
StagedWord ==
  [k \in 1 .. WordBytes |-> IF k <= Len(iprx) THEN iprx[k] ELSE Erased]

PopStaged ==
  /\ iprx' = SubSeq(iprx, WordBytes + 1, Len(iprx))
  /\ UNCHANGED <<flash, ipcr, intr, iptx, write_op>>
=============================================================================
