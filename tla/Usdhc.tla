------------------------------- MODULE Usdhc -------------------------------
(***************************************************************************)
(* One USDHC port of src/src/peripherals/usdhc.rs with the SD card in it:  *)
(* a command is answered within the register write that issues it, its     *)
(* data then passes through the data port word by word.                    *)
(*                                                                         *)
(* A block is a sequence of words; what the card answers is a name.        *)
(***************************************************************************)
EXTENDS Integers, Sequences, FiniteSetsExt

CONSTANTS
  Blocks,        \* blocks of the card
  BlockWords,    \* words of a block (128)
  Word,          \* what a word may hold
  Zero,          \* the word that is 0
  Scr,           \* the words of the SCR
  SwitchStatus   \* the words a CMD6 returns

VARIABLES
  card,               \* the card's image: block -> words
  inserted,           \* the port has the card
  int_status,         \* INT_STATUS
  resp,               \* CMD_RSP0
  rx,                 \* read data waiting in the port
  wx,                 \* words written to the port, not yet a block
  write_block,        \* where the next block goes
  write_blocks_left,  \* blocks a write command still expects
  app_cmd             \* the last command was CMD55

usdhcVars == <<card, inserted, int_status, resp, rx, wx, write_block,
               write_blocks_left, app_cmd>>

Status == {"CC", "TC", "BWR", "BRR", "CTOE"}
Answer == {"none", "echo", "ocr", "app", "identity", "tran"}
Block  == [1 .. BlockWords -> Word]

ASSUME CardAssumption ==
  /\ Blocks \in Nat /\ BlockWords \in Nat \ {0}
  /\ Zero \in Word
  /\ Scr \in Seq(Word) \ {<<>>} /\ SwitchStatus \in Seq(Word) \ {<<>>}

UsdhcInit ==
  /\ card = [b \in 0 .. Blocks - 1 |-> [w \in 1 .. BlockWords |-> Zero]]
  /\ inserted = FALSE
  /\ int_status = {}
  /\ resp = "none"
  /\ rx = <<>> /\ wx = <<>>
  /\ write_block = 0 /\ write_blocks_left = 0
  /\ app_cmd = FALSE

UsdhcTypes ==
  /\ card \in [0 .. Blocks - 1 -> Block]
  /\ inserted \in BOOLEAN
  /\ int_status \subseteq Status
  /\ resp \in Answer
  /\ rx \in Seq(Word)
  /\ wx \in Seq(Word) /\ Len(wx) < BlockWords
  /\ write_block \in Nat /\ write_blocks_left \in Nat
  /\ app_cmd \in BOOLEAN

(***************************************************************************)
(* What the card makes of a command                                        *)
(***************************************************************************)

Response(idx, acmd) ==
  CASE acmd -> IF idx = 41 THEN "ocr" ELSE "none"
    [] ~acmd /\ idx = 0 -> "none"
    [] ~acmd /\ idx = 8 -> "echo"
    [] ~acmd /\ idx = 55 -> "app"
    [] ~acmd /\ idx \in {2, 3, 9} -> "identity"
    [] OTHER -> "tran"

(* BLKCNT counts for the multiple-block commands only, and is 1 at least.  *)
BlockCount(idx, blkcnt) == IF idx \in {18, 25} THEN Max({blkcnt, 1}) ELSE 1

(* A run of blocks; zeros beyond the end of the card.                      *)
Span(block, count) ==
  [k \in 1 .. count * BlockWords |->
     LET b == block + (k - 1) \div BlockWords
     IN  IF b < Blocks THEN card[b][((k - 1) % BlockWords) + 1] ELSE Zero]

ReadData(idx, arg, acmd, blkcnt) ==
  CASE acmd -> IF idx = 51 THEN Scr ELSE <<>>
    [] ~acmd /\ idx = 6 -> SwitchStatus
    [] ~acmd /\ idx \in {17, 18} -> Span(arg, BlockCount(idx, blkcnt))
    [] OTHER -> <<>>

WriteBlocks(idx, acmd, blkcnt) ==
  IF ~acmd /\ idx \in {24, 25} THEN BlockCount(idx, blkcnt) ELSE 0

(***************************************************************************)
(* Register accesses                                                       *)
(***************************************************************************)

(* The host puts a card into the port, whatever the port is doing.         *)
Insert(image) ==
  /\ card' = image /\ inserted' = TRUE
  /\ UNCHANGED <<int_status, resp, rx, wx, write_block,
                 write_blocks_left, app_cmd>>

ClearIntStatus ==
  /\ int_status' = {}
  /\ UNCHANGED <<card, inserted, resp, rx, wx, write_block,
                 write_blocks_left, app_cmd>>

(* Mutant of AppCmdAfter: CMD55 is remembered until an ACMD is known.      *)
AppCmdAfterUnknown(idx, acmd) ==
  idx = 55 \/ (acmd /\ idx \notin {6, 41, 51})

(* Only the next command can be an application command, known or not.      *)
AppCmdAfter(idx, acmd) == idx = 55

(* Mutant of PartialBlock: a block begun by an abandoned write is kept.    *)
PartialBlockKept(write) == wx

(* What has been gathered of a block when a command starts a write or not. *)
PartialBlock(write) == IF write > 0 THEN <<>> ELSE wx

(* CMD_XFR_TYP, without and with a card.  A read replaces what is left in  *)
(* the port, a write what was left of another write; neither cancels the   *)
(* other.  TC comes with the command unless blocks are to be written.      *)
DispatchTimesOut ==
  /\ ~inserted
  /\ int_status' = int_status \union {"CTOE"}
  /\ UNCHANGED <<card, inserted, resp, rx, wx, write_block,
                 write_blocks_left, app_cmd>>

Dispatch(idx, arg, blkcnt) ==
  LET acmd  == app_cmd /\ idx # 55
      read  == ReadData(idx, arg, acmd, blkcnt)
      write == WriteBlocks(idx, acmd, blkcnt)
  IN  /\ inserted
      /\ app_cmd' = AppCmdAfter(idx, acmd)
      /\ resp' = Response(idx, acmd)
      /\ rx' = IF read # <<>> THEN read ELSE rx
      /\ IF write > 0
           THEN write_block' = arg /\ write_blocks_left' = write
           ELSE UNCHANGED <<write_block, write_blocks_left>>
      /\ wx' = PartialBlock(write)
      /\ int_status' = int_status \union {"CC"}
           \union (IF read # <<>> THEN {"BRR"} ELSE {})
           \union (IF write > 0 THEN {"BWR"} ELSE {"TC"})
      /\ UNCHANGED <<card, inserted>>

(* Mutant of BlockFull: one word more.                                     *)
BlockOverfull == Len(wx) = BlockWords

BlockFull == Len(wx) + 1 = BlockWords

(* Mutant of LastBlock: a block beyond the end is not counted as the last. *)
LastBlockOnCard == BlockFull /\ write_blocks_left = 1 /\ write_block < Blocks

LastBlock == BlockFull /\ write_blocks_left = 1

(* The data port written: dropped unless a write command expects it.  A    *)
(* whole block goes to the card, one beyond its end nowhere.               *)
PushWord(word) ==
  IF write_blocks_left = 0 THEN UNCHANGED usdhcVars
  ELSE /\ wx' = IF BlockFull THEN <<>> ELSE Append(wx, word)
       /\ card' = IF BlockFull /\ write_block < Blocks
                    THEN [card EXCEPT ![write_block] = Append(wx, word)]
                    ELSE card
       /\ write_block' = IF BlockFull THEN write_block + 1 ELSE write_block
       /\ write_blocks_left' = IF BlockFull THEN write_blocks_left - 1
                                            ELSE write_blocks_left
       /\ int_status' = IF LastBlock THEN int_status \union {"TC"}
                                     ELSE int_status
       /\ UNCHANGED <<inserted, resp, rx, app_cmd>>

(* The data port read: 0 when it is empty.                                 *)
PortWord == IF rx = <<>> THEN Zero ELSE Head(rx)

PopWord ==
  /\ rx' = IF rx = <<>> THEN rx ELSE Tail(rx)
  /\ UNCHANGED <<card, inserted, int_status, resp, wx, write_block,
                 write_blocks_left, app_cmd>>
=============================================================================
