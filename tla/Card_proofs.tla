----------------------------- MODULE Card_proofs -----------------------------
(***************************************************************************)
(* Proofs that the command engine of Usdhc, driven as in Storage and given *)
(* up anywhere, answers every command for itself and implements the block  *)
(* store of BlockStore, for cards, blocks and transfers of any size.       *)
(***************************************************************************)
EXTENDS Storage_proofs

(***************************************************************************)
(* The invariant                                                           *)
(***************************************************************************)

Jobs == IF ready THEN CardJobs ELSE {Startup}

(* The command in hand was taken by the card.                              *)
Answered ==
  \/ phase = "response" /\ "CC" \in int_status
  \/ phase \in {"read", "write", "end"}

(* A job is in hand at one of its commands, or the driver is at rest.      *)
ProgressOk ==
  /\ device = "flash" => ~ready
  /\ phase \in CardPhase => job # None /\ job \in Jobs /\ cmd \in DOMAIN job.commands
  /\ job = None => cmd = 1 /\ sent = 0 /\ got = <<>> /\ (ready => ~app_cmd)
  /\ phase = "issue" => int_status = {}

(* The card takes the next command for an application command exactly if   *)
(* the driver means one; what was given up before CMD0 does not matter.    *)
AnnouncementOk ==
  /\ phase \in {"clear", "issue"} =>
       \/ cmd = 1 /\ ~ready
       \/ app_cmd = (cmd > 1 /\ job.commands[cmd - 1] = 55)
  /\ phase \in CardPhase /\ Answered => app_cmd = (Index = 55)

(* The answer is there, and the data is partly with the driver and partly  *)
(* in the port.                                                            *)
AnswerOk ==
  phase \in CardPhase /\ Answered =>
    /\ inserted /\ resp = ExpectedAnswer
    /\ phase = "response" =>
         got = <<>> /\ (ExpectedData # <<>> => rx = ExpectedData)
    /\ phase = "read" =>
         got \in Seq(Word) /\ got \o rx = ExpectedData /\ Len(got) < Len(ExpectedData)
    /\ phase = "write" => got = <<>> /\ ExpectedData = <<>> /\ WriteAt(job, cmd)
    /\ phase = "end" => got = ExpectedData

(* Words leave the driver only for the write of its job ...                *)
SentOk ==
  phase \in CardPhase /\ sent # 0 =>
    \E k \in 1 .. cmd :
      WriteAt(job, k) /\ (k = cmd => phase \in {"write", "end"})

(* ... and are in the card by whole blocks, the rest of them in wx.        *)
WriteOk ==
  phase \in CardPhase /\ Answered /\ WriteAt(job, cmd) /\ phase # "end" =>
    /\ write_block >= job.start
    /\ write_blocks_left =
         BlockCount(Index, job.count) - (write_block - job.start)
    /\ write_blocks_left > 0
    /\ sent = (write_block - job.start) * BlockWords + Len(wx)
    /\ \A i \in 1 .. Len(wx) : wx[i] = job.data[sent - Len(wx) + i]

CardInv ==
  /\ UsdhcTypes /\ ProgressOk /\ AnnouncementOk /\ AnswerOk /\ SentOk /\ WriteOk

(***************************************************************************)
(* What the operators return                                               *)
(***************************************************************************)

LEMMA BlockCountIsPositive ==
  ASSUME NEW idx, NEW n \in Nat
  PROVE  BlockCount(idx, n) \in Nat \ {0}
<1>1. \E x \in {n, 1} : \A y \in {n, 1} : x >= y
  OBVIOUS
<1>2. Max({n, 1}) \in {n, 1} /\ Max({n, 1}) >= 1
  BY <1>1 DEF Max
<1> QED
  BY <1>2 DEF BlockCount

LEMMA SpanIsTyped ==
  ASSUME UsdhcTypes, NEW block \in Nat, NEW count \in Nat
  PROVE  Span(block, count) \in Seq(Word)
<1>1. count * BlockWords \in Nat
  BY CardAssumption
<1>2. ASSUME NEW k \in 1 .. count * BlockWords
      PROVE  LET b == block + (k - 1) \div BlockWords
             IN  (IF b < Blocks THEN card[b][((k - 1) % BlockWords) + 1] ELSE Zero) \in Word
  <2>1. /\ (k - 1) \div BlockWords \in Nat
        /\ ((k - 1) % BlockWords) + 1 \in 1 .. BlockWords
    <3>1. k - 1 \in Nat /\ BlockWords \in Nat \ {0}
      BY <1>1, CardAssumption
    <3> QED
      BY <3>1, Z3
  <2> DEFINE b == block + (k - 1) \div BlockWords
             w == ((k - 1) % BlockWords) + 1
  <2>2. b \in Nat /\ w \in 1 .. BlockWords
    BY <2>1
  <2> HIDE DEF b, w
  <2>3. (IF b < Blocks THEN card[b][w] ELSE Zero) \in Word
    BY <2>2, CardAssumption DEF UsdhcTypes, Block
  <2> QED
    BY <2>3 DEF b, w
<1> QED
  BY <1>1, <1>2 DEF Span

LEMMA ReadDataIsTyped ==
  ASSUME UsdhcTypes, NEW idx, NEW arg \in Nat, NEW acmd \in BOOLEAN, NEW n \in Nat
  PROVE  ReadData(idx, arg, acmd, n) \in Seq(Word)
<1>1. Span(arg, BlockCount(idx, n)) \in Seq(Word)
  BY BlockCountIsPositive, SpanIsTyped
<1> QED
  BY <1>1, CardAssumption DEF ReadData

(* What the driver's job says.                                             *)
LEMMA CardJobIsTyped ==
  ASSUME CardInv, phase \in CardPhase
  PROVE  /\ job \in CardJobs \union {Startup} /\ job \in CardJob /\ job # None
         /\ ~ready => job = Startup
         /\ job.commands \in Seq(Nat) /\ job.start \in Nat /\ job.count \in Nat
         /\ job.data \in Seq(Word)
         /\ cmd \in 1 .. Len(job.commands) /\ cmd \in Nat /\ Len(job.commands) \in Nat
         /\ DOMAIN job.commands = 1 .. Len(job.commands)
         /\ Index \in Nat /\ Index = job.commands[cmd]
         /\ WriteAt(job, cmd) <=> Index \in {24, 25}
<1>1. job \in Jobs /\ job # None /\ cmd \in DOMAIN job.commands
  BY DEF CardInv, ProgressOk
<1>2. job \in CardJobs \union {Startup} /\ job \in CardJob
  BY <1>1, JobAssumption DEF Jobs
<1>3. /\ job.commands \in Seq(Nat) /\ job.start \in Nat /\ job.count \in Nat
      /\ job.data \in Seq(Word)
  BY <1>2 DEF CardJob
<1>4. DOMAIN job.commands = 1 .. Len(job.commands) /\ Len(job.commands) \in Nat
  BY <1>3, LenProperties
<1> QED
  BY <1>1, <1>2, <1>3, <1>4 DEF Jobs, Index, WriteAt

LEMMA ExpectedIsTyped ==
  ASSUME CardInv, phase \in CardPhase
  PROVE  ExpectedData \in Seq(Word)
<1>1. job.start \in Nat /\ job.count \in Nat
  BY CardJobIsTyped
<1>2. Announced \in BOOLEAN
  BY DEF Announced
<1> QED
  BY <1>1, <1>2, ReadDataIsTyped DEF CardInv, ExpectedData

LEMMA SameExpectation ==
  ASSUME UNCHANGED <<job, cmd, card>>
  PROVE  /\ Index' = Index /\ Announced' = Announced
         /\ ExpectedAnswer' = ExpectedAnswer /\ ExpectedData' = ExpectedData
<1>1. Index' = Index /\ Announced' = Announced
  BY DEF Index, Announced
<1>2. \A b, n : Span(b, n)' = Span(b, n)
  BY DEF Span
<1>3. ExpectedAnswer' = ExpectedAnswer
  BY <1>1 DEF ExpectedAnswer, Response
<1>4. ExpectedData' = ExpectedData
  BY <1>1, <1>2 DEF ExpectedData, ReadData
<1> QED
  BY <1>1, <1>3, <1>4

(***************************************************************************)
(* Every step keeps the invariant                                          *)
(***************************************************************************)

(* The card takes the command as the driver means it.                      *)
LEMMA CommandIsUnderstood ==
  ASSUME CardInv, phase = "issue"
  PROVE  LET acmd == app_cmd /\ Index # 55
         IN  /\ Response(Index, acmd) = ExpectedAnswer
             /\ ReadData(Index, job.start, acmd, job.count) = ExpectedData
             /\ WriteBlocks(Index, acmd, job.count) =
                  IF WriteAt(job, cmd) THEN BlockCount(Index, job.count) ELSE 0
<1>1. phase \in CardPhase
  BY DEF CardPhase
<1>2. /\ ~ready => job = Startup
      /\ job \in CardJobs \union {Startup} /\ cmd \in DOMAIN job.commands
      /\ WriteAt(job, cmd) <=> Index \in {24, 25}
      /\ Index = job.commands[cmd] /\ cmd \in Nat \ {0}
  BY <1>1, CardJobIsTyped
<1>3. app_cmd \in BOOLEAN
  BY DEF CardInv, UsdhcTypes
<1>4. WriteAt(job, cmd) => ~Announced
  BY <1>2, CardJobAssumption DEF Announced
<1>5. CASE cmd = 1 /\ ~ready
  <2>1. Index = 0 /\ ~Announced
    BY <1>2, <1>5, CardJobAssumption DEF Announced
  <2> QED
    BY <1>2, <1>3, <2>1 DEF ExpectedAnswer, ExpectedData, Response, ReadData, WriteBlocks
<1>6. CASE app_cmd = (cmd > 1 /\ job.commands[cmd - 1] = 55)
  <2>1. (app_cmd /\ Index # 55) = Announced
    BY <1>2, <1>3, <1>6 DEF Announced
  <2> QED
    BY <1>2, <1>4, <2>1 DEF ExpectedAnswer, ExpectedData, WriteBlocks
<1> QED
  BY <1>5, <1>6 DEF CardInv, AnnouncementOk

LEMMA IssueKeepsInv == CardInv /\ Issue => CardInv'
<1> SUFFICES ASSUME CardInv, Issue PROVE CardInv'
  OBVIOUS
<1>1. /\ phase = "issue" /\ phase' = "response" /\ phase \in CardPhase
      /\ phase' \in CardPhase
      /\ got' = <<>> /\ UNCHANGED <<device, job, cmd, ready, sent>>
      /\ card' = card /\ inserted' = inserted /\ int_status = {}
  BY DEF Issue, Stay, Dispatch, DispatchTimesOut, CardPhase, CardInv, ProgressOk
<1>2. /\ job.start \in Nat /\ job.count \in Nat
      /\ Index' = Index /\ ExpectedAnswer' = ExpectedAnswer
      /\ ExpectedData' = ExpectedData /\ ExpectedData \in Seq(Word)
      /\ BlockCount(Index, job.count) \in Nat \ {0}
      /\ WriteAt(job, cmd)' = WriteAt(job, cmd)
  BY <1>1, CardJobIsTyped, SameExpectation, ExpectedIsTyped, BlockCountIsPositive DEF WriteAt
<1>3. ProgressOk'
  BY <1>1 DEF CardInv, ProgressOk, Jobs
<1>4. SentOk'
  BY <1>1 DEF CardInv, SentOk, WriteAt
<1>5. CASE DispatchTimesOut
  <2>1. int_status' = {"CTOE"} /\ UNCHANGED <<resp, rx, wx, write_block, write_blocks_left, app_cmd>>
    BY <1>1, <1>5 DEF DispatchTimesOut
  <2>2. UsdhcTypes'
    BY <1>1, <2>1 DEF CardInv, UsdhcTypes, Status
  <2>3. ~Answered'
    BY <1>1, <2>1 DEF Answered
  <2> QED
    BY <1>1, <1>3, <1>4, <2>2, <2>3 DEF CardInv, AnnouncementOk, AnswerOk, WriteOk
<1>6. CASE Dispatch(Index, job.start, job.count)
  <2> DEFINE write == IF WriteAt(job, cmd) THEN BlockCount(Index, job.count) ELSE 0
  <2>1. /\ inserted /\ app_cmd' = (Index = 55)
        /\ resp' = ExpectedAnswer
        /\ rx' = IF ExpectedData # <<>> THEN ExpectedData ELSE rx
        /\ IF write > 0
             THEN write_block' = job.start /\ write_blocks_left' = write
             ELSE UNCHANGED <<write_block, write_blocks_left>>
        /\ wx' = IF write > 0 THEN <<>> ELSE wx
    <3> DEFINE acmd  == app_cmd /\ Index # 55
               asks  == WriteBlocks(Index, acmd, job.count)
               reads == ReadData(Index, job.start, acmd, job.count)
    <3>1. Response(Index, acmd) = ExpectedAnswer /\ reads = ExpectedData /\ asks = write
      BY <1>1, CommandIsUnderstood
    <3>2. /\ inserted /\ app_cmd' = (Index = 55) /\ resp' = Response(Index, acmd)
          /\ rx' = IF reads # <<>> THEN reads ELSE rx
          /\ IF asks > 0
               THEN write_block' = job.start /\ write_blocks_left' = asks
               ELSE UNCHANGED <<write_block, write_blocks_left>>
          /\ wx' = IF asks > 0 THEN <<>> ELSE wx
      BY <1>6, Zenon DEF Dispatch, AppCmdAfter, PartialBlock
    <3> HIDE DEF acmd, asks, reads, write
    <3> QED
      BY <3>1, <3>2
  <2>6. int_status' \subseteq Status
    BY <1>1, <1>6 DEF Dispatch, Status
  <2>2. UsdhcTypes'
    <3>1. resp' \in Answer
      BY <2>1 DEF ExpectedAnswer, Response, Answer
    <3>2. write_block' \in Nat /\ write_blocks_left' \in Nat
      BY <1>2, <2>1 DEF CardInv, UsdhcTypes
    <3>3. wx' \in Seq(Word) /\ Len(wx') < BlockWords
      BY <2>1, CardAssumption DEF CardInv, UsdhcTypes
    <3>4. rx' \in Seq(Word)
      BY <1>2, <2>1 DEF CardInv, UsdhcTypes
    <3> QED
      BY <1>1, <2>1, <2>6, <3>1, <3>2, <3>3, <3>4 DEF CardInv, UsdhcTypes
  <2>3. AnnouncementOk'
    BY <1>1, <1>2, <2>1 DEF AnnouncementOk
  <2>4. AnswerOk'
    BY <1>1, <1>2, <2>1 DEF AnswerOk
  <2>5. WriteOk'
    <3>1. SUFFICES ASSUME WriteAt(job, cmd) PROVE WriteOk'
      BY <1>2 DEF WriteOk
    <3>2. /\ write_block' = job.start /\ wx' = <<>>
          /\ write_blocks_left' = BlockCount(Index, job.count)
      BY <1>2, <2>1, <3>1
    <3>3. sent = 0
      BY <1>1, <3>1, CardJobAssumption, CardJobIsTyped DEF CardInv, SentOk
    <3> QED
      BY <1>1, <1>2, <3>2, <3>3, CardAssumption DEF WriteOk
  <2> QED
    BY <1>3, <1>4, <2>2, <2>3, <2>4, <2>5 DEF CardInv
<1> QED
  BY <1>5, <1>6 DEF Issue

LEMMA RespondKeepsInv == CardInv /\ Respond => CardInv'
<1> SUFFICES ASSUME CardInv, Respond PROVE CardInv'
  OBVIOUS
<1>1. /\ phase = "response" /\ Answered /\ phase \in CardPhase
      /\ UNCHANGED <<device, job, ready, sent, got, usdhcVars>>
  BY DEF Respond, Answered, CardPhase
<1>2. UNCHANGED <<card, inserted, int_status, resp, rx, wx, write_block,
                  write_blocks_left, app_cmd>>
  BY <1>1 DEF usdhcVars
<1>3. /\ inserted /\ resp = ExpectedAnswer /\ got = <<>>
      /\ ExpectedData # <<>> => rx = ExpectedData
      /\ app_cmd = (Index = 55)
  BY <1>1 DEF CardInv, AnswerOk, AnnouncementOk
<1>4. /\ cmd' = cmd
      /\ phase' = IF ExpectedData # <<>> THEN "read"
                  ELSE IF Index \in {24, 25} /\ ~Announced THEN "write"
                  ELSE "end"
  <2>1. Announced /\ Index = 41 => ExpectedAnswer = "ocr"
    BY DEF ExpectedAnswer, Response
  <2> QED
    BY <1>3, <2>1 DEF Respond
<1>5. /\ Index' = Index /\ ExpectedAnswer' = ExpectedAnswer
      /\ ExpectedData' = ExpectedData /\ ExpectedData \in Seq(Word)
      /\ WriteAt(job, cmd)' = WriteAt(job, cmd)
      /\ WriteAt(job, cmd) <=> Index \in {24, 25}
  BY <1>1, <1>2, <1>4, SameExpectation, ExpectedIsTyped, CardJobIsTyped DEF WriteAt
<1>6. UsdhcTypes' /\ ProgressOk'
  BY <1>1, <1>2, <1>4 DEF CardInv, UsdhcTypes, ProgressOk, Jobs, CardPhase
<1>7. AnnouncementOk'
  BY <1>2, <1>3, <1>4, <1>5 DEF AnnouncementOk
<1>8. AnswerOk'
  <2>1. ExpectedData # <<>> => /\ <<>> \o ExpectedData = ExpectedData
                               /\ Len(<<>>) < Len(ExpectedData)
                               /\ <<>> \in Seq(Word)
    BY <1>5, EmptySeq
  <2> QED
    BY <1>1, <1>2, <1>3, <1>4, <1>5, <2>1 DEF AnswerOk
<1>9. SentOk'
  BY <1>1, <1>4, <1>5, CardJobIsTyped DEF CardInv, SentOk, WriteAt
<1>10. WriteOk'
  BY <1>1, <1>2, <1>4, <1>5 DEF CardInv, WriteOk
<1> QED
  BY <1>6, <1>7, <1>8, <1>9, <1>10 DEF CardInv

LEMMA HeadMoves ==
  ASSUME NEW S, NEW a \in Seq(S), NEW b \in Seq(S), b # <<>>
  PROVE  /\ Append(a, Head(b)) \in Seq(S) /\ Tail(b) \in Seq(S)
         /\ Append(a, Head(b)) \o Tail(b) = a \o b
         /\ Len(Append(a, Head(b))) = Len(a) + 1
<1>1. Head(b) \in S /\ Tail(b) \in Seq(S) /\ b = <<Head(b)>> \o Tail(b)
  OBVIOUS
<1>2. Append(a, Head(b)) = a \o <<Head(b)>> /\ <<Head(b)>> \in Seq(S)
  BY <1>1
<1>3. (a \o <<Head(b)>>) \o Tail(b) = a \o (<<Head(b)>> \o Tail(b))
  BY <1>1, <1>2, ConcatAssociative
<1>4. Len(Append(a, Head(b))) = Len(a) + 1 /\ Append(a, Head(b)) \in Seq(S)
  BY <1>1
<1> QED
  BY <1>1, <1>2, <1>3, <1>4

LEMMA ReadPortKeepsInv == CardInv /\ ReadPort => CardInv'
<1> SUFFICES ASSUME CardInv, ReadPort PROVE CardInv'
  OBVIOUS
<1>1. /\ phase = "read" /\ rx # <<>> /\ phase \in CardPhase /\ Answered
      /\ got' = Append(got, Head(rx)) /\ rx' = Tail(rx)
      /\ UNCHANGED <<device, job, cmd, ready, sent>>
      /\ UNCHANGED <<card, inserted, int_status, resp, wx, write_block,
                     write_blocks_left, app_cmd>>
      /\ phase' = IF Len(got') = Len(ExpectedData) THEN "end" ELSE "read"
      /\ phase' \in CardPhase
  BY DEF ReadPort, PortWord, PopWord, Stay, CardPhase, Answered
<1>2. /\ inserted /\ resp = ExpectedAnswer /\ app_cmd = (Index = 55)
      /\ got \in Seq(Word) /\ got \o rx = ExpectedData
      /\ Len(got) < Len(ExpectedData)
  BY <1>1 DEF CardInv, AnswerOk, AnnouncementOk
<1>3. /\ Index' = Index /\ ExpectedAnswer' = ExpectedAnswer
      /\ ExpectedData' = ExpectedData /\ ExpectedData \in Seq(Word)
      /\ WriteAt(job, cmd)' = WriteAt(job, cmd)
  BY <1>1, SameExpectation, ExpectedIsTyped DEF WriteAt
<1>4. /\ got' \in Seq(Word) /\ rx' \in Seq(Word) /\ got' \o rx' = ExpectedData
      /\ Len(got') = Len(got) + 1 /\ Len(got) \in Nat
  <2>1. rx \in Seq(Word) /\ Len(got) \in Nat
    BY <1>2, LenProperties DEF CardInv, UsdhcTypes
  <2>2. /\ Append(got, Head(rx)) \in Seq(Word) /\ Tail(rx) \in Seq(Word)
        /\ Append(got, Head(rx)) \o Tail(rx) = got \o rx
        /\ Len(Append(got, Head(rx))) = Len(got) + 1
    BY <1>1, <1>2, <2>1, HeadMoves
  <2> QED
    BY <1>1, <1>2, <2>1, <2>2
<1>5. /\ Len(got') <= Len(ExpectedData)
      /\ phase' = "end" => got' = ExpectedData
  <2>1. Len(ExpectedData) = Len(got') + Len(rx') /\ Len(rx') \in Nat
    BY <1>4, ConcatProperties, LenProperties
  <2>2. Len(rx') = 0 => rx' = <<>>
    BY <1>4, EmptySeq
  <2> QED
    BY <1>1, <1>4, <2>1, <2>2, ConcatEmptySeq
<1>6. UsdhcTypes' /\ ProgressOk' /\ SentOk'
  <2>1. UsdhcTypes'
    BY <1>1, <1>4 DEF CardInv, UsdhcTypes
  <2>2. ProgressOk'
    BY <1>1 DEF CardInv, ProgressOk, Jobs
  <2>3. SentOk'
    BY <1>1 DEF CardInv, SentOk, WriteAt
  <2> QED
    BY <2>1, <2>2, <2>3
<1>7. AnnouncementOk'
  BY <1>1, <1>2, <1>3 DEF AnnouncementOk
<1>8. AnswerOk'
  <2>1. phase' = "read" => Len(got') < Len(ExpectedData)
    <3>1. Len(ExpectedData) \in Nat
      BY <1>3, LenProperties
    <3> QED
      BY <1>1, <1>4, <1>5, <3>1
  <2> QED
    BY <1>1, <1>2, <1>3, <1>4, <1>5, <2>1 DEF AnswerOk
<1>9. WriteOk'
  <2>1. ~WriteAt(job, cmd) \/ phase' = "end"
    <3>1. WriteAt(job, cmd) => ExpectedData = <<>>
      BY SMTT(30), CardJobIsTyped, <1>1 DEF ExpectedData, ReadData
    <3> QED
      BY <1>1, <1>2, <3>1, EmptySeq, LenProperties
  <2> QED
    BY <1>1, <1>3, <2>1 DEF WriteOk
<1> QED
  BY <1>6, <1>7, <1>8, <1>9 DEF CardInv

(* The data port while a write is under way, in numbers: with q blocks of  *)
(* n stored and l words of the next one gathered.                          *)
LEMMA WordsOfBlocks ==
  ASSUME NEW b \in Nat \ {0}, NEW q \in Nat, NEW n \in Nat, q < n,
         NEW l \in Nat, l < b
  PROVE  /\ q * b \in Nat /\ n * b \in Nat
         /\ q * b + l < n * b
         /\ (q + 1) * b = q * b + b
         /\ (q * b + l) \div b = q
<1>1. q * b \in Nat /\ n * b \in Nat /\ (q + 1) * b = q * b + b
  BY Z3
<1>2. PICK d \in Nat : n = q + 1 + d
  <2>1. n - q - 1 \in Nat /\ n = q + 1 + (n - q - 1)
    OBVIOUS
  <2> QED
    BY <2>1
<1>3. n * b = q * b + b + d * b /\ d * b \in Nat
  BY <1>2, Z3
<1>4. (q * b + l) \div b = q
  BY Z3
<1> QED
  BY <1>1, <1>3, <1>4

LEMMA Offset ==
  ASSUME NEW a \in Nat, NEW b \in Nat, NEW c \in Nat, a = b + c
  PROVE  a - b = c /\ (a + 1) - b = c + 1 /\ a >= b
  OBVIOUS

Stored == write_block - job.start

LEMMA WriteUnderWay ==
  ASSUME CardInv, phase = "write"
  PROVE  /\ phase \in CardPhase /\ Answered /\ WriteAt(job, cmd) /\ ~Announced
         /\ inserted /\ resp = ExpectedAnswer /\ app_cmd = (Index = 55)
         /\ got = <<>> /\ ExpectedData = <<>>
         /\ job.start \in Nat /\ job.data \in Seq(Word) /\ Len(job.data) \in Nat
         /\ BlockCount(Index, job.count) \in Nat
         /\ Len(job.data) = BlockCount(Index, job.count) * BlockWords
         /\ Stored \in Nat /\ Stored < BlockCount(Index, job.count)
         /\ write_blocks_left = BlockCount(Index, job.count) - Stored
         /\ write_blocks_left > 0
         /\ wx \in Seq(Word) /\ Len(wx) \in Nat /\ Len(wx) < BlockWords
         /\ sent = Stored * BlockWords + Len(wx)
         /\ sent \in Nat /\ sent < Len(job.data)
         /\ \A i \in 1 .. Len(wx) : wx[i] = job.data[Stored * BlockWords + i]
<1>1. phase \in CardPhase /\ Answered
  BY DEF CardPhase, Answered
<1>2. /\ WriteAt(job, cmd) /\ inserted /\ resp = ExpectedAnswer
      /\ app_cmd = (Index = 55) /\ got = <<>> /\ ExpectedData = <<>>
  BY <1>1 DEF CardInv, AnswerOk, AnnouncementOk
<1>3. /\ write_block >= job.start
      /\ write_blocks_left = BlockCount(Index, job.count) - Stored
      /\ write_blocks_left > 0
      /\ sent = Stored * BlockWords + Len(wx)
      /\ \A i \in 1 .. Len(wx) : wx[i] = job.data[sent - Len(wx) + i]
  BY <1>1, <1>2 DEF CardInv, WriteOk, Stored
<1>4. /\ job \in CardJobs \union {Startup} /\ job.start \in Nat /\ job.count \in Nat
      /\ job.data \in Seq(Word) /\ cmd \in DOMAIN job.commands
      /\ Index = job.commands[cmd] /\ cmd \in Nat
  BY <1>1, CardJobIsTyped
<1>5. /\ Len(job.data) = BlockCount(Index, job.count) * BlockWords
      /\ ~Announced
  BY <1>2, <1>4, CardJobAssumption DEF Announced
<1>6. /\ BlockCount(Index, job.count) \in Nat
      /\ Stored \in Nat /\ Stored < BlockCount(Index, job.count)
      /\ wx \in Seq(Word) /\ Len(wx) \in Nat /\ Len(wx) < BlockWords
  BY <1>3, <1>4, BlockCountIsPositive, LenProperties DEF CardInv, UsdhcTypes, Stored
<1>7. /\ Stored * BlockWords \in Nat
      /\ Stored * BlockWords + Len(wx) < BlockCount(Index, job.count) * BlockWords
      /\ BlockCount(Index, job.count) * BlockWords \in Nat
  BY <1>6, WordsOfBlocks, CardAssumption
<1>8. /\ sent \in Nat /\ sent < Len(job.data)
      /\ \A i \in 1 .. Len(wx) : wx[i] = job.data[Stored * BlockWords + i]
  BY <1>3, <1>5, <1>6, <1>7
<1>9. Len(job.data) \in Nat
  BY <1>4, LenProperties
<1> QED
  BY <1>1, <1>2, <1>3, <1>4, <1>5, <1>6, <1>8, <1>9

LEMMA WritePortKeepsInv == CardInv /\ WritePort => CardInv'
<1> SUFFICES ASSUME CardInv, WritePort PROVE CardInv'
  OBVIOUS
<1> DEFINE word == job.data[sent + 1]
<1>1. /\ phase = "write"
      /\ UNCHANGED <<device, job, cmd, ready, got, inserted, resp, rx, app_cmd>>
      /\ sent' = sent + 1
      /\ phase' = IF sent' = Len(job.data) THEN "end" ELSE "write"
      /\ phase' \in CardPhase
      /\ wx' = IF BlockFull THEN <<>> ELSE Append(wx, word)
      /\ card' = IF BlockFull /\ write_block < Blocks
                   THEN [card EXCEPT ![write_block] = Append(wx, word)]
                   ELSE card
      /\ write_block' = IF BlockFull THEN write_block + 1 ELSE write_block
      /\ write_blocks_left' = IF BlockFull THEN write_blocks_left - 1
                                           ELSE write_blocks_left
      /\ int_status' = IF LastBlock THEN int_status \union {"TC"} ELSE int_status
  BY DEF WritePort, PushWord, Stay, CardPhase, CardInv, UsdhcTypes
<1>2. /\ phase \in CardPhase /\ Answered /\ WriteAt(job, cmd) /\ ~Announced
      /\ inserted /\ resp = ExpectedAnswer /\ app_cmd = (Index = 55)
      /\ got = <<>> /\ job.start \in Nat /\ Stored \in Nat
      /\ BlockCount(Index, job.count) \in Nat /\ Stored < BlockCount(Index, job.count)
      /\ write_blocks_left = BlockCount(Index, job.count) - Stored
      /\ write_blocks_left > 0
      /\ wx \in Seq(Word) /\ Len(wx) \in Nat /\ Len(wx) < BlockWords
      /\ Len(job.data) = BlockCount(Index, job.count) * BlockWords
      /\ sent = Stored * BlockWords + Len(wx) /\ sent \in Nat
  BY <1>1, WriteUnderWay
<1>3. word \in Word
  BY <1>1, WriteUnderWay, ElementOfSeq
<1>4. /\ Index' = Index /\ Announced' = Announced
      /\ WriteAt(job, cmd)' = WriteAt(job, cmd) /\ Index \in {24, 25}
  BY <1>1, <1>2 DEF Index, Announced, WriteAt
<1>5. ExpectedAnswer' = ExpectedAnswer /\ ExpectedData' = <<>>
  BY SMTT(30), <1>1, <1>2, <1>4 DEF ExpectedAnswer, ExpectedData, ReadData, Response
<1> HIDE DEF word
<1>6. /\ Append(wx, word) \in Seq(Word) /\ Len(Append(wx, word)) = Len(wx) + 1
      /\ \A i \in 1 .. Len(wx) : Append(wx, word)[i] = wx[i]
      /\ Append(wx, word)[Len(wx) + 1] = word
  BY <1>2, <1>3
<1>7. UsdhcTypes'
  <2>1. card' \in [0 .. Blocks - 1 -> Block]
    <3>1. BlockFull => Append(wx, word) \in Block
      BY <1>6, LenProperties DEF BlockFull, Block
    <3> QED
      BY <1>1, <3>1 DEF CardInv, UsdhcTypes
  <2>2. wx' \in Seq(Word) /\ Len(wx') < BlockWords
    BY SMTT(30), <1>1, <1>2, <1>6, EmptySeq, CardAssumption DEF BlockFull
  <2>3. write_block' \in Nat /\ write_blocks_left' \in Nat
    BY <1>1, <1>2 DEF CardInv, UsdhcTypes
  <2>4. int_status' \subseteq Status
    BY <1>1 DEF CardInv, UsdhcTypes, Status
  <2> QED
    BY <1>1, <2>1, <2>2, <2>3, <2>4 DEF CardInv, UsdhcTypes
<1>8. ProgressOk'
  BY <1>1, <1>2 DEF CardInv, ProgressOk, Jobs, CardPhase
<1>9. AnnouncementOk' /\ AnswerOk'
  BY <1>1, <1>2, <1>4, <1>5 DEF AnnouncementOk, AnswerOk
<1>10. SentOk'
  <2>1. cmd \in 1 .. cmd
    BY <1>2, CardJobIsTyped
  <2> QED
    BY <1>1, <1>2, <1>4, <2>1 DEF SentOk
<1>11. ASSUME phase' # "end"
       PROVE  /\ write_block' >= job.start
              /\ write_blocks_left' = BlockCount(Index, job.count) - (write_block' - job.start)
              /\ write_blocks_left' > 0
              /\ sent' = (write_block' - job.start) * BlockWords + Len(wx')
              /\ \A i \in 1 .. Len(wx') : wx'[i] = job.data[sent' - Len(wx') + i]
  <2>1. /\ Stored * BlockWords \in Nat
        /\ (Stored + 1) * BlockWords = Stored * BlockWords + BlockWords
        /\ BlockWords \in Nat
    BY <1>2, WordsOfBlocks, CardAssumption
  <2>4. write_block = job.start + Stored /\ write_block \in Nat /\ job.start \in Nat
    <3>1. write_block \in Nat
      BY DEF CardInv, UsdhcTypes
    <3> QED
      BY <1>2, <3>1 DEF Stored
  <2>5. /\ Stored \in Nat /\ BlockCount(Index, job.count) \in Nat
        /\ write_blocks_left = BlockCount(Index, job.count) - Stored
    BY <1>2
  <2>2. CASE BlockFull
    <3>1. wx' = <<>> /\ write_block' - job.start = Stored + 1
          /\ write_blocks_left' = BlockCount(Index, job.count) - (Stored + 1)
          /\ write_block' >= job.start
      <4>1. /\ wx' = <<>> /\ write_block' = write_block + 1
            /\ write_blocks_left' = write_blocks_left - 1
        BY <1>1, <2>2
      <4>2. write_block' - job.start = Stored + 1
        BY SMTT(30), <2>4, <2>5, <4>1, Offset
      <4>3. write_block' >= job.start
        BY <2>4, <2>5, <4>1
      <4>4. write_blocks_left' = BlockCount(Index, job.count) - (Stored + 1)
        BY <2>4, <2>5, <4>1
      <4> QED
        BY <4>1, <4>2, <4>3, <4>4
    <3>2. sent' = (Stored + 1) * BlockWords + 0
      <4>1. Len(wx) + 1 = BlockWords /\ sent' = sent + 1
        BY <1>1, <2>2 DEF BlockFull
      <4> QED
        BY SMTT(30), <1>2, <2>1, <4>1
    <3>3. Stored + 1 # BlockCount(Index, job.count)
      BY <1>1, <1>2, <1>11, <2>1, <3>2
    <3> QED
      BY <1>2, <3>1, <3>2, <3>3, EmptySeq
  <2>3. CASE ~BlockFull
    <3>1. /\ wx' = Append(wx, word) /\ write_block' = write_block
          /\ write_blocks_left' = write_blocks_left
          /\ sent' = Stored * BlockWords + Len(wx')
          /\ sent' - Len(wx') = Stored * BlockWords
      <4>1. /\ wx' = Append(wx, word) /\ write_block' = write_block
            /\ write_blocks_left' = write_blocks_left /\ sent' = sent + 1
        BY <1>1, <2>3
      <4>2. Len(wx') = Len(wx) + 1
        BY <1>6, <4>1
      <4>3. sent' = Stored * BlockWords + Len(wx')
        BY <1>2, <2>1, <4>1, <4>2
      <4> QED
        BY <1>2, <2>1, <4>1, <4>2, <4>3, Offset
    <3>2. \A i \in 1 .. Len(wx') : wx'[i] = job.data[Stored * BlockWords + i]
      <4>1. \A i \in 1 .. Len(wx) : wx[i] = job.data[Stored * BlockWords + i]
        BY <1>1, WriteUnderWay
      <4>2. word = job.data[Stored * BlockWords + (Len(wx) + 1)]
        BY <1>2, <2>1 DEF word
      <4> QED
        BY SMTT(30), <1>2, <1>6, <3>1, <4>1, <4>2
    <3> QED
      <4>1. write_block' - job.start = Stored /\ write_block' >= job.start
        BY SMTT(30), <2>4, <2>5, <3>1, Offset
      <4> QED
        BY <1>2, <2>1, <3>1, <3>2, <4>1
  <2> QED
    BY <2>2, <2>3
<1>12. WriteOk'
  BY <1>1, <1>4, <1>11 DEF WriteOk
<1> QED
  BY <1>7, <1>8, <1>9, <1>10, <1>12 DEF CardInv

LEMMA BeginCardKeepsInv ==
  CardInv /\ DeviceOk /\ BeginCard => CardInv'
<1> SUFFICES ASSUME CardInv, DeviceOk, BeginCard PROVE CardInv'
  OBVIOUS
<1>1. /\ device = "card" /\ job = None /\ job' \in Jobs /\ phase' = "clear"
      /\ UNCHANGED <<device, cmd, sent, got, ready>>
      /\ UNCHANGED <<card, inserted, int_status, resp, rx, wx, write_block,
                     write_blocks_left, app_cmd>>
  BY DEF BeginCard, usdhcVars, Jobs
<1>2. /\ job' # None /\ job' \in CardJobs \union {Startup}
      /\ job' \in CardJob /\ job'.commands # <<>>
  BY <1>1, JobAssumption, CardJobAssumption DEF Jobs
<1>3. cmd = 1 /\ sent = 0 /\ (ready => ~app_cmd) /\ app_cmd \in BOOLEAN
  BY <1>1 DEF CardInv, ProgressOk, UsdhcTypes
<1>4. 1 \in DOMAIN job'.commands
  <2>1. job'.commands \in Seq(Nat)
    BY <1>2 DEF CardJob
  <2> QED
    BY <1>2, <2>1, EmptySeq, LenProperties
<1>5. UsdhcTypes' /\ ProgressOk' /\ SentOk'
  BY <1>1, <1>2, <1>3, <1>4 DEF CardInv, UsdhcTypes, ProgressOk, SentOk, Jobs
<1>6. AnnouncementOk'
  BY <1>1, <1>3 DEF AnnouncementOk, Answered
<1>7. AnswerOk' /\ WriteOk'
  BY <1>1 DEF AnswerOk, WriteOk, Answered
<1> QED
  BY <1>5, <1>6, <1>7 DEF CardInv

LEMMA ClearKeepsInv == CardInv /\ Clear => CardInv'
<1> SUFFICES ASSUME CardInv, Clear PROVE CardInv'
  OBVIOUS
<1>1. /\ phase = "clear" /\ phase' = "issue" /\ phase \in CardPhase
      /\ int_status' = {} /\ UNCHANGED <<device, job, cmd, ready, sent, got>>
      /\ UNCHANGED <<card, inserted, resp, rx, wx, write_block,
                     write_blocks_left, app_cmd>>
  BY DEF Clear, ClearIntStatus, Stay, CardPhase
<1>2. UsdhcTypes' /\ ProgressOk' /\ SentOk'
  BY <1>1 DEF CardInv, UsdhcTypes, ProgressOk, SentOk, Jobs, WriteAt
<1>3. AnnouncementOk' /\ AnswerOk' /\ WriteOk'
  BY <1>1 DEF CardInv, AnnouncementOk, AnswerOk, WriteOk, Answered
<1> QED
  BY <1>2, <1>3 DEF CardInv

LEMMA NextCommandKeepsInv == CardInv /\ NextCommand => CardInv'
<1> SUFFICES ASSUME CardInv, NextCommand PROVE CardInv'
  OBVIOUS
<1>1. /\ phase = "end" /\ phase' = "clear" /\ phase \in CardPhase /\ Answered
      /\ cmd < Len(job.commands) /\ cmd' = cmd + 1
      /\ UNCHANGED <<device, job, ready, sent, got>>
      /\ UNCHANGED <<card, inserted, int_status, resp, rx, wx, write_block,
                     write_blocks_left, app_cmd>>
  BY DEF NextCommand, usdhcVars, CardPhase, Answered
<1>2. /\ job # None /\ job \in Jobs /\ cmd \in Nat \ {0} /\ cmd' \in DOMAIN job.commands
      /\ Index = job.commands[cmd]
  BY <1>1, CardJobIsTyped DEF CardInv, ProgressOk
<1>3. app_cmd = (Index = 55)
  BY <1>1 DEF CardInv, AnnouncementOk
<1>4. UsdhcTypes' /\ ProgressOk'
  BY <1>1, <1>2 DEF CardInv, UsdhcTypes, ProgressOk, Jobs
<1>5. AnnouncementOk'
  BY <1>1, <1>2, <1>3 DEF AnnouncementOk, Answered
<1>6. AnswerOk' /\ WriteOk'
  BY <1>1 DEF AnswerOk, WriteOk, Answered
<1>7. SentOk'
  BY <1>1, <1>2 DEF CardInv, SentOk, WriteAt
<1> QED
  BY <1>4, <1>5, <1>6, <1>7 DEF CardInv

LEMMA RestKeepsCardInv ==
  CardInv /\ DeviceOk /\ (FinishFlash \/ FinishCard \/ TimeOut \/ GiveUp \/ ChipReset)
    => CardInv'
<1> SUFFICES ASSUME CardInv, DeviceOk,
                    FinishFlash \/ FinishCard \/ TimeOut \/ GiveUp \/ ChipReset
             PROVE  CardInv'
  OBVIOUS
<1>1. /\ job' = None /\ phase' = "idle" /\ cmd' = 1 /\ sent' = 0 /\ got' = <<>>
      /\ device' = device
      /\ UNCHANGED <<card, inserted, int_status, resp, rx, wx, write_block,
                     write_blocks_left, app_cmd>>
  BY DEF FinishFlash, FinishCard, TimeOut, GiveUp, ChipReset, Rest, usdhcVars
<1>2. /\ ready' => ~app_cmd
      /\ device = "flash" => ~ready'
  <2>1. CASE FinishFlash
    BY <2>1 DEF FinishFlash, DeviceOk, FlashPhase, CardInv, ProgressOk
  <2>2. CASE FinishCard
    <3>1. /\ phase = "end" /\ phase \in CardPhase /\ Answered
          /\ cmd = Len(job.commands) /\ ready' = TRUE /\ device = "card"
      BY <2>2 DEF FinishCard, DeviceOk, CardPhase, Answered
    <3>2. app_cmd = (Index = 55)
      BY <3>1 DEF CardInv, AnnouncementOk
    <3>3. Index # 55
      BY <3>1, CardJobIsTyped, CardJobAssumption
    <3> QED
      BY <3>1, <3>2, <3>3
  <2>3. CASE GiveUp
    BY <2>3 DEF GiveUp, CardInv, ProgressOk
  <2>4. CASE TimeOut \/ ChipReset
    BY <2>4 DEF TimeOut, ChipReset
  <2> QED
    BY <2>1, <2>2, <2>3, <2>4
<1>3. phase' \notin CardPhase /\ phase' # "issue" /\ phase' # "clear"
  BY <1>1 DEF CardPhase
<1>4. UsdhcTypes'
  BY <1>1 DEF CardInv, UsdhcTypes
<1> QED
  BY <1>1, <1>2, <1>3, <1>4
     DEF CardInv, ProgressOk, AnnouncementOk, AnswerOk, SentOk, WriteOk

LEMMA FlashKeepsCardInv ==
  CardInv /\ DeviceOk /\ (BeginFlash \/ FlashStep) /\ UNCHANGED usdhcVars
    => CardInv'
<1> SUFFICES ASSUME CardInv, DeviceOk, BeginFlash \/ FlashStep, UNCHANGED usdhcVars
             PROVE  CardInv'
  OBVIOUS
<1>1. /\ device = "flash" /\ phase' \in FlashPhase
      /\ UNCHANGED <<device, ready>> /\ job' # None
      /\ UNCHANGED <<card, inserted, int_status, resp, rx, wx, write_block,
                     write_blocks_left, app_cmd>>
  <2>1. CASE BeginFlash
    BY <2>1, JobAssumption DEF BeginFlash, FlashPhase, usdhcVars
  <2>2. CASE FlashStep
    BY <2>2 DEF FlashStep, Acknowledge, Configure, Strobe, Push, Pop, Stay,
                FlashPhase, usdhcVars, DeviceOk
  <2> QED
    BY <2>1, <2>2
<1>2. phase' \notin CardPhase /\ phase' # "issue" /\ phase' # "clear"
  BY <1>1 DEF FlashPhase, CardPhase
<1>3. UsdhcTypes'
  BY <1>1 DEF CardInv, UsdhcTypes
<1> QED
  BY <1>1, <1>2, <1>3
     DEF CardInv, ProgressOk, AnnouncementOk, AnswerOk, SentOk, WriteOk

LEMMA QuietKeepsCardInv ==
  CardInv /\ (HostInserts \/ UNCHANGED vars) => CardInv'
<1> SUFFICES ASSUME CardInv, HostInserts \/ UNCHANGED vars PROVE CardInv'
  OBVIOUS
<1>1. /\ UNCHANGED <<device, job, phase, cmd, ready, sent, got>>
      /\ UNCHANGED <<card, int_status, resp, rx, wx, write_block,
                     write_blocks_left, app_cmd>>
      /\ inserted' = TRUE \/ inserted' = inserted
  BY DEF HostInserts, Insert, driverVars, vars, usdhcVars
<1>2. /\ Index' = Index /\ ExpectedAnswer' = ExpectedAnswer
      /\ ExpectedData' = ExpectedData /\ Answered' = Answered
  BY <1>1, SameExpectation DEF Answered
<1>3. UsdhcTypes' /\ ProgressOk' /\ SentOk'
  BY <1>1 DEF CardInv, UsdhcTypes, ProgressOk, SentOk, Jobs, WriteAt
<1>4. AnnouncementOk' /\ AnswerOk' /\ WriteOk'
  BY <1>1, <1>2 DEF CardInv, AnnouncementOk, AnswerOk, WriteOk, WriteAt
<1> QED
  BY <1>3, <1>4 DEF CardInv

LEMMA CardInit == Init => CardInv
<1> SUFFICES ASSUME Init PROVE CardInv
  OBVIOUS
<1>1. UsdhcTypes
  <2>1. [w \in 1 .. BlockWords |-> Zero] \in Block
    BY CardAssumption DEF Block
  <2>2. card \in [0 .. Blocks - 1 -> Block]
    BY <2>1 DEF Init, UsdhcInit
  <2>3. wx \in Seq(Word) /\ rx \in Seq(Word) /\ Len(wx) < BlockWords
    BY CardAssumption, EmptySeq DEF Init, UsdhcInit
  <2> QED
    BY <2>2, <2>3 DEF Init, UsdhcInit, UsdhcTypes, Answer, Status
<1> QED
  BY <1>1 DEF Init, UsdhcInit, CardInv, ProgressOk, AnnouncementOk, AnswerOk,
              SentOk, WriteOk, CardPhase

LEMMA CardInvStep == FlashInv /\ CardInv /\ [Next]_vars => CardInv'
<1> SUFFICES ASSUME FlashInv, CardInv, [Next]_vars PROVE CardInv'
  OBVIOUS
<1>1. DeviceOk
  BY DEF FlashInv
<1>2. CASE CardStep
  BY <1>2, ClearKeepsInv, IssueKeepsInv, RespondKeepsInv, ReadPortKeepsInv,
     WritePortKeepsInv, NextCommandKeepsInv DEF CardStep
<1>3. CASE BeginCard
  BY <1>1, <1>3, BeginCardKeepsInv
<1>4. CASE (BeginFlash \/ FlashStep) /\ UNCHANGED usdhcVars
  BY <1>1, <1>4, FlashKeepsCardInv
<1>5. CASE FinishFlash \/ FinishCard \/ TimeOut \/ GiveUp \/ ChipReset
  BY <1>1, <1>5, RestKeepsCardInv
<1>6. CASE HostInserts \/ UNCHANGED vars
  BY <1>6, QuietKeepsCardInv
<1> QED
  BY <1>2, <1>3, <1>4, <1>5, <1>6 DEF Next, DriverStep

(* Every command is answered for itself, as application command exactly if *)
(* CMD55 came before it, with all the data it asks for and none that an    *)
(* abandoned command left in the port (Usdhc::dispatch, SdCard::command).  *)
THEOREM CommandsAreAnswered == Spec => []AnswersMatchCommands
<1>1. Init => FlashInv /\ CardInv
  BY FlashInit, CardInit
<1>2. FlashInv /\ CardInv /\ [Next]_vars => (FlashInv /\ CardInv)'
  BY InvStep, CardInvStep
<1>3. CardInv => AnswersMatchCommands
  BY DEF CardInv, AnswerOk, Answered, CardPhase, AnswersMatchCommands
<1> QED
  BY <1>1, <1>2, <1>3, PTL DEF Spec

(***************************************************************************)
(* Every step is one of the block store, or none                           *)
(***************************************************************************)

StoredBlocks == IF StoreRequest = None THEN 0 ELSE sent \div BlockWords

LEMMA CardStoreInit == Init => Card!Init
<1> SUFFICES ASSUME Init PROVE Card!Init
  OBVIOUS
<1>1. StoreRequest = None
  BY DEF Init, StoreRequest
<1> QED
  BY <1>1 DEF Init, UsdhcInit, Card!Init

(* The steps that store nothing and have the job they had.                 *)
LEMMA QuietCardSteps ==
  ASSUME UNCHANGED <<card, device, job>>, StoreRequest = None \/ sent' = sent
  PROVE  UNCHANGED Card!store
<1>1. StoreRequest' = StoreRequest
  BY DEF StoreRequest, StoreRequestOf
<1> QED
  BY <1>1 DEF Card!store

LEMMA WritePortImplements ==
  CardInv /\ WritePort /\ device = "card" => [Card!Next]_Card!store
<1> SUFFICES ASSUME CardInv, WritePort, device = "card"
             PROVE  [Card!Next]_Card!store
  OBVIOUS
<1> DEFINE word == job.data[sent + 1]
           b == BlockWords
           n == BlockCount(Index, job.count)
           full == Append(wx, word)
<1>1. /\ phase = "write" /\ UNCHANGED <<device, job>> /\ sent' = sent + 1
      /\ card' = IF BlockFull /\ write_block < Blocks
                   THEN [card EXCEPT ![write_block] = full] ELSE card
  BY DEF WritePort, PushWord, Stay
<1>2. /\ job.data \in Seq(Word) /\ Len(job.data) = n * b /\ n \in Nat
      /\ Stored \in Nat /\ Stored < n /\ job.start \in Nat
      /\ wx \in Seq(Word) /\ Len(wx) \in Nat /\ Len(wx) < b
      /\ sent = Stored * b + Len(wx) /\ sent \in Nat /\ sent < Len(job.data)
      /\ \A i \in 1 .. Len(wx) : wx[i] = job.data[Stored * b + i]
  BY <1>1, WriteUnderWay, Zenon
<1>3. b \in Nat \ {0} /\ 0 < b
  BY CardAssumption
<1>4. write_block = job.start + Stored /\ write_block \in Nat
  <2>1. write_block \in Nat
    BY DEF CardInv, UsdhcTypes
  <2> QED
    BY <1>2, <2>1 DEF Stored
<1>5. card \in [0 .. Blocks - 1 -> Block]
  BY DEF CardInv, UsdhcTypes
<1>6. job \in CardJobs /\ job # None /\ job.data # <<>>
  <2>1. job \in CardJobs \union {Startup} /\ job # None
    BY <1>1, CardJobIsTyped DEF CardPhase
  <2>2. job.data # <<>>
    BY <1>2, EmptySeq
  <2> QED
    BY <2>1, <2>2, CardJobAssumption
<1>7. StoreRequest = StoreRequestOf(job) /\ StoreRequest # None /\ StoreRequest' = StoreRequest
  BY <1>1, <1>6, RequestAssumption DEF StoreRequest, StoreRequestOf
<1> HIDE DEF b, n
<1>8. /\ sent \div b = Stored
      /\ Stored * b \in Nat /\ (Stored + 1) * b = Stored * b + b
      /\ Stored + 1 \in Nat
  <2>1. /\ (Stored * b + Len(wx)) \div b = Stored
        /\ Stored * b \in Nat /\ (Stored + 1) * b = Stored * b + b
    BY <1>2, <1>3, WordsOfBlocks
  <2> QED
    BY <1>2, <2>1
<1>9. CASE ~BlockFull
  <2>1. card' = card /\ Len(wx) + 1 \in Nat /\ Len(wx) + 1 < b
    BY <1>1, <1>2, <1>3, <1>9 DEF BlockFull, b
  <2>2. sent' \div b = Stored
    <3>1. (Stored * b + (Len(wx) + 1)) \div b = Stored
      BY <1>2, <1>3, <2>1, WordsOfBlocks
    <3>2. sent' = Stored * b + (Len(wx) + 1)
      BY <1>1, <1>2, <1>8
    <3> QED
      BY <3>1, <3>2
  <2> QED
    BY <1>7, <1>8, <2>1, <2>2 DEF Card!store, b
<1>10. CASE BlockFull
  <2>1. Len(wx) + 1 = b /\ sent' = (Stored + 1) * b
    BY <1>1, <1>2, <1>8, <1>10 DEF BlockFull, b
  <2>2. sent' \div b = Stored + 1
    <3>1. ((Stored + 1) * b + 0) \div b = Stored + 1
      <4>1. Stored + 1 < Stored + 2 /\ Stored + 2 \in Nat
        BY <1>2
      <4> QED
        BY <1>3, <1>8, <4>1, WordsOfBlocks
    <3>2. (Stored + 1) * b + 0 = (Stored + 1) * b
      BY <1>3, <1>8
    <3> QED
      BY <2>1, <3>1, <3>2
  <2>3. Len(job.data) \div b = n
    <3>1. (n * b + 0) \div b = n
      <4>1. n < n + 1 /\ n + 1 \in Nat
        BY <1>2
      <4> QED
        BY <1>2, <1>3, <4>1, WordsOfBlocks
    <3>2. n * b + 0 = n * b
      BY <1>2, <1>3
    <3> QED
      BY <1>2, <3>1, <3>2
  <2>4. full = SubSeq(job.data, Stored * b + 1, (Stored + 1) * b)
    <3> DEFINE lo == Stored * b
    <3>1. lo \in Nat /\ lo + b <= Len(job.data) /\ Len(job.data) \in Nat
      BY <1>2, <1>3, <1>8, <2>1
    <3>2. word \in Word
      BY <1>2, ElementOfSeq
    <3>3. /\ full \in Seq(Word) /\ Len(full) = b
          /\ \A i \in 1 .. Len(wx) : full[i] = wx[i]
          /\ full[Len(wx) + 1] = word
      BY <1>2, <2>1, <3>2
    <3> HIDE DEF full
    <3>4. \A i \in 1 .. b : full[i] = job.data[lo + i]
      <4>1. word = job.data[lo + (Len(wx) + 1)]
        BY <1>2, <3>1
      <4> HIDE DEF word, lo
      <4>2. \A i \in 1 .. Len(wx) : wx[i] = job.data[lo + i]
        BY <1>2 DEF lo
      <4> TAKE i \in 1 .. b
      <4>3. CASE i = Len(wx) + 1
        BY <3>3, <4>1, <4>3
      <4>4. CASE i \in 1 .. Len(wx)
        BY <3>3, <4>2, <4>4
      <4>5. i = Len(wx) + 1 \/ i \in 1 .. Len(wx)
        BY <1>2, <1>3, <2>1
      <4> QED
        BY <4>3, <4>4, <4>5
    <3> HIDE DEF lo, word
    <3>5. /\ SubSeq(job.data, lo + 1, lo + b) \in Seq(Word)
          /\ Len(SubSeq(job.data, lo + 1, lo + b)) = b
          /\ \A i \in 1 .. b : SubSeq(job.data, lo + 1, lo + b)[i] = job.data[lo + i]
      BY <1>2, <1>3, <3>1
    <3>6. full = SubSeq(job.data, lo + 1, lo + b)
      BY <3>3, <3>4, <3>5, SeqEqual
    <3> QED
      BY <1>8, <3>6 DEF lo
  <2>5. /\ Len(StoreRequest.data) = n
        /\ StoreRequest.start = job.start
        /\ StoreRequest.data[Stored + 1] = full
    <3> HIDE DEF full, word
    <3>1. StoreRequest.data = [k \in 1 .. n |-> SubSeq(job.data, (k - 1) * b + 1, k * b)]
      BY <1>7, <2>3 DEF StoreRequestOf, b
    <3>2. Stored + 1 \in 1 .. n /\ (Stored + 1) - 1 = Stored
      BY <1>2
    <3>3. StoreRequest.data[Stored + 1] = SubSeq(job.data, Stored * b + 1, (Stored + 1) * b)
      BY <3>1, <3>2
    <3>4. Len(StoreRequest.data) = n
      BY <1>2, <3>1
    <3> QED
      BY <1>7, <2>4, <3>3, <3>4 DEF StoreRequestOf
  <2> HIDE DEF full, word
  <2>6. card' = [a \in DOMAIN card |-> IF a = job.start + Stored THEN full ELSE card[a]]
    <3>1. CASE write_block < Blocks
      <4>1. card' = [card EXCEPT ![write_block] = full]
        BY <1>1, <1>10, <3>1
      <4> QED
        BY <1>4, <1>5, <4>1
    <3>2. CASE ~(write_block < Blocks)
      <4>1. card' = card
        BY <1>1, <3>2
      <4>2. job.start + Stored \notin 0 .. Blocks - 1
        BY <1>4, <3>2, CardAssumption
      <4> QED
        BY <1>5, <4>1, <4>2
    <3> QED
      BY <3>1, <3>2
  <2>7. Stored < n
    BY <1>2
  <2> QED
    BY <1>7, <1>8, <2>2, <2>5, <2>6, <2>7 DEF Card!Next, Card!Store, b
<1> QED
  BY <1>9, <1>10

LEMMA CardStepImplements ==
  FlashInv /\ CardInv /\ [Next]_vars => [Card!Next]_Card!store
<1> SUFFICES ASSUME FlashInv, CardInv, [Next]_vars PROVE [Card!Next]_Card!store
  OBVIOUS
<1>0. DeviceOk
  BY DEF FlashInv
<1>1. CASE WritePort
  BY <1>0, <1>1, WritePortImplements DEF WritePort, DeviceOk, CardPhase
<1>2. CASE Clear \/ Issue \/ Respond \/ ReadPort \/ NextCommand
  <2>1. UNCHANGED <<card, device, job>> /\ sent' = sent
    BY <1>2 DEF Clear, ClearIntStatus, Issue, Dispatch, DispatchTimesOut, Respond,
                ReadPort, PopWord, NextCommand, Stay, usdhcVars
  <2> QED
    BY <2>1, QuietCardSteps
<1>3. CASE BeginCard
  <2>1. /\ device = "card" /\ job = None /\ sent = 0 /\ sent' = 0
        /\ job' \in Jobs /\ UNCHANGED <<card, device>> /\ job' # None
    BY <1>3, JobAssumption DEF BeginCard, Jobs, CardInv, ProgressOk, usdhcVars
  <2>2. StoreRequest = None
    BY <2>1 DEF StoreRequest
  <2>3. 0 \div BlockWords = 0
    BY CardAssumption, Z3
  <2>4. CASE job'.data = <<>>
    BY <2>1, <2>2, <2>4 DEF StoreRequest, Card!store
  <2>5. CASE job'.data # <<>>
    <3>1. job' \in CardJobs
      BY <2>1, <2>5, CardJobAssumption DEF Jobs
    <3>2. StoreRequest' = StoreRequestOf(job)'
      BY <2>1, <2>5 DEF StoreRequest
    <3>3. StoreRequest' \in {StoreRequestOf(j) : j \in {j \in CardJobs : j.data # <<>>}}
      BY <2>5, <3>1, <3>2 DEF StoreRequestOf
    <3> QED
      BY <2>1, <2>2, <2>3, <3>3 DEF Card!Next, Card!Ask
  <2> QED
    BY <2>4, <2>5
<1>4. CASE (BeginFlash \/ FlashStep) /\ UNCHANGED usdhcVars
  <2>1. device = "flash" /\ device' = device
    BY <1>0, <1>4 DEF BeginFlash, FlashStep, Acknowledge, Configure, Strobe, Push,
                      Pop, Stay, DeviceOk, FlashPhase
  <2>2. card' = card
    BY <1>4 DEF usdhcVars
  <2> QED
    BY <2>1, <2>2 DEF StoreRequest, Card!store
<1>5. CASE FinishFlash \/ FinishCard \/ TimeOut \/ GiveUp \/ ChipReset
  <2>1. card' = card /\ job' = None
    BY <1>5 DEF FinishFlash, FinishCard, TimeOut, GiveUp, ChipReset, Rest, usdhcVars
  <2>2. StoreRequest' = None
    BY <2>1 DEF StoreRequest
  <2> QED
    BY <2>1, <2>2 DEF Card!Next, Card!Withdraw, Card!store
<1>6. CASE HostInserts \/ UNCHANGED vars
  <2>1. UNCHANGED <<card, device, job>> /\ sent' = sent
    BY <1>6 DEF HostInserts, Insert, driverVars, vars, usdhcVars
  <2> QED
    BY <2>1, QuietCardSteps
<1> QED
  BY <1>1, <1>2, <1>3, <1>4, <1>5, <1>6 DEF Next, DriverStep, CardStep

(* USDHC with its card, used as in Storage, is a block store: the blocks   *)
(* of a write are stored whole, in order and where they were asked for,    *)
(* wherever the driver or a reset cuts it short, and the words of one      *)
(* given up half-way are mixed with no other (push_write_word, dispatch).  *)
THEOREM CardIsBlockStore == Spec => ImplementsCard
<1>1. Init => FlashInv /\ CardInv /\ Card!Init
  BY FlashInit, CardInit, CardStoreInit
<1>2. FlashInv /\ CardInv /\ [Next]_vars
        => (FlashInv /\ CardInv)' /\ [Card!Next]_Card!store
  BY InvStep, CardInvStep, CardStepImplements
<1> QED
  BY <1>1, <1>2, PTL DEF Spec, ImplementsCard, Card!Spec

(***************************************************************************)
(* Types of both devices and their drivers                                 *)
(***************************************************************************)

LEMMA RegisterTypes ==
  ASSUME FlashInv, FlexSpiTypes, FlashStep
  PROVE  FlexSpiTypes'
<1>0. flash' \in [Cell -> Byte]
  BY FlashStepKeepsInv DEF FlashInv
<1>1. phase \in FlashPhase
  BY DEF FlashStep, Acknowledge, Configure, Strobe, Push, Pop, FlashPhase
<1>2. /\ job.addr \in Nat /\ job.size \in Nat /\ job.seq \in DOMAIN Lut
      /\ job.data \in Seq(Byte) /\ WordBytes \in Nat
  BY <1>1, JobIsTyped, FlashAssumption
<1>3. CASE Acknowledge
  BY <1>0, <1>3 DEF Acknowledge, ClearIntr, FlexSpiTypes
<1>7. CASE Configure
  <2>1. [addr |-> job.addr, size |-> job.size, seq |-> job.seq] \in Ipcr
    BY <1>2 DEF Ipcr
  <2>2. ipcr' \in Ipcr /\ UNCHANGED <<intr, iptx, iprx, write_op>>
    BY <1>7, <2>1 DEF Configure, WriteIpcr
  <2> QED
    BY <1>0, <2>2 DEF FlexSpiTypes
<1>4. CASE Strobe
  <2>1. ipcr.addr \in Nat /\ ipcr.size \in Nat
    BY DEF FlexSpiTypes, Ipcr
  <2>2. iprx' \in Seq(Byte)
    BY <1>4, <2>1, ReadBytesAreTyped DEF Strobe, Trigger, Staged, FlexSpiTypes
  <2>3. iptx' \in Seq(Byte) /\ intr' \subseteq {"IPCMDDONE"} /\ ipcr' = ipcr
    BY <1>4, EmptySeq DEF Strobe, Trigger, FlexSpiTypes
  <2>4. write_op' \in WriteOp \union {None}
    <3>1. [addr |-> ipcr.addr, size |-> ipcr.size,
           to_flash |-> "RADDR" \in Lut[ipcr.seq]] \in WriteOp
      BY <2>1 DEF WriteOp
    <3> QED
      BY <1>4, <3>1 DEF Strobe, Trigger
  <2> QED
    BY <1>0, <2>2, <2>3, <2>4 DEF FlexSpiTypes
<1>5. CASE Push
  <2>1. PayloadWord \in Seq(Byte)
    <3>1. ASSUME NEW i \in 1 .. WordBytes
          PROVE  (IF sent * WordBytes + i <= Len(job.data)
                    THEN job.data[sent * WordBytes + i] ELSE {}) \in Byte
      <4>1. sent \in Nat
        BY <1>5 DEF Push, FlashInv, LatchOk
      <4>2. sent * WordBytes + i \in Nat \ {0}
        BY <1>2, <4>1
      <4>3. {} \in Byte /\ Len(job.data) \in Nat
        BY <1>2, LenProperties DEF Byte
      <4> QED
        BY <1>2, <4>2, <4>3, ElementOfSeq
    <3> QED
      BY <1>2, <3>1 DEF PayloadWord
  <2>2. iptx \o PayloadWord \in Seq(Byte) /\ <<>> \in Seq(Byte)
    BY <2>1, EmptySeq, ConcatProperties DEF FlexSpiTypes
  <2>3. iptx' \in Seq(Byte)
    BY <1>5, <2>2 DEF Push, PushPayload
  <2>4. write_op' \in WriteOp \union {None} /\ UNCHANGED <<ipcr, intr, iprx>>
    BY <1>5 DEF Push, PushPayload, FlexSpiTypes
  <2> QED
    BY <1>0, <2>3, <2>4 DEF FlexSpiTypes
<1>6. CASE Pop
  <2>1. iprx \in Seq(Byte) /\ Len(iprx) \in Nat
    BY LenProperties DEF FlexSpiTypes
  <2>2. SubSeq(iprx, WordBytes + 1, Len(iprx)) \in Seq(Byte)
    <3>1. \A k \in WordBytes + 1 .. Len(iprx) : iprx[k] \in Byte
      BY <1>2, <2>1, ElementOfSeq
    <3> QED
      BY <1>2, <2>1, <3>1, SubSeqProperties
  <2> QED
    BY <1>0, <1>6, <2>2 DEF Pop, PopStaged, FlexSpiTypes
<1> QED
  BY <1>3, <1>4, <1>5, <1>6, <1>7 DEF FlashStep

(* What a read of the flash leaves with the driver.                        *)
LEMMA PoppedIsTyped ==
  ASSUME FlashInv, FlexSpiTypes, got \in Seq(Byte), Pop
  PROVE  got' \in Seq(Byte)
<1>1. phase \in FlashPhase
  BY DEF Pop, FlashPhase
<1>2. job.size \in Nat /\ WordBytes \in Nat \ {0}
  BY <1>1, JobIsTyped, FlashAssumption
<1>3. StagedWord \in Seq(Byte)
  <2>1. ASSUME NEW k \in 1 .. WordBytes
        PROVE  (IF k <= Len(iprx) THEN iprx[k] ELSE Erased) \in Byte
    <3>1. iprx \in Seq(Byte) /\ Len(iprx) \in Nat
      BY LenProperties DEF FlexSpiTypes
    <3> QED
      BY <1>2, <3>1, ElementOfSeq DEF Byte, Erased
  <2> QED
    BY <1>2, <2>1 DEF StagedWord
<1> DEFINE all == got \o StagedWord
           m   == Min({Len(all), job.size})
<1>4. all \in Seq(Byte) /\ Len(all) \in Nat
  BY <1>3, ConcatProperties, LenProperties
<1>5. got' = SubSeq(all, 1, m)
  BY DEF Pop
<1> HIDE DEF all
<1>6. m \in Nat /\ m <= Len(all)
  BY <1>2, <1>4, LeastOfTwo
<1> HIDE DEF m
<1>7. \A k \in 1 .. m : all[k] \in Byte
  BY <1>4, <1>6, ElementOfSeq
<1> QED
  BY <1>5, <1>6, <1>7, SubSeqProperties

LEMMA TypeStep ==
  ASSUME FlashInv, CardInv, CardInv', TypeInvariant, [Next]_vars
  PROVE  TypeInvariant'
<1>0. UsdhcTypes'
  BY DEF CardInv
<1>1. CASE FlashStep
  <2>1. device = "flash" /\ UNCHANGED <<device, job, ready>>
    BY <1>1 DEF FlashStep, Acknowledge, Configure, Strobe, Push, Pop, Stay,
                FlashInv, DeviceOk, FlashPhase
  <2>2. sent' \in Nat
    BY <1>1 DEF FlashStep, Acknowledge, Configure, Strobe, Push, Pop, TypeInvariant
  <2>3. got' \in Seq(Byte)
    BY <1>1, <2>1, PoppedIsTyped
       DEF FlashStep, Acknowledge, Configure, Strobe, Push, TypeInvariant
  <2> QED
    BY <1>0, <1>1, <2>1, <2>2, <2>3, RegisterTypes DEF TypeInvariant
<1>2. CASE CardStep /\ UNCHANGED flexspiVars
  <2>1. /\ device = "card" /\ UNCHANGED <<device, job, ready>> /\ sent' \in Nat
        /\ FlexSpiTypes'
    BY <1>2 DEF CardStep, Clear, Issue, Respond, ReadPort, WritePort, NextCommand,
                Stay, FlashInv, DeviceOk, CardPhase, TypeInvariant, flexspiVars,
                FlexSpiTypes
  <2>2. got' \in Seq(Word)
    <3>1. CASE ReadPort
      <4>1. Head(rx) \in Word /\ got \in Seq(Word) /\ got' = Append(got, Head(rx))
        BY <2>1, <3>1 DEF ReadPort, PortWord, TypeInvariant, UsdhcTypes
      <4> QED
        BY <4>1
    <3>2. CASE ~ReadPort
      BY <1>2, <2>1, <3>2, EmptySeq DEF CardStep, Clear, Issue, Respond, WritePort,
                                        NextCommand, TypeInvariant
    <3> QED
      BY <3>1, <3>2
  <2> QED
    BY <1>0, <2>1, <2>2 DEF TypeInvariant
<1>3. CASE \/ BeginFlash
           \/ BeginCard /\ UNCHANGED flexspiVars
  BY <1>0, <1>3 DEF BeginFlash, BeginCard, flexspiVars, TypeInvariant, FlexSpiTypes
<1>4. CASE FinishFlash \/ FinishCard \/ TimeOut \/ GiveUp \/ ChipReset
  <2>1. Rest /\ ready' \in BOOLEAN
    BY <1>4 DEF FinishFlash, FinishCard, TimeOut, GiveUp, ChipReset, TypeInvariant
  <2> QED
    BY <1>0, <2>1, EmptySeq DEF Rest, flexspiVars, TypeInvariant, FlexSpiTypes
<1>5. CASE \/ HostInserts /\ UNCHANGED flexspiVars
           \/ UNCHANGED vars
  BY <1>0, <1>5 DEF HostInserts, driverVars, flexspiVars, vars, TypeInvariant,
                    FlexSpiTypes
<1> QED
  BY <1>1, <1>2, <1>3, <1>4, <1>5 DEF Next, DriverStep

LEMMA TypeInit == Init => TypeInvariant
<1> SUFFICES ASSUME Init PROVE TypeInvariant
  OBVIOUS
<1>1. UsdhcTypes
  BY CardInit DEF CardInv
<1>2. ipcr \in Ipcr
  <2>1. (CHOOSE seq \in DOMAIN Lut : TRUE) \in DOMAIN Lut
    BY FlashAssumption, Zenon
  <2> QED
    BY <2>1 DEF Init, FlexSpiInit, Ipcr
<1>3. FlexSpiTypes
  BY <1>2, FlashInit, EmptySeq DEF Init, FlexSpiInit, FlexSpiTypes, FlashInv
<1> QED
  BY <1>1, <1>3, EmptySeq DEF Init, TypeInvariant

(* FIFOs, ports and latches hold bytes, words and lengths of their kind,   *)
(* and less than a block is ever gathered of a write (wx of Usdhc).        *)
THEOREM StorageTypesAreKept == Spec => []TypeInvariant
<1>1. Init => FlashInv /\ CardInv /\ TypeInvariant
  BY FlashInit, CardInit, TypeInit
<1>2. FlashInv /\ CardInv /\ TypeInvariant /\ [Next]_vars
        => (FlashInv /\ CardInv /\ TypeInvariant)'
  BY InvStep, CardInvStep, TypeStep
<1> QED
  BY <1>1, <1>2, PTL DEF Spec
=============================================================================
