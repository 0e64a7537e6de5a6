SPECIFICATION FairSpec
CONSTANTS
  None = None
  Bits = {"b0"}
  FlashSize = 4
  SectorSize = 2
  WordBytes = 2
  StatusBytes = 2
  IdBytes = 2
  Jedec <- MCJedec
  Lut <- MCLut
  FlashJobs <- MCFlashJobs
  Blocks = 2
  BlockWords = 2
  Word = {0, 1}
  Zero = 0
  Scr <- MCScr
  SwitchStatus <- MCSwitchStatus
  CardJobs <- MCCardJobs
  Startup <- MCStartup
INVARIANTS TypeInvariant ReadsReturnCells AnswersMatchCommands
PROPERTIES ImplementsNor ImplementsCard TransfersFinish
