SPECIFICATION FairSpec
CONSTANTS
  MaxChannel = 2
  CiterMask = 3
  RamSize = 8
  Stored <- MCStored
  Setups <- WidthSetups
  MaxPushed = 6
INVARIANT CopiesAreComplete
