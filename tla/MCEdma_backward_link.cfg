SPECIFICATION FairSpec
CONSTANTS
  MaxChannel = 2
  CiterMask = 3
  RamSize = 8
  Stored <- MCStored
  Setups <- BackwardSetups
  MaxPushed = 6
PROPERTY EveryStartIsServed
