SPECIFICATION FairSpec
CONSTANTS
  MaxChannel = 2
  CiterMask = 3
  RamSize = 8
  Stored <- MCStored
  Setups <- MCSetups
  MaxPushed = 6
INVARIANTS TypeInvariant RingHoldsLatest GuardsIntact OutputIsInOrder BlocksAreAnnounced CopiesAreComplete
PROPERTIES OneShotStopsOnBlock BytesAreMoved EveryStartIsServed
