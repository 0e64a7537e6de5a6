\* The devices under their drivers.
SPECIFICATION Spec
CONSTANTS
  RegCount = 2
  NoDevice = NoDevice
  WordBits = 2
  Idle = 3
  Pins = {0, 16}
  Slots = {0, 1}
  Channels = 2
  AdcValues = {0, 1}
  Disabled = 4
  Benches <- MCBenches
  JobsOf <- MCJobsOf
  None = None
  Ports = {4, 5, 7}
  Trigger <- MCTrigger
  MaxMoves = 3
  MaxTurns = 1
  Nothing = Nothing
  NumMb = 4
  FlagBits = 3
  StdBits = 1
  ExtBits = 2
  DataBytes = 2
  RxMbs = {1, 2}
  TxMb = 0
  Incoming <- MCIncoming
  Outgoing <- MCOutgoing
  NoMb = NoMb
INVARIANT TypeInvariant
INVARIANT AnswersMatchPeers
INVARIANT FramesAreKept
INVARIANT InputsAreFollowed
PROPERTY EventsAreServed
CHECK_DEADLOCK FALSE
