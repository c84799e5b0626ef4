SPECIFICATION KeepSpec
CONSTANTS
  own = own
  got = got
  Mine <- OwnFiles
  Listed <- ListOrder
  MaxHelp = 1
  AutoPin = AutoPin
  Peer = Peer
  NoFile = NoFile
  MaxClicks = 2
  MaxFaults = 1
INVARIANTS SkipWins ReceivedIsAsked
PROPERTIES ReservedArrives
CHECK_DEADLOCK FALSE
