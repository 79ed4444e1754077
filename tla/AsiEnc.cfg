SPECIFICATION Spec
CONSTANTS
  Short = 2
  Long = 3
  Line = 13
  Rates = {2, 5}
  TxModes <- MCTxModes
  Base = 16
  Sync = 15
  TimeSize = 2
  Streams <- MCStreams
  Pieces = {1, 3}
  Rooms = {1, 40}
  AnyTime = FALSE
CHECK_DEADLOCK FALSE
INVARIANTS CutsDoNotShow PacketsComeOutWhole PacketsGoOutInTime
