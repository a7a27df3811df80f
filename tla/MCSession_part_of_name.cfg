SPECIFICATION Spec
CONSTANTS
  Names <- MCNames
  NoName = ""
  InitDir <- CleanDir
  Typed = {"ab"}
  FirstWord <- MCFirstWord
  Occurs <- MCOccurs
  FileBuffer = 2
  RecvBuffer = 3
  MsgLen = 1
  Modulus = 8
  WireCap = 4
  ReqCap = 2
  MaxRequests = 1
  Faults = {}
  MaxEdits = 0
  EditSizes = {}
INVARIANTS
  MissingIsAnswered
CHECK_DEADLOCK FALSE
