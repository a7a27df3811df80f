SPECIFICATION FairSpec
CONSTANTS
  Names <- MCNames
  NoName = ""
  InitDir <- CleanDir
  Typed = {"abc", "b", "none"}
  FirstWord <- MCFirstWord
  Occurs <- MCOccurs
  FileBuffer = 2
  RecvBuffer = 3
  MsgLen = 1
  Modulus = 8
  WireCap = 4
  ReqCap = 2
  MaxRequests = 4
  Faults = {"refused", "accept"}
  MaxEdits = 0
  EditSizes = {}
INVARIANTS
  MissingIsAnswered
  NoMutualWait
PROPERTIES
  RequestAnswered
CHECK_DEADLOCK FALSE
