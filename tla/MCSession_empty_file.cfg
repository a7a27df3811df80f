SPECIFICATION FairSpec
CONSTANTS
  Names <- MCNames
  NoName = ""
  InitDir <- EmptyFileDir
  Typed = {"abc"}
  FirstWord <- MCFirstWord
  Occurs <- MCOccurs
  FileBuffer = 2
  RecvBuffer = 3
  MsgLen = 1
  Modulus = 4
  WireCap = 4
  ReqCap = 2
  MaxRequests = 1
  Faults = {}
  MaxEdits = 0
  EditSizes = {}
PROPERTIES
  RequestAnswered
CHECK_DEADLOCK FALSE
