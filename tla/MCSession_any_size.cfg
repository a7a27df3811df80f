SPECIFICATION Spec
CONSTANTS
  Names <- OddNames
  NoName = ""
  InitDir <- BigDir
  Typed = {"big"}
  FirstWord <- OddFirstWord
  Occurs <- OddOccurs
  FileBuffer = 2
  RecvBuffer = 3
  MsgLen = 1
  Modulus = 4
  WireCap = 4
  ReqCap = 2
  MaxRequests = 1
  Faults = {}
  MaxEdits = 0
  EditSizes = {}
INVARIANTS
  DownloadFaithful
CHECK_DEADLOCK FALSE
