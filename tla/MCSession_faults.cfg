SPECIFICATION Spec
CONSTANTS
  Names <- OddNames
  NoName = ""
  InitDir <- OddDir
  Typed = {"big", "two", "sub"}
  FirstWord <- OddFirstWord
  Occurs <- OddOccurs
  FileBuffer = 2
  RecvBuffer = 3
  MsgLen = 2
  Modulus = 4
  WireCap = 3
  ReqCap = 2
  MaxRequests = 2
  Faults = {"refused", "accept", "fin", "rst", "kill", "create", "split"}
  MaxEdits = 1
  EditSizes = {1, 3}
INVARIANTS
  TypeOK
  SizeAgrees
CHECK_DEADLOCK FALSE
