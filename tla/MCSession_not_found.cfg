SPECIFICATION Spec
CONSTANTS
  Names <- MCNames
  NoName = ""
  InitDir <- OneFileDir
  Typed = {"none"}
  FirstWord <- MCFirstWord
  Occurs <- MCOccurs
  FileBuffer = 2
  RecvBuffer = 3
  MsgLen = 1
  Modulus = 4
  WireCap = 4
  ReqCap = 2
  MaxRequests = 1
  Faults = {}
  MaxEdits = 1
  EditSizes = {3}
INVARIANTS
  NotFoundNeverTrips
CHECK_DEADLOCK FALSE
