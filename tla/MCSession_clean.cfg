SPECIFICATION FairSpec
CONSTANTS
  Names <- MCNames
  NoName = ""
  InitDir <- CleanDir
  Typed = {"abc", "b", "ab", "none"}
  FirstWord <- MCFirstWord
  Occurs <- MCOccurs
  FileBuffer = 2
  RecvBuffer = 3
  MsgLen = 2
  Modulus = 8
  WireCap = 4
  ReqCap = 2
  MaxRequests = 4
  Faults = {"refused", "accept", "fin", "kill"}
  MaxEdits = 0
  EditSizes = {}
INVARIANTS
  DownloadFaithful
  TransferInv
PROPERTIES
  ListenerRecovers
  TransferRefines
CHECK_DEADLOCK FALSE
