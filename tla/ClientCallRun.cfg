SPECIFICATION Spec
CONSTANTS
  None = None
  DepthLimit = 14
  U8 = 4
  U32 = 8
  U64 = 16
  Version = 1
  Alkabi = 1
  Primitives = {"u8", "u128", "string"}
  Upper <- MCUpper
  Lower <- MCLower
  Decode <- DecodeType
  BorshValue <- ReadBorsh
  Returnable <- Returned
  ReturnData <- EncodeReturn
  ClientWords <- Sent
  ByteBase = 3
  WordLen = 2
  USize = 6
  Reserve = 2
  Invalid = {2}
  Missing = None
  ReadDoc <- ParseAbi
  JsonText <- Pretty
  TsText <- ToTs
  Builds <- MCBuilds
  Exprs <- MCExprs
  VerifyTrials = 3
  MaxRuns = 2
  CallsAfter = {1}
  Numbers <- MCNumbers
  Strings <- MCStrings
  MaxList = 1
  Padding <- MCPadding
  StrayWords <- MCStrayWords
  MaxStray = 3
INVARIANTS TsNotAhead FilesReadBack CallsArrive DecodesBounded DecodeInverts
