SPECIFICATION AcceptSpec
CONSTANTS
  QueueCap = 32
  Cmds <- AllCmds
  DataCmds <- Reads
  ReadCmds <- Reads
  RspCmds <- Responded
  CrcCmds <- Checked
  HwErrors = {"RTO", "DCRC", "SBE"}
  SlowAccept = FALSE
  SlowAnswer = TRUE
  WpLevels = {TRUE, FALSE}
  MaxCd = 1
  MaxLate = 1
INVARIANTS
  TypeOK
  StaleAnswersBounded
  OkMeansFinished
  ErrorsReported
  FailedTransferStopsDma
PROPERTIES
  TransactionReturns
  CommandServed
