SPECIFICATION Spec
CONSTANTS
  QueueCap = 32
  Cmds <- AllCmds
  DataCmds <- Reads
  ReadCmds <- Reads
  RspCmds <- Responded
  CrcCmds <- Checked
  HwErrors = {}
  SlowAccept = TRUE
  SlowAnswer = FALSE
  WpLevels = {FALSE}
  MaxCd = 0
  MaxLate = 1
INVARIANT CompletedMeansFinished
