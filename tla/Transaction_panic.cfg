SPECIFICATION Spec
CONSTANTS
  QueueCap = 4
  Cmds <- AllCmds
  DataCmds <- Reads
  ReadCmds <- Reads
  RspCmds <- Responded
  CrcCmds <- Checked
  HwErrors = {}
  SlowAccept = FALSE
  SlowAnswer = FALSE
  WpLevels = {FALSE}
  MaxCd = 5
  MaxLate = 1
INVARIANT IsrNeverPanics
