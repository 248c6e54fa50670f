SPECIFICATION PromptSpec
CONSTANTS
  QueueCap = 32
  Cmds <- AllCmds
  DataCmds <- Reads
  ReadCmds <- Reads
  RspCmds <- Responded
  CrcCmds <- Checked
  HwErrors = {"DCRC"}
  SlowAccept = FALSE
  SlowAnswer = FALSE
  WpLevels = {FALSE}
  MaxCd = 0
  MaxLate = 1
PROPERTY RetryRecovers
