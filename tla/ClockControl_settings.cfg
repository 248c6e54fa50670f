SPECIFICATION Spec
CONSTANTS
  Freqs = {20000}
  Cmds <- Sent
  ResetEdgeSel <- EdgeSelReset
  ResetTmout <- TmoutReset
INVARIANT CommandSettings
