SPECIFICATION Spec
CONSTANTS
  Freqs = {400, 20000}
  Cmds <- Sent
  ResetEdgeSel <- EdgeSelReset
  ResetTmout <- TmoutReset
INVARIANTS
  TypeOK
  CommandClocked
PROPERTY ClockSteadyUnderCommand
