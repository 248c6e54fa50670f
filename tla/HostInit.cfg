SPECIFICATION Spec
CONSTANTS
  QueueCap = 2
  HwBits = {"CD", "CMD_DONE", "IO_SLOT1"}
  DmaBits = {"NI", "RI"}
  MaxRaise = 4
  MaxReboot = 1
INVARIANTS
  TypeOK
  InitArms
PROPERTIES
  InitEnds
  EventsReported
CHECK_DEADLOCK FALSE
