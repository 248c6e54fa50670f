--------------------------- MODULE MCClockControl ---------------------------
(* ClockControl with the reset values of the registers, on a command       *)
(* without a response, one with, and one with data.                        *)
EXTENDS ClockControl

EdgeSelReset == [host_div |-> 2, phase |-> 0]
TmoutReset == [data |-> DATA_TIMEOUT_MAX, response |-> 64]

Sent == {c \in DriverCmds : c.opcode \in {0, 41, 18}}
=============================================================================
