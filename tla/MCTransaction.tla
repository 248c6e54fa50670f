---------------------------- MODULE MCTransaction ---------------------------
(***************************************************************************)
(* Transaction on the commands the driver sends, of which it sees no more  *)
(* than what the flags, and the words in CMD, say:                         *)
(*   "R0"    CMD0 and the CMD7 that deselects, no response                 *)
(*   "R3"    ACMD41 and CMD1, a response without CRC                       *)
(*   "R1"    a response with CRC: all the others                           *)
(*   "Read"  CMD17 and CMD18, a response with CRC, then data               *)
(***************************************************************************)
EXTENDS Transaction, HwCmd

AllCmds == {"R0", "R3", "R1", "Read"}
Reads == {"Read"}
Responded == {"R3", "R1", "Read"}
Checked == {"R1", "Read"}

Kind(c) ==
  LET w == MakeHwCmd(c)
  IN  IF Has(w, "data_expected") THEN "Read"
      ELSE IF Has(w, "check_response_crc") THEN "R1"
      ELSE IF Has(w, "response_expect") THEN "R3"
      ELSE "R0"

\* The kinds are those of the commands, and a kind tells about each of its
\* commands what the driver finds in the flags and the controller in the word.
ASSUME KindsAssumption ==
  /\ AllCmds = {Kind(c) : c \in DriverCmds}
  /\ \A c \in DriverCmds :
       LET w == MakeHwCmd(c)
       IN  /\ (Kind(c) \in Reads) = (c.data /\ "READ" \in c.flags)
           /\ (Kind(c) \in Reads) = (Has(w, "data_expected") /\ Has(w, "rw"))
           /\ (Kind(c) \in Responded) = ("PRESENT" \in c.flags)
           /\ (Kind(c) \in Responded) = Has(w, "response_expect")
           /\ (Kind(c) \in Checked) = ("CRC" \in c.flags)
           /\ (Kind(c) \in Checked) = Has(w, "check_response_crc")
           /\ ~Has(w, "volt_switch")
=============================================================================
