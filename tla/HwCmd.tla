-------------------------------- MODULE HwCmd -------------------------------
(***************************************************************************)
(* The word written to CMD: the bit field SdmmcHwCmd, make_hw_cmd, which   *)
(* fills it from a command, and what clk_update_cmd and start_cmd add.     *)
(*                                                                         *)
(* A u32 is the set of the numbers of its 1 bits, and so is a value that   *)
(* goes into a field: {0} for true, {} for false.  A set of flags is the   *)
(* set of their names.                                                     *)
(***************************************************************************)
EXTENDS Naturals

Bit == 0..31
Word == SUBSET Bit

\* The bits of a number that a u8 holds.
BitsOf(n) == {i \in 0..7 : (n \div 2^i) % 2 = 1}

-----------------------------------------------------------------------------
(* SdmmcHwCmd.                                                             *)

\* Shift and width of each field.
Fields == [
  cmd_index          |-> <<0, 6>>,
  response_expect    |-> <<6, 1>>,
  response_long      |-> <<7, 1>>,
  check_response_crc |-> <<8, 1>>,
  data_expected      |-> <<9, 1>>,
  rw                 |-> <<10, 1>>,
  stream_mode        |-> <<11, 1>>,
  send_auto_stop     |-> <<12, 1>>,
  wait_complete      |-> <<13, 1>>,
  stop_abort_cmd     |-> <<14, 1>>,
  send_init          |-> <<15, 1>>,
  card_num           |-> <<16, 5>>,
  update_clk_reg     |-> <<21, 1>>,
  read_ceata         |-> <<22, 1>>,
  ccs_expected       |-> <<23, 1>>,
  enable_boot        |-> <<24, 1>>,
  expect_boot_ack    |-> <<25, 1>>,
  disable_boot       |-> <<26, 1>>,
  boot_mode          |-> <<27, 1>>,
  volt_switch        |-> <<28, 1>>,
  use_hold_reg       |-> <<29, 1>>,
  reserved           |-> <<30, 1>>,
  start_command      |-> <<31, 1>> ]

Field == DOMAIN Fields

Shift(f) == Fields[f][1]

\* The _MASK of a field.
Mask(f) == Shift(f)..(Shift(f) + Fields[f][2] - 1)

\* The getter of a field, as a set of bits again.
Get(w, f) == {b - Shift(f) : b \in w \cap Mask(f)}

\* The getter of a field of one bit.
Has(w, f) == w \cap Mask(f) # {}

\* Mutant of With: the shifted value is not masked.
WithUnmasked(w, f, v) == (w \ Mask(f)) \cup {b + Shift(f) : b \in v}

\* The with_ setter of a field.  The debug_assert of the two wide ones is left
\* out: a release build masks the value.
With(w, f, v) == (w \ Mask(f)) \cup ({b + Shift(f) : b \in v} \cap Mask(f))

\* The setters of several fields of one bit, with true.
WithAll(w, fs) == w \cup UNION {Mask(f) : f \in fs}

-----------------------------------------------------------------------------
(* Commands: SdmmcCmd, as far as make_hw_cmd looks at it.                  *)

MMC_GO_IDLE_STATE == 0
SD_SWITCH_VOLTAGE == 11
MMC_STOP_TRANSMISSION == 12

\* The commands that move blocks until they are stopped.
Multiple == {11, 18, 20, 25}

\* Flags of a response, SCF_RSP_R1 and so on; R6 and R7 are R1.
RspR0 == {}
RspR1 == {"PRESENT", "CRC", "IDX"}
RspR2 == {"PRESENT", "CRC", "136"}
RspR3 == {"PRESENT"}

Flag == {"READ", "PRESENT", "CRC", "IDX", "136", "BSY"}

\* data says whether there is a buffer; datalen is its length in blocks.
SdmmcCmd(opcode, flags) == [opcode |-> opcode, flags |-> flags, data |-> FALSE, datalen |-> 0]
ReadCmd(opcode, blocks) ==
  [opcode |-> opcode, flags |-> RspR1 \cup {"READ"}, data |-> TRUE, datalen |-> blocks]

\* Every command the driver has code to send.
DriverCmds ==
  { SdmmcCmd(MMC_GO_IDLE_STATE, RspR0),
    SdmmcCmd(8, RspR1),                          \* SD_SEND_IF_COND
    SdmmcCmd(55, RspR1), SdmmcCmd(41, RspR3),    \* MMC_APP_CMD, SD_APP_OP_COND
    SdmmcCmd(1, RspR3),                          \* MMC_SEND_OP_COND
    SdmmcCmd(58, RspR2),                         \* SD_READ_OCR
    SdmmcCmd(2, RspR2), SdmmcCmd(9, RspR2),      \* MMC_ALL_SEND_CID, MMC_SEND_CSD
    SdmmcCmd(3, RspR1),                          \* SD_SEND_RELATIVE_ADDR
    SdmmcCmd(7, RspR0), SdmmcCmd(7, RspR1),      \* MMC_SELECT_CARD
    SdmmcCmd(13, RspR1),                         \* MMC_SEND_STATUS
    ReadCmd(17, 1), ReadCmd(18, 2) }             \* MMC_READ_BLOCK_...

\* Mutant of WaitComplete: go idle waits, too.
WaitCompleteAlways(c) == c.opcode \notin {MMC_STOP_TRANSMISSION, SD_SWITCH_VOLTAGE}

WaitComplete(c) ==
  c.opcode \notin {MMC_STOP_TRANSMISSION, MMC_GO_IDLE_STATE, SD_SWITCH_VOLTAGE}

\* The fields of one bit that make_hw_cmd sets to true.
Asserted(c) ==
  LET on == [ stop_abort_cmd     |-> c.opcode = MMC_STOP_TRANSMISSION,
              send_init          |-> c.opcode = MMC_GO_IDLE_STATE,
              volt_switch        |-> c.opcode = SD_SWITCH_VOLTAGE,
              wait_complete      |-> WaitComplete(c),
              response_expect    |-> "PRESENT" \in c.flags,
              response_long      |-> {"PRESENT", "136"} \subseteq c.flags,
              check_response_crc |-> "CRC" \in c.flags,
              data_expected      |-> c.data,
              rw                 |-> c.data /\ "READ" \in c.flags,
              send_auto_stop     |-> c.data /\ c.datalen > 0 /\ c.opcode \in Multiple ]
  IN  {f \in DOMAIN on : on[f]}

\* make_hw_cmd.  Its assert, that datalen is a multiple of blklen, holds here.
MakeHwCmd(c) == WithAll(With({}, "cmd_index", BitsOf(c.opcode)), Asserted(c))

\* clk_update_cmd for slot n.
ClkUpdateCmd(n, is_cmd11) ==
  WithAll(With({}, "card_num", BitsOf(n)),
          {"update_clk_reg", "wait_complete"} \cup (IF is_cmd11 THEN {"volt_switch"} ELSE {}))

\* What start_cmd adds before it writes a word to CMD.
StartWord(w, n) ==
  With(WithAll(w, {"use_hold_reg", "start_command"}), "card_num", BitsOf(n))

\* cmd_taken and ll_is_command_taken.
Taken(w) == ~Has(w, "start_command")
=============================================================================
