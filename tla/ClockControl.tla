---------------------------- MODULE ClockControl ----------------------------
(***************************************************************************)
(* The clock registers of the slot the card is in, as the thread programs  *)
(* them: set_clk_div in Sdmmc::init, set_card_clk before every command,    *)
(* set_clk_always_on around the wait for the card, and change_to_slot in   *)
(* start_cmd.  The card's clock is what the CIU, the part of the           *)
(* controller that drives the card, copied from CLKDIV and CLKENA when it  *)
(* took the last clock update; the host divider acts at once.              *)
(*                                                                         *)
(* A command and a clock update are words (HwCmd) that go through the same *)
(* register CMD, and a start_cmd that gives up leaves what it wrote there. *)
(* What a command does is in Transaction.  Every SdmmcCard uses Slot1 and  *)
(* no other.                                                               *)
(***************************************************************************)
EXTENDS ClockDivider, HwCmd

CONSTANTS
  Freqs,         \* freq_khz of an SdmmcCard, which no code changes
  Cmds,          \* the commands that are sent
  ResetEdgeSel,  \* reset value of CLK_EDGE_SEL
  ResetTmout     \* reset value of TMOUT

EdgeSel == [host_div : 1..16, phase : 0..7]
DATA_TIMEOUT_MAX == 16777215   \* the field has 24 bits
Tmout == [data : 0..DATA_TIMEOUT_MAX, response : 0..255]

\* The driver asks for 20000 kHz.  For more than this, the product in
\* set_data_timeout does not fit a u32.
MAX_FREQ_KHZ == 42949672
ASSUME FreqsAssumption == Freqs \subseteq 1..MAX_FREQ_KHZ
ASSUME CmdsAssumption == Cmds \subseteq DriverCmds
ASSUME ResetAssumption == ResetEdgeSel \in EdgeSel /\ ResetTmout \in Tmout

VARIABLES
  pc,        \* where the thread is: the step, and the number of the update
  freq_khz,  \* of the card
  edgeSel,   \* CLK_EDGE_SEL: ccllkin_edge_h + 1 and the phases
  clkdiv,    \* CLKDIV, clk_divider1
  clkena,    \* CLKENA: the bits of the slot in cclk_enable and lp_enable
  tmout,     \* TMOUT
  hwCmd,     \* cmd of start_cmd, until it is written
  cmdReg,    \* CMD, the last word written to it
  ciu,       \* the CIU's copy of clkdiv and clkena
  active,    \* active_slot = Some(slot)
  slotCtx    \* the slot's SlotCtx

vars == <<pc, freq_khz, edgeSel, clkdiv, clkena, tmout, hwCmd, cmdReg, ciu, active,
          slotCtx>>

\* The number of Slot1.
SLOT == 1

Off == [cclk |-> FALSE, lp |-> FALSE]

\* Updates 1 to 3 are those of set_card_clk, 4 is the command itself, 5 the
\* update of set_clk_always_on.
Command == 4
AlwaysOnUpdate == 5

\* do_transaction, or set_clk_always_on, has returned.
Idle == <<"set", 1>>

\* After the reset of the peripheral in Sdmmc::init.
Init ==
  /\ pc = <<"set", 0>> /\ freq_khz \in Freqs
  /\ edgeSel = ResetEdgeSel /\ clkdiv = 0 /\ clkena = Off
  /\ tmout = ResetTmout
  /\ hwCmd = {} /\ cmdReg = {} /\ ciu = [clkdiv |-> 0, clkena |-> Off]
  /\ active = FALSE /\ slotCtx = [freq |-> 0, host_div |-> 0]

-----------------------------------------------------------------------------
(* Register writes.  write() starts from the reset value and not from what *)
(* the register holds, so each resets the fields it does not name.         *)

LlSetClkDiv(div) == [ResetEdgeSel EXCEPT !.host_div = div]

LlInitPhaseDelay(r) == [ResetEdgeSel EXCEPT !.phase = 4]

SetClkDiv(div) == LlInitPhaseDelay(LlSetClkDiv(div))

DATA_TIMEOUT_MS == 100

Min24(n) == IF n > DATA_TIMEOUT_MAX THEN DATA_TIMEOUT_MAX ELSE n

SetDataTimeout(freq) == [ResetTmout EXCEPT !.data = Min24(DATA_TIMEOUT_MS * freq)]

LlSetResponseTimeout(r, cycles) == [ResetTmout EXCEPT !.response = cycles]

-----------------------------------------------------------------------------
(* The thread.                                                             *)

Goes(a, b) == pc = a /\ pc' = b

\* Sdmmc::init: set_clk_div(2).
HostInit ==
  /\ Goes(<<"set", 0>>, Idle)
  /\ edgeSel' = SetClkDiv(2)
  /\ UNCHANGED <<freq_khz, clkdiv, clkena, tmout, hwCmd, cmdReg, ciu, active, slotCtx>>

\* set_card_clk first disables the clock ...
DisableClock ==
  /\ Goes(Idle, <<"start", 1>>)
  /\ clkena' = [clkena EXCEPT !.cclk = FALSE]
  /\ UNCHANGED <<freq_khz, edgeSel, clkdiv, tmout, hwCmd, cmdReg, ciu, active, slotCtx>>

\* ... then sets the dividers ...
SetDividers ==
  /\ Goes(<<"set", 2>>, <<"start", 2>>)
  /\ clkdiv' = GetClkDivs(freq_khz)[2]
  /\ edgeSel' = SetClkDiv(GetClkDivs(freq_khz)[1])
  /\ UNCHANGED <<freq_khz, clkena, tmout, hwCmd, cmdReg, ciu, active, slotCtx>>

\* Mutant of EnableClock: only sets low power mode.
EnableLowPowerOnly ==
  /\ Goes(<<"set", 3>>, <<"start", 3>>)
  /\ clkena' = [clkena EXCEPT !.lp = TRUE]
  /\ UNCHANGED <<freq_khz, edgeSel, clkdiv, tmout, hwCmd, cmdReg, ciu, active, slotCtx>>

\* ... enables the clock, in low power mode ...
EnableClock ==
  /\ Goes(<<"set", 3>>, <<"start", 3>>)
  /\ clkena' = [cclk |-> TRUE, lp |-> TRUE]
  /\ UNCHANGED <<freq_khz, edgeSel, clkdiv, tmout, hwCmd, cmdReg, ciu, active, slotCtx>>

\* Mutant of SetTimeouts: the fields of the SlotCtx are swapped.
SetTimeoutsSwapped ==
  /\ Goes(<<"set", 4>>, <<"start", Command>>)
  /\ tmout' = LlSetResponseTimeout(SetDataTimeout(freq_khz), 255)
  /\ slotCtx' = [freq |-> GetClkDivs(freq_khz)[1], host_div |-> freq_khz]
  /\ UNCHANGED <<freq_khz, edgeSel, clkdiv, clkena, hwCmd, cmdReg, ciu, active>>

\* ... and sets the timeouts.
SetTimeouts ==
  /\ Goes(<<"set", 4>>, <<"start", Command>>)
  /\ tmout' = LlSetResponseTimeout(SetDataTimeout(freq_khz), 255)
  /\ slotCtx' = [freq |-> freq_khz, host_div |-> GetClkDivs(freq_khz)[1]]
  /\ UNCHANGED <<freq_khz, edgeSel, clkdiv, clkena, hwCmd, cmdReg, ciu, active>>

\* set_clk_always_on(en) sets low power mode to en.
SetClkAlwaysOn(en) ==
  /\ Goes(Idle, <<"start", AlwaysOnUpdate>>)
  /\ clkena' = [clkena EXCEPT !.lp = en]
  /\ UNCHANGED <<freq_khz, edgeSel, clkdiv, tmout, hwCmd, cmdReg, ciu, active, slotCtx>>

\* The word start_cmd is called with: do_transaction's, or clk_update_cmd's.
Words(n) == IF n = Command THEN {MakeHwCmd(c) : c \in Cmds} ELSE {ClkUpdateCmd(SLOT, FALSE)}

\* start_cmd begins with change_to_slot, if the slot is initialized and not the
\* active one.  With no card in the slot only a clock update is accepted, and a
\* word with data and rw is not if the card is write protected.
StartCmd ==
  /\ pc[1] = "start"
  /\ \E w \in Words(pc[2]) :
       \/ pc' = <<"write", pc[2]>> /\ hwCmd' = w \cup Mask("use_hold_reg")
       \/ /\ ~Has(w, "update_clk_reg") \/ (Has(w, "data_expected") /\ Has(w, "rw"))
          /\ pc' = Idle /\ UNCHANGED hwCmd
  /\ IF ~active /\ slotCtx.host_div # 0
     THEN /\ active' = TRUE
          /\ edgeSel' = LlSetClkDiv(slotCtx.host_div)
          /\ tmout' = SetDataTimeout(slotCtx.freq)
     ELSE UNCHANGED <<active, edgeSel, tmout>>
  /\ UNCHANGED <<freq_khz, clkdiv, clkena, cmdReg, ciu, slotCtx>>

\* CMD is free, or not waited for: that is for the update of a voltage switch.
WriteCmd ==
  /\ pc[1] = "write" /\ pc' = <<"taken", pc[2]>>
  /\ Taken(cmdReg) \/ (Has(hwCmd, "volt_switch") /\ Has(hwCmd, "update_clk_reg"))
  /\ cmdReg' = StartWord(hwCmd, SLOT) /\ hwCmd' = {}
  /\ UNCHANGED <<freq_khz, edgeSel, clkdiv, clkena, tmout, ciu, active, slotCtx>>

\* start_cmd returns Ok: set_card_clk and do_transaction go on.
GoesOn == pc[1] = "taken" /\ pc' = IF pc[2] < Command THEN <<"set", pc[2] + 1>> ELSE Idle

\* Mutant of CmdTaken: start_cmd returns without the second wait.
CmdTakenUnseen ==
  /\ GoesOn
  /\ UNCHANGED <<freq_khz, edgeSel, clkdiv, clkena, tmout, hwCmd, cmdReg, ciu, active, slotCtx>>

\* CMD has been taken.
CmdTaken ==
  /\ GoesOn
  /\ Taken(cmdReg)
  /\ UNCHANGED <<freq_khz, edgeSel, clkdiv, clkena, tmout, hwCmd, cmdReg, ciu, active, slotCtx>>

\* Either wait of start_cmd lasts over 1 s.  set_card_clk returns the error,
\* set_clk_always_on ignores it.
StartCmdTimeout ==
  /\ pc[1] \in {"write", "taken"} /\ pc' = Idle
  /\ ~Taken(cmdReg)
  /\ hwCmd' = {}
  /\ UNCHANGED <<freq_khz, edgeSel, clkdiv, clkena, tmout, cmdReg, ciu, active, slotCtx>>

-----------------------------------------------------------------------------
\* The controller takes what is in CMD, late or never (external).
CiuTake ==
  /\ ~Taken(cmdReg) /\ cmdReg' = cmdReg \ Mask("start_command")
  /\ ciu' = IF Has(cmdReg, "update_clk_reg") THEN [clkdiv |-> clkdiv, clkena |-> clkena] ELSE ciu
  /\ UNCHANGED <<pc, freq_khz, edgeSel, clkdiv, clkena, tmout, hwCmd, active, slotCtx>>

SetCardClk == DisableClock \/ SetDividers \/ EnableClock \/ SetTimeouts

Next == \/ HostInit
        \/ SetCardClk
        \/ \E en \in BOOLEAN : SetClkAlwaysOn(en)
        \/ StartCmd \/ WriteCmd \/ CmdTaken \/ StartCmdTimeout
        \/ CiuTake

Spec == Init /\ [][Next]_vars

-----------------------------------------------------------------------------
(* Properties.                                                             *)

TypeOK ==
  /\ pc \in ({"set"} \X (0..4)) \cup ({"start", "write", "taken"} \X (1..5))
  /\ freq_khz \in Freqs
  /\ edgeSel \in EdgeSel
  /\ clkdiv \in 0..255
  /\ clkena \in [cclk : BOOLEAN, lp : BOOLEAN]
  /\ tmout \in Tmout
  /\ hwCmd \in Word /\ cmdReg \in Word
  /\ ciu \in [clkdiv : 0..255, clkena : [cclk : BOOLEAN, lp : BOOLEAN]]
  /\ active \in BOOLEAN
  /\ slotCtx \in [freq : Freqs \cup {0}, host_div : 0..16]

\* The command is about to be written to CMD, or is there.
InCommand == pc \in {<<"write", Command>>, <<"taken", Command>>}

\* Whichever updates timed out in earlier transactions, and whenever they are
\* taken, a command finds the card's clock running and with its own divider.
CommandClocked ==
  InCommand => ciu.clkena.cclk /\ ciu.clkdiv = GetClkDivs(freq_khz)[2]

\* A clock update given up on earlier is not taken under a command.
ClockSteadyUnderCommand == [][InCommand => UNCHANGED ciu]_vars

-----------------------------------------------------------------------------
(* What the repository says and the code does not keep.                    *)

\* "freq={real_freq}khz (max {freq_khz}khz)" (sdmmc.rs:177) and
\* "const DATA_TIMEOUT_MS: u32 = 100" (sdmmc.rs:160): a command is clocked with
\* freq_khz or less, and its data timeout is 100 ms in cycles of that clock.
CommandSettings ==
  InCommand =>
    /\ CalcFreq(<<edgeSel.host_div, ciu.clkdiv>>) <= freq_khz
    /\ tmout.data = Min24(DATA_TIMEOUT_MS * freq_khz)
=============================================================================
