-------------------------- MODULE ClockControlProofs -------------------------
(***************************************************************************)
(* For every frequency and every set of commands, a command finds the      *)
(* card's clock running with its own divider and keeps it, whatever clock  *)
(* updates earlier transactions gave up on.                                *)
(***************************************************************************)
EXTENDS ClockControl, FunctionLemmas

-----------------------------------------------------------------------------
(* The inductive invariant.  It follows set_card_clk from update to update *)
(* and says what the registers, the CIU's copy of them and CMD hold there. *)

\* Once the first update of set_card_clk has been taken, none is outstanding
\* until the thread writes the next.
Settled ==
  pc[1] \in {"set", "start", "write"} /\ pc[2] \in 2..Command => Taken(cmdReg)

\* CLKDIV, from the second step on.
DividerSet ==
  pc[2] \in 3..Command \/ (pc[2] = 2 /\ pc[1] # "set") => clkdiv = GetClkDivs(freq_khz)[2]

\* CLKENA, from the third step on.
ClockOn ==
  pc[2] = Command \/ (pc[2] = 3 /\ pc[1] # "set") => clkena.cclk

Copied == ciu = [clkdiv |-> clkdiv, clkena |-> clkena]

\* The CIU has what the registers hold after each update, and all through the
\* command.
UpdatesCopied ==
  /\ pc[1] = "set" /\ pc[2] \in 2..Command => Copied
  /\ pc[1] = "taken" /\ pc[2] # Command /\ Taken(cmdReg) => Copied
  /\ pc[2] = Command => Copied

\* What the thread is about to write is a clock update or the command, as its
\* step says, and so is what it waits for.
WordKnown ==
  /\ pc[1] = "write" =>
       /\ Has(hwCmd, "update_clk_reg") <=> pc[2] # Command
       /\ ~(Has(hwCmd, "volt_switch") /\ Has(hwCmd, "update_clk_reg"))
  /\ pc[1] = "taken" /\ ~Taken(cmdReg) => (Has(cmdReg, "update_clk_reg") <=> pc[2] # Command)

IInv == TypeOK /\ Settled /\ DividerSet /\ ClockOn /\ UpdatesCopied /\ WordKnown

-----------------------------------------------------------------------------
(* Words and register values.                                              *)

\* Every frequency in use has a host divider of 2 to 16 and a card divider of 8 bits.
LEMMA FreqType ==
  ASSUME NEW f \in Freqs
  PROVE  /\ f \in Nat \ {0}
         /\ GetClkDivs(f)[1] \in 2..16 /\ GetClkDivs(f)[2] \in 0..255
<1>1. MAX_FREQ_KHZ \in Nat
  BY SMT DEF MAX_FREQ_KHZ
<1>2. f \in Nat \ {0}
  BY <1>1, FreqsAssumption
<1> QED BY <1>2, DivsInRange

\* What ll_set_clk_div and the phase delay write fits the register.
LEMMA EdgeSelType ==
  ASSUME NEW div \in 1..16
  PROVE  LlSetClkDiv(div) \in EdgeSel /\ SetClkDiv(div) \in EdgeSel
  BY ResetAssumption DEF EdgeSel, LlSetClkDiv, SetClkDiv, LlInitPhaseDelay

\* The data timeout is cut off at the width of its field.
LEMMA TmoutType ==
  ASSUME NEW f \in Nat
  PROVE  /\ SetDataTimeout(f) \in Tmout
         /\ LlSetResponseTimeout(SetDataTimeout(f), 255) \in Tmout
<1>1. DATA_TIMEOUT_MS * f \in Nat
  BY DEF DATA_TIMEOUT_MS
<1>2. DATA_TIMEOUT_MAX \in Nat
  BY SMT DEF DATA_TIMEOUT_MAX
<1>3. Min24(DATA_TIMEOUT_MS * f) \in 0..DATA_TIMEOUT_MAX
  BY <1>1, <1>2 DEF Min24
<1> QED BY <1>3, ResetAssumption DEF Tmout, SetDataTimeout, LlSetResponseTimeout

\* start_cmd's use_hold_reg changes no bit that tells an update from a command.
LEMMA UseHoldReg ==
  /\ Mask("use_hold_reg") \subseteq Bit
  /\ Mask("use_hold_reg") \cap Mask("update_clk_reg") = {}
  /\ Mask("use_hold_reg") \cap Mask("volt_switch") = {}
<1>1. {"use_hold_reg", "update_clk_reg", "volt_switch"} \subseteq Field
  BY DEF Field, Fields
<1> QED BY <1>1, MaskInBit, MasksDisjoint

\* The word start_cmd is called with is a clock update exactly if the step says
\* so, and never both an update and a voltage switch.
LEMMA WordsKnown ==
  ASSUME NEW n \in 1..5, NEW w \in Words(n)
  PROVE  /\ w \in Word /\ w \cup Mask("use_hold_reg") \in Word
         /\ Has(w \cup Mask("use_hold_reg"), "update_clk_reg") <=> n # Command
         /\ ~(/\ Has(w \cup Mask("use_hold_reg"), "volt_switch")
              /\ Has(w \cup Mask("use_hold_reg"), "update_clk_reg"))
<1>1. {"update_clk_reg", "volt_switch"} \subseteq Field \ {"cmd_index", "card_num"}
  BY DEF Field, Fields
<1>2. ASSUME NEW f \in {"update_clk_reg", "volt_switch"}
      PROVE  Has(w \cup Mask("use_hold_reg"), f) <=> Has(w, f)
  BY UseHoldReg DEF Has
<1>3. CASE n = Command
  <2>1. PICK c \in Cmds : w = MakeHwCmd(c)
    BY <1>3 DEF Words
  <2>2. c \in AnyCmd
    BY CmdsAssumption, DriverCmdsType
  <2>3. "update_clk_reg" \notin Asserted(c)
    BY <2>2, AssertedFields DEF MakeFields
  <2>4. w \in Word /\ ~Has(w, "update_clk_reg")
    BY <1>1, <2>1, <2>2, <2>3, MakeHwCmdFields
  <2>5. w \cup Mask("use_hold_reg") \in Word
    BY <2>4, UseHoldReg DEF Word
  <2> QED BY <1>2, <1>3, <2>4, <2>5
<1>4. CASE n # Command
  <2>1. w = ClkUpdateCmd(SLOT, FALSE)
    BY <1>4 DEF Words
  <2>2. SLOT \in 0..31 /\ FALSE \in BOOLEAN
    BY DEF SLOT
  <2>3. /\ ClkUpdateCmd(SLOT, FALSE) \in Word
        /\ \A f \in Field \ {"card_num"} :
             Has(ClkUpdateCmd(SLOT, FALSE), f) <=> f \in {"update_clk_reg", "wait_complete"}
    BY <2>2, ClkUpdateFields
  <2>4. "update_clk_reg" \in Field \ {"card_num"} /\ "volt_switch" \in Field \ {"card_num"}
    BY <1>1
  <2>5. "volt_switch" \notin {"update_clk_reg", "wait_complete"}
    OBVIOUS
  <2>6. /\ Has(ClkUpdateCmd(SLOT, FALSE), "update_clk_reg")
        /\ ~Has(ClkUpdateCmd(SLOT, FALSE), "volt_switch")
    BY <2>3, <2>4, <2>5, Zenon
  <2>7. w \in Word /\ Has(w, "update_clk_reg") /\ ~Has(w, "volt_switch")
    BY <2>1, <2>3, <2>6
  <2>8. w \cup Mask("use_hold_reg") \in Word
    BY <2>7, UseHoldReg DEF Word
  <2> QED BY <1>2, <1>4, <2>7, <2>8
<1> QED BY <1>3, <1>4

\* start_cmd's last additions do not change that.
LEMMA StartWordKnown ==
  ASSUME NEW w \in Word
  PROVE  /\ StartWord(w, SLOT) \in Word
         /\ ~Taken(StartWord(w, SLOT))
         /\ Has(StartWord(w, SLOT), "update_clk_reg") <=> Has(w, "update_clk_reg")
<1>1. "update_clk_reg" \in Field \ {"card_num", "use_hold_reg", "start_command"}
  BY DEF Field, Fields
<1>2. SLOT \in 0..31
  BY DEF SLOT
<1> QED BY <1>1, <1>2, StartWordFields, GetOfMask

\* The empty word is taken, and one without its start bit is.
LEMMA TakenWord ==
  /\ {} \in Word /\ Taken({})
  /\ \A w \in Word : /\ w \ Mask("start_command") \in Word
                     /\ Taken(w \ Mask("start_command"))
  BY DEF Word, Taken, Has

-----------------------------------------------------------------------------
(* Type correctness.                                                       *)

\* The reset values have their types.
LEMMA InitType == Init => TypeOK
<1> SUFFICES ASSUME Init PROVE TypeOK
  OBVIOUS
<1>1. active \in BOOLEAN
  BY DEF Init
<1>2. clkena \in [cclk : BOOLEAN, lp : BOOLEAN]
  BY DEF Init, Off
<1>3. ciu \in [clkdiv : 0..255, clkena : [cclk : BOOLEAN, lp : BOOLEAN]]
  BY <1>2 DEF Init, Off
<1>4. pc \in {"set"} \X (0..4)
  BY DEF Init
<1>5. slotCtx \in [freq : Freqs \cup {0}, host_div : 0..16]
  BY DEF Init
<1> QED BY <1>1, <1>2, <1>3, <1>4, <1>5, TakenWord, ResetAssumption DEF Init, TypeOK

PcType == pc \in ({"set"} \X (0..4)) \cup ({"start", "write", "taken"} \X (1..5))

\* A step is a pair of its kind and of the update it belongs to.
LEMMA PcParts ==
  ASSUME PcType
  PROVE  /\ pc = <<pc[1], pc[2]>>
         /\ pc[1] \in {"set", "start", "write", "taken"}
         /\ pc[2] \in 0..5
         /\ pc[1] = "set" => pc[2] \in 0..4
         /\ pc[1] # "set" => pc[2] \in 1..5
  BY DEF PcType

\* set_card_clk goes from update to update and start_cmd from step to step.
LEMMA PcNext == TypeOK /\ Next => PcType'
<1> SUFFICES ASSUME TypeOK, Next PROVE PcType'
  OBVIOUS
<1>1. PcType
  BY DEF TypeOK, PcType
<1> USE <1>1, PcParts DEF PcType, Idle, Command, AlwaysOnUpdate, Goes
<1>2. CASE HostInit
  BY <1>2 DEF HostInit
<1>3. CASE SetCardClk
  BY <1>3 DEF SetCardClk, DisableClock, SetDividers, EnableClock, SetTimeouts
<1>4. CASE \E en \in BOOLEAN : SetClkAlwaysOn(en)
  BY <1>4 DEF SetClkAlwaysOn
<1>5. CASE StartCmd
  <2>1. pc[1] = "start" /\ pc[2] \in 1..5
    BY <1>5 DEF StartCmd
  <2>2. pc' = <<"write", pc[2]>> \/ pc' = Idle
    BY <1>5 DEF StartCmd
  <2> QED BY <2>1, <2>2
<1>6. CASE WriteCmd
  BY <1>6 DEF WriteCmd
<1>7. CASE CmdTaken
  BY <1>7 DEF CmdTaken, GoesOn
<1>8. CASE StartCmdTimeout
  BY <1>8 DEF StartCmdTimeout
<1>9. CASE CiuTake
  BY <1>9 DEF CiuTake
<1> QED BY <1>2, <1>3, <1>4, <1>5, <1>6, <1>7, <1>8, <1>9 DEF Next

\* Every step keeps the types.
LEMMA NextType == TypeOK /\ [Next]_vars => TypeOK'
<1> SUFFICES ASSUME TypeOK, [Next]_vars PROVE TypeOK'
  OBVIOUS
<1>1. CASE Next
  <2>1. PcType'
    BY <1>1, PcNext
  <2>2. freq_khz' = freq_khz /\ freq_khz' \in Freqs
    BY <1>1 DEF Next, HostInit, SetCardClk, DisableClock, SetDividers, EnableClock,
       SetTimeouts, SetClkAlwaysOn, StartCmd, WriteCmd, CmdTaken, StartCmdTimeout, CiuTake,
       TypeOK
  <2>3. /\ freq_khz \in Nat \ {0}
        /\ GetClkDivs(freq_khz)[1] \in 2..16 /\ GetClkDivs(freq_khz)[2] \in 0..255
    BY FreqType DEF TypeOK
  <2>4. edgeSel' \in EdgeSel
    <3>1. CASE HostInit
      BY <3>1, EdgeSelType DEF HostInit
    <3>2. CASE SetDividers
      BY <2>3, <3>2, EdgeSelType DEF SetDividers
    <3>3. CASE StartCmd
      <4>1. CASE ~active /\ slotCtx.host_div # 0
        <5>1. edgeSel' = LlSetClkDiv(slotCtx.host_div)
          BY <3>3, <4>1 DEF StartCmd
        <5>2. slotCtx.host_div \in 1..16
          BY <4>1 DEF TypeOK
        <5> QED BY <5>1, <5>2, EdgeSelType
      <4>2. CASE ~(~active /\ slotCtx.host_div # 0)
        BY <3>3, <4>2 DEF StartCmd, TypeOK
      <4> QED BY <4>1, <4>2
    <3>4. CASE UNCHANGED edgeSel
      BY <3>4 DEF TypeOK
    <3> QED BY <1>1, <3>1, <3>2, <3>3, <3>4
            DEF Next, SetCardClk, DisableClock, EnableClock, SetTimeouts, SetClkAlwaysOn,
                WriteCmd, CmdTaken, StartCmdTimeout, CiuTake
  <2>5. clkdiv' \in 0..255
    BY <1>1, <2>3 DEF Next, HostInit, SetCardClk, DisableClock, SetDividers, EnableClock,
       SetTimeouts, SetClkAlwaysOn, StartCmd, WriteCmd, CmdTaken, StartCmdTimeout, CiuTake,
       TypeOK
  <2>6. clkena' \in [cclk : BOOLEAN, lp : BOOLEAN]
    <3>1. clkena \in [cclk : BOOLEAN, lp : BOOLEAN]
      BY DEF TypeOK
    <3>2. CASE DisableClock
      BY <3>1, <3>2 DEF DisableClock
    <3>3. CASE EnableClock
      BY <3>3 DEF EnableClock
    <3>4. CASE \E en \in BOOLEAN : SetClkAlwaysOn(en)
      BY <3>1, <3>4 DEF SetClkAlwaysOn
    <3>5. CASE UNCHANGED clkena
      BY <3>1, <3>5
    <3> QED BY <1>1, <3>2, <3>3, <3>4, <3>5
            DEF Next, SetCardClk, HostInit, SetDividers, SetTimeouts, StartCmd,
                WriteCmd, CmdTaken, StartCmdTimeout, CiuTake
  <2>7. tmout' \in Tmout
    <3>1. CASE SetTimeouts
      BY <2>3, <3>1, TmoutType DEF SetTimeouts
    <3>2. CASE StartCmd
      <4>1. CASE ~active /\ slotCtx.host_div # 0
        <5>1. tmout' = SetDataTimeout(slotCtx.freq)
          BY <3>2, <4>1 DEF StartCmd
        <5>2. slotCtx.freq \in Nat
          <6>1. PICK f \in Freqs \cup {0} : f = slotCtx.freq
            BY DEF TypeOK
          <6>2. f \in Nat
            BY FreqType
          <6> QED BY <6>1, <6>2
        <5> QED BY <5>1, <5>2, TmoutType
      <4>2. CASE ~(~active /\ slotCtx.host_div # 0)
        BY <3>2, <4>2 DEF StartCmd, TypeOK
      <4> QED BY <4>1, <4>2
    <3>3. CASE UNCHANGED tmout
      BY <3>3 DEF TypeOK
    <3> QED BY <1>1, <3>1, <3>2, <3>3
            DEF Next, SetCardClk, HostInit, DisableClock, SetDividers, EnableClock,
                SetClkAlwaysOn, WriteCmd, CmdTaken, StartCmdTimeout, CiuTake
  <2>8. hwCmd' \in Word
    <3>1. CASE StartCmd
      <4>1. pc[2] \in 1..5
        BY <3>1, PcParts DEF StartCmd, TypeOK, PcType
      <4>2. PICK w \in Words(pc[2]) : hwCmd' \in {w \cup Mask("use_hold_reg"), hwCmd}
        BY <3>1 DEF StartCmd
      <4>3. w \cup Mask("use_hold_reg") \in Word
        BY <4>1, WordsKnown
      <4>4. hwCmd \in Word
        BY DEF TypeOK
      <4> QED BY <4>2, <4>3, <4>4
    <3>2. CASE hwCmd' \in {hwCmd, {}}
      BY <3>2, TakenWord DEF TypeOK
    <3> QED BY <1>1, <3>1, <3>2
            DEF Next, SetCardClk, HostInit, DisableClock, SetDividers, EnableClock,
                SetTimeouts, SetClkAlwaysOn, WriteCmd, CmdTaken, StartCmdTimeout, CiuTake
  <2>9. cmdReg' \in Word
    <3>1. CASE WriteCmd
      BY <3>1, StartWordKnown DEF WriteCmd, TypeOK
    <3>2. CASE CiuTake
      BY <3>2, TakenWord DEF CiuTake, TypeOK
    <3>3. CASE UNCHANGED cmdReg
      BY <3>3 DEF TypeOK
    <3> QED BY <1>1, <3>1, <3>2, <3>3
            DEF Next, SetCardClk, HostInit, DisableClock, SetDividers, EnableClock,
                SetTimeouts, SetClkAlwaysOn, StartCmd, CmdTaken, StartCmdTimeout
  <2>10. ciu' \in [clkdiv : 0..255, clkena : [cclk : BOOLEAN, lp : BOOLEAN]]
    <3>1. CASE CiuTake
      BY <3>1 DEF CiuTake, TypeOK
    <3>2. CASE UNCHANGED ciu
      BY <3>2 DEF TypeOK
    <3> QED BY <1>1, <3>1, <3>2
            DEF Next, SetCardClk, HostInit, DisableClock, SetDividers, EnableClock,
                SetTimeouts, SetClkAlwaysOn, StartCmd, WriteCmd, CmdTaken, StartCmdTimeout
  <2>11. active' \in BOOLEAN
    <3>1. active' \in {active, TRUE}
      BY <1>1 DEF Next, SetCardClk, HostInit, DisableClock, SetDividers, EnableClock,
         SetTimeouts, SetClkAlwaysOn, StartCmd, WriteCmd, CmdTaken, StartCmdTimeout, CiuTake
    <3> QED BY <3>1 DEF TypeOK
  <2>12. slotCtx' \in [freq : Freqs \cup {0}, host_div : 0..16]
    <3>1. CASE SetTimeouts
      BY <2>3, <3>1 DEF SetTimeouts, TypeOK
    <3>2. CASE UNCHANGED slotCtx
      BY <3>2 DEF TypeOK
    <3> QED BY <1>1, <3>1, <3>2
            DEF Next, SetCardClk, HostInit, DisableClock, SetDividers, EnableClock,
                SetClkAlwaysOn, StartCmd, WriteCmd, CmdTaken, StartCmdTimeout, CiuTake
  <2> QED BY <2>1, <2>2, <2>4, <2>5, <2>6, <2>7, <2>8, <2>9, <2>10, <2>11, <2>12
          DEF TypeOK, PcType
<1>2. CASE UNCHANGED vars
  BY <1>2 DEF vars, TypeOK
<1> QED BY <1>1, <1>2

\* Every register, word and copy keeps to its range, the fields of the SlotCtx
\* to those that set_clk_div and the timeout take.
THEOREM TypeCorrect == Spec => []TypeOK
  BY InitType, NextType, PTL DEF Spec

-----------------------------------------------------------------------------
(* The inductive invariant.                                                *)

\* Nothing is said of the registers before the first update.
LEMMA InitIInv == Init => IInv
<1> SUFFICES ASSUME Init PROVE IInv
  OBVIOUS
<1>1. pc[1] = "set" /\ pc[2] = 0
  BY DEF Init
<1> QED BY <1>1, InitType
        DEF IInv, Settled, DividerSet, ClockOn, UpdatesCopied, WordKnown, Command

\* The steps of the thread between two clock updates.
LEMMA SetInv ==
  ASSUME IInv, HostInit \/ SetCardClk \/ \E en \in BOOLEAN : SetClkAlwaysOn(en)
  PROVE  (Settled /\ DividerSet /\ ClockOn /\ UpdatesCopied /\ WordKnown)'
<1> USE DEF Command, AlwaysOnUpdate, Idle, Goes
<1>1. UNCHANGED <<freq_khz, ciu, hwCmd, cmdReg>>
  BY DEF SetCardClk, HostInit, DisableClock, SetDividers, EnableClock, SetTimeouts,
     SetClkAlwaysOn
<1>2. CASE HostInit
  <2>1. pc'[1] = "set" /\ pc'[2] = 1
    BY <1>2 DEF HostInit
  <2> QED BY <2>1 DEF Settled, DividerSet, ClockOn, UpdatesCopied, WordKnown
<1>3. CASE DisableClock
  <2>1. pc'[1] = "start" /\ pc'[2] = 1
    BY <1>3 DEF DisableClock
  <2> QED BY <2>1 DEF Settled, DividerSet, ClockOn, UpdatesCopied, WordKnown
<1>4. CASE \E en \in BOOLEAN : SetClkAlwaysOn(en)
  <2>1. pc'[1] = "start" /\ pc'[2] = 5
    BY <1>4 DEF SetClkAlwaysOn
  <2> QED BY <2>1 DEF Settled, DividerSet, ClockOn, UpdatesCopied, WordKnown
<1>5. CASE SetDividers
  <2>1. /\ pc[1] = "set" /\ pc[2] = 2
        /\ pc'[1] = "start" /\ pc'[2] = 2
        /\ clkdiv' = GetClkDivs(freq_khz)[2]
    BY <1>5 DEF SetDividers
  <2>2. Taken(cmdReg)
    BY <2>1 DEF IInv, Settled
  <2> QED BY <1>1, <2>1, <2>2 DEF Settled, DividerSet, ClockOn, UpdatesCopied, WordKnown
<1>6. CASE EnableClock
  <2>1. /\ pc[1] = "set" /\ pc[2] = 3
        /\ pc'[1] = "start" /\ pc'[2] = 3
        /\ clkdiv' = clkdiv /\ clkena'.cclk
    BY <1>6 DEF EnableClock
  <2>2. Taken(cmdReg) /\ clkdiv = GetClkDivs(freq_khz)[2]
    BY <2>1 DEF IInv, Settled, DividerSet
  <2> QED BY <1>1, <2>1, <2>2 DEF Settled, DividerSet, ClockOn, UpdatesCopied, WordKnown
<1>7. CASE SetTimeouts
  <2>1. /\ pc[1] = "set" /\ pc[2] = 4
        /\ pc'[1] = "start" /\ pc'[2] = 4
        /\ UNCHANGED <<clkdiv, clkena>>
    BY <1>7 DEF SetTimeouts
  <2>2. Taken(cmdReg) /\ clkdiv = GetClkDivs(freq_khz)[2] /\ clkena.cclk /\ Copied
    BY <2>1 DEF IInv, Settled, DividerSet, ClockOn, UpdatesCopied
  <2> QED BY <1>1, <2>1, <2>2
          DEF Settled, DividerSet, ClockOn, UpdatesCopied, WordKnown, Copied
<1> QED BY <1>2, <1>3, <1>4, <1>5, <1>6, <1>7 DEF SetCardClk

\* The steps of start_cmd, which leave the clock registers alone.
LEMMA StartInv ==
  ASSUME IInv, StartCmd \/ WriteCmd \/ CmdTaken \/ StartCmdTimeout
  PROVE  (Settled /\ DividerSet /\ ClockOn /\ UpdatesCopied /\ WordKnown)'
<1> USE DEF Command, Idle
<1>1. UNCHANGED <<freq_khz, clkdiv, clkena, ciu>>
  BY DEF StartCmd, WriteCmd, CmdTaken, StartCmdTimeout
<1>2. PcType
  BY DEF IInv, TypeOK, PcType
<1>3. ASSUME pc' = Idle
      PROVE  (Settled /\ DividerSet /\ ClockOn /\ UpdatesCopied /\ WordKnown)'
  <2>1. pc'[1] = "set" /\ pc'[2] = 1
    BY <1>3
  <2> QED BY <2>1 DEF Settled, DividerSet, ClockOn, UpdatesCopied, WordKnown
<1>4. CASE StartCmd /\ pc' # Idle
  <2>1. pc[1] = "start" /\ pc[2] \in 1..5 /\ pc'[1] = "write" /\ pc'[2] = pc[2]
    BY <1>2, <1>4, PcParts DEF StartCmd
  <2>2. cmdReg' = cmdReg
    BY <1>4 DEF StartCmd
  <2>3. PICK w \in Words(pc[2]) : hwCmd' = w \cup Mask("use_hold_reg")
    BY <1>4 DEF StartCmd
  <2>4. /\ Has(hwCmd', "update_clk_reg") <=> pc[2] # 4
        /\ ~(Has(hwCmd', "volt_switch") /\ Has(hwCmd', "update_clk_reg"))
    BY <2>1, <2>3, WordsKnown
  <2>5. WordKnown'
    BY <2>1, <2>4 DEF WordKnown
  <2>6. Settled' /\ DividerSet' /\ ClockOn' /\ UpdatesCopied'
    BY <1>1, <2>1, <2>2 DEF IInv, Settled, DividerSet, ClockOn, UpdatesCopied, Copied
  <2> QED BY <2>5, <2>6
<1>5. CASE WriteCmd
  <2>1. pc[1] = "write" /\ pc[2] \in 1..5 /\ pc'[1] = "taken" /\ pc'[2] = pc[2]
    BY <1>2, <1>5, PcParts DEF WriteCmd
  <2>2. cmdReg' = StartWord(hwCmd, SLOT) /\ hwCmd \in Word
    BY <1>5 DEF WriteCmd, IInv, TypeOK
  <2>3. ~Taken(cmdReg') /\ (Has(cmdReg', "update_clk_reg") <=> Has(hwCmd, "update_clk_reg"))
    BY <2>2, StartWordKnown
  <2>4. Has(hwCmd, "update_clk_reg") <=> pc[2] # 4
    BY <2>1 DEF IInv, WordKnown
  <2>5. WordKnown'
    BY <2>1, <2>3, <2>4 DEF WordKnown
  <2>6. Settled' /\ DividerSet' /\ ClockOn' /\ UpdatesCopied'
    BY <1>1, <2>1, <2>3 DEF IInv, Settled, DividerSet, ClockOn, UpdatesCopied, Copied
  <2> QED BY <2>5, <2>6
<1>6. CASE CmdTaken /\ pc' # Idle
  <2>1. /\ pc[1] = "taken" /\ pc[2] \in 1..3
        /\ pc'[1] = "set" /\ pc'[2] = pc[2] + 1
    BY <1>2, <1>6, PcParts DEF CmdTaken, GoesOn
  <2>2. Taken(cmdReg) /\ UNCHANGED <<hwCmd, cmdReg>>
    BY <1>6 DEF CmdTaken
  <2>3. Copied
    BY <2>1, <2>2 DEF IInv, UpdatesCopied
  <2> QED BY <1>1, <2>1, <2>2, <2>3
          DEF IInv, Settled, DividerSet, ClockOn, UpdatesCopied, WordKnown, Copied
<1>7. StartCmdTimeout => pc' = Idle
  BY DEF StartCmdTimeout
<1> QED BY <1>3, <1>4, <1>5, <1>6, <1>7

\* The CIU takes a word only where the invariant lets it: not between two
\* updates, and under a command only the command.
LEMMA CiuInv ==
  ASSUME IInv, CiuTake
  PROVE  (Settled /\ DividerSet /\ ClockOn /\ UpdatesCopied /\ WordKnown)'
<1> USE DEF Command
<1>1. UNCHANGED <<pc, freq_khz, clkdiv, clkena, hwCmd>> /\ ~Taken(cmdReg)
  BY DEF CiuTake
<1>2. Taken(cmdReg')
  BY TakenWord DEF CiuTake, IInv, TypeOK
<1>3. Has(cmdReg, "update_clk_reg") => Copied'
  BY <1>1 DEF CiuTake, Copied
<1>4. ~Has(cmdReg, "update_clk_reg") => ciu' = ciu
  BY DEF CiuTake
<1>5. pc[1] \in {"set", "start", "write", "taken"}
  BY PcParts DEF IInv, TypeOK, PcType
<1>6. pc[1] = "set" => pc[2] \notin 2..4
  BY <1>1 DEF IInv, Settled
<1>7. pc[2] = 4 => pc[1] = "taken"
  BY <1>1, <1>5 DEF IInv, Settled
<1>8. pc[1] = "taken" => (Has(cmdReg, "update_clk_reg") <=> pc[2] # 4)
  BY <1>1 DEF IInv, WordKnown
<1>9. UpdatesCopied'
  <2>1. CASE pc[2] = 4
    <3>1. ciu' = ciu /\ Copied
      BY <1>4, <1>7, <1>8, <2>1 DEF IInv, UpdatesCopied
    <3> QED BY <1>1, <2>1, <3>1, <1>7 DEF UpdatesCopied, Copied
  <2>2. CASE pc[2] # 4
    <3>1. pc[1] = "taken" => Copied'
      BY <1>3, <1>8, <2>2
    <3> QED BY <1>1, <1>6, <2>2, <3>1 DEF UpdatesCopied
  <2> QED BY <2>1, <2>2
<1>10. Settled' /\ WordKnown'
  BY <1>1, <1>2 DEF IInv, Settled, WordKnown
<1>11. DividerSet' /\ ClockOn'
  BY <1>1 DEF IInv, DividerSet, ClockOn
<1> QED BY <1>9, <1>10, <1>11

\* Every step keeps the invariant.
LEMMA NextIInv == IInv /\ [Next]_vars => IInv'
<1> SUFFICES ASSUME IInv, [Next]_vars PROVE IInv'
  OBVIOUS
<1>1. TypeOK'
  BY NextType DEF IInv
<1>2. (Settled /\ DividerSet /\ ClockOn /\ UpdatesCopied /\ WordKnown)'
  <2>1. CASE Next
    BY <2>1, SetInv, StartInv, CiuInv DEF Next
  <2>2. CASE UNCHANGED vars
    BY <2>2 DEF vars, IInv, Settled, DividerSet, ClockOn, UpdatesCopied, WordKnown, Copied
  <2> QED BY <2>1, <2>2
<1> QED BY <1>1, <1>2 DEF IInv

\* In every reachable state the registers are what set_card_clk and the copies of
\* the controller make of them, and the word in CMD is one start_cmd wrote.
THEOREM InvariantHolds == Spec => []IInv
  BY InitIInv, NextIInv, PTL DEF Spec

-----------------------------------------------------------------------------
(* What follows from it.                                                   *)

\* A command is written when the card's clock runs, with the divider of the
\* card's frequency, whatever updates were given up on.
THEOREM CommandClockedHolds == Spec => []CommandClocked
<1>1. ASSUME IInv PROVE CommandClocked
  <2>1. ASSUME InCommand PROVE ciu.clkena.cclk /\ ciu.clkdiv = GetClkDivs(freq_khz)[2]
    <3>1. pc[2] = Command
      BY <2>1 DEF InCommand
    <3>2. Copied /\ clkena.cclk /\ clkdiv = GetClkDivs(freq_khz)[2]
      BY <1>1, <3>1 DEF IInv, UpdatesCopied, ClockOn, DividerSet, Command
    <3> QED BY <3>2 DEF Copied
  <2> QED BY <2>1 DEF CommandClocked
<1> QED BY <1>1, InvariantHolds, PTL

\* No clock update is taken while a command is about to be written or waits in
\* CMD.
THEOREM ClockSteadyUnderCommandHolds == Spec => ClockSteadyUnderCommand
<1>1. ASSUME IInv, [Next]_vars PROVE [InCommand => UNCHANGED ciu]_vars
  <2>1. ASSUME InCommand, CiuTake PROVE ciu' = ciu
    <3>1. pc[2] = Command /\ pc[1] \in {"write", "taken"}
      BY <2>1 DEF InCommand
    <3>2. ~Taken(cmdReg)
      BY <2>1 DEF CiuTake
    <3>3. pc[1] = "taken"
      BY <1>1, <3>1, <3>2 DEF IInv, Settled, Command
    <3>4. ~Has(cmdReg, "update_clk_reg")
      BY <1>1, <3>1, <3>2, <3>3 DEF IInv, WordKnown
    <3> QED BY <2>1, <3>4 DEF CiuTake
  <2>2. Next => CiuTake \/ UNCHANGED ciu
    BY DEF Next, SetCardClk, HostInit, DisableClock, SetDividers, EnableClock,
       SetTimeouts, SetClkAlwaysOn, StartCmd, WriteCmd, CmdTaken, StartCmdTimeout
  <2> QED BY <1>1, <2>1, <2>2
<1> QED BY <1>1, InvariantHolds, PTL DEF Spec, ClockSteadyUnderCommand
=============================================================================
