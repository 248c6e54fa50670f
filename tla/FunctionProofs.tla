---------------------------- MODULE FunctionProofs ---------------------------
(***************************************************************************)
(* The properties of the driver's functions that the runs check on small   *)
(* sets of calls, for every call.                                          *)
(***************************************************************************)
EXTENDS MCFunctions, FunctionLemmas

-----------------------------------------------------------------------------
(* The calls, more than Init makes: any word and any value for a setter,   *)
(* any length of the data of a command, any slot a word has room for.      *)

DivsCalls == [fn : {"get_clk_divs"}, freq_khz : {n \in Nat : n >= LOWEST}]
WithCalls == [fn : {"with"}, word : Word, field : Field, val : SUBSET Nat]
CommandCalls == [fn : {"command"}, cmd : AnyCmd, slot : 0..31]
UpdateCalls == [fn : {"update"}, slot : 0..31, is_cmd11 : BOOLEAN]

AnyCall == call \in DivsCalls \cup WithCalls \cup CommandCalls \cup UpdateCalls

\* The words of the run are words.
LEMMA WordsType == Words \subseteq Word
<1> DEFINE few == {Mask(f) \cup Mask(g) : f, g \in Field} \cup {{}}
<1>1. few \subseteq SUBSET Bit
  BY MaskInBit
<1>2. Words = few \cup {Bit \ w : w \in few}
  BY DEF Words
<1> HIDE DEF few
<1> QED BY <1>1, <1>2 DEF Word

\* The first call is one of those the theorems are about.
LEMMA InitAnyCall == Init => AnyCall
<1> SUFFICES ASSUME Init PROVE AnyCall
  OBVIOUS
<1>1. CASE call = [fn |-> "get_clk_divs", freq_khz |-> Lowest]
  BY <1>1, LimitsAssumption DEF AnyCall, DivsCalls, LOWEST
<1>2. CASE \E w \in Words, f \in Field : \E v \in Values(f) :
             call = [fn |-> "with", word |-> w, field |-> f, val |-> v]
  <2>1. PICK w \in Words, f \in Field : \E v \in Values(f) :
             call = [fn |-> "with", word |-> w, field |-> f, val |-> v]
    BY <1>2
  <2>2. PICK v \in Values(f) :
             call = [fn |-> "with", word |-> w, field |-> f, val |-> v]
    BY <2>1
  <2>3. v \in SUBSET Nat
    BY DEF Values
  <2> QED BY <2>2, <2>3, WordsType DEF AnyCall, WithCalls
<1>3. CASE \E c \in Commands, n \in Slots :
             call = [fn |-> "command", cmd |-> c, slot |-> n]
  <2>1. Commands \subseteq AnyCmd /\ Slots \subseteq 0..31
    BY DEF Commands, AnyCmd, Slots
  <2> QED BY <1>3, <2>1 DEF AnyCall, CommandCalls
<1>4. CASE \E n \in Slots, is_cmd11 \in BOOLEAN :
             call = [fn |-> "update", slot |-> n, is_cmd11 |-> is_cmd11]
  BY <1>4 DEF AnyCall, UpdateCalls, Slots
<1> QED BY <1>1, <1>2, <1>3, <1>4 DEF Init

\* So is every later one.
LEMMA NextAnyCall == AnyCall /\ [Next]_call => AnyCall'
<1> SUFFICES ASSUME AnyCall, [Next]_call PROVE AnyCall'
  OBVIOUS
<1>1. CASE Next
  <2>1. call \in DivsCalls
    BY <1>1 DEF Next, AnyCall, WithCalls, CommandCalls, UpdateCalls
  <2>2. call' = [call EXCEPT !.freq_khz = call.freq_khz + 1]
    BY <1>1 DEF Next
  <2>3. call' \in DivsCalls
    BY <2>1, <2>2 DEF DivsCalls, LOWEST
  <2> QED BY <2>3 DEF AnyCall
<1>2. CASE UNCHANGED call
  BY <1>2 DEF AnyCall
<1> QED BY <1>1, <1>2

\* Every call of a run is one that the lemmas of FunctionLemmas speak of.
LEMMA AnyCallHolds == Spec => []AnyCall
  BY InitAnyCall, NextAnyCall, PTL DEF Spec

-----------------------------------------------------------------------------
(* get_clk_divs.                                                           *)

\* get_clk_divs is called with no less than 157 kHz.
LEMMA DivsCall ==
  ASSUME AnyCall, call.fn = "get_clk_divs"
  PROVE  call.freq_khz \in Nat /\ call.freq_khz >= LOWEST
  BY DEF AnyCall, DivsCalls, WithCalls, CommandCalls, UpdateCalls

\* No frequency from 157 kHz on, below the standard ones, between them or above,
\* is turned into dividers that clock the card faster.
THEOREM NeverTooFastHolds == Spec => []NeverTooFast
<1>1. ASSUME AnyCall PROVE NeverTooFast
  <2> DEFINE f == call.freq_khz
  <2> SUFFICES ASSUME call.fn = "get_clk_divs"
               PROVE  /\ f <= HIGHSPEED =>
                           Divs[1] * (IF Divs[2] = 0 THEN 1 ELSE 2 * Divs[2]) * f >= CLK_SRC_KHZ
                      /\ CalcFreq(Divs) <= f
    BY DEF NeverTooFast
  <2>1. f \in Nat /\ f >= LOWEST /\ f \in Nat \ {0}
    BY <1>1, DivsCall DEF LOWEST
  <2>2. Divs = GetClkDivs(f)
    BY DEF Divs
  <2> HIDE DEF f
  <2>3. Divs[1] \in 2..16 /\ Divs[2] \in 0..255
    BY <2>1, <2>2, DivsInRange
  <2>4. f <= HIGHSPEED => Ratio(Divs) * f >= CLK_SRC_KHZ
    BY <2>1, <2>2, DivsFit DEF Fits
  <2>5. Ratio(Divs) = Divs[1] * (IF Divs[2] = 0 THEN 1 ELSE 2 * Divs[2])
    BY <2>3 DEF Ratio
  <2>6. CalcFreq(Divs) <= f
    BY <2>1, <2>2, CalcFreqAtMost
  <2> QED BY <2>4, <2>5, <2>6
<1> QED BY <1>1, AnyCallHolds, PTL

\* ll_set_clk_div's assertion is never violated by get_clk_divs.
THEOREM HostDivInRangeHolds == Spec => []HostDivInRange
<1>1. ASSUME AnyCall PROVE HostDivInRange
  <2>1. ASSUME call.fn = "get_clk_divs" PROVE call.freq_khz \in Nat \ {0}
    BY <1>1, <2>1, DivsCall DEF LOWEST
  <2> QED BY <2>1, DivsInRange DEF HostDivInRange, Divs
<1> QED BY <1>1, AnyCallHolds, PTL

\* Nor is the clock slower than the rounding of one divider makes it.
THEOREM NotSlowerThanNeededHolds == Spec => []NotSlowerThanNeeded
<1>1. ASSUME AnyCall PROVE NotSlowerThanNeeded
  <2> DEFINE f == call.freq_khz
  <2> SUFFICES ASSUME call.fn = "get_clk_divs", f \notin {DEFAULT, PROBING}, f < HIGHSPEED
               PROVE  IF Divs[2] = 0
                      THEN (Divs[1] - 1) * f < CLK_SRC_KHZ
                      ELSE (Divs[2] - 1) * 2 * f < CLK_SRC_KHZ \div Divs[1]
    BY DEF NotSlowerThanNeeded
  <2>1. f \in Nat /\ f >= LOWEST
    BY <1>1, DivsCall
  <2>2. Divs = GetClkDivs(f)
    BY DEF Divs
  <2> HIDE DEF f
  <2> QED BY <2>1, <2>2, DivsFit DEF Fits
<1> QED BY <1>1, AnyCallHolds, PTL

-----------------------------------------------------------------------------
(* SdmmcHwCmd.                                                             *)

\* A setter of any field, of any word, with any value, stores what its field has
\* room for and touches no other field.
THEOREM AnySetter == AnyCall => SettersIndependent
<1>1. ASSUME AnyCall PROVE SettersIndependent
  <2> SUFFICES ASSUME call.fn = "with"
               PROVE  LET w == With(call.word, call.field, call.val)
                      IN  /\ w \in Word
                          /\ Get(w, call.field) = {b \in call.val : b < Fields[call.field][2]}
                          /\ \A g \in Field \ {call.field} : Get(w, g) = Get(call.word, g)
    BY DEF SettersIndependent
  <2>1. call.word \in Word /\ call.field \in Field /\ call.val \in SUBSET Nat
    BY <1>1 DEF AnyCall, DivsCalls, WithCalls, CommandCalls, UpdateCalls
  <2> QED BY <2>1, WithType, WithStores, WithKeeps, GetOfMask
<1> QED BY <1>1

\* So do the setters on the words of the run, where each field is all 0 or all 1.
THEOREM SettersIndependentHolds == Spec => []SettersIndependent
<1> QED BY AnySetter, AnyCallHolds, PTL

\* The word of any command, with any flags and any length of data, for any slot,
\* starts it in one way, asks for no part of what the command has not, and is no
\* clock update.
THEOREM AnyCommandWord == AnyCall => CommandWord
<1>1. ASSUME AnyCall PROVE CommandWord
  <2> DEFINE c == call.cmd
             n == call.slot
             m == MakeHwCmd(c)
             w == StartWord(m, n)
  <2> SUFFICES ASSUME call.fn = "command"
               PROVE  /\ Get(w, "cmd_index") = BitsOf(c.opcode)
                      /\ Get(w, "card_num") = BitsOf(n)
                      /\ \E f \in Starts : Has(w, f) /\ \A g \in Starts \ {f} : ~Has(w, g)
                      /\ Has(w, "response_long") => Has(w, "response_expect")
                      /\ Has(w, "rw") \/ Has(w, "send_auto_stop") => Has(w, "data_expected")
                      /\ ~Has(w, "update_clk_reg")
                      /\ Has(w, "use_hold_reg") /\ ~Taken(w)
    BY DEF CommandWord
  <2>1. c \in AnyCmd /\ n \in 0..31
    BY <1>1 DEF AnyCall, DivsCalls, WithCalls, CommandCalls, UpdateCalls
  <2> HIDE DEF c, n
  <2> DEFINE Asked == {"cmd_index", "update_clk_reg"} \cup MakeFields
  <2>2. /\ Asked \subseteq Field \ {"card_num", "use_hold_reg", "start_command"}
        /\ Starts \subseteq MakeFields /\ "update_clk_reg" \notin MakeFields
        /\ "cmd_index" \notin MakeFields \cup {"update_clk_reg"}
    BY DEF Field, Fields, MakeFields, Starts
  <2>3. m \in Word
    BY <2>1, MakeHwCmdFields
  <2>4. Get(w, "cmd_index") = BitsOf(c.opcode)
    BY <2>1, <2>2, <2>3, StartWordFields, MakeHwCmdFields, GetOfMask
  <2>5. ASSUME NEW f \in MakeFields \cup {"update_clk_reg"}
        PROVE  Has(w, f) <=> f \in Asserted(c)
    <3>1. Has(w, f) <=> Has(m, f)
      BY <2>1, <2>2, <2>3, StartWordFields, GetOfMask
    <3>2. Has(m, f) <=> f \in Asserted(c)
      BY <2>1, <2>2, MakeHwCmdFields
    <3> QED BY <3>1, <3>2
  <2>6. \E f \in Starts : f \in Asserted(c) /\ \A g \in Starts \ {f} : g \notin Asserted(c)
    BY <2>1, AssertedFields DEF Starts, WaitComplete, MMC_STOP_TRANSMISSION,
       MMC_GO_IDLE_STATE, SD_SWITCH_VOLTAGE
  <2>7. \E f \in Starts : Has(w, f) /\ \A g \in Starts \ {f} : ~Has(w, g)
    BY <2>2, <2>5, <2>6
  <2>8. ~Has(w, "update_clk_reg")
    BY <2>1, <2>2, <2>5, AssertedFields
  <2>9. /\ Has(w, "response_long") => Has(w, "response_expect")
        /\ Has(w, "rw") \/ Has(w, "send_auto_stop") => Has(w, "data_expected")
    BY <2>1, <2>5, AssertedFields DEF MakeFields
  <2> QED BY <2>1, <2>3, <2>4, <2>7, <2>8, <2>9, StartWordFields
<1> QED BY <1>1

\* So do the words of the run: every opcode with every set of flags.
THEOREM CommandWordHolds == Spec => []CommandWord
<1> QED BY AnyCommandWord, AnyCallHolds, PTL

\* The word of a clock update, for any slot, is one, and asks for nothing else.
THEOREM AnyUpdateWord == AnyCall => UpdateWord
<1>1. ASSUME AnyCall PROVE UpdateWord
  <2> DEFINE n == call.slot
             m == ClkUpdateCmd(n, call.is_cmd11)
             w == StartWord(m, n)
             looked == {"update_clk_reg", "wait_complete", "volt_switch",
                        "response_expect", "data_expected", "rw", "send_init"}
             fs == {"update_clk_reg", "wait_complete"}
                     \cup (IF call.is_cmd11 THEN {"volt_switch"} ELSE {})
  <2> SUFFICES ASSUME call.fn = "update"
               PROVE  /\ Has(w, "update_clk_reg") /\ Has(w, "wait_complete")
                      /\ Has(w, "volt_switch") <=> call.is_cmd11
                      /\ Get(w, "card_num") = BitsOf(n)
                      /\ \A f \in {"response_expect", "data_expected", "rw", "send_init"} :
                           ~Has(w, f)
    BY DEF UpdateWord
  <2>1. call.is_cmd11 \in BOOLEAN /\ n \in 0..31
    BY <1>1 DEF AnyCall, DivsCalls, WithCalls, CommandCalls, UpdateCalls
  <2> HIDE DEF n
  <2>2. looked \subseteq Field \ {"card_num", "use_hold_reg", "start_command"}
    BY DEF Field, Fields
  <2>3. m \in Word
    BY <2>1, ClkUpdateFields
  <2>4. ASSUME NEW f \in looked PROVE Has(w, f) <=> f \in fs
    <3>1. f \in Field \ {"card_num", "use_hold_reg", "start_command"}
      BY <2>2
    <3> HIDE DEF m, looked
    <3>3. w \cap Mask(f) = m \cap Mask(f)
      BY <2>1, <2>3, <3>1, StartWordFields
    <3>4. Has(w, f) <=> Has(m, f)
      BY <3>3, GetOfMask
    <3>2. Has(m, f) <=> f \in fs
      BY <2>1, <3>1, ClkUpdateFields DEF m
    <3> QED BY <3>2, <3>4
  <2>5. Get(w, "card_num") = BitsOf(n)
    BY <2>1, <2>3, StartWordFields
  <2> QED BY <2>4, <2>5
<1> QED BY <1>1

\* So are the updates of the run.
THEOREM UpdateWordHolds == Spec => []UpdateWord
<1> QED BY AnyUpdateWord, AnyCallHolds, PTL
=============================================================================
