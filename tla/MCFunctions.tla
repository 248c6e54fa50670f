----------------------------- MODULE MCFunctions -----------------------------
(***************************************************************************)
(* The pure functions of the driver, one call of one of them per state:    *)
(*   get_clk_divs  every frequency from Lowest to Highest                  *)
(*   with          every setter of SdmmcHwCmd, on words made of whole      *)
(*                 fields                                                  *)
(*   command       make_hw_cmd and start_cmd, on every opcode with every   *)
(*                 set of flags                                            *)
(*   update        clk_update_cmd and start_cmd                            *)
(***************************************************************************)
EXTENDS ClockDivider, HwCmd

CONSTANTS Lowest, Highest

\* For a lower frequency the card's divider does not fit into the u8 it is
\* returned in.  The driver asks for PROBING and more.
ASSUME LimitsAssumption == Lowest \in Nat /\ Lowest >= 157 /\ Highest \in Nat

VARIABLE call

\* Words in which each field is all 0 or all 1, and at most two fields differ
\* from the others: what one setter does to another field shows in one of them.
Words ==
  LET few == {Mask(f) \cup Mask(g) : f, g \in Field} \cup {{}}
  IN  few \cup {Bit \ w : w \in few}

\* What a caller can pass: a u8 to the two wide fields, a bool to the others.
Values(f) ==
  IF Fields[f][2] = 1 THEN {{}, {0}} ELSE {{}, {0}, {2}, {1, 3}, 0..4, {5}, {6, 7}, 0..7}

Commands ==
  { c \in [opcode : 0..63, flags : SUBSET Flag, data : BOOLEAN, datalen : 0..1] :
      c.data \/ c.datalen = 0 }

Slots == 0..1

Init ==
  \/ call = [fn |-> "get_clk_divs", freq_khz |-> Lowest]
  \/ \E w \in Words, f \in Field : \E v \in Values(f) :
       call = [fn |-> "with", word |-> w, field |-> f, val |-> v]
  \/ \E c \in Commands, n \in Slots : call = [fn |-> "command", cmd |-> c, slot |-> n]
  \/ \E n \in Slots, is_cmd11 \in BOOLEAN :
       call = [fn |-> "update", slot |-> n, is_cmd11 |-> is_cmd11]

\* The frequencies are visited one after another.
Next ==
  /\ call.fn = "get_clk_divs"
  /\ call.freq_khz < Highest
  /\ call' = [call EXCEPT !.freq_khz = @ + 1]

Spec == Init /\ [][Next]_call

-----------------------------------------------------------------------------
(* Properties.                                                             *)

Divs == GetClkDivs(call.freq_khz)

\* The card is never clocked faster than asked for, whichever of the five
\* branches of get_clk_divs computes the dividers, and calc_freq agrees:
\* checked without its roundings, as a product.
NeverTooFast ==
  call.fn = "get_clk_divs" =>
    /\ call.freq_khz <= HIGHSPEED =>
         Divs[1] * (IF Divs[2] = 0 THEN 1 ELSE 2 * Divs[2]) * call.freq_khz >= CLK_SRC_KHZ
    /\ CalcFreq(Divs) <= call.freq_khz

\* ll_set_clk_div asserts div > 1 && div <= 16.
HostDivInRange == call.fn = "get_clk_divs" => Divs[1] \in 2..16

\* get_clk_divs gives the fastest clock its choice of divider allows: one less
\* in the divider it computes would be too fast.
NotSlowerThanNeeded ==
  call.fn = "get_clk_divs" /\ call.freq_khz \notin {DEFAULT, PROBING}
      /\ call.freq_khz < HIGHSPEED =>
    IF Divs[2] = 0
    THEN (Divs[1] - 1) * call.freq_khz < CLK_SRC_KHZ
    ELSE (Divs[2] - 1) * 2 * call.freq_khz < CLK_SRC_KHZ \div Divs[1]

\* A setter of SdmmcHwCmd stores the value, cut to the width of its field, and
\* changes no other of the 23 fields: their shifts and masks do not overlap.
SettersIndependent ==
  call.fn = "with" =>
    LET w == With(call.word, call.field, call.val)
    IN  /\ w \in Word
        /\ Get(w, call.field) = {b \in call.val : b < Fields[call.field][2]}
        /\ \A g \in Field \ {call.field} : Get(w, g) = Get(call.word, g)

\* The four ways the controller can start a command.
Starts == {"send_init", "stop_abort_cmd", "volt_switch", "wait_complete"}

\* The word a command reaches CMD as says what the command is: its opcode and
\* its slot, one of the four ways to start it, nothing about a response or about
\* data that it has not, and never that it is a clock update.
CommandWord ==
  call.fn = "command" =>
    LET w == StartWord(MakeHwCmd(call.cmd), call.slot)
    IN  /\ Get(w, "cmd_index") = BitsOf(call.cmd.opcode)
        /\ Get(w, "card_num") = BitsOf(call.slot)
        /\ \E f \in Starts : Has(w, f) /\ \A g \in Starts \ {f} : ~Has(w, g)
        /\ Has(w, "response_long") => Has(w, "response_expect")
        /\ Has(w, "rw") \/ Has(w, "send_auto_stop") => Has(w, "data_expected")
        /\ ~Has(w, "update_clk_reg")
        /\ Has(w, "use_hold_reg") /\ ~Taken(w)

\* A clock update is for its slot, waits for what is going on, and asks the
\* controller for no response and no data: the checks start_cmd makes of a
\* command, and of a read, do not stop it.
UpdateWord ==
  call.fn = "update" =>
    LET w == StartWord(ClkUpdateCmd(call.slot, call.is_cmd11), call.slot)
    IN  /\ Has(w, "update_clk_reg") /\ Has(w, "wait_complete")
        /\ Has(w, "volt_switch") <=> call.is_cmd11
        /\ Get(w, "card_num") = BitsOf(call.slot)
        /\ \A f \in {"response_expect", "data_expected", "rw", "send_init"} : ~Has(w, f)
=============================================================================
