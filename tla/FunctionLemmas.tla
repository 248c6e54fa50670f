---------------------------- MODULE FunctionLemmas ---------------------------
(***************************************************************************)
(* What the pure functions of the driver return, for every argument: the   *)
(* dividers of get_clk_divs, the getters and setters of SdmmcHwCmd, and    *)
(* the words that reach CMD.  FunctionProofs states it of the calls that   *)
(* the runs check, and ClockControlProofs needs it of the calls that       *)
(* the thread makes.                                                       *)
(***************************************************************************)
EXTENDS ClockDivider, HwCmd, TLAPS

-----------------------------------------------------------------------------
(* Divisions.                                                              *)

\* The quotient and the remainder, as the provers need them.
LEMMA DivMod ==
  ASSUME NEW m \in Nat, NEW d \in Nat \ {0}
  PROVE  /\ m \div d \in Nat
         /\ m % d \in 0..(d - 1)
         /\ m = d * (m \div d) + (m % d)
  OBVIOUS

\* A quotient is no greater than what the dividend is a multiple of.
LEMMA DivAtMost ==
  ASSUME NEW m \in Nat, NEW d \in Nat \ {0}, NEW q \in Nat, m <= d * q
  PROVE  m \div d <= q
<1>1. PICK x \in Nat, r \in 0..(d - 1) : x = m \div d /\ m = d * x + r
  BY DivMod
<1>2. ASSUME x >= q + 1 PROVE FALSE
  <2>1. d * x >= d * (q + 1)
    BY <1>2
  <2>2. d * (q + 1) = d * q + d
    OBVIOUS
  <2> QED BY <1>1, <2>1, <2>2
<1> QED BY <1>1, <1>2

\* Division rounded up is the least number that is enough.
LEMMA CeilingBounds ==
  ASSUME NEW m \in Nat, NEW d \in Nat \ {0}
  PROVE  /\ Ceiling(m, d) \in Nat
         /\ d * Ceiling(m, d) >= m
         /\ m > 0 => d * (Ceiling(m, d) - 1) < m
  BY DivMod DEF Ceiling

\* A divisor that is large enough keeps the result of Ceiling small.
LEMMA CeilingAtMost ==
  ASSUME NEW m \in Nat \ {0}, NEW d \in Nat \ {0}, NEW q \in Nat, m <= d * q
  PROVE  Ceiling(m, d) \in 1..q
<1>1. PICK c \in Nat : c = Ceiling(m, d) /\ d * c >= m /\ d * (c - 1) < m
  BY CeilingBounds
<1>2. c # 0
  BY <1>1
<1>3. ASSUME c >= q + 1 PROVE FALSE
  <2>1. d * (c - 1) >= d * q
    BY <1>3
  <2> QED BY <1>1, <2>1
<1> QED BY <1>1, <1>2, <1>3

-----------------------------------------------------------------------------
(* get_clk_divs and calc_freq.                                             *)

\* The smallest frequency whose divider fits into the u8 that holds it.
LOWEST == 157

\* By how much the card's clock is slower than the source.
Ratio(divs) == divs[1] * (IF divs[2] = 0 THEN 1 ELSE divs[2] * 2)

\* Whatever the frequency, the host divider is one ll_set_clk_div takes and the
\* card's divider is a byte.
LEMMA DivsInRange ==
  ASSUME NEW f \in Nat \ {0}
  PROVE  /\ GetClkDivs(f) = <<GetClkDivs(f)[1], GetClkDivs(f)[2]>>
         /\ GetClkDivs(f)[1] \in 2..16
         /\ GetClkDivs(f)[2] \in 0..255
<1> USE DEF HIGHSPEED, DEFAULT, PROBING, CLK_SRC_KHZ
<1>1. CASE f >= HIGHSPEED \/ f = DEFAULT \/ f = PROBING
  BY <1>1 DEF GetClkDivs
<1>2. CASE f < HIGHSPEED /\ f # DEFAULT /\ f # PROBING /\ CLK_SRC_KHZ \div f > 15
  <2> DEFINE c == U8(Ceiling(CLK_SRC_KHZ \div 2, 2 * f))
  <2>1. Ceiling(CLK_SRC_KHZ \div 2, 2 * f) \in Nat
    <3>1. CLK_SRC_KHZ \div 2 \in Nat /\ 2 * f \in Nat \ {0}
      OBVIOUS
    <3> HIDE DEF CLK_SRC_KHZ
    <3> QED BY <3>1, CeilingBounds
  <2>3. c \in 0..255
    BY <2>1 DEF U8
  <2>2. GetClkDivs(f) = <<2, c>>
    BY <1>2 DEF GetClkDivs
  <2> QED BY <2>2, <2>3
<1>3. CASE f < HIGHSPEED /\ f # DEFAULT /\ f # PROBING /\ ~(CLK_SRC_KHZ \div f > 15)
  <2> DEFINE h == Ceiling(CLK_SRC_KHZ, f)
  <2>1. CLK_SRC_KHZ <= f * 16
    BY <1>3, DivMod
  <2>2. h \in 1..16
    <3>1. CLK_SRC_KHZ \in Nat \ {0} /\ 16 \in Nat
      OBVIOUS
    <3> HIDE DEF CLK_SRC_KHZ
    <3> QED BY <2>1, <3>1, CeilingAtMost
  <2>3. h # 1
    BY <1>3, CeilingBounds
  <2>4. GetClkDivs(f) = <<h, 0>>
    BY <1>3 DEF GetClkDivs
  <2> QED BY <2>2, <2>3, <2>4
<1> QED BY <1>1, <1>2, <1>3

\* From LOWEST on the card's divider is what Ceiling computes, uncut.
LEMMA CardDivider ==
  ASSUME NEW f \in Nat, f >= LOWEST
  PROVE  Ceiling(CLK_SRC_KHZ \div 2, 2 * f) \in 1..255
<1>1. CLK_SRC_KHZ \div 2 \in Nat \ {0} /\ 2 * f \in Nat \ {0} /\ 255 \in Nat
  BY DEF CLK_SRC_KHZ, LOWEST
<1>2. CLK_SRC_KHZ \div 2 <= (2 * f) * 255
  BY DEF CLK_SRC_KHZ, LOWEST
<1> QED BY <1>1, <1>2, CeilingAtMost

\* The card's clock is no faster than asked for, nor slower than the choice of
\* the divider that is computed allows.
Fits(divs, f) ==
  /\ f <= HIGHSPEED => Ratio(divs) * f >= CLK_SRC_KHZ
  /\ f \notin {DEFAULT, PROBING} /\ f < HIGHSPEED =>
       IF divs[2] = 0
       THEN (divs[1] - 1) * f < CLK_SRC_KHZ
       ELSE (divs[2] - 1) * 2 * f < CLK_SRC_KHZ \div divs[1]

\* The dividers of any frequency from 157 kHz on fit: in range, not too fast, no
\* slower than their rounding.
LEMMA DivsFit ==
  ASSUME NEW f \in Nat, f >= LOWEST
  PROVE  Fits(GetClkDivs(f), f)
<1> USE DEF HIGHSPEED, DEFAULT, PROBING, CLK_SRC_KHZ, LOWEST
<1> DEFINE divs == GetClkDivs(f)
<1> SUFFICES Fits(divs, f)
  OBVIOUS
<1>1. CASE f >= HIGHSPEED
  <2>1. divs[1] = 4 /\ divs[2] = 0
    BY <1>1 DEF GetClkDivs
  <2> HIDE DEF divs
  <2> QED BY <1>1, <2>1 DEF Ratio, Fits
<1>2. CASE f = DEFAULT
  <2>1. divs[1] = 8 /\ divs[2] = 0
    BY <1>2 DEF GetClkDivs
  <2> HIDE DEF divs
  <2> QED BY <1>2, <2>1 DEF Ratio, Fits
<1>3. CASE f = PROBING
  <2>1. divs[1] = 10 /\ divs[2] = 20
    BY <1>3 DEF GetClkDivs
  <2> HIDE DEF divs
  <2> QED BY <1>3, <2>1 DEF Ratio, Fits
<1>4. CASE f < HIGHSPEED /\ f # DEFAULT /\ f # PROBING /\ CLK_SRC_KHZ \div f > 15
  <2> DEFINE c == Ceiling(CLK_SRC_KHZ \div 2, 2 * f)
  <2>1. c \in 1..255
    BY CardDivider
  <2>2. (2 * f) * c >= 80000 /\ (2 * f) * (c - 1) < 80000
    <3> DEFINE m == CLK_SRC_KHZ \div 2
               d == 2 * f
    <3>1. m \in Nat \ {0} /\ d \in Nat \ {0} /\ m = 80000
      OBVIOUS
    <3> HIDE DEF m, d
    <3>2. d * Ceiling(m, d) >= m /\ d * (Ceiling(m, d) - 1) < m
      BY <3>1, CeilingBounds
    <3> QED BY <3>1, <3>2 DEF m, d
  <2>3. divs[1] = 2 /\ divs[2] = U8(c)
    BY <1>4 DEF GetClkDivs
  <2> HIDE DEF c
  <2>4. divs[2] = c
    BY <2>1, <2>3 DEF U8
  <2> HIDE DEF divs
  <2>5. (c - 1) * 2 * f = (2 * f) * (c - 1) /\ 2 * (c * 2) * f = 2 * ((2 * f) * c)
    BY <2>1
  <2>6. Ratio(divs) = 2 * (c * 2)
    BY <2>1, <2>3, <2>4 DEF Ratio
  <2> QED BY <1>4, <2>1, <2>2, <2>3, <2>4, <2>5, <2>6 DEF Fits
<1>5. CASE f < HIGHSPEED /\ f # DEFAULT /\ f # PROBING /\ ~(CLK_SRC_KHZ \div f > 15)
  <2> DEFINE h == Ceiling(CLK_SRC_KHZ, f)
  <2>1. h \in Nat /\ f * h >= CLK_SRC_KHZ /\ f * (h - 1) < CLK_SRC_KHZ
    <3>1. CLK_SRC_KHZ \in Nat \ {0} /\ f \in Nat \ {0}
      OBVIOUS
    <3> HIDE DEF CLK_SRC_KHZ
    <3> QED BY <3>1, CeilingBounds
  <2>2. divs[1] = h /\ divs[2] = 0
    BY <1>5 DEF GetClkDivs
  <2> HIDE DEF h, divs
  <2> QED BY <1>5, <2>1, <2>2 DEF Ratio, Fits
<1> QED BY <1>1, <1>2, <1>3, <1>4, <1>5

\* calc_freq, with its three roundings, agrees.
LEMMA CalcFreqAtMost ==
  ASSUME NEW f \in Nat, f >= LOWEST
  PROVE  CalcFreq(GetClkDivs(f)) <= f
<1> DEFINE h == GetClkDivs(f)[1]
           c == GetClkDivs(f)[2]
           k == IF c = 0 THEN 1 ELSE c * 2
<1> USE DEF CLK_SRC_KHZ
<1>1. h \in 2..16 /\ c \in 0..255
  BY DivsInRange DEF LOWEST
<1>2. h * k * f >= CLK_SRC_KHZ
  <2>1. CASE f <= HIGHSPEED
    BY <2>1, DivsFit DEF Ratio, Fits
  <2>2. CASE ~(f <= HIGHSPEED)
    <3>1. h = 4 /\ c = 0
      BY <2>2 DEF GetClkDivs, HIGHSPEED
    <3> QED BY <2>2, <3>1 DEF HIGHSPEED
  <2> QED BY <2>1, <2>2
<1>3. CalcFreq(GetClkDivs(f)) = (((CLK_SRC_KHZ * 1000) \div h) \div k) \div 1000
  BY DEF CalcFreq
<1> HIDE DEF h, c
<1>4. k \in Nat \ {0}
  BY <1>1
<1> HIDE DEF k
<1>5. CLK_SRC_KHZ * 1000 <= h * (k * (1000 * f))
  BY <1>1, <1>2, <1>4
<1> DEFINE q == (CLK_SRC_KHZ * 1000) \div h
<1>6. q \in Nat /\ q <= k * (1000 * f)
  <2> DEFINE m == CLK_SRC_KHZ * 1000
             n == k * (1000 * f)
  <2>1. m \in Nat /\ h \in Nat \ {0} /\ n \in Nat /\ m <= h * n
    BY <1>1, <1>4, <1>5
  <2> HIDE DEF m, n
  <2>2. m \div h \in Nat /\ m \div h <= n
    BY <2>1, DivAtMost, DivMod
  <2> QED BY <2>2 DEF m, n
<1> HIDE DEF q
<1> DEFINE p == q \div k
<1>7. p \in Nat /\ p <= 1000 * f
  <2> DEFINE n == 1000 * f
  <2>1. n \in Nat /\ q \in Nat /\ q <= k * n
    BY <1>6
  <2> HIDE DEF n
  <2>2. q \div k \in Nat /\ q \div k <= n
    BY <1>4, <2>1, DivAtMost, DivMod
  <2> QED BY <2>2 DEF n
<1> HIDE DEF p
<1>8. p \div 1000 <= f
  BY <1>7, DivAtMost
<1> QED BY <1>3, <1>8 DEF p, q

-----------------------------------------------------------------------------
(* SdmmcHwCmd.                                                             *)

\* Every field is within the 32 bits of the word.
LEMMA FieldBounds ==
  ASSUME NEW f \in Field
  PROVE  /\ Shift(f) \in Nat
         /\ Fields[f][2] \in Nat \ {0}
         /\ Shift(f) + Fields[f][2] <= 32
  BY DEF Shift, Field, Fields

\* So is its mask.
LEMMA MaskInBit ==
  ASSUME NEW f \in Field
  PROVE  Mask(f) \subseteq Bit /\ Shift(f) \in Mask(f)
  BY FieldBounds DEF Mask, Bit

\* No two of the 23 fields overlap.
LEMMA MasksDisjoint ==
  ASSUME NEW f \in Field, NEW g \in Field, f # g
  PROVE  Mask(f) \cap Mask(g) = {}
<1>1. \/ Shift(f) + Fields[f][2] <= Shift(g)
      \/ Shift(g) + Fields[g][2] <= Shift(f)
  BY SMTT(60) DEF Shift, Field, Fields
<1> QED BY <1>1, FieldBounds DEF Mask

\* A setter makes a word of a word.
LEMMA WithType ==
  ASSUME NEW w \in Word, NEW f \in Field, NEW v
  PROVE  With(w, f, v) \in Word
  BY MaskInBit DEF With, Word

\* A setter leaves the other fields alone ...
LEMMA WithKeeps ==
  ASSUME NEW w, NEW f \in Field, NEW v, NEW g \in Field \ {f}
  PROVE  With(w, f, v) \cap Mask(g) = w \cap Mask(g)
  BY MasksDisjoint DEF With

\* ... and stores the bits that its own has room for.
LEMMA WithStores ==
  ASSUME NEW w, NEW f \in Field, NEW v \in SUBSET Nat
  PROVE  Get(With(w, f, v), f) = {b \in v : b < Fields[f][2]}
<1> DEFINE new == {b + Shift(f) : b \in v} \cap Mask(f)
<1>1. With(w, f, v) \cap Mask(f) = new
  BY DEF With
<1>2. \A b \in v : b + Shift(f) \in Mask(f) <=> b < Fields[f][2]
  BY FieldBounds DEF Mask
<1>3. ASSUME NEW b \in Get(With(w, f, v), f) PROVE b \in v /\ b < Fields[f][2]
  <2>1. PICK x \in new : b = x - Shift(f)
    BY <1>1 DEF Get
  <2>2. PICK y \in v : x = y + Shift(f)
    OBVIOUS
  <2>3. b = y
    BY <2>1, <2>2, FieldBounds
  <2> QED BY <1>2, <2>2, <2>3
<1>4. ASSUME NEW b \in v, b < Fields[f][2] PROVE b \in Get(With(w, f, v), f)
  <2>1. b + Shift(f) \in new
    BY <1>2, <1>4
  <2>2. b = (b + Shift(f)) - Shift(f)
    BY FieldBounds
  <2> QED BY <1>1, <2>1, <2>2 DEF Get
<1> QED BY <1>3, <1>4

\* The setters of a set of fields: those get their ones, the others nothing.
LEMMA WithAllIn ==
  ASSUME NEW w, NEW fs, NEW f \in Field, f \in fs
  PROVE  Has(WithAll(w, fs), f)
  BY MaskInBit DEF Has, WithAll

\* A field that is not set keeps its bits.
LEMMA WithAllOut ==
  ASSUME NEW w, NEW fs \in SUBSET Field, NEW f \in Field \ fs
  PROVE  WithAll(w, fs) \cap Mask(f) = w \cap Mask(f)
  BY MasksDisjoint DEF WithAll

\* Many setters, too, make a word of a word.
LEMMA WithAllType ==
  ASSUME NEW w \in Word, NEW fs \in SUBSET Field
  PROVE  WithAll(w, fs) \in Word
  BY MaskInBit DEF WithAll, Word

\* The getters see no more of a word than the mask of their field.
LEMMA GetOfMask ==
  ASSUME NEW w, NEW x, NEW f, w \cap Mask(f) = x \cap Mask(f)
  PROVE  Get(w, f) = Get(x, f) /\ (Has(w, f) <=> Has(x, f))
  BY DEF Get, Has

-----------------------------------------------------------------------------
(* Words that reach CMD.                                                   *)

\* A number below 2^k fits into k bits.
LEMMA BitsOfType ==
  ASSUME NEW n \in Nat
  PROVE  /\ BitsOf(n) \in SUBSET Nat
         /\ n < 32 => BitsOf(n) \subseteq 0..4
         /\ n < 64 => BitsOf(n) \subseteq 0..5
<1>1. BitsOf(n) \subseteq 0..7
  BY DEF BitsOf
<1>2. n < 32 => 5 \notin BitsOf(n)
  BY 2^5 = 32 DEF BitsOf
<1>3. n < 64 => 6 \notin BitsOf(n)
  BY 2^6 = 64 DEF BitsOf
<1>4. n < 128 => 7 \notin BitsOf(n)
  BY 2^7 = 128 DEF BitsOf
<1> QED BY <1>1, <1>2, <1>3, <1>4

\* A command as make_hw_cmd can be given it.
AnyCmd == [opcode : 0..63, flags : SUBSET Flag, data : BOOLEAN, datalen : Nat]

\* The commands the driver sends are among all commands.
LEMMA DriverCmdsType == DriverCmds \subseteq AnyCmd
  BY DEF DriverCmds, AnyCmd, SdmmcCmd, ReadCmd, Flag, RspR0, RspR1, RspR2, RspR3,
         MMC_GO_IDLE_STATE

\* The fields make_hw_cmd may set, and the condition of each.
MakeFields == {"stop_abort_cmd", "send_init", "volt_switch", "wait_complete",
               "response_expect", "response_long", "check_response_crc",
               "data_expected", "rw", "send_auto_stop"}

\* make_hw_cmd sets a field under the condition of the code, and no other.
LEMMA AssertedFields ==
  ASSUME NEW c \in AnyCmd
  PROVE  /\ Asserted(c) \subseteq MakeFields
         /\ "stop_abort_cmd" \in Asserted(c) <=> c.opcode = MMC_STOP_TRANSMISSION
         /\ "send_init" \in Asserted(c) <=> c.opcode = MMC_GO_IDLE_STATE
         /\ "volt_switch" \in Asserted(c) <=> c.opcode = SD_SWITCH_VOLTAGE
         /\ "wait_complete" \in Asserted(c) <=> WaitComplete(c)
         /\ "response_long" \in Asserted(c) => "response_expect" \in Asserted(c)
         /\ "rw" \in Asserted(c) => "data_expected" \in Asserted(c)
         /\ "send_auto_stop" \in Asserted(c) => "data_expected" \in Asserted(c)
  BY DEF Asserted, MakeFields, AnyCmd

\* What start_cmd adds to a word, and what it leaves alone.
LEMMA StartWordFields ==
  ASSUME NEW w \in Word, NEW n \in 0..31
  PROVE  /\ StartWord(w, n) \in Word
         /\ ~Taken(StartWord(w, n)) /\ Has(StartWord(w, n), "use_hold_reg")
         /\ Get(StartWord(w, n), "card_num") = BitsOf(n)
         /\ \A f \in Field \ {"card_num", "use_hold_reg", "start_command"} :
              StartWord(w, n) \cap Mask(f) = w \cap Mask(f)
<1> DEFINE fs == {"use_hold_reg", "start_command"}
           x == WithAll(w, fs)
<1>1. StartWord(w, n) = With(x, "card_num", BitsOf(n))
  BY DEF StartWord
<1>2. "card_num" \in Field /\ fs \in SUBSET Field /\ "card_num" \notin fs
  BY DEF Field, Fields
<1>3. x \in Word
  BY <1>2, WithAllType
<1>4. StartWord(w, n) \in Word
  BY <1>1, <1>2, <1>3, WithType
<1>5. ASSUME NEW f \in fs PROVE Has(StartWord(w, n), f)
  <2>1. Has(x, f)
    BY <1>2, WithAllIn
  <2>2. StartWord(w, n) \cap Mask(f) = x \cap Mask(f)
    BY <1>1, <1>2, WithKeeps
  <2> QED BY <2>1, <2>2, GetOfMask
<1>6. Get(StartWord(w, n), "card_num") = BitsOf(n)
  <2>1. Fields["card_num"][2] = 5
    BY DEF Fields
  <2>2. BitsOf(n) \in SUBSET Nat /\ BitsOf(n) \subseteq 0..4
    BY BitsOfType
  <2>3. Get(StartWord(w, n), "card_num") = {b \in BitsOf(n) : b < 5}
    BY <1>1, <1>2, <2>1, <2>2, WithStores
  <2> QED BY <2>2, <2>3
<1>7. ASSUME NEW f \in Field, f # "card_num", f \notin fs
      PROVE  StartWord(w, n) \cap Mask(f) = w \cap Mask(f)
  <2>1. StartWord(w, n) \cap Mask(f) = x \cap Mask(f)
    BY <1>1, <1>2, <1>7, WithKeeps
  <2>2. x \cap Mask(f) = w \cap Mask(f)
    BY <1>2, <1>7, WithAllOut
  <2> QED BY <2>1, <2>2
<1> QED BY <1>4, <1>5, <1>6, <1>7 DEF Taken

\* The word make_hw_cmd makes has the fields that it asserts, and the opcode.
LEMMA MakeHwCmdFields ==
  ASSUME NEW c \in AnyCmd
  PROVE  /\ MakeHwCmd(c) \in Word
         /\ Get(MakeHwCmd(c), "cmd_index") = BitsOf(c.opcode)
         /\ \A f \in Field \ {"cmd_index"} : Has(MakeHwCmd(c), f) <=> f \in Asserted(c)
<1> DEFINE x == With({}, "cmd_index", BitsOf(c.opcode))
<1>1. MakeHwCmd(c) = WithAll(x, Asserted(c))
  BY DEF MakeHwCmd
<1>2. /\ "cmd_index" \in Field /\ Asserted(c) \in SUBSET Field
      /\ "cmd_index" \notin Asserted(c)
  BY AssertedFields DEF Field, Fields, MakeFields
<1>3. x \in Word
  <2>1. {} \in Word
    BY DEF Word
  <2> QED BY <1>2, <2>1, WithType
<1>4. Get(x, "cmd_index") = BitsOf(c.opcode)
  <2>1. Fields["cmd_index"][2] = 6
    BY DEF Fields
  <2>2. BitsOf(c.opcode) \in SUBSET Nat /\ BitsOf(c.opcode) \subseteq 0..5
    BY BitsOfType DEF AnyCmd
  <2>3. Get(x, "cmd_index") = {b \in BitsOf(c.opcode) : b < 6}
    BY <1>2, <2>1, <2>2, WithStores
  <2> QED BY <2>2, <2>3
<1>5. Get(MakeHwCmd(c), "cmd_index") = Get(x, "cmd_index")
  BY <1>1, <1>2, WithAllOut, GetOfMask
<1>6. ASSUME NEW f \in Field \ {"cmd_index"}
      PROVE  Has(MakeHwCmd(c), f) <=> f \in Asserted(c)
  <2>1. CASE f \in Asserted(c)
    BY <1>1, <2>1, WithAllIn
  <2>2. CASE f \notin Asserted(c)
    <3>1. MakeHwCmd(c) \cap Mask(f) = x \cap Mask(f)
      BY <1>1, <1>2, <2>2, WithAllOut
    <3>2. x \cap Mask(f) = {} \cap Mask(f)
      BY <1>2, WithKeeps
    <3> QED BY <2>2, <3>1, <3>2 DEF Has
  <2> QED BY <2>1, <2>2
<1>7. MakeHwCmd(c) \in Word
  BY <1>1, <1>2, <1>3, WithAllType
<1> QED BY <1>4, <1>5, <1>6, <1>7

\* The word clk_update_cmd makes.
LEMMA ClkUpdateFields ==
  ASSUME NEW n \in 0..31, NEW is_cmd11 \in BOOLEAN
  PROVE  /\ ClkUpdateCmd(n, is_cmd11) \in Word
         /\ \A f \in Field \ {"card_num"} :
              Has(ClkUpdateCmd(n, is_cmd11), f) <=>
                f \in {"update_clk_reg", "wait_complete"}
                  \cup (IF is_cmd11 THEN {"volt_switch"} ELSE {})
<1> DEFINE x == With({}, "card_num", BitsOf(n))
           fs == {"update_clk_reg", "wait_complete"}
                   \cup (IF is_cmd11 THEN {"volt_switch"} ELSE {})
<1>1. ClkUpdateCmd(n, is_cmd11) = WithAll(x, fs)
  BY DEF ClkUpdateCmd
<1>2. "card_num" \in Field /\ fs \in SUBSET Field /\ "card_num" \notin fs
  BY DEF Field, Fields
<1>3. x \in Word
  <2>1. {} \in Word
    BY DEF Word
  <2> QED BY <1>2, <2>1, WithType
<1>4. ClkUpdateCmd(n, is_cmd11) \in Word
  BY <1>1, <1>2, <1>3, WithAllType
<1> HIDE DEF fs
<1>5. ASSUME NEW f \in Field \ {"card_num"}
      PROVE  Has(ClkUpdateCmd(n, is_cmd11), f) <=> f \in fs
  <2>1. CASE f \in fs
    BY <1>1, <2>1, WithAllIn
  <2>2. CASE f \notin fs
    <3>1. ClkUpdateCmd(n, is_cmd11) \cap Mask(f) = x \cap Mask(f)
      BY <1>1, <1>2, <2>2, WithAllOut
    <3>2. x \cap Mask(f) = {} \cap Mask(f)
      BY <1>2, WithKeeps
    <3> QED BY <2>2, <3>1, <3>2 DEF Has
  <2> QED BY <2>1, <2>2
<1> QED BY <1>4, <1>5 DEF fs
=============================================================================
