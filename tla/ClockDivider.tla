---------------------------- MODULE ClockDivider ----------------------------
(***************************************************************************)
(* Sdmmc::get_clk_divs and calc_freq: from a frequency in kHz to the two   *)
(* dividers of the card clock, and back.  Divisions of u32 are \div; the   *)
(* dividers are returned as u8.                                            *)
(***************************************************************************)
EXTENDS Naturals

CLK_SRC_KHZ == 160000   \* CLK_SRC_HZ
HIGHSPEED == 40000
DEFAULT == 20000
PROBING == 400

U8(n) == n % 256

\* Mutants of Ceiling: the remainder is ignored, and one is always added.
Floor(m, d) == m \div d
FloorPlusOne(m, d) == m \div d + 1

\* The smallest n with n * d >= m.
Ceiling(m, d) == IF m % d > 0 THEN m \div d + 1 ELSE m \div d

\* Mutant of GetClkDivs: 16 instead of 15.
GetClkDivsOffByOne(freq_khz) ==
  IF freq_khz >= HIGHSPEED THEN <<4, 0>>
  ELSE IF freq_khz = DEFAULT THEN <<8, 0>>
  ELSE IF freq_khz = PROBING THEN <<10, 20>>
  ELSE IF CLK_SRC_KHZ \div freq_khz > 16
       THEN <<2, U8(Ceiling(CLK_SRC_KHZ \div 2, 2 * freq_khz))>>
       ELSE <<Ceiling(CLK_SRC_KHZ, freq_khz), 0>>

\* The code divides Hz by Hz; the factor 1000 is cancelled here.
\* At most 15 (16 after rounding up) for the host divider alone, else 2 for the
\* host and the rest for the card, which divides by twice its divider.
GetClkDivs(freq_khz) ==
  IF freq_khz >= HIGHSPEED THEN <<4, 0>>
  ELSE IF freq_khz = DEFAULT THEN <<8, 0>>
  ELSE IF freq_khz = PROBING THEN <<10, 20>>
  ELSE IF CLK_SRC_KHZ \div freq_khz > 15
       THEN <<2, U8(Ceiling(CLK_SRC_KHZ \div 2, 2 * freq_khz))>>
       ELSE <<Ceiling(CLK_SRC_KHZ, freq_khz), 0>>

CalcFreq(divs) ==
  (((CLK_SRC_KHZ * 1000) \div divs[1]) \div (IF divs[2] = 0 THEN 1 ELSE divs[2] * 2))
    \div 1000
=============================================================================
