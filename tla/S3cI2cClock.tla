----------------------------- MODULE S3cI2cClock -----------------------------
(***************************************************************************)
(* How s3c24xx_i2c_init sets the clock of the bus: from the clock of the   *)
(* chip and what the platform allows, in kHz, to the two divisors in       *)
(* IICCON. The first 16 or 512 times the second, a field of four bits.     *)
(***************************************************************************)
EXTENDS Integers

CONSTANTS
  ClkRates,  \* clocks of the chip
  BusFreqs   \* bus_freq, min_freq and max_freq of the platform's data, 0 for none

ASSUME S3cI2cClockAssumption == ClkRates \subseteq Nat \ {0} /\ BusFreqs \subseteq Nat

VARIABLES
  ck_in,    \* the chip's clock, bus_freq, min_freq and max_freq
  ck_init,  \* the controller was initialised
  ck_iicon  \* what was put into IICCON: the divisors, or nothing

ckVars == <<ck_in, ck_init, ck_iicon>>

CkInit ==
  /\ ck_in \in [clk : ClkRates, bus : BusFreqs, min : BusFreqs, max : BusFreqs]
  /\ ck_init = FALSE /\ ck_iicon = {}

(* s3c24xx_i2c_calcdivisor                                                 *)
(* Mutant: a ratio of 257 and more still takes the smaller divider.        *)
Div1_late(clk, wanted) == IF clk \div wanted > 16 * 17 THEN 512 ELSE 16
Div1(clk, wanted) == IF clk \div wanted > 16 * 16 THEN 512 ELSE 16
Divs(clk, wanted) ==
  LET d == (clk \div wanted + Div1(clk, wanted) - 1) \div Div1(clk, wanted)
  IN  CASE d = 0 -> 1 [] d > 17 -> 17 [] OTHER -> d
Freq(clk, wanted) == clk \div (Divs(clk, wanted) * Div1(clk, wanted))

(* freq_acceptable                                                         *)
(* Mutant: only what is too fast is refused.                               *)
Acceptable_slow(freq, wanted) == freq - wanted <= 2
Acceptable(freq, wanted) == freq - wanted \in -2 .. 2

(* s3c24xx_i2c_getdivisor: the frequency that is asked for, else the first *)
(* from the highest that can be had.                                       *)
CkRange(in) == in.min + 1 .. (IF in.max = 0 THEN in.bus ELSE in.max)
CkGood(in) == {f \in CkRange(in) : Acceptable(Freq(in.clk, f), f)}
CkHighest(in) == CHOOSE f \in CkGood(in) : \A g \in CkGood(in) : g <= f
CkDivisor(in) ==
  LET set(f) == {[pres |-> Divs(in.clk, f) - 1, div |-> Div1(in.clk, f)]}
      asked  == in.bus # 0 /\ Acceptable(Freq(in.clk, in.bus), in.bus)
  IN  CASE asked -> set(in.bus)
        [] ~ asked /\ CkGood(in) # {} -> set(CkHighest(in))
        [] OTHER -> {}

CkSet ==
  /\ ~ck_init /\ ck_init' = TRUE
  /\ ck_iicon' = CkDivisor(ck_in)
  /\ UNCHANGED ck_in
CkNext == CkSet
CkSpec == CkInit /\ [][CkNext]_ckVars

-----------------------------------------------------------------------------
(* The rate of the bus with IICCON as it is: four bits of the prescaler.   *)
CkRate(con) == ck_in.clk \div (((con.pres % 16) + 1) * con.div)

(* The controller runs the bus within 2 kHz, above or below, of the        *)
(* frequency that is asked for or of one in the range - unless that is so  *)
(* slow that no divisors reach it, where the prescaler spills into the bit *)
(* above its field.                                                        *)
RateAllowed ==
  ck_in.bus * 8192 >= ck_in.clk /\ ck_in.min * 8192 >= ck_in.clk =>
    \A con \in ck_iicon : \E f \in {ck_in.bus} \cup CkRange(ck_in) : CkRate(con) \in f - 2 .. f + 2
=============================================================================
