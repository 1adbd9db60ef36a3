------------------------------- MODULE Airtime -------------------------------
(***************************************************************************)
(* The numbers of the radio: the LoRa profiles and windows of zSettings.h, *)
(* and the conversions of sx126x.c that turn them into what the chip is    *)
(* given (frequency in PLL steps, timeouts in RTC steps) and into the time *)
(* a frame is on the air.  Times are in milliseconds.                      *)
(***************************************************************************)
EXTENDS Integers

\* The profiles of zSettings.h, of which a build takes one.
Profiles == {"SF11_BW125", "SF12_BW125", "SF11_BW62", "SF10_BW250"}

\* sx126x_lora_cr_t: CR_4_5 is 1, CR_4_8 is 4.
OperMod(p) ==
  CASE p = "SF11_BW125" -> [sf |-> 11, bw |-> "BW_125", cr |-> 4, ldro |-> 1]
    [] p = "SF12_BW125" -> [sf |-> 12, bw |-> "BW_125", cr |-> 4, ldro |-> 1]
    [] p = "SF11_BW62"  -> [sf |-> 11, bw |-> "BW_062", cr |-> 4, ldro |-> 1]
    [] p = "SF10_BW250" -> [sf |-> 10, bw |-> "BW_250", cr |-> 1, ldro |-> 0]

PairMod == [sf |-> 7, bw |-> "BW_125", cr |-> 1, ldro |-> 0]

\* OPER_TOA_MS, from which every window is scaled.
OPER_TOA_MS(p) ==
  CASE p = "SF11_BW125" -> 720
    [] p = "SF12_BW125" -> 1150
    [] p = "SF11_BW62"  -> 1400
    [] p = "SF10_BW250" -> 200

ACK_WAIT_STATUS_MS(p) == 2 * OPER_TOA_MS(p) + 1500
ACK_WAIT_OFF_MS(p)    == 2 * OPER_TOA_MS(p) + 4000 + 400
ACK_WAIT_ON_MS(p)     == 2 * OPER_TOA_MS(p) + 6000 + 400
TX_TIMEOUT_MS(p)      == OPER_TOA_MS(p) + 400
\* Mutant: the window of a STATUS.
RX_TIMEOUT_MS_Status(p) == ACK_WAIT_STATUS_MS(p) + 1500
RX_TIMEOUT_MS(p)      == ACK_WAIT_ON_MS(p) + 1500
IDLE_DURATION_MS      == 100
LP_TIMEOUT_MS         == 30000
REMOTE_WATCHDOG_MS    == 60000

-----------------------------------------------------------------------------
(* Time on air.                                                            *)

lora_bw_in_hz ==
  [BW_007 |-> 7812,  BW_010 |-> 10417, BW_015 |-> 15625,  BW_020 |-> 20833,
   BW_031 |-> 31250, BW_041 |-> 41667, BW_062 |-> 62500,  BW_125 |-> 125000,
   BW_250 |-> 250000, BW_500 |-> 500000]

CeilDiv(a, b) == (a + b - 1) \div b

Pow2 == [n \in 3..10 |->
  CASE n = 3 -> 8 [] n = 4 -> 16 [] n = 5 -> 32 [] n = 6 -> 64 [] n = 7 -> 128
    [] n = 8 -> 256 [] n = 9 -> 512 [] n = 10 -> 1024]

\* A packet is [pre, len]: the header is explicit and the CRC on.  The chip is
\* asked for SF5 and SF6 nowhere.
Symbols(pkt, mod) ==
  LET bits == 8 * pkt.len + 16 - 4 * mod.sf + 20 + 8
      per  == IF mod.ldro = 1 THEN 4 * (mod.sf - 2) ELSE 4 * mod.sf
  IN  CeilDiv(IF bits < 0 THEN 0 ELSE bits, per) * (mod.cr + 4) + pkt.pre + 12

time_on_air_numerator(pkt, mod) == (4 * Symbols(pkt, mod) + 1) * Pow2[mod.sf - 2]

time_on_air_in_ms(pkt, mod) ==
  CeilDiv(1000 * time_on_air_numerator(pkt, mod), lora_bw_in_hz[mod.bw])

\* "LDRO: required ON when symbol time > 16 ms": 2^sf / bw seconds.
LdroRequired(mod) == 1000 * 4 * Pow2[mod.sf - 2] > 16 * lora_bw_in_hz[mod.bw]

-----------------------------------------------------------------------------
(* What the chip is given.                                                 *)

\* One PLL step is XTAL / 2^25 Hz: 15625 Hz are 2^14 steps.  (The code's 32 bits hold
\* every intermediate value of a carrier below 2 GHz, AirtimeProofs.)
PLL_STEP_SCALED == 15625
PLL_STEP_SHIFT  == 16384

convert_freq_in_hz_to_pll_step(hz) ==
  LET int  == hz \div PLL_STEP_SCALED
      frac == hz - int * PLL_STEP_SCALED
  IN  int * PLL_STEP_SHIFT
      + (frac * PLL_STEP_SHIFT + PLL_STEP_SCALED \div 2) \div PLL_STEP_SCALED

\* 64 RTC steps are a millisecond; the chip's timer has 24 bits and takes all
\* ones for "continuous".
convert_timeout_in_ms_to_rtc_step(ms) == 64 * ms
MAX_TIMEOUT_IN_RTC_STEP == 16777214
MAX_TIMEOUT_IN_MS       == MAX_TIMEOUT_IN_RTC_STEP \div 64

-----------------------------------------------------------------------------
(* Battery: VDD from the 1.1 V reference, in mV; 16 bits are returned.     *)

BAT_VOL_MIN == 2200

readVdd(adc) == IF adc = 0 THEN 0 ELSE ((1100 * 1023) \div adc) % 65536

\* Three reads; one above the minimum is enough.
battCheck(reads) == \E i \in 1..3 : readVdd(reads[i]) > BAT_VOL_MIN
=============================================================================
