---------------------------- MODULE AirtimeProofs ----------------------------
(***************************************************************************)
(* Facts about the numbers of the radio.  CommandLink is checked for one   *)
(* choice of windows and proved for all that satisfy its assumption; the   *)
(* windows of every build do.                                              *)
(***************************************************************************)
EXTENDS Airtime, TLAPS

FAST_RETRY_MS == 500

\* TimingAssumption of CommandLink, of the windows of a profile.
Timing(p) ==
  /\ OPER_TOA_MS(p) \in Nat \ {0} /\ TX_TIMEOUT_MS(p) \in Nat \ {0}
  /\ IDLE_DURATION_MS \in Nat \ {0} /\ RX_TIMEOUT_MS(p) \in Nat \ {0}
  /\ REMOTE_WATCHDOG_MS \in Nat \ {0} /\ FAST_RETRY_MS \in Nat \ {0}
  /\ ACK_WAIT_STATUS_MS(p) \in Nat \ {0} /\ ACK_WAIT_OFF_MS(p) \in Nat \ {0}
  /\ ACK_WAIT_ON_MS(p) \in Nat \ {0}
  /\ OPER_TOA_MS(p) < TX_TIMEOUT_MS(p)
  /\ TX_TIMEOUT_MS(p) <= RX_TIMEOUT_MS(p) /\ IDLE_DURATION_MS <= RX_TIMEOUT_MS(p)
  /\ FAST_RETRY_MS < ACK_WAIT_STATUS_MS(p)
  /\ ACK_WAIT_STATUS_MS(p) <= ACK_WAIT_OFF_MS(p) /\ ACK_WAIT_OFF_MS(p) <= ACK_WAIT_ON_MS(p)
  /\ ACK_WAIT_ON_MS(p) < RX_TIMEOUT_MS(p)

\* The theorems about the command link hold of every build: the windows of each profile
\* of zSettings.h meet what those theorems assume.
THEOREM ProfilesMeetTiming == \A p \in Profiles : Timing(p)
<1> SUFFICES ASSUME NEW p \in Profiles PROVE Timing(p)
  OBVIOUS
<1>1. OPER_TOA_MS(p) \in {720, 1150, 1400, 200}
  BY DEF Profiles, OPER_TOA_MS
<1>2. QED
  BY <1>1
  DEF Timing, TX_TIMEOUT_MS, RX_TIMEOUT_MS, IDLE_DURATION_MS, REMOTE_WATCHDOG_MS,
      FAST_RETRY_MS, ACK_WAIT_STATUS_MS, ACK_WAIT_OFF_MS, ACK_WAIT_ON_MS

CommandPacket == [pre |-> 12, len |-> 5]

\* OPER_TOA_MS is an estimate written by hand beside each profile.  It is never short: a
\* command's frame is on the air no longer than it says, by the formula of sx126x.c.
THEOREM FramesFitProfiles ==
  \A p \in Profiles : time_on_air_in_ms(CommandPacket, OperMod(p)) <= OPER_TOA_MS(p)
<1> SUFFICES ASSUME NEW p \in Profiles
             PROVE  time_on_air_in_ms(CommandPacket, OperMod(p)) <= OPER_TOA_MS(p)
  OBVIOUS
<1>1. CASE p = "SF11_BW125"
  <2>1. OperMod(p) = [sf |-> 11, bw |-> "BW_125", cr |-> 4, ldro |-> 1] /\ OPER_TOA_MS(p) = 720
    BY <1>1 DEF OperMod, OPER_TOA_MS
  <2>2. Symbols(CommandPacket, OperMod(p)) = 40
    BY <2>1 DEF Symbols, CommandPacket, CeilDiv
  <2>3. Pow2[9] = 512
    BY DEF Pow2
  <2>4. lora_bw_in_hz["BW_125"] = 125000
    BY DEF lora_bw_in_hz
  <2>5. QED
    BY <2>1, <2>2, <2>3, <2>4 DEF time_on_air_in_ms, time_on_air_numerator, CeilDiv
<1>2. CASE p = "SF12_BW125"
  <2>1. OperMod(p) = [sf |-> 12, bw |-> "BW_125", cr |-> 4, ldro |-> 1] /\ OPER_TOA_MS(p) = 1150
    BY <1>2 DEF OperMod, OPER_TOA_MS
  <2>2. Symbols(CommandPacket, OperMod(p)) = 32
    BY <2>1 DEF Symbols, CommandPacket, CeilDiv
  <2>3. Pow2[10] = 1024
    BY DEF Pow2
  <2>4. lora_bw_in_hz["BW_125"] = 125000
    BY DEF lora_bw_in_hz
  <2>5. QED
    BY <2>1, <2>2, <2>3, <2>4 DEF time_on_air_in_ms, time_on_air_numerator, CeilDiv
<1>3. CASE p = "SF11_BW62"
  <2>1. OperMod(p) = [sf |-> 11, bw |-> "BW_062", cr |-> 4, ldro |-> 1] /\ OPER_TOA_MS(p) = 1400
    BY <1>3 DEF OperMod, OPER_TOA_MS
  <2>2. Symbols(CommandPacket, OperMod(p)) = 40
    BY <2>1 DEF Symbols, CommandPacket, CeilDiv
  <2>3. Pow2[9] = 512
    BY DEF Pow2
  <2>4. lora_bw_in_hz["BW_062"] = 62500
    BY DEF lora_bw_in_hz
  <2>5. QED
    BY <2>1, <2>2, <2>3, <2>4 DEF time_on_air_in_ms, time_on_air_numerator, CeilDiv
<1>4. CASE p = "SF10_BW250"
  <2>1. OperMod(p) = [sf |-> 10, bw |-> "BW_250", cr |-> 1, ldro |-> 0] /\ OPER_TOA_MS(p) = 200
    BY <1>4 DEF OperMod, OPER_TOA_MS
  <2>2. Symbols(CommandPacket, OperMod(p)) = 34
    BY <2>1 DEF Symbols, CommandPacket, CeilDiv
  <2>3. Pow2[8] = 256
    BY DEF Pow2
  <2>4. lora_bw_in_hz["BW_250"] = 250000
    BY DEF lora_bw_in_hz
  <2>5. QED
    BY <2>1, <2>2, <2>3, <2>4 DEF time_on_air_in_ms, time_on_air_numerator, CeilDiv
<1>5. QED
  BY <1>1, <1>2, <1>3, <1>4 DEF Profiles

\* Integer part and remainder of a carrier in units of 15625 Hz.
LEMMA DivideBySteps ==
  ASSUME NEW n \in Nat
  PROVE  /\ n \div 15625 \in Nat
         /\ n - (n \div 15625) * 15625 \in Nat
         /\ n - (n \div 15625) * 15625 < 15625
  BY SMT

\* The remainder in PLL steps, rounded: adding half a unit before dividing.
LEMMA RoundsToNearest ==
  ASSUME NEW f \in Nat, f < 15625, NEW p, p = (f * 16384 + 7812) \div 15625
  PROVE  /\ p \in Nat /\ p <= 16384
         /\ 2 * (15625 * p - f * 16384) <= 15625
         /\ 2 * (f * 16384 - 15625 * p) <= 15625
  BY SMT

\* The carrier in PLL steps: sx126x.c replaces a 64-bit division by a split into an
\* integer and a fractional part.  The result is within half a step of the carrier asked
\* for, and for every carrier below 2 GHz no value on the way needs more than 31 bits.
THEOREM PllStepIsNearest ==
  \A hz \in Nat :
    LET pll  == convert_freq_in_hz_to_pll_step(hz)
        frac == hz - (hz \div PLL_STEP_SCALED) * PLL_STEP_SCALED
    IN  /\ 2 * (PLL_STEP_SCALED * pll - hz * PLL_STEP_SHIFT) <= PLL_STEP_SCALED
        /\ 2 * (hz * PLL_STEP_SHIFT - PLL_STEP_SCALED * pll) <= PLL_STEP_SCALED
        /\ frac * PLL_STEP_SHIFT + PLL_STEP_SCALED \div 2 <= 256000000
        /\ hz <= 2000000000 => pll <= 2147483647
<1> SUFFICES ASSUME NEW hz \in Nat
             PROVE LET pll  == convert_freq_in_hz_to_pll_step(hz)
                       frac == hz - (hz \div 15625) * 15625
                   IN  /\ 2 * (15625 * pll - hz * 16384) <= 15625
                       /\ 2 * (hz * 16384 - 15625 * pll) <= 15625
                       /\ frac * 16384 + 15625 \div 2 <= 256000000
                       /\ hz <= 2000000000 => pll <= 2147483647
  BY SMT DEF PLL_STEP_SCALED, PLL_STEP_SHIFT
<1> DEFINE int  == hz \div 15625
           frac == hz - int * 15625
           part == (frac * 16384 + 7812) \div 15625
<1>1. int \in Nat /\ frac \in Nat /\ frac < 15625 /\ hz = 15625 * int + frac
  BY DivideBySteps, SMT
<1>2. 15625 \div 2 = 7812
  BY SMT
<1>3. convert_freq_in_hz_to_pll_step(hz) = int * 16384 + part
  BY <1>2, SMT DEF convert_freq_in_hz_to_pll_step, PLL_STEP_SCALED, PLL_STEP_SHIFT
<1>4. /\ part \in Nat /\ part <= 16384
      /\ 2 * (15625 * part - frac * 16384) <= 15625
      /\ 2 * (frac * 16384 - 15625 * part) <= 15625
  <2> HIDE DEF frac
  <2>1. QED
    BY <1>1, RoundsToNearest
<1>5. frac = hz - (hz \div 15625) * 15625
  OBVIOUS
<1> HIDE DEF int, frac, part
<1>6. QED
  BY <1>1, <1>2, <1>3, <1>4, <1>5, SMT
=============================================================================
