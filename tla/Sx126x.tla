------------------------------- MODULE Sx126x -------------------------------
(***************************************************************************)
(* The SX126x driver (src/sx126x.c) on its HAL (src/sx126x_hal.cpp).       *)
(*                                                                         *)
(* A call of the driver is a sequence of transactions on the SPI bus, some *)
(* of them with arithmetic on the byte read in between.  Before each       *)
(* transaction the HAL waits for BUSY to fall; if it does not, the         *)
(* transaction is not made, the call returns an error, and the rest of the *)
(* call is skipped.  No caller looks at the error: the next call is made   *)
(* all the same.                                                           *)
(*                                                                         *)
(* A program is a sequence of steps: those of such calls, pauses, and      *)
(* resets of the watchdog timer.  Execute() runs one with at most one      *)
(* stalled transaction.  Registers that are modified are sets of bit       *)
(* numbers.                                                                *)
(***************************************************************************)
EXTENDS Airtime, Sequences, FiniteSets

CONSTANTS
  BUSY_TIMEOUT_MS,   \* RADIO_BUSY_TIMEOUT_MS
  WDT_PERIOD_MS      \* the watchdog timer's period, WDT_PERIOD_4KCLK

ASSUME DriverAssumption ==
  BUSY_TIMEOUT_MS \in Nat /\ WDT_PERIOD_MS \in Nat /\ BUSY_TIMEOUT_MS < WDT_PERIOD_MS

\* What the chip holds.  "calibrated" and "image" say for which clock and band.
\* After a reset the registers hold their reset values and nothing is configured.
ResetChip ==
  [mode |-> "STDBY", type |-> "NONE", regulator |-> "LDO", tcxo |-> FALSE,
   calibrated |-> FALSE, image |-> <<0, 0>>, rfSwitch |-> FALSE, freq |-> 0,
   pa |-> FALSE, ocp |-> 24, pwr |-> 0, mod |-> <<>>, pkt |-> <<>>, sync |-> "NONE",
   fifo |-> 0, base |-> <<0, 0>>, irqMask |-> FALSE, irqs |-> FALSE, timer |-> 0,
   rxGain |-> 148, iqPolarity |-> {0, 2, 3}, txModulation |-> {0}, txClamp |-> {3, 6, 7},
   retained |-> {}]

-----------------------------------------------------------------------------
(* What a program is made of.                                              *)

Set(fields)       == [op |-> "set", fields |-> fields]
Read(reg)         == [op |-> "read", reg |-> reg]
Write(reg)        == [op |-> "write", reg |-> reg]
Modify(off, on)   == [op |-> "modify", off |-> off, on |-> on]
\* Of which nothing is kept here.
Exchange          == [op |-> "exchange"]

\* A call starts, whatever became of the one before.
Call(steps)     == <<[op |-> "call"]>> \o steps
Command(fields) == Call(<<Set(fields)>>)
Query           == Call(<<Exchange>>)

Wait(ms)          == <<[op |-> "wait", ms |-> ms]>>
watchdogReset     == <<[op |-> "pet"]>>
watchdogInit      == <<[op |-> "dogOn"]>>
watchdogDisable   == <<[op |-> "dogOff"]>>

set_sleep             == Command([mode |-> "SLEEP"])
set_standby           == Command([mode |-> "STDBY", timer |-> 0])
set_dio3_as_tcxo_ctrl == Command([tcxo |-> TRUE])
cal                   == Call(<<[op |-> "cal"]>>)
set_reg_mode          == Command([regulator |-> "DCDC"])
cal_img(f1, f2)       == Command([image |-> <<f1, f2>>])
set_dio2_as_rf_sw     == Command([rfSwitch |-> TRUE])
set_pkt_type          == Command([type |-> "LORA"])
set_rf_freq(hz)       == Command([freq |-> convert_freq_in_hz_to_pll_step(hz)])
set_tx_params(dbm)    == Command([pwr |-> dbm])
write_sync(word)      == Command([sync |-> word])
set_buffer_base(t, r) == Command([base |-> <<t, r>>])
write_buffer(len)     == Command([fifo |-> len])
set_dio_irq_params    == Command([irqMask |-> TRUE])
clear_irq_status      == Command([irqs |-> FALSE])
set_ocp_value(v)      == Command([ocp |-> v])
write_rx_gain(v)      == Command([rxGain |-> v])

\* Whether the program takes what they read does not depend on the error.
get_irq_status       == Query
get_rx_buffer_status == Query
read_buffer          == Query
get_device_errors    == Query
clear_device_errors  == Query

\* For the SX1262 the chip sets its current limit to 140 mA.
set_pa_cfg == Command([pa |-> TRUE, ocp |-> 56])

\* A timeout the chip's timer cannot hold is refused.  0 is none.
Timed(mode, ms) ==
  IF ms > MAX_TIMEOUT_IN_MS THEN <<>>
  ELSE Command([mode |-> mode, timer |-> convert_timeout_in_ms_to_rtc_step(ms)])
set_tx(ms) == Timed("TX", ms)
set_rx(ms) == Timed("RX", ms)

\* Datasheet 15.1: bit 2 is cleared for 500 kHz only.
tx_modulation_workaround(bw) ==
  <<Read("txModulation"),
    IF bw = "BW_500" THEN Modify({2}, {}) ELSE Modify({}, {2}),
    Write("txModulation")>>
set_lora_mod_params(m) == Call(<<Set([mod |-> m])>> \o tx_modulation_workaround(m.bw))

\* Datasheet 15.4, for standard IQ.
set_lora_pkt_params(p) ==
  Call(<<Set([pkt |-> p]), Read("iqPolarity"), Modify({}, {2}), Write("iqPolarity")>>)

\* Datasheet 15.2, and 15.3: the timer's control and event registers, which no setting
\* depends on (a write, a read, a write).
cfg_tx_clamp == Call(<<Read("txClamp"), Modify({}, {1, 2, 3, 4}), Write("txClamp")>>)
stop_rtc     == Call(<<Exchange, Exchange, Exchange>>)

add_registers_to_retention_list(regs) == Call(<<Exchange, [op |-> "retain", regs |-> regs]>>)
init_retention_list ==
  add_registers_to_retention_list({"rxGain", "txModulation", "iqPolarity"})

\* The HAL waits for BUSY after a reset too, but always returns OK.
reset == Call(<<[op |-> "reset"]>>)

-----------------------------------------------------------------------------
(* Execution.  The state d of a run:                                       *)
(*   chip, cut    cut: a transaction has been lost since the last reset    *)
(*   buf, skip    the byte read; the rest of the call is skipped           *)
(*   n, at        transactions so far, the one that stalls (0: none)       *)
(*   dog          the watchdog timer: running, time and stalls since it    *)
(*                was last reset, and whether it has expired               *)

MAX_NB_REG_IN_RETENTION == 4

Retained(list, regs) ==
  IF Cardinality(list \cup regs) > MAX_NB_REG_IN_RETENTION THEN list ELSE list \cup regs

Transactions == {"set", "read", "write", "exchange", "cal", "retain", "reset"}

Pass(dog, ms) ==
  IF ~dog.on THEN dog
  ELSE [dog EXCEPT !.ms = dog.ms + ms,
                   !.expired = dog.expired \/ dog.ms + ms > WDT_PERIOD_MS]

\* BUSY did not fall.
Stalled(d, x) ==
  LET waited == [Pass(d.dog, BUSY_TIMEOUT_MS) EXCEPT !.stalls = @ + 1]
  IN  IF x.op = "reset"
      THEN [d EXCEPT !.dog = waited, !.n = @ + 1, !.chip = ResetChip, !.cut = FALSE]
      ELSE [d EXCEPT !.dog = waited, !.n = @ + 1, !.cut = TRUE, !.skip = TRUE]

Overwrite(chip, fields) ==
  [r \in DOMAIN chip |-> IF r \in DOMAIN fields THEN fields[r] ELSE chip[r]]

Transact(d, x) ==
  LET e == [d EXCEPT !.n = @ + 1] IN
  CASE x.op = "set"      -> [e EXCEPT !.chip = Overwrite(d.chip, x.fields)]
    [] x.op = "read"     -> [e EXCEPT !.buf = d.chip[x.reg]]
    [] x.op = "write"    -> [e EXCEPT !.chip[x.reg] = d.buf]
    [] x.op = "exchange" -> e
    [] x.op = "cal"      -> [e EXCEPT !.chip.calibrated = d.chip.tcxo]
    [] x.op = "retain"   -> [e EXCEPT !.chip.retained = Retained(d.chip.retained, x.regs)]
    [] x.op = "reset"    -> [e EXCEPT !.chip = ResetChip, !.cut = FALSE]

Step(d, x) ==
  CASE x.op = "call"     -> [d EXCEPT !.skip = FALSE]
    [] x.op = "wait"     -> [d EXCEPT !.dog = Pass(d.dog, x.ms)]
    [] x.op = "pet"      -> [d EXCEPT !.dog.ms = 0, !.dog.stalls = 0]
    [] x.op = "dogOn"    -> [d EXCEPT !.dog.on = TRUE, !.dog.ms = 0, !.dog.stalls = 0]
    [] x.op = "dogOff"   -> [d EXCEPT !.dog.on = FALSE, !.dog.ms = 0, !.dog.stalls = 0]
    [] x.op = "local"    -> [d EXCEPT !.buf = {}]
    [] x.op = "modify"   -> [d EXCEPT !.buf = (d.buf \ x.off) \cup x.on]
    [] x.op \in Transactions ->
         IF d.n + 1 = d.at THEN Stalled(d, x) ELSE Transact(d, x)

InCall == Transactions \cup {"local", "modify"}

\* The watchdog timer resets the MCU, and the rest of a call that failed is skipped.
Do(d, x) ==
  IF d.dog.expired \/ (d.skip /\ x.op \in InCall) THEN d ELSE Step(d, x)

\* The state after j steps, from the state s after i of them.
Steps(program, s, i, j) ==
  LET run[k \in i..j] == IF k = i THEN s ELSE Do(run[k - 1], program[k])
  IN  run[j]

\* In stretches of 10 steps: it keeps the recursion shallow.
Execute(program, d) ==
  LET last == Len(program) \div 10
      after[b \in 0..last] ==
        IF b = 0 THEN d
        ELSE LET s == after[b - 1]
             IN  IF s.dog.expired THEN s ELSE Steps(program, s, 10 * b - 10, 10 * b)
  IN  Steps(program, after[last], 10 * last, Len(program))

\* How many transactions can stall.
Size(program) == Cardinality({i \in DOMAIN program : program[i].op \in Transactions})
=============================================================================
