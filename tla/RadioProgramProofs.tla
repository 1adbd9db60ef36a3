------------------------- MODULE RadioProgramProofs -------------------------
(***************************************************************************)
(* What the programs of the handlers do to the chip, and how long they     *)
(* take: sx1268Init(), the channel switches, the two SETUP states, the     *)
(* handlers of a frame, a give-up, a commit, setup() and waking up.        *)
(***************************************************************************)
EXTENDS RadioLoop, Sx126xProofs

-----------------------------------------------------------------------------
(* Parts of sx1268Init().                                                  *)

\* The chips c and e agree on the settings S.
Same(c, e, S) == \A r \in S : e[r] = c[r]

\* The repeated IQ workaround of sx1268Main.h writes what the driver should have left.
LEMMA OverrideCall ==
  ASSUME NEW d, Machine(d), NEW e, e = Execute(radioApplyIqWorkaroundOverride, d)
  PROVE  /\ IsProgram(radioApplyIqWorkaroundOverride) /\ Bus(d, e)
         /\ \/ Failed(d, e)
            \/ Changed(d.chip, e.chip, Sole("iqPolarity", d.chip.iqPolarity \ {2}))
<1> DEFINE r == "iqPolarity"
           p == <<[op |-> "local"], Read(r)>>
           q == <<Modify({2}, {}), Write(r)>>
           m == Execute(Call(p), d)
<1>1. IsProgram(p) /\ IsProgram(q) /\ r \in Registers /\ {} \in SUBSET (0..7)
  BY TwoSteps DEF Registers
<1>2. IsProgram(Call(p)) /\ IsProgram(Call(q))
  BY <1>1, CallBus
<1>3. /\ IsProgram(radioApplyIqWorkaroundOverride)
      /\ e = Execute(Call(q), m)
  BY <1>2, Composition DEF radioApplyIqWorkaroundOverride
<1>4. PICK s : /\ m = Execute(p, s) /\ Machine(s) /\ s.chip = d.chip
               /\ Bus(s, m) => /\ Bus(d, m)
                               /\ ~Failed(d, m) => ~Lost(s, m)
  BY <1>1, CallBus
<1> DEFINE a == Do(s, [op |-> "local"])
<1>5. m = Do(a, Read(r))
  BY <1>4, TwoSteps
<1> HIDE DEF a, m
<1>6. /\ Bus(s, a)
      /\ \/ Lost(s, a)
         \/ a.chip = s.chip /\ ~a.skip
  BY <1>4, LocalStep DEF a
<1>7. /\ Bus(a, m)
      /\ \/ Lost(a, m)
         \/ m.chip = a.chip /\ m.buf = a.chip[r] /\ ~m.skip
  <2>1. Machine(a)
    BY <1>6 DEF Bus, Silent
  <2>2. QED
    BY <1>1, <1>5, <2>1, ReadStep
<1>8. Bus(s, m) /\ (~Lost(s, m) => ~Lost(s, a) /\ (~a.skip => ~Lost(a, m)))
  BY <1>4, <1>6, <1>7, BusTransitive, NothingLost
<1>9. Bus(d, m) /\ (~Failed(d, m) => m.chip = d.chip /\ m.buf = d.chip[r])
  BY <1>4, <1>6, <1>7, <1>8
<1>10. Machine(m)
  BY <1>9 DEF Bus, Silent
<1>11. PICK t : /\ e = Execute(q, t) /\ Machine(t) /\ t.chip = m.chip /\ t.buf = m.buf
                /\ Bus(t, e) => /\ Bus(m, e)
                                /\ ~Failed(m, e) => ~Lost(t, e)
  BY <1>1, <1>3, <1>10, CallBus
<1> DEFINE b == Do(t, Modify({2}, {}))
<1>12. e = Do(b, Write(r))
  BY <1>11, TwoSteps
<1> HIDE DEF b
<1>13. /\ Bus(t, b)
       /\ \/ Lost(t, b)
          \/ b.chip = t.chip /\ b.buf = (t.buf \ {2}) \cup {} /\ ~b.skip
  BY <1>1, <1>11, ModifyStep DEF b
<1>14. /\ Bus(b, e)
       /\ \/ Lost(b, e)
          \/ /\ e.chip[r] = b.buf /\ e.buf = b.buf /\ ~e.skip
             /\ DOMAIN e.chip = DOMAIN b.chip
             /\ \A s_1 \in DOMAIN b.chip : s_1 # r => e.chip[s_1] = b.chip[s_1]
  <2>1. Machine(b)
    BY <1>13 DEF Bus, Silent
  <2>2. QED
    BY <1>1, <1>12, <2>1, WriteStep
<1>15. Bus(t, e) /\ (~Lost(t, e) => ~Lost(t, b) /\ (~b.skip => ~Lost(b, e)))
  BY <1>11, <1>13, <1>14, BusTransitive, NothingLost
<1>16. Bus(m, e) /\ (Failed(m, e) \/ Changed(m.chip, e.chip, Sole(r, m.buf \ {2})))
  <2>1. ASSUME ~Failed(m, e)
        PROVE  Changed(m.chip, e.chip, Sole(r, m.buf \ {2}))
    <3>1. ~Lost(t, b) /\ ~Lost(b, e)
      BY <1>11, <1>13, <1>15, <2>1
    <3>2. e.chip[r] = m.buf \ {2}
      BY <1>11, <1>13, <1>14, <3>1
    <3>3. /\ DOMAIN e.chip = DOMAIN m.chip
          /\ \A s_1 \in DOMAIN m.chip : s_1 # r => e.chip[s_1] = m.chip[s_1]
      BY <1>11, <1>13, <1>14, <3>1
    <3>4. QED
      BY <3>2, <3>3 DEF Changed, Sole
  <2>2. QED
    BY <1>11, <1>15, <2>1
<1>17. Bus(d, e)
  BY <1>9, <1>16, BusTransitive
<1>18. ~Failed(d, e) => ~Failed(d, m) /\ ~Failed(m, e)
  BY <1>9, <1>16, NothingFailed DEF Bus
<1>19. QED
  BY <1>3, <1>9, <1>16, <1>17, <1>18

\* Packet parameters, with bit 2 of the IQ register cleared in the end.
LEMMA PacketsProgram ==
  ASSUME NEW pkt, NEW d, Machine(d), NEW e, e = Execute(Packets(pkt), d)
  PROVE  /\ IsProgram(Packets(pkt)) /\ Bus(d, e)
         /\ \/ Failed(d, e)
            \/ Changed(d.chip, e.chip, [pkt |-> pkt, iqPolarity |-> d.chip.iqPolarity \ {2}])
<1> DEFINE m == Execute(set_lora_pkt_params(pkt), d)
           f == [pkt |-> pkt, iqPolarity |-> d.chip.iqPolarity \cup {2}]
           g == [pkt |-> pkt, iqPolarity |-> d.chip.iqPolarity \ {2}]
<1>1. /\ IsProgram(set_lora_pkt_params(pkt)) /\ Bus(d, m)
      /\ Failed(d, m) \/ Changed(d.chip, m.chip, f)
  BY PacketCall
<1>2. IsProgram(radioApplyIqWorkaroundOverride)
  BY OverrideCall
<1>3. IsProgram(Packets(pkt)) /\ e = Execute(radioApplyIqWorkaroundOverride, m)
  BY <1>1, <1>2, Composition DEF Packets
<1> HIDE DEF m
<1>4. /\ Bus(m, e)
      /\ \/ Failed(m, e)
         \/ Changed(m.chip, e.chip, Sole("iqPolarity", m.chip.iqPolarity \ {2}))
  <2>1. Machine(m)
    BY <1>1 DEF Bus, Silent
  <2>2. QED
    BY <1>3, <2>1, OverrideCall
<1>5. Bus(d, e) /\ (~Failed(d, e) => ~Failed(d, m) /\ ~Failed(m, e))
  BY <1>1, <1>4, BusTransitive, NothingFailed DEF Bus
<1>6. ASSUME Changed(d.chip, m.chip, f),
             Changed(m.chip, e.chip, Sole("iqPolarity", m.chip.iqPolarity \ {2}))
      PROVE  Changed(d.chip, e.chip, g)
  <2>1. "iqPolarity" \in DOMAIN d.chip
    BY DEF Machine, ChipOK, ResetChip
  <2>2. m.chip.iqPolarity \ {2} = d.chip.iqPolarity \ {2}
    BY <1>6, <2>1 DEF Changed
  <2>3. QED
    BY <1>6, <2>1, <2>2 DEF Changed, Sole
<1>7. QED
  BY <1>1, <1>3, <1>4, <1>5, <1>6

\* The call overwrites the fields f, unless it fails.
Sets(d, e, f) == Bus(d, e) /\ (Failed(d, e) \/ Changed(d.chip, e.chip, f))

\* What the calls of the driver leave behind is a machine.
LEMMA SetsMachine ==
  ASSUME NEW d, NEW e, NEW f, Sets(d, e, f)
  PROVE  Machine(e)
  BY DEF Sets, Bus, Silent

\* Programs of such calls compose.
LEMMA Then ==
  ASSUME NEW d, NEW e, NEW f, Machine(d), Bus(d, e), Bus(e, f)
  PROVE  /\ Bus(d, f)
         /\ ~Failed(d, f) => ~Failed(d, e) /\ ~Failed(e, f)
  BY BusTransitive, NothingFailed DEF Bus

\* A command overwrites its fields.
LEMMA CommandSets ==
  ASSUME NEW f, Fields(f), NEW d, Machine(d)
  PROVE  IsProgram(Command(f)) /\ Sets(d, Execute(Command(f), d), f)
  BY CommandCall DEF Sets

\* The commands without parameters.
LEMMA PlainCommands ==
  ASSUME NEW d, Machine(d)
  PROVE  /\ IsProgram(set_standby)
         /\ Sets(d, Execute(set_standby, d), [mode |-> "STDBY", timer |-> 0])
         /\ IsProgram(set_dio3_as_tcxo_ctrl)
         /\ Sets(d, Execute(set_dio3_as_tcxo_ctrl, d), [tcxo |-> TRUE])
         /\ IsProgram(set_reg_mode) /\ Sets(d, Execute(set_reg_mode, d), [regulator |-> "DCDC"])
         /\ IsProgram(set_dio2_as_rf_sw)
         /\ Sets(d, Execute(set_dio2_as_rf_sw, d), [rfSwitch |-> TRUE])
         /\ IsProgram(set_pkt_type) /\ Sets(d, Execute(set_pkt_type, d), [type |-> "LORA"])
         /\ IsProgram(set_pa_cfg) /\ Sets(d, Execute(set_pa_cfg, d), [pa |-> TRUE, ocp |-> 56])
         /\ IsProgram(set_dio_irq_params)
         /\ Sets(d, Execute(set_dio_irq_params, d), [irqMask |-> TRUE])
         /\ IsProgram(clear_irq_status) /\ Sets(d, Execute(clear_irq_status, d), [irqs |-> FALSE])
         /\ IsProgram(set_sleep) /\ Sets(d, Execute(set_sleep, d), [mode |-> "SLEEP"])
<1>1. IsProgram(set_standby) /\ Sets(d, Execute(set_standby, d), [mode |-> "STDBY", timer |-> 0])
  <2>1. Fields([mode |-> "STDBY", timer |-> 0])
    BY DEF Fields, Registers, Modes
  <2>2. QED
    BY <2>1, CommandSets DEF set_standby
<1>2. /\ IsProgram(set_dio3_as_tcxo_ctrl)
      /\ Sets(d, Execute(set_dio3_as_tcxo_ctrl, d), [tcxo |-> TRUE])
  <2>1. Fields([tcxo |-> TRUE])
    BY DEF Fields, Registers, Modes
  <2>2. QED
    BY <2>1, CommandSets DEF set_dio3_as_tcxo_ctrl
<1>3. IsProgram(set_reg_mode) /\ Sets(d, Execute(set_reg_mode, d), [regulator |-> "DCDC"])
  <2>1. Fields([regulator |-> "DCDC"])
    BY DEF Fields, Registers, Modes
  <2>2. QED
    BY <2>1, CommandSets DEF set_reg_mode
<1>4. IsProgram(set_dio2_as_rf_sw) /\ Sets(d, Execute(set_dio2_as_rf_sw, d), [rfSwitch |-> TRUE])
  <2>1. Fields([rfSwitch |-> TRUE])
    BY DEF Fields, Registers, Modes
  <2>2. QED
    BY <2>1, CommandSets DEF set_dio2_as_rf_sw
<1>5. IsProgram(set_pkt_type) /\ Sets(d, Execute(set_pkt_type, d), [type |-> "LORA"])
  <2>1. Fields([type |-> "LORA"])
    BY DEF Fields, Registers, Modes
  <2>2. QED
    BY <2>1, CommandSets DEF set_pkt_type
<1>6. IsProgram(set_pa_cfg) /\ Sets(d, Execute(set_pa_cfg, d), [pa |-> TRUE, ocp |-> 56])
  <2>1. Fields([pa |-> TRUE, ocp |-> 56])
    BY DEF Fields, Registers, Modes
  <2>2. QED
    BY <2>1, CommandSets DEF set_pa_cfg
<1>7. IsProgram(set_dio_irq_params) /\ Sets(d, Execute(set_dio_irq_params, d), [irqMask |-> TRUE])
  <2>1. Fields([irqMask |-> TRUE])
    BY DEF Fields, Registers, Modes
  <2>2. QED
    BY <2>1, CommandSets DEF set_dio_irq_params
<1>8. IsProgram(clear_irq_status) /\ Sets(d, Execute(clear_irq_status, d), [irqs |-> FALSE])
  <2>1. Fields([irqs |-> FALSE])
    BY DEF Fields, Registers, Modes
  <2>2. QED
    BY <2>1, CommandSets DEF clear_irq_status
<1>9. IsProgram(set_sleep) /\ Sets(d, Execute(set_sleep, d), [mode |-> "SLEEP"])
  <2>1. Fields([mode |-> "SLEEP"])
    BY DEF Fields, Registers, Modes
  <2>2. QED
    BY <2>1, CommandSets DEF set_sleep
<1> QED
  BY <1>1, <1>2, <1>3, <1>4, <1>5, <1>6, <1>7, <1>8, <1>9

\* sx126x_cal_img().
LEMMA CalImgSets ==
  ASSUME NEW f1, NEW f2, NEW d, Machine(d)
  PROVE  /\ IsProgram(cal_img(f1, f2))
         /\ Sets(d, Execute(cal_img(f1, f2), d), [image |-> <<f1, f2>>])
<1>1. Fields([image |-> <<f1, f2>>])
  BY DEF Fields, Registers
<1>2. QED
  BY <1>1, CommandSets DEF cal_img

\* sx126x_set_rf_freq().
LEMMA SetRfFreqSets ==
  ASSUME NEW hz, NEW d, Machine(d)
  PROVE  /\ IsProgram(set_rf_freq(hz))
         /\ Sets(d, Execute(set_rf_freq(hz), d), [freq |-> convert_freq_in_hz_to_pll_step(hz)])
<1>1. Fields([freq |-> convert_freq_in_hz_to_pll_step(hz)])
  BY DEF Fields, Registers
<1>2. QED
  BY <1>1, CommandSets DEF set_rf_freq

\* sx126x_set_ocp_value().
LEMMA SetOcpValueSets ==
  ASSUME NEW v, NEW d, Machine(d)
  PROVE  IsProgram(set_ocp_value(v)) /\ Sets(d, Execute(set_ocp_value(v), d), [ocp |-> v])
<1>1. Fields([ocp |-> v])
  BY DEF Fields, Registers
<1>2. QED
  BY <1>1, CommandSets DEF set_ocp_value

\* sx126x_set_tx_params().
LEMMA SetTxParamsSets ==
  ASSUME NEW dbm, NEW d, Machine(d)
  PROVE  IsProgram(set_tx_params(dbm)) /\ Sets(d, Execute(set_tx_params(dbm), d), [pwr |-> dbm])
<1>1. Fields([pwr |-> dbm])
  BY DEF Fields, Registers
<1>2. QED
  BY <1>1, CommandSets DEF set_tx_params

\* Writing the sync word.
LEMMA WriteSyncSets ==
  ASSUME NEW word, NEW d, Machine(d)
  PROVE  IsProgram(write_sync(word)) /\ Sets(d, Execute(write_sync(word), d), [sync |-> word])
<1>1. Fields([sync |-> word])
  BY DEF Fields, Registers
<1>2. QED
  BY <1>1, CommandSets DEF write_sync

\* sx126x_set_buffer_base_address().
LEMMA SetBufferBaseSets ==
  ASSUME NEW t, NEW r, NEW d, Machine(d)
  PROVE  /\ IsProgram(set_buffer_base(t, r))
         /\ Sets(d, Execute(set_buffer_base(t, r), d), [base |-> <<t, r>>])
<1>1. Fields([base |-> <<t, r>>])
  BY DEF Fields, Registers
<1>2. QED
  BY <1>1, CommandSets DEF set_buffer_base

\* Writing the RX gain register.
LEMMA WriteRxGainSets ==
  ASSUME NEW v, NEW d, Machine(d)
  PROVE  IsProgram(write_rx_gain(v)) /\ Sets(d, Execute(write_rx_gain(v), d), [rxGain |-> v])
<1>1. Fields([rxGain |-> v])
  BY DEF Fields, Registers
<1>2. QED
  BY <1>1, CommandSets DEF write_rx_gain

\* sx126x_write_buffer().
LEMMA WriteBufferSets ==
  ASSUME NEW len, NEW d, Machine(d)
  PROVE  IsProgram(write_buffer(len)) /\ Sets(d, Execute(write_buffer(len), d), [fifo |-> len])
<1>1. Fields([fifo |-> len])
  BY DEF Fields, Registers
<1>2. QED
  BY <1>1, CommandSets DEF write_buffer

\* After the first part of sx1268Init() the chip is calibrated on its TCXO.
LEMMA StartClock ==
  ASSUME NEW d, Machine(d), NEW e, e = Execute(startClock, d)
  PROVE  /\ IsProgram(startClock) /\ Bus(d, e)
         /\ ~Failed(d, e) =>
              /\ e.chip.mode = "STDBY" /\ e.chip.tcxo /\ e.chip.calibrated
              /\ Same(d.chip, e.chip, {"txClamp", "retained"})
<1> DEFINE d1 == Execute(set_standby, d)
           d2 == Execute(set_dio3_as_tcxo_ctrl, d1)
           d3 == Execute(cal, d2)
           p2 == set_standby \o set_dio3_as_tcxo_ctrl
           p3 == p2 \o cal
<1>1. IsProgram(set_standby) /\ Sets(d, d1, [mode |-> "STDBY", timer |-> 0])
  BY PlainCommands
<1>2. IsProgram(set_dio3_as_tcxo_ctrl) /\ Sets(d1, d2, [tcxo |-> TRUE])
  <2>1. Machine(d1)
    BY <1>1, SetsMachine
  <2> HIDE DEF d1
  <2> QED
    BY <2>1, PlainCommands
<1>3. IsProgram(cal) /\ Sets(d2, d3, [calibrated |-> d2.chip.tcxo])
  <2>1. Machine(d2)
    BY <1>2, SetsMachine
  <2> HIDE DEF d2
  <2> QED
    BY <2>1, CalCall DEF Sets
<1>4. IsProgram(p2) /\ Execute(p2, d) = d2
  BY <1>1, <1>2, Composition
<1>5. IsProgram(p3) /\ Execute(p3, d) = d3
  <2> HIDE DEF p2, d2
  <2> QED
    BY <1>4, <1>3, Composition
<1>6. p3 = startClock /\ d3 = e
  <2>1. p3 = startClock
    BY DEF startClock
  <2> HIDE DEF p3, d3
  <2> QED
    BY <2>1, <1>5
<1> HIDE DEF d1, d2, d3, p2, p3
<1>7. Bus(d, d2) /\ (~Failed(d, d2) => ~Failed(d, d1) /\ ~Failed(d1, d2))
  BY <1>1, <1>2, Then DEF Sets
<1>8. Bus(d, d3) /\ (~Failed(d, d3) => ~Failed(d, d2) /\ ~Failed(d2, d3))
  BY <1>7, <1>3, Then DEF Sets
<1>9. ASSUME ~Failed(d, d3)
      PROVE  /\ Changed(d.chip, d1.chip, [mode |-> "STDBY", timer |-> 0])
             /\ Changed(d1.chip, d2.chip, [tcxo |-> TRUE])
             /\ Changed(d2.chip, d3.chip, [calibrated |-> d2.chip.tcxo])
  BY <1>9, <1>1, <1>2, <1>3, <1>7, <1>8 DEF Sets
<1>10. ASSUME ~Failed(d, e)
      PROVE  /\ e.chip.mode = "STDBY" /\ e.chip.tcxo /\ e.chip.calibrated
             /\ Same(d.chip, e.chip, {"txClamp", "retained"})
  <2>1. DOMAIN d.chip = DOMAIN ResetChip
    BY DEF Machine, ChipOK
  <2>2. QED
    BY <2>1, <1>6, <1>9, <1>10 DEF Changed, Sole, Same, ResetChip
<1>11. QED
  BY <1>5, <1>6, <1>8, <1>10

\* After the second part the front end is set up: band, switch, carrier, power amplifier.
LEMMA FrontEnd ==
  ASSUME NEW f1, NEW f2, NEW d, Machine(d), NEW e, e = Execute(frontEnd(f1, f2), d)
  PROVE  /\ IsProgram(frontEnd(f1, f2)) /\ Bus(d, e)
         /\ ~Failed(d, e) =>
              /\ e.chip.mode = "STDBY" /\ e.chip.regulator = "DCDC" /\ e.chip.image = <<f1, f2>>
              /\ e.chip.rfSwitch /\ e.chip.type = "LORA"
              /\ e.chip.freq = convert_freq_in_hz_to_pll_step(867100000)
              /\ e.chip.pa /\ e.chip.ocp = 56
              /\ Same(d.chip, e.chip, {"tcxo", "calibrated", "retained"})
<1> DEFINE d1 == Execute(set_standby, d)
           d2 == Execute(set_reg_mode, d1)
           d3 == Execute(cal_img(f1, f2), d2)
           d4 == Execute(set_dio2_as_rf_sw, d3)
           d5 == Execute(set_pkt_type, d4)
           d6 == Execute(set_rf_freq(867100000), d5)
           d7 == Execute(set_pa_cfg, d6)
           d8 == Execute(set_ocp_value(56), d7)
           p2 == set_standby \o set_reg_mode
           p3 == p2 \o cal_img(f1, f2)
           p4 == p3 \o set_dio2_as_rf_sw
           p5 == p4 \o set_pkt_type
           p6 == p5 \o set_rf_freq(867100000)
           p7 == p6 \o set_pa_cfg
           p8 == p7 \o set_ocp_value(56)
<1>1. IsProgram(set_standby) /\ Sets(d, d1, [mode |-> "STDBY", timer |-> 0])
  BY PlainCommands
<1>2. IsProgram(set_reg_mode) /\ Sets(d1, d2, [regulator |-> "DCDC"])
  <2>1. Machine(d1)
    BY <1>1, SetsMachine
  <2> HIDE DEF d1
  <2> QED
    BY <2>1, PlainCommands
<1>3. IsProgram(cal_img(f1, f2)) /\ Sets(d2, d3, [image |-> <<f1, f2>>])
  <2>1. Machine(d2)
    BY <1>2, SetsMachine
  <2> HIDE DEF d2
  <2> QED
    BY <2>1, CalImgSets
<1>4. IsProgram(set_dio2_as_rf_sw) /\ Sets(d3, d4, [rfSwitch |-> TRUE])
  <2>1. Machine(d3)
    BY <1>3, SetsMachine
  <2> HIDE DEF d3
  <2> QED
    BY <2>1, PlainCommands
<1>5. IsProgram(set_pkt_type) /\ Sets(d4, d5, [type |-> "LORA"])
  <2>1. Machine(d4)
    BY <1>4, SetsMachine
  <2> HIDE DEF d4
  <2> QED
    BY <2>1, PlainCommands
<1>6. /\ IsProgram(set_rf_freq(867100000))
      /\ Sets(d5, d6, [freq |-> convert_freq_in_hz_to_pll_step(867100000)])
  <2>1. Machine(d5)
    BY <1>5, SetsMachine
  <2> HIDE DEF d5
  <2> QED
    BY <2>1, SetRfFreqSets
<1>7. IsProgram(set_pa_cfg) /\ Sets(d6, d7, [pa |-> TRUE, ocp |-> 56])
  <2>1. Machine(d6)
    BY <1>6, SetsMachine
  <2> HIDE DEF d6
  <2> QED
    BY <2>1, PlainCommands
<1>8. IsProgram(set_ocp_value(56)) /\ Sets(d7, d8, [ocp |-> 56])
  <2>1. Machine(d7)
    BY <1>7, SetsMachine
  <2> HIDE DEF d7
  <2> QED
    BY <2>1, SetOcpValueSets
<1>9. IsProgram(p2) /\ Execute(p2, d) = d2
  BY <1>1, <1>2, Composition
<1>10. IsProgram(p3) /\ Execute(p3, d) = d3
  <2> HIDE DEF p2, d2
  <2> QED
    BY <1>9, <1>3, Composition
<1>11. IsProgram(p4) /\ Execute(p4, d) = d4
  <2> HIDE DEF p3, d3
  <2> QED
    BY <1>10, <1>4, Composition
<1>12. IsProgram(p5) /\ Execute(p5, d) = d5
  <2> HIDE DEF p4, d4
  <2> QED
    BY <1>11, <1>5, Composition
<1>13. IsProgram(p6) /\ Execute(p6, d) = d6
  <2> HIDE DEF p5, d5
  <2> QED
    BY <1>12, <1>6, Composition
<1>14. IsProgram(p7) /\ Execute(p7, d) = d7
  <2> HIDE DEF p6, d6
  <2> QED
    BY <1>13, <1>7, Composition
<1>15. IsProgram(p8) /\ Execute(p8, d) = d8
  <2> HIDE DEF p7, d7
  <2> QED
    BY <1>14, <1>8, Composition
<1>16. p8 = frontEnd(f1, f2) /\ d8 = e
  <2>1. p8 = frontEnd(f1, f2)
    BY DEF frontEnd
  <2> HIDE DEF p8, d8
  <2> QED
    BY <2>1, <1>15
<1> HIDE DEF d1, d2, d3, d4, d5, d6, d7, d8, p2, p3, p4, p5, p6, p7, p8
<1>17. Bus(d, d2) /\ (~Failed(d, d2) => ~Failed(d, d1) /\ ~Failed(d1, d2))
  BY <1>1, <1>2, Then DEF Sets
<1>18. Bus(d, d3) /\ (~Failed(d, d3) => ~Failed(d, d2) /\ ~Failed(d2, d3))
  BY <1>17, <1>3, Then DEF Sets
<1>19. Bus(d, d4) /\ (~Failed(d, d4) => ~Failed(d, d3) /\ ~Failed(d3, d4))
  BY <1>18, <1>4, Then DEF Sets
<1>20. Bus(d, d5) /\ (~Failed(d, d5) => ~Failed(d, d4) /\ ~Failed(d4, d5))
  BY <1>19, <1>5, Then DEF Sets
<1>21. Bus(d, d6) /\ (~Failed(d, d6) => ~Failed(d, d5) /\ ~Failed(d5, d6))
  BY <1>20, <1>6, Then DEF Sets
<1>22. Bus(d, d7) /\ (~Failed(d, d7) => ~Failed(d, d6) /\ ~Failed(d6, d7))
  BY <1>21, <1>7, Then DEF Sets
<1>23. Bus(d, d8) /\ (~Failed(d, d8) => ~Failed(d, d7) /\ ~Failed(d7, d8))
  BY <1>22, <1>8, Then DEF Sets
<1>24. ASSUME ~Failed(d, d8)
      PROVE  /\ Changed(d.chip, d1.chip, [mode |-> "STDBY", timer |-> 0])
             /\ Changed(d1.chip, d2.chip, [regulator |-> "DCDC"])
             /\ Changed(d2.chip, d3.chip, [image |-> <<f1, f2>>])
             /\ Changed(d3.chip, d4.chip, [rfSwitch |-> TRUE])
             /\ Changed(d4.chip, d5.chip, [type |-> "LORA"])
             /\ Changed(d5.chip, d6.chip, [freq |-> convert_freq_in_hz_to_pll_step(867100000)])
             /\ Changed(d6.chip, d7.chip, [pa |-> TRUE, ocp |-> 56])
             /\ Changed(d7.chip, d8.chip, [ocp |-> 56])
  BY <1>24, <1>1, <1>2, <1>3, <1>4, <1>5, <1>6, <1>7, <1>8, <1>17, <1>18, <1>19, <1>20, <1>21,
     <1>22, <1>23 DEF Sets
<1>25. ASSUME ~Failed(d, e)
      PROVE  /\ e.chip.mode = "STDBY" /\ e.chip.regulator = "DCDC" /\ e.chip.image = <<f1, f2>>
             /\ e.chip.rfSwitch /\ e.chip.type = "LORA"
             /\ e.chip.freq = convert_freq_in_hz_to_pll_step(867100000)
             /\ e.chip.pa /\ e.chip.ocp = 56
             /\ Same(d.chip, e.chip, {"tcxo", "calibrated", "retained"})
  <2>1. DOMAIN d.chip = DOMAIN ResetChip
    BY DEF Machine, ChipOK
  <2>2. QED
    BY <2>1, <1>16, <1>24, <1>25, SMTT(30) DEF Changed, Sole, Same, ResetChip
<1>26. QED
  BY <1>15, <1>16, <1>23, <1>25

\* The registers that survive sleep.
SleepRegs == {"rxGain", "txModulation", "iqPolarity"}

\* They fit the retention list of a chip that has been reset.
LEMMA SleepRegsFit ==
  IsFiniteSet(SleepRegs) /\ Retained({}, SleepRegs) = SleepRegs
<1>1. IsFiniteSet({}) /\ Cardinality({}) = 0
  BY FS_EmptySet
<1>2. IsFiniteSet({"rxGain"}) /\ Cardinality({"rxGain"}) = 1
  BY FS_Singleton
<1>3. IsFiniteSet({"rxGain", "txModulation"}) /\ Cardinality({"rxGain", "txModulation"}) = 2
  <2>1. /\ {"rxGain", "txModulation"} = {"rxGain"} \cup {"txModulation"}
        /\ "txModulation" \notin {"rxGain"}
    OBVIOUS
  <2>2. QED
    BY <1>2, <2>1, FS_AddElement
<1>4. IsFiniteSet(SleepRegs) /\ Cardinality(SleepRegs) = 3
  <2>1. /\ SleepRegs = {"rxGain", "txModulation"} \cup {"iqPolarity"}
        /\ "iqPolarity" \notin {"rxGain", "txModulation"}
    BY DEF SleepRegs
  <2>2. QED
    BY <1>3, <2>1, FS_AddElement
<1>5. {} \cup SleepRegs = SleepRegs
  OBVIOUS
<1>6. QED
  BY <1>4, <1>5 DEF Retained, MAX_NB_REG_IN_RETENTION

\* sx126x_init_retention_list() and the application's registers.
LEMMA RetentionSets ==
  ASSUME NEW d, Machine(d)
  PROVE  /\ IsProgram(init_retention_list)
         /\ Sets(d, Execute(init_retention_list, d),
                 [retained |-> Retained(d.chip.retained, SleepRegs)])
  BY RetentionCall, SleepRegsFit DEF init_retention_list, SleepRegs, Sets

\* A query changes nothing.
LEMMA QuerySets ==
  ASSUME NEW d, Machine(d)
  PROVE  IsProgram(Query) /\ Sets(d, Execute(Query, d), <<>>)
<1>1. \A c : Changed(c, c, <<>>)
  BY DEF Changed
<1>2. QED
  BY <1>1, QueryCall DEF Sets

\* The queries.
LEMMA QueriesSet ==
  ASSUME NEW d, Machine(d)
  PROVE  /\ IsProgram(get_irq_status) /\ Sets(d, Execute(get_irq_status, d), <<>>)
         /\ IsProgram(get_rx_buffer_status) /\ Sets(d, Execute(get_rx_buffer_status, d), <<>>)
         /\ IsProgram(read_buffer) /\ Sets(d, Execute(read_buffer, d), <<>>)
         /\ IsProgram(get_device_errors) /\ Sets(d, Execute(get_device_errors, d), <<>>)
         /\ IsProgram(clear_device_errors) /\ Sets(d, Execute(clear_device_errors, d), <<>>)
  BY QuerySets DEF get_irq_status, get_rx_buffer_status, read_buffer, get_device_errors,
                   clear_device_errors

\* The workaround of datasheet 15.1 sets bit 2 for the pairing's bandwidth.
LEMMA PairModulation == PairMod.bw # "BW_500"
  BY DEF PairMod

\* The modulation of the pairing.
LEMMA PairModSets ==
  ASSUME NEW d, Machine(d)
  PROVE  /\ IsProgram(set_lora_mod_params(PairMod))
         /\ Sets(d, Execute(set_lora_mod_params(PairMod), d),
                 [mod |-> PairMod, txModulation |-> d.chip.txModulation \cup {2}])
  BY PairModulation, ModulationCall DEF Sets

\* After the third part of sx1268Init() bit 2 of the two registers is as it must be.
LEMMA PairChannel ==
  ASSUME NEW d, Machine(d), NEW e, e = Execute(pairChannel, d)
  PROVE  /\ IsProgram(pairChannel) /\ Bus(d, e)
         /\ ~Failed(d, e) =>
              /\ 2 \in e.chip.txModulation /\ 2 \notin e.chip.iqPolarity
              /\ Same(d.chip, e.chip, {"mode", "tcxo", "calibrated", "retained", "regulator", "image",
                                       "rfSwitch", "type", "freq", "pa", "ocp"})
<1> DEFINE d1 == Execute(set_tx_params(14), d)
           d2 == Execute(set_lora_mod_params(PairMod), d1)
           d3 == Execute(Packets(PairPkt(32)), d2)
           d4 == Execute(write_sync("PAIR"), d3)
           p2 == set_tx_params(14) \o set_lora_mod_params(PairMod)
           p3 == p2 \o Packets(PairPkt(32))
           p4 == p3 \o write_sync("PAIR")
<1>1. IsProgram(set_tx_params(14)) /\ Sets(d, d1, [pwr |-> 14])
  BY SetTxParamsSets
<1>2. /\ IsProgram(set_lora_mod_params(PairMod))
      /\ Sets(d1, d2, [mod |-> PairMod, txModulation |-> d1.chip.txModulation \cup {2}])
  <2>1. Machine(d1)
    BY <1>1, SetsMachine
  <2> HIDE DEF d1
  <2> QED
    BY <2>1, PairModSets
<1>3. /\ IsProgram(Packets(PairPkt(32)))
      /\ Sets(d2, d3, [pkt |-> PairPkt(32), iqPolarity |-> d2.chip.iqPolarity \ {2}])
  <2>1. Machine(d2)
    BY <1>2, SetsMachine
  <2> HIDE DEF d2
  <2> QED
    BY <2>1, PacketsProgram DEF Sets
<1>4. IsProgram(write_sync("PAIR")) /\ Sets(d3, d4, [sync |-> "PAIR"])
  <2>1. Machine(d3)
    BY <1>3, SetsMachine
  <2> HIDE DEF d3
  <2> QED
    BY <2>1, WriteSyncSets
<1>5. IsProgram(p2) /\ Execute(p2, d) = d2
  BY <1>1, <1>2, Composition
<1>6. IsProgram(p3) /\ Execute(p3, d) = d3
  <2> HIDE DEF p2, d2
  <2> QED
    BY <1>5, <1>3, Composition
<1>7. IsProgram(p4) /\ Execute(p4, d) = d4
  <2> HIDE DEF p3, d3
  <2> QED
    BY <1>6, <1>4, Composition
<1>8. p4 = pairChannel /\ d4 = e
  <2>1. p4 = pairChannel
    BY DEF pairChannel
  <2> HIDE DEF p4, d4
  <2> QED
    BY <2>1, <1>7
<1> HIDE DEF d1, d2, d3, d4, p2, p3, p4
<1>9. Bus(d, d2) /\ (~Failed(d, d2) => ~Failed(d, d1) /\ ~Failed(d1, d2))
  BY <1>1, <1>2, Then DEF Sets
<1>10. Bus(d, d3) /\ (~Failed(d, d3) => ~Failed(d, d2) /\ ~Failed(d2, d3))
  BY <1>9, <1>3, Then DEF Sets
<1>11. Bus(d, d4) /\ (~Failed(d, d4) => ~Failed(d, d3) /\ ~Failed(d3, d4))
  BY <1>10, <1>4, Then DEF Sets
<1>12. ASSUME ~Failed(d, d4)
      PROVE  /\ Changed(d.chip, d1.chip, [pwr |-> 14])
             /\ Changed(d1.chip, d2.chip, [mod |-> PairMod, txModulation |-> d1.chip.txModulation \cup {2}])
             /\ Changed(d2.chip, d3.chip, [pkt |-> PairPkt(32), iqPolarity |-> d2.chip.iqPolarity \ {2}])
             /\ Changed(d3.chip, d4.chip, [sync |-> "PAIR"])
  BY <1>12, <1>1, <1>2, <1>3, <1>4, <1>9, <1>10, <1>11 DEF Sets
<1>13. ASSUME ~Failed(d, e)
      PROVE  /\ 2 \in e.chip.txModulation /\ 2 \notin e.chip.iqPolarity
             /\ Same(d.chip, e.chip, {"mode", "tcxo", "calibrated", "retained", "regulator", "image",
                                      "rfSwitch", "type", "freq", "pa", "ocp"})
  <2>1. DOMAIN d.chip = DOMAIN ResetChip
    BY DEF Machine, ChipOK
  <2>2. QED
    BY <2>1, <1>8, <1>12, <1>13 DEF Changed, Sole, Same, ResetChip
<1>14. QED
  BY <1>7, <1>8, <1>11, <1>13

\* After the last part buffers, clamp, gain, retention and interrupts are set up.
LEMMA BuffersAndInterrupts ==
  ASSUME NEW d, Machine(d), NEW e, e = Execute(buffersAndInterrupts, d)
  PROVE  /\ IsProgram(buffersAndInterrupts) /\ Bus(d, e)
         /\ ~Failed(d, e) =>
              /\ e.chip.base = <<0, 128>> /\ 1..4 \subseteq e.chip.txClamp /\ e.chip.rxGain = 150
              /\ e.chip.retained = Retained(d.chip.retained, SleepRegs) /\ e.chip.irqMask
              /\ Same(d.chip, e.chip, {"mode", "tcxo", "calibrated", "regulator", "image", "rfSwitch",
                                       "type", "freq", "pa", "ocp", "txModulation", "iqPolarity"})
<1> DEFINE d1 == Execute(set_buffer_base(0, 128), d)
           d2 == Execute(cfg_tx_clamp, d1)
           d3 == Execute(write_rx_gain(150), d2)
           d4 == Execute(init_retention_list, d3)
           d5 == Execute(set_dio_irq_params, d4)
           d6 == Execute(get_device_errors, d5)
           d7 == Execute(clear_device_errors, d6)
           p2 == set_buffer_base(0, 128) \o cfg_tx_clamp
           p3 == p2 \o write_rx_gain(150)
           p4 == p3 \o init_retention_list
           p5 == p4 \o set_dio_irq_params
           p6 == p5 \o get_device_errors
           p7 == p6 \o clear_device_errors
<1>1. IsProgram(set_buffer_base(0, 128)) /\ Sets(d, d1, [base |-> <<0, 128>>])
  BY SetBufferBaseSets
<1>2. IsProgram(cfg_tx_clamp) /\ Sets(d1, d2, Sole("txClamp", d1.chip.txClamp \cup {1, 2, 3, 4}))
  <2>1. Machine(d1)
    BY <1>1, SetsMachine
  <2> HIDE DEF d1
  <2> QED
    BY <2>1, ClampCall DEF Sets
<1>3. IsProgram(write_rx_gain(150)) /\ Sets(d2, d3, [rxGain |-> 150])
  <2>1. Machine(d2)
    BY <1>2, SetsMachine
  <2> HIDE DEF d2
  <2> QED
    BY <2>1, WriteRxGainSets
<1>4. /\ IsProgram(init_retention_list)
      /\ Sets(d3, d4, [retained |-> Retained(d3.chip.retained, SleepRegs)])
  <2>1. Machine(d3)
    BY <1>3, SetsMachine
  <2> HIDE DEF d3
  <2> QED
    BY <2>1, RetentionSets
<1>5. IsProgram(set_dio_irq_params) /\ Sets(d4, d5, [irqMask |-> TRUE])
  <2>1. Machine(d4)
    BY <1>4, SetsMachine
  <2> HIDE DEF d4
  <2> QED
    BY <2>1, PlainCommands
<1>6. IsProgram(get_device_errors) /\ Sets(d5, d6, <<>>)
  <2>1. Machine(d5)
    BY <1>5, SetsMachine
  <2> HIDE DEF d5
  <2> QED
    BY <2>1, QueriesSet
<1>7. IsProgram(clear_device_errors) /\ Sets(d6, d7, <<>>)
  <2>1. Machine(d6)
    BY <1>6, SetsMachine
  <2> HIDE DEF d6
  <2> QED
    BY <2>1, QueriesSet
<1>8. IsProgram(p2) /\ Execute(p2, d) = d2
  BY <1>1, <1>2, Composition
<1>9. IsProgram(p3) /\ Execute(p3, d) = d3
  <2> HIDE DEF p2, d2
  <2> QED
    BY <1>8, <1>3, Composition
<1>10. IsProgram(p4) /\ Execute(p4, d) = d4
  <2> HIDE DEF p3, d3
  <2> QED
    BY <1>9, <1>4, Composition
<1>11. IsProgram(p5) /\ Execute(p5, d) = d5
  <2> HIDE DEF p4, d4
  <2> QED
    BY <1>10, <1>5, Composition
<1>12. IsProgram(p6) /\ Execute(p6, d) = d6
  <2> HIDE DEF p5, d5
  <2> QED
    BY <1>11, <1>6, Composition
<1>13. IsProgram(p7) /\ Execute(p7, d) = d7
  <2> HIDE DEF p6, d6
  <2> QED
    BY <1>12, <1>7, Composition
<1>14. p7 = buffersAndInterrupts /\ d7 = e
  <2>1. p7 = buffersAndInterrupts
    BY DEF buffersAndInterrupts
  <2> HIDE DEF p7, d7
  <2> QED
    BY <2>1, <1>13
<1> HIDE DEF d1, d2, d3, d4, d5, d6, d7, p2, p3, p4, p5, p6, p7
<1>15. Bus(d, d2) /\ (~Failed(d, d2) => ~Failed(d, d1) /\ ~Failed(d1, d2))
  BY <1>1, <1>2, Then DEF Sets
<1>16. Bus(d, d3) /\ (~Failed(d, d3) => ~Failed(d, d2) /\ ~Failed(d2, d3))
  BY <1>15, <1>3, Then DEF Sets
<1>17. Bus(d, d4) /\ (~Failed(d, d4) => ~Failed(d, d3) /\ ~Failed(d3, d4))
  BY <1>16, <1>4, Then DEF Sets
<1>18. Bus(d, d5) /\ (~Failed(d, d5) => ~Failed(d, d4) /\ ~Failed(d4, d5))
  BY <1>17, <1>5, Then DEF Sets
<1>19. Bus(d, d6) /\ (~Failed(d, d6) => ~Failed(d, d5) /\ ~Failed(d5, d6))
  BY <1>18, <1>6, Then DEF Sets
<1>20. Bus(d, d7) /\ (~Failed(d, d7) => ~Failed(d, d6) /\ ~Failed(d6, d7))
  BY <1>19, <1>7, Then DEF Sets
<1>21. ASSUME ~Failed(d, d7)
      PROVE  /\ Changed(d.chip, d1.chip, [base |-> <<0, 128>>])
             /\ Changed(d1.chip, d2.chip, Sole("txClamp", d1.chip.txClamp \cup {1, 2, 3, 4}))
             /\ Changed(d2.chip, d3.chip, [rxGain |-> 150])
             /\ Changed(d3.chip, d4.chip, [retained |-> Retained(d3.chip.retained, SleepRegs)])
             /\ Changed(d4.chip, d5.chip, [irqMask |-> TRUE])
             /\ Changed(d5.chip, d6.chip, <<>>)
             /\ Changed(d6.chip, d7.chip, <<>>)
  BY <1>21, <1>1, <1>2, <1>3, <1>4, <1>5, <1>6, <1>7, <1>15, <1>16, <1>17, <1>18, <1>19,
     <1>20 DEF Sets
<1>22. ASSUME ~Failed(d, e)
      PROVE  /\ e.chip.base = <<0, 128>> /\ 1..4 \subseteq e.chip.txClamp /\ e.chip.rxGain = 150
             /\ e.chip.retained = Retained(d.chip.retained, SleepRegs) /\ e.chip.irqMask
             /\ Same(d.chip, e.chip, {"mode", "tcxo", "calibrated", "regulator", "image", "rfSwitch",
                                      "type", "freq", "pa", "ocp", "txModulation", "iqPolarity"})
  <2>1. DOMAIN d.chip = DOMAIN ResetChip
    BY DEF Machine, ChipOK
  <2>2. /\ DOMAIN d1.chip = DOMAIN ResetChip /\ DOMAIN d2.chip = DOMAIN ResetChip
        /\ DOMAIN d3.chip = DOMAIN ResetChip /\ DOMAIN d4.chip = DOMAIN ResetChip
        /\ DOMAIN d5.chip = DOMAIN ResetChip /\ DOMAIN d6.chip = DOMAIN ResetChip
    BY <2>1, <1>14, <1>21, <1>22 DEF Changed
  <2>3. /\ \A r \in DOMAIN ResetChip \ {"base"} : d1.chip[r] = d.chip[r]
        /\ d1.chip.base = <<0, 128>>
    BY <2>1, <1>14, <1>21, <1>22 DEF Changed, ResetChip
  <2>4. /\ \A r \in DOMAIN ResetChip \ {"txClamp"} : d2.chip[r] = d1.chip[r]
        /\ 1..4 \subseteq d2.chip.txClamp
    BY <2>2, <1>14, <1>21, <1>22 DEF Changed, Sole, ResetChip
  <2>5. /\ \A r \in DOMAIN ResetChip \ {"rxGain"} : d3.chip[r] = d2.chip[r]
        /\ d3.chip.rxGain = 150
    BY <2>2, <1>14, <1>21, <1>22 DEF Changed, ResetChip
  <2>6. /\ \A r \in DOMAIN ResetChip \ {"retained"} : d4.chip[r] = d3.chip[r]
        /\ d4.chip.retained = Retained(d3.chip.retained, SleepRegs)
    BY <2>2, <1>14, <1>21, <1>22 DEF Changed, ResetChip
  <2>7. /\ \A r \in DOMAIN ResetChip \ {"irqMask"} : d5.chip[r] = d4.chip[r]
        /\ d5.chip.irqMask
    BY <2>2, <1>14, <1>21, <1>22 DEF Changed, ResetChip
  <2>8. \A r \in DOMAIN ResetChip : d6.chip[r] = d5.chip[r] /\ e.chip[r] = d6.chip[r]
    BY <2>2, <1>14, <1>21, <1>22 DEF Changed
  <2>9. d3.chip.retained = d.chip.retained
    BY <2>3, <2>4, <2>5 DEF ResetChip
  <2>10. QED
    BY <2>3, <2>4, <2>5, <2>6, <2>7, <2>8, <2>9 DEF Same, ResetChip
<1>23. QED
  BY <1>13, <1>14, <1>20, <1>22

\* What sx1268Init() sets and nothing else does.
Untuned == {"tcxo", "calibrated", "retained", "regulator", "image", "rfSwitch", "type", "freq",
            "pa", "ocp", "base", "irqMask", "rxGain", "txClamp"}

\* What either channel switch leaves behind, from any state of the chip.
LEMMA Switched ==
  ASSUME NEW mod, mod.bw # "BW_500", NEW pkt, NEW sync, NEW dbm, NEW d, Machine(d), NEW e,
         e = Execute(SwitchTo(mod, pkt, sync, dbm), d)
  PROVE  /\ IsProgram(SwitchTo(mod, pkt, sync, dbm)) /\ Bus(d, e)
         /\ ~Failed(d, e) =>
              /\ e.chip.mode = "STDBY" /\ e.chip.mod = mod /\ e.chip.pkt = pkt
              /\ e.chip.sync = sync /\ e.chip.pwr = dbm
              /\ 2 \in e.chip.txModulation /\ 2 \notin e.chip.iqPolarity
              /\ Same(d.chip, e.chip, Untuned)
<1> DEFINE d1 == Execute(set_standby, d)
           d2 == Execute(set_lora_mod_params(mod), d1)
           d3 == Execute(Packets(pkt), d2)
           d4 == Execute(write_sync(sync), d3)
           d5 == Execute(set_tx_params(dbm), d4)
           d6 == Execute(clear_irq_status, d5)
           p2 == set_standby \o set_lora_mod_params(mod)
           p3 == p2 \o Packets(pkt)
           p4 == p3 \o write_sync(sync)
           p5 == p4 \o set_tx_params(dbm)
           p6 == p5 \o clear_irq_status
<1>1. IsProgram(set_standby) /\ Sets(d, d1, [mode |-> "STDBY", timer |-> 0])
  BY PlainCommands
<1>2. /\ IsProgram(set_lora_mod_params(mod))
      /\ Sets(d1, d2, [mod |-> mod, txModulation |-> d1.chip.txModulation \cup {2}])
  <2>1. Machine(d1)
    BY <1>1, SetsMachine
  <2> HIDE DEF d1
  <2> QED
    BY <2>1, ModulationCall DEF Sets
<1>3. /\ IsProgram(Packets(pkt))
      /\ Sets(d2, d3, [pkt |-> pkt, iqPolarity |-> d2.chip.iqPolarity \ {2}])
  <2>1. Machine(d2)
    BY <1>2, SetsMachine
  <2> HIDE DEF d2
  <2> QED
    BY <2>1, PacketsProgram DEF Sets
<1>4. IsProgram(write_sync(sync)) /\ Sets(d3, d4, [sync |-> sync])
  <2>1. Machine(d3)
    BY <1>3, SetsMachine
  <2> HIDE DEF d3
  <2> QED
    BY <2>1, WriteSyncSets
<1>5. IsProgram(set_tx_params(dbm)) /\ Sets(d4, d5, [pwr |-> dbm])
  <2>1. Machine(d4)
    BY <1>4, SetsMachine
  <2> HIDE DEF d4
  <2> QED
    BY <2>1, SetTxParamsSets
<1>6. IsProgram(clear_irq_status) /\ Sets(d5, d6, [irqs |-> FALSE])
  <2>1. Machine(d5)
    BY <1>5, SetsMachine
  <2> HIDE DEF d5
  <2> QED
    BY <2>1, PlainCommands
<1>7. IsProgram(p2) /\ Execute(p2, d) = d2
  BY <1>1, <1>2, Composition
<1>8. IsProgram(p3) /\ Execute(p3, d) = d3
  <2> HIDE DEF p2, d2
  <2> QED
    BY <1>7, <1>3, Composition
<1>9. IsProgram(p4) /\ Execute(p4, d) = d4
  <2> HIDE DEF p3, d3
  <2> QED
    BY <1>8, <1>4, Composition
<1>10. IsProgram(p5) /\ Execute(p5, d) = d5
  <2> HIDE DEF p4, d4
  <2> QED
    BY <1>9, <1>5, Composition
<1>11. IsProgram(p6) /\ Execute(p6, d) = d6
  <2> HIDE DEF p5, d5
  <2> QED
    BY <1>10, <1>6, Composition
<1>12. p6 = SwitchTo(mod, pkt, sync, dbm) /\ d6 = e
  <2>1. p6 = SwitchTo(mod, pkt, sync, dbm)
    BY DEF SwitchTo
  <2> HIDE DEF p6, d6
  <2> QED
    BY <2>1, <1>11
<1> HIDE DEF d1, d2, d3, d4, d5, d6, p2, p3, p4, p5, p6
<1>13. Bus(d, d2) /\ (~Failed(d, d2) => ~Failed(d, d1) /\ ~Failed(d1, d2))
  BY <1>1, <1>2, Then DEF Sets
<1>14. Bus(d, d3) /\ (~Failed(d, d3) => ~Failed(d, d2) /\ ~Failed(d2, d3))
  BY <1>13, <1>3, Then DEF Sets
<1>15. Bus(d, d4) /\ (~Failed(d, d4) => ~Failed(d, d3) /\ ~Failed(d3, d4))
  BY <1>14, <1>4, Then DEF Sets
<1>16. Bus(d, d5) /\ (~Failed(d, d5) => ~Failed(d, d4) /\ ~Failed(d4, d5))
  BY <1>15, <1>5, Then DEF Sets
<1>17. Bus(d, d6) /\ (~Failed(d, d6) => ~Failed(d, d5) /\ ~Failed(d5, d6))
  BY <1>16, <1>6, Then DEF Sets
<1>18. ASSUME ~Failed(d, d6)
      PROVE  /\ Changed(d.chip, d1.chip, [mode |-> "STDBY", timer |-> 0])
             /\ Changed(d1.chip, d2.chip, [mod |-> mod, txModulation |-> d1.chip.txModulation \cup {2}])
             /\ Changed(d2.chip, d3.chip, [pkt |-> pkt, iqPolarity |-> d2.chip.iqPolarity \ {2}])
             /\ Changed(d3.chip, d4.chip, [sync |-> sync])
             /\ Changed(d4.chip, d5.chip, [pwr |-> dbm])
             /\ Changed(d5.chip, d6.chip, [irqs |-> FALSE])
  BY <1>18, <1>1, <1>2, <1>3, <1>4, <1>5, <1>6, <1>13, <1>14, <1>15, <1>16, <1>17 DEF Sets
<1>19. ASSUME ~Failed(d, e)
      PROVE  /\ e.chip.mode = "STDBY" /\ e.chip.mod = mod /\ e.chip.pkt = pkt
             /\ e.chip.sync = sync /\ e.chip.pwr = dbm
             /\ 2 \in e.chip.txModulation /\ 2 \notin e.chip.iqPolarity
             /\ Same(d.chip, e.chip, Untuned)
  <2>1. DOMAIN d.chip = DOMAIN ResetChip
    BY DEF Machine, ChipOK
  <2>2. /\ DOMAIN d1.chip = DOMAIN ResetChip /\ DOMAIN d2.chip = DOMAIN ResetChip
        /\ DOMAIN d3.chip = DOMAIN ResetChip /\ DOMAIN d4.chip = DOMAIN ResetChip
        /\ DOMAIN d5.chip = DOMAIN ResetChip
    BY <2>1, <1>18, <1>19, <1>12 DEF Changed
  <2>3. \A r \in DOMAIN ResetChip \ {"mode", "timer"} : d1.chip[r] = d.chip[r]
    BY <2>1, <1>18, <1>19, <1>12 DEF Changed
  <2>4. \A r \in DOMAIN ResetChip \ {"mod", "txModulation"} : d2.chip[r] = d1.chip[r]
    BY <2>2, <1>18, <1>19, <1>12 DEF Changed
  <2>5. \A r \in DOMAIN ResetChip \ {"pkt", "iqPolarity"} : d3.chip[r] = d2.chip[r]
    BY <2>2, <1>18, <1>19, <1>12 DEF Changed
  <2>6. \A r \in DOMAIN ResetChip \ {"sync"} : d4.chip[r] = d3.chip[r]
    BY <2>2, <1>18, <1>19, <1>12 DEF Changed
  <2>7. \A r \in DOMAIN ResetChip \ {"pwr"} : d5.chip[r] = d4.chip[r]
    BY <2>2, <1>18, <1>19, <1>12 DEF Changed
  <2>8. \A r \in DOMAIN ResetChip \ {"irqs"} : e.chip[r] = d5.chip[r]
    BY <2>2, <1>18, <1>19, <1>12 DEF Changed
  <2>9. /\ d1.chip.mode = "STDBY" /\ d2.chip.mod = mod /\ 2 \in d2.chip.txModulation
         /\ d3.chip.pkt = pkt /\ 2 \notin d3.chip.iqPolarity
         /\ d4.chip.sync = sync /\ d5.chip.pwr = dbm
    BY <2>1, <2>2, <1>18, <1>19, <1>12 DEF Changed, ResetChip
  <2>10. QED
    BY <2>3, <2>4, <2>5, <2>6, <2>7, <2>8, <2>9 DEF Same, ResetChip, Untuned
<1>20. QED
  BY <1>11, <1>12, <1>17, <1>19

-----------------------------------------------------------------------------
(* How long a program takes.                                               *)

\* Pauses and transactions: the timer's bounds move by ms.
Delays(d, e, ms) ==
  /\ Flows(d, e)
  /\ \A b \in Nat :
       Kept(d.dog, b) /\ b + ms + BUSY_TIMEOUT_MS <= WDT_PERIOD_MS => Kept(e.dog, b + ms)
  /\ \A b \in Nat : Spared(d.dog, b) /\ b + ms <= WDT_PERIOD_MS => Spared(e.dog, b + ms)
  /\ \A b \in Nat :
       Strict(d.dog, b) /\ b + ms <= WDT_PERIOD_MS /\ b + BUSY_TIMEOUT_MS > WDT_PERIOD_MS
         => Strict(e.dog, b + ms)
  /\ Off(d.dog) => Off(e.dog)

\* The calls of the driver take no time of their own.
LEMMA SilentDelays ==
  ASSUME NEW d, NEW e, Machine(d), Silent(d, e)
  PROVE  Delays(d, e, 0)
<1>1. Flows(d, e) /\ (Off(d.dog) => Off(e.dog))
  <2>1. 0 \in Nat
    OBVIOUS
  <2>2. QED
    BY <2>1, SilentFlows, SilentDog
<1>2. \A b \in Nat : b + 0 = b
  OBVIOUS
<1>3. \A b \in Nat :
        Kept(d.dog, b) /\ b + BUSY_TIMEOUT_MS <= WDT_PERIOD_MS => Kept(e.dog, b)
  BY SilentDog
<1>4. \A b \in Nat : Spared(d.dog, b) => Spared(e.dog, b)
  BY SilentDog
<1>5. \A b \in Nat :
        Strict(d.dog, b) /\ b + BUSY_TIMEOUT_MS > WDT_PERIOD_MS => Strict(e.dog, b)
  BY SilentDog
<1>6. QED
  BY <1>1, <1>2, <1>3, <1>4, <1>5 DEF Delays

\* A pause takes its length.
LEMMA WaitDelays ==
  ASSUME NEW d, Machine(d), NEW ms \in Nat
  PROVE  /\ IsProgram(Wait(ms)) /\ Delays(d, Execute(Wait(ms), d), ms)
         /\ Idle(d, Execute(Wait(ms), d))
<1>1. IsProgram(Wait(ms)) /\ Idle(d, Execute(Wait(ms), d))
  BY WaitCall
<1>2. Delays(d, Execute(Wait(ms), d), ms)
  <2> DEFINE e == Execute(Wait(ms), d)
  <2>1. 0 \in Nat
    OBVIOUS
  <2>2. Flows(d, e) /\ (Off(d.dog) => Off(e.dog))
    BY <2>1, WaitDog
  <2>3. \A b \in Nat :
          Kept(d.dog, b) /\ b + ms + BUSY_TIMEOUT_MS <= WDT_PERIOD_MS => Kept(e.dog, b + ms)
    BY WaitDog
  <2>4. \A b \in Nat : Spared(d.dog, b) /\ b + ms <= WDT_PERIOD_MS => Spared(e.dog, b + ms)
    BY WaitDog
  <2>5. \A b \in Nat : Strict(d.dog, b) /\ b + ms <= WDT_PERIOD_MS => Strict(e.dog, b + ms)
    BY WaitDog
  <2> HIDE DEF e
  <2>6. QED
    BY <2>2, <2>3, <2>4, <2>5 DEF Delays, e
<1>3. QED
  BY <1>1, <1>2

\* Two programs take the sum of what each takes.
LEMMA DelaysTransitive ==
  ASSUME NEW d, NEW e, NEW f, Machine(d), NEW m \in Nat, NEW n \in Nat,
         Delays(d, e, m), Delays(e, f, n)
  PROVE  Delays(d, f, m + n)
<1>1. Flows(d, f)
  BY FlowsTransitive DEF Delays
<1>2. /\ BUSY_TIMEOUT_MS \in Nat /\ WDT_PERIOD_MS \in Nat
      /\ \A b \in Nat : b + m \in Nat /\ b + (m + n) = (b + m) + n
  BY DriverAssumption
<1>3. ASSUME NEW b \in Nat, Kept(d.dog, b), b + (m + n) + BUSY_TIMEOUT_MS <= WDT_PERIOD_MS
      PROVE  Kept(f.dog, b + (m + n))
  <2>1. b + m + BUSY_TIMEOUT_MS <= WDT_PERIOD_MS /\ (b + m) + n + BUSY_TIMEOUT_MS <= WDT_PERIOD_MS
    BY <1>2, <1>3
  <2>2. Kept(e.dog, b + m)
    BY <1>3, <2>1 DEF Delays
  <2>3. Kept(f.dog, (b + m) + n)
    BY <1>2, <2>1, <2>2 DEF Delays
  <2>4. QED
    BY <1>2, <2>3
<1>4. ASSUME NEW b \in Nat, Spared(d.dog, b), b + (m + n) <= WDT_PERIOD_MS
      PROVE  Spared(f.dog, b + (m + n))
  <2>1. b + m <= WDT_PERIOD_MS /\ (b + m) + n <= WDT_PERIOD_MS
    BY <1>2, <1>4
  <2>2. Spared(e.dog, b + m)
    BY <1>4, <2>1 DEF Delays
  <2>3. Spared(f.dog, (b + m) + n)
    BY <1>2, <2>1, <2>2 DEF Delays
  <2>4. QED
    BY <1>2, <2>3
<1>5. ASSUME NEW b \in Nat, Strict(d.dog, b), b + (m + n) <= WDT_PERIOD_MS,
             b + BUSY_TIMEOUT_MS > WDT_PERIOD_MS
      PROVE  Strict(f.dog, b + (m + n))
  <2>1. /\ b + m <= WDT_PERIOD_MS /\ (b + m) + n <= WDT_PERIOD_MS
        /\ (b + m) + BUSY_TIMEOUT_MS > WDT_PERIOD_MS
    BY <1>2, <1>5
  <2>2. Strict(e.dog, b + m)
    BY <1>5, <2>1 DEF Delays
  <2>3. Strict(f.dog, (b + m) + n)
    BY <1>2, <2>1, <2>2 DEF Delays
  <2>4. QED
    BY <1>2, <2>3
<1>6. Off(d.dog) => Off(f.dog)
  BY DEF Delays
<1>7. QED
  BY <1>1, <1>3, <1>4, <1>5, <1>6 DEF Delays

\* What they leave behind is a machine.
LEMMA DelaysMachine ==
  ASSUME NEW d, NEW e, NEW ms, Delays(d, e, ms)
  PROVE  Machine(e)
  BY DEF Delays, Flows

\* In standby, and initialised unless the timer expires first.
Fresh(e) == ~e.cut => e.chip.mode = "STDBY" /\ (e.dog.expired \/ Initialised(e.chip))

\* 867.1 MHz lies in the band that sx1268Init() calibrates the image rejection for.
LEMMA Carrier ==
  LET Pll(mhz) == convert_freq_in_hz_to_pll_step(1000000 * mhz)
  IN  /\ Pll(4 * 215) <= convert_freq_in_hz_to_pll_step(867100000)
      /\ convert_freq_in_hz_to_pll_step(867100000) <= Pll(4 * 219)
  BY DEF convert_freq_in_hz_to_pll_step, PLL_STEP_SCALED, PLL_STEP_SHIFT

\* sx1268Init() takes 60 ms and leaves a chip behind that is initialised, whatever it was before.
LEMMA InitProgram ==
  ASSUME NEW d, Machine(d), NEW e, e = Execute(sx1268Init, d)
  PROVE  /\ IsProgram(sx1268Init) /\ Delays(d, e, 60)
         /\ ~d.dog.expired => Fresh(e)
<1> DEFINE d1 == Execute(reset, d)
           d2 == Execute(Wait(10), d1)
           d3 == Execute(startClock, d2)
           d4 == Execute(Wait(50), d3)
           d5 == Execute(frontEnd(215, 219), d4)
           d6 == Execute(pairChannel, d5)
           d7 == Execute(buffersAndInterrupts, d6)
           p2 == reset \o Wait(10)
           p3 == p2 \o startClock
           p4 == p3 \o Wait(50)
           p5 == p4 \o frontEnd(215, 219)
           p6 == p5 \o pairChannel
           p7 == p6 \o buffersAndInterrupts
<1>1. IsProgram(reset) /\ Silent(d, d1) /\ (~d.dog.expired => d1.chip = ResetChip /\ ~d1.cut)
  BY ResetCall
<1>2. Machine(d1) /\ Delays(d, d1, 0)
  BY <1>1, SilentDelays DEF Silent
<1> HIDE DEF d1
<1>3. IsProgram(Wait(10)) /\ Delays(d1, d2, 10) /\ Idle(d1, d2) /\ Machine(d2)
  BY <1>2, WaitDelays, DelaysMachine
<1> HIDE DEF d2
<1>4. /\ IsProgram(startClock) /\ Bus(d2, d3) /\ Machine(d3)
      /\ ~Failed(d2, d3) =>
           /\ d3.chip.mode = "STDBY" /\ d3.chip.tcxo /\ d3.chip.calibrated
           /\ Same(d2.chip, d3.chip, {"txClamp", "retained"})
  BY <1>3, StartClock DEF Bus, Silent
<1> HIDE DEF d3
<1>5. IsProgram(Wait(50)) /\ Delays(d3, d4, 50) /\ Idle(d3, d4) /\ Machine(d4)
  BY <1>4, WaitDelays, DelaysMachine
<1> HIDE DEF d4
<1>6. /\ IsProgram(frontEnd(215, 219)) /\ Bus(d4, d5) /\ Machine(d5)
      /\ ~Failed(d4, d5) =>
           /\ d5.chip.mode = "STDBY" /\ d5.chip.regulator = "DCDC" /\ d5.chip.image = <<215, 219>>
           /\ d5.chip.rfSwitch /\ d5.chip.type = "LORA"
           /\ d5.chip.freq = convert_freq_in_hz_to_pll_step(867100000)
           /\ d5.chip.pa /\ d5.chip.ocp = 56
           /\ Same(d4.chip, d5.chip, {"tcxo", "calibrated", "retained"})
  BY <1>5, FrontEnd DEF Bus, Silent
<1> HIDE DEF d5
<1>7. /\ IsProgram(pairChannel) /\ Bus(d5, d6) /\ Machine(d6)
      /\ ~Failed(d5, d6) =>
           /\ 2 \in d6.chip.txModulation /\ 2 \notin d6.chip.iqPolarity
           /\ Same(d5.chip, d6.chip, {"mode", "tcxo", "calibrated", "retained", "regulator", "image",
                                      "rfSwitch", "type", "freq", "pa", "ocp"})
  BY <1>6, PairChannel DEF Bus, Silent
<1> HIDE DEF d6
<1>8. /\ IsProgram(buffersAndInterrupts) /\ Bus(d6, d7) /\ Machine(d7)
      /\ ~Failed(d6, d7) =>
           /\ d7.chip.base = <<0, 128>> /\ 1..4 \subseteq d7.chip.txClamp /\ d7.chip.rxGain = 150
           /\ d7.chip.retained = Retained(d6.chip.retained, SleepRegs) /\ d7.chip.irqMask
           /\ Same(d6.chip, d7.chip, {"mode", "tcxo", "calibrated", "regulator", "image", "rfSwitch",
                                      "type", "freq", "pa", "ocp", "txModulation", "iqPolarity"})
  BY <1>7, BuffersAndInterrupts DEF Bus, Silent
<1>9. IsProgram(p2) /\ Execute(p2, d) = d2
  BY <1>1, <1>3, Composition DEF d1, d2
<1>10. IsProgram(p3) /\ Execute(p3, d) = d3
  <2> HIDE DEF p2
  <2> QED
    BY <1>4, <1>9, Composition DEF d3
<1>11. IsProgram(p4) /\ Execute(p4, d) = d4
  <2> HIDE DEF p3
  <2> QED
    BY <1>5, <1>10, Composition DEF d4
<1>12. IsProgram(p5) /\ Execute(p5, d) = d5
  <2> HIDE DEF p4
  <2> QED
    BY <1>6, <1>11, Composition DEF d5
<1>13. IsProgram(p6) /\ Execute(p6, d) = d6
  <2> HIDE DEF p5
  <2> QED
    BY <1>7, <1>12, Composition DEF d6
<1>14. IsProgram(p7) /\ Execute(p7, d) = d7
  <2> HIDE DEF p6
  <2> QED
    BY <1>8, <1>13, Composition DEF d7
<1>15. IsProgram(sx1268Init) /\ e = d7
  <2>1. p7 = sx1268Init
    BY DEF sx1268Init
  <2> HIDE DEF p7, d7
  <2>2. QED
    BY <1>14, <2>1
<1> HIDE DEF d7, p2, p3, p4, p5, p6, p7
<1>16. Delays(d, d7, 60)
  <2>1. Delays(d2, d3, 0) /\ Delays(d4, d5, 0) /\ Delays(d5, d6, 0) /\ Delays(d6, d7, 0)
    BY <1>3, <1>4, <1>5, <1>6, <1>7, <1>8, SilentDelays DEF Bus
  <2>2. Delays(d, d2, 10)
    <3>1. 0 + 10 = 10
      OBVIOUS
    <3>2. QED
      BY <1>2, <1>3, <3>1, DelaysTransitive
  <2>3. Delays(d, d3, 10)
    <3>1. 10 + 0 = 10
      OBVIOUS
    <3>2. QED
      BY <2>1, <2>2, <3>1, DelaysTransitive
  <2>4. Delays(d, d4, 60)
    <3>1. 10 + 50 = 60
      OBVIOUS
    <3>2. QED
      BY <1>5, <2>3, <3>1, DelaysTransitive
  <2>5. Delays(d, d5, 60) /\ 60 + 0 = 60
    BY <2>1, <2>4, DelaysTransitive
  <2>6. Delays(d, d6, 60)
    BY <2>1, <2>5, DelaysTransitive
  <2>7. QED
    BY <2>1, <2>5, <2>6, DelaysTransitive
<1>17. ASSUME ~d.dog.expired, ~d7.cut
       PROVE  d7.chip.mode = "STDBY" /\ (d7.dog.expired \/ Initialised(d7.chip))
  <2>1. d1.chip = ResetChip /\ ~d1.cut /\ d2.chip = ResetChip /\ ~d2.cut
    BY <1>1, <1>3, <1>17 DEF Idle
  <2>2. ResetChip.mode = "STDBY" /\ ResetChip.retained = {}
    BY DEF ResetChip
  <2>3. ~d6.cut /\ ~d5.cut /\ ~d4.cut /\ ~d3.cut
    BY <1>4, <1>5, <1>6, <1>7, <1>8, <1>17 DEF Bus, Idle
  <2>4. ~Hit(d2, d3) /\ ~Hit(d4, d5) /\ ~Hit(d5, d6) /\ ~Hit(d6, d7)
    BY <1>4, <1>6, <1>7, <1>8, <1>17, <2>3 DEF Bus
  <2>5. d3.chip.mode = "STDBY" /\ d4.chip = d3.chip
    <3>1. CASE d2.dog.expired
      BY <1>4, <1>5, <2>1, <2>2, <3>1 DEF Bus, Silent, Idle
    <3>2. CASE ~d2.dog.expired
      BY <1>4, <1>5, <2>4, <3>2 DEF Failed, Idle
    <3>3. QED
      BY <3>1, <3>2
  <2>6. CASE d4.dog.expired
    <3>1. d5 = d4
      BY <1>6, <2>6 DEF Bus, Silent
    <3>2. d6 = d5
      BY <1>7, <2>6, <3>1 DEF Bus, Silent
    <3>3. d7 = d6
      BY <1>8, <2>6, <3>1, <3>2 DEF Bus, Silent
    <3>4. QED
      BY <2>5, <2>6, <3>1, <3>2, <3>3
  <2>7. CASE ~d4.dog.expired
    <3>1. ~d3.dog.expired
      BY <1>5, <2>7 DEF Idle
    <3>2. ~d2.dog.expired
      BY <1>4, <3>1 DEF Bus, Silent
    <3>3. d5.dog = d4.dog /\ d6.dog = d5.dog /\ d7.dog = d6.dog
      BY <1>6, <1>7, <1>8, <2>4 DEF Bus, Silent
    <3>4. ~Failed(d2, d3) /\ ~Failed(d4, d5) /\ ~Failed(d5, d6) /\ ~Failed(d6, d7)
      BY <2>4, <2>7, <3>2, <3>3 DEF Failed
    <3>5. d3.chip.tcxo /\ d3.chip.calibrated /\ d3.chip.retained = {}
      BY <1>4, <2>1, <2>2, <3>4 DEF Same
    <3>6. d7.chip.mode = "STDBY" /\ d7.chip.tcxo /\ d7.chip.calibrated
      BY <1>6, <1>7, <1>8, <2>5, <3>4, <3>5 DEF Same
    <3>7. /\ d7.chip.regulator = "DCDC" /\ d7.chip.image = <<215, 219>>
          /\ d7.chip.rfSwitch /\ d7.chip.type = "LORA"
          /\ d7.chip.freq = convert_freq_in_hz_to_pll_step(867100000)
          /\ d7.chip.pa /\ d7.chip.ocp = 56
      BY <1>6, <1>7, <1>8, <3>4 DEF Same
    <3>8. /\ d7.chip.base = <<0, 128>> /\ 1..4 \subseteq d7.chip.txClamp /\ d7.chip.rxGain = 150
          /\ d7.chip.irqMask
          /\ 2 \in d7.chip.txModulation /\ 2 \notin d7.chip.iqPolarity
      BY <1>7, <1>8, <3>4 DEF Same
    <3>9. d7.chip.retained = SleepRegs
      <4>1. d6.chip.retained = {}
        BY <1>6, <1>7, <2>5, <3>4, <3>5 DEF Same
      <4>2. QED
        BY <1>8, <3>4, <4>1, SleepRegsFit
    <3>10. InImageBand(d7.chip)
      <4>1. d7.chip.image[1] = 215 /\ d7.chip.image[2] = 219
        BY <3>7
      <4>2. QED
        BY <3>7, <4>1, Carrier DEF InImageBand
    <3>11. QED
      BY <3>6, <3>7, <3>8, <3>9, <3>10 DEF Initialised, SleepRegs
  <2>8. QED
    BY <2>6, <2>7
<1>18. QED
  BY <1>15, <1>16, <1>17 DEF Fresh

-----------------------------------------------------------------------------
(* Programs that leave the settings alone.                                 *)

\* All but the flags of a reception.
Steady == Untuned \cup {"mode", "timer", "mod", "pkt", "sync", "pwr", "fifo", "txModulation",
                        "iqPolarity"}

\* The settings of d are those of e, if no transaction has been lost.
Keeps(d, e) == ~e.cut => ~d.cut /\ Same(d.chip, e.chip, Steady)

\* The program takes ms and leaves the settings alone.
Pauses(p, ms) ==
  /\ IsProgram(p) /\ ms \in Nat
  /\ \A d : Machine(d) => Delays(d, Execute(p, d), ms) /\ Keeps(d, Execute(p, d))

\* Programs that leave the settings alone compose.
LEMMA KeepsTransitive ==
  ASSUME NEW d, NEW e, NEW f, Keeps(d, e), Keeps(e, f)
  PROVE  Keeps(d, f)
  BY DEF Keeps, Same

\* Two of them take the sum of what each takes.
LEMMA PausesConcat ==
  ASSUME NEW p, NEW q, NEW m, NEW n, Pauses(p, m), Pauses(q, n), NEW s, s = m + n
  PROVE  Pauses(p \o q, s)
<1>1. IsProgram(p) /\ IsProgram(q) /\ m \in Nat /\ n \in Nat /\ m + n \in Nat
  BY DEF Pauses
<1>2. ASSUME NEW d, Machine(d)
      PROVE  Delays(d, Execute(p \o q, d), s) /\ Keeps(d, Execute(p \o q, d))
  <2> DEFINE x == Execute(p, d)
             e == Execute(q, x)
  <2>1. Delays(d, x, m) /\ Keeps(d, x)
    BY <1>2 DEF Pauses
  <2>2. Machine(x)
    BY <2>1, DelaysMachine
  <2>3. Execute(p \o q, d) = e
    BY <1>1, Composition
  <2> HIDE DEF x
  <2>4. Delays(x, e, n) /\ Keeps(x, e)
    BY <2>2 DEF Pauses
  <2> HIDE DEF e
  <2>5. QED
    BY <1>1, <1>2, <2>1, <2>3, <2>4, DelaysTransitive, KeepsTransitive
<1>3. QED
  BY <1>1, <1>2, Composition DEF Pauses

\* A pause is one.
LEMMA WaitPauses ==
  ASSUME NEW ms \in Nat
  PROVE  Pauses(Wait(ms), ms)
<1>1. ASSUME NEW d, Machine(d)
      PROVE  /\ IsProgram(Wait(ms)) /\ Delays(d, Execute(Wait(ms), d), ms)
             /\ Keeps(d, Execute(Wait(ms), d))
  <2>1. /\ IsProgram(Wait(ms)) /\ Delays(d, Execute(Wait(ms), d), ms)
        /\ Idle(d, Execute(Wait(ms), d))
    BY <1>1, WaitDelays
  <2>2. QED
    BY <2>1 DEF Idle, Keeps, Same
<1>2. IsProgram(Wait(ms))
  BY OneStep DEF Wait
<1>3. QED
  BY <1>1, <1>2 DEF Pauses

\* Of transactions.
LEMMA BusPauses ==
  ASSUME NEW p, IsProgram(p),
         \A d : Machine(d) => /\ Bus(d, Execute(p, d))
                              /\ \/ Failed(d, Execute(p, d))
                                 \/ Same(d.chip, Execute(p, d).chip, Steady)
  PROVE  Pauses(p, 0)
<1>1. ASSUME NEW d, Machine(d)
      PROVE  Delays(d, Execute(p, d), 0) /\ Keeps(d, Execute(p, d))
  <2> DEFINE e == Execute(p, d)
  <2>1. Bus(d, e) /\ (Failed(d, e) \/ Same(d.chip, e.chip, Steady))
    BY <1>1
  <2> HIDE DEF e
  <2>2. Delays(d, e, 0)
    BY <1>1, <2>1, SilentDelays DEF Bus
  <2>3. ASSUME ~e.cut, d.dog.expired
        PROVE  Keeps(d, e)
    BY <2>1, <2>3 DEF Bus, Silent, Keeps, Same
  <2>4. ASSUME ~e.cut, ~d.dog.expired
        PROVE  Keeps(d, e)
    <3>1. ~Hit(d, e) /\ ~d.cut
      BY <2>1, <2>4 DEF Bus
    <3>2. ~Failed(d, e)
      BY <2>4, <3>1 DEF Failed
    <3>3. QED
      BY <2>1, <3>1, <3>2 DEF Keeps
  <2>5. QED
    BY <2>2, <2>3, <2>4 DEF e, Keeps
<1>2. QED
  BY <1>1 DEF Pauses

\* So is a command that overwrites no setting.
LEMMA SetsPauses ==
  ASSUME NEW p, NEW f, DOMAIN f \cap Steady = {},
         \A d : Machine(d) => IsProgram(p) /\ Sets(d, Execute(p, d), f),
         IsProgram(p)
  PROVE  Pauses(p, 0)
<1>1. ASSUME NEW d, Machine(d)
      PROVE  /\ Bus(d, Execute(p, d))
             /\ Failed(d, Execute(p, d)) \/ Same(d.chip, Execute(p, d).chip, Steady)
  <2> DEFINE e == Execute(p, d)
  <2>1. Sets(d, e, f)
    BY <1>1
  <2> HIDE DEF e
  <2>2. Steady \subseteq DOMAIN d.chip
    BY <1>1 DEF Machine, ChipOK, Steady, Untuned, ResetChip
  <2>3. Bus(d, e) /\ (Failed(d, e) \/ Same(d.chip, e.chip, Steady))
    BY <2>1, <2>2 DEF Sets, Changed, Same
  <2>4. QED
    BY <2>3 DEF e
<1>2. QED
  BY <1>1, BusPauses

\* There are machines (a program that is one whatever the machine is one).
LEMMA SomeMachine == \E d : Machine(d) /\ d.dog.on /\ ~d.dog.expired
<1> DEFINE w == [on |-> TRUE, ms |-> 0, stalls |-> 0, expired |-> FALSE]
           d == [chip |-> ResetChip, cut |-> FALSE, buf |-> {}, skip |-> FALSE,
                 n |-> 0, at |-> 0, dog |-> w]
<1>1. w \in Dogs /\ w.on /\ ~w.expired
  BY DEF Dogs
<1> HIDE DEF w
<1>2. Machine(d) /\ d.dog.on /\ ~d.dog.expired
  BY <1>1, ResetChipOK DEF Machine
<1> HIDE DEF d
<1>3. QED
  BY <1>2

\* Nothing happens to an MCU that has been reset.
LEMMA Halted ==
  ASSUME NEW p, IsProgram(p), NEW d, d.dog.expired
  PROVE  Execute(p, d) = d
<1>1. Len(p) \in Nat
  BY Concatenation
<1>2. PICK run : Trace(run, p, d) /\ Execute(p, d) = run[Len(p)]
  BY <1>1, ExecuteTrace
<1> DEFINE S == {k \in Nat : k <= Len(p) => run[k] = d}
<1>3. 0 \in S
  BY <1>2 DEF Trace
<1>4. ASSUME NEW k \in Nat, k \in S
      PROVE  k + 1 \in S
  <2>1. SUFFICES ASSUME k + 1 <= Len(p)
                 PROVE  run[k + 1] = d
    OBVIOUS
  <2>2. run[k] = d
    BY <1>1, <1>4, <2>1
  <2>3. run[k + 1] = Do(run[k], p[k + 1])
    BY <1>1, <1>2, <2>1 DEF Trace
  <2>4. QED
    BY <2>2, <2>3 DEF Do
<1>5. Nat \subseteq S
  <2> HIDE DEF S
  <2> QED
    BY <1>3, <1>4, Induction
<1>6. QED
  BY <1>1, <1>2, <1>5

\* The calls of a reception leave the settings alone.
LEMMA QuietCalls ==
  /\ Pauses(clear_irq_status, 0) /\ Pauses(get_irq_status, 0)
  /\ Pauses(get_rx_buffer_status, 0) /\ Pauses(read_buffer, 0) /\ Pauses(stop_rtc, 0)
<1>1. /\ DOMAIN [irqs |-> FALSE] \cap Steady = {} /\ DOMAIN <<>> \cap Steady = {}
  BY DEF Steady, Untuned
<1>2. /\ IsProgram(clear_irq_status) /\ IsProgram(get_irq_status) /\ IsProgram(read_buffer)
      /\ IsProgram(get_rx_buffer_status) /\ IsProgram(stop_rtc)
  BY SomeMachine, PlainCommands, QueriesSet, StopRtcCall
<1>3. Pauses(clear_irq_status, 0)
  BY <1>1, <1>2, PlainCommands, SetsPauses
<1>4. Pauses(get_irq_status, 0) /\ Pauses(get_rx_buffer_status, 0) /\ Pauses(read_buffer, 0)
  <2>1. \A d : Machine(d) => /\ Sets(d, Execute(get_irq_status, d), <<>>)
                             /\ Sets(d, Execute(get_rx_buffer_status, d), <<>>)
                             /\ Sets(d, Execute(read_buffer, d), <<>>)
    BY QueriesSet
  <2> DEFINE none == <<>>
  <2> HIDE DEF none
  <2>2. QED
    BY <1>1, <1>2, <2>1, SetsPauses DEF none
<1>5. Pauses(stop_rtc, 0)
  <2>1. ASSUME NEW d, Machine(d)
        PROVE  /\ Bus(d, Execute(stop_rtc, d))
               /\ \/ Failed(d, Execute(stop_rtc, d))
                  \/ Same(d.chip, Execute(stop_rtc, d).chip, Steady)
    <3> DEFINE e == Execute(stop_rtc, d)
    <3>1. Bus(d, e) /\ (Failed(d, e) \/ e.chip = d.chip)
      BY <2>1, StopRtcCall
    <3> HIDE DEF e
    <3>2. QED
      BY <3>1 DEF e, Same
  <2>2. QED
    BY <1>2, <2>1, BusPauses
<1>6. QED
  BY <1>3, <1>4, <1>5

\* How long the tones take.
LEMMA Tones ==
  /\ Pauses(noNetworkTone, 298) /\ Pauses(motorOnTone, 542) /\ Pauses(lowBattAlert, 2190)
<1>1. noNetworkTone = Wait(74) \o Wait(74) \o Wait(150)
  <2>1. 62 + 12 = 74 /\ 125 + 25 = 150
    OBVIOUS
  <2>2. QED
    BY <2>1 DEF noNetworkTone
<1>2. Pauses(noNetworkTone, 298)
  <2>1. 74 + 74 = 148 /\ 148 + 150 = 298
    OBVIOUS
  <2>2. Pauses(Wait(74), 74) /\ Pauses(Wait(150), 150)
    BY WaitPauses
  <2>3. Pauses(Wait(74) \o Wait(74), 148)
    BY <2>1, <2>2, PausesConcat
  <2>4. QED
    BY <1>1, <2>1, <2>2, <2>3, PausesConcat
<1>3. motorOnTone = Wait(92) \o Wait(92) \o Wait(107) \o Wait(107) \o Wait(144)
  <2>1. 71 + 21 = 92 /\ 83 + 24 = 107 /\ 111 + 33 = 144
    OBVIOUS
  <2>2. QED
    BY <2>1 DEF motorOnTone
<1>4. Pauses(motorOnTone, 542)
  <2> DEFINE p2 == Wait(92) \o Wait(92)
             p3 == p2 \o Wait(107)
             p4 == p3 \o Wait(107)
  <2>1. Pauses(Wait(92), 92) /\ 92 + 92 = 184
    BY WaitPauses
  <2>2. Pauses(Wait(107), 107) /\ 184 + 107 = 291 /\ 291 + 107 = 398
    BY WaitPauses
  <2>3. Pauses(Wait(144), 144) /\ 398 + 144 = 542
    BY WaitPauses
  <2>4. motorOnTone = p4 \o Wait(144)
    BY <1>3
  <2>5. Pauses(p2, 184)
    BY <2>1, PausesConcat
  <2> HIDE DEF p2
  <2>6. Pauses(p3, 291)
    BY <2>2, <2>5, PausesConcat
  <2> HIDE DEF p3
  <2>7. Pauses(p4, 398)
    BY <2>2, <2>6, PausesConcat
  <2> HIDE DEF p4
  <2>8. Pauses(p4 \o Wait(144), 542)
    BY <2>3, <2>7, PausesConcat
  <2>9. QED
    BY <2>4, <2>8
<1>5. Pauses(lowBattAlert, 2190)
  <2>1. /\ 5 * (200 + 150) = 1750 /\ 80 + 100 + 80 + 100 + 80 = 440 /\ 1750 + 440 = 2190
    OBVIOUS
  <2>2. lowBattAlert = Wait(1750) \o Wait(440)
    BY <2>1 DEF lowBattAlert
  <2>3. Pauses(Wait(1750), 1750) /\ Pauses(Wait(440), 440)
    BY WaitPauses
  <2>4. QED
    BY <2>1, <2>2, <2>3, PausesConcat
<1>6. QED
  BY <1>2, <1>4, <1>5

\* The watchdog timer is reset.
LEMMA PetProgram ==
  ASSUME NEW d, Machine(d), NEW e, e = Execute(watchdogReset, d)
  PROVE  /\ IsProgram(watchdogReset) /\ Flows(d, e) /\ ~Hit(d, e) /\ Machine(e)
         /\ Keeps(d, e)
         /\ d.dog.on /\ ~d.dog.expired => Rested(e.dog, 0)
<1>1. IsProgram(watchdogReset) /\ Idle(d, e)
  BY PetCall
<1>2. Flows(d, e) /\ ~Hit(d, e) /\ (d.dog.on /\ ~d.dog.expired => Rested(e.dog, 0))
  BY PetDog
<1>3. Keeps(d, e)
  BY <1>1 DEF Idle, Keeps, Same
<1>4. QED
  BY <1>1, <1>2, <1>3 DEF Idle

\* After a reset a single stall is survived, and without one the timer is exact.
LEMMA RestedDelays ==
  ASSUME NEW d, Machine(d), NEW e, NEW b \in Nat, NEW ms \in Nat,
         Rested(d.dog, b), Delays(d, e, ms), b + ms + BUSY_TIMEOUT_MS <= WDT_PERIOD_MS
  PROVE  e.dog.on /\ ~e.dog.expired /\ Kept(e.dog, b + ms)
<1>1. Kept(d.dog, b) /\ d.dog.stalls = 0
  BY RestedDog DEF Machine, Rested
<1>2. Kept(e.dog, b + ms)
  BY <1>1 DEF Delays
<1>3. e.dog.stalls \in Nat /\ e.dog.stalls <= 1
  BY <1>1 DEF Delays, Flows, Machine, Dogs
<1>4. QED
  BY <1>2, <1>3 DEF Kept

-----------------------------------------------------------------------------
(* The channel switches.                                                   *)

\* The chip is tuned to a channel.
OnChan(c, mod, pkt, sync, dbm) == c.mod = mod /\ c.pkt = pkt /\ c.sync = sync /\ c.pwr = dbm

\* In standby and tuned, unless the MCU had been reset before.
Retuned(d, e, mod, pkt, sync, dbm) ==
  ~e.cut =>
    /\ ~d.cut
    /\ \/ d.dog.expired /\ e = d
       \/ /\ e.chip.mode = "STDBY" /\ OnChan(e.chip, mod, pkt, sync, dbm)
          /\ 2 \in e.chip.txModulation /\ 2 \notin e.chip.iqPolarity
          /\ Same(d.chip, e.chip, Untuned)

\* A channel switch takes no time, and tunes the chip.
LEMMA SwitchProgram ==
  ASSUME NEW mod, mod.bw # "BW_500", NEW pkt, NEW sync, NEW dbm, NEW d, Machine(d),
         NEW e, e = Execute(SwitchTo(mod, pkt, sync, dbm), d)
  PROVE  /\ IsProgram(SwitchTo(mod, pkt, sync, dbm)) /\ Delays(d, e, 0)
         /\ Retuned(d, e, mod, pkt, sync, dbm)
<1>1. /\ IsProgram(SwitchTo(mod, pkt, sync, dbm)) /\ Bus(d, e)
      /\ ~Failed(d, e) =>
           /\ e.chip.mode = "STDBY" /\ e.chip.mod = mod /\ e.chip.pkt = pkt
           /\ e.chip.sync = sync /\ e.chip.pwr = dbm
           /\ 2 \in e.chip.txModulation /\ 2 \notin e.chip.iqPolarity
           /\ Same(d.chip, e.chip, Untuned)
  BY Switched
<1>2. Delays(d, e, 0)
  BY <1>1, SilentDelays DEF Bus
<1>3. ASSUME ~e.cut
      PROVE  /\ ~d.cut
             /\ d.dog.expired => e = d
             /\ ~d.dog.expired => ~Failed(d, e)
  BY <1>1, <1>3 DEF Bus, Silent, Failed
<1>4. QED
  BY <1>1, <1>2, <1>3 DEF Retuned, OnChan

\* No profile is of 500 kHz.
LEMMA OperBandwidth == OperMod(Profile).bw # "BW_500"
  BY LoopAssumption DEF OperMod, Profiles

\* A chip that a program of sx1268Init() and a channel switch leaves behind.
Renewed(e, mod, pkt, sync, dbm) ==
  ~e.cut =>
    /\ e.chip.mode = "STDBY"
    /\ \/ e.dog.expired
       \/ Initialised(e.chip) /\ OnChan(e.chip, mod, pkt, sync, dbm)

\* The same of the operational channel.
OperRenewed(e) == Renewed(e, OperMod(Profile), OperPkt, "OPER", 22)

\* What sx1268Init() owes the chip is not undone by a channel switch.
LEMMA StillInitialised ==
  ASSUME NEW c, NEW s, Initialised(c), Same(c, s, Untuned),
         2 \in s.txModulation, 2 \notin s.iqPolarity
  PROVE  Initialised(s)
  BY DEF Initialised, InImageBand, Same, Untuned

\* An initialised chip that is tuned is as if it had just been set up.
LEMMA RetunedRenews ==
  ASSUME NEW d, NEW e, Fresh(d), Delays(d, e, 0),
         NEW mod, NEW pkt, NEW sync, NEW dbm, Retuned(d, e, mod, pkt, sync, dbm)
  PROVE  Renewed(e, mod, pkt, sync, dbm)
<1> SUFFICES ASSUME ~e.cut
             PROVE  /\ e.chip.mode = "STDBY"
                    /\ \/ e.dog.expired
                       \/ Initialised(e.chip) /\ OnChan(e.chip, mod, pkt, sync, dbm)
  BY DEF Renewed
<1>1. d.chip.mode = "STDBY" /\ (d.dog.expired \/ Initialised(d.chip))
  BY DEF Retuned, Fresh
<1>2. CASE d.dog.expired
  BY <1>1, <1>2 DEF Delays, Flows
<1>3. CASE ~d.dog.expired
  <2>1. /\ e.chip.mode = "STDBY" /\ OnChan(e.chip, mod, pkt, sync, dbm)
        /\ 2 \in e.chip.txModulation /\ 2 \notin e.chip.iqPolarity
        /\ Same(d.chip, e.chip, Untuned)
    BY <1>3 DEF Retuned
  <2>2. Initialised(e.chip)
    BY <1>1, <1>3, <2>1, StillInitialised
  <2>3. QED
    BY <2>1, <2>2
<1>4. QED
  BY <1>2, <1>3

\* switchToOperationalChannel().
LEMMA OperSwitch ==
  ASSUME NEW d, Machine(d), NEW e, e = Execute(switchToOperationalChannel, d)
  PROVE  /\ IsProgram(switchToOperationalChannel) /\ Delays(d, e, 0)
         /\ Retuned(d, e, OperMod(Profile), OperPkt, "OPER", 22)
  BY OperBandwidth, SwitchProgram DEF switchToOperationalChannel

\* switchToPairChannel().
LEMMA PairSwitch ==
  ASSUME NEW d, Machine(d), NEW e, e = Execute(switchToPairChannel, d)
  PROVE  /\ IsProgram(switchToPairChannel) /\ Delays(d, e, 0)
         /\ Retuned(d, e, PairMod, PairPkt(32), "PAIR", 14)
  BY PairModulation, SwitchProgram DEF switchToPairChannel

\* The two together, after whatever came before.
LEMMA InitThenSwitch ==
  ASSUME NEW d, Machine(d), ~d.dog.expired, NEW m, m = Execute(sx1268Init, d),
         NEW e, e = Execute(switchToOperationalChannel, m)
  PROVE  Delays(d, e, 60) /\ OperRenewed(e) /\ Machine(m) /\ Machine(e)
<1>1. Delays(d, m, 60) /\ Fresh(m)
  BY InitProgram
<1>2. Machine(m)
  BY <1>1, DelaysMachine
<1>3. Delays(m, e, 0) /\ Retuned(m, e, OperMod(Profile), OperPkt, "OPER", 22)
  BY <1>2, OperSwitch
<1>4. OperRenewed(e) /\ Machine(e)
  BY <1>1, <1>3, RetunedRenews, DelaysMachine DEF OperRenewed
<1>5. 60 + 0 = 60 /\ 60 \in Nat /\ 0 \in Nat
  OBVIOUS
<1>6. Delays(d, e, 60)
  BY <1>1, <1>3, <1>5, DelaysTransitive
<1>7. QED
  BY <1>2, <1>4, <1>6

\* The two together, at the end of a program.
LEMMA InitAfter ==
  ASSUME NEW p, IsProgram(p), NEW d, Machine(d), NEW m, m = Execute(p, d),
         Machine(m), ~m.dog.expired,
         NEW e, e = Execute(p \o sx1268Init \o switchToOperationalChannel, d)
  PROVE  /\ IsProgram(p \o sx1268Init \o switchToOperationalChannel)
         /\ Delays(m, e, 60) /\ OperRenewed(e)
<1> DEFINE x == Execute(sx1268Init, m)
           q == p \o sx1268Init
<1>1. IsProgram(sx1268Init) /\ IsProgram(switchToOperationalChannel)
  BY InitProgram, OperSwitch
<1>2. IsProgram(q) /\ Execute(q, d) = x
  BY <1>1, Composition
<1> HIDE DEF q
<1>3. /\ IsProgram(q \o switchToOperationalChannel)
      /\ Execute(q \o switchToOperationalChannel, d) = Execute(switchToOperationalChannel, x)
  BY <1>1, <1>2, Composition
<1> HIDE DEF x
<1>4. e = Execute(switchToOperationalChannel, x)
  BY <1>3 DEF q
<1>5. Delays(m, e, 60) /\ OperRenewed(e)
  BY <1>4, InitThenSwitch DEF x
<1>6. QED
  BY <1>3, <1>5 DEF q

\* watchdogInit() and watchdogDisable() leave the chip alone.
LEMMA DogPrograms ==
  ASSUME NEW d, Machine(d), NEW e, NEW f, e = Execute(watchdogInit, d),
         f = Execute(watchdogDisable, d)
  PROVE  /\ IsProgram(watchdogInit) /\ Flows(d, e) /\ Machine(e)
         /\ e.chip = d.chip /\ (e.cut <=> d.cut)
         /\ ~d.dog.expired => Rested(e.dog, 0)
         /\ IsProgram(watchdogDisable) /\ Flows(d, f) /\ Machine(f)
         /\ f.chip = d.chip /\ (f.cut <=> d.cut)
         /\ ~d.dog.expired => Off(f.dog)
<1>1. IsProgram(watchdogInit) /\ Idle(d, e)
  BY DogOnCall
<1>2. IsProgram(watchdogDisable) /\ Idle(d, f)
  BY DogOffCall
<1>3. Flows(d, e) /\ (~d.dog.expired => Rested(e.dog, 0))
  BY DogOnDog
<1>4. Flows(d, f) /\ (~d.dog.expired => Off(f.dog))
  BY DogOffDog
<1>5. QED
  BY <1>1, <1>2, <1>3, <1>4 DEF Idle

-----------------------------------------------------------------------------
(* The two SETUP states.                                                   *)

\* What TxProgram does, with the packet and the length it is given.
Sending(pkt, len) ==
  set_standby \o Packets(pkt) \o set_buffer_base(0, 128) \o write_buffer(len)
  \o clear_irq_status \o set_tx(0)

\* A timeout of 0 is one the chip can hold.
LEMMA NoTimeout == 0 \in Nat /\ 0 <= MAX_TIMEOUT_IN_MS /\ 64 * 0 = 0
  BY DEF MAX_TIMEOUT_IN_MS, MAX_TIMEOUT_IN_RTC_STEP

\* The frame is started.
LEMMA SendingStarts ==
  ASSUME NEW d, Machine(d)
  PROVE  IsProgram(set_tx(0)) /\ Sets(d, Execute(set_tx(0), d), [mode |-> "TX", timer |-> 0])
<1>1. "TX" \in Modes
  BY DEF Modes
<1>2. QED
  BY <1>1, NoTimeout, TimedCall DEF set_tx, Sets

\* The window is opened.
LEMMA ListeningStarts ==
  ASSUME NEW ms \in Nat, ms <= MAX_TIMEOUT_IN_MS, NEW d, Machine(d)
  PROVE  /\ IsProgram(set_rx(ms))
         /\ Sets(d, Execute(set_rx(ms), d), [mode |-> "RX", timer |-> 64 * ms])
<1>1. "RX" \in Modes
  BY DEF Modes
<1>2. QED
  BY <1>1, TimedCall DEF set_rx, Sets

\* STATE_TX_SETUP arms packet, length and IQ polarity again, and then transmits.
LEMMA SendingRuns ==
  ASSUME NEW pkt, NEW len, NEW d, Machine(d), NEW e, e = Execute(Sending(pkt, len), d)
  PROVE  /\ IsProgram(Sending(pkt, len)) /\ Bus(d, e)
         /\ ~Failed(d, e) =>
              /\ e.chip.mode = "TX" /\ e.chip.pkt = pkt /\ e.chip.fifo = len
              /\ 2 \notin e.chip.iqPolarity /\ e.chip.base = <<0, 128>>
              /\ Same(d.chip, e.chip, (Untuned \ {"base"}) \cup {"mod", "sync", "pwr", "txModulation"})
<1> DEFINE d1 == Execute(set_standby, d)
           d2 == Execute(Packets(pkt), d1)
           d3 == Execute(set_buffer_base(0, 128), d2)
           d4 == Execute(write_buffer(len), d3)
           d5 == Execute(clear_irq_status, d4)
           d6 == Execute(set_tx(0), d5)
           p2 == set_standby \o Packets(pkt)
           p3 == p2 \o set_buffer_base(0, 128)
           p4 == p3 \o write_buffer(len)
           p5 == p4 \o clear_irq_status
           p6 == p5 \o set_tx(0)
<1>1. IsProgram(set_standby) /\ Sets(d, d1, [mode |-> "STDBY", timer |-> 0])
  BY PlainCommands
<1>2. /\ IsProgram(Packets(pkt))
      /\ Sets(d1, d2, [pkt |-> pkt, iqPolarity |-> d1.chip.iqPolarity \ {2}])
  <2>1. Machine(d1)
    BY <1>1, SetsMachine
  <2> HIDE DEF d1
  <2> QED
    BY <2>1, PacketsProgram DEF Sets
<1>3. IsProgram(set_buffer_base(0, 128)) /\ Sets(d2, d3, [base |-> <<0, 128>>])
  <2>1. Machine(d2)
    BY <1>2, SetsMachine
  <2> HIDE DEF d2
  <2> QED
    BY <2>1, SetBufferBaseSets
<1>4. IsProgram(write_buffer(len)) /\ Sets(d3, d4, [fifo |-> len])
  <2>1. Machine(d3)
    BY <1>3, SetsMachine
  <2> HIDE DEF d3
  <2> QED
    BY <2>1, WriteBufferSets
<1>5. IsProgram(clear_irq_status) /\ Sets(d4, d5, [irqs |-> FALSE])
  <2>1. Machine(d4)
    BY <1>4, SetsMachine
  <2> HIDE DEF d4
  <2> QED
    BY <2>1, PlainCommands
<1>6. IsProgram(set_tx(0)) /\ Sets(d5, d6, [mode |-> "TX", timer |-> 0])
  <2>1. Machine(d5)
    BY <1>5, SetsMachine
  <2> HIDE DEF d5
  <2> QED
    BY <2>1, SendingStarts
<1>7. IsProgram(p2) /\ Execute(p2, d) = d2
  BY <1>1, <1>2, Composition
<1>8. IsProgram(p3) /\ Execute(p3, d) = d3
  <2> HIDE DEF p2, d2
  <2> QED
    BY <1>7, <1>3, Composition
<1>9. IsProgram(p4) /\ Execute(p4, d) = d4
  <2> HIDE DEF p3, d3
  <2> QED
    BY <1>8, <1>4, Composition
<1>10. IsProgram(p5) /\ Execute(p5, d) = d5
  <2> HIDE DEF p4, d4
  <2> QED
    BY <1>9, <1>5, Composition
<1>11. IsProgram(p6) /\ Execute(p6, d) = d6
  <2> HIDE DEF p5, d5
  <2> QED
    BY <1>10, <1>6, Composition
<1>12. p6 = Sending(pkt, len) /\ d6 = e
  <2>1. p6 = Sending(pkt, len)
    BY DEF Sending
  <2> HIDE DEF p6, d6
  <2> QED
    BY <2>1, <1>11
<1> HIDE DEF d1, d2, d3, d4, d5, d6, p2, p3, p4, p5, p6
<1>13. Bus(d, d2) /\ (~Failed(d, d2) => ~Failed(d, d1) /\ ~Failed(d1, d2))
  BY <1>1, <1>2, Then DEF Sets
<1>14. Bus(d, d3) /\ (~Failed(d, d3) => ~Failed(d, d2) /\ ~Failed(d2, d3))
  BY <1>13, <1>3, Then DEF Sets
<1>15. Bus(d, d4) /\ (~Failed(d, d4) => ~Failed(d, d3) /\ ~Failed(d3, d4))
  BY <1>14, <1>4, Then DEF Sets
<1>16. Bus(d, d5) /\ (~Failed(d, d5) => ~Failed(d, d4) /\ ~Failed(d4, d5))
  BY <1>15, <1>5, Then DEF Sets
<1>17. Bus(d, d6) /\ (~Failed(d, d6) => ~Failed(d, d5) /\ ~Failed(d5, d6))
  BY <1>16, <1>6, Then DEF Sets
<1>18. ASSUME ~Failed(d, d6)
      PROVE  /\ Changed(d.chip, d1.chip, [mode |-> "STDBY", timer |-> 0])
             /\ Changed(d1.chip, d2.chip, [pkt |-> pkt, iqPolarity |-> d1.chip.iqPolarity \ {2}])
             /\ Changed(d2.chip, d3.chip, [base |-> <<0, 128>>])
             /\ Changed(d3.chip, d4.chip, [fifo |-> len])
             /\ Changed(d4.chip, d5.chip, [irqs |-> FALSE])
             /\ Changed(d5.chip, d6.chip, [mode |-> "TX", timer |-> 0])
  BY <1>18, <1>1, <1>2, <1>3, <1>4, <1>5, <1>6, <1>13, <1>14, <1>15, <1>16, <1>17 DEF Sets
<1>19. ASSUME ~Failed(d, e)
      PROVE  /\ e.chip.mode = "TX" /\ e.chip.pkt = pkt /\ e.chip.fifo = len
             /\ 2 \notin e.chip.iqPolarity /\ e.chip.base = <<0, 128>>
             /\ Same(d.chip, e.chip, (Untuned \ {"base"}) \cup {"mod", "sync", "pwr", "txModulation"})
  <2>1. DOMAIN d.chip = DOMAIN ResetChip
    BY DEF Machine, ChipOK
  <2>2. QED
    BY <2>1, <1>12, <1>18, <1>19 DEF Changed, Sole, Same, ResetChip, Untuned
<1>20. QED
  BY <1>11, <1>12, <1>17, <1>19

\* What STATE_RX_SETUP does.
Listening(ms) ==
  set_standby \o set_buffer_base(0, 128) \o clear_irq_status \o write_rx_gain(150) \o set_rx(ms)

\* STATE_RX_SETUP sets buffer and gain again, and then listens with a timeout.
LEMMA ListeningRuns ==
  ASSUME NEW ms \in Nat, ms <= MAX_TIMEOUT_IN_MS, NEW d, Machine(d), NEW e,
         e = Execute(Listening(ms), d)
  PROVE  /\ IsProgram(Listening(ms)) /\ Bus(d, e)
         /\ ~Failed(d, e) =>
              /\ e.chip.mode = "RX" /\ e.chip.timer = 64 * ms
              /\ e.chip.base = <<0, 128>> /\ e.chip.rxGain = 150
              /\ Same(d.chip, e.chip, (Untuned \ {"base", "rxGain"})
                                       \cup {"mod", "pkt", "sync", "pwr", "txModulation", "iqPolarity"})
<1> DEFINE d1 == Execute(set_standby, d)
           d2 == Execute(set_buffer_base(0, 128), d1)
           d3 == Execute(clear_irq_status, d2)
           d4 == Execute(write_rx_gain(150), d3)
           d5 == Execute(set_rx(ms), d4)
           p2 == set_standby \o set_buffer_base(0, 128)
           p3 == p2 \o clear_irq_status
           p4 == p3 \o write_rx_gain(150)
           p5 == p4 \o set_rx(ms)
<1>1. IsProgram(set_standby) /\ Sets(d, d1, [mode |-> "STDBY", timer |-> 0])
  BY PlainCommands
<1>2. IsProgram(set_buffer_base(0, 128)) /\ Sets(d1, d2, [base |-> <<0, 128>>])
  <2>1. Machine(d1)
    BY <1>1, SetsMachine
  <2> HIDE DEF d1
  <2> QED
    BY <2>1, SetBufferBaseSets
<1>3. IsProgram(clear_irq_status) /\ Sets(d2, d3, [irqs |-> FALSE])
  <2>1. Machine(d2)
    BY <1>2, SetsMachine
  <2> HIDE DEF d2
  <2> QED
    BY <2>1, PlainCommands
<1>4. IsProgram(write_rx_gain(150)) /\ Sets(d3, d4, [rxGain |-> 150])
  <2>1. Machine(d3)
    BY <1>3, SetsMachine
  <2> HIDE DEF d3
  <2> QED
    BY <2>1, WriteRxGainSets
<1>5. IsProgram(set_rx(ms)) /\ Sets(d4, d5, [mode |-> "RX", timer |-> 64 * ms])
  <2>1. Machine(d4)
    BY <1>4, SetsMachine
  <2> HIDE DEF d4
  <2> QED
    BY <2>1, ListeningStarts
<1>6. IsProgram(p2) /\ Execute(p2, d) = d2
  BY <1>1, <1>2, Composition
<1>7. IsProgram(p3) /\ Execute(p3, d) = d3
  <2> HIDE DEF p2, d2
  <2> QED
    BY <1>6, <1>3, Composition
<1>8. IsProgram(p4) /\ Execute(p4, d) = d4
  <2> HIDE DEF p3, d3
  <2> QED
    BY <1>7, <1>4, Composition
<1>9. IsProgram(p5) /\ Execute(p5, d) = d5
  <2> HIDE DEF p4, d4
  <2> QED
    BY <1>8, <1>5, Composition
<1>10. p5 = Listening(ms) /\ d5 = e
  <2>1. p5 = Listening(ms)
    BY DEF Listening
  <2> HIDE DEF p5, d5
  <2> QED
    BY <2>1, <1>9
<1> HIDE DEF d1, d2, d3, d4, d5, p2, p3, p4, p5
<1>11. Bus(d, d2) /\ (~Failed(d, d2) => ~Failed(d, d1) /\ ~Failed(d1, d2))
  BY <1>1, <1>2, Then DEF Sets
<1>12. Bus(d, d3) /\ (~Failed(d, d3) => ~Failed(d, d2) /\ ~Failed(d2, d3))
  BY <1>11, <1>3, Then DEF Sets
<1>13. Bus(d, d4) /\ (~Failed(d, d4) => ~Failed(d, d3) /\ ~Failed(d3, d4))
  BY <1>12, <1>4, Then DEF Sets
<1>14. Bus(d, d5) /\ (~Failed(d, d5) => ~Failed(d, d4) /\ ~Failed(d4, d5))
  BY <1>13, <1>5, Then DEF Sets
<1>15. ASSUME ~Failed(d, d5)
      PROVE  /\ Changed(d.chip, d1.chip, [mode |-> "STDBY", timer |-> 0])
             /\ Changed(d1.chip, d2.chip, [base |-> <<0, 128>>])
             /\ Changed(d2.chip, d3.chip, [irqs |-> FALSE])
             /\ Changed(d3.chip, d4.chip, [rxGain |-> 150])
             /\ Changed(d4.chip, d5.chip, [mode |-> "RX", timer |-> 64 * ms])
  BY <1>15, <1>1, <1>2, <1>3, <1>4, <1>5, <1>11, <1>12, <1>13, <1>14 DEF Sets
<1>16. ASSUME ~Failed(d, e)
      PROVE  /\ e.chip.mode = "RX" /\ e.chip.timer = 64 * ms
             /\ e.chip.base = <<0, 128>> /\ e.chip.rxGain = 150
             /\ Same(d.chip, e.chip, (Untuned \ {"base", "rxGain"})
                                      \cup {"mod", "pkt", "sync", "pwr", "txModulation", "iqPolarity"})
  <2>1. DOMAIN d.chip = DOMAIN ResetChip
    BY DEF Machine, ChipOK
  <2>2. QED
    BY <2>1, <1>10, <1>15, <1>16 DEF Changed, Sole, Same, ResetChip, Untuned
<1>17. QED
  BY <1>9, <1>10, <1>14, <1>16

-----------------------------------------------------------------------------
(* The handlers of a frame.                                                *)

\* A program after which no transaction is lost has not failed.
LEMMA Unfailed ==
  ASSUME NEW d, NEW e, Bus(d, e), ~d.dog.expired, ~e.cut
  PROVE  ~d.cut /\ ~Failed(d, e)
  BY DEF Bus, Silent, Failed

\* The empty program takes no time.
LEMMA EmptyProgram == Pauses(<<>>, 0)
<1> DEFINE p == <<>>
<1>1. Len(p) = 0 /\ IsProgram(p)
  BY DEF IsProgram
<1>2. ASSUME NEW d, Machine(d)
      PROVE  Delays(d, Execute(p, d), 0) /\ Keeps(d, Execute(p, d))
  <2>1. PICK run : Trace(run, p, d) /\ Execute(p, d) = run[0]
    <3> HIDE DEF p
    <3> QED
      BY <1>1, ExecuteTrace
  <2>2. run[0] = d
    <3> HIDE DEF p
    <3> QED
      BY <1>1, <2>1 DEF Trace
  <2>3. Silent(d, d)
    BY <1>2 DEF Silent, Machine, Hit
  <2>4. QED
    BY <1>2, <2>1, <2>2, <2>3, SilentDelays DEF Keeps, Same
<1>3. QED
  BY <1>1, <1>2 DEF Pauses

\* The bounds may be raised.
LEMMA KeptMore ==
  ASSUME NEW w \in Dogs, NEW b \in Nat, NEW c \in Nat, b <= c
  PROVE  /\ Kept(w, b) => Kept(w, c)
         /\ Spared(w, b) => Spared(w, c)
  BY DriverAssumption DEF Kept, Spared, Dogs

\* The timer is reset, and the program takes ms.
LEMMA PetThenPause ==
  ASSUME NEW p, NEW ms, Pauses(p, ms), ms + BUSY_TIMEOUT_MS <= WDT_PERIOD_MS,
         NEW d, Machine(d), d.dog.on, ~d.dog.expired,
         NEW e, e = Execute(watchdogReset \o p, d)
  PROVE  /\ IsProgram(watchdogReset \o p) /\ Flows(d, e) /\ Keeps(d, e)
         /\ e.dog.on /\ ~e.dog.expired /\ Kept(e.dog, ms)
<1> DEFINE m == Execute(watchdogReset, d)
<1>1. /\ IsProgram(watchdogReset) /\ Flows(d, m) /\ Machine(m) /\ Keeps(d, m)
      /\ Rested(m.dog, 0)
  BY PetProgram
<1>2. IsProgram(watchdogReset \o p) /\ e = Execute(p, m)
  BY <1>1, Composition DEF Pauses
<1> HIDE DEF m
<1>3. Delays(m, e, ms) /\ Keeps(m, e) /\ ms \in Nat
  BY <1>1, <1>2 DEF Pauses
<1>4. 0 \in Nat /\ 0 + ms = ms
  BY <1>3
<1>5. e.dog.on /\ ~e.dog.expired /\ Kept(e.dog, ms)
  BY <1>1, <1>3, <1>4, RestedDelays
<1>6. Flows(d, e) /\ Keeps(d, e)
  BY <1>1, <1>3, FlowsTransitive, KeepsTransitive DEF Delays
<1>7. QED
  BY <1>2, <1>5, <1>6

\* What every reception starts with.
Reception ==
  get_irq_status \o get_rx_buffer_status \o stop_rtc \o read_buffer

\* All that a reception with this handler does.
Received(program) == Reception \o program \o clear_irq_status

\* Fetching a frame takes no time and leaves the settings alone.
LEMMA ReceptionPauses == Pauses(Reception, 0)
<1> DEFINE p2 == get_irq_status \o get_rx_buffer_status
           p3 == p2 \o stop_rtc
<1>1. 0 = 0 + 0
  OBVIOUS
<1>2. Pauses(p2, 0)
  BY <1>1, QuietCalls, PausesConcat
<1> HIDE DEF p2
<1>3. Pauses(p3, 0)
  BY <1>1, <1>2, QuietCalls, PausesConcat
<1>4. Reception = p3 \o read_buffer
  BY DEF Reception, p2
<1> HIDE DEF p3
<1>5. Pauses(p3 \o read_buffer, 0)
  BY <1>1, <1>3, QuietCalls, PausesConcat
<1>6. QED
  BY <1>4, <1>5

\* A frame whose handler only takes time.
LEMMA FramePauses ==
  ASSUME NEW p, NEW ms, Pauses(p, ms)
  PROVE  Pauses(Received(p), ms)
<1>1. ms = 0 + ms /\ ms = ms + 0
  BY DEF Pauses
<1>2. Pauses(Reception \o p, ms)
  BY <1>1, ReceptionPauses, PausesConcat
<1>3. QED
  BY <1>1, <1>2, QuietCalls, PausesConcat DEF Received

\* An MCU that has been reset executes nothing.
LEMMA FlowsExpired ==
  ASSUME NEW d, NEW e, Flows(d, e), d.dog.expired
  PROVE  e = d
  BY DEF Flows

\* One whose handler resets the timer first.
LEMMA FramePets ==
  ASSUME NEW p, NEW ms, Pauses(p, ms), ms + BUSY_TIMEOUT_MS <= WDT_PERIOD_MS,
         NEW b \in Nat, b + BUSY_TIMEOUT_MS <= WDT_PERIOD_MS, b <= ms,
         NEW d, Machine(d), Kept(d.dog, b),
         NEW e, e = Execute(Received(watchdogReset \o p), d)
  PROVE  Flows(d, e) /\ Keeps(d, e) /\ Kept(e.dog, ms)
<1> DEFINE m == Execute(Reception, d)
           f == Execute(watchdogReset, m)
           g == Execute(p, f)
           q == watchdogReset \o p
<1>1. ms \in Nat /\ b + 0 = b /\ 0 + ms = ms /\ ms + 0 = ms /\ 0 \in Nat
  BY DEF Pauses
<1>2. Delays(d, m, 0) /\ Keeps(d, m) /\ IsProgram(Reception)
  BY ReceptionPauses DEF Pauses
<1>3. Machine(m) /\ Kept(m.dog, b)
  BY <1>1, <1>2, DelaysMachine DEF Delays
<1> HIDE DEF m
<1>4. /\ IsProgram(watchdogReset) /\ Flows(m, f) /\ Machine(f) /\ Keeps(m, f)
      /\ ~m.dog.expired => Rested(f.dog, 0)
  BY <1>3, PetProgram DEF Kept
<1> HIDE DEF f
<1>5. IsProgram(p) /\ Delays(f, g, ms) /\ Keeps(f, g)
  BY <1>4 DEF Pauses
<1>6. IsProgram(q) /\ Execute(q, m) = g
  BY <1>4, <1>5, Composition DEF f
<1> HIDE DEF g, q
<1>7. IsProgram(Reception \o q) /\ Execute(Reception \o q, d) = g
  BY <1>2, <1>6, Composition DEF m
<1>8. IsProgram(clear_irq_status) /\ Machine(g)
  BY <1>5, QuietCalls, DelaysMachine DEF Pauses
<1>9. e = Execute(clear_irq_status, g)
  <2>1. Execute((Reception \o q) \o clear_irq_status, d) = Execute(clear_irq_status, g)
    BY <1>7, <1>8, Composition
  <2>2. QED
    BY <2>1 DEF q, Received
<1>10. Delays(g, e, 0) /\ Keeps(g, e)
  BY <1>8, <1>9, QuietCalls DEF Pauses
<1>11. Flows(d, e) /\ Keeps(d, e)
  <2>1. Flows(d, f) /\ Keeps(d, f)
    BY <1>2, <1>4, FlowsTransitive, KeepsTransitive DEF Delays
  <2>2. Flows(d, g) /\ Keeps(d, g)
    BY <1>5, <2>1, FlowsTransitive, KeepsTransitive DEF Delays
  <2>3. QED
    BY <1>10, <2>2, FlowsTransitive, KeepsTransitive DEF Delays
<1>12. Kept(e.dog, ms)
  <2>1. CASE m.dog.expired
    <3>1. f = m
      BY <1>4, <2>1, FlowsExpired
    <3>2. g = m
      BY <1>5, <2>1, <3>1, FlowsExpired DEF Delays
    <3>3. e = m
      BY <1>10, <2>1, <3>2, FlowsExpired DEF Delays
    <3>4. m.dog \in Dogs
      BY <1>3 DEF Machine
    <3>5. QED
      BY <1>1, <1>3, <3>3, <3>4, KeptMore
  <2>2. CASE ~m.dog.expired
    <3>1. Kept(g.dog, ms)
      BY <1>1, <1>4, <1>5, <2>2, RestedDelays
    <3>2. Kept(e.dog, ms + 0)
      BY <1>1, <1>10, <3>1 DEF Delays
    <3>3. QED
      BY <1>1, <3>2
  <2>3. QED
    BY <2>1, <2>2
<1>13. QED
  BY <1>11, <1>12

\* A pause alone is exact.
LEMMA RestedWait ==
  ASSUME NEW b \in Nat, NEW ms \in Nat, NEW d, Machine(d), Rested(d.dog, b),
         NEW c, c = b + ms, c <= WDT_PERIOD_MS, NEW e, e = Execute(Wait(ms), d)
  PROVE  IsProgram(Wait(ms)) /\ Flows(d, e) /\ Machine(e) /\ Rested(e.dog, c)
  BY WaitDog, WaitCall DEF Flows

\* A chip that is set up stays so while the settings are left alone.
LEMMA RenewedAgain ==
  ASSUME NEW d, NEW e, Flows(d, e), Keeps(d, e), OperRenewed(d)
  PROVE  OperRenewed(e)
<1>1. ~e.cut => ~d.cut /\ Same(d.chip, e.chip, Steady)
  BY DEF Keeps
<1>2. ASSUME ~e.cut, ~d.dog.expired
      PROVE  /\ e.chip.mode = "STDBY"
             /\ Initialised(e.chip) /\ OnChan(e.chip, OperMod(Profile), OperPkt, "OPER", 22)
  <2>1. /\ d.chip.mode = "STDBY"
        /\ Initialised(d.chip) /\ OnChan(d.chip, OperMod(Profile), OperPkt, "OPER", 22)
    BY <1>1, <1>2 DEF OperRenewed, Renewed
  <2>2. Same(d.chip, e.chip, Untuned)
    BY <1>1, <1>2 DEF Same, Steady
  <2>3. /\ e.chip.mode = d.chip.mode /\ e.chip.mod = d.chip.mod /\ e.chip.pkt = d.chip.pkt
        /\ e.chip.sync = d.chip.sync /\ e.chip.pwr = d.chip.pwr
        /\ e.chip.txModulation = d.chip.txModulation /\ e.chip.iqPolarity = d.chip.iqPolarity
    BY <1>1, <1>2 DEF Same, Steady
  <2>4. 2 \in e.chip.txModulation /\ 2 \notin e.chip.iqPolarity
    BY <2>1, <2>3 DEF Initialised
  <2>5. QED
    BY <2>1, <2>2, <2>3, <2>4, StillInitialised DEF OnChan
<1>3. ASSUME ~e.cut, d.dog.expired
      PROVE  e.chip.mode = "STDBY" /\ e.dog.expired
  <2>1. e = d
    BY <1>3 DEF Flows
  <2>2. QED
    BY <1>1, <1>3, <2>1 DEF OperRenewed, Renewed
<1>4. QED
  BY <1>2, <1>3 DEF OperRenewed, Renewed

\* How long a commit writes EEPROM.
LEMMA CommitPauses == EepromMs = 96
  BY DEF EepromMs

\* pairRemNodeCommit(), from the timer's reset on.
LEMMA CommitRuns ==
  ASSUME NEW d, Machine(d), d.dog.on, ~d.dog.expired, NEW e, e = Execute(CommitProgram, d)
  PROVE  IsProgram(CommitProgram) /\ Flows(d, e) /\ OperRenewed(e) /\ Strict(e.dog, 1656)
<1> DEFINE d1 == Execute(watchdogReset, d)
           d2 == Execute(Wait(96), d1)
           d3 == Execute(Wait(1000), d2)
           d4 == Execute(Wait(500), d3)
           p2 == watchdogReset \o Wait(96)
           p3 == p2 \o Wait(1000)
           p4 == p3 \o Wait(500)
<1>1. /\ 0 + 96 = 96 /\ 96 + 1000 = 1096 /\ 1096 + 500 = 1596 /\ 1596 + 60 = 1656
      /\ 96 <= WDT_PERIOD_MS /\ 1096 <= WDT_PERIOD_MS /\ 1596 <= WDT_PERIOD_MS
      /\ 1656 <= WDT_PERIOD_MS /\ 1596 + BUSY_TIMEOUT_MS > WDT_PERIOD_MS
  BY DriverAssumption, WatchdogAssumption
<1>2. IsProgram(watchdogReset) /\ Flows(d, d1) /\ Machine(d1) /\ Rested(d1.dog, 0)
  BY PetProgram
<1> HIDE DEF d1
<1>3. IsProgram(Wait(96)) /\ Flows(d1, d2) /\ Machine(d2) /\ Rested(d2.dog, 96)
  BY <1>1, <1>2, RestedWait
<1> HIDE DEF d2
<1>4. IsProgram(Wait(1000)) /\ Flows(d2, d3) /\ Machine(d3) /\ Rested(d3.dog, 1096)
  BY <1>1, <1>3, RestedWait
<1> HIDE DEF d3
<1>5. IsProgram(Wait(500)) /\ Flows(d3, d4) /\ Machine(d4) /\ Rested(d4.dog, 1596)
  BY <1>1, <1>4, RestedWait
<1>6. IsProgram(p2) /\ Execute(p2, d) = d2
  BY <1>2, <1>3, Composition DEF d1, d2
<1> HIDE DEF p2
<1>7. IsProgram(p3) /\ Execute(p3, d) = d3
  BY <1>4, <1>6, Composition DEF d3
<1> HIDE DEF p3
<1>8. IsProgram(p4) /\ d4 = Execute(p4, d)
  BY <1>5, <1>7, Composition DEF d4
<1> HIDE DEF d4
<1>9. CommitProgram = p4 \o sx1268Init \o switchToOperationalChannel
  BY CommitPauses DEF CommitProgram, p4, p3, p2
<1> HIDE DEF p4
<1>10. ~d4.dog.expired
  BY <1>5 DEF Rested
<1>11. /\ IsProgram(p4 \o sx1268Init \o switchToOperationalChannel)
       /\ Delays(d4, e, 60) /\ OperRenewed(e)
  BY <1>5, <1>8, <1>9, <1>10, InitAfter
<1>12. Strict(e.dog, 1656)
  <2>1. Strict(d4.dog, 1596)
    BY <1>5, RestedDog DEF Machine
  <2>2. Strict(e.dog, 1596 + 60)
    BY <1>1, <1>11, <2>1 DEF Delays
  <2>3. QED
    BY <1>1, <2>2
<1>13. Flows(d, e)
  <2>1. Flows(d, d2)
    BY <1>2, <1>3, FlowsTransitive
  <2>2. Flows(d, d3)
    BY <1>4, <2>1, FlowsTransitive
  <2>3. Flows(d, d4)
    BY <1>5, <2>2, FlowsTransitive
  <2>4. QED
    BY <1>11, <2>3, FlowsTransitive DEF Delays
<1>14. QED
  BY <1>9, <1>11, <1>12, <1>13

\* A commit is a program.
LEMMA CommitIsProgram == IsProgram(CommitProgram)
  BY SomeMachine, CommitRuns

\* The frame that brings the confirmation, after which the radio is in standby.
LEMMA CommitFrame ==
  ASSUME NEW d, Machine(d), d.chip.mode = "STDBY",
         NEW b \in Nat, b + BUSY_TIMEOUT_MS <= WDT_PERIOD_MS, Kept(d.dog, b),
         NEW e, e = Execute(Received(CommitProgram), d)
  PROVE  /\ Flows(d, e) /\ OperRenewed(e)
         /\ e.dog.expired => e.dog.stalls # 0
         /\ ~e.dog.expired => Strict(e.dog, 1656)
<1> DEFINE m == Execute(Reception, d)
           g == Execute(CommitProgram, m)
<1>1. /\ b + 0 = b /\ 0 \in Nat /\ 1656 + 0 = 1656 /\ 1656 <= WDT_PERIOD_MS
      /\ 1656 + BUSY_TIMEOUT_MS > WDT_PERIOD_MS /\ 1656 \in Nat
  BY DriverAssumption, WatchdogAssumption
<1>2. Delays(d, m, 0) /\ Keeps(d, m) /\ IsProgram(Reception)
  BY ReceptionPauses DEF Pauses
<1>3. Machine(m) /\ Kept(m.dog, b)
  BY <1>1, <1>2, DelaysMachine DEF Delays
<1>4. IsProgram(Reception \o CommitProgram) /\ Execute(Reception \o CommitProgram, d) = g
  BY <1>2, CommitIsProgram, Composition
<1>5. IsProgram(clear_irq_status) /\ e = Execute(clear_irq_status, g)
  BY <1>4, QuietCalls, Composition DEF Pauses, Received
<1> HIDE DEF m
<1>6. CASE m.dog.expired
  <2>1. g = m
    BY <1>6, CommitIsProgram, Halted
  <2>2. e = m
    BY <1>5, <1>6, <2>1, Halted
  <2>3. m.dog.stalls # 0
    BY <1>3, <1>6 DEF Kept
  <2>4. ~m.cut => m.chip.mode = "STDBY"
    BY <1>2 DEF Keeps, Same, Steady
  <2>5. QED
    BY <1>2, <1>6, <2>2, <2>3, <2>4 DEF Delays, OperRenewed, Renewed
<1>7. CASE ~m.dog.expired
  <2>1. Flows(m, g) /\ OperRenewed(g) /\ Strict(g.dog, 1656)
    BY <1>3, <1>7, CommitRuns DEF Kept
  <2>2. Machine(g)
    BY <2>1 DEF Flows
  <2> HIDE DEF g
  <2>3. Delays(g, e, 0) /\ Keeps(g, e)
    BY <1>5, <2>2, QuietCalls DEF Pauses
  <2>4. OperRenewed(e)
    BY <2>1, <2>3, RenewedAgain DEF Delays
  <2>5. Strict(e.dog, 1656)
    <3>1. Strict(e.dog, 1656 + 0)
      BY <1>1, <2>1, <2>3 DEF Delays
    <3>2. QED
      BY <1>1, <3>1
  <2>6. Flows(d, g)
    BY <1>2, <2>1, FlowsTransitive DEF Delays
  <2>7. Flows(d, e)
    BY <2>3, <2>6, FlowsTransitive DEF Delays
  <2>8. QED
    BY <1>1, <2>4, <2>5, <2>7 DEF Strict
<1>8. QED
  BY <1>6, <1>7

\* The radio watchdog.
LEMMA RadioWatchdogRuns ==
  ASSUME NEW d, Machine(d), ~d.dog.expired,
         NEW e, e = Execute(sx1268Init \o switchToOperationalChannel, d)
  PROVE  Delays(d, e, 60) /\ OperRenewed(e)
<1>1. IsProgram(sx1268Init) /\ IsProgram(switchToOperationalChannel)
  BY SomeMachine, InitProgram, OperSwitch
<1>2. e = Execute(switchToOperationalChannel, Execute(sx1268Init, d))
  BY <1>1, Composition
<1>3. QED
  BY <1>2, InitThenSwitch

\* A give-up resets the timer twice: it takes 960 ms from the second time.
LEMMA GiveUpRuns ==
  ASSUME NEW d, Machine(d), d.dog.on, ~d.dog.expired, NEW e, e = Execute(GiveUpProgram, d)
  PROVE  Flows(d, e) /\ OperRenewed(e) /\ Kept(e.dog, 960)
<1> DEFINE p1 == watchdogReset \o noNetworkTone
           p2 == p1 \o watchdogReset
           p3 == p2 \o Wait(300)
           p4 == p3 \o Wait(300)
           p5 == p4 \o Wait(300)
           d1 == Execute(p1, d)
           d2 == Execute(watchdogReset, d1)
           d3 == Execute(Wait(300), d2)
           d4 == Execute(Wait(300), d3)
           d5 == Execute(Wait(300), d4)
<1>1. /\ 298 + BUSY_TIMEOUT_MS <= WDT_PERIOD_MS
      /\ 0 + 300 = 300 /\ 300 + 300 = 600 /\ 600 + 300 = 900 /\ 900 + 60 = 960
      /\ 300 <= WDT_PERIOD_MS /\ 600 <= WDT_PERIOD_MS /\ 900 <= WDT_PERIOD_MS
      /\ 900 + 60 + BUSY_TIMEOUT_MS <= WDT_PERIOD_MS
  BY DriverAssumption, WatchdogAssumption
<1>2. IsProgram(p1) /\ Flows(d, d1) /\ d1.dog.on /\ ~d1.dog.expired
  BY <1>1, Tones, PetThenPause
<1>3. Machine(d1)
  BY <1>2 DEF Flows
<1> HIDE DEF d1
<1>4. IsProgram(watchdogReset) /\ Flows(d1, d2) /\ Machine(d2) /\ Rested(d2.dog, 0)
  BY <1>2, <1>3, PetProgram
<1> HIDE DEF d2
<1>5. IsProgram(Wait(300)) /\ Flows(d2, d3) /\ Machine(d3) /\ Rested(d3.dog, 300)
  BY <1>1, <1>4, RestedWait
<1> HIDE DEF d3
<1>6. Flows(d3, d4) /\ Machine(d4) /\ Rested(d4.dog, 600)
  BY <1>1, <1>5, RestedWait
<1> HIDE DEF d4
<1>7. Flows(d4, d5) /\ Machine(d5) /\ Rested(d5.dog, 900)
  BY <1>1, <1>6, RestedWait
<1> HIDE DEF p1
<1>8. IsProgram(p2) /\ Execute(p2, d) = d2
  BY <1>2, <1>4, Composition DEF d1, d2
<1> HIDE DEF p2
<1>9. IsProgram(p3) /\ Execute(p3, d) = d3
  BY <1>5, <1>8, Composition DEF d3
<1> HIDE DEF p3
<1>10. IsProgram(p4) /\ Execute(p4, d) = d4
  BY <1>5, <1>9, Composition DEF d4
<1> HIDE DEF p4
<1>11. IsProgram(p5) /\ d5 = Execute(p5, d)
  BY <1>5, <1>10, Composition
<1> HIDE DEF d5
<1>12. GiveUpProgram = p5 \o sx1268Init \o switchToOperationalChannel
  BY DEF GiveUpProgram, p5, p4, p3, p2, p1
<1> HIDE DEF p5
<1>13. ~d5.dog.expired
  BY <1>7 DEF Rested
<1>14. Delays(d5, e, 60) /\ OperRenewed(e)
  BY <1>7, <1>11, <1>12, <1>13, InitAfter
<1>15. Kept(e.dog, 960)
  <2>1. Kept(d5.dog, 900)
    BY <1>7, RestedDog DEF Machine
  <2>2. Kept(e.dog, 900 + 60)
    BY <1>1, <1>14, <2>1 DEF Delays
  <2>3. QED
    BY <1>1, <2>2
<1>16. Flows(d, e)
  <2>1. Flows(d, d2)
    BY <1>2, <1>4, FlowsTransitive
  <2>2. Flows(d, d3)
    BY <1>5, <2>1, FlowsTransitive
  <2>3. Flows(d, d4)
    BY <1>6, <2>2, FlowsTransitive
  <2>4. Flows(d, d5)
    BY <1>7, <2>3, FlowsTransitive
  <2>5. QED
    BY <1>14, <2>4, FlowsTransitive DEF Delays
<1>17. QED
  BY <1>14, <1>15, <1>16

-----------------------------------------------------------------------------
(* setup() and waking up.                                                  *)

\* The program takes ms, whatever it does to the chip.
Takes(p, ms) == IsProgram(p) /\ \A d : Machine(d) => Delays(d, Execute(p, d), ms)

\* e is what setup() makes of the machine x, on which sx1268Init() has been run.
SetUp(start, x, e) ==
  LET y == Execute(start, x)
  IN  /\ Machine(x) /\ ~x.dog.expired /\ Fresh(x)
      /\ Machine(y) /\ ~y.dog.expired
      /\ e.chip = y.chip /\ (e.cut <=> y.cut)

\* setup(): the timer is off, and a stall only makes it slow.
LEMMA SetupRuns ==
  ASSUME NEW start, NEW ms, Takes(start, ms),
         NEW d, Machine(d), ~d.dog.expired,
         NEW e, e = Execute(watchdogDisable \o sx1268Init \o start \o watchdogInit, d)
  PROVE  /\ Flows(d, e) /\ Rested(e.dog, 0)
         /\ \E x : SetUp(start, x, e)
<1> DEFINE d1 == Execute(watchdogDisable, d)
           d2 == Execute(sx1268Init, d1)
           d3 == Execute(start, d2)
           p2 == watchdogDisable \o sx1268Init
           p3 == p2 \o start
<1>1. IsProgram(watchdogDisable) /\ Flows(d, d1) /\ Machine(d1) /\ Off(d1.dog)
  BY DogPrograms
<1> HIDE DEF d1
<1>2. IsProgram(sx1268Init) /\ Delays(d1, d2, 60) /\ Fresh(d2) /\ Machine(d2) /\ Off(d2.dog)
  <2>1. IsProgram(sx1268Init) /\ Delays(d1, d2, 60) /\ Fresh(d2)
    BY <1>1, InitProgram DEF Off
  <2>2. QED
    BY <1>1, <2>1, DelaysMachine DEF Delays
<1> HIDE DEF d2
<1>3. Delays(d2, d3, ms) /\ Machine(d3) /\ Off(d3.dog)
  <2>1. Delays(d2, d3, ms)
    BY <1>2 DEF Takes
  <2>2. QED
    BY <1>2, <2>1, DelaysMachine DEF Delays
<1>4. IsProgram(p2) /\ Execute(p2, d) = d2
  BY <1>1, <1>2, Composition DEF d1, d2
<1> HIDE DEF p2
<1>5. IsProgram(p3) /\ Execute(p3, d) = d3
  BY <1>4, Composition DEF Takes
<1>6. IsProgram(watchdogInit)
  BY SomeMachine, DogPrograms
<1>7. e = Execute(watchdogInit, d3)
  <2>1. Execute(p3 \o watchdogInit, d) = Execute(watchdogInit, d3)
    <3> HIDE DEF p3, d3
    <3> QED
      BY <1>5, <1>6, Composition
  <2>2. QED
    BY <2>1 DEF p2
<1>8. /\ Flows(d3, e) /\ e.chip = d3.chip /\ (e.cut <=> d3.cut) /\ Rested(e.dog, 0)
  <2> HIDE DEF d3
  <2> QED
    BY <1>3, <1>7, DogPrograms DEF Off
<1>9. Flows(d, e)
  <2>1. Flows(d, d2)
    BY <1>1, <1>2, FlowsTransitive DEF Delays
  <2>2. Flows(d, d3)
    BY <1>1, <1>3, <2>1, FlowsTransitive DEF Delays
  <2>3. QED
    BY <1>8, <2>2, FlowsTransitive
<1>10. SetUp(start, d2, e)
  BY <1>2, <1>3, <1>8 DEF Off, SetUp
<1>11. QED
  BY <1>8, <1>9, <1>10

\* A pause leaves what has been tuned.
LEMMA RetunedThenPause ==
  ASSUME NEW d, NEW m, NEW e, NEW ms, Machine(d), Delays(d, m, 0),
         NEW mod, NEW pkt, NEW sync, NEW dbm, Retuned(d, m, mod, pkt, sync, dbm),
         Delays(m, e, ms), Keeps(m, e)
  PROVE  Retuned(d, e, mod, pkt, sync, dbm)
<1> SUFFICES ASSUME ~e.cut
             PROVE  /\ ~d.cut
                    /\ \/ d.dog.expired /\ e = d
                       \/ /\ e.chip.mode = "STDBY" /\ OnChan(e.chip, mod, pkt, sync, dbm)
                          /\ 2 \in e.chip.txModulation /\ 2 \notin e.chip.iqPolarity
                          /\ Same(d.chip, e.chip, Untuned)
  BY DEF Retuned
<1>1. ~m.cut /\ Same(m.chip, e.chip, Steady)
  BY DEF Keeps
<1>2. CASE d.dog.expired
  <2>1. m = d
    BY <1>2 DEF Delays, Flows
  <2>2. e = d
    BY <1>2, <2>1 DEF Delays, Flows
  <2>3. QED
    BY <1>1, <1>2, <2>1, <2>2
<1>3. CASE ~d.dog.expired
  <2>1. /\ ~d.cut /\ m.chip.mode = "STDBY" /\ OnChan(m.chip, mod, pkt, sync, dbm)
        /\ 2 \in m.chip.txModulation /\ 2 \notin m.chip.iqPolarity
        /\ Same(d.chip, m.chip, Untuned)
    BY <1>1, <1>3 DEF Retuned
  <2>2. /\ e.chip.mode = m.chip.mode /\ e.chip.mod = m.chip.mod /\ e.chip.pkt = m.chip.pkt
        /\ e.chip.sync = m.chip.sync /\ e.chip.pwr = m.chip.pwr
        /\ e.chip.txModulation = m.chip.txModulation /\ e.chip.iqPolarity = m.chip.iqPolarity
    BY <1>1 DEF Same, Steady
  <2>3. Same(d.chip, e.chip, Untuned)
    BY <1>1, <2>1 DEF Same, Steady
  <2>4. QED
    BY <2>1, <2>2, <2>3 DEF OnChan
<1>4. QED
  BY <1>2, <1>3

\* Entering the pairing: the switch, and the beep.
LEMMA SwitchThenPause ==
  ASSUME NEW ms \in Nat, NEW d, Machine(d),
         NEW e, e = Execute(switchToPairChannel \o Wait(ms), d)
  PROVE  /\ IsProgram(switchToPairChannel \o Wait(ms)) /\ Delays(d, e, ms)
         /\ Retuned(d, e, PairMod, PairPkt(32), "PAIR", 14)
<1> DEFINE m == Execute(switchToPairChannel, d)
<1>1. /\ IsProgram(switchToPairChannel) /\ Delays(d, m, 0)
      /\ Retuned(d, m, PairMod, PairPkt(32), "PAIR", 14)
  BY PairSwitch
<1>2. Pauses(Wait(ms), ms)
  BY WaitPauses
<1>3. IsProgram(switchToPairChannel \o Wait(ms)) /\ e = Execute(Wait(ms), m)
  BY <1>1, <1>2, Composition DEF Pauses
<1> HIDE DEF m
<1>4. Delays(m, e, ms) /\ Keeps(m, e)
  BY <1>1, <1>2, <1>3, DelaysMachine DEF Pauses
<1>5. Retuned(d, e, PairMod, PairPkt(32), "PAIR", 14)
  BY <1>1, <1>4, RetunedThenPause
<1>6. Delays(d, e, ms)
  <2>1. 0 + ms = ms /\ 0 \in Nat
    OBVIOUS
  <2>2. QED
    BY <1>1, <1>4, <2>1, DelaysTransitive
<1>7. QED
  BY <1>3, <1>5, <1>6

\* An initialised chip that has been tuned.
LEMMA FreshRetuned ==
  ASSUME NEW x, NEW y, ~y.dog.expired, ~x.dog.expired, Fresh(x),
         NEW mod, NEW pkt, NEW sync, NEW dbm, Retuned(x, y, mod, pkt, sync, dbm)
  PROVE  ~y.cut => /\ y.chip.mode = "STDBY" /\ Initialised(y.chip)
                   /\ OnChan(y.chip, mod, pkt, sync, dbm)
<1>1. ASSUME ~y.cut
      PROVE  /\ ~x.cut /\ y.chip.mode = "STDBY" /\ OnChan(y.chip, mod, pkt, sync, dbm)
             /\ 2 \in y.chip.txModulation /\ 2 \notin y.chip.iqPolarity
             /\ Same(x.chip, y.chip, Untuned)
  BY <1>1 DEF Retuned
<1>2. ASSUME ~y.cut
      PROVE  Initialised(x.chip)
  BY <1>1, <1>2 DEF Fresh
<1>3. QED
  BY <1>1, <1>2, StillInitialised

\* setup() with the key combination held: the remote is on the channel of the pairing.
LEMMA SetupPairs ==
  ASSUME NEW d, Machine(d), ~d.dog.expired,
         NEW e, e = Execute(watchdogDisable \o sx1268Init
                            \o (switchToPairChannel \o Wait(300)) \o watchdogInit, d)
  PROVE  /\ Flows(d, e) /\ Rested(e.dog, 0)
         /\ ~e.cut => /\ e.chip.mode = "STDBY" /\ Initialised(e.chip)
                      /\ OnChan(e.chip, PairMod, PairPkt(32), "PAIR", 14)
<1> DEFINE start == switchToPairChannel \o Wait(300)
<1>1. /\ IsProgram(start)
      /\ \A x : Machine(x) => /\ Delays(x, Execute(start, x), 300)
                              /\ Retuned(x, Execute(start, x), PairMod, PairPkt(32), "PAIR", 14)
  BY SomeMachine, SwitchThenPause
<1> HIDE DEF start
<1>2. e = Execute(watchdogDisable \o sx1268Init \o start \o watchdogInit, d)
  BY DEF start
<1>3. Takes(start, 300)
  BY <1>1 DEF Takes
<1>4. /\ Flows(d, e) /\ Rested(e.dog, 0)
      /\ \E x : SetUp(start, x, e)
  BY <1>2, <1>3, SetupRuns
<1>5. PICK x : SetUp(start, x, e)
  BY <1>4
<1> DEFINE y == Execute(start, x)
<1>6. Retuned(x, y, PairMod, PairPkt(32), "PAIR", 14)
  BY <1>1, <1>5 DEF SetUp
<1>7. ~x.dog.expired /\ Fresh(x) /\ ~y.dog.expired /\ e.chip = y.chip /\ (e.cut <=> y.cut)
  BY <1>5 DEF SetUp
<1> HIDE DEF y
<1>8. ~y.cut => /\ y.chip.mode = "STDBY" /\ Initialised(y.chip)
                /\ OnChan(y.chip, PairMod, PairPkt(32), "PAIR", 14)
  BY <1>6, <1>7, FreshRetuned
<1>9. QED
  BY <1>4, <1>7, <1>8

\* setup() of a paired remote: it is on its peer's channel.
LEMMA SetupOperates ==
  ASSUME NEW d, Machine(d), ~d.dog.expired,
         NEW e, e = Execute(watchdogDisable \o sx1268Init
                            \o switchToOperationalChannel \o watchdogInit, d)
  PROVE  /\ Flows(d, e) /\ Rested(e.dog, 0)
         /\ ~e.cut => /\ e.chip.mode = "STDBY" /\ Initialised(e.chip)
                      /\ OnChan(e.chip, OperMod(Profile), OperPkt, "OPER", 22)
<1> DEFINE start == switchToOperationalChannel
<1>1. /\ IsProgram(start)
      /\ \A x : Machine(x) => /\ Delays(x, Execute(start, x), 0)
                              /\ Retuned(x, Execute(start, x), OperMod(Profile), OperPkt, "OPER", 22)
  BY SomeMachine, OperSwitch
<1> HIDE DEF start
<1>2. e = Execute(watchdogDisable \o sx1268Init \o start \o watchdogInit, d)
  BY DEF start
<1>3. Takes(start, 0)
  BY <1>1 DEF Takes
<1>4. /\ Flows(d, e) /\ Rested(e.dog, 0)
      /\ \E x : SetUp(start, x, e)
  BY <1>2, <1>3, SetupRuns
<1>5. PICK x : SetUp(start, x, e)
  BY <1>4
<1> DEFINE y == Execute(start, x)
<1>6. Retuned(x, y, OperMod(Profile), OperPkt, "OPER", 22)
  BY <1>1, <1>5 DEF SetUp
<1>7. ~x.dog.expired /\ Fresh(x) /\ ~y.dog.expired /\ e.chip = y.chip /\ (e.cut <=> y.cut)
  BY <1>5 DEF SetUp
<1> HIDE DEF y
<1>8. ~y.cut => /\ y.chip.mode = "STDBY" /\ Initialised(y.chip)
                /\ OnChan(y.chip, OperMod(Profile), OperPkt, "OPER", 22)
  BY <1>6, <1>7, FreshRetuned
<1>9. QED
  BY <1>4, <1>7, <1>8

\* setup() of a remote without a peer: the chip is initialised.
LEMMA SetupStays ==
  ASSUME NEW d, Machine(d), ~d.dog.expired,
         NEW e, e = Execute(watchdogDisable \o sx1268Init \o <<>> \o watchdogInit, d)
  PROVE  /\ Flows(d, e) /\ Rested(e.dog, 0)
         /\ ~e.cut => e.chip.mode = "STDBY" /\ Initialised(e.chip)
<1> DEFINE start == <<>>
<1>1. Pauses(start, 0)
  BY EmptyProgram
<1> HIDE DEF start
<1>2. e = Execute(watchdogDisable \o sx1268Init \o start \o watchdogInit, d)
  BY DEF start
<1>3. /\ IsProgram(start)
      /\ \A x : Machine(x) => Delays(x, Execute(start, x), 0) /\ Keeps(x, Execute(start, x))
  BY <1>1 DEF Pauses
<1>4. Takes(start, 0)
  BY <1>3 DEF Takes
<1>5. /\ Flows(d, e) /\ Rested(e.dog, 0)
      /\ \E x : SetUp(start, x, e)
  BY <1>2, <1>4, SetupRuns
<1>6. PICK x : SetUp(start, x, e)
  BY <1>5
<1> DEFINE y == Execute(start, x)
<1>7. Keeps(x, y)
  BY <1>3, <1>6 DEF SetUp
<1>8. ~x.dog.expired /\ Fresh(x) /\ ~y.dog.expired /\ e.chip = y.chip /\ (e.cut <=> y.cut)
  BY <1>6 DEF SetUp
<1> HIDE DEF y
<1>9. ASSUME ~y.cut
      PROVE  y.chip.mode = "STDBY" /\ Initialised(y.chip)
  <2>1. x.chip.mode = "STDBY" /\ Initialised(x.chip) /\ Same(x.chip, y.chip, Steady)
    BY <1>7, <1>8, <1>9 DEF Keeps, Fresh
  <2>2. /\ y.chip.mode = x.chip.mode /\ Same(x.chip, y.chip, Untuned)
        /\ 2 \in y.chip.txModulation /\ 2 \notin y.chip.iqPolarity
    BY <2>1 DEF Same, Steady, Initialised
  <2>3. QED
    BY <2>1, <2>2, StillInitialised
<1>10. QED
  BY <1>5, <1>8, <1>9

\* enterSleep(), on waking up: a stall at any one place is survived, the timer being reset
\* in between.
LEMMA WakeUpRuns ==
  ASSUME NEW d, Machine(d), ~d.dog.expired, NEW e, e = Execute(WakeUp, d)
  PROVE  /\ Flows(d, e) /\ Rested(e.dog, 0)
         /\ ~e.cut => /\ e.chip.mode = "STDBY" /\ Initialised(e.chip)
                      /\ OnChan(e.chip, OperMod(Profile), OperPkt, "OPER", 22)
<1> DEFINE d1 == Execute(watchdogInit, d)
           d2 == Execute(watchdogReset, d1)
           d3 == Execute(sx1268Init, d2)
           d4 == Execute(watchdogReset, d3)
           d5 == Execute(switchToOperationalChannel, d4)
           p2 == watchdogInit \o watchdogReset
           p3 == p2 \o sx1268Init
           p4 == p3 \o watchdogReset
           p5 == p4 \o switchToOperationalChannel
<1>1. /\ 0 + 60 + BUSY_TIMEOUT_MS <= WDT_PERIOD_MS /\ 0 + 0 + BUSY_TIMEOUT_MS <= WDT_PERIOD_MS
      /\ 0 \in Nat /\ 60 \in Nat
  BY DriverAssumption, WatchdogAssumption
<1>2. IsProgram(watchdogInit) /\ Flows(d, d1) /\ Machine(d1) /\ Rested(d1.dog, 0)
  BY DogPrograms
<1> HIDE DEF d1
<1>3. IsProgram(watchdogReset) /\ Flows(d1, d2) /\ Machine(d2) /\ Rested(d2.dog, 0)
  BY <1>2, PetProgram DEF Rested
<1> HIDE DEF d2
<1>4. IsProgram(sx1268Init) /\ Delays(d2, d3, 60) /\ Fresh(d3)
  BY <1>3, InitProgram DEF Rested
<1>5. Machine(d3) /\ d3.dog.on /\ ~d3.dog.expired
  <2> HIDE DEF d3
  <2>1. d3.dog.on /\ ~d3.dog.expired
    BY <1>1, <1>3, <1>4, RestedDelays
  <2>2. QED
    BY <1>4, <2>1, DelaysMachine
<1> HIDE DEF d3
<1>6. Flows(d3, d4) /\ Machine(d4) /\ Rested(d4.dog, 0) /\ Fresh(d4)
  <2>1. Flows(d3, d4) /\ Machine(d4) /\ Rested(d4.dog, 0)
    BY <1>5, PetProgram
  <2>2. Idle(d3, d4)
    BY <1>5, PetCall
  <2> HIDE DEF d4
  <2>3. QED
    BY <1>4, <1>5, <2>1, <2>2 DEF Idle, Fresh
<1> HIDE DEF d4
<1>7. /\ IsProgram(switchToOperationalChannel) /\ Delays(d4, d5, 0)
      /\ Retuned(d4, d5, OperMod(Profile), OperPkt, "OPER", 22)
  BY <1>6, OperSwitch
<1>8. Machine(d5) /\ d5.dog.on /\ ~d5.dog.expired
  <2> HIDE DEF d5
  <2>1. d5.dog.on /\ ~d5.dog.expired
    BY <1>1, <1>6, <1>7, RestedDelays
  <2>2. QED
    BY <1>7, <2>1, DelaysMachine
<1> HIDE DEF d5
<1>9. IsProgram(p2) /\ Execute(p2, d) = d2
  BY <1>2, <1>3, Composition DEF d1, d2
<1> HIDE DEF p2
<1>10. IsProgram(p3) /\ Execute(p3, d) = d3
  BY <1>4, <1>9, Composition DEF d3
<1> HIDE DEF p3
<1>11. IsProgram(p4) /\ Execute(p4, d) = d4
  BY <1>3, <1>10, Composition DEF d4
<1> HIDE DEF p4
<1>12. IsProgram(p5) /\ Execute(p5, d) = d5
  BY <1>7, <1>11, Composition DEF d5
<1>13. WakeUp = p5 \o watchdogReset
  BY DEF WakeUp, p4, p3, p2
<1> HIDE DEF p5
<1>14. e = Execute(watchdogReset, d5)
  BY <1>3, <1>12, <1>13, Composition
<1>15. Flows(d5, e) /\ Rested(e.dog, 0) /\ Idle(d5, e)
  BY <1>8, <1>14, PetProgram, PetCall
<1>16. Flows(d, e)
  <2>1. Flows(d, d2)
    BY <1>2, <1>3, FlowsTransitive
  <2>2. Flows(d, d3)
    BY <1>4, <2>1, FlowsTransitive DEF Delays
  <2>3. Flows(d, d4)
    BY <1>6, <2>2, FlowsTransitive
  <2>4. Flows(d, d5)
    BY <1>7, <2>3, FlowsTransitive DEF Delays
  <2>5. QED
    BY <1>15, <2>4, FlowsTransitive
<1>17. ~d5.cut => /\ d5.chip.mode = "STDBY" /\ Initialised(d5.chip)
                  /\ OnChan(d5.chip, OperMod(Profile), OperPkt, "OPER", 22)
  BY <1>6, <1>7, <1>8, FreshRetuned DEF Rested
<1>18. QED
  BY <1>15, <1>16, <1>17 DEF Idle

\* pairRemNodeRevert().
LEMMA RevertRuns ==
  ASSUME NEW ms \in Nat, ms + BUSY_TIMEOUT_MS <= WDT_PERIOD_MS,
         NEW d, Machine(d), d.dog.on, ~d.dog.expired,
         NEW e, e = Execute(watchdogReset \o switchToOperationalChannel \o Wait(ms), d)
  PROVE  /\ Flows(d, e) /\ e.dog.on /\ ~e.dog.expired
         /\ ~e.cut => /\ ~d.cut /\ e.chip.mode = "STDBY"
                      /\ OnChan(e.chip, OperMod(Profile), OperPkt, "OPER", 22)
                      /\ 2 \in e.chip.txModulation /\ 2 \notin e.chip.iqPolarity
                      /\ Same(d.chip, e.chip, Untuned)
<1> DEFINE d1 == Execute(watchdogReset, d)
           d2 == Execute(switchToOperationalChannel, d1)
           p2 == watchdogReset \o switchToOperationalChannel
<1>1. /\ IsProgram(watchdogReset) /\ Flows(d, d1) /\ Machine(d1) /\ Rested(d1.dog, 0)
      /\ Idle(d, d1)
  BY PetProgram, PetCall
<1> HIDE DEF d1
<1>2. /\ IsProgram(switchToOperationalChannel) /\ Delays(d1, d2, 0)
      /\ Retuned(d1, d2, OperMod(Profile), OperPkt, "OPER", 22)
  BY <1>1, OperSwitch
<1> HIDE DEF d2
<1>3. IsProgram(p2) /\ Execute(p2, d) = d2
  BY <1>1, <1>2, Composition DEF d1, d2
<1> HIDE DEF p2
<1>4. Pauses(Wait(ms), ms) /\ Machine(d2)
  BY <1>2, WaitPauses, DelaysMachine
<1>5. e = Execute(Wait(ms), d2)
  BY <1>3, <1>4, Composition DEF Pauses, p2
<1>6. Delays(d2, e, ms) /\ Keeps(d2, e)
  BY <1>4, <1>5 DEF Pauses
<1>7. Retuned(d1, e, OperMod(Profile), OperPkt, "OPER", 22)
  BY <1>1, <1>2, <1>6, RetunedThenPause
<1>8. Delays(d1, e, ms)
  <2>1. 0 + ms = ms /\ 0 \in Nat
    OBVIOUS
  <2>2. QED
    BY <1>1, <1>2, <1>6, <2>1, DelaysTransitive
<1>9. e.dog.on /\ ~e.dog.expired
  <2>1. 0 + ms = ms /\ 0 \in Nat
    OBVIOUS
  <2>2. QED
    BY <1>1, <1>8, <2>1, RestedDelays
<1>10. Flows(d, e)
  BY <1>1, <1>8, FlowsTransitive DEF Delays
<1>11. d1.chip = d.chip /\ (d1.cut <=> d.cut) /\ ~d1.dog.expired
  BY <1>1 DEF Idle, Rested
<1>12. QED
  BY <1>7, <1>9, <1>10, <1>11 DEF Retuned

\* Falling asleep.
LEMMA SleepRuns ==
  ASSUME NEW b \in Nat, b + BUSY_TIMEOUT_MS <= WDT_PERIOD_MS,
         NEW d, Machine(d), ~d.dog.expired, Kept(d.dog, b),
         NEW e, e = Execute(set_sleep \o watchdogDisable, d)
  PROVE  /\ Flows(d, e)
         /\ IF e.dog.expired THEN e.dog.stalls > 1 ELSE Off(e.dog)
         /\ ~e.cut => /\ ~d.cut /\ e.chip.mode = "SLEEP"
                      /\ Same(d.chip, e.chip, Steady \ {"mode"})
<1> DEFINE m == Execute(set_sleep, d)
<1>1. IsProgram(set_sleep) /\ Sets(d, m, [mode |-> "SLEEP"])
  BY PlainCommands
<1> HIDE DEF m
<1>2. Bus(d, m) /\ Machine(m) /\ Delays(d, m, 0)
  BY <1>1, SilentDelays DEF Sets, Bus, Silent
<1>3. Kept(m.dog, b)
  <2>1. b + 0 = b
    OBVIOUS
  <2>2. QED
    BY <1>2, <2>1 DEF Delays
<1>4. IsProgram(watchdogDisable) /\ e = Execute(watchdogDisable, m)
  <2>1. IsProgram(watchdogDisable)
    BY SomeMachine, DogPrograms
  <2>2. QED
    BY <1>1, <2>1, Composition DEF m
<1>5. /\ Flows(m, e) /\ e.chip = m.chip /\ (e.cut <=> m.cut)
      /\ ~m.dog.expired => Off(e.dog)
  BY <1>2, <1>4, DogPrograms
<1>6. Flows(d, e)
  BY <1>2, <1>5, FlowsTransitive DEF Delays
<1>7. IF e.dog.expired THEN e.dog.stalls > 1 ELSE Off(e.dog)
  <2>1. CASE m.dog.expired
    <3>1. e = m /\ m.dog.stalls \in Nat
      BY <1>2, <1>5, <2>1 DEF Flows, Machine, Dogs
    <3>2. QED
      BY <1>3, <2>1, <3>1 DEF Kept
  <2>2. CASE ~m.dog.expired
    BY <1>5, <2>2 DEF Off
  <2>3. QED
    BY <2>1, <2>2
<1>8. ASSUME ~e.cut
      PROVE  ~d.cut /\ e.chip.mode = "SLEEP" /\ Same(d.chip, e.chip, Steady \ {"mode"})
  <2>1. ~d.cut /\ ~Failed(d, m)
    BY <1>2, <1>5, <1>8, Unfailed
  <2>2. Changed(d.chip, m.chip, [mode |-> "SLEEP"])
    BY <1>1, <2>1 DEF Sets
  <2>3. Steady \subseteq DOMAIN d.chip
    BY DEF Machine, ChipOK, Steady, Untuned, ResetChip
  <2>4. m.chip.mode = "SLEEP" /\ Same(d.chip, m.chip, Steady \ {"mode"})
    BY <2>2, <2>3 DEF Changed, Same, Steady
  <2>5. QED
    BY <1>5, <2>1, <2>4
<1>9. QED
  BY <1>6, <1>7, <1>8

\* The low-battery alert fits between two resets of the timer.
LEMMA AlertRuns ==
  ASSUME NEW d, Machine(d), d.dog.on, ~d.dog.expired,
         NEW e, e = Execute(watchdogReset \o lowBattAlert \o EndOfPass, d)
  PROVE  Flows(d, e) /\ Keeps(d, e) /\ ~e.dog.expired /\ Kept(e.dog, 5)
<1> DEFINE d1 == Execute(watchdogReset, d)
           d2 == Execute(Wait(1750), d1)
           d3 == Execute(Wait(440), d2)
           p2 == watchdogReset \o lowBattAlert
<1>1. /\ 0 + 1750 = 1750 /\ 1750 + 440 = 2190 /\ 0 \in Nat /\ 5 + BUSY_TIMEOUT_MS <= WDT_PERIOD_MS
      /\ 1750 <= WDT_PERIOD_MS /\ 2190 <= WDT_PERIOD_MS
  BY DriverAssumption, WatchdogAssumption
<1>2. /\ IsProgram(watchdogReset) /\ Flows(d, d1) /\ Machine(d1) /\ Rested(d1.dog, 0)
      /\ Keeps(d, d1)
  BY PetProgram
<1> HIDE DEF d1
<1>3. IsProgram(Wait(1750)) /\ Flows(d1, d2) /\ Machine(d2) /\ Rested(d2.dog, 1750)
  BY <1>1, <1>2, RestedWait
<1>4. Keeps(d1, d2)
  BY <1>2, WaitPauses DEF Pauses
<1> HIDE DEF d2
<1>5. IsProgram(Wait(440)) /\ Flows(d2, d3) /\ Machine(d3) /\ Rested(d3.dog, 2190)
  BY <1>1, <1>3, RestedWait
<1>6. Keeps(d2, d3)
  BY <1>3, WaitPauses DEF Pauses
<1> HIDE DEF d3
<1>7. IsProgram(lowBattAlert) /\ Execute(lowBattAlert, d1) = d3
  <2>1. lowBattAlert = Wait(1750) \o Wait(440)
    <3>1. 5 * (200 + 150) = 1750 /\ 80 + 100 + 80 + 100 + 80 = 440
      OBVIOUS
    <3>2. QED
      BY <3>1 DEF lowBattAlert
  <2>2. QED
    BY <1>3, <1>5, <2>1, Composition DEF d2, d3
<1>8. IsProgram(p2) /\ Execute(p2, d) = d3
  BY <1>2, <1>7, Composition DEF d1
<1>9. Pauses(Wait(5), 5)
  BY WaitPauses
<1>10. IsProgram(EndOfPass)
  BY <1>2, <1>9, Composition DEF EndOfPass, Pauses
<1>11. e = Execute(EndOfPass, d3)
  <2> HIDE DEF p2
  <2>1. Execute(p2 \o EndOfPass, d) = Execute(EndOfPass, d3)
    BY <1>8, <1>10, Composition
  <2>2. QED
    BY <2>1 DEF p2
<1>12. Flows(d3, e) /\ Keeps(d3, e) /\ ~e.dog.expired /\ Kept(e.dog, 5)
  BY <1>1, <1>5, <1>9, <1>11, PetThenPause DEF EndOfPass, Rested
<1>13. Flows(d, e) /\ Keeps(d, e)
  <2>1. Flows(d, d2) /\ Keeps(d, d2)
    BY <1>2, <1>3, <1>4, FlowsTransitive, KeepsTransitive
  <2>2. Flows(d, d3) /\ Keeps(d, d3)
    BY <1>5, <1>6, <2>1, FlowsTransitive, KeepsTransitive
  <2>3. QED
    BY <1>12, <2>2, FlowsTransitive, KeepsTransitive
<1>14. QED
  BY <1>12, <1>13
=============================================================================
