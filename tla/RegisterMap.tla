---------------------------- MODULE RegisterMap ----------------------------
(***************************************************************************)
(* The register map as FEE/smile_fee_ctrl.c and FEE/smile_fee_cmd.c have   *)
(* it: where each field's getter and setter look for it, which register    *)
(* the sync call of a field transfers, and which addresses the commands    *)
(* carry.  A register is named by its position, in words, in struct        *)
(* smile_fee_mirror, which is also where it is in the FEE.                 *)
(***************************************************************************)
EXTENDS Naturals, Sequences, TLC

\* Positions in struct smile_fee_mirror: the 26 configuration registers, a gap
\* of 422 words, the housekeeping (HK) registers.
Cfg(n) == n
Hk(n) == 26 + 422 + n

\* FEE_CFG_REG_n and FEE_HK_REG_n
CfgAddr(n) == 4 * n
HkAddr(n) == 1792 + 4 * n

\* A field of "width" bits from bit "lsb" up; how its setter treats the argument
\* and how its getter reads the register.
Bits(word, lsb, width) ==
    [word |-> word, lsb |-> lsb, width |-> width, set |-> "masked", get |-> "masked"]

\* One bit; the setter turns any argument but 0 into 1.
Flag(word, lsb) == [Bits(word, lsb, 1) EXCEPT !.set = "flag"]

Whole(word) == Bits(word, 0, 32)
Low(word) == Bits(word, 0, 16)
High(word) == Bits(word, 16, 16)

----------------------------------------------------------------------------
(* Configuration fields.                                                   *)

Reg0and1Fields ==
    [ vstart                  |-> Low(Cfg(0)),
      vend                    |-> High(Cfg(0)),
      charge_injection_width  |-> Low(Cfg(1)),
      charge_injection_gap    |-> High(Cfg(1)) ]

\* The read-out flags of the two CCDs have one getter and one setter, which do
\* nothing for a CCD id other than 1 and 2.
Reg2Fields ==
    [ parallel_toi_period     |-> Bits(Cfg(2), 0, 12),
      parallel_clk_overlap    |-> Bits(Cfg(2), 12, 12),
      ccd_readout_1           |-> Flag(Cfg(2), 24),
      ccd_readout_2           |-> Flag(Cfg(2), 25) ]

Reg3Fields ==
    [ n_final_dump            |-> Low(Cfg(3)),
      h_end                   |-> Bits(Cfg(3), 16, 12),
      charge_injection        |-> Flag(Cfg(3), 28),
      tri_level_clk           |-> Flag(Cfg(3), 29),
      img_clk_dir             |-> Flag(Cfg(3), 30),
      reg_clk_dir             |-> Flag(Cfg(3), 31) ]

Reg4Fields ==
    [ packet_size             |-> Low(Cfg(4)),
      cdsclp_hi               |-> Bits(Cfg(4), 16, 12),
      adc_pwrdn_en            |-> [Bits(Cfg(4), 28, 1) EXCEPT !.set = "inverted",
                                                              !.get = "inverted"] ]

Reg5SyncFields ==
    [ trap_pumping_dwell_term |-> Bits(Cfg(5), 0, 20),
      sync_sel                |-> Flag(Cfg(5), 20),
      sel_pwr_sync            |-> Flag(Cfg(5), 21),
      use_pwr_sync            |-> Flag(Cfg(5), 22) ]

Reg5DataFields ==
    [ digitise_en             |-> Flag(Cfg(5), 23),
      correction_bypass       |-> Flag(Cfg(5), 24),
      dg_en                   |-> Flag(Cfg(5), 25),
      correction_type         |-> Flag(Cfg(5), 26),
      edu_wandering_mask_en   |-> Flag(Cfg(5), 27) ]

Reg5NodeFields ==
    [ readout_node_sel        |-> [Bits(Cfg(5), 28, 4) EXCEPT !.set = "not zero"] ]

\* pix_offset is shifted before it is converted to the CPU's byte order;
\* int_sync_period is cast to 16 bits.
Reg6to9Fields ==
    [ full_sun_pix_threshold  |-> Low(Cfg(6)),
      pix_offset              |-> [Bits(Cfg(6), 16, 8) EXCEPT !.get = "shifted first"],
      readout_pause_counter   |-> Low(Cfg(7)),
      trap_pumping_shuffle_counter |-> High(Cfg(7)),
      int_sync_period         |-> [Bits(Cfg(8), 0, 20) EXCEPT !.get = "uint16_t"],
      cdsclp_lo               |-> Bits(Cfg(8), 20, 12),
      rowclp_hi               |-> Bits(Cfg(9), 0, 12) ]

VoltageFields ==
    [ ccd2_vod_config         |-> Whole(Cfg(14)),
      ccd4_vod_config         |-> Whole(Cfg(15)),
      ccd2_vrd_config         |-> Whole(Cfg(16)),
      ccd4_vrd_config         |-> Whole(Cfg(17)),
      ccd2_vgd_config         |-> Whole(Cfg(18)),
      ccd4_vgd_config         |-> Whole(Cfg(19)),
      ccd_vog_config          |-> Whole(Cfg(20)) ]

\* h_start is read without the conversion to the CPU's byte order.
Reg21GeometryFields ==
    [ rowclp_lo               |-> Bits(Cfg(21), 0, 12),
      h_start                 |-> [Bits(Cfg(21), 12, 12) EXCEPT !.get = "unswapped"],
      ccd_mode_config         |-> Bits(Cfg(21), 24, 4) ]

Reg21ModeFields ==
    [ ccd_mode2_config        |-> [Bits(Cfg(21), 28, 2) EXCEPT !.set = "not zero"],
      event_detection         |-> Flag(Cfg(21), 30),
      clear_error_flag        |-> Flag(Cfg(21), 31) ]

Reg22to25Fields ==
    [ ccd2_e_pix_threshold    |-> Low(Cfg(22)),
      ccd2_f_pix_threshold    |-> High(Cfg(22)),
      ccd4_e_pix_threshold    |-> Low(Cfg(23)),
      ccd4_f_pix_threshold    |-> High(Cfg(23)),
      event_pkt_limit         |-> Bits(Cfg(24), 8, 24),
      execute_op              |-> Flag(Cfg(25), 0) ]

CfgFields ==
    Reg0and1Fields @@ Reg2Fields @@ Reg3Fields @@ Reg4Fields @@ Reg5SyncFields
    @@ Reg5DataFields @@ Reg5NodeFields @@ Reg6to9Fields @@ VoltageFields
    @@ Reg21GeometryFields @@ Reg21ModeFields @@ Reg22to25Fields

----------------------------------------------------------------------------
(* HK fields.  Their setters are there for the simulator only (FEE_SIM).   *)

HkTemperatures ==
    [ hk_ccd2_ts_a |-> High(Hk(4)), hk_ccd4_ts_b |-> Low(Hk(4)),
      hk_prt1 |-> High(Hk(5)),      hk_prt2 |-> Low(Hk(5)),
      hk_prt3 |-> High(Hk(6)),      hk_prt4 |-> Low(Hk(6)),
      hk_prt5 |-> High(Hk(7)) ]

HkReg8to10Voltages ==
    [ hk_ccd4_vod_mon_e |-> High(Hk(8)),  hk_ccd4_vog_mon |-> Low(Hk(8)),
      hk_ccd4_vrd_mon_e |-> High(Hk(9)),  hk_ccd2_vod_mon |-> Low(Hk(9)),
      hk_ccd2_vog_mon |-> High(Hk(10)),   hk_ccd2_vrd_mon_e |-> Low(Hk(10)) ]

HkReg11to13Voltages ==
    [ hk_ccd4_vrd_mon_f |-> High(Hk(11)), hk_ccd4_vdd_mon |-> Low(Hk(11)),
      hk_ccd4_vgd_mon |-> High(Hk(12)),   hk_ccd2_vrd_mon_f |-> Low(Hk(12)),
      hk_ccd2_vdd_mon |-> High(Hk(13)),   hk_ccd2_vgd_mon |-> Low(Hk(13)) ]

HkClockVoltages ==
    [ hk_vccd |-> High(Hk(14)),           hk_vrclk_mon |-> Low(Hk(14)),
      hk_viclk |-> High(Hk(15)),          hk_ccd4_vod_mon_f |-> Low(Hk(15)) ]

HkBoardVoltages ==
    [ hk_5vb_pos_mon |-> High(Hk(16)),    hk_5vb_neg_mon |-> Low(Hk(16)),
      hk_3v3b_mon |-> High(Hk(17)),       hk_2v5a_mon |-> Low(Hk(17)) ]

HkDigitalVoltages ==
    [ hk_3v3d_mon |-> High(Hk(18)),       hk_2v5d_mon |-> Low(Hk(18)),
      hk_1v2d_mon |-> High(Hk(19)),       hk_5vref_mon |-> Low(Hk(19)) ]

HkRawVoltages ==
    [ hk_vccd_pos_raw |-> High(Hk(20)),   hk_vclk_pos_raw |-> Low(Hk(20)),
      hk_van1_pos_raw |-> High(Hk(21)),   hk_van3_neg_mon |-> Low(Hk(21)),
      hk_van2_pos_raw |-> High(Hk(22)),   hk_vdig_raw |-> Low(Hk(22)),
      hk_ig_hi_mon |-> High(Hk(23)),      hk_ccd2_vod_mon_f |-> Low(Hk(23)) ]

HkSpaceWire ==
    [ spw_id |-> Bits(Hk(32), 24, 2),
      hk_timecode_from_spw |-> Bits(Hk(32), 16, 8),
      hk_rmap_target_status |-> Bits(Hk(32), 8, 8) ]

HkSpaceWireLink ==
    [ hk_rmap_target_indicate |-> Flag(Hk(32), 5),
      hk_spw_link_escape_error |-> Flag(Hk(32), 4),
      hk_spw_link_credit_error |-> Flag(Hk(32), 3),
      hk_spw_link_parity_error |-> Flag(Hk(32), 2),
      hk_spw_link_disconnect |-> Flag(Hk(32), 1),
      hk_spw_link_running |-> Flag(Hk(32), 0) ]

\* The setter of the op mode clears seven bits and writes four.
HkCounters ==
    [ hk_frame_counter |-> High(Hk(33)),
      hk_fpga_op_mode |-> [Bits(Hk(33), 0, 7) EXCEPT !.set = "four bits"] ]

HkBiasAndMemoryErrors ==
    [ hk_error_flag_spw_dac_on_bias_readback |-> Flag(Hk(34), 0),
      hk_error_flag_dac_off_bias_readback_error |-> Flag(Hk(34), 1),
      hk_error_flag_ext_sdram_edac_corr_err_error |-> Flag(Hk(34), 5),
      hk_error_flag_ext_sdram_edac_uncorr_err_error |-> Flag(Hk(34), 6) ]

HkLinkErrors ==
    [ hk_error_flag_spw_link_disconnect_error |-> Flag(Hk(34), 7),
      hk_error_flag_spw_link_escape_error |-> Flag(Hk(34), 8),
      hk_error_flag_spw_link_credit_error |-> Flag(Hk(34), 9),
      hk_error_flag_spw_link_parity_error |-> Flag(Hk(34), 10) ]

HkVersions ==
    [ hk_fpga_minor_version |-> Bits(Hk(35), 0, 8),
      hk_fpga_major_version |-> Bits(Hk(35), 8, 4),
      hk_board_id |-> Bits(Hk(35), 12, 5),
      cmic_corr |-> Bits(Hk(35), 17, 12) ]

HkFullSun ==
    [ hk_ccd2_f_pix_full_sun |-> High(Hk(36)), hk_ccd2_e_pix_full_sun |-> Low(Hk(36)),
      hk_ccd4_f_pix_full_sun |-> High(Hk(37)), hk_ccd4_e_pix_full_sun |-> Low(Hk(37)) ]

HkFields ==
    HkTemperatures @@ HkReg8to10Voltages @@ HkReg11to13Voltages @@ HkClockVoltages
    @@ HkBoardVoltages @@ HkDigitalVoltages @@ HkRawVoltages @@ HkSpaceWire
    @@ HkSpaceWireLink @@ HkCounters @@ HkBiasAndMemoryErrors @@ HkLinkErrors
    @@ HkVersions @@ HkFullSun

AllFields == CfgFields @@ HkFields

----------------------------------------------------------------------------
(* Commands: the address each command function puts into its command.      *)

ReadCmdReg0to9 == [n \in 0 .. 9 |-> CfgAddr(n)]
ReadCmdReg14to25 == [n \in 14 .. 25 |-> CfgAddr(n)]
WriteCmdReg0to9 == [n \in 0 .. 9 |-> CfgAddr(n)]
WriteCmdReg14to25 == [n \in 14 .. 25 |-> CfgAddr(n)]
ReadCmdHk4to12 == [n \in 4 .. 12 |-> HkAddr(n)]
ReadCmdHk13to23 == [n \in 13 .. 23 |-> HkAddr(n)]
ReadCmdHk32to37 == [n \in 32 .. 37 |-> HkAddr(n)]

\* The sync call of a register: its place in the mirror, the addresses of its
\* read and its write command.
SyncReg0to6 ==
    [n \in 0 .. 6 |-> [local |-> Cfg(n), read |-> ReadCmdReg0to9[n],
                       write |-> WriteCmdReg0to9[n]]]
SyncReg7to9 ==
    [n \in 7 .. 9 |-> [local |-> Cfg(n), read |-> ReadCmdReg0to9[n],
                       write |-> WriteCmdReg0to9[n]]]
SyncReg14to20 ==
    [n \in 14 .. 20 |-> [local |-> Cfg(n), read |-> ReadCmdReg14to25[n],
                         write |-> WriteCmdReg14to25[n]]]
SyncReg21to25 ==
    [n \in 21 .. 25 |-> [local |-> Cfg(n), read |-> ReadCmdReg14to25[n],
                         write |-> WriteCmdReg14to25[n]]]

CfgSyncs == SyncReg0to6 @@ SyncReg7to9 @@ SyncReg14to20 @@ SyncReg21to25

\* smile_fee_sync_hk_regs: its reads, in the order in which it asks for them.
HkSyncs ==
    [i \in 1 .. 9 |-> [local |-> Hk(i + 3), read |-> ReadCmdHk4to12[i + 3]]]
    \o [i \in 1 .. 11 |-> [local |-> Hk(i + 12), read |-> ReadCmdHk13to23[i + 12]]]
    \o [i \in 1 .. 6 |-> [local |-> Hk(i + 31), read |-> ReadCmdHk32to37[i + 31]]]

----------------------------------------------------------------------------
(* The register that the sync call of a field transfers.                   *)

In(reg, fields) == [f \in fields |-> reg]

SyncFields0to2 ==
    In(0, {"vstart", "vend"})
    @@ In(1, {"charge_injection_width", "charge_injection_gap"})
    @@ In(2, {"parallel_toi_period", "parallel_clk_overlap",
              "ccd_readout_1", "ccd_readout_2"})

SyncFields3and4 ==
    In(3, {"n_final_dump", "h_end", "charge_injection", "tri_level_clk",
           "img_clk_dir", "reg_clk_dir"})
    @@ In(4, {"packet_size", "cdsclp_hi", "adc_pwrdn_en"})

SyncFields5 ==
    In(5, {"trap_pumping_dwell_term", "sync_sel", "sel_pwr_sync", "use_pwr_sync",
           "readout_node_sel", "digitise_en", "correction_bypass", "dg_en",
           "correction_type", "edu_wandering_mask_en"})

SyncFields6to9 ==
    In(6, {"full_sun_pix_threshold", "pix_offset"})
    @@ In(7, {"readout_pause_counter", "trap_pumping_shuffle_counter"})
    @@ In(8, {"int_sync_period", "cdsclp_lo"})
    @@ In(9, {"rowclp_hi"})

SyncFields14to20 ==
    In(14, {"ccd2_vod_config"}) @@ In(15, {"ccd4_vod_config"})
    @@ In(16, {"ccd2_vrd_config"}) @@ In(17, {"ccd4_vrd_config"})
    @@ In(18, {"ccd2_vgd_config"}) @@ In(19, {"ccd4_vgd_config"})
    @@ In(20, {"ccd_vog_config"})

SyncFields21to25 ==
    In(21, {"rowclp_lo", "h_start", "ccd_mode_config", "ccd_mode2_config",
            "event_detection", "clear_error_flag"})
    @@ In(22, {"ccd2_e_pix_threshold", "ccd2_f_pix_threshold"})
    @@ In(23, {"ccd4_e_pix_threshold", "ccd4_f_pix_threshold"})
    @@ In(24, {"event_pkt_limit"})
    @@ In(25, {"execute_op"})

FieldSyncs ==
    SyncFields0to2 @@ SyncFields3and4 @@ SyncFields5 @@ SyncFields6to9
    @@ SyncFields14to20 @@ SyncFields21to25
=============================================================================
