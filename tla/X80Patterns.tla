------------------------------ MODULE X80Patterns ------------------------------
(***************************************************************************)
(* The instruction table of the 8080/Z80 target (x80/gen.c): one array     *)
(* pattern_<mnemonic>_<operand count> per mnemonic and number of operands, *)
(* each an ordered list of instruction_pattern_t.  The name of an array    *)
(* stands for every mnemonic whose entry of x80_patterns points to it.     *)
(* The processors are numbered as cpu_type_t numbers them, because a       *)
(* pattern is valid for an interval of them.                               *)
(***************************************************************************)
LOCAL INSTANCE Naturals
LOCAL INSTANCE TLC

CPU_DP2200 == 1
CPU_DP2200V2 == 2
CPU_8008 == 3
CPU_8080 == 4
CPU_8085 == 5
CPU_Z80 == 6
CPU_R800 == 8
CPU_GBZ80 == 12

\* The bounds of intervals that gen.c names.
CPU_ANY == CPU_DP2200
CPU_ALL == CPU_GBZ80
CPU_NOT_8080 == CPU_8080 - 1
CPU_NOT_GBZ80 == CPU_GBZ80 - 1

\* A pattern with the actions of the 8008 and its ancestors, and one without.
PatternMcs8(min_cpu, max_cpu, constraint, action, mcs8_action) ==
  [min_cpu |-> min_cpu, max_cpu |-> max_cpu, constraint |-> constraint,
   action |-> action, mcs8_action |-> mcs8_action]

Pattern(min_cpu, max_cpu, constraint, action) ==
  PatternMcs8(min_cpu, max_cpu, constraint, action, <<>>)

\* pattern_i8080_aci_1 to pattern_i8080_dad_1.
Patterns_i8080_aci_to_i8080_dad ==
  [ i8080_aci_1 |-> << PatternMcs8(CPU_ANY, CPU_ALL, <<"I8">>, <<<<"PUT", \hCE>>, <<"I8_0">>>>, <<<<"PUT", \h0C>>, <<"I8_0">>>>) >>,
    i8080_adc_1 |-> << PatternMcs8(CPU_ANY, CPU_ALL, <<"IR8">>, <<<<"R0", \h88>>>>, <<<<"R0", \h88>>>>) >>,
    i8080_add_1 |-> << PatternMcs8(CPU_ANY, CPU_ALL, <<"IR8">>, <<<<"R0", \h80>>>>, <<<<"R0", \h80>>>>) >>,
    i8080_adi_1 |-> << PatternMcs8(CPU_ANY, CPU_ALL, <<"I8">>, <<<<"PUT", \hC6>>, <<"I8_0">>>>, <<<<"PUT", \h04>>, <<"I8_0">>>>) >>,
    i8080_ana_1 |-> << PatternMcs8(CPU_ANY, CPU_ALL, <<"IR8">>, <<<<"R0", \hA0>>>>, <<<<"R0", \hA0>>>>) >>,
    i8080_ani_1 |-> << PatternMcs8(CPU_ANY, CPU_ALL, <<"I8">>, <<<<"PUT", \hE6>>, <<"I8_0">>>>, <<<<"PUT", \h24>>, <<"I8_0">>>>) >>,
    i8080_arhl_0 |-> << Pattern(CPU_8085, CPU_8085, <<>>, <<<<"PUT", \h10>>>>) >>,
    i8080_c_cc_1 |-> << PatternMcs8(CPU_ANY, CPU_ALL, <<"UI16">>, <<<<"COND", \hC4>>, <<"I16_0">>>>, <<<<"COND", \h42>>, <<"I16_0">>>>) >>,
    i8080_call_1 |-> << PatternMcs8(CPU_ANY, CPU_ALL, <<"UI16">>, <<<<"PUT", \hCD>>, <<"I16_0">>>>, <<<<"PUT", \h46>>, <<"I16_0">>>>) >>,
    i8080_cma_0 |-> << Pattern(CPU_8080, CPU_ALL, <<>>, <<<<"PUT", \h2F>>>>) >>,
    i8080_cmc_0 |-> << Pattern(CPU_8080, CPU_ALL, <<>>, <<<<"PUT", \h3F>>>>) >>,
    i8080_cmp_1 |-> << PatternMcs8(CPU_ANY, CPU_ALL, <<"IR8">>, <<<<"R0", \hB8>>>>, <<<<"R0", \hB8>>>>) >>,
    i8080_cpi_1 |-> << PatternMcs8(CPU_ANY, CPU_ALL, <<"I8">>, <<<<"PUT", \hFE>>, <<"I8_0">>>>, <<<<"PUT", \h3C>>, <<"I8_0">>>>) >>,
    i8080_daa_0 |-> << Pattern(CPU_8080, CPU_ALL, <<>>, <<<<"PUT", \h27>>>>) >>,
    i8080_dad_1 |-> << Pattern(CPU_8080, CPU_ALL, <<"IR16">>, <<<<"R0S3", \h09>>>>) >> ]

\* pattern_i8080_dcr_1 to pattern_i8080_jmp_1.
Patterns_i8080_dcr_to_i8080_jmp ==
  [ i8080_dcr_1 |-> <<
        PatternMcs8(CPU_8008, CPU_NOT_8080, <<"IR8_NOTA">>, <<>>, <<<<"R0S3", \h01>>>>),
        PatternMcs8(CPU_8080, CPU_ALL, <<"IR8">>, <<<<"R0S3", \h05>>>>, <<<<"R0S3", \h00>>>>) >>,
    i8080_dcx_1 |-> << Pattern(CPU_8080, CPU_ALL, <<"IR16">>, <<<<"R0S3", \h0B>>>>) >>,
    i8080_di_0 |-> <<
        PatternMcs8(CPU_DP2200V2, CPU_DP2200V2, <<>>, <<>>, <<<<"PUT", \h20>>>>),
        Pattern(CPU_8080, CPU_ALL, <<>>, <<<<"PUT", \hF3>>>>) >>,
    i8080_dsub_0 |-> << Pattern(CPU_8085, CPU_8085, <<>>, <<<<"PUT", \h08>>>>) >>,
    i8080_ei_0 |-> <<
        PatternMcs8(CPU_DP2200V2, CPU_DP2200V2, <<>>, <<>>, <<<<"PUT", \h28>>>>),
        Pattern(CPU_8080, CPU_ALL, <<>>, <<<<"PUT", \hFB>>>>) >>,
    i8080_hlt_0 |-> << PatternMcs8(CPU_ANY, CPU_ALL, <<>>, <<<<"PUT", \h76>>>>, <<<<"PUT", \hFF>>>>) >>,
    i8080_in_1 |-> <<
        PatternMcs8(CPU_8008, CPU_NOT_8080, <<"UI3">>, <<>>, <<<<"I0S1", \h41>>>>),
        Pattern(CPU_8080, CPU_NOT_GBZ80, <<"UI8">>, <<<<"PUT", \hDB>>, <<"I8_0">>>>) >>,
    i8080_inr_1 |-> <<
        PatternMcs8(CPU_8008, CPU_NOT_8080, <<"IR8_NOTA">>, <<>>, <<<<"R0S3", \h00>>>>),
        Pattern(CPU_8080, CPU_ALL, <<"IR8">>, <<<<"R0S3", \h04>>>>) >>,
    i8080_inx_1 |-> << Pattern(CPU_8080, CPU_ALL, <<"IR16">>, <<<<"R0S3", \h03>>>>) >>,
    i8080_j_cc_1 |-> << PatternMcs8(CPU_ANY, CPU_ALL, <<"UI16">>, <<<<"COND", \hC2>>, <<"I16_0">>>>, <<<<"COND", \h40>>, <<"I16_0">>>>) >>,
    i8080_jmp_1 |-> << PatternMcs8(CPU_ANY, CPU_ALL, <<"UI16">>, <<<<"PUT", \hC3>>, <<"I16_0">>>>, <<<<"PUT", \h44>>, <<"I16_0">>>>) >> ]

\* pattern_i8080_jnui_1 to pattern_i8080_ori_1.
Patterns_i8080_jnui_to_i8080_ori ==
  [ i8080_jnui_1 |-> << Pattern(CPU_8085, CPU_8085, <<"UI16">>, <<<<"PUT", \hDD>>, <<"I16_0">>>>) >>,
    i8080_jui_1 |-> << Pattern(CPU_8085, CPU_8085, <<"UI16">>, <<<<"PUT", \hFD>>, <<"I16_0">>>>) >>,
    i8080_lda_1 |-> << Pattern(CPU_8080, CPU_NOT_GBZ80, <<"UI16">>, <<<<"PUT", \h3A>>, <<"I16_0">>>>) >>,
    i8080_ldax_1 |-> << Pattern(CPU_8080, CPU_ALL, <<"IMR16">>, <<<<"R0S3", \h0A>>>>) >>,
    i8080_ldhi_1 |-> << Pattern(CPU_8085, CPU_8085, <<"UI8">>, <<<<"PUT", \h28>>, <<"I8_0">>>>) >>,
    i8080_ldsi_1 |-> << Pattern(CPU_8085, CPU_8085, <<"UI8">>, <<<<"PUT", \h38>>, <<"I8_0">>>>) >>,
    i8080_lhld_1 |-> << Pattern(CPU_8080, CPU_NOT_GBZ80, <<"UI16">>, <<<<"PUT", \h2A>>, <<"I16_0">>>>) >>,
    i8080_lhlx_0 |-> << Pattern(CPU_8085, CPU_8085, <<>>, <<<<"PUT", \hED>>>>) >>,
    i8080_lxi_2 |-> << Pattern(CPU_8080, CPU_ALL, <<"IR16", "I16">>, <<<<"R0S3", \h01>>, <<"I16_1">>>>) >>,
    i8080_mov_2 |-> <<
        PatternMcs8(CPU_ANY, CPU_NOT_8080, <<"IR8", "IR8_NOT_SAME">>, <<<<"R0R1", \h40>>>>, <<<<"R0R1", \hC0>>>>),
        Pattern(CPU_8080, CPU_ALL, <<"IR8", "IR8_NOT_BOTH_M">>, <<<<"R0R1", \h40>>>>) >>,
    i8080_mvi_2 |-> << PatternMcs8(CPU_ANY, CPU_ALL, <<"IR8", "I8">>, <<<<"R0S3", \h06>>, <<"I8_1">>>>, <<<<"R0S3", \h06>>, <<"I8_1">>>>) >>,
    i8080_nop_0 |-> << PatternMcs8(CPU_ANY, CPU_ALL, <<>>, <<<<"PUT", \h00>>>>, <<<<"PUT", \hC0>>>>) >>,
    i8080_ora_1 |-> << PatternMcs8(CPU_ANY, CPU_ALL, <<"IR8">>, <<<<"R0", \hB0>>>>, <<<<"R0", \hB0>>>>) >>,
    i8080_ori_1 |-> << PatternMcs8(CPU_ANY, CPU_ALL, <<"I8">>, <<<<"PUT", \hF6>>, <<"I8_0">>>>, <<<<"PUT", \h34>>, <<"I8_0">>>>) >> ]

\* pattern_i8080_out_1 to pattern_i8080_rlc_0.
Patterns_i8080_out_to_i8080_rlc ==
  [ i8080_out_1 |-> <<
        PatternMcs8(CPU_8008, CPU_NOT_8080, <<"UI5_GE8">>, <<>>, <<<<"I0S1", \h41>>>>),
        Pattern(CPU_8080, CPU_NOT_GBZ80, <<"UI8">>, <<<<"PUT", \hD3>>, <<"I8_0">>>>) >>,
    i8080_pchl_0 |-> << Pattern(CPU_8080, CPU_ALL, <<>>, <<<<"PUT", \hE9>>>>) >>,
    i8080_pop_1 |-> <<
        PatternMcs8(CPU_DP2200V2, CPU_DP2200V2, <<"HREG">>, <<>>, <<<<"PUT", \h30>>>>),
        Pattern(CPU_8080, CPU_ALL, <<"IR16_NOSP">>, <<<<"R0S3", \hC1>>>>),
        Pattern(CPU_8080, CPU_ALL, <<"PSWREG">>, <<<<"PUT", \hF1>>>>) >>,
    i8080_push_1 |-> <<
        PatternMcs8(CPU_DP2200V2, CPU_DP2200V2, <<"HREG">>, <<>>, <<<<"PUT", \h38>>>>),
        Pattern(CPU_ANY, CPU_ALL, <<"IR16_NOSP">>, <<<<"R0S3", \hC5>>>>),
        Pattern(CPU_ANY, CPU_ALL, <<"PSWREG">>, <<<<"PUT", \hF5>>>>) >>,
    i8080_ral_0 |-> << PatternMcs8(CPU_8008, CPU_ALL, <<>>, <<<<"PUT", \h17>>>>, <<<<"PUT", \h12>>>>) >>,
    i8080_rar_0 |-> << PatternMcs8(CPU_ANY, CPU_ALL, <<>>, <<<<"PUT", \h1F>>>>, <<<<"PUT", \h1A>>>>) >>,
    i8080_r_cc_0 |-> << PatternMcs8(CPU_ANY, CPU_ALL, <<>>, <<<<"COND", \hC0>>>>, <<<<"COND", \h03>>>>) >>,
    i8080_rdel_0 |-> << Pattern(CPU_8085, CPU_8085, <<>>, <<<<"PUT", \h18>>>>) >>,
    i8080_ret_0 |-> << PatternMcs8(CPU_ANY, CPU_ALL, <<>>, <<<<"PUT", \hC9>>>>, <<<<"PUT", \h07>>>>) >>,
    i8080_rim_0 |-> << Pattern(CPU_8085, CPU_8085, <<>>, <<<<"PUT", \h20>>>>) >>,
    i8080_rlc_0 |-> << PatternMcs8(CPU_ANY, CPU_ALL, <<>>, <<<<"PUT", \h07>>>>, <<<<"PUT", \h02>>>>) >> ]

\* pattern_i8080_rrc_0 to pattern_i8080_xchg_0.
Patterns_i8080_rrc_to_i8080_xchg ==
  [ i8080_rrc_0 |-> << PatternMcs8(CPU_ANY, CPU_ALL, <<>>, <<<<"PUT", \h0F>>>>, <<<<"PUT", \h0A>>>>) >>,
    i8080_rst_1 |-> << PatternMcs8(CPU_8008, CPU_ALL, <<"UI3">>, <<<<"I0S3", \hC7>>>>, <<<<"I0S3", \h05>>>>) >>,
    i8080_rstv_0 |-> << Pattern(CPU_8085, CPU_8085, <<>>, <<<<"PUT", \hCB>>>>) >>,
    i8080_sbb_1 |-> << PatternMcs8(CPU_ANY, CPU_ALL, <<"IR8">>, <<<<"R0", \h98>>>>, <<<<"R0", \h98>>>>) >>,
    i8080_sbi_1 |-> << PatternMcs8(CPU_ANY, CPU_ALL, <<"I8">>, <<<<"PUT", \hDE>>, <<"I8_0">>>>, <<<<"PUT", \h2C>>, <<"I8_0">>>>) >>,
    i8080_shld_1 |-> << Pattern(CPU_8080, CPU_NOT_GBZ80, <<"UI16">>, <<<<"PUT", \h22>>, <<"I16_0">>>>) >>,
    i8080_shlx_0 |-> << Pattern(CPU_8085, CPU_8085, <<>>, <<<<"PUT", \hD9>>>>) >>,
    i8080_sim_0 |-> << Pattern(CPU_8085, CPU_8085, <<>>, <<<<"PUT", \h30>>>>) >>,
    i8080_sphl_0 |-> << Pattern(CPU_8080, CPU_ALL, <<>>, <<<<"PUT", \hF9>>>>) >>,
    i8080_sta_1 |-> << Pattern(CPU_8080, CPU_NOT_GBZ80, <<"UI16">>, <<<<"PUT", \h32>>, <<"I16_0">>>>) >>,
    i8080_stax_1 |-> << Pattern(CPU_8080, CPU_ALL, <<"IMR16">>, <<<<"R0S3", \h02>>>>) >>,
    i8080_stc_0 |-> << Pattern(CPU_8080, CPU_ALL, <<>>, <<<<"PUT", \h37>>>>) >>,
    i8080_sub_1 |-> << PatternMcs8(CPU_ANY, CPU_ALL, <<"IR8">>, <<<<"R0", \h90>>>>, <<<<"R0", \h90>>>>) >>,
    i8080_sui_1 |-> << PatternMcs8(CPU_ANY, CPU_ALL, <<"I8">>, <<<<"PUT", \hD6>>, <<"I8_0">>>>, <<<<"PUT", \h14>>, <<"I8_0">>>>) >>,
    i8080_xchg_0 |-> << Pattern(CPU_8080, CPU_NOT_GBZ80, <<>>, <<<<"PUT", \hEB>>>>) >> ]

\* pattern_i8080_xra_1 to pattern_z80_and_2.
Patterns_i8080_xra_to_z80_and ==
  [ i8080_xra_1 |-> << PatternMcs8(CPU_ANY, CPU_ALL, <<"IR8">>, <<<<"R0", \hA8>>>>, <<<<"R0", \hA8>>>>) >>,
    i8080_xri_1 |-> << PatternMcs8(CPU_ANY, CPU_ALL, <<"I8">>, <<<<"PUT", \hEE>>, <<"I8_0">>>>, <<<<"PUT", \h2C>>, <<"I8_0">>>>) >>,
    i8080_xthl_0 |-> << Pattern(CPU_8080, CPU_NOT_GBZ80, <<>>, <<<<"PUT", \hE3>>>>) >>,
    z80_adc_2 |-> <<
        PatternMcs8(CPU_ANY, CPU_ALL, <<"AREG", "ZR8">>, <<<<"R1", \h88>>>>, <<<<"R0", \h88>>>>),
        PatternMcs8(CPU_ANY, CPU_ALL, <<"AREG", "ZM">>, <<<<"PUT", \h8E>>>>, <<<<"PUT", \h8F>>>>),
        PatternMcs8(CPU_ANY, CPU_ALL, <<"AREG", "I8">>, <<<<"PUT", \hCE>>, <<"I8_1">>>>, <<<<"PUT", \h0C>>, <<"I8_0">>>>),
        Pattern(CPU_Z80, CPU_NOT_GBZ80, <<"HLREG", "ZR16_NOPREF">>, <<<<"PUT", \hED>>, <<"R1S3", \h4A>>>>) >>,
    z80_add_2 |-> <<
        PatternMcs8(CPU_ANY, CPU_ALL, <<"AREG", "ZR8">>, <<<<"R1", \h80>>>>, <<<<"R0", \h80>>>>),
        PatternMcs8(CPU_ANY, CPU_ALL, <<"AREG", "ZM">>, <<<<"PUT", \h86>>>>, <<<<"PUT", \h87>>>>),
        PatternMcs8(CPU_ANY, CPU_ALL, <<"AREG", "I8">>, <<<<"PUT", \hC6>>, <<"I8_1">>>>, <<<<"PUT", \h04>>, <<"I8_0">>>>),
        Pattern(CPU_8080, CPU_ALL, <<"ZIDX", "ZR16">>, <<<<"R1S3", \h09>>>>),
        Pattern(CPU_GBZ80, CPU_ALL, <<"SPREG", "SI8">>, <<<<"PUT", \hE8>>, <<"I8_1">>>>) >>,
    z80_and_1 |-> <<
        PatternMcs8(CPU_ANY, CPU_ALL, <<"ZR8">>, <<<<"R0", \hA0>>>>, <<<<"R0", \hA0>>>>),
        PatternMcs8(CPU_ANY, CPU_ALL, <<"ZM">>, <<<<"PUT", \hA6>>>>, <<<<"PUT", \hA7>>>>),
        PatternMcs8(CPU_ANY, CPU_ALL, <<"I8">>, <<<<"PUT", \hE6>>, <<"I8_0">>>>, <<<<"PUT", \h24>>, <<"I8_0">>>>) >>,
    z80_and_2 |-> <<
        PatternMcs8(CPU_ANY, CPU_ALL, <<"AREG", "ZR8">>, <<<<"R1", \hA0>>>>, <<<<"R1", \hA0>>>>),
        PatternMcs8(CPU_ANY, CPU_ALL, <<"AREG", "ZM">>, <<<<"PUT", \hA6>>>>, <<<<"PUT", \hA7>>>>),
        PatternMcs8(CPU_ANY, CPU_ALL, <<"AREG", "I8">>, <<<<"PUT", \hE6>>, <<"I8_1">>>>, <<<<"PUT", \h24>>, <<"I8_1">>>>) >> ]

\* pattern_z80_bit_2 to pattern_z80_dec_1.
Patterns_z80_bit_to_z80_dec ==
  [ z80_bit_2 |-> <<
        Pattern(CPU_Z80, CPU_ALL, <<"UI3", "ZR8_NOPREF">>, <<<<"PUT", \hCB>>, <<"I0R1", \h40>>>>),
        Pattern(CPU_Z80, CPU_ALL, <<"UI3", "ZM">>, <<<<"PUT", \hCB>>, <<"I0S3", \h46>>>>) >>,
    z80_call_1 |-> << PatternMcs8(CPU_ANY, CPU_ALL, <<"UI16">>, <<<<"PUT", \hCD>>, <<"I16_0">>>>, <<<<"PUT", \h46>>, <<"I16_0">>>>) >>,
    z80_call_2 |-> << PatternMcs8(CPU_ANY, CPU_ALL, <<"COND", "UI16">>, <<<<"COND0S3", \hC4>>, <<"I16_1">>>>, <<<<"COND0S3", \h42>>, <<"I16_0">>>>) >>,
    z80_cp_1 |-> <<
        PatternMcs8(CPU_ANY, CPU_ALL, <<"ZR8">>, <<<<"R0", \hB8>>>>, <<<<"R0", \hB8>>>>),
        PatternMcs8(CPU_ANY, CPU_ALL, <<"ZM">>, <<<<"PUT", \hBE>>>>, <<<<"PUT", \hBF>>>>),
        PatternMcs8(CPU_ANY, CPU_ALL, <<"I8">>, <<<<"PUT", \hFE>>, <<"I8_0">>>>, <<<<"PUT", \h3C>>, <<"I8_0">>>>) >>,
    z80_cp_2 |-> <<
        PatternMcs8(CPU_ANY, CPU_ALL, <<"AREG", "ZR8">>, <<<<"R1", \hB8>>>>, <<<<"R1", \hB8>>>>),
        PatternMcs8(CPU_ANY, CPU_ALL, <<"AREG", "ZM">>, <<<<"PUT", \hBE>>>>, <<<<"PUT", \hBF>>>>),
        PatternMcs8(CPU_ANY, CPU_ALL, <<"AREG", "I8">>, <<<<"PUT", \hFE>>, <<"I8_1">>>>, <<<<"PUT", \h3C>>, <<"I8_0">>>>) >>,
    z80_cpd_0 |-> << Pattern(CPU_Z80, CPU_NOT_GBZ80, <<>>, <<<<"PUT", \hED>>, <<"PUT", \hA9>>>>) >>,
    z80_cpdr_0 |-> << Pattern(CPU_Z80, CPU_NOT_GBZ80, <<>>, <<<<"PUT", \hED>>, <<"PUT", \hB9>>>>) >>,
    z80_cpi_0 |-> << Pattern(CPU_Z80, CPU_NOT_GBZ80, <<>>, <<<<"PUT", \hED>>, <<"PUT", \hA1>>>>) >>,
    z80_cpir_0 |-> << Pattern(CPU_Z80, CPU_NOT_GBZ80, <<>>, <<<<"PUT", \hED>>, <<"PUT", \hB1>>>>) >>,
    z80_dec_1 |-> <<
        PatternMcs8(CPU_8008, CPU_NOT_8080, <<"ZR8_NOTA">>, <<>>, <<<<"R0S3", \h01>>>>),
        Pattern(CPU_8080, CPU_ALL, <<"ZR8">>, <<<<"R0S3", \h05>>>>),
        PatternMcs8(CPU_8008, CPU_ALL, <<"ZM">>, <<<<"PUT", \h35>>>>, <<<<"R0S3", \h39>>>>),
        Pattern(CPU_8080, CPU_ALL, <<"ZR16">>, <<<<"R0S3", \h0B>>>>) >> ]

\* pattern_z80_djnz_1 to pattern_z80_indr_0.
Patterns_z80_djnz_to_z80_indr ==
  [ z80_djnz_1 |-> << Pattern(CPU_Z80, CPU_ALL, <<"REL8">>, <<<<"PUT", \h10>>, <<"R8_0">>>>) >>,
    z80_ex_2 |-> <<
        Pattern(CPU_ANY, CPU_NOT_GBZ80, <<"DEREG", "HLREG">>, <<<<"PUT", \hEB>>>>),
        Pattern(CPU_ANY, CPU_NOT_GBZ80, <<"HLREG", "DEREG">>, <<<<"PUT", \hEB>>>>),
        Pattern(CPU_ANY, CPU_NOT_GBZ80, <<"SPMEM", "ZIDX">>, <<<<"PUT", \hE3>>>>),
        Pattern(CPU_ANY, CPU_NOT_GBZ80, <<"ZIDX", "SPMEM">>, <<<<"PUT", \hE3>>>>),
        Pattern(CPU_Z80, CPU_ALL, <<"AFREG", "AF2REG">>, <<<<"PUT", \h08>>>>),
        Pattern(CPU_Z80, CPU_ALL, <<"AF2REG", "AFREG">>, <<<<"PUT", \h08>>>>) >>,
    z80_exx_0 |-> << Pattern(CPU_Z80, CPU_ALL, <<>>, <<<<"PUT", \hD9>>>>) >>,
    z80_im_1 |-> <<
        Pattern(CPU_Z80, CPU_NOT_GBZ80, <<"EQ0">>, <<<<"PUT", \hED>>, <<"PUT", \h46>>>>),
        Pattern(CPU_Z80, CPU_NOT_GBZ80, <<"EQ1">>, <<<<"PUT", \hED>>, <<"PUT", \h56>>>>),
        Pattern(CPU_Z80, CPU_NOT_GBZ80, <<"EQ2">>, <<<<"PUT", \hED>>, <<"PUT", \h5E>>>>) >>,
    z80_in_1 |-> << Pattern(CPU_Z80, CPU_NOT_GBZ80, <<"CMEM">>, <<<<"PUT", \hED>>, <<"PUT", \h70>>>>) >>,
    z80_in_2 |-> <<
        PatternMcs8(CPU_8008, CPU_NOT_8080, <<"AREG", "ZMI3">>, <<>>, <<<<"I1S1", \h41>>>>),
        Pattern(CPU_8080, CPU_NOT_GBZ80, <<"AREG", "ZMI8">>, <<<<"PUT", \hDB>>, <<"I8_1">>>>),
        Pattern(CPU_8080, CPU_NOT_GBZ80, <<"ZR8_NOPREF", "CMEM">>, <<<<"PUT", \hED>>, <<"R0S3", \h40>>>>) >>,
    z80_inc_1 |-> <<
        PatternMcs8(CPU_8008, CPU_NOT_8080, <<"ZR8_NOTA">>, <<>>, <<<<"R0S3", \h00>>>>),
        Pattern(CPU_8080, CPU_ALL, <<"ZR8">>, <<<<"R0S3", \h04>>>>),
        PatternMcs8(CPU_8008, CPU_ALL, <<"ZM">>, <<<<"PUT", \h34>>>>, <<<<"PUT", \h38>>>>),
        Pattern(CPU_8080, CPU_ALL, <<"ZR16">>, <<<<"R0S3", \h03>>>>) >>,
    z80_ind_0 |-> << Pattern(CPU_Z80, CPU_NOT_GBZ80, <<>>, <<<<"PUT", \hED>>, <<"PUT", \hAA>>>>) >>,
    z80_indr_0 |-> << Pattern(CPU_Z80, CPU_NOT_GBZ80, <<>>, <<<<"PUT", \hED>>, <<"PUT", \hBA>>>>) >> ]

\* pattern_z80_ini_0 to pattern_z80_jr_2.
Patterns_z80_ini_to_z80_jr ==
  [ z80_ini_0 |-> << Pattern(CPU_Z80, CPU_NOT_GBZ80, <<>>, <<<<"PUT", \hED>>, <<"PUT", \hA2>>>>) >>,
    z80_inir_0 |-> << Pattern(CPU_Z80, CPU_NOT_GBZ80, <<>>, <<<<"PUT", \hED>>, <<"PUT", \hB2>>>>) >>,
    z80_jp_1 |-> <<
        PatternMcs8(CPU_ANY, CPU_ALL, <<"UI16">>, <<<<"PUT", \hC3>>, <<"I16_0">>>>, <<<<"PUT", \h44>>, <<"I16_0">>>>),
        Pattern(CPU_8080, CPU_ALL, <<"ZMIDX">>, <<<<"PUT", \hE9>>>>) >>,
    z80_jp_2 |-> << PatternMcs8(CPU_ANY, CPU_ALL, <<"COND", "UI16">>, <<<<"COND0S3", \hC2>>, <<"I16_1">>>>, <<<<"COND0S3", \h40>>, <<"I16_1">>>>) >>,
    z80_jr_1 |-> << Pattern(CPU_Z80, CPU_ALL, <<"REL8">>, <<<<"PUT", \h18>>, <<"R8_0">>>>) >>,
    z80_jr_2 |-> << Pattern(CPU_Z80, CPU_ALL, <<"COND2", "REL8">>, <<<<"COND0S3", \h20>>, <<"R8_1">>>>) >> ]

\* pattern_z80_ld_2.
Patterns_z80_ld ==
  [ z80_ld_2 |-> <<
        PatternMcs8(CPU_ANY, CPU_NOT_8080, <<"ZR8", "ZR8_NOT_SAME">>, <<<<"R0R1", \h40>>>>, <<<<"R0R1", \hC0>>>>),
        Pattern(CPU_8080, CPU_ALL, <<"ZR8", "ZR8">>, <<<<"R0R1", \h40>>>>),
        PatternMcs8(CPU_ANY, CPU_ALL, <<"ZR8_NOPREF", "ZM">>, <<<<"R0S3", \h46>>>>, <<<<"R0S3", \hC7>>>>),
        PatternMcs8(CPU_ANY, CPU_ALL, <<"ZM", "ZR8_NOPREF">>, <<<<"R1", \h70>>>>, <<<<"R0S3", \hF8>>>>),
        Pattern(CPU_8080, CPU_ALL, <<"AREG", "ZMR16">>, <<<<"R1S3", \h0A>>>>),
        Pattern(CPU_8080, CPU_ALL, <<"ZMR16", "AREG">>, <<<<"R0S3", \h02>>>>),
        Pattern(CPU_GBZ80, CPU_ALL, <<"ZMI8_HIGH", "AREG">>, <<<<"PUT", \hE0>>, <<"I8_0">>>>),
        Pattern(CPU_GBZ80, CPU_ALL, <<"AREG", "ZMI8_HIGH">>, <<<<"PUT", \hF0>>, <<"I8_1">>>>),
        Pattern(CPU_GBZ80, CPU_ALL, <<"ZMI16", "AREG">>, <<<<"PUT", \hEA>>, <<"I16_0">>>>),
        Pattern(CPU_GBZ80, CPU_ALL, <<"AREG", "ZMI16">>, <<<<"PUT", \hFA>>, <<"I16_1">>>>),
        Pattern(CPU_8080, CPU_NOT_GBZ80, <<"AREG", "ZMI16">>, <<<<"PUT", \h3A>>, <<"I16_1">>>>),
        Pattern(CPU_8080, CPU_NOT_GBZ80, <<"ZMI16", "AREG">>, <<<<"PUT", \h32>>, <<"I16_0">>>>),
        PatternMcs8(CPU_ANY, CPU_ALL, <<"ZR8", "I8">>, <<<<"R0S3", \h06>>, <<"I8_1">>>>, <<<<"R0S3", \h06>>, <<"I8_1">>>>),
        PatternMcs8(CPU_ANY, CPU_ALL, <<"ZM", "I8">>, <<<<"PUT", \h36>>, <<"I8_1">>>>, <<<<"PUT", \h7E>>, <<"I8_1">>>>),
        Pattern(CPU_8080, CPU_ALL, <<"ZR16", "I16">>, <<<<"R0S3", \h01>>, <<"I16_1">>>>),
        Pattern(CPU_8080, CPU_NOT_GBZ80, <<"ZIDX", "ZMI16">>, <<<<"PUT", \h2A>>, <<"I16_1">>>>),
        Pattern(CPU_8080, CPU_NOT_GBZ80, <<"ZR16_NOPREF", "ZMI16">>, <<<<"PUT", \hED>>, <<"R0S3", \h4B>>, <<"I16_1">>>>),
        Pattern(CPU_8080, CPU_NOT_GBZ80, <<"ZMI16", "ZIDX">>, <<<<"PUT", \h22>>, <<"I16_0">>>>),
        Pattern(CPU_8080, CPU_NOT_GBZ80, <<"ZMI16", "ZR16_NOPREF">>, <<<<"PUT", \hED>>, <<"R1S3", \h43>>, <<"I16_0">>>>),
        Pattern(CPU_8080, CPU_ALL, <<"SPREG", "ZIDX">>, <<<<"PUT", \hF9>>>>),
        Pattern(CPU_Z80, CPU_NOT_GBZ80, <<"IREG", "AREG">>, <<<<"PUT", \hED>>, <<"PUT", \h47>>>>),
        Pattern(CPU_Z80, CPU_NOT_GBZ80, <<"RREG", "AREG">>, <<<<"PUT", \hED>>, <<"PUT", \h4F>>>>),
        Pattern(CPU_Z80, CPU_NOT_GBZ80, <<"AREG", "IREG">>, <<<<"PUT", \hED>>, <<"PUT", \h57>>>>),
        Pattern(CPU_Z80, CPU_NOT_GBZ80, <<"AREG", "RREG">>, <<<<"PUT", \hED>>, <<"PUT", \h5F>>>>),
        Pattern(CPU_GBZ80, CPU_ALL, <<"CMEM", "AREG">>, <<<<"PUT", \hE2>>>>),
        Pattern(CPU_GBZ80, CPU_ALL, <<"AREG", "CMEM">>, <<<<"PUT", \hF2>>>>),
        Pattern(CPU_GBZ80, CPU_ALL, <<"AREG", "ZMHLI">>, <<<<"PUT", \h2A>>>>),
        Pattern(CPU_GBZ80, CPU_ALL, <<"AREG", "ZMHLD">>, <<<<"PUT", \h3A>>>>),
        Pattern(CPU_GBZ80, CPU_ALL, <<"ZMHLI", "AREG">>, <<<<"PUT", \h22>>>>),
        Pattern(CPU_GBZ80, CPU_ALL, <<"ZMHLD", "AREG">>, <<<<"PUT", \h32>>>>),
        Pattern(CPU_GBZ80, CPU_ALL, <<"ZMI16", "SPREG">>, <<<<"PUT", \h08>>, <<"I16_0">>>>) >> ]

\* pattern_z80_ldd_0 to pattern_z80_otdr_0.
Patterns_z80_ldd_to_z80_otdr ==
  [ z80_ldd_0 |-> << Pattern(CPU_Z80, CPU_NOT_GBZ80, <<>>, <<<<"PUT", \hED>>, <<"PUT", \hA8>>>>) >>,
    z80_lddr_0 |-> << Pattern(CPU_Z80, CPU_NOT_GBZ80, <<>>, <<<<"PUT", \hED>>, <<"PUT", \hB8>>>>) >>,
    z80_ldi_0 |-> << Pattern(CPU_Z80, CPU_NOT_GBZ80, <<>>, <<<<"PUT", \hED>>, <<"PUT", \hA0>>>>) >>,
    z80_ldir_0 |-> << Pattern(CPU_Z80, CPU_NOT_GBZ80, <<>>, <<<<"PUT", \hED>>, <<"PUT", \hB0>>>>) >>,
    z80_ldhl_2 |-> << Pattern(CPU_GBZ80, CPU_ALL, <<"SPREG", "SI8">>, <<<<"PUT", \hF8>>, <<"I8_1">>>>) >>,
    z80_neg_0 |-> << Pattern(CPU_Z80, CPU_NOT_GBZ80, <<>>, <<<<"PUT", \hED>>, <<"PUT", \h44>>>>) >>,
    z80_or_1 |-> <<
        PatternMcs8(CPU_ANY, CPU_ALL, <<"ZR8">>, <<<<"R0", \hB0>>>>, <<<<"R0", \hB0>>>>),
        PatternMcs8(CPU_ANY, CPU_ALL, <<"ZM">>, <<<<"PUT", \hB6>>>>, <<<<"PUT", \hB7>>>>),
        PatternMcs8(CPU_ANY, CPU_ALL, <<"I8">>, <<<<"PUT", \hF6>>, <<"I8_0">>>>, <<<<"PUT", \h34>>, <<"I8_0">>>>) >>,
    z80_or_2 |-> <<
        PatternMcs8(CPU_ANY, CPU_ALL, <<"AREG", "ZR8">>, <<<<"R1", \hB0>>>>, <<<<"R1", \hB0>>>>),
        PatternMcs8(CPU_ANY, CPU_ALL, <<"AREG", "ZM">>, <<<<"PUT", \hB6>>>>, <<<<"PUT", \hB7>>>>),
        PatternMcs8(CPU_ANY, CPU_ALL, <<"AREG", "I8">>, <<<<"PUT", \hF6>>, <<"I8_1">>>>, <<<<"PUT", \h34>>, <<"I8_0">>>>) >>,
    z80_out_2 |-> <<
        PatternMcs8(CPU_8008, CPU_NOT_8080, <<"ZMI5_GE8", "AREG">>, <<>>, <<<<"I0S1", \h41>>>>),
        Pattern(CPU_8080, CPU_NOT_GBZ80, <<"ZMI8", "AREG">>, <<<<"PUT", \hD3>>, <<"I8_0">>>>),
        Pattern(CPU_Z80, CPU_ALL, <<"CMEM", "ZR8_NOPREF">>, <<<<"PUT", \hED>>, <<"R1S3", \h41>>>>),
        Pattern(CPU_Z80, CPU_NOT_GBZ80, <<"CMEM", "EQ0">>, <<<<"PUT", \hED>>, <<"PUT", \h71>>>>) >>,
    z80_outd_0 |-> << Pattern(CPU_Z80, CPU_NOT_GBZ80, <<>>, <<<<"PUT", \hED>>, <<"PUT", \hAB>>>>) >>,
    z80_otdr_0 |-> << Pattern(CPU_Z80, CPU_NOT_GBZ80, <<>>, <<<<"PUT", \hED>>, <<"PUT", \hBB>>>>) >> ]

\* pattern_z80_outi_0 to pattern_z80_rl_1.
Patterns_z80_outi_to_z80_rl ==
  [ z80_outi_0 |-> << Pattern(CPU_Z80, CPU_NOT_GBZ80, <<>>, <<<<"PUT", \hED>>, <<"PUT", \hA3>>>>) >>,
    z80_otir_0 |-> << Pattern(CPU_Z80, CPU_NOT_GBZ80, <<>>, <<<<"PUT", \hED>>, <<"PUT", \hB3>>>>) >>,
    z80_pop_1 |-> <<
        PatternMcs8(CPU_DP2200V2, CPU_DP2200V2, <<"HLREG">>, <<>>, <<<<"PUT", \h30>>>>),
        Pattern(CPU_8080, CPU_ALL, <<"ZR16_NOSP">>, <<<<"R0S3", \hC1>>>>),
        Pattern(CPU_8080, CPU_ALL, <<"AFREG">>, <<<<"PUT", \hF1>>>>) >>,
    z80_push_1 |-> <<
        PatternMcs8(CPU_DP2200V2, CPU_DP2200V2, <<"HREG">>, <<>>, <<<<"PUT", \h38>>>>),
        Pattern(CPU_8080, CPU_ALL, <<"ZR16_NOSP">>, <<<<"R0S3", \hC5>>>>),
        Pattern(CPU_8080, CPU_ALL, <<"AFREG">>, <<<<"PUT", \hF5>>>>) >>,
    z80_res_2 |-> <<
        Pattern(CPU_Z80, CPU_ALL, <<"UI3", "ZR8_NOPREF">>, <<<<"PUT", \hCB>>, <<"I0R1", \h80>>>>),
        Pattern(CPU_Z80, CPU_ALL, <<"UI3", "ZM">>, <<<<"PUT", \hCB>>, <<"I0S3", \h86>>>>) >>,
    z80_res_3 |-> << Pattern(CPU_Z80, CPU_ALL, <<"UI3", "ZM_NOHL", "ZR8_NOPREF">>, <<<<"PUT", \hCB>>, <<"I0R2", \h80>>>>) >>,
    z80_ret_0 |-> << PatternMcs8(CPU_ANY, CPU_ALL, <<>>, <<<<"PUT", \hC9>>>>, <<<<"PUT", \h07>>>>) >>,
    z80_ret_1 |-> << PatternMcs8(CPU_ANY, CPU_ALL, <<"COND">>, <<<<"COND0S3", \hC0>>>>, <<<<"COND0S3", \h03>>>>) >>,
    z80_reti_0 |-> <<
        Pattern(CPU_Z80, CPU_NOT_GBZ80, <<>>, <<<<"PUT", \hED>>, <<"PUT", \h4D>>>>),
        Pattern(CPU_GBZ80, CPU_ALL, <<>>, <<<<"PUT", \hD9>>>>) >>,
    z80_retn_0 |-> << Pattern(CPU_ANY, CPU_NOT_GBZ80, <<>>, <<<<"PUT", \hED>>, <<"PUT", \h45>>>>) >>,
    z80_rl_1 |-> <<
        Pattern(CPU_Z80, CPU_ALL, <<"ZR8_NOPREF">>, <<<<"PUT", \hCB>>, <<"R0", \h10>>>>),
        Pattern(CPU_Z80, CPU_ALL, <<"ZM">>, <<<<"PUT", \hCB>>, <<"PUT", \h16>>>>) >> ]

\* pattern_z80_rl_2 to pattern_z80_set_2.
Patterns_z80_rl_to_z80_set ==
  [ z80_rl_2 |-> << Pattern(CPU_Z80, CPU_ALL, <<"ZM_NOHL", "ZR8_NOPREF">>, <<<<"PUT", \hCB>>, <<"R1", \h10>>>>) >>,
    z80_rlc_1 |-> <<
        Pattern(CPU_Z80, CPU_ALL, <<"ZR8_NOPREF">>, <<<<"PUT", \hCB>>, <<"R0", \h00>>>>),
        Pattern(CPU_Z80, CPU_ALL, <<"ZM">>, <<<<"PUT", \hCB>>, <<"PUT", \h06>>>>) >>,
    z80_rlc_2 |-> << Pattern(CPU_Z80, CPU_ALL, <<"ZM_NOHL", "ZR8_NOPREF">>, <<<<"PUT", \hCB>>, <<"R1", \h00>>>>) >>,
    z80_rld_0 |-> << Pattern(CPU_Z80, CPU_NOT_GBZ80, <<>>, <<<<"PUT", \hED>>, <<"PUT", \h6F>>>>) >>,
    z80_rr_1 |-> <<
        Pattern(CPU_Z80, CPU_ALL, <<"ZR8_NOPREF">>, <<<<"PUT", \hCB>>, <<"R0", \h18>>>>),
        Pattern(CPU_Z80, CPU_ALL, <<"ZM">>, <<<<"PUT", \hCB>>, <<"PUT", \h1E>>>>) >>,
    z80_rr_2 |-> << Pattern(CPU_Z80, CPU_ALL, <<"ZM_NOHL", "ZR8_NOPREF">>, <<<<"PUT", \hCB>>, <<"R1", \h18>>>>) >>,
    z80_rrc_1 |-> <<
        Pattern(CPU_Z80, CPU_ALL, <<"ZR8_NOPREF">>, <<<<"PUT", \hCB>>, <<"R0", \h08>>>>),
        Pattern(CPU_Z80, CPU_ALL, <<"ZM">>, <<<<"PUT", \hCB>>, <<"PUT", \h0E>>>>) >>,
    z80_rrc_2 |-> << Pattern(CPU_Z80, CPU_ALL, <<"ZM_NOHL", "ZR8_NOPREF">>, <<<<"PUT", \hCB>>, <<"R1", \h08>>>>) >>,
    z80_rrd_0 |-> << Pattern(CPU_Z80, CPU_NOT_GBZ80, <<>>, <<<<"PUT", \hED>>, <<"PUT", \h67>>>>) >>,
    z80_rst_1 |-> << PatternMcs8(CPU_8008, CPU_ALL, <<"RST">>, <<<<"I0", \hC7>>>>, <<<<"I0", \h05>>>>) >>,
    z80_sbc_2 |-> <<
        PatternMcs8(CPU_ANY, CPU_ALL, <<"AREG", "ZR8">>, <<<<"R1", \h98>>>>, <<<<"R1", \h98>>>>),
        PatternMcs8(CPU_ANY, CPU_ALL, <<"AREG", "ZM">>, <<<<"PUT", \h9E>>>>, <<<<"PUT", \h9F>>>>),
        PatternMcs8(CPU_ANY, CPU_ALL, <<"AREG", "I8">>, <<<<"PUT", \hDE>>, <<"I8_1">>>>, <<<<"PUT", \h2C>>, <<"I8_0">>>>),
        Pattern(CPU_Z80, CPU_NOT_GBZ80, <<"HLREG", "ZR16_NOPREF">>, <<<<"PUT", \hED>>, <<"R1S3", \h42>>>>) >>,
    z80_set_2 |-> <<
        Pattern(CPU_Z80, CPU_ALL, <<"UI3", "ZR8_NOPREF">>, <<<<"PUT", \hCB>>, <<"I0R1", \hC0>>>>),
        Pattern(CPU_Z80, CPU_ALL, <<"UI3", "ZM">>, <<<<"PUT", \hCB>>, <<"I0S3", \hC6>>>>) >> ]

\* pattern_z80_set_3 to pattern_z80_sub_1.
Patterns_z80_set_to_z80_sub ==
  [ z80_set_3 |-> << Pattern(CPU_Z80, CPU_ALL, <<"UI3", "ZM_NOHL", "ZR8_NOPREF">>, <<<<"PUT", \hCB>>, <<"I0R2", \hC0>>>>) >>,
    z80_sla_1 |-> <<
        Pattern(CPU_Z80, CPU_ALL, <<"ZR8_NOPREF">>, <<<<"PUT", \hCB>>, <<"R0", \h20>>>>),
        Pattern(CPU_Z80, CPU_ALL, <<"ZM">>, <<<<"PUT", \hCB>>, <<"PUT", \h26>>>>) >>,
    z80_sla_2 |-> << Pattern(CPU_Z80, CPU_ALL, <<"ZM_NOHL", "ZR8_NOPREF">>, <<<<"PUT", \hCB>>, <<"R1", \h20>>>>) >>,
    z80_sll_1 |-> <<
        Pattern(CPU_Z80, CPU_ALL, <<"ZR8_NOPREF">>, <<<<"PUT", \hCB>>, <<"R0", \h30>>>>),
        Pattern(CPU_Z80, CPU_ALL, <<"ZM">>, <<<<"PUT", \hCB>>, <<"PUT", \h36>>>>) >>,
    z80_sll_2 |-> << Pattern(CPU_Z80, CPU_ALL, <<"ZM_NOHL", "ZR8_NOPREF">>, <<<<"PUT", \hCB>>, <<"R1", \h30>>>>) >>,
    z80_sra_1 |-> <<
        Pattern(CPU_Z80, CPU_ALL, <<"ZR8_NOPREF">>, <<<<"PUT", \hCB>>, <<"R0", \h28>>>>),
        Pattern(CPU_Z80, CPU_ALL, <<"ZM">>, <<<<"PUT", \hCB>>, <<"PUT", \h2E>>>>) >>,
    z80_sra_2 |-> << Pattern(CPU_Z80, CPU_ALL, <<"ZM_NOHL", "ZR8_NOPREF">>, <<<<"PUT", \hCB>>, <<"R1", \h28>>>>) >>,
    z80_srl_1 |-> <<
        Pattern(CPU_Z80, CPU_ALL, <<"ZR8_NOPREF">>, <<<<"PUT", \hCB>>, <<"R0", \h38>>>>),
        Pattern(CPU_Z80, CPU_ALL, <<"ZM">>, <<<<"PUT", \hCB>>, <<"PUT", \h3E>>>>) >>,
    z80_srl_2 |-> << Pattern(CPU_Z80, CPU_ALL, <<"ZM_NOHL", "ZR8_NOPREF">>, <<<<"PUT", \hCB>>, <<"R1", \h38>>>>) >>,
    z80_stop_1 |-> << Pattern(CPU_GBZ80, CPU_ALL, <<"UI8">>, <<<<"PUT", \h10>>, <<"I8_0">>>>) >>,
    z80_sub_1 |-> <<
        PatternMcs8(CPU_ANY, CPU_ALL, <<"ZR8">>, <<<<"R0", \h90>>>>, <<<<"R0", \h90>>>>),
        PatternMcs8(CPU_ANY, CPU_ALL, <<"ZM">>, <<<<"PUT", \h96>>>>, <<<<"R0", \h97>>>>),
        PatternMcs8(CPU_ANY, CPU_ALL, <<"I8">>, <<<<"PUT", \hD6>>, <<"I8_0">>>>, <<<<"PUT", \h14>>, <<"I8_0">>>>) >> ]

\* pattern_z80_sub_2 to pattern_r800_cmpm_2.
Patterns_z80_sub_to_r800_cmpm ==
  [ z80_sub_2 |-> <<
        PatternMcs8(CPU_ANY, CPU_ALL, <<"AREG", "ZR8">>, <<<<"R1", \h90>>>>, <<<<"R1", \h91>>>>),
        PatternMcs8(CPU_ANY, CPU_ALL, <<"AREG", "ZM">>, <<<<"PUT", \h96>>>>, <<<<"R0", \h97>>>>),
        PatternMcs8(CPU_ANY, CPU_ALL, <<"AREG", "I8">>, <<<<"PUT", \hD6>>, <<"I8_1">>>>, <<<<"PUT", \h14>>, <<"I8_1">>>>) >>,
    z80_swap_1 |-> <<
        Pattern(CPU_Z80, CPU_ALL, <<"ZR8_NOPREF">>, <<<<"PUT", \hCB>>, <<"R0", \h30>>>>),
        Pattern(CPU_Z80, CPU_ALL, <<"ZM">>, <<<<"PUT", \hCB>>, <<"PUT", \h36>>>>) >>,
    z80_xor_1 |-> <<
        PatternMcs8(CPU_ANY, CPU_ALL, <<"ZR8">>, <<<<"R0", \hA8>>>>, <<<<"R0", \hA8>>>>),
        PatternMcs8(CPU_ANY, CPU_ALL, <<"ZM">>, <<<<"PUT", \hAE>>>>, <<<<"PUT", \hAF>>>>),
        PatternMcs8(CPU_ANY, CPU_ALL, <<"I8">>, <<<<"PUT", \hEE>>, <<"I8_0">>>>, <<<<"PUT", \h2C>>, <<"I8_0">>>>) >>,
    z80_xor_2 |-> <<
        PatternMcs8(CPU_ANY, CPU_ALL, <<"AREG", "ZR8">>, <<<<"R1", \hA8>>>>, <<<<"R1", \hA8>>>>),
        PatternMcs8(CPU_ANY, CPU_ALL, <<"AREG", "ZM">>, <<<<"PUT", \hAE>>>>, <<<<"PUT", \hAF>>>>),
        PatternMcs8(CPU_ANY, CPU_ALL, <<"AREG", "I8">>, <<<<"PUT", \hEE>>, <<"I8_1">>>>, <<<<"PUT", \h2C>>, <<"I8_1">>>>) >>,
    r800_adj_1 |-> << Pattern(CPU_8080, CPU_ALL, <<"AREG">>, <<<<"PUT", \h27>>>>) >>,
    r800_cmp_2 |-> <<
        PatternMcs8(CPU_ANY, CPU_ALL, <<"AREG", "ZR8">>, <<<<"R1", \hB8>>>>, <<<<"R1", \hB8>>>>),
        PatternMcs8(CPU_ANY, CPU_ALL, <<"AREG", "ZM">>, <<<<"PUT", \hBE>>>>, <<<<"PUT", \hBF>>>>),
        PatternMcs8(CPU_ANY, CPU_ALL, <<"AREG", "I8">>, <<<<"PUT", \hFE>>, <<"I8_1">>>>, <<<<"PUT", \h3C>>, <<"I8_0">>>>),
        Pattern(CPU_Z80, CPU_NOT_GBZ80, <<"AREG", "ZMHLD">>, <<<<"PUT", \hED>>, <<"PUT", \hA9>>>>),
        Pattern(CPU_Z80, CPU_NOT_GBZ80, <<"AREG", "ZMHLI">>, <<<<"PUT", \hED>>, <<"PUT", \hA1>>>>) >>,
    r800_cmpm_2 |-> <<
        Pattern(CPU_Z80, CPU_NOT_GBZ80, <<"AREG", "ZMHLD">>, <<<<"PUT", \hED>>, <<"PUT", \hB9>>>>),
        Pattern(CPU_Z80, CPU_NOT_GBZ80, <<"AREG", "ZMHLI">>, <<<<"PUT", \hED>>, <<"PUT", \hB1>>>>) >> ]

\* pattern_r800_in_2 to pattern_r800_or_2.
Patterns_r800_in_to_r800_or ==
  [ r800_in_2 |-> <<
        PatternMcs8(CPU_8008, CPU_NOT_8080, <<"AREG", "ZMI3">>, <<>>, <<<<"I1S1", \h41>>>>),
        Pattern(CPU_8080, CPU_NOT_GBZ80, <<"AREG", "ZMI8">>, <<<<"PUT", \hDB>>, <<"I8_1">>>>),
        Pattern(CPU_Z80, CPU_NOT_GBZ80, <<"ZR8_NOPREF", "CMEM">>, <<<<"PUT", \hED>>, <<"R0S3", \h40>>>>),
        Pattern(CPU_Z80, CPU_NOT_GBZ80, <<"FREG", "CMEM">>, <<<<"PUT", \hED>>, <<"PUT", \h70>>>>),
        Pattern(CPU_Z80, CPU_NOT_GBZ80, <<"ZMHLD", "CMEM">>, <<<<"PUT", \hED>>, <<"PUT", \hAA>>>>),
        Pattern(CPU_Z80, CPU_NOT_GBZ80, <<"ZMHLI", "CMEM">>, <<<<"PUT", \hED>>, <<"PUT", \hA2>>>>) >>,
    r800_inm_2 |-> <<
        Pattern(CPU_Z80, CPU_NOT_GBZ80, <<"ZMHLD", "CMEM">>, <<<<"PUT", \hED>>, <<"PUT", \hBA>>>>),
        Pattern(CPU_Z80, CPU_NOT_GBZ80, <<"ZMHLI", "CMEM">>, <<<<"PUT", \hED>>, <<"PUT", \hB2>>>>) >>,
    r800_move_2 |-> <<
        Pattern(CPU_Z80, CPU_NOT_GBZ80, <<"ZMHLD", "ZMDED">>, <<<<"PUT", \hED>>, <<"PUT", \hA8>>>>),
        Pattern(CPU_Z80, CPU_NOT_GBZ80, <<"ZMHLI", "ZMDEI">>, <<<<"PUT", \hED>>, <<"PUT", \hA0>>>>) >>,
    r800_movem_2 |-> <<
        Pattern(CPU_Z80, CPU_NOT_GBZ80, <<"ZMHLD", "ZMDED">>, <<<<"PUT", \hED>>, <<"PUT", \hB8>>>>),
        Pattern(CPU_Z80, CPU_NOT_GBZ80, <<"ZMHLI", "ZMDEI">>, <<<<"PUT", \hED>>, <<"PUT", \hB0>>>>) >>,
    r800_mulub_2 |-> << Pattern(CPU_R800, CPU_R800, <<"AREG", "ZR8">>, <<<<"PUT", \hED>>, <<"R1S3", \hC1>>>>) >>,
    r800_muluw_2 |-> << Pattern(CPU_R800, CPU_NOT_GBZ80, <<"HLREG", "ZR16_NOPREF">>, <<<<"PUT", \hED>>, <<"R1S3", \hC3>>>>) >>,
    r800_neg_1 |-> << Pattern(CPU_Z80, CPU_NOT_GBZ80, <<"AREG">>, <<<<"PUT", \hED>>, <<"PUT", \h44>>>>) >>,
    r800_not_1 |-> << Pattern(CPU_8080, CPU_ALL, <<"AREG">>, <<<<"PUT", \h2F>>>>) >>,
    r800_or_2 |-> <<
        PatternMcs8(CPU_ANY, CPU_ALL, <<"AREG", "ZR8">>, <<<<"R1", \hB0>>>>, <<<<"R1", \hB0>>>>),
        PatternMcs8(CPU_ANY, CPU_ALL, <<"AREG", "ZM">>, <<<<"PUT", \hB6>>>>, <<<<"PUT", \hB7>>>>),
        PatternMcs8(CPU_ANY, CPU_ALL, <<"AREG", "I8">>, <<<<"PUT", \hF6>>, <<"I8_1">>>>, <<<<"PUT", \h34>>, <<"I8_0">>>>) >> ]

\* pattern_r800_out_2 to pattern_i8008_l_r_i_1.
Patterns_r800_out_to_i8008_l_r_i ==
  [ r800_out_2 |-> <<
        PatternMcs8(CPU_8008, CPU_NOT_8080, <<"ZMI5_GE8", "AREG">>, <<>>, <<<<"I0S1", \h41>>>>),
        Pattern(CPU_8080, CPU_NOT_GBZ80, <<"ZMI8", "AREG">>, <<<<"PUT", \hD3>>, <<"I8_0">>>>),
        Pattern(CPU_Z80, CPU_ALL, <<"CMEM", "ZR8_NOPREF">>, <<<<"PUT", \hED>>, <<"R1S3", \h41>>>>),
        Pattern(CPU_Z80, CPU_NOT_GBZ80, <<"CMEM", "EQ0">>, <<<<"PUT", \hED>>, <<"PUT", \h71>>>>),
        Pattern(CPU_Z80, CPU_NOT_GBZ80, <<"CMEM", "ZMHLD">>, <<<<"PUT", \hED>>, <<"PUT", \hAB>>>>),
        Pattern(CPU_Z80, CPU_NOT_GBZ80, <<"CMEM", "ZMHLI">>, <<<<"PUT", \hED>>, <<"PUT", \hA3>>>>) >>,
    r800_outm_2 |-> <<
        Pattern(CPU_Z80, CPU_NOT_GBZ80, <<"CMEM", "ZMHLD">>, <<<<"PUT", \hED>>, <<"PUT", \hBB>>>>),
        Pattern(CPU_Z80, CPU_NOT_GBZ80, <<"CMEM", "ZMHLI">>, <<<<"PUT", \hED>>, <<"PUT", \hB3>>>>) >>,
    r800_rol4_1 |-> << Pattern(CPU_Z80, CPU_NOT_GBZ80, <<"ZMHL">>, <<<<"PUT", \hED>>, <<"PUT", \h6F>>>>) >>,
    r800_ror4_1 |-> << Pattern(CPU_Z80, CPU_NOT_GBZ80, <<"ZMHL">>, <<<<"PUT", \hED>>, <<"PUT", \h67>>>>) >>,
    r800_short_b_cc_1 |-> << Pattern(CPU_Z80, CPU_ALL, <<"REL8">>, <<<<"COND", \h20>>, <<"R8_0">>>>) >>,
    i8008_ac_r_0 |-> << PatternMcs8(CPU_ANY, CPU_ALL, <<>>, <<<<"REG", \h88>>>>, <<<<"REG", \h88>>>>) >>,
    i8008_ad_r_0 |-> << PatternMcs8(CPU_ANY, CPU_ALL, <<>>, <<<<"REG", \h80>>>>, <<<<"REG", \h80>>>>) >>,
    i8008_cp_r_0 |-> << PatternMcs8(CPU_ANY, CPU_ALL, <<>>, <<<<"REG", \hA0>>>>, <<<<"REG", \hA0>>>>) >>,
    i8008_dc_r_0 |-> << PatternMcs8(CPU_8008, CPU_ALL, <<"IR8_NOTA">>, <<<<"REGS3", \h05>>>>, <<<<"REGS3", \h01>>>>) >>,
    i8008_in_r_0 |-> << PatternMcs8(CPU_8008, CPU_ALL, <<"IR8_NOTA">>, <<<<"REGS3", \h04>>>>, <<<<"REGS3", \h00>>>>) >>,
    i8008_l_r_r_0 |-> << PatternMcs8(CPU_ANY, CPU_ALL, <<>>, <<<<"REGS", \h40>>>>, <<<<"REGS", \hC0>>>>) >>,
    i8008_l_r_i_1 |-> << PatternMcs8(CPU_ANY, CPU_ALL, <<"I8">>, <<<<"REGS3", \h06>>, <<"I8_0">>>>, <<<<"REGS3", \h06>>, <<"I8_0">>>>) >> ]

\* pattern_i8008_nd_r_0 to pattern_z80_retem_0.
Patterns_i8008_nd_r_to_z80_retem ==
  [ i8008_nd_r_0 |-> << PatternMcs8(CPU_ANY, CPU_ALL, <<>>, <<<<"REG", \hA0>>>>, <<<<"REG", \hA0>>>>) >>,
    i8008_or_r_0 |-> << PatternMcs8(CPU_ANY, CPU_ALL, <<>>, <<<<"REG", \hB0>>>>, <<<<"REG", \hB0>>>>) >>,
    i8008_sb_r_0 |-> << PatternMcs8(CPU_ANY, CPU_ALL, <<"IR8">>, <<<<"REG", \h98>>>>, <<<<"REG", \h98>>>>) >>,
    i8008_su_r_0 |-> << PatternMcs8(CPU_ANY, CPU_ALL, <<>>, <<<<"REG", \h90>>>>, <<<<"REG", \h90>>>>) >>,
    i8008_xr_r_0 |-> << PatternMcs8(CPU_ANY, CPU_ALL, <<>>, <<<<"REG", \hA8>>>>, <<<<"REG", \hA8>>>>) >>,
    dp2200_alpha_0 |-> << PatternMcs8(CPU_DP2200V2, CPU_DP2200V2, <<>>, <<>>, <<<<"PUT", \h18>>>>) >>,
    dp2200_beta_0 |-> << PatternMcs8(CPU_DP2200V2, CPU_DP2200V2, <<>>, <<>>, <<<<"PUT", \h10>>>>) >>,
    dp2200_input_0 |-> << PatternMcs8(CPU_ANY, CPU_NOT_GBZ80, <<>>, <<<<"PUT", \hDB>>, <<"PUT", \h00>>>>, <<<<"PUT", \h41>>>>) >>,
    dp2200_ex_0 |-> << PatternMcs8(CPU_ANY, CPU_NOT_GBZ80, <<>>, <<<<"PUT", \hD3>>, <<"VAL">>>>, <<<<"VALS1", \h41>>>>) >>,
    dp2200_pop_0 |-> <<
        PatternMcs8(CPU_DP2200V2, CPU_DP2200V2, <<>>, <<>>, <<<<"PUT", \h30>>>>),
        Pattern(CPU_8080, CPU_ALL, <<>>, <<<<"PUT", \hE1>>>>) >>,
    dp2200_push_0 |-> <<
        PatternMcs8(CPU_DP2200V2, CPU_DP2200V2, <<>>, <<>>, <<<<"PUT", \h38>>>>),
        Pattern(CPU_8080, CPU_ALL, <<>>, <<<<"PUT", \hE5>>>>) >>,
    z80_calln_1 |-> << Pattern(CPU_ANY, CPU_Z80, <<"UI8">>, <<<<"PUT", \hED>>, <<"PUT", \hED>>, <<"I8_0">>>>) >>,
    z80_retem_0 |-> << Pattern(CPU_ANY, CPU_Z80, <<>>, <<<<"PUT", \hED>>, <<"PUT", \hFD>>>>) >> ]

\* The table itself: every array, by name.
x80_patterns ==
     Patterns_i8080_aci_to_i8080_dad
  @@ Patterns_i8080_dcr_to_i8080_jmp
  @@ Patterns_i8080_jnui_to_i8080_ori
  @@ Patterns_i8080_out_to_i8080_rlc
  @@ Patterns_i8080_rrc_to_i8080_xchg
  @@ Patterns_i8080_xra_to_z80_and
  @@ Patterns_z80_bit_to_z80_dec
  @@ Patterns_z80_djnz_to_z80_indr
  @@ Patterns_z80_ini_to_z80_jr
  @@ Patterns_z80_ld
  @@ Patterns_z80_ldd_to_z80_otdr
  @@ Patterns_z80_outi_to_z80_rl
  @@ Patterns_z80_rl_to_z80_set
  @@ Patterns_z80_set_to_z80_sub
  @@ Patterns_z80_sub_to_r800_cmpm
  @@ Patterns_r800_in_to_r800_or
  @@ Patterns_r800_out_to_i8008_l_r_i
  @@ Patterns_i8008_nd_r_to_z80_retem

================================================================================
