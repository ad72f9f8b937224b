------------------------------ MODULE X65Patterns ------------------------------
(***************************************************************************)
(* The opcodes of the 65xx processors (x65/gen.h, included once for every  *)
(* processor): for each mnemonic, blocks of addressing modes and their     *)
(* opcodes, each under the feature macro that guards it.                   *)
(***************************************************************************)
LOCAL INSTANCE Naturals
LOCAL INSTANCE TLC

\* pattern_adc to pattern_bpl.
Patterns_adc_to_bpl ==
  [ adc |-> <<
        <<"ALL", [ZPG_X_IND |-> \h61, ZPG |-> \h65, IMMA |-> \h69, ABS |-> \h6D,
            ZPG_IND_Y |-> \h71, ZPG_X |-> \h75, ABS_Y |-> \h79, ABS_X |-> \h7D]>>,
        <<"65C02", [ZPG_IND_Z |-> \h72]>>,
        <<"65C816", [STK |-> \h63, LNG_IND |-> \h67, LNG |-> \h6F, STK_IND_Y |-> \h73,
            LNG_IND_Y |-> \h77, LNG_X |-> \h7F]>>>>,
    and |-> <<
        <<"ALL", [ZPG_X_IND |-> \h21, ZPG |-> \h25, IMMA |-> \h29, ABS |-> \h2D,
            ZPG_IND_Y |-> \h31, ZPG_X |-> \h35, ABS_Y |-> \h39, ABS_X |-> \h3D]>>,
        <<"65C02", [ZPG_IND_Z |-> \h32]>>,
        <<"65C816", [STK |-> \h23, LNG_IND |-> \h27, LNG |-> \h2F, STK_IND_Y |-> \h33,
            LNG_IND_Y |-> \h37, LNG_X |-> \h3F]>>>>,
    asl |-> <<<<"ALL", [ZPG |-> \h06, ABS |-> \h0E, ZPG_X |-> \h16, ABS_X |-> \h1E, A |-> \h0A]>>>>,
    asr |-> <<<<"65CE02", [ZPG |-> \h44, ZPG_X |-> \h54, A |-> \h43]>>>>,
    asw |-> <<<<"65CE02", [ABS |-> \hCB]>>>>,
    aug |-> <<<<"65CE02", [IMPL |-> \h5C]>>>>,
    bbr |-> <<<<"WDC65C02", [ZPG_REL8 |-> \h0F]>>>>,
    bbs |-> <<<<"WDC65C02", [ZPG_REL8 |-> \h8F]>>>>,
    bcc |-> <<<<"ALL", [REL8 |-> \h90]>>, <<"65CE02", [REL16 |-> \h93]>>>>,
    bcs |-> <<<<"ALL", [REL8 |-> \hB0]>>, <<"65CE02", [REL16 |-> \hB3]>>>>,
    beq |-> <<<<"ALL", [REL8 |-> \hF0]>>, <<"65CE02", [REL16 |-> \hF3]>>>>,
    bit |-> <<
        <<"ALL", [ZPG |-> \h24, ABS |-> \h2C]>>,
        <<"65C02", [IMMA |-> \h89, ZPG_X |-> \h34, ABS_X |-> \h3C]>>>>,
    bmi |-> <<<<"ALL", [REL8 |-> \h30]>>, <<"65CE02", [REL16 |-> \h33]>>>>,
    bne |-> <<<<"ALL", [REL8 |-> \hD0]>>, <<"65CE02", [REL16 |-> \hD3]>>>>,
    bpl |-> <<<<"ALL", [REL8 |-> \h10]>>, <<"65CE02", [REL16 |-> \h13]>>>> ]

\* pattern_bra to pattern_dex.
Patterns_bra_to_dex ==
  [ bra |-> <<<<"65C02", [REL8 |-> \h80]>>, <<"65CE02", [REL16 |-> \h83]>>>>,
    brk |-> <<<<"ALL", [IMPL |-> \h00]>>>>,
    brl |-> <<<<"65C816", [REL16 |-> \h82]>>>>,
    bsr |-> <<<<"65CE02", [REL16 |-> \h63]>>>>,
    bvc |-> <<<<"ALL", [REL8 |-> \h50]>>, <<"65CE02", [REL16 |-> \h53]>>>>,
    bvs |-> <<<<"ALL", [REL8 |-> \h70]>>, <<"65CE02", [REL16 |-> \h73]>>>>,
    clc |-> <<<<"ALL", [IMPL |-> \h18]>>>>,
    cld |-> <<<<"ALL", [IMPL |-> \hD8]>>>>,
    cle |-> <<<<"65CE02", [IMPL |-> \h02]>>>>,
    cli |-> <<<<"ALL", [IMPL |-> \h58]>>>>,
    clv |-> <<<<"ALL", [IMPL |-> \hB8]>>>>,
    cmp |-> <<
        <<"ALL", [ZPG_X_IND |-> \hC1, ZPG |-> \hC5, IMMA |-> \hC9, ABS |-> \hCD,
            ZPG_IND_Y |-> \hD1, ZPG_X |-> \hD5, ABS_Y |-> \hD9, ABS_X |-> \hDD]>>,
        <<"65C02", [ZPG_IND_Z |-> \hD2]>>,
        <<"65C816", [STK |-> \hC3, LNG_IND |-> \hC7, LNG |-> \hCF, STK_IND_Y |-> \hD3,
            LNG_IND_Y |-> \hD7, LNG_X |-> \hDF]>>>>,
    cop |-> <<<<"65C816", [IMPL |-> \h02]>>>>,
    cpx |-> <<<<"ALL", [ZPG |-> \hE4, IMMX |-> \hE0, ABS |-> \hEC]>>>>,
    cpy |-> <<<<"ALL", [ZPG |-> \hC4, IMMX |-> \hC0, ABS |-> \hCC]>>>>,
    cpz |-> <<<<"65CE02", [ZPG |-> \hD4, IMMX |-> \hC2, ABS |-> \hDC]>>>>,
    dec |-> <<
        <<"ALL", [ZPG |-> \hC6, ABS |-> \hCE, ZPG_X |-> \hD6, ABS_X |-> \hDE]>>,
        <<"65C02", [A |-> \h3A]>>>>,
    dew |-> <<<<"65CE02", [ABS |-> \hC3]>>>>,
    dex |-> <<<<"ALL", [IMPL |-> \hCA]>>>> ]

\* pattern_dey to pattern_ldx.
Patterns_dey_to_ldx ==
  [ dey |-> <<<<"ALL", [IMPL |-> \h88]>>>>,
    dez |-> <<<<"65CE02", [IMPL |-> \h3B]>>>>,
    eor |-> <<
        <<"ALL", [ZPG_X_IND |-> \h41, ZPG |-> \h45, IMMA |-> \h49, ABS |-> \h4D,
            ZPG_IND_Y |-> \h51, ZPG_X |-> \h55, ABS_Y |-> \h59, ABS_X |-> \h5D]>>,
        <<"65C02", [ZPG_IND_Z |-> \h52]>>,
        <<"65C816", [STK |-> \h43, LNG_IND |-> \h47, LNG |-> \h4F, STK_IND_Y |-> \h53,
            LNG_IND_Y |-> \h57, LNG_X |-> \h5F]>>>>,
    inc |-> <<
        <<"ALL", [ZPG |-> \hE6, ABS |-> \hEE, ZPG_X |-> \hF6, ABS_X |-> \hFE]>>,
        <<"65C02", [A |-> \h1A]>>>>,
    inw |-> <<<<"65CE02", [ABS |-> \hE3]>>>>,
    inx |-> <<<<"ALL", [IMPL |-> \hE8]>>>>,
    iny |-> <<<<"ALL", [IMPL |-> \hC8]>>>>,
    inz |-> <<<<"65CE02", [IMPL |-> \h1B]>>>>,
    jml |-> <<<<"65C816", [LNG |-> \h5C, ABS_LNG_IND |-> \hDC]>>>>,
    jmp |-> <<
        <<"ALL", [ABS |-> \h4C, ABS_IND |-> \h6C]>>,
        <<"65C02", [ABS_X_IND |-> \h7C]>>,
        <<"65C816", [LNG |-> \h5C, ABS_LNG_IND |-> \hDC]>>>>,
    jsl |-> <<<<"65C816", [LNG |-> \h22]>>>>,
    jsr |-> <<
        <<"ALL", [ABS |-> \h20]>>,
        <<"65CE02", [ABS_IND |-> \h23, ABS_X_IND |-> \h22]>>,
        <<"65C816", [ABS_X_IND |-> \hFC, LNG |-> \h22]>>>>,
    lda |-> <<
        <<"ALL", [ZPG_X_IND |-> \hA1, ZPG |-> \hA5, IMMA |-> \hA9, ABS |-> \hAD,
            ZPG_IND_Y |-> \hB1, ZPG_X |-> \hB5, ABS_Y |-> \hB9, ABS_X |-> \hBD]>>,
        <<"65C02", [ZPG_IND_Z |-> \hB2]>>,
        <<"65CE02", [STK_IND_Y |-> \hE3]>>,
        <<"65C816", [STK |-> \hA3, LNG_IND |-> \hA7, LNG |-> \hAF, STK_IND_Y |-> \hB3,
            LNG_IND_Y |-> \hB7, LNG_X |-> \hBF]>>>>,
    ldx |-> <<<<"ALL", [ZPG |-> \hA6, IMMX |-> \hA2, ABS |-> \hAE, ABS_Y |-> \hBE, ZPG_Y |-> \hB6]>>>> ]

\* pattern_ldy to pattern_phy.
Patterns_ldy_to_phy ==
  [ ldy |-> <<<<"ALL", [ZPG |-> \hA4, IMMX |-> \hA0, ABS |-> \hAC, ZPG_X |-> \hB4, ABS_X |-> \hBC]>>>>,
    ldz |-> <<<<"65CE02", [IMMX |-> \hA3, ABS |-> \hAB, ABS_X |-> \hBB]>>>>,
    lsr |-> <<<<"ALL", [ZPG |-> \h46, ABS |-> \h4E, ZPG_X |-> \h56, ABS_X |-> \h5E, A |-> \h4A]>>>>,
    mvn |-> <<<<"65C816", [IMM_IMM |-> \h54]>>>>,
    mvp |-> <<<<"65C816", [IMM_IMM |-> \h44]>>>>,
    neg |-> <<<<"65CE02", [IMPL |-> \h42]>>>>,
    nop |-> <<<<"ALL", [IMPL |-> \hEA]>>>>,
    ora |-> <<
        <<"ALL", [ZPG_X_IND |-> \h01, ZPG |-> \h05, IMMA |-> \h09, ABS |-> \h0D,
            ZPG_IND_Y |-> \h11, ZPG_X |-> \h15, ABS_Y |-> \h19, ABS_X |-> \h1D]>>,
        <<"65C02", [ZPG_IND_Z |-> \h12]>>,
        <<"65C816", [STK |-> \h03, LNG_IND |-> \h07, LNG |-> \h0F, STK_IND_Y |-> \h13,
            LNG_IND_Y |-> \h17, LNG_X |-> \h1F]>>>>,
    pea |-> <<<<"65C816", [ABS |-> \h54]>>>>,
    pei |-> <<<<"65C816", [ZPG |-> \hD4]>>>>,
    per |-> <<<<"65C816", [REL16 |-> \h62]>>>>,
    pha |-> <<<<"ALL", [IMPL |-> \h48]>>>>,
    phb |-> <<<<"65C816", [IMPL |-> \h8B]>>>>,
    phd |-> <<<<"65C816", [IMPL |-> \h0B]>>>>,
    phk |-> <<<<"65C816", [IMPL |-> \h4B]>>>>,
    php |-> <<<<"ALL", [IMPL |-> \h08]>>>>,
    phw |-> <<<<"65CE02", [ABS |-> \hFC, IMM16 |-> \hF4]>>>>,
    phx |-> <<<<"65C02", [IMPL |-> \hDA]>>>>,
    phy |-> <<<<"65C02", [IMPL |-> \h5A]>>>> ]

\* pattern_phz to pattern_see.
Patterns_phz_to_see ==
  [ phz |-> <<<<"65CE02", [IMPL |-> \hDB]>>>>,
    pla |-> <<<<"ALL", [IMPL |-> \h68]>>>>,
    plb |-> <<<<"65C816", [IMPL |-> \hAB]>>>>,
    pld |-> <<<<"65C816", [IMPL |-> \h2B]>>>>,
    plp |-> <<<<"ALL", [IMPL |-> \h28]>>>>,
    plx |-> <<<<"65C02", [IMPL |-> \hFA]>>>>,
    ply |-> <<<<"65C02", [IMPL |-> \h7A]>>>>,
    plz |-> <<<<"65CE02", [IMPL |-> \hFB]>>>>,
    rep |-> <<<<"65C816", [IMM8 |-> \hC2]>>>>,
    rmb |-> <<<<"WDC65C02", [ZPG |-> \h07]>>>>,
    rol |-> <<<<"ALL", [ZPG |-> \h26, ABS |-> \h2E, ZPG_X |-> \h36, ABS_X |-> \h3E, A |-> \h2A]>>>>,
    ror |-> <<<<"ALL", [ZPG |-> \h66, ABS |-> \h6E, ZPG_X |-> \h76, ABS_X |-> \h7E, A |-> \h6A]>>>>,
    row |-> <<<<"65CE02", [ABS |-> \hEB]>>>>,
    rti |-> <<<<"ALL", [IMPL |-> \h40]>>>>,
    rtl |-> <<<<"65C816", [IMPL |-> \h6B]>>>>,
    rts |-> <<<<"ALL", [IMPL |-> \h60]>>, <<"65CE02", [IMM8 |-> \h62]>>>>,
    sbc |-> <<
        <<"ALL", [ZPG_X_IND |-> \hE1, ZPG |-> \hE5, IMMA |-> \hE9, ABS |-> \hED,
            ZPG_IND_Y |-> \hF1, ZPG_X |-> \hF5, ABS_Y |-> \hF9, ABS_X |-> \hFD]>>,
        <<"65C02", [ZPG_IND_Z |-> \hF2]>>,
        <<"65C816", [STK |-> \hE3, LNG_IND |-> \hE7, LNG |-> \hEF, STK_IND_Y |-> \hF3,
            LNG_IND_Y |-> \hF7, LNG_X |-> \hFF]>>>>,
    sec |-> <<<<"ALL", [IMPL |-> \h38]>>>>,
    sed |-> <<<<"ALL", [IMPL |-> \hF8]>>>>,
    see |-> <<<<"65CE02", [IMPL |-> \h03]>>>> ]

\* pattern_sei to pattern_tsb.
Patterns_sei_to_tsb ==
  [ sei |-> <<<<"ALL", [IMPL |-> \h78]>>>>,
    sep |-> <<<<"65C816", [IMM8 |-> \hE2]>>>>,
    smb |-> <<<<"WDC65C02", [ZPG |-> \h87]>>>>,
    sta |-> <<
        <<"ALL", [ZPG_X_IND |-> \h81, ZPG |-> \h85, ABS |-> \h8D, ZPG_IND_Y |-> \h91,
            ZPG_X |-> \h95, ABS_Y |-> \h99, ABS_X |-> \h9D]>>,
        <<"65C02", [ZPG_IND_Z |-> \h92]>>,
        <<"65CE02", [STK_IND_Y |-> \h82]>>,
        <<"65C816", [STK |-> \h83, LNG_IND |-> \h87, LNG |-> \h8F, STK_IND_Y |-> \h93,
            LNG_IND_Y |-> \h97, LNG_X |-> \h9F]>>>>,
    stp |-> <<<<"ALL", [IMPL |-> \hDB]>>>>,
    stx |-> <<
        <<"ALL", [ZPG |-> \h86, ABS |-> \h8E]>>,
        <<"65CE02", [ABS_Y |-> \h9B]>>,
        <<"ALL", [ZPG_Y |-> \h96]>>>>,
    sty |-> <<<<"ALL", [ZPG |-> \h84, ABS |-> \h8C, ZPG_X |-> \h94]>>, <<"65CE02", [ABS_X |-> \h8B]>>>>,
    stz |-> <<<<"65C02", [ZPG |-> \h64, ABS |-> \h9C, ZPG_X |-> \h74, ABS_X |-> \h9E]>>>>,
    tab |-> <<<<"65CE02", [IMPL |-> \h5B]>>>>,
    tax |-> <<<<"ALL", [IMPL |-> \hAA]>>>>,
    tay |-> <<<<"ALL", [IMPL |-> \hA8]>>>>,
    taz |-> <<<<"65CE02", [IMPL |-> \h4B]>>>>,
    tba |-> <<<<"65CE02", [IMPL |-> \h7B]>>>>,
    tcd |-> <<<<"65C816", [IMPL |-> \h5B]>>>>,
    tcs |-> <<<<"65C816", [IMPL |-> \h1B]>>>>,
    tdc |-> <<<<"65C816", [IMPL |-> \h7B]>>>>,
    trb |-> <<<<"65C02", [ZPG |-> \h14, ABS |-> \h1C]>>>>,
    tsb |-> <<<<"65C02", [ZPG |-> \h04, ABS |-> \h0C]>>>> ]

\* pattern_tsc to pattern_xce.
Patterns_tsc_to_xce ==
  [ tsc |-> <<<<"65C816", [IMPL |-> \h3B]>>>>,
    tsx |-> <<<<"ALL", [IMPL |-> \hBA]>>>>,
    tsy |-> <<<<"65CE02", [IMPL |-> \h0B]>>>>,
    txa |-> <<<<"ALL", [IMPL |-> \h8A]>>>>,
    txs |-> <<<<"ALL", [IMPL |-> \h9A]>>>>,
    txy |-> <<<<"65C816", [IMPL |-> \h9B]>>>>,
    tya |-> <<<<"ALL", [IMPL |-> \h98]>>>>,
    tys |-> <<<<"65CE02", [IMPL |-> \h2B]>>>>,
    tyx |-> <<<<"65C816", [IMPL |-> \hBB]>>>>,
    tza |-> <<<<"65CE02", [IMPL |-> \h6B]>>>>,
    wai |-> <<<<"65C816", [IMPL |-> \hCB]>>>>,
    wdm |-> <<<<"65C816", [IMPL |-> \h42]>>>>,
    xba |-> <<<<"65C816", [IMPL |-> \hEB]>>>>,
    xce |-> <<<<"65C816", [IMPL |-> \hFB]>>>> ]

\* The table itself: every array, by mnemonic.
x65_patterns ==
     Patterns_adc_to_bpl
  @@ Patterns_bra_to_dex
  @@ Patterns_dey_to_ldx
  @@ Patterns_ldy_to_phy
  @@ Patterns_phz_to_see
  @@ Patterns_sei_to_tsb
  @@ Patterns_tsc_to_xce

================================================================================
