------------------------------- MODULE X89Patterns ------------------------------
(***************************************************************************)
(* The instruction table of the 8089 target (x89/gen.c): one array per     *)
(* mnemonic, of operand formats and opcodes.                               *)
(***************************************************************************)
LOCAL INSTANCE Integers
LOCAL INSTANCE TLC

NO_OPERAND == 0

Format(constraint, memopd, regopd, immtype, immopd) ==
  [constraint |-> constraint, memopd |-> memopd, regopd |-> regopd,
   immtype |-> immtype, immopd |-> immopd]

\* The OPDS_ macros; operands are numbered from 1.
OPDS ==
  [ NONE        |-> Format(<<>>, NO_OPERAND, NO_OPERAND, "NONE", NO_OPERAND),
    R           |-> Format(<<"R">>, NO_OPERAND, 1, "NONE", NO_OPERAND),
    M           |-> Format(<<"M">>, 1, NO_OPERAND, "NONE", NO_OPERAND),
    REL8        |-> Format(<<"REL8">>, NO_OPERAND, NO_OPERAND, "RELBYTE", 1),
    REL16       |-> Format(<<"REL16">>, NO_OPERAND, NO_OPERAND, "RELWORD", 1),
    R_M         |-> Format(<<"R", "M">>, 2, 1, "NONE", NO_OPERAND),
    P_M         |-> Format(<<"P", "M">>, 2, 1, "NONE", NO_OPERAND),
    P_I32       |-> Format(<<"P", "I32">>, NO_OPERAND, 1, "FARWORD", 2),
    M_R         |-> Format(<<"M", "R">>, 1, 2, "NONE", NO_OPERAND),
    M_P         |-> Format(<<"M", "P">>, 1, 2, "NONE", NO_OPERAND),
    R_I8        |-> Format(<<"R", "I8">>, NO_OPERAND, 1, "BYTE", 2),
    M_I8        |-> Format(<<"M", "I8">>, 1, NO_OPERAND, "BYTE", 2),
    R_I16       |-> Format(<<"R", "I16">>, NO_OPERAND, 1, "WORD", 2),
    M_I16       |-> Format(<<"M", "I16">>, 1, NO_OPERAND, "WORD", 2),
    M_I3        |-> Format(<<"M", "I3">>, 1, 2, "NONE", NO_OPERAND),
    R_REL8      |-> Format(<<"R", "REL8">>, NO_OPERAND, 1, "RELBYTE", 2),
    R_REL16     |-> Format(<<"R", "REL16">>, NO_OPERAND, 1, "RELWORD", 2),
    M_REL8      |-> Format(<<"M", "REL8">>, 1, NO_OPERAND, "RELBYTE", 2),
    M_REL16     |-> Format(<<"M", "REL16">>, 1, NO_OPERAND, "RELWORD", 2),
    M_I3_REL8   |-> Format(<<"M", "I3", "REL8">>, 1, 2, "RELBYTE", 3),
    M_I3_REL16  |-> Format(<<"M", "I3", "REL16">>, 1, 2, "RELWORD", 3),
    M_I8_REL8   |-> Format(<<"M", "I8", "REL8">>, 1, NO_OPERAND, "IMM_DISP", 2),
    WID         |-> Format(<<"WIDTH", "WIDTH">>, NO_OPERAND, NO_OPERAND, "WID", NO_OPERAND),
    M_M         |-> Format(<<"M", "M">>, 2, NO_OPERAND, "MOV_SRC", NO_OPERAND),
    M_M_2       |-> Format(<<"M", "M">>, 1, NO_OPERAND, "MOV_DST", NO_OPERAND) ]

\* pattern_add to pattern_decb.
Patterns_add_to_decb ==
  [ add |-> <<<<"R_M", \hA001>>, <<"M_R", \hD001>>>>,
    addb |-> <<<<"R_M", \hA000>>, <<"M_R", \hD000>>>>,
    addbi |-> <<<<"R_I8", \h2000>>, <<"M_I8", \hC000>>>>,
    addi |-> <<<<"R_I16", \h2001>>, <<"M_I16", \hC001>>>>,
    and |-> <<<<"R_M", \hA801>>, <<"M_R", \hD801>>>>,
    andb |-> <<<<"R_M", \hA800>>, <<"M_R", \hD800>>>>,
    andbi |-> <<<<"R_I8", \h2800>>, <<"M_I8", \hC800>>>>,
    andi |-> <<<<"R_I16", \h2801>>, <<"M_I16", \hC801>>>>,
    call |-> <<<<"M_REL8", \h9C81>>, <<"M_REL16", \h9C81>>>>,
    lcall |-> <<<<"M_REL16", \h9C81>>>>,
    clr |-> <<<<"M_I3", \hF800>>>>,
    dec |-> <<<<"R", \h3C00>>, <<"M", \hEC01>>>>,
    decb |-> <<<<"M", \hEC00>>>> ]

\* pattern_hlt to pattern_jnz.
Patterns_hlt_to_jnz ==
  [ hlt |-> <<<<"NONE", \h4820>>>>,
    inc |-> <<<<"R", \h3800>>, <<"M", \hE801>>>>,
    incb |-> <<<<"M", \hE800>>>>,
    jbt |-> <<<<"M_I3_REL8", \hBC00>>, <<"M_I3_REL16", \hBC00>>>>,
    ljbt |-> <<<<"M_I3_REL16", \hBC00>>>>,
    jmce |-> <<<<"M_REL8", \hB000>>, <<"M_I3_REL16", \hB000>>>>,
    ljmce |-> <<<<"M_I3_REL16", \hB000>>>>,
    jmcne |-> <<<<"M_REL8", \hB400>>, <<"M_I3_REL16", \hB400>>>>,
    ljmcne |-> <<<<"M_I3_REL16", \hB400>>>>,
    jmp |-> <<<<"REL8", \h2080>>, <<"REL16", \h2081>>>>,
    ljmp |-> <<<<"REL16", \h2081>>>>,
    jnbt |-> <<<<"M_I3_REL8", \hB800>>, <<"M_I3_REL16", \hB800>>>>,
    ljnbt |-> <<<<"M_I3_REL16", \hB800>>>>,
    jnz |-> <<<<"R_REL8", \h4000>>, <<"R_REL16", \h4000>>, <<"M_REL8", \hE001>>, <<"M_REL16", \hE001>>>> ]

\* pattern_ljnz to pattern_movb.
Patterns_ljnz_to_movb ==
  [ ljnz |-> <<<<"R_REL16", \h4000>>, <<"M_REL16", \hE001>>>>,
    jnzb |-> <<<<"M_REL8", \hE000>>, <<"M_REL16", \hE000>>>>,
    ljnzb |-> <<<<"M_REL16", \hE000>>>>,
    jz |-> <<<<"R_REL8", \h4400>>, <<"R_REL16", \h4400>>, <<"M_REL8", \hE401>>, <<"M_REL16", \hE401>>>>,
    ljz |-> <<<<"R_REL16", \h4400>>, <<"M_REL16", \hE401>>>>,
    jzb |-> <<<<"M_REL8", \hE400>>, <<"M_REL16", \hE400>>>>,
    ljzb |-> <<<<"M_REL16", \hE400>>>>,
    lpd |-> <<<<"P_M", \h8801>>>>,
    lpdi |-> <<<<"P_I32", \h0801>>>>,
    mov |-> <<<<"M_R", \h8401>>, <<"R_M", \h8001>>, <<"M_M", \h9001>>, <<"M_M_2", \hCC01>>>>,
    movb |-> <<<<"M_R", \h8400>>, <<"R_M", \h8000>>, <<"M_M", \h9000>>, <<"M_M_2", \hCC00>>>> ]

\* pattern_movbi to pattern_tsl.
Patterns_movbi_to_tsl ==
  [ movbi |-> <<<<"R_I8", \h3000>>, <<"M_I8", \h4C00>>>>,
    movi |-> <<<<"R_I16", \h3001>>, <<"M_I16", \h4C01>>>>,
    movp |-> <<<<"M_P", \h9801>>, <<"P_M", \h8C01>>>>,
    nop |-> <<<<"NONE", \h0000>>>>,
    not |-> <<<<"R", \h2C00>>, <<"M", \hDC01>>, <<"R_M", \hAC01>>>>,
    notb |-> <<<<"M", \hDC00>>, <<"R_M", \hAC00>>>>,
    or |-> <<<<"R_M", \hA401>>, <<"M_R", \hD401>>>>,
    orb |-> <<<<"R_M", \hA400>>, <<"M_R", \hD400>>>>,
    orbi |-> <<<<"R_I8", \h2400>>, <<"M_I8", \hC400>>>>,
    ori |-> <<<<"R_I16", \h2401>>, <<"M_I16", \hC401>>>>,
    setb |-> <<<<"M_I3", \hF400>>>>,
    sintr |-> <<<<"NONE", \h0040>>>>,
    tsl |-> <<<<"M_I8_REL8", \h9400>>>> ]

\* pattern_wid to pattern_xfer.
Patterns_wid_to_xfer ==
  [ wid |-> <<<<"WID", \h0080>>>>,
    xfer |-> <<<<"NONE", \h0060>>>> ]

\* The table itself: every array, by mnemonic.
x89_patterns ==
     Patterns_add_to_decb
  @@ Patterns_hlt_to_jnz
  @@ Patterns_ljnz_to_movb
  @@ Patterns_movbi_to_tsl
  @@ Patterns_wid_to_xfer

================================================================================
