------------------------------- MODULE MCEncoding -------------------------------
EXTENDS Encoding, TLC

------------------------------------------------------------------------------
Registers80 ==
  {"A", "AF", "AF2", "B", "BC", "C", "CND_M", "D", "DE", "E", "F", "H", "HL", "I", "IX", "IXH",
   "IXL", "IY", "IYH", "IYL", "L", "NC", "NZ", "P", "PE", "PO", "PSW", "R", "REG_M", "SP", "Z"}

\* One value on each side of every limit the constraints draw.
Values80 == {-3, 0, 1, 2, 5, 8, 20, 56, 200, 300, 65408, 70000}

MCOperands80 ==
  {Register(base) : base \in Registers80}
  \cup {Immediate(value) : value \in Values80} \cup {Place(-20), Place(300)}
  \cup {Memory("MEM", base, 0) : base \in {"B", "C", "BC", "DE", "HL", "SP", "IX", "IY"}}
  \cup {Memory("MEM", base, value) : base \in {"IX", "IY"}, value \in {3, -9, 300}}
  \cup {Memory("MEM", REG_NONE, value) : value \in Values80}
  \cup {Memory(type, REG_NONE, 0) : type \in {"HLD", "HLI", "DED", "DEI"}}

Values65 == {Immediate(value) : value \in {0, 5, 200, 300, 4660, 70000, -3}} \cup {Place(-20), Place(300)}
FewValues65 == {Immediate(5), Immediate(300), Place(-20), Place(300)}
Shapes65 == {"IMM", "MEM", "MEM_X", "MEM_Y", "IND", "IND_X", "IND_Y", "IND_Z", "LNG", "LNG_Y", "STK_Y"}

MCOperands65 ==
  {X65!Operand65(type, "DEFAULT", <<Immediate(0)>>) : type \in {"NONE", "REG_A"}}
  \cup {X65!Operand65(type, "DEFAULT", <<value>>) : type \in Shapes65 \cup {"STK"}, value \in Values65}
  \cup {X65!Operand65(type, mode, <<value>>) : type \in Shapes65, value \in {Immediate(300), Place(-20)},
                                               mode \in {"LOW_BYTE", "HIGH_BYTE", "WORD", "LONG", "BANK"}}
  \cup {X65!Operand65("PAIR", "DEFAULT", pair) : pair \in FewValues65 \X FewValues65}

MCOperands89 ==
  {X89!General(register) : register \in {"GA", "GB", "GC", "BC", "TP", "IX", "CC", "MC"}}
  \cup {X89!MemoryAt(mode, base, 0) : mode \in {"BASE", "INDEX", "INCREMENT"}, base \in {"GA", "PP"}}
  \cup {X89!MemoryAt("OFFSET", base, value) : base \in {"GB", "PP"}, value \in {3, 200}}
  \cup {Immediate(value) : value \in {0, 3, 8, 16, 300, 44}} \cup {Place(-20), Place(300)}
  \cup {X89!FarImmediate(value, segment) : value \in {3, 300}, segment \in {5, 9}}

\* The arrays of the 8080 syntax, which are one assembly language; those of
\* the Zilog syntaxes have synonyms and are taken one by one.
Intel80 ==
  DOMAIN X80!Patterns_i8080_aci_to_i8080_dad \cup DOMAIN X80!Patterns_i8080_dcr_to_i8080_jmp
  \cup DOMAIN X80!Patterns_i8080_jnui_to_i8080_ori \cup DOMAIN X80!Patterns_i8080_out_to_i8080_rlc
  \cup DOMAIN X80!Patterns_i8080_rrc_to_i8080_xchg \cup {"i8080_xra_1", "i8080_xri_1", "i8080_xthl_0"}

Processors80 == {X80!CPU_8080, X80!CPU_8085, X80!CPU_Z80, X80!CPU_R800, X80!CPU_GBZ80}

Subject(target, cpu, mnemonics) == [target |-> target, cpu |-> cpu, mnemonics |-> mnemonics]

MCSubjects ==
  {Subject("x80", cpu, Intel80) : cpu \in Processors80}
  \cup {Subject("x80", cpu, {mnemonic}) : cpu \in Processors80, mnemonic \in DOMAIN X80!x80_patterns \ Intel80}
  \cup {Subject("x65", cpu, DOMAIN X65!x65_patterns) : cpu \in DOMAIN X65!Features}
  \cup {Subject("x89", "8089", DOMAIN X89!x89_patterns)}

\* The conditional jump, call and return of the 8008.
MCSubjects8008 ==
  {Subject("x80", X80!CPU_8008, {mnemonic}) : mnemonic \in {"i8080_j_cc_1", "i8080_c_cc_1", "i8080_r_cc_0"}}

================================================================================
