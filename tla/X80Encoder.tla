------------------------------- MODULE X80Encoder -------------------------------
(***************************************************************************)
(* How the 8080/Z80 target chooses a pattern for an instruction, measures  *)
(* it and generates it (x80/gen.c).  Every operand is looked at in turn:   *)
(* its constraint either rejects it, which ends the match, or marks the    *)
(* match as failed or truncated and goes on, so that the last mark stands. *)
(* When the generator is forgiving - the addresses are not known yet -     *)
(* values are not looked at.                                               *)
(*                                                                         *)
(* register_prefix has no entry for SP (x80/gen.c:204), so a match reads   *)
(* past it; what follows the table in the build is padding, hence the 0.   *)
(***************************************************************************)
EXTENDS Operands, X80Patterns
LOCAL INSTANCE Integers
LOCAL INSTANCE SequencesExt
LOCAL INSTANCE FiniteSetsExt

------------------------------------------------------------------------------
\* The tables of the registers.
register_index ==
  [B |-> 0, C |-> 1, D |-> 2, E |-> 3, H |-> 4, IXH |-> 4, IYH |-> 4, L |-> 5, IXL |-> 5,
   IYL |-> 5, REG_M |-> 6, A |-> 7, BC |-> 0, DE |-> 2, HL |-> 4, IX |-> 4, IY |-> 4,
   SP |-> 6, AF |-> 6, PSW |-> 6]

condition_index ==
  [C |-> 3, CND_M |-> 7, NC |-> 2, NZ |-> 0, P |-> 6, PE |-> 5, PO |-> 4, Z |-> 1]

\* operand_mode, as the set of registers that have each mode.
IR8 == {"A", "B", "C", "D", "E", "H", "L", "REG_M"}
ZR8 == {"A", "B", "C", "D", "E", "H", "L", "IXH", "IXL", "IYH", "IYL"}
IR16 == {"B", "D", "H", "SP"}
ZR16 == {"BC", "DE", "HL", "IX", "IY", "SP"}
COND == DOMAIN condition_index

PREFIX_IX == \hDD
PREFIX_IY == \hFD
NO_PREFIX == 255

register_prefix(base) ==
  CASE base \in {"H", "L", "HL"}      -> NO_PREFIX
    [] base \in {"IXH", "IXL", "IX"}  -> PREFIX_IX
    [] base \in {"IYH", "IYL", "IY"}  -> PREFIX_IY
    [] OTHER                          -> 0

is_mcs8(cpu) == cpu \in {CPU_DP2200, CPU_DP2200V2, CPU_8008}

\* Registers are kept in the 8008's order, conditions in the 8080's.
register_i80_to_i8(r) == (r + 1) % 8
register_i8_to_i80(r) == (r - 1) % 8
condition_i80_to_i8(c) ==
  LET flag == IF (c \div 2) % 2 = 0 THEN c \div 2 + 1 ELSE c \div 2 - 1
      sense == 2 * (c % 2)
  IN  IF sense = 2 /\ (flag \div 2) % 2 = 1 THEN flag ELSE flag + sense

------------------------------------------------------------------------------
\* The type of operand a constraint asks for.
Immediates == {"UI3", "UI5_GE8", "SI8", "UI8", "I8", "UI16", "I16", "REL8",
               "EQ0", "EQ1", "EQ2", "RST"}
Memories == {"ZM", "ZM_NOHL", "ZMHL", "ZMR16", "ZMI3", "ZMI5_GE8", "ZMI8", "ZMI8_HIGH",
             "ZMI16", "ZMIDX", "SPMEM", "CMEM"}
OperandType(c) ==
  CASE c \in Immediates  -> "IMM"
    [] c \in Memories    -> "MEM"
    [] c = "ZMHLD"       -> "HLD"
    [] c = "ZMHLI"       -> "HLI"
    [] c = "ZMDED"       -> "DED"
    [] c = "ZMDEI"       -> "DEI"
    [] OTHER             -> "TOKEN"

\* The base registers it accepts.
Bases ==
  [IR8 |-> IR8, IR8_NOTA |-> IR8 \ {"A"}, IR8_NOT_BOTH_M |-> IR8, IR8_NOT_SAME |-> IR8,
   ZR8 |-> ZR8, ZR8_NOTA |-> ZR8 \ {"A"}, ZR8_NOT_SAME |-> ZR8,
   ZR8_NOPREF |-> {r \in ZR8 : register_prefix(r) \in {0, NO_PREFIX}},
   IR16 |-> IR16, IR16_NOSP |-> IR16 \ {"SP"}, IMR16 |-> {"B", "D"},
   ZR16 |-> ZR16, ZR16_NOSP |-> ZR16 \ {"SP"},
   ZR16_NOPREF |-> {r \in ZR16 : register_prefix(r) \in {0, NO_PREFIX}},
   ZIDX |-> {"HL", "IX", "IY"}, ZMIDX |-> {"HL", "IX", "IY"}, ZM |-> {"HL", "IX", "IY"},
   ZM_NOHL |-> {"IX", "IY"}, ZMHL |-> {"HL"}, ZMR16 |-> {"BC", "DE"}, CMEM |-> {"C", "BC"},
   SPMEM |-> {"SP"}, ZMI3 |-> {REG_NONE}, ZMI5_GE8 |-> {REG_NONE}, ZMI8 |-> {REG_NONE},
   ZMI8_HIGH |-> {REG_NONE}, ZMI16 |-> {REG_NONE},
   AREG |-> {"A"}, HREG |-> {"H"}, FREG |-> {"F"}, DEREG |-> {"DE"}, HLREG |-> {"HL"},
   AFREG |-> {"AF"}, AF2REG |-> {"AF2"}, PSWREG |-> {"PSW"}, SPREG |-> {"SP"},
   IREG |-> {"I"}, RREG |-> {"R"},
   COND |-> COND, COND2 |-> {c \in COND : condition_index[c] < 4}]

\* The values that match perfectly, where the constraint has a range.
Range8080 ==
  [UI3 |-> 0..7, UI5_GE8 |-> 8..31, SI8 |-> -128..127, UI8 |-> 0..255, I8 |-> -128..255,
   UI16 |-> 0..65535, I16 |-> -32768..65535, ZMI3 |-> 0..7, ZMI5_GE8 |-> 8..31,
   ZMI8 |-> 0..255, ZMI8_HIGH |-> \hFF00..\hFFFF, ZMI16 |-> 0..65535, ZMR16 |-> {0},
   EQ0 |-> {0}, EQ1 |-> {1}, EQ2 |-> {2}, RST |-> {8 * n : n \in 0..7}]

\* What is looked at even by a forgiving match, what ends the match when it
\* fails, and what is cut to size with a warning planned.
AlwaysEvaluated == {"ZMR16", "ZMIDX"}
EndsMatch == {"EQ0", "EQ1", "EQ2", "RST", "ZMIDX"}
Truncating == {"SI8", "UI8", "I8", "UI16", "I16"}

\* The constraints whose operands must agree on a prefix, those whose prefix
\* is counted and written, and those that may have a displacement.
Prefixed == {"ZR8", "ZR8_NOTA", "ZR8_NOT_SAME", "ZR16", "ZR16_NOSP", "ZIDX", "ZMIDX", "ZM", "ZM_NOHL"}
Written == Prefixed \ {"ZR8_NOTA", "ZR8_NOT_SAME"}
Displaced == {"ZM", "ZM_NOHL"}
Real(prefix) == prefix \notin {0, NO_PREFIX}

\* One operand is of the kind its constraint asks for.
Fits(c, o, cpu) ==
  /\ o.type = OperandType(c)
  /\ c \in DOMAIN Bases => o.base \in Bases[c]
  /\ c = "COND" /\ cpu = CPU_GBZ80 => condition_index[o.base] < 4

\* What the constraint makes of the value.
Verdict(c, o) ==
  CASE c \in DOMAIN Range8080 ->
         IF o.scalar /\ o.value \in Range8080[c] THEN "perfect"
         ELSE IF c \in Truncating THEN "truncated" ELSE "failed"
    [] c = "REL8" ->
         IF o.scalar THEN "truncated"
         ELSE IF o.value - Following \in -128..127 THEN "perfect" ELSE "failed"
    [] c \in Displaced ->
         IF Real(register_prefix(o.base)) /\ o.scalar /\ o.value \notin -128..127
         THEN "failed" ELSE "perfect"
    [] c = "ZMIDX" -> IF o.scalar /\ o.value # 0 THEN "perfect" ELSE "failed"
    [] OTHER -> "perfect"

------------------------------------------------------------------------------
\* instruction_pattern_match
Positions(ins) == DOMAIN ins.operand

PrefixesOf(pattern, ins) ==
  {register_prefix(ins.operand[n].base) :
     n \in {m \in Positions(ins) : pattern.constraint[m] \in Prefixed}} \ {0}

Shaped(pattern, ins) ==
  /\ ins.cpu \in pattern.min_cpu..pattern.max_cpu
  /\ \A n \in Positions(ins) :
       LET c == pattern.constraint[n]
           o == ins.operand[n]
       IN  /\ Fits(c, o, ins.cpu)
           /\ c = "IR8_NOT_BOTH_M" => ~(o.base = "REG_M" /\ ins.operand[1].base = "REG_M")
           /\ c \in {"IR8_NOT_SAME", "ZR8_NOT_SAME"} => o.base # ins.operand[1].base
  /\ Cardinality(PrefixesOf(pattern, ins)) <= 1
  /\ PrefixesOf(pattern, ins) # {} => ins.cpu >= CPU_Z80 /\ ins.cpu # CPU_GBZ80

Match(pattern, ins, forgiving) ==
  LET Looked(n) == forgiving => pattern.constraint[n] \in AlwaysEvaluated
      verdict(n) == IF Looked(n) THEN Verdict(pattern.constraint[n], ins.operand[n]) ELSE "perfect"
      marks == {n \in Positions(ins) : verdict(n) # "perfect"}
  IN  IF \/ ~Shaped(pattern, ins)
         \/ \E n \in marks : pattern.constraint[n] \in EndsMatch
      THEN "failed"
      ELSE IF marks = {} THEN "perfect" ELSE verdict(Max(marks))

\* instruction_pattern_get_length
Actions(pattern, ins) == IF is_mcs8(ins.cpu) THEN pattern.mcs8_action ELSE pattern.action

HasPrefix(pattern, ins, upto) ==
  \E n \in 1..upto : /\ pattern.constraint[n] \in Written
                     /\ Real(register_prefix(ins.operand[n].base))
\* A slip: (HL), which has no prefix, is given a displacement too.
HasDisplacementUnprefixed(pattern, ins) ==
  \E n \in Positions(ins) : pattern.constraint[n] \in Displaced

HasDisplacement(pattern, ins) ==
  \E n \in Positions(ins) : pattern.constraint[n] \in Displaced /\ HasPrefix(pattern, ins, n)

UnitsOf(action) == IF action[1] \in {"I16_0", "I16_1"} THEN 2 ELSE 1

PatternLength(pattern, ins) ==
  LET actions == Actions(pattern, ins)
  IN  (IF HasPrefix(pattern, ins, Len(ins.operand)) THEN 1 ELSE 0)
      + (IF HasDisplacement(pattern, ins) THEN 1 ELSE 0)
      + FoldLeft(LAMBDA sum, action : sum + UnitsOf(action), 0, actions)

\* find_pattern: the first of the shortest patterns that match, truncated
\* ones included; 0 when there is none.
find_pattern(ins, forgiving) ==
  LET patterns == x80_patterns[ins.mnemonic]
      matching == {n \in DOMAIN patterns : Match(patterns[n], ins, forgiving) # "failed"}
      Shorter(m, n) == PatternLength(patterns[m], ins) < PatternLength(patterns[n], ins)
  IN  IF matching = {} THEN 0
      ELSE Min({n \in matching : \A m \in matching : ~Shorter(m, n)})

x80_instruction_compute_length(ins, forgiving) ==
  PatternLength(x80_patterns[ins.mnemonic][find_pattern(ins, forgiving)], ins)

------------------------------------------------------------------------------
\* instruction_pattern_generate: the bytes of one action.
Index(ins, n) ==
  LET index == register_index[ins.operand[n].base]
  IN  IF is_mcs8(ins.cpu) THEN register_i80_to_i8(index) ELSE index

ConditionField(ins, condition) ==
  IF is_mcs8(ins.cpu) THEN condition_i80_to_i8(condition) ELSE condition
RegisterField(ins, register) ==
  IF is_mcs8(ins.cpu) THEN register ELSE register_i8_to_i80(register)

\* What an action that adds to an opcode adds.
Added(kind, ins) ==
  CASE kind = "PUT"     -> 0
    [] kind = "R0"      -> Index(ins, 1)
    [] kind = "R1"      -> Index(ins, 2)
    [] kind = "R0S3"    -> Index(ins, 1) * 8
    [] kind = "R1S3"    -> Index(ins, 2) * 8
    [] kind = "R0R1"    -> Index(ins, 1) * 8 + Index(ins, 2)
    [] kind = "COND"    -> ConditionField(ins, ins.condition) * 8
    [] kind = "REG"     -> RegisterField(ins, ins.condition)
    [] kind = "REGS"    -> RegisterField(ins, ins.condition \div 8) * 8
                           + RegisterField(ins, ins.condition % 8)
    [] kind = "REGS3"   -> RegisterField(ins, ins.condition) * 8
    [] kind = "COND0S3" -> ConditionField(ins, condition_index[ins.operand[1].base]) * 8
    [] kind = "VALS1"   -> ins.condition * 2
    [] kind = "I0"      -> ins.operand[1].value
    [] kind = "I0S1"    -> ins.operand[1].value * 2
    [] kind = "I0S3"    -> ins.operand[1].value * 8
    [] kind = "I1S1"    -> ins.operand[2].value * 2
    [] kind = "I0R1"    -> ins.operand[1].value * 8 + Index(ins, 2)
    [] kind = "I0R2"    -> ins.operand[1].value * 8 + Index(ins, 3)

Generated(action, ins) ==
  CASE action[1] = "I8_0"  -> LittleEndian(ins.operand[1].value, 1)
    [] action[1] = "I8_1"  -> LittleEndian(ins.operand[2].value, 1)
    [] action[1] = "R8_0"  -> LittleEndian(ins.operand[1].value - Following, 1)
    [] action[1] = "R8_1"  -> LittleEndian(ins.operand[2].value - Following, 1)
    [] action[1] = "I16_0" -> LittleEndian(ins.operand[1].value, 2)
    [] action[1] = "I16_1" -> LittleEndian(ins.operand[2].value, 2)
    [] action[1] = "VAL"   -> <<ins.condition % 256>>
    [] OTHER               -> <<(action[2] + Added(action[1], ins)) % 256>>

\* The displacement follows the first byte, when an action of these writes it.
BeforeDisplacement == {"PUT", "R0", "R1", "R0S3", "R1S3", "R0R1"}

PatternBytes(pattern, ins) ==
  LET actions == Actions(pattern, ins)
      real == {p \in {register_prefix(ins.operand[n].base) :
                        n \in {m \in Positions(ins) : pattern.constraint[m] \in Written}} : Real(p)}
      displacements == {LittleEndian(ins.operand[n].value, 1) :
                          n \in {m \in Positions(ins) : /\ pattern.constraint[m] \in Displaced
                                                        /\ HasPrefix(pattern, ins, m)}}
      Bytes(n) == Generated(actions[n], ins)
                  \o IF n = 1 /\ actions[1][1] \in BeforeDisplacement
                     THEN FlattenSeq(SetToSeq(displacements)) ELSE <<>>
  IN  SetToSeq(real) \o FlattenSeq([n \in DOMAIN actions |-> Bytes(n)])

x80_generate_instruction(ins) ==
  PatternBytes(x80_patterns[ins.mnemonic][find_pattern(ins, FALSE)], ins)

================================================================================
