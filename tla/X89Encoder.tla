------------------------------- MODULE X89Encoder -------------------------------
(***************************************************************************)
(* How the 8089 target chooses a pattern for an instruction, measures it   *)
(* and generates it (x89/gen.c).  A memory operand has an address mode and *)
(* a base register; a far immediate has a segment of its own.              *)
(***************************************************************************)
EXTENDS Operands, X89Patterns
LOCAL INSTANCE Integers
LOCAL INSTANCE Bitwise
LOCAL INSTANCE FiniteSetsExt
LOCAL INSTANCE SequencesExt

\* Register numbers; PP is the fourth base register (x86/isa.h).
RegisterNumber ==
  [GA |-> 0, GB |-> 1, GC |-> 2, BC |-> 3, TP |-> 4, IX |-> 5, CC |-> 6, MC |-> 7, PP |-> 3]
\* A slip: an offset is announced as none.
ModeNumberShort == [BASE |-> 0, OFFSET |-> 0, INDEX |-> 2, INCREMENT |-> 3]
ModeNumber == [BASE |-> 0, OFFSET |-> 1, INDEX |-> 2, INCREMENT |-> 3]

General(register) == Operand("GPRW", register, TRUE, 0)
MemoryAt(mode, base, value) ==
  [type |-> "MEM", base |-> base, scalar |-> TRUE, value |-> value, x89_mode |-> mode]
FarImmediate(value, segment) ==
  [type |-> "FARIMM", base |-> REG_NONE, scalar |-> TRUE, value |-> value, segment_value |-> segment]

------------------------------------------------------------------------------
\* The type of operand a constraint asks for, and the registers of a pointer.
Fits(constraint, operand) ==
  CASE constraint \in {"I3", "I8", "I16", "WIDTH", "REL8", "REL16"} -> operand.type = "IMM"
    [] constraint = "I32" -> operand.type \in {"IMM", "FARIMM"}
    [] constraint = "R"   -> operand.type = "GPRW"
    [] constraint = "P"   -> operand.type = "GPRW" /\ operand.base \in {"GA", "GB", "GC", "TP"}
    [] constraint = "M"   -> operand.type = "MEM"

\* What a strict match makes of a value: the 8 and 16-bit immediates are not
\* looked at, and a 16-bit displacement asks for a scalar although the
\* address of a label is none.
Verdict(constraint, operand) ==
  CASE constraint = "I3" ->
         IF operand.scalar /\ operand.value \in 0..7 THEN "perfect" ELSE "truncated"
    [] constraint = "REL8" ->
         IF operand.scalar THEN "truncated"
         ELSE IF integer_get_size(operand.value - Following) > 1 THEN "failed" ELSE "perfect"
    [] constraint = "REL16" ->
         IF ~operand.scalar \/ integer_get_size(operand.value - Following) > 2
         THEN "truncated" ELSE "perfect"
    [] constraint = "WIDTH" ->
         IF operand.scalar /\ operand.value \in {8, 16} THEN "perfect" ELSE "failed"
    [] OTHER -> "perfect"

\* instruction_pattern_match.  A failed width ends the match; any other mark
\* is overwritten by a later one.
Match(format, ins, forgiving) ==
  LET positions == DOMAIN ins.operand
      value(n) == IF forgiving THEN "perfect" ELSE Verdict(format.constraint[n], ins.operand[n])
      marks == {n \in positions : value(n) # "perfect"}
  IN  IF \/ DOMAIN format.constraint # positions
         \/ format.immtype = "MOV_DST"
         \/ \E n \in positions : ~Fits(format.constraint[n], ins.operand[n])
         \/ \E n \in marks : format.constraint[n] = "WIDTH"
      THEN "failed"
      ELSE IF marks = {} THEN "perfect" ELSE value(Max(marks))

------------------------------------------------------------------------------
HasOffset(format, ins) ==
  format.memopd # NO_OPERAND /\ ins.operand[format.memopd].x89_mode = "OFFSET"

\* instruction_pattern_get_length, of one pattern.
OwnLength(format, ins) ==
  2 + (IF HasOffset(format, ins) THEN 1 ELSE 0)
    + (CASE format.immtype \in {"BYTE", "RELBYTE"}             -> 1
         [] format.immtype \in {"WORD", "RELWORD", "IMM_DISP"} -> 2
         [] format.immtype = "FARWORD"                         -> 4
         [] OTHER                                              -> 0)

\* The pattern at an index of the mnemonic's array, with the one after it when
\* it is the first half of a memory to memory move.
Halves(ins, index) ==
  LET rows == x89_patterns[ins.mnemonic]
  IN  IF OPDS[rows[index][1]].immtype = "MOV_SRC" THEN <<rows[index], rows[index + 1]>> ELSE <<rows[index]>>

PatternLength(ins, index) ==
  LET halves == Halves(ins, index)
  IN  FoldLeft(LAMBDA sum, row : sum + OwnLength(OPDS[row[1]], ins), 0, halves)

\* find_pattern: the first of the shortest perfect patterns, or else the last
\* truncated one; 0 when there is none.
find_pattern(ins, forgiving) ==
  LET rows == x89_patterns[ins.mnemonic]
      Matching(type) == {n \in DOMAIN rows : Match(OPDS[rows[n][1]], ins, forgiving) = type}
      perfect == Matching("perfect")
      shortest == {n \in perfect : \A m \in perfect : PatternLength(ins, n) <= PatternLength(ins, m)}
  IN  IF perfect # {} THEN Min(shortest)
      ELSE IF Matching("truncated") # {} THEN Max(Matching("truncated")) ELSE 0

\* A length of -1 ends the program.
x89_instruction_compute_length(ins, forgiving) ==
  LET index == find_pattern(ins, forgiving)
  IN  IF index = 0 THEN -1 ELSE PatternLength(ins, index)

------------------------------------------------------------------------------
\* A slip: the base register is left out of the opcode.
MemoryFieldBaseless(format, ins) ==
  IF format.memopd = NO_OPERAND THEN 0 ELSE 2 * ModeNumber[ins.operand[format.memopd].x89_mode]

\* instruction_pattern_generate: the parts of the opcode, which are ORed.
MemoryField(format, ins) ==
  IF format.memopd = NO_OPERAND THEN 0
  ELSE 2 * ModeNumber[ins.operand[format.memopd].x89_mode]
       + 256 * RegisterNumber[ins.operand[format.memopd].base]

\* A bit number cut to the width of the opcode, or a register.
RegisterField(format, ins) ==
  IF format.regopd = NO_OPERAND THEN 0
  ELSE LET operand == ins.operand[format.regopd]
       IN  32 * (IF operand.type = "IMM" THEN operand.value % 2^11 ELSE RegisterNumber[operand.base])

Wide(operand, bit) == IF operand.value = 16 THEN bit ELSE 0
WidthField(format, ins) ==
  CASE format.immtype \in {"BYTE", "RELBYTE"}            -> \h08
    [] format.immtype \in {"WORD", "RELWORD", "FARWORD"} -> \h10
    [] format.immtype = "IMM_DISP"                       -> \h18
    [] format.immtype = "WID" -> Wide(ins.operand[1], \h40) + Wide(ins.operand[2], \h20)
    [] OTHER                                             -> 0

OpcodeWord(row, ins) ==
  LET format == OPDS[row[1]]
  IN  ((row[2] | MemoryField(format, ins)) | WidthField(format, ins)) | RegisterField(format, ins)

\* A near immediate used as a far one is written with the segment of its
\* section, which is a relocation: its word is zero.
SegmentOf(operand) == IF operand.type = "FARIMM" THEN operand.segment_value ELSE 0

ImmediateBytes(format, ins) ==
  IF format.immopd = NO_OPERAND THEN <<>>
  ELSE LET operand == ins.operand[format.immopd]
       IN  CASE format.immtype = "BYTE"    -> LittleEndian(operand.value, 1)
             [] format.immtype = "RELBYTE" -> LittleEndian(operand.value - Following, 1)
             [] format.immtype = "WORD"    -> LittleEndian(operand.value, 2)
             [] format.immtype = "RELWORD" -> LittleEndian(operand.value - Following, 2)
             [] format.immtype = "FARWORD" ->
                  LittleEndian(operand.value, 2) \o LittleEndian(SegmentOf(operand), 2)
             [] format.immtype = "IMM_DISP" ->
                  LittleEndian(operand.value, 1)
                  \o LittleEndian(ins.operand[format.immopd + 1].value - Following, 1)

RowBytes(row, ins) ==
  LET format == OPDS[row[1]]
  IN  LittleEndian(OpcodeWord(row, ins), 2)
      \o (IF HasOffset(format, ins) THEN LittleEndian(ins.operand[format.memopd].value, 1) ELSE <<>>)
      \o ImmediateBytes(format, ins)

\* An instruction without a pattern is reported and generates nothing.
x89_generate_instruction(ins) ==
  LET index == find_pattern(ins, FALSE)
  IN  IF index = 0 THEN <<>>
      ELSE FoldLeft(LAMBDA bytes, row : bytes \o RowBytes(row, ins), <<>>, Halves(ins, index))

================================================================================
