-------------------------------- MODULE Encoding --------------------------------
(***************************************************************************)
(* The life of instructions in a target's generator.  The layout measures  *)
(* an instruction first forgivingly, while addresses are still unknown,    *)
(* and then strictly, and lays the section out by the second length; the   *)
(* generation looks the pattern up once more and emits its bytes (asm.c    *)
(* calls both through instruction_compute_length and generate_instruction).*)
(* All the instructions of a group of mnemonics go through this together.  *)
(***************************************************************************)
EXTENDS Operands, Integers, Sequences, FiniteSets

CONSTANTS
  Subjects,     \* what is assembled: [target, cpu, mnemonics]
  Operands80,   \* the operands tried with the 8080/Z80 target
  Operands65,   \* with the 65xx target
  Operands89    \* with the 8089 target

X80 == INSTANCE X80Encoder
X65 == INSTANCE X65Encoder
X89 == INSTANCE X89Encoder

VARIABLES
  subject,   \* the element of Subjects at hand
  lengths,   \* the lengths measured so far, one function per pass
  bytes      \* the bytes generated for every instruction

vars == <<subject, lengths, bytes>>

------------------------------------------------------------------------------
\* Every list of operands of which the n-th is in slots[n].
Lists(slots) ==
  CASE Len(slots) = 0 -> {<<>>}
    [] Len(slots) = 1 -> {<<a>> : a \in slots[1]}
    [] Len(slots) = 2 -> slots[1] \X slots[2]
    [] Len(slots) = 3 -> slots[1] \X slots[2] \X slots[3]

\* The value the parser puts next to the mnemonic: a condition, one or two
\* registers, or the byte of an 8008 instruction (x80/isa.h).
Conditions(mnemonic) ==
  LET rows == X80!x80_patterns[mnemonic]
      kinds == UNION {{row.action[n][1] : n \in DOMAIN row.action} : row \in {rows[m] : m \in DOMAIN rows}}
  IN  IF kinds \cap {"COND", "REG", "REGS3"} # {} THEN 0..7
      ELSE IF "REGS" \in kinds THEN 0..62
      ELSE IF "VAL" \in kinds THEN 8..15 ELSE {0}

\* The 8008 mnemonics that name their register have arrays without operands.
Operandless80 == {"i8008_dc_r_0", "i8008_in_r_0", "i8008_sb_r_0"}

Written80(cpu, mnemonic) ==
  LET rows == X80!x80_patterns[mnemonic]
      count == IF mnemonic \in Operandless80 THEN 0 ELSE Len(rows[1].constraint)
      Slots(row) == [n \in 1..count |-> {o \in Operands80 : X80!Fits(row.constraint[n], o, cpu)}]
  IN  [mnemonic : {mnemonic}, cpu : {cpu}, condition : Conditions(mnemonic),
       operand : UNION {Lists(Slots(rows[n])) : n \in {m \in DOMAIN rows :
                                                 cpu \in rows[m].min_cpu..rows[m].max_cpu}}]

\* The types of operand the parser refuses on some of the processors.
OnlyOn ==
  [IND_Z |-> {"cpu_65CE02"}, STK |-> {"cpu_65C816"}, LNG |-> {"cpu_65C816"}, LNG_Y |-> {"cpu_65C816"},
   STK_Y |-> {"cpu_65CE02", "cpu_65C816"}, PAIR |-> DOMAIN X65!Features \ {"cpu_6502"}]

\* The widths are eight bits unless the program declares others for a 65C816.
Written65(cpu, mnemonic) ==
  LET widths == IF cpu = "cpu_65C816" THEN {8, 16} ELSE {8}
      operands == {o \in Operands65 : o.type \in DOMAIN OnlyOn => cpu \in OnlyOn[o.type]}
  IN  [mnemonic : {mnemonic}, cpu : {cpu}, abits : widths, xbits : widths, operand : operands]

Written89(mnemonic) ==
  LET rows == X89!x89_patterns[mnemonic]
      Slots(format) == [n \in DOMAIN format.constraint |->
                          {o \in Operands89 : X89!Fits(format.constraint[n], o)}]
  IN  [mnemonic : {mnemonic}, operand : UNION {Lists(Slots(X89!OPDS[rows[n][1]])) : n \in DOMAIN rows}]

\* instruction_compute_length and generate_instruction of a target.
compute_length(target, ins, forgiving) ==
  CASE target = "x80" -> X80!x80_instruction_compute_length(ins, forgiving)
    [] target = "x65" -> X65!x65_instruction_compute_length(ins, forgiving)
    [] target = "x89" -> X89!x89_instruction_compute_length(ins, forgiving)

generate_instruction(target, ins) ==
  CASE target = "x80" -> X80!x80_generate_instruction(ins)
    [] target = "x65" -> X65!x65_generate_instruction(ins)
    [] target = "x89" -> X89!x89_generate_instruction(ins)

\* The program ends at an instruction no pattern accepts; what reaches the
\* generation has one.
Accepted(target, ins) ==
  CASE target = "x80" -> X80!find_pattern(ins, FALSE) # 0
    [] target = "x65" -> X65!check_operand(ins, FALSE) # "FAILED"
    [] target = "x89" -> X89!find_pattern(ins, FALSE) # 0

Instructions ==
  UNION {{ins \in CASE subject.target = "x80" -> Written80(subject.cpu, mnemonic)
                    [] subject.target = "x65" -> Written65(subject.cpu, mnemonic)
                    [] subject.target = "x89" -> Written89(mnemonic) :
            Accepted(subject.target, ins)} : mnemonic \in subject.mnemonics}

------------------------------------------------------------------------------
Init ==
  /\ subject \in Subjects
  /\ lengths = <<>>
  /\ bytes = <<>>

\* A pass of the layout: forgiving the first time, strict after that.
Measure ==
  /\ Len(lengths) < 2
  /\ lengths' = Append(lengths, [ins \in Instructions |-> compute_length(subject.target, ins, lengths = <<>>)])
  /\ UNCHANGED <<subject, bytes>>

Generate ==
  /\ Len(lengths) = 2
  /\ bytes = <<>>
  /\ bytes' = [ins \in DOMAIN lengths[2] |-> generate_instruction(subject.target, ins)]
  /\ UNCHANGED <<subject, lengths>>

\* Nothing is left to do.
Done == bytes # <<>> /\ UNCHANGED vars

Next == Measure \/ Generate \/ Done

Spec == Init /\ [][Next]_vars

------------------------------------------------------------------------------
Measured == Len(lengths) = 2
Generated == bytes # <<>>

\* The second pass moves what follows an instruction by the length it measures
\* strictly, and the generation finds the pattern again and fills the place:
\* were one byte more or less emitted than measured, every later label of the
\* section would be off (asm.c:864-931, the three compute_length and
\* generate_instruction functions).
LengthIsEmitted ==
  Generated => \A ins \in DOMAIN bytes : Len(bytes[ins]) = lengths[2][ins]

\* An instruction measured strictly never turns out shorter than the forgiving
\* first pass assumed: the first layout is a lower bound, and what does not fit
\* it only grows (the order of the patterns and of the addressing modes).
OnlyLengthens ==
  Measured => \A ins \in DOMAIN lengths[1] : lengths[1][ins] <= lengths[2][ins]

\* What the programmer can mean by an instruction: its operands, up to the
\* ways of writing the same thing twice, for those the pattern accepts without
\* a mark.
Unmarked(ins) ==
  CASE subject.target = "x80" ->
         X80!Match(X80!x80_patterns[ins.mnemonic][X80!find_pattern(ins, FALSE)], ins, FALSE) = "perfect"
    [] subject.target = "x65" ->
         X65!Checked(ins, X65!check_operand(ins, FALSE), FALSE) = "perfect" /\ ins.operand.mode = "DEFAULT"
    [] subject.target = "x89" ->
         X89!Match(X89!OPDS[X89!x89_patterns[ins.mnemonic][X89!find_pattern(ins, FALSE)][1]], ins, FALSE) = "perfect"

\* (C) is (BC), the displacement of JP (IX+d) is dropped, EX takes its operands
\* in either order.
Meaning80(ins) ==
  LET Same(o) == CASE o.type = "MEM" /\ o.base = "C" -> [o EXCEPT !.base = "BC"]
                   [] o.type = "MEM" /\ ins.mnemonic = "z80_jp_1" -> [o EXCEPT !.value = 0]
                   [] OTHER -> o
      operand == [n \in DOMAIN ins.operand |-> Same(ins.operand[n])]
  IN  IF ins.mnemonic = "z80_ex_2" THEN <<{operand[1], operand[2]}>> ELSE <<operand, ins.condition>>

\* JML and JSL are the long forms of JMP and JSR.
Meaning65(ins) ==
  <<CASE ins.mnemonic = "jml" -> "jmp" [] ins.mnemonic = "jsl" -> "jsr" [] OTHER -> ins.mnemonic, ins.operand>>

\* LJMP is JMP with its long displacement, and so on.
ShortName ==
  [lcall |-> "call", ljbt |-> "jbt", ljmce |-> "jmce", ljmcne |-> "jmcne", ljmp |-> "jmp", ljnbt |-> "jnbt",
   ljnz |-> "jnz", ljnzb |-> "jnzb", ljz |-> "jz", ljzb |-> "jzb"]

\* An immediate byte of the 8089 is cut without being looked at.
Meaning89(ins) ==
  LET format == X89!OPDS[X89!x89_patterns[ins.mnemonic][X89!find_pattern(ins, FALSE)][1]]
      name == IF ins.mnemonic \in DOMAIN ShortName THEN ShortName[ins.mnemonic] ELSE ins.mnemonic
  IN  <<name, [n \in DOMAIN ins.operand |->
                 IF format.constraint[n] = "I8" THEN ByteOf(ins.operand[n].value, 0) ELSE ins.operand[n]]>>

Meaning(ins) ==
  CASE subject.target = "x80" -> Meaning80(ins)
    [] subject.target = "x65" -> Meaning65(ins)
    [] subject.target = "x89" -> Meaning89(ins)
\* The widths declared at an instruction are known to whoever decodes it.
Machine(ins) == IF subject.target = "x65" THEN <<ins.abits, ins.xbits>> ELSE <<>>

\* What no decoder can tell apart, because the tables and the checks of the
\* 65xx target give it away: the displacement of BBR and BBS is never looked
\* at, the 65C816 inherits four instructions it does not have, PEA has MVN's
\* opcode, and the 65CE02 has two opcodes twice.
Clashing(ins) ==
  /\ subject.target = "x65"
  /\ ins.mnemonic \in CASE subject.cpu = "cpu_65C816" -> {"bbr", "bbs", "rmb", "smb", "pea"}
                         [] subject.cpu = "cpu_65CE02" -> {"bbr", "bbs", "inw", "stp"}
                         [] OTHER                      -> {"bbr", "bbs"}

Decoded == {ins \in DOMAIN bytes : Unmarked(ins) /\ ~Clashing(ins)}

\* No two instructions that mean different things are assembled to the same
\* bytes: every field of the operands and every mnemonic leaves its mark in
\* the code (the pattern tables and the three generate_instruction functions).
OneMeaning ==
  Generated =>
    Cardinality({<<Machine(ins), bytes[ins], Meaning(ins)>> : ins \in Decoded})
      = Cardinality({<<Machine(ins), bytes[ins]>> : ins \in Decoded})

\* No instruction is the beginning of another one, so a processor that reads
\* the bytes one after the other knows where it ends: lengths, prefixes and
\* mode numbers that the tables and the functions write agree (x80/gen.c,
\* x65/gen.c:442-488, x89/gen.c:255-394).
Decodable ==
  Generated =>
    LET codes == {<<Machine(ins), bytes[ins]>> : ins \in Decoded}
    IN  \A code \in codes : \A n \in 1..Len(code[2]) - 1 : <<code[1], SubSeq(code[2], 1, n)>> \notin codes

================================================================================
