------------------------------- MODULE X65Encoder -------------------------------
(***************************************************************************)
(* How the 65xx target chooses an addressing mode for an instruction,      *)
(* measures it and generates it (x65/gen.c).  The shape of the operand     *)
(* allows a few modes, shortest first; the first that the mnemonic has and *)
(* whose bytes hold the operand is taken, and failing that the last that   *)
(* the mnemonic has.  An instruction without any is reported, has length   *)
(* zero and generates nothing.                                             *)
(*                                                                         *)
(* An instruction is a record: mnemonic, cpu, the widths abits and xbits   *)
(* that were declared at its place, and its one operand: type, mode (the   *)
(* byte that < > ^ ! or @ selects) and one or two parameters.              *)
(***************************************************************************)
EXTENDS Operands, X65Patterns
LOCAL INSTANCE Integers
LOCAL INSTANCE FiniteSetsExt
LOCAL INSTANCE SequencesExt

\* An operand of a type and a byte selection, with parameters made of Operands.
Operand65(type, mode, parameters) == [type |-> type, mode |-> mode, parameters |-> parameters]

\* The feature macros are defined before an inclusion and stay defined.
Features ==
  [cpu_6502     |-> {"ALL"},
   cpu_65C02    |-> {"ALL", "65C02"},
   cpu_WDC65C02 |-> {"ALL", "65C02", "WDC65C02"},
   cpu_65CE02   |-> {"ALL", "65C02", "WDC65C02", "65CE02"},
   cpu_65C816   |-> {"ALL", "65C02", "WDC65C02", "65C816"}]

Blocks(ins) == {x65_patterns[ins.mnemonic][n] : n \in DOMAIN x65_patterns[ins.mnemonic]}
Guarded(ins) == {block \in Blocks(ins) : block[1] \in Features[ins.cpu]}

\* Zero stands for an absent mode, except for BRK.
Opcode(ins, mode) ==
  LET entries == {block[2][mode] : block \in {b \in Guarded(ins) : mode \in DOMAIN b[2]}}
  IN  IF entries = {} THEN 0 ELSE CHOOSE opcode \in entries : TRUE
HasMode(ins, mode) == Opcode(ins, mode) # 0 \/ (ins.mnemonic = "brk" /\ mode = "IMPL")

------------------------------------------------------------------------------
x65_get_operand_count(mode) ==
  CASE mode \in {"IMPL", "A"}           -> 0
    [] mode \in {"ZPG_REL8", "IMM_IMM"} -> 2
    [] OTHER                            -> 1

\* The bytes of one operand.
x65_get_operand_length(ins, mode) ==
  CASE mode \in {"IMPL", "A"} -> 0
    [] mode = "IMMA" -> ins.abits \div 8
    [] mode = "IMMX" -> ins.xbits \div 8
    [] mode \in {"ABS", "ABS_X", "ABS_Y", "ABS_IND", "ABS_X_IND", "ABS_LNG_IND", "IMM16", "REL16"} -> 2
    [] mode \in {"LNG", "LNG_X"} -> 3
    [] OTHER -> 1

x65_is_operand_pcrel(mode, index) == mode \in {"REL8", "REL16"} \/ (mode = "ZPG_REL8" /\ index = 2)

expression_fits(parameter, bytes, pcrel) ==
  IF ~parameter.scalar THEN bytes >= 2
  ELSE IF pcrel THEN integer_get_size(parameter.value - Following) <= bytes
       ELSE uinteger_get_size(parameter.value) <= bytes

\* MODE_DEFAULT is the expression itself; a selected part has a size of its own.
SelectedBytes == [LOW_BYTE |-> 1, HIGH_BYTE |-> 1, BANK |-> 1, WORD |-> 2, LONG |-> 3]
operand_fits(operand, bytes, pcrel) ==
  IF operand.mode = "DEFAULT" THEN expression_fits(operand.parameters[1], bytes, pcrel)
  ELSE SelectedBytes[operand.mode] <= bytes

\* A slip: what is not known yet is taken not to fit.
CheckedCautious(ins, mode, forgiving) ==
  IF ~HasMode(ins, mode) THEN "failed"
  ELSE IF /\ ~forgiving
          /\ \A index \in 1..x65_get_operand_count(mode) :
               operand_fits(ins.operand, x65_get_operand_length(ins, mode),
                            x65_is_operand_pcrel(mode, index))
       THEN "perfect"
       ELSE "truncated"

\* check_operand_mode.  The first parameter is the one looked at, whichever
\* operand of the mode is being checked.
Checked(ins, mode, forgiving) ==
  IF ~HasMode(ins, mode) THEN "failed"
  ELSE IF \/ forgiving
          \/ \A index \in 1..x65_get_operand_count(mode) :
               operand_fits(ins.operand, x65_get_operand_length(ins, mode),
                            x65_is_operand_pcrel(mode, index))
       THEN "perfect"
       ELSE "truncated"

\* The modes tried for a type of operand, in their order.
Candidates(ins) ==
  CASE ins.operand.type = "NONE"  -> <<"IMPL">>
    [] ins.operand.type = "IMM"   -> <<"IMM8", "IMMA", "IMMX", "IMM16">>
    [] ins.operand.type = "REG_A" -> <<"A">>
    [] ins.operand.type = "MEM"   -> <<"ZPG", "ABS", "LNG", "REL8", "REL16">>
    [] ins.operand.type = "MEM_X" -> <<"ZPG_X", "ABS_X", "LNG_X">>
    [] ins.operand.type = "MEM_Y" -> <<"ZPG_Y", "ABS_Y">>
    [] ins.operand.type = "IND"   -> IF ins.cpu # "cpu_65CE02" THEN <<"ZPG_IND_Z", "ABS_IND">> ELSE <<"ABS_IND">>
    [] ins.operand.type = "IND_X" -> <<"ZPG_X_IND", "ABS_X_IND">>
    [] ins.operand.type = "IND_Y" -> <<"ZPG_IND_Y">>
    [] ins.operand.type = "IND_Z" -> <<"ZPG_IND_Z">>
    [] ins.operand.type = "LNG"   -> <<"LNG_IND", "ABS_LNG_IND">>
    [] ins.operand.type = "LNG_Y" -> <<"LNG_IND_Y">>
    [] ins.operand.type = "STK"   -> <<"STK">>
    [] ins.operand.type = "STK_Y" -> <<"STK_IND_Y">>
    [] ins.operand.type = "PAIR"  -> <<"ZPG_REL8", "IMM_IMM">>

\* check_operand: the mode, or "FAILED" for the source's -1.
check_operand(ins, forgiving) ==
  LET modes == Candidates(ins)
      perfect == {n \in DOMAIN modes : Checked(ins, modes[n], forgiving) = "perfect"}
      truncated == {n \in DOMAIN modes : Checked(ins, modes[n], forgiving) = "truncated"}
  IN  IF perfect # {} THEN modes[Min(perfect)]
      ELSE IF truncated # {} THEN modes[Max(truncated)]
      ELSE "FAILED"

x65_instruction_compute_length(ins, forgiving) ==
  LET mode == check_operand(ins, forgiving)
  IN  IF mode = "FAILED" THEN 0
      ELSE 1 + (IF mode \in {"ZPG_REL8", "IMM_IMM"} THEN 2 ELSE x65_get_operand_length(ins, mode))

------------------------------------------------------------------------------
\* The part of a value that the operand's mode selects.
Selected(operand, value) ==
  CASE operand.mode = "HIGH_BYTE" -> value \div 256
    [] operand.mode = "BANK"      -> value \div 65536
    [] OTHER                      -> value

\* The bytes of one parameter.
ParameterBytes(ins, mode, index) ==
  LET value == Selected(ins.operand, ins.operand.parameters[index].value)
  IN  LittleEndian(IF x65_is_operand_pcrel(mode, index) THEN value - Following ELSE value,
                   x65_get_operand_length(ins, mode))

\* The bit number of BBR, BBS, RMB and SMB is parsed (x65/parser.y) but no
\* part of the opcode.
x65_generate_instruction(ins) ==
  LET mode == check_operand(ins, FALSE)
      count == x65_get_operand_count(mode)
      order == [index \in 1..count |-> IF mode = "IMM_IMM" THEN 3 - index ELSE index]
  IN  IF mode = "FAILED" THEN <<>>
      ELSE <<Opcode(ins, mode)>>
           \o FlattenSeq([index \in 1..count |-> ParameterBytes(ins, mode, order[index])])

================================================================================
