-------------------------------- MODULE Operands --------------------------------
(***************************************************************************)
(* The operands of an instruction as the parsers leave them for a target's *)
(* generator (operand_t): a kind, a base register and the value of the     *)
(* parameter.  What the value refers to is kept, because the generators    *)
(* ask is_scalar: a scalar is a plain number, anything else is a place in  *)
(* the instruction's own section, given here by its distance from the      *)
(* instruction that follows (is_self_relative holds after that one's       *)
(* offset is subtracted).                                                  *)
(***************************************************************************)
LOCAL INSTANCE Integers

CONSTANT Following   \* code_offset of the instruction that follows

ASSUME FollowingIsOffset == Following \in Nat

\* No base register, and no parameter, which evaluates to a scalar zero.
REG_NONE == "REG_NONE"

Operand(type, base, scalar, value) ==
  [type |-> type, base |-> base, scalar |-> scalar, value |-> value]

Immediate(value) == Operand("IMM", REG_NONE, TRUE, value)
Place(distance) == Operand("IMM", REG_NONE, FALSE, Following + distance)
Register(base) == Operand("TOKEN", base, TRUE, 0)
Memory(type, base, value) == Operand(type, base, TRUE, value)

\* The bytes a value takes in a signed and in an unsigned field: a value of
\* three bytes counts as four (values here are below 2^31).
integer_get_size(value) ==
  CASE value = 0 -> 0
    [] value # 0 /\ value \in -128..127 -> 1
    [] value \notin -128..127 /\ value \in -32768..32767 -> 2
    [] OTHER -> 4
uinteger_get_size(value) ==
  CASE value = 0 -> 0
    [] value < 0 -> 8
    [] value \in 1..255 -> 1
    [] value \in 256..65535 -> 2
    [] OTHER -> 4

\* The bits from..from+7 of a value, in two's complement.
ByteOf(value, from) == (value \div 2^from) % 256
LittleEndian(value, bytes) == [n \in 1..bytes |-> ByteOf(value, 8 * (n - 1))]

================================================================================
