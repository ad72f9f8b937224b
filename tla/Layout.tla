------------------------------- MODULE Layout -------------------------------
(***************************************************************************)
(* The layout passes of the assembler (src/asm.c): parsing leaves a stream *)
(* of instructions; make_instruction_groups pairs the block directives,    *)
(* precompile_instruction_stream chains the stream section by section and  *)
(* sizes every instruction optimistically, and then update_code_offsets    *)
(* and compile_instruction_stream alternate until no offset moves.         *)
(*                                                                         *)
(* Each action visits one instruction, as one iteration of the C loop      *)
(* does.  An instruction is named by its place in the stream; 0 is the     *)
(* NULL pointer.  Section number s is output.section[s - 1]; the           *)
(* instruction that precompile appends to the chain of section s is named  *)
(* EndOf(s).                                                               *)
(***************************************************************************)
EXTENDS Integers, Sequences, FiniteSets

CONSTANTS Programs,     \* the instruction streams the parser may deliver
          Names,        \* the symbols a program may use
          MaxSection,   \* bound on the sections of one program
          DefaultText,  \* does the output format open .text by itself?
          Target,       \* whose instruction encodings: "x86" or "x65"
          Reach,        \* a short operand holds -Reach .. Reach - 1
          MaxOffset     \* the greatest offset; in C a long, up to 2^63 - 1

Scalar    == 0          \* VAR_NONE: a value that belongs to no section
NoSection == -1         \* current_section == (size_t)-1

Ops   == {"insn", "data", "skip", "org", "equ", "section",
          "times", "endtimes", "fill", "endfill"}
Atoms == Names \cup {"none", "$", "$$"}

(***************************************************************************)
(* Operands are linear: pos - neg + add, over symbols, $ and $$, or (align *)
(* greater than 0) the padding expression the parser builds for .align.    *)
(***************************************************************************)
Exprs == [pos : Atoms, neg : Atoms, add : Int, align : Nat]

Instructions ==
  [op : Ops, mode : {"rel", "imm"}, arg : Exprs, name : Names \cup {"none"},
   sec : 0 .. MaxSection, short : Nat, long : Nat]

IsConst(e) == e.pos = "none" /\ e.neg = "none" /\ e.align = 0

WellFormed(p) ==
  /\ p \in Seq(Instructions)
  /\ \A i, j \in 1 .. Len(p) :
       p[i].op = "equ" /\ p[j].op = "equ" /\ p[i].name = p[j].name => i = j
  /\ \A i \in 1 .. Len(p) :
       /\ p[i].op = "equ" => p[i].name \in Names
       /\ p[i].op = "section" => p[i].sec \in 1 .. MaxSection
       /\ p[i].op = "skip" /\ IsConst(p[i].arg) => p[i].arg.add >= 0
       /\ p[i].short <= p[i].long

ASSUME ConstantsAssumption ==
  /\ \A p \in Programs : WellFormed(p)
  /\ Names \cap {"none", "$", "$$"} = {}
  /\ MaxSection \in Nat \ {0}
  /\ DefaultText \in BOOLEAN
  /\ Target \in {"x86", "x65"}
  /\ Reach \in Nat \ {0}
  /\ MaxOffset \in Nat

VARIABLES
  prog,       \* the stream
  phase,      \* which loop of main is running
  pc,         \* the instruction the loop is at
  cur,        \* current_section
  sym,        \* globals: the value and section of every symbol
  term,       \* instruction_t.termination
  open,       \* the enclosures make_instruction_groups is nested in
  created,    \* output.section_count
  first,      \* section.data.first_instruction
  last,       \* the instruction whose link last_instruction points at
  following,  \* instruction_t.following
  sec,        \* instruction_t.containing_section
  off,        \* instruction_t.code_offset
  size,       \* instruction_t.code_size
  count,      \* repetition.count or fill.count
  changed,    \* what update_code_offsets returns
  compiled    \* has compile_instruction_stream run at least once?

chainVars == <<created, first, last, following, sec>>
vars == <<prog, phase, pc, cur, sym, term, open, chainVars, off, size, count,
          changed, compiled>>

Ins      == 1 .. Len(prog)
Sections == 1 .. MaxSection
EndOf(s) == Len(prog) + s
Nodes    == 1 .. Len(prog) + MaxSection
Refs     == [val : Int, sec : Int]
-----------------------------------------------------------------------------
(***************************************************************************)
(* evaluate_expression, for the operand forms above, at location here with *)
(* current_section c and symbols s.  A difference is a scalar when both    *)
(* sides belong to sections; otherwise it belongs where its left side does. *)
(***************************************************************************)
AtomValue(a, here, c, s) ==
  CASE a = "none"   -> [val |-> 0,    sec |-> Scalar]
    [] a = "$"  -> [val |-> here, sec |-> c]
    [] a = "$$" -> [val |-> 0,    sec |-> c]
    [] OTHER    -> s[a]

PowerOfTwo(n) == \E k \in 0 .. n : 2 ^ k = n

(* integer_align_to: rounds up to a power of two, and for any other n      *)
(* subtracts the quotient where the remainder is meant.                    *)
AlignTo(value, n) ==
  IF PowerOfTwo(n) THEN ((value + n - 1) \div n) * n
                   ELSE value + n - 1 - value \div n

Eval(e, here, c, s) ==
  IF e.align > 0 THEN [val |-> AlignTo(here, e.align) - here, sec |-> Scalar]
  ELSE LET p == AtomValue(e.pos, here, c, s)
           n == AtomValue(e.neg, here, c, s)
       IN  [val |-> p.val - n.val + e.add,
            sec |-> IF n.sec = Scalar THEN p.sec ELSE Scalar]

Value(e, here, c, s) == Eval(e, here, c, s).val

(***************************************************************************)
(* Does the operand of instruction i fit its short form?  x86 measures a   *)
(* branch from the next instruction and leaves one that is not             *)
(* self-relative to the linker; the 65xx family wants a scalar.            *)
(***************************************************************************)
Fits(i, c) ==
  LET ins   == prog[i]
      v     == Eval(ins.arg, off[i], c, sym)
      delta == v.val - off[following[i]]
  IN  \/ /\ Target = "x86" /\ ins.mode = "rel"
         /\ v.sec # sec[i] \/ delta \in -Reach .. Reach - 1
      \/ /\ Target = "x86" /\ ins.mode = "imm"
         /\ v.sec = Scalar /\ v.val \in -Reach .. Reach - 1
      \/ /\ Target = "x65" /\ ins.mode = "rel"
         /\ v.sec = Scalar /\ delta \in -Reach .. Reach - 1
      \/ /\ Target = "x65" /\ ins.mode = "imm"
         /\ v.sec = Scalar /\ v.val \in 0 .. 2 * Reach - 1

(* Slip: the x86 matcher forgets the form of the previous pass.            *)
TargetLengthForgetful(i, forgiving, c) ==
  IF forgiving \/ Fits(i, c) THEN prog[i].short ELSE prog[i].long

(***************************************************************************)
(* instruction_compute_length: the shortest form that fits.  x86 never     *)
(* returns to a form shorter than the one it had in the previous pass.     *)
(***************************************************************************)
TargetLength(i, forgiving, c) ==
  IF /\ Target = "x86" => size[i] <= prog[i].short
     /\ forgiving \/ Fits(i, c)
  THEN prog[i].short
  ELSE prog[i].long

(***************************************************************************)
(* instruction_get_length; n is the count field after the evaluation it    *)
(* makes for .fill.                                                        *)
(***************************************************************************)
GetLength(i, forgiving, c, n) ==
  LET ins == prog[i]
  IN  CASE ins.op = "insn"    -> TargetLength(i, forgiving, c)
        [] ins.op = "data"    -> ins.short
        [] ins.op = "skip"    -> Value(ins.arg, off[i], c, sym)
        [] ins.op = "endfill" -> n[term[i]]
        [] OTHER              -> 0

(* Slip: all copies of a block are added to the first.                    *)
NewOffsetTwice(i) ==
  LET t == term[i]
  IN  CASE prog[i].op = "org"      -> Value(prog[i].arg, off[i], sec[i], sym)
        [] prog[i].op = "endtimes" -> off[i] + (off[i] - off[t]) * count[t]
        [] prog[i].op = "endfill"  -> off[t] + count[t]
        [] OTHER                   -> off[i] + size[i]

(***************************************************************************)
(* The offset that update_code_offsets computes for the instruction after  *)
(* instruction i of a chain.                                               *)
(***************************************************************************)
NewOffset(i) ==
  LET t == term[i]
  IN  CASE prog[i].op = "org"      -> Value(prog[i].arg, off[i], sec[i], sym)
        [] prog[i].op = "endtimes" -> off[t] + (off[i] - off[t]) * count[t]
        [] prog[i].op = "endfill"  -> off[t] + count[t]
        [] OTHER                   -> off[i] + size[i]
-----------------------------------------------------------------------------
(***************************************************************************)
(* The states in which the instruction at pc ends the program: exit(1) for *)
(* a difference of two labels while parsing, a failed assert_scalar, or a  *)
(* NULL termination or following pointer.                                  *)
(***************************************************************************)
Evaluates(i) ==
  \/ phase = "parse"      /\ prog[i].op = "equ"
  \/ phase = "precompile" /\ prog[i].op \in {"skip", "fill", "times"}
  \/ phase = "update"     /\ prog[i].op \in {"equ", "org"} /\ following[i] # 0
  \/ phase = "compile"    /\ prog[i].op \in {"skip", "fill", "insn"}

BadOperand(i) ==
  LET e == prog[i].arg
      p == AtomValue(e.pos, off[i], cur, sym).sec
      n == AtomValue(e.neg, off[i], cur, sym).sec
  IN  /\ e.align = 0
      /\ \/ p = Scalar /\ n # Scalar
         \/ phase = "parse" /\ p # Scalar /\ n # Scalar
         \/ prog[i].op \in {"skip", "org"} /\ p # Scalar /\ n = Scalar

BadPointer(i) ==
  \/ /\ phase \in {"precompile", "compile"}
     /\ prog[i].op = "endfill" /\ term[i] = 0
  \/ /\ phase = "update" /\ following[i] # 0
     /\ prog[i].op \in {"endtimes", "endfill"} /\ term[i] = 0
  \/ /\ phase = "compile" /\ following[i] = 0
     /\ prog[i].op = "insn" /\ prog[i].mode = "rel"
     /\ Target = "x86" \/ Eval(prog[i].arg, off[i], cur, sym).sec = Scalar

Stops(i) == (Evaluates(i) /\ BadOperand(i)) \/ BadPointer(i)

At(p) == phase = p /\ pc \in Ins /\ ~Stops(pc)

Stop ==
  /\ pc \in Ins /\ Stops(pc)
  /\ phase' = "stopped"
  /\ UNCHANGED <<prog, pc, cur, sym, term, open, chainVars, off, size, count,
                 changed, compiled>>

(***************************************************************************)
(* yyparse: a label or .equ also defines its symbol at once                *)
(* (preprocessor_define), at location 0 of the first section.              *)
(***************************************************************************)
Parse ==
  /\ At("parse")
  /\ sym' = IF prog[pc].op = "equ"
            THEN [sym EXCEPT ![prog[pc].name] = Eval(prog[pc].arg, 0, cur, sym)]
            ELSE sym
  /\ pc' = pc + 1
  /\ UNCHANGED <<prog, phase, cur, term, open, chainVars, off, size, count,
                 changed, compiled>>

EndParse ==
  /\ phase = "parse" /\ pc = Len(prog) + 1
  /\ phase' = "group" /\ pc' = 1
  /\ UNCHANGED <<prog, cur, sym, term, open, chainVars, off, size, count,
                 changed, compiled>>

(***************************************************************************)
(* make_instruction_groups, its recursion kept as the stack open of the    *)
(* enclosure_heads.  A closing directive that does not match the innermost *)
(* enclosure is reported and left without a termination.                   *)
(***************************************************************************)
Opens(i) == prog[i].op \in {"times", "fill"}

(* Slip: any closing directive ends any block.                             *)
ClosesAny(o, i) == prog[i].op \in {"endtimes", "endfill"}

Closes(o, i) ==
  \/ prog[o].op = "times" /\ prog[i].op = "endtimes"
  \/ prog[o].op = "fill"  /\ prog[i].op = "endfill"

Group ==
  /\ At("group")
  /\ pc' = pc + 1
  /\ \/ /\ Opens(pc)
        /\ open' = Append(open, pc)
        /\ UNCHANGED term
     \/ /\ open # <<>> /\ Closes(open[Len(open)], pc)
        /\ term' = [term EXCEPT ![pc] = open[Len(open)], ![open[Len(open)]] = pc]
        /\ open' = SubSeq(open, 1, Len(open) - 1)
     \/ /\ ~Opens(pc) /\ ~(open # <<>> /\ Closes(open[Len(open)], pc))
        /\ UNCHANGED <<term, open>>
  /\ UNCHANGED <<prog, phase, cur, sym, chainVars, off, size, count, changed,
                 compiled>>

EndGroup ==
  /\ phase = "group" /\ pc = Len(prog) + 1
  /\ phase' = "precompile" /\ pc' = 1 /\ cur' = NoSection
  /\ UNCHANGED <<prog, sym, term, open, chainVars, off, size, count, changed,
                 compiled>>
-----------------------------------------------------------------------------
(***************************************************************************)
(* precompile_instruction_stream.  A section directive selects its section *)
(* and stays out of every chain; any other instruction joins the chain of  *)
(* the current section, opening .text first when the format allows it.     *)
(***************************************************************************)
OpensText(ins) == ins.op # "section" /\ created = 0 /\ DefaultText

(* Slip: a section directive always makes a new section.                   *)
SectionCountFresh(ins) ==
  IF OpensText(ins) THEN 1
  ELSE IF ins.op = "section" THEN created + 1 ELSE created

SectionCount(ins) ==
  IF OpensText(ins) THEN 1
  ELSE IF ins.op = "section" /\ ins.sec > created THEN ins.sec ELSE created

(* Slip: the instruction before in the stream, instead of in the section.  *)
LastInPrevious(c) == pc - 1

LastIn(c) == last[c]

Precompile ==
  LET ins     == prog[pc]
      c       == IF OpensText(ins) THEN 1 ELSE cur
      chained == ins.op # "section" /\ c # NoSection
      counted == IF ins.op \in {"times", "fill"}
                 THEN [count EXCEPT ![pc] = Value(ins.arg, off[pc], c, sym)]
                 ELSE count
  IN  /\ At("precompile")
      /\ cur' = IF ins.op = "section" THEN ins.sec ELSE c
      /\ created' = SectionCount(ins)
      /\ sec' = [sec EXCEPT ![pc] = c]
      /\ IF chained
         THEN /\ last' = [last EXCEPT ![c] = pc]
              /\ IF LastIn(c) = 0
                 THEN /\ first' = [first EXCEPT ![c] = pc]
                      /\ UNCHANGED following
                 ELSE /\ following' = [following EXCEPT ![LastIn(c)] = pc]
                      /\ UNCHANGED first
         ELSE UNCHANGED <<first, last, following>>
      /\ count' = counted
      /\ size' = [size EXCEPT ![pc] = GetLength(pc, TRUE, c, counted)]
      /\ pc' = pc + 1
      /\ UNCHANGED <<prog, phase, sym, term, open, off, changed, compiled>>

(* The loop after it: every chain is closed by an empty instruction.       *)
EndPrecompile ==
  /\ phase = "precompile" /\ pc = Len(prog) + 1
  /\ following' = [i \in Ins |->
                     IF \E s \in Sections : last[s] = i
                     THEN EndOf(CHOOSE s \in Sections : last[s] = i)
                     ELSE following[i]]
  /\ cur' = created + 1
  /\ phase' = "update" /\ pc' = 1 /\ changed' = FALSE
  /\ UNCHANGED <<prog, sym, term, open, created, first, last, sec, off, size,
                 count, compiled>>

(***************************************************************************)
(* update_code_offsets: an instruction in no chain is passed over, any     *)
(* other may push the one that follows it to a higher offset; .equ takes   *)
(* its new value in the same loop.                                         *)
(***************************************************************************)
UpdateUnchained ==
  /\ At("update") /\ following[pc] = 0
  /\ pc' = pc + 1
  /\ UNCHANGED <<prog, phase, cur, sym, term, open, chainVars, off, size, count,
                 changed, compiled>>

(* Slips: an offset is set once and for all, follows its instruction down  *)
(* as well as up, or counts as moved when it stays.                        *)
RaisesOnce(f, new)   == off[f] = 0 /\ new > 0
RaisesEither(f, new) == off[f] # new
RaisesEqual(f, new)  == off[f] <= new

Raises(f, new) == off[f] < new

(* Slip: the first definition of a symbol stays.                           *)
RedefinesOnce(i) == prog[i].op = "equ" /\ sym[prog[i].name].val = 0

Redefines(i) == prog[i].op = "equ"

Update ==
  LET f   == following[pc]
      new == NewOffset(pc)
  IN  /\ At("update") /\ f # 0 /\ new \in 0 .. MaxOffset
      /\ cur' = sec[pc]
      /\ sym' = IF Redefines(pc)
                THEN [sym EXCEPT ![prog[pc].name] =
                        Eval(prog[pc].arg, off[pc], sec[pc], sym)]
                ELSE sym
      /\ IF Raises(f, new)
         THEN off' = [off EXCEPT ![f] = new] /\ changed' = TRUE
         ELSE UNCHANGED <<off, changed>>
      /\ pc' = pc + 1
      /\ UNCHANGED <<prog, phase, term, open, chainVars, size, count, compiled>>

(***************************************************************************)
(* An offset that is out of the machine's range, below 0 (code_offset is   *)
(* unsigned) or beyond the greatest one: the model does not follow a       *)
(* program past it.                                                        *)
(***************************************************************************)
Wrap ==
  /\ At("update") /\ following[pc] # 0 /\ NewOffset(pc) \notin 0 .. MaxOffset
  /\ phase' = "wrapped"
  /\ UNCHANGED <<prog, pc, cur, sym, term, open, chainVars, off, size, count,
                 changed, compiled>>

(* main runs at least one compile pass, and another after every change.    *)
(* Slip: two passes are enough.                                            *)
SettledEarly == compiled

Settled == compiled /\ ~changed

EndUpdate ==
  /\ phase = "update" /\ pc = Len(prog) + 1
  /\ IF Settled THEN phase' = "done"    /\ UNCHANGED pc
                ELSE phase' = "compile" /\ pc' = 1
  /\ UNCHANGED <<prog, cur, sym, term, open, chainVars, off, size, count,
                 changed, compiled>>

(***************************************************************************)
(* compile_instruction_stream: every length again, now with the offsets of *)
(* the previous pass.  It does not set current_section; only the x86       *)
(* matcher does, when it looks at a branch.                                *)
(***************************************************************************)
Compile ==
  LET ins     == prog[pc]
      counted == IF ins.op = "fill"
                 THEN [count EXCEPT ![pc] = Value(ins.arg, off[pc], cur, sym)]
                 ELSE count
  IN  /\ At("compile")
      /\ count' = counted
      /\ size' = [size EXCEPT ![pc] = GetLength(pc, FALSE, cur, counted)]
      /\ cur' = IF ins.op = "insn" /\ ins.mode = "rel" /\ Target = "x86"
                THEN sec[pc] ELSE cur
      /\ pc' = pc + 1
      /\ UNCHANGED <<prog, phase, sym, term, open, chainVars, off, changed,
                     compiled>>

EndCompile ==
  /\ phase = "compile" /\ pc = Len(prog) + 1
  /\ phase' = "update" /\ pc' = 1 /\ changed' = FALSE /\ compiled' = TRUE
  /\ UNCHANGED <<prog, cur, sym, term, open, chainVars, off, size, count>>
-----------------------------------------------------------------------------
Init ==
  /\ prog \in Programs
  /\ phase = "parse" /\ pc = 1 /\ cur = 1
  /\ sym = [a \in Names |-> [val |-> 0, sec |-> Scalar]]
  /\ term = [i \in Ins |-> 0] /\ open = <<>>
  /\ created = 0
  /\ first = [s \in Sections |-> 0] /\ last = [s \in Sections |-> 0]
  /\ following = [i \in Ins |-> 0] /\ sec = [i \in Ins |-> NoSection]
  /\ off = [n \in Nodes |-> 0] /\ size = [i \in Ins |-> 0]
  /\ count = [i \in Ins |-> 0]
  /\ changed = FALSE /\ compiled = FALSE

Pass ==
  \/ Parse \/ EndParse \/ Group \/ EndGroup
  \/ Precompile \/ EndPrecompile
  \/ Update \/ UpdateUnchained \/ Wrap \/ EndUpdate
  \/ Compile \/ EndCompile
  \/ Stop

Ended == phase \in {"done", "stopped", "wrapped"}

(* The process has ended, or hands over to generate_instruction_stream.    *)
Finished == Ended /\ UNCHANGED vars

Next == Pass \/ Finished

(* main is one thread that runs its loops to their end.                    *)
Spec == Init /\ [][Next]_vars /\ WF_vars(Pass)
-----------------------------------------------------------------------------
(***************************************************************************)
(* Properties.                                                             *)
(***************************************************************************)

(* Every variable holds what the C field it stands for can hold.           *)
TypeOK ==
  /\ WellFormed(prog)
  /\ phase \in {"parse", "group", "precompile", "update", "compile", "done",
                "stopped", "wrapped"}
  /\ pc \in 1 .. Len(prog) + 1
  /\ cur \in Int
  /\ sym \in [Names -> Refs]
  /\ term \in [Ins -> 0 .. Len(prog)]
  /\ open \in Seq(Ins)
  /\ created \in 0 .. MaxSection
  /\ first \in [Sections -> 0 .. Len(prog)]
  /\ last \in [Sections -> 0 .. Len(prog)]
  /\ following \in [Ins -> Nodes \cup {0}]
  /\ sec \in [Ins -> Sections \cup {NoSection}]
  /\ off \in [Nodes -> Nat]
  /\ size \in [Ins -> Int]
  /\ count \in [Ins -> Int]
  /\ changed \in BOOLEAN /\ compiled \in BOOLEAN

Chained(i) == following[i] # 0

(* The instructions whose length no pass can lower: the fixed ones, a skip *)
(* by a constant, and machine instructions whose matcher remembers.        *)
Rigid(i) ==
  \/ prog[i].op \in {"data", "equ", "section", "times", "fill"}
  \/ prog[i].op = "skip" /\ IsConst(prog[i].arg)
  \/ prog[i].op = "insn" /\ (Target = "x86" \/ prog[i].short = prog[i].long)

(* The room instruction i asks for.                                        *)
Extent(i) ==
  LET t == term[i]
  IN  CASE prog[i].op = "endtimes" -> off[t] + (off[i] - off[t]) * count[t]
        [] prog[i].op = "endfill"  -> off[t] + count[t]
        [] OTHER                   -> off[i] + size[i]

(* When the passes end, every instruction of a chain has room: the next    *)
(* one starts no earlier than update_code_offsets asks for, whatever the   *)
(* program (asm.c:843, offsets are only ever raised).                      *)
NoOverlap ==
  phase = "done" =>
    \A i \in Ins : Chained(i) /\ prog[i].op # "org" =>
      off[following[i]] >= Extent(i)

(* ... and a rigid instruction is followed at once: raising offsets without *)
(* ever lowering them leaves no hole behind it.                            *)
NoGap ==
  phase = "done" =>
    \A i \in Ins : Chained(i) /\ Rigid(i) =>
      off[following[i]] = off[i] + size[i]

(* A symbol set from the location counter.                                 *)
IsPlace(i) ==
  prog[i].op = "equ" /\ prog[i].arg.pos = "$" /\ prog[i].arg.neg = "none" /\
  prog[i].arg.align = 0

(* When the passes end, a label has the offset and the section of the      *)
(* place it labels, though it was first defined at 0 by the parser and     *)
(* redefined in every pass before the offsets settled.                     *)
LabelsExact ==
  phase = "done" =>
    \A i \in Ins : Chained(i) /\ IsPlace(i) =>
      sym[prog[i].name] = [val |-> off[i] + prog[i].arg.add, sec |-> sec[i]]

(* A symbol set to a number.                                               *)
IsNumber(i) == prog[i].op = "equ" /\ IsConst(prog[i].arg)

(* The operand e names only numbers, labels, and symbols never defined: no *)
(* symbol that another one or the distance of two goes through.            *)
Direct(e) ==
  \A a \in {e.pos, e.neg} :
    /\ a \notin {"$", "$$"}
    /\ a \in Names => \A j \in Ins :
         prog[j].op = "equ" /\ prog[j].name = a =>
           Chained(j) /\ (IsPlace(j) \/ IsNumber(j))

(* When the passes end, matching an instruction once more, as              *)
(* generate_instruction does, chooses the form the layout made room for.   *)
FormsSettled ==
  phase = "done" =>
    \A i \in Ins : prog[i].op = "insn" /\ Chained(i) /\ Direct(prog[i].arg) =>
      TargetLength(i, FALSE, sec[i]) = size[i]

(* The chain of a section is the stream restricted to that section.        *)
InSection(i, s) == sec[i] = s /\ prog[i].op # "section"

ChainsFollowStream ==
  phase \in {"update", "compile", "done"} =>
    \A s \in Sections : \A i \in Ins : InSection(i, s) =>
      LET later == {j \in Ins : j > i /\ InSection(j, s)}
      IN  /\ following[i] = EndOf(s) <=> later = {}
          /\ later # {} => following[i] \in later
                          /\ \A j \in later : following[i] <= j
          /\ first[s] <= i /\ first[s] # 0

(* Paired block directives are of one kind and nest.                       *)
BlocksNest ==
  phase \notin {"parse", "group"} =>
    \A i, j \in Ins :
      /\ term[i] = j => term[j] = i /\ (prog[i].op \in {"times", "endtimes"} <=>
                                      prog[j].op \in {"times", "endtimes"})
      /\ i < j /\ term[i] > j => term[j] < term[i]

(* Instruction i is in the block that t begins, its end included.          *)
InBlock(i, t) == t < i /\ i <= term[t] /\ sec[i] = sec[t]

(* Every block ends in the section it began in.  (The offset after         *)
(* .endtimes is computed from that of .times; when another section grows   *)
(* beneath the .times, it is less than it was in the pass before.)         *)
BlocksWithin == \A i \in Ins : Opens(i) /\ term[i] # 0 => sec[term[i]] = sec[i]

(* A program that cannot ask for less in a later pass than in an earlier   *)
(* one, but by an .org outside its blocks.                                 *)
Regular ==
  /\ BlocksWithin
  /\ \A i \in Ins :
       /\ \/ Rigid(i) \/ prog[i].op \in {"endtimes", "endfill"}
          \/ prog[i].op = "org" /\ \A t \in Ins : ~InBlock(i, t)
       /\ Opens(i) /\ term[i] # 0 =>
            count[i] >= 0 /\ (prog[i].op = "fill" => IsConst(prog[i].arg))

(* A repeated block takes its length times its count, and a filled block   *)
(* the length it was given, nested ones included, in a regular program.    *)
BlocksExact ==
  phase = "done" /\ Regular =>
    \A i \in Ins : Chained(i) /\ term[i] # 0 => off[following[i]] = Extent(i)

(* No pass lowers an offset: what makes the repetition converge.           *)
OffsetsGrow == [][\A n \in Nodes : off'[n] >= off[n]]_off

(* A program whose directives ask for the same room in every pass: what    *)
(* they name is no symbol and no location.                                 *)
Tame ==
  /\ BlocksWithin
  /\ \A i \in Ins : prog[i].op \in {"skip", "org", "fill", "times"} =>
       /\ prog[i].arg.pos = "none" /\ prog[i].arg.neg = "none"
       /\ prog[i].arg.add >= 0

(* The passes of a tame program end, with all its offsets or at an error:  *)
(* the instructions alone cannot keep them going (asm.c:1586), though the  *)
(* lengths of the 65xx forms go down as well as up.  Of other programs the *)
(* code does not keep what README.md:59 says, that the iteration halts: a  *)
(* .skip by the distance to the label behind it asks for more in each pass,*)
(* until the offsets are used up.                                          *)
Halts == <>(phase \in {"done", "stopped"} \/ (phase = "wrapped" /\ ~Tame))
=============================================================================
