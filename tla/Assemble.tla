------------------------------ MODULE Assemble ------------------------------
(***************************************************************************)
(* The whole run of the assembler on one stream: the layout passes, and    *)
(* then generate_instruction_stream (src/asm.c), which walks the chain of  *)
(* every section, jumps back at .endtimes and .endfill, and puts the bytes *)
(* of each instruction where the output stands.                            *)
(*                                                                         *)
(* Layout has decided where everything is; nothing in the code compares    *)
(* that with where the bytes go.  The properties do.                       *)
(***************************************************************************)
EXTENDS Layout

CONSTANTS Formats,      \* the formats to choose from: "bin", "hex", "rel", "elf"
          Attributes    \* what may be said of the contents of the sections

Moving == {"hex", "rel"}        \* formats that can move the output location
Flat   == {"bin", "hex"}        \* formats without sections

Sorts == {"progbits", "nobits", "neither"}

ASSUME FormatAssumption ==
  /\ Attributes \subseteq [1 .. MaxSection -> Sorts]
  /\ Formats \subseteq {"bin", "hex", "rel", "elf"}
  /\ DefaultText \/ Formats \cap Flat = {}

NoLimit == -1           \* output_limit == (size_t)-1

VARIABLES
  format,     \* output.format
  bits,       \* what the attributes of a section say of its contents
  stage,      \* "layout", "section" (between two chains), "walk" or "end"
  at,         \* ins of the walk; 0 is NULL
  current,    \* repetition.current of an .endtimes
  limit,      \* output_limit
  oldLimit,   \* fill.old_limit of a .fill
  loc,        \* the output location of every stream of bytes
  image       \* the bytes put out: where, and by which instruction

genVars == <<format, bits, stage, at, current, limit, oldLimit, loc, image>>
allVars == <<vars, genVars>>

(* Slip: every format does.                                                *)
StreamOfFirst(s) == 1

(* A flat format puts all sections into one stream.                        *)
StreamOf(s) == IF format \in Flat THEN 1 ELSE s
Out == StreamOf(cur)

layoutRest == <<format, bits, prog, phase, pc, sym, term, open, chainVars, off, size,
                count, changed, compiled>>

(* following of any node; the closing instruction of a chain has none.     *)
Follow(n) == IF n \in Ins THEN following[n] ELSE 0

Least(a, b) == IF a < b THEN a ELSE b

(* SECTION_ZERO_DATA: only an object has sections without contents.        *)
Zeroed(s) == format \notin Flat /\ bits[s] = "nobits"

(* How many of n bytes output_byte lets through.                           *)
Allowed(n) == IF limit = NoLimit THEN n ELSE Least(n, limit)

(* output_byte, n times, for instruction i.  A zeroed section refuses the  *)
(* bytes (section_append), after they have been charged to the limit.      *)
PutOut(i, n) ==
  LET k == Allowed(n)
  IN  /\ limit' = IF limit = NoLimit THEN NoLimit ELSE limit - k
      /\ \/ Zeroed(cur) /\ UNCHANGED <<loc, image>>
         \/ /\ ~Zeroed(cur)
            /\ image' = [image EXCEPT ![Out] =
                 @ \o [b \in 1 .. k |-> [at |-> loc[Out] + b - 1, by |-> i]]]
            /\ loc' = [loc EXCEPT ![Out] = @ + k]

PutNothing == UNCHANGED <<limit, loc, image>>

Visiting(op) == stage = "walk" /\ at \in Ins /\ prog[at].op = op

GoOn == at' = Follow(at)
-----------------------------------------------------------------------------
Lay == stage = "layout" /\ Pass /\ UNCHANGED genVars

(* main opens the output once the layout is complete.                      *)
BeginGenerate ==
  /\ stage = "layout" /\ phase = "done"
  /\ stage' = "section" /\ cur' = 1
  /\ UNCHANGED <<layoutRest, at, current, limit, oldLimit, loc, image>>

(* The outer loop: current_section itself is the loop variable.            *)
BeginSection ==
  /\ stage = "section" /\ cur <= created
  /\ stage' = "walk" /\ at' = first[cur]
  /\ UNCHANGED <<layoutRest, cur, current, limit, oldLimit, loc, image>>

EndSection ==
  /\ stage = "walk" /\ at = 0
  /\ stage' = "section" /\ cur' = cur + 1
  /\ UNCHANGED <<layoutRest, at, current, limit, oldLimit, loc, image>>

EndGenerate ==
  /\ stage = "section" /\ cur > created
  /\ stage' = "end"
  /\ UNCHANGED <<layoutRest, cur, at, current, limit, oldLimit, loc, image>>

(* Labels, .equ, .times, and the empty instruction that closes a chain.    *)
WalkSilent ==
  /\ stage = "walk" /\ at # 0
  /\ at \in Ins => prog[at].op \in {"equ", "times"}
  /\ GoOn /\ PutNothing
  /\ UNCHANGED <<layoutRest, stage, cur, current, oldLimit>>

(* Slip: the location of the .org itself.                                  *)
OrgPlaceOwn(i) == off[i]

OrgPlace(i) == off[following[i]]

(* output_set_location: only some formats can move.                        *)
WalkOrg ==
  /\ Visiting("org")
  /\ loc' = IF format \in Moving THEN [loc EXCEPT ![Out] = OrgPlace(at)]
                                 ELSE loc
  /\ GoOn
  /\ UNCHANGED <<layoutRest, stage, cur, current, limit, oldLimit, image>>

(* output_skip moves the location, or the size of a zeroed section; in a   *)
(* section of an ELF file that is said to have no contents of any kind it  *)
(* does nothing; elsewhere it fills with zeroes or no-operations, byte by  *)
(* byte (for a negative count without end).                                *)
SkipMoves(s)   == format \in Moving \/ Zeroed(s)
SkipIgnored(s) == format = "elf" /\ bits[s] = "neither"

WalkSkip ==
  /\ Visiting("skip")
  /\ \/ /\ SkipMoves(cur)
        /\ loc' = [loc EXCEPT ![Out] = @ + size[at]]
        /\ UNCHANGED <<limit, image>>
     \/ SkipIgnored(cur) /\ PutNothing
     \/ /\ ~SkipMoves(cur) /\ ~SkipIgnored(cur) /\ size[at] >= 0
        /\ PutOut(at, size[at])
  /\ GoOn
  /\ UNCHANGED <<layoutRest, stage, cur, current, oldLimit>>

(* Slips: one copy more; a counter that is not reset for the next time.    *)
LastCopyLate(i) == current[i] >= count[term[i]]

RestartedKept(i) == current[i]

(* The unsigned comparison current >= count - 1: for count = 0 it only     *)
(* holds after 2^64 copies, which is never.                                *)
LastCopy(i) == count[term[i]] > 0 /\ current[i] >= count[term[i]] - 1

Restarted(i) == 0

WalkEndTimes ==
  /\ Visiting("endtimes")
  /\ IF LastCopy(at)
     THEN current' = [current EXCEPT ![at] = Restarted(at)] /\ GoOn
     ELSE current' = [current EXCEPT ![at] = @ + 1] /\ at' = Follow(term[at])
  /\ PutNothing
  /\ UNCHANGED <<layoutRest, stage, cur, oldLimit>>

(* A count below 0 is a limit that is never reached: not followed.         *)
WalkFill ==
  /\ Visiting("fill") /\ count[at] >= 0
  /\ oldLimit' = [oldLimit EXCEPT ![at] = limit]
  /\ limit' = count[at]
  /\ GoOn
  /\ UNCHANGED <<layoutRest, stage, cur, current, loc, image>>

(* Slip: the limit is not lifted after the block.                          *)
LimitAfterKept(t) == limit

LimitAfter(t) == oldLimit[t]

WalkEndFill ==
  /\ Visiting("endfill")
  /\ IF limit = 0
     THEN limit' = LimitAfter(term[at]) /\ GoOn
     ELSE at' = Follow(term[at]) /\ UNCHANGED limit
  /\ UNCHANGED <<layoutRest, stage, cur, current, oldLimit, loc, image>>

WalkData ==
  /\ Visiting("data")
  /\ PutOut(at, prog[at].short)
  /\ GoOn
  /\ UNCHANGED <<layoutRest, stage, cur, current, oldLimit>>

(***************************************************************************)
(* generate_instruction: the form is chosen once more.  The x86 matcher    *)
(* sets current_section when it looks at a branch.                         *)
(***************************************************************************)
WalkInsn ==
  /\ Visiting("insn") /\ ~BadOperand(at)
  /\ PutOut(at, TargetLength(at, FALSE, cur))
  /\ cur' = IF prog[at].mode = "rel" /\ Target = "x86" THEN sec[at] ELSE cur
  /\ GoOn
  /\ UNCHANGED <<layoutRest, stage, current, oldLimit>>

(* An operand may have become a bad one in the last update.                *)
WalkStop ==
  /\ Visiting("insn") /\ BadOperand(at)
  /\ stage' = "end"
  /\ UNCHANGED <<layoutRest, cur, at, current, limit, oldLimit, loc, image>>

(* An object format opens no section by itself: with it, a program begins  *)
(* with a section directive.                                               *)
Suits(f) ==
  f \in Flat <=> prog = <<>> \/ prog[1].op # "section"

GenInit ==
  /\ format \in Formats /\ (DefaultText => Suits(format))
  /\ bits \in IF format \in Flat THEN {[s \in Sections |-> "progbits"]} ELSE Attributes
  /\ stage = "layout" /\ at = 0
  /\ current = [i \in Ins |-> 0] /\ oldLimit = [i \in Ins |-> 0]
  /\ limit = NoLimit
  /\ loc = [s \in Sections |-> 0]
  /\ image = [s \in Sections |-> <<>>]

Walk ==
  \/ WalkSilent \/ WalkOrg \/ WalkSkip \/ WalkEndTimes
  \/ WalkFill \/ WalkEndFill \/ WalkData \/ WalkInsn \/ WalkStop

Step == Lay \/ BeginGenerate \/ BeginSection \/ EndSection \/ EndGenerate \/ Walk

AllEnded == stage = "end" \/ phase \in {"stopped", "wrapped"}

AssembleInit == Init /\ GenInit
AssembleNext == Step \/ (AllEnded /\ UNCHANGED allVars)

(* One thread, that runs to its end.                                       *)
AssembleSpec ==
  AssembleInit /\ [][AssembleNext]_allVars /\ WF_allVars(Step)
-----------------------------------------------------------------------------
InFill(i) == \E t \in Ins : prog[t].op = "fill" /\ InBlock(i, t)

SumUpTo(f, n) ==
  LET sum[k \in 0 .. n] == IF k = 0 THEN 0 ELSE sum[k - 1] + f[k] IN sum[n]

(* How far the copies of the .times block that t begins have moved i.      *)
Moved(i, t) ==
  IF prog[t].op = "times" /\ InBlock(i, t)
  THEN current[term[t]] * (off[term[t]] - off[t]) ELSE 0

(* ... and the copies of all the blocks around i.                          *)
Shift(i) == SumUpTo([t \in Ins |-> Moved(i, t)], Len(prog))

(* A .fill within a .fill, and every .fill with an end of its own.         *)
FillInFill  == \E i \in Ins : prog[i].op = "fill" /\ InFill(i)
FillsClosed == \A i \in Ins : prog[i].op = "fill" => term[i] # 0

(* The programs for which every format keeps step: nothing that Layout may *)
(* lay out with a hole, no .org in a format that ignores it, operands      *)
(* whose value does not depend on the place, one section in a flat file,   *)
(* where each would start at 0; in a section, no bytes that it refuses, no *)
(* .skip that it ignores, nor one that a mark does not count.              *)
Steady ==
  /\ Regular /\ FillsClosed
  /\ format \in Flat => created <= 1
  /\ \A i \in Ins :
       /\ prog[i].op = "org" => format \in Moving
       /\ prog[i].op = "insn" => Direct(prog[i].arg) \/ prog[i].short = prog[i].long
       /\ Chained(i) /\ prog[i].op \in {"insn", "data"} => ~Zeroed(sec[i])
       /\ Chained(i) /\ prog[i].op = "skip" =>
            ~SkipIgnored(sec[i]) /\ (SkipMoves(sec[i]) => ~InFill(i))

(* While the chains are walked, the output stands at the offset the layout *)
(* gave to the instruction, or to its copy (asm.c:1166-1206 against        *)
(* asm.c:832-837): branches and labels were computed from these offsets.   *)
InStep ==
  (stage = "walk" /\ at # 0 /\ Steady /\ ~FillInFill /\ ~InFill(at)) =>
    loc[Out] = off[at] + Shift(at)

(* A .fill block never runs past its mark, nor outlasts it: the limit is   *)
(* in force exactly inside the block (asm.c:1186-1199), when each block is *)
(* in one section (asm.c:1130, which nothing verifies) and has an end.     *)
FillsBounded ==
  (stage = "walk" /\ at # 0 /\ BlocksWithin /\ FillsClosed /\ ~FillInFill) =>
    (limit = NoLimit <=> ~InFill(at))

(* The displacement generate_instruction writes for branch i, as wide as   *)
(* the form it has been given.                                             *)
Displacement(i) ==
  LET d == Value(prog[i].arg, off[i], cur, sym) - off[following[i]]
  IN  IF size[i] < prog[i].long THEN ((d + Reach) % (2 * Reach)) - Reach
                                ELSE d

(* Where among the bytes put out are those of instruction i, and at which  *)
(* address is the first of them?                                           *)
BytesOf(i) == {b \in DOMAIN image[StreamOf(sec[i])] : image[StreamOf(sec[i])][b].by = i}

Written(i) == sec[i] # NoSection /\ BytesOf(i) # {}

PlaceOf(i) ==
  image[StreamOf(sec[i])][CHOOSE b \in BytesOf(i) : \A d \in BytesOf(i) : b <= d].at

(* The labels named by branch i, in its section.                           *)
Places(i) ==
  {j \in Ins : /\ prog[j].op = "equ" /\ prog[j].name = prog[i].arg.pos
               /\ Chained(j) /\ IsPlace(j) /\ prog[j].arg.add = 0
               /\ sec[j] = sec[i]}

(* What comes right after a label: an instruction with bytes of its own.   *)
Marks(j, k) == following[j] = k /\ k \in Ins /\ prog[k].op \in {"insn", "data"}

(* A branch to a label.                                                    *)
Branches(i) ==
  /\ prog[i].op = "insn" /\ prog[i].mode = "rel" /\ Chained(i)
  /\ prog[i].arg.neg = "none" /\ prog[i].arg.add = 0 /\ prog[i].arg.align = 0

(* A branch in the finished output, from its own end and by the            *)
(* displacement it was given, lands on the instruction behind the label it *)
(* names.                                                                  *)
BranchesLand ==
  (stage = "end" /\ phase = "done" /\ Steady /\ ~FillInFill) =>
    \A i \in Ins : (Branches(i) /\ ~InFill(i) /\ Written(i)) =>
      \A j \in Places(i), k \in Ins :
        (Marks(j, k) /\ Written(k) /\ ~InFill(k)) =>
          PlaceOf(i) + size[i] + Displacement(i) = PlaceOf(k)

(* The output is completed, or the run stops at an error, when every block *)
(* that is repeated up to a mark puts out something and the passes end     *)
(* (Halts).                                                                *)
Generates ==
  <>(stage = "end" \/ phase = "stopped" \/ (phase = "wrapped" /\ ~Tame))
=============================================================================
