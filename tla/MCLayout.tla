------------------------------ MODULE MCLayout ------------------------------
(* Small programs for the layout passes.                                   *)
EXTENDS Layout

Num(n)     == [pos |-> "none", neg |-> "none", add |-> n, align |-> 0]
Ref(a)     == [pos |-> a, neg |-> "none", add |-> 0, align |-> 0]
Here(n)    == [pos |-> "$", neg |-> "none", add |-> n, align |-> 0]
Diff(a, b) == [pos |-> a, neg |-> b, add |-> 0, align |-> 0]
Pad(n)     == [pos |-> "none", neg |-> "none", add |-> 0, align |-> n]

Plain(op, e) == [op |-> op, mode |-> "imm", arg |-> e, name |-> "none", sec |-> 0,
                 short |-> 0, long |-> 0]

Label(a)   == [Plain("equ", Here(0)) EXCEPT !.name = a]
Equ(a, e)  == [Plain("equ", e) EXCEPT !.name = a]
Section(s) == [Plain("section", Num(0)) EXCEPT !.sec = s]
Data(n)    == [Plain("data", Num(0)) EXCEPT !.short = n, !.long = n]
Skip(e)    == Plain("skip", e)
Org(e)     == Plain("org", e)
Times(n)   == Plain("times", Num(n))
EndTimes   == Plain("endtimes", Num(0))
Fill(e)    == Plain("fill", e)
EndFill    == Plain("endfill", Num(0))
Branch(e)  == [Plain("insn", e) EXCEPT !.mode = "rel", !.short = 2, !.long = 3]
Load(e)    == [Plain("insn", e) EXCEPT !.short = 2, !.long = 3]

Streams(alphabet, n) ==
  {p \in UNION {[1 .. m -> alphabet] : m \in 1 .. n} : WellFormed(p)}

(* Branches and immediates over labels, fixed data and an .org between.    *)
RelaxPrograms ==
  Streams({Label("a"), Label("b"), Branch(Ref("a")), Branch(Ref("b")),
           Load(Diff("b", "a")), Data(3), Org(Num(9))}, 5)

(* The 65xx forms, whose lengths may shrink again: branches to a fixed     *)
(* address and to a label, an absolute constant, code moved by an .org.    *)
ShrinkPrograms ==
  Streams({Label("a"), Branch(Num(9)), Branch(Ref("a")), Load(Diff("b", "a")),
           Label("b"), Equ("c", Num(9)), Load(Ref("c")), Data(3), Org(Num(8))}, 4)

(* .times and .fill, well and badly nested, around growing code.           *)
BlockPrograms ==
  Streams({Label("a"), Branch(Ref("a")), Data(3), Times(2), EndTimes,
           Fill(Num(5)), EndFill}, 5)

(* Two sections, branches within and across them; an object format, so     *)
(* nothing is chained before the first section directive.                  *)
SectionPrograms ==
  Streams({Section(1), Section(2), Label("a"), Branch(Ref("a")),
           Data(3), Skip(Num(2))}, 5)

(* A block that begins in one section and ends in another, after a branch  *)
(* that grows.                                                             *)
CrossPrograms ==
  {<<Section(1), Branch(Ref("a")), Times(2), Section(2), Data(10), EndTimes,
     Data(3), Section(1), Data(n), Label("a"), Branch(Ref("a"))>> : n \in {1, 8}}

(* Every directive once, with the operands that end the assembler.         *)
MixedPrograms ==
  Streams({Section(1), Section(2), Label("a"), Label("b"),
           Equ("c", Diff("b", "a")), Equ("c", Num(3)), Load(Ref("c")),
           Skip(Ref("a")), Skip(Diff("b", "a")), Skip(Pad(4)), Org(Num(6)), Org(Num(-1)),
           Branch(Ref("a")), Branch(Here(2)), Times(2), EndTimes, Fill(Num(5)), EndFill}, 3)

(* A skip by the distance between two labels that may lie around it, b     *)
(* never before a: a distance below 0 is a skip of almost 2^64 bytes.      *)
SkipPrograms ==
  {p \in Streams({Label("a"), Label("b"), Data(1), Skip(Diff("b", "a")),
                  Branch(Ref("b"))}, 4) :
     \A i, j \in DOMAIN p : p[i].name = "b" /\ p[j].name = "a" => j < i}

(* All of these, in the sections of an object file.                        *)
InText(ps) == {<<Section(1)>> \o p : p \in ps}

X86Programs ==
  UNION {InText(RelaxPrograms), InText(BlockPrograms), SectionPrograms, MixedPrograms,
         CrossPrograms}
=============================================================================
