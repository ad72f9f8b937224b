----------------------------- MODULE MCAssemble -----------------------------
(* Small programs for the whole run, and a reference for its output.       *)
EXTENDS Expansion, MCLayout

(* Straight code: branches both ways, skips and an .org.                   *)
StraightPrograms ==
  Streams({Label("a"), Label("b"), Branch(Ref("a")), Branch(Ref("b")), Data(3),
           Skip(Num(2)), Org(Num(9))}, 4)

(* Two sections of an object file, the second possibly inside the first.   *)
ObjectPrograms ==
  UNION {InText(StraightPrograms),
         Streams({Section(1), Section(2), Label("a"), Branch(Ref("a")), Data(3),
                  Org(Num(7))}, 5)}

(* A block that is repeated up to a mark begins with some bytes.           *)
NonEmptyFills(p) ==
  \A i \in 1 .. Len(p) - 1 : p[i].op = "fill" => p[i + 1].op \in {"insn", "data"}

(* Repeated and filled blocks, nested, closed in the order they opened.    *)
Balanced(p) ==
  LET Depth(i) == Cardinality({j \in 1 .. i : p[j].op \in {"times", "fill"}})
                  - Cardinality({j \in 1 .. i : p[j].op \in {"endtimes", "endfill"}})
  IN  Depth(Len(p)) = 0 /\ \A i \in 1 .. Len(p) : Depth(i) >= 0

RepeatPrograms ==
  {p \in Streams({Label("a"), Branch(Ref("a")), Data(1), Times(2), EndTimes,
                  Fill(Num(5)), EndFill}, 6) : Balanced(p) /\ NonEmptyFills(p)}

(* Both, each for the formats it suits.                                    *)
OutputPrograms == UNION {RepeatPrograms, ObjectPrograms}

(* Directives that end the run, and operands that go bad at the last.      *)
HaltPrograms ==
  {<<Equ("a", Ref("b")), Equ("b", Ref("c")), Load(Diff("none", "a")), Label("c")>>}
  \cup {p \in Streams({Label("a"), Load(Diff("none", "a")), Org(Num(-1)), Times(2), EndTimes,
                       Fill(Num(3)), Data(1), EndFill}, 4) : NonEmptyFills(p)}

(* ... and the 65xx forms, whose lengths may shrink while offsets do not,  *)
(* and skips that ask for more in every pass.                              *)
X65Programs == UNION {ShrinkPrograms, SkipPrograms, HaltPrograms}

(* Sections with contents, without, and with neither said of them.         *)
TwoSections ==
  {<<"progbits", "progbits">>, <<"progbits", "nobits">>, <<"neither", "progbits">>,
   <<"nobits", "neither">>}
=============================================================================
