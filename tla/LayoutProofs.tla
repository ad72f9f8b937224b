---------------------------- MODULE LayoutProofs ----------------------------
(***************************************************************************)
(* Theorems about the layout passes, for all programs, whatever the        *)
(* target, the reach of a short operand and the number of sections.        *)
(* Everything gets room; no hole is left behind an instruction that cannot *)
(* shrink; every label is defined where it stands; the forms settle on     *)
(* those generate_instruction will choose; and the directives of blocks    *)
(* are paired and nest, the chain of a section is the stream restricted to *)
(* it, and a block of constant repetition gets exactly the room its copies *)
(* take.  The inductive invariants, each over the types:                   *)
(*                                                                         *)
(*   RoomInv   what has been visited in a pass without a change has room;  *)
(*   ChainInv  the links of the chains lead forward and never meet;        *)
(*   GapInv    no offset is past the end of the instruction before it;     *)
(*   PlaceInv  a visited label has the offset it stands at;                *)
(*   FormInv   a sized instruction has the form that fits now;             *)
(*   GroupInv  the open blocks surround no pair, in the order they began;  *)
(*   StreamInv every link leads to the next instruction of the section;    *)
(*   BlockInv  in a pass, no block shrinks from the head it starts at.     *)
(***************************************************************************)
EXTENDS Layout, TLAPS
-----------------------------------------------------------------------------
(* The operators of Layout return what they should.                        *)

LEMMA IndexType ==
  ASSUME TypeOK
  PROVE  /\ Len(prog) \in Nat /\ MaxSection \in Nat /\ MaxSection > 0
         /\ Ins \subseteq Nodes /\ Nodes \subseteq Nat \ {0}
         /\ Sections \subseteq Nat \ {0} /\ 1 \in Sections
         /\ Ins = 1 .. Len(prog) /\ Nodes = 1 .. Len(prog) + MaxSection
<1>1. MaxSection \in Nat /\ MaxSection > 0
  BY ConstantsAssumption
<1>2. WellFormed(prog)
  BY ConstantsAssumption DEF TypeOK
<1>3. Len(prog) \in Nat
  BY <1>2 DEF WellFormed
<1> QED BY <1>1, <1>3 DEF Ins, Nodes, Sections

LEMMA ProgramType ==
  ASSUME TypeOK, NEW i \in Ins
  PROVE  /\ prog \in Seq(Instructions) /\ Len(prog) \in Nat
         /\ prog[i] \in Instructions
         /\ prog[i].arg \in Exprs
         /\ prog[i].op = "equ" => prog[i].name \in Names
         /\ prog[i].op = "section" => prog[i].sec \in Sections
<1>1. WellFormed(prog)
  BY ConstantsAssumption DEF TypeOK
<1>2. prog \in Seq(Instructions)
  BY <1>1 DEF WellFormed
<1>3. Len(prog) \in Nat /\ i \in 1 .. Len(prog)
  BY <1>2 DEF Ins
<1>4. prog[i] \in Instructions
  BY <1>2, <1>3
<1>5. prog[i].arg \in Exprs
  BY <1>4 DEF Instructions
<1>6. /\ prog[i].op = "equ" => prog[i].name \in Names
      /\ prog[i].op = "section" => prog[i].sec \in Sections
  BY <1>1, <1>3 DEF WellFormed, Sections
<1> QED BY <1>2, <1>3, <1>4, <1>5, <1>6

LEMMA FieldType ==
  ASSUME TypeOK, NEW i \in Ins
  PROVE  /\ i \in Nat /\ i > 0 /\ i \in Nodes
         /\ off[i] \in Nat /\ size[i] \in Int /\ count[i] \in Int
         /\ sec[i] \in Sections \cup {NoSection} /\ sec[i] \in Int
         /\ term[i] # 0 => term[i] \in Ins
         /\ following[i] # 0 => following[i] \in Nodes /\ off[following[i]] \in Nat
<1>1. /\ off \in [Nodes -> Nat] /\ size \in [Ins -> Int] /\ count \in [Ins -> Int]
      /\ sec \in [Ins -> Sections \cup {NoSection}]
      /\ term \in [Ins -> 0 .. Len(prog)] /\ following \in [Ins -> Nodes \cup {0}]
  BY DEF TypeOK
<1>2. /\ Ins \subseteq Nodes /\ Nodes \subseteq Nat \ {0} /\ Len(prog) \in Nat
      /\ Ins = 1 .. Len(prog) /\ Sections \subseteq Nat \ {0}
  BY IndexType
<1>3. /\ i \in Nat /\ i > 0 /\ i \in Nodes
      /\ off[i] \in Nat /\ size[i] \in Int /\ count[i] \in Int
  BY <1>1, <1>2
<1>4. sec[i] \in Sections \cup {NoSection} /\ sec[i] \in Int
  <2>1. sec[i] \in Sections \cup {NoSection}
    BY <1>1
  <2>2. Sections \cup {NoSection} \subseteq Int
    BY <1>2 DEF NoSection
  <2> QED BY <2>1, <2>2
<1>5. term[i] # 0 => term[i] \in Ins
  <2>1. term[i] \in 0 .. Len(prog)
    BY <1>1
  <2> QED BY <2>1, <1>2
<1>6. following[i] # 0 => following[i] \in Nodes /\ off[following[i]] \in Nat
  <2>1. following[i] \in Nodes \cup {0}
    BY <1>1
  <2> QED BY <2>1, <1>1
<1> QED BY <1>3, <1>4, <1>5, <1>6

LEMMA EvalType ==
  ASSUME NEW e \in Exprs, NEW here \in Int, NEW c \in Int,
         NEW s \in [Names -> Refs]
  PROVE  /\ \A a \in Atoms : AtomValue(a, here, c, s) \in Refs
         /\ Eval(e, here, c, s) \in Refs
         /\ Value(e, here, c, s) \in Int
<1>1. ASSUME NEW a \in Atoms
      PROVE  AtomValue(a, here, c, s) \in Refs
  <2>1. CASE a = "none"
    BY <2>1 DEF AtomValue, Refs, Scalar
  <2>2. CASE a = "$"
    BY <2>2 DEF AtomValue, Refs
  <2>3. CASE a = "$$"
    BY <2>3 DEF AtomValue, Refs
  <2>4. CASE a \notin {"none", "$", "$$"}
    <3>1. a \in Names
      BY <1>1, <2>4 DEF Atoms
    <3>2. AtomValue(a, here, c, s) = s[a]
      BY <2>4 DEF AtomValue
    <3> QED BY <3>1, <3>2
  <2> QED BY <2>1, <2>2, <2>3, <2>4
<1>2. e.pos \in Atoms /\ e.neg \in Atoms /\ e.add \in Int /\ e.align \in Nat
  BY DEF Exprs
<1>3. CASE e.align > 0
  <2> DEFINE n == e.align
  <2>1. n \in Nat /\ n > 0
    BY <1>2, <1>3
  <2>2. AlignTo(here, n) \in Int
    <3>1. (here + n - 1) \div n \in Int /\ here \div n \in Int
      BY <2>1
    <3>2. ((here + n - 1) \div n) * n \in Int
      BY <3>1, <2>1
    <3> QED BY <2>1, <3>1, <3>2 DEF AlignTo
  <2>3. Eval(e, here, c, s) = [val |-> AlignTo(here, n) - here, sec |-> Scalar]
    BY <1>3 DEF Eval
  <2> QED BY <1>1, <2>2, <2>3 DEF Value, Refs, Scalar
<1>4. CASE ~(e.align > 0)
  <2> DEFINE p == AtomValue(e.pos, here, c, s)
             n == AtomValue(e.neg, here, c, s)
  <2>1. p \in Refs /\ n \in Refs
    BY <1>1, <1>2
  <2>2. Eval(e, here, c, s) = [val |-> p.val - n.val + e.add,
                               sec |-> IF n.sec = Scalar THEN p.sec ELSE Scalar]
    BY <1>4 DEF Eval
  <2> QED BY <1>1, <1>2, <2>1, <2>2 DEF Value, Refs, Scalar
<1> QED BY <1>3, <1>4

LEMMA LengthType ==
  ASSUME TypeOK, NEW i \in Ins, NEW forgiving \in BOOLEAN, NEW c \in Int,
         NEW n \in [Ins -> Int], prog[i].op = "endfill" => term[i] # 0
  PROVE  GetLength(i, forgiving, c, n) \in Int
<1>1. prog[i].short \in Nat /\ prog[i].long \in Nat /\ prog[i].arg \in Exprs
  BY ProgramType DEF Instructions
<1>2. TargetLength(i, forgiving, c) \in Int
  BY <1>1 DEF TargetLength
<1>3. Value(prog[i].arg, off[i], c, sym) \in Int
  <2>1. off[i] \in Int
    BY FieldType
  <2>2. sym \in [Names -> Refs]
    BY DEF TypeOK
  <2> QED BY <1>1, <2>1, <2>2, EvalType
<1>4. prog[i].op = "endfill" => n[term[i]] \in Int
  BY FieldType
<1> QED BY <1>1, <1>2, <1>3, <1>4 DEF GetLength

LEMMA NewOffsetType ==
  ASSUME TypeOK, NEW i \in Ins,
         prog[i].op \in {"endtimes", "endfill"} => term[i] # 0
  PROVE  NewOffset(i) \in Int
<1>1. off[i] \in Int /\ size[i] \in Int /\ sec[i] \in Int
  BY FieldType
<1>2. Value(prog[i].arg, off[i], sec[i], sym) \in Int
  <2>1. sym \in [Names -> Refs] /\ prog[i].arg \in Exprs
    BY ProgramType DEF TypeOK
  <2> QED BY <1>1, <2>1, EvalType
<1>3. CASE prog[i].op \in {"endtimes", "endfill"}
  <2> DEFINE t == term[i]
  <2>1. t \in Ins
    BY <1>3, FieldType
  <2>2. off[t] \in Int /\ count[t] \in Int
    BY <2>1, FieldType
  <2>3. (off[i] - off[t]) * count[t] \in Int
    BY <1>1, <2>2
  <2> QED BY <1>1, <1>3, <2>2, <2>3 DEF NewOffset
<1>4. CASE prog[i].op \notin {"endtimes", "endfill"}
  BY <1>1, <1>2, <1>4 DEF NewOffset
<1> QED BY <1>3, <1>4
-----------------------------------------------------------------------------
(***************************************************************************)
(* Type correctness.  TypeOK needs one strengthening: between the section  *)
(* directives of precompile_instruction_stream current_section is a        *)
(* section of the program, or none, so the chains it indexes exist.        *)
(***************************************************************************)
CurOK == phase = "precompile" => cur \in Sections \cup {NoSection}

TypeInv == TypeOK /\ CurOK

LEMMA SameIndices ==
  ASSUME prog' = prog
  PROVE  Ins' = Ins /\ Nodes' = Nodes
BY DEF Ins, Nodes

LEMMA InitType == Init => TypeInv
<1> SUFFICES ASSUME Init PROVE TypeInv
  OBVIOUS
<1>1. WellFormed(prog) /\ MaxSection \in Nat /\ MaxSection > 0
  BY ConstantsAssumption DEF Init
<1>2. Len(prog) \in Nat
  BY <1>1 DEF WellFormed
<1>3. /\ phase \in {"parse", "group", "precompile", "update", "compile", "done",
                    "stopped", "wrapped"}
      /\ pc \in 1 .. Len(prog) + 1 /\ cur \in Int
      /\ changed \in BOOLEAN /\ compiled \in BOOLEAN
  <2>1. phase = "parse" /\ pc = 1 /\ cur = 1 /\ changed = FALSE /\ compiled = FALSE
    BY DEF Init
  <2>2. pc \in 1 .. Len(prog) + 1 /\ cur \in Int
    BY <1>2, <2>1
  <2>3. changed \in BOOLEAN /\ compiled \in BOOLEAN
    BY <2>1
  <2> QED BY <2>1, <2>2, <2>3
<1>4. sym \in [Names -> Refs]
  BY DEF Init, Refs, Scalar
<1>5. term \in [Ins -> 0 .. Len(prog)] /\ open \in Seq(Ins)
  BY <1>2 DEF Init
<1>6. /\ created \in 0 .. MaxSection
      /\ first \in [Sections -> 0 .. Len(prog)]
      /\ last \in [Sections -> 0 .. Len(prog)]
  BY <1>1, <1>2 DEF Init
<1>7. /\ following \in [Ins -> Nodes \cup {0}]
      /\ sec \in [Ins -> Sections \cup {NoSection}]
  BY DEF Init
<1>8. /\ off \in [Nodes -> Nat] /\ size \in [Ins -> Int] /\ count \in [Ins -> Int]
  BY DEF Init
<1>9. CurOK
  BY DEF Init, CurOK
<1> QED BY <1>1, <1>3, <1>4, <1>5, <1>6, <1>7, <1>8, <1>9 DEF TypeInv, TypeOK

(* Inside a loop the instruction at pc exists, and the next pc is in range. *)
LEMMA AtType ==
  ASSUME TypeOK, NEW p, At(p)
  PROVE  pc \in Ins /\ pc + 1 \in 1 .. Len(prog) + 1 /\ phase = p /\ ~Stops(pc)
<1>1. pc \in Ins /\ phase = p /\ ~Stops(pc)
  BY DEF At
<1>2. Len(prog) \in Nat /\ Ins = 1 .. Len(prog)
  BY IndexType
<1> QED BY <1>1, <1>2

(* No pass goes on past a block directive that has no partner.             *)
LEMMA PartnerExists ==
  ASSUME TypeOK, NEW i \in Ins, ~Stops(i)
  PROVE  /\ phase \in {"precompile", "compile"} /\ prog[i].op = "endfill" => term[i] # 0
         /\ phase = "update" /\ following[i] # 0 /\ prog[i].op \in {"endtimes", "endfill"}
              => term[i] # 0
BY DEF Stops, BadPointer

LEMMA ParseType == TypeInv /\ Parse => TypeInv'
<1> SUFFICES ASSUME TypeInv, Parse PROVE TypeInv'
  OBVIOUS
<1>1. TypeOK /\ pc \in Ins /\ pc + 1 \in 1 .. Len(prog) + 1 /\ phase = "parse"
  BY AtType DEF Parse, TypeInv
<1>2. sym' \in [Names -> Refs]
  <2>1. sym \in [Names -> Refs] /\ cur \in Int
    BY <1>1 DEF TypeOK
  <2>2. Eval(prog[pc].arg, 0, cur, sym) \in Refs
    BY <1>1, <2>1, ProgramType, EvalType
  <2> QED BY <2>1, <2>2 DEF Parse
<1>3. Ins' = Ins /\ Nodes' = Nodes
  BY SameIndices DEF Parse
<1>4. TypeOK'
  BY <1>1, <1>2, <1>3 DEF TypeOK, Parse, chainVars
<1>5. CurOK'
  BY <1>1 DEF CurOK, Parse
<1> QED BY <1>4, <1>5 DEF TypeInv

LEMMA GroupType == TypeInv /\ Group => TypeInv'
<1> SUFFICES ASSUME TypeInv, Group PROVE TypeInv'
  OBVIOUS
<1>1. TypeOK /\ pc \in Ins /\ pc + 1 \in 1 .. Len(prog) + 1 /\ phase = "group"
  BY AtType DEF Group, TypeInv
<1>2. Len(prog) \in Nat /\ Ins = 1 .. Len(prog)
  BY <1>1, IndexType
<1>3. open \in Seq(Ins) /\ term \in [Ins -> 0 .. Len(prog)]
  BY <1>1 DEF TypeOK
<1>4. term' \in [Ins -> 0 .. Len(prog)] /\ open' \in Seq(Ins)
  <2>1. CASE Opens(pc) /\ open' = Append(open, pc) /\ UNCHANGED term
    BY <1>1, <1>3, <2>1
  <2>2. CASE /\ open # <<>> /\ Closes(open[Len(open)], pc)
             /\ term' = [term EXCEPT ![pc] = open[Len(open)], ![open[Len(open)]] = pc]
             /\ open' = SubSeq(open, 1, Len(open) - 1)
    <3>1. Len(open) \in 1 .. Len(open) /\ Len(open) \in Nat
      BY <1>3, <2>2
    <3>2. open[Len(open)] \in Ins
      BY <1>3, <3>1
    <3>3. open[Len(open)] \in 0 .. Len(prog) /\ pc \in 0 .. Len(prog)
      BY <1>1, <1>2, <3>2
    <3>4. term' \in [Ins -> 0 .. Len(prog)]
      BY <1>3, <2>2, <3>3
    <3>5. SubSeq(open, 1, Len(open) - 1) \in Seq(Ins)
      BY <1>3, <3>1
    <3> QED BY <2>2, <3>4, <3>5
  <2>3. CASE UNCHANGED <<term, open>>
    BY <1>3, <2>3
  <2> QED BY <2>1, <2>2, <2>3 DEF Group
<1>5. Ins' = Ins /\ Nodes' = Nodes
  BY SameIndices DEF Group
<1>6. TypeOK'
  BY <1>1, <1>4, <1>5 DEF TypeOK, Group, chainVars
<1>7. CurOK'
  BY <1>1 DEF CurOK, Group
<1> QED BY <1>6, <1>7 DEF TypeInv

LEMMA PrecompileType == TypeInv /\ Precompile => TypeInv'
<1> SUFFICES ASSUME TypeInv, Precompile PROVE TypeInv'
  OBVIOUS
<1> DEFINE ins     == prog[pc]
           c       == IF OpensText(ins) THEN 1 ELSE cur
           chained == ins.op # "section" /\ c # NoSection
           counted == IF ins.op \in {"times", "fill"}
                      THEN [count EXCEPT ![pc] = Value(ins.arg, off[pc], c, sym)]
                      ELSE count
<1>1. /\ TypeOK /\ pc \in Ins /\ pc + 1 \in 1 .. Len(prog) + 1
      /\ phase = "precompile" /\ ~Stops(pc)
  BY AtType DEF Precompile, TypeInv
<1>2. /\ Len(prog) \in Nat /\ Ins = 1 .. Len(prog) /\ Ins \subseteq Nodes
      /\ Sections \subseteq Nat \ {0} /\ 1 \in Sections /\ Sections = 1 .. MaxSection
      /\ MaxSection \in Nat /\ MaxSection > 0
  BY <1>1, IndexType DEF Sections
<1>3. c \in Sections \cup {NoSection}
  BY <1>1, <1>2 DEF TypeInv, CurOK
<1>4. c \in Int
  BY <1>2, <1>3 DEF NoSection
<1>5. counted \in [Ins -> Int]
  <2>1. off[pc] \in Int
    BY <1>1, FieldType
  <2>2. sym \in [Names -> Refs] /\ count \in [Ins -> Int]
    BY <1>1 DEF TypeOK
  <2>3. ins.arg \in Exprs
    BY <1>1, ProgramType
  <2>4. Value(ins.arg, off[pc], c, sym) \in Int
    BY <1>4, <2>1, <2>2, <2>3, EvalType
  <2> QED BY <2>2, <2>4
<1>6. size' \in [Ins -> Int] /\ count' \in [Ins -> Int]
  <2>1. GetLength(pc, TRUE, c, counted) \in Int
    <3>1. prog[pc].op = "endfill" => term[pc] # 0
      BY <1>1, PartnerExists
    <3> HIDE DEF c, counted
    <3> QED BY <1>1, <1>4, <1>5, <3>1, LengthType
  <2>2. size \in [Ins -> Int]
    BY <1>1 DEF TypeOK
  <2>3. size' = [size EXCEPT ![pc] = GetLength(pc, TRUE, c, counted)] /\ count' = counted
    BY DEF Precompile
  <2> HIDE DEF c, counted
  <2> QED BY <1>5, <2>1, <2>2, <2>3
<1>7. created' \in 0 .. MaxSection /\ cur' \in Sections \cup {NoSection}
  <2>1. ins.op = "section" => ins.sec \in Sections
    BY <1>1, ProgramType
  <2>2. created \in 0 .. MaxSection
    BY <1>1 DEF TypeOK
  <2>3. created' = SectionCount(ins)
    BY DEF Precompile
  <2>4. cur' = IF ins.op = "section" THEN ins.sec ELSE c
    BY DEF Precompile
  <2>5. created' \in 0 .. MaxSection
    BY <1>2, <2>1, <2>2, <2>3 DEF SectionCount
  <2> QED BY <1>3, <2>1, <2>4, <2>5
<1>8. sec' \in [Ins -> Sections \cup {NoSection}]
  <2>1. sec \in [Ins -> Sections \cup {NoSection}] /\ sec' = [sec EXCEPT ![pc] = c]
    BY <1>1 DEF TypeOK, Precompile
  <2> QED BY <1>3, <2>1
<1>9. /\ first' \in [Sections -> 0 .. Len(prog)]
      /\ last' \in [Sections -> 0 .. Len(prog)]
      /\ following' \in [Ins -> Nodes \cup {0}]
  <2>1. /\ first \in [Sections -> 0 .. Len(prog)]
        /\ last \in [Sections -> 0 .. Len(prog)]
        /\ following \in [Ins -> Nodes \cup {0}]
    BY <1>1 DEF TypeOK
  <2>2. pc \in 0 .. Len(prog) /\ pc \in Nodes
    BY <1>1, <1>2
  <2>3. CASE chained
    <3>1. c \in Sections
      BY <1>3, <2>3
    <3>2. last' = [last EXCEPT ![c] = pc]
      BY <2>3 DEF Precompile
    <3>3. \/ first' = [first EXCEPT ![c] = pc] /\ UNCHANGED following
          \/ following' = [following EXCEPT ![last[c]] = pc] /\ UNCHANGED first
      BY <2>3 DEF Precompile, LastIn
    <3> HIDE DEF c
    <3> QED BY <2>1, <2>2, <3>1, <3>2, <3>3
  <2>4. CASE ~chained
    <3>1. UNCHANGED <<first, last, following>>
      BY <2>4 DEF Precompile
    <3> QED BY <2>1, <3>1
  <2> QED BY <2>3, <2>4
<1>10. Ins' = Ins /\ Nodes' = Nodes
  BY SameIndices DEF Precompile
<1>11. UNCHANGED <<prog, phase, sym, term, open, off, changed, compiled>> /\ pc' = pc + 1
  BY DEF Precompile
<1>12. cur' \in Int
  BY <1>2, <1>7 DEF NoSection
<1>13. TypeOK'
  BY <1>1, <1>6, <1>7, <1>8, <1>9, <1>10, <1>11, <1>12 DEF TypeOK
<1>14. CurOK'
  BY <1>7 DEF CurOK, Sections
<1> QED BY <1>13, <1>14 DEF TypeInv

LEMMA EndPrecompileType == TypeInv /\ EndPrecompile => TypeInv'
<1> SUFFICES ASSUME TypeInv, EndPrecompile PROVE TypeInv'
  OBVIOUS
<1>1. TypeOK
  BY DEF TypeInv
<1>2. /\ Len(prog) \in Nat /\ Nodes = 1 .. Len(prog) + MaxSection
      /\ Sections = 1 .. MaxSection /\ MaxSection \in Nat
  BY <1>1, IndexType DEF Sections
<1>3. \A s \in Sections : EndOf(s) \in Nodes
  BY <1>2 DEF EndOf
<1>4. following' \in [Ins -> Nodes \cup {0}]
  <2>1. following \in [Ins -> Nodes \cup {0}]
    BY <1>1 DEF TypeOK
  <2>2. ASSUME NEW i \in Ins
        PROVE  (IF \E s \in Sections : last[s] = i
                THEN EndOf(CHOOSE s \in Sections : last[s] = i)
                ELSE following[i]) \in Nodes \cup {0}
    <3>1. CASE \E s \in Sections : last[s] = i
      <4>1. (CHOOSE s \in Sections : last[s] = i) \in Sections
        BY <3>1
      <4> QED BY <3>1, <4>1, <1>3
    <3>2. CASE ~\E s \in Sections : last[s] = i
      BY <2>1, <3>2
    <3> QED BY <3>1, <3>2
  <2>3. following' = [i \in Ins |->
                        IF \E s \in Sections : last[s] = i
                        THEN EndOf(CHOOSE s \in Sections : last[s] = i)
                        ELSE following[i]]
    BY DEF EndPrecompile
  <2> QED BY <2>2, <2>3
<1>5. cur' \in Int /\ pc' \in 1 .. Len(prog) + 1
  BY <1>1, <1>2 DEF EndPrecompile, TypeOK
<1>6. Ins' = Ins /\ Nodes' = Nodes
  BY SameIndices DEF EndPrecompile
<1>7. /\ UNCHANGED <<prog, sym, term, open, created, first, last, sec, off, size,
                     count, compiled>>
      /\ phase' = "update" /\ changed' = FALSE
  BY DEF EndPrecompile
<1>8. TypeOK'
  BY <1>1, <1>4, <1>5, <1>6, <1>7 DEF TypeOK
<1>9. CurOK'
  BY <1>7 DEF CurOK
<1> QED BY <1>8, <1>9 DEF TypeInv

LEMMA UpdateType == TypeInv /\ Update => TypeInv'
<1> SUFFICES ASSUME TypeInv, Update PROVE TypeInv'
  OBVIOUS
<1>1. /\ TypeOK /\ pc \in Ins /\ pc + 1 \in 1 .. Len(prog) + 1
      /\ phase = "update" /\ ~Stops(pc) /\ following[pc] # 0
  BY AtType DEF Update, TypeInv
<1>2. sec[pc] \in Int /\ off[pc] \in Int /\ following[pc] \in Nodes
  BY <1>1, FieldType
<1>3. sym' \in [Names -> Refs]
  <2>1. sym \in [Names -> Refs]
    BY <1>1 DEF TypeOK
  <2>2. Eval(prog[pc].arg, off[pc], sec[pc], sym) \in Refs
    BY <1>1, <1>2, <2>1, ProgramType, EvalType
  <2> QED BY <2>1, <2>2 DEF Update
<1>4. off' \in [Nodes -> Nat] /\ changed' \in BOOLEAN
  <2>1. NewOffset(pc) \in Nat
    <3>1. NewOffset(pc) \in Int
      BY <1>1, PartnerExists, NewOffsetType
    <3>2. NewOffset(pc) >= 0
      BY DEF Update
    <3> QED BY <3>1, <3>2
  <2>2. off \in [Nodes -> Nat] /\ changed \in BOOLEAN
    BY <1>1 DEF TypeOK
  <2>3. \/ off' = [off EXCEPT ![following[pc]] = NewOffset(pc)] /\ changed' = TRUE
        \/ UNCHANGED <<off, changed>>
    BY DEF Update
  <2> QED BY <1>2, <2>1, <2>2, <2>3
<1>5. Ins' = Ins /\ Nodes' = Nodes
  BY SameIndices DEF Update
<1>6. /\ UNCHANGED <<prog, phase, term, open, chainVars, size, count, compiled>>
      /\ cur' = sec[pc] /\ pc' = pc + 1
  BY DEF Update
<1>7. TypeOK'
  BY <1>1, <1>2, <1>3, <1>4, <1>5, <1>6 DEF TypeOK, chainVars
<1>8. CurOK'
  BY <1>1, <1>6 DEF CurOK
<1> QED BY <1>7, <1>8 DEF TypeInv

LEMMA CompileType == TypeInv /\ Compile => TypeInv'
<1> SUFFICES ASSUME TypeInv, Compile PROVE TypeInv'
  OBVIOUS
<1> DEFINE counted == IF prog[pc].op = "fill"
                      THEN [count EXCEPT ![pc] = Value(prog[pc].arg, off[pc], cur, sym)]
                      ELSE count
<1>1. /\ TypeOK /\ pc \in Ins /\ pc + 1 \in 1 .. Len(prog) + 1
      /\ phase = "compile" /\ ~Stops(pc)
  BY AtType DEF Compile, TypeInv
<1>2. sec[pc] \in Int /\ off[pc] \in Int
  BY <1>1, FieldType
<1>3. /\ sym \in [Names -> Refs] /\ count \in [Ins -> Int] /\ size \in [Ins -> Int]
      /\ cur \in Int
  BY <1>1 DEF TypeOK
<1>4. counted \in [Ins -> Int]
  <2>1. prog[pc].arg \in Exprs
    BY <1>1, ProgramType
  <2>2. Value(prog[pc].arg, off[pc], cur, sym) \in Int
    BY <1>2, <1>3, <2>1, EvalType
  <2> QED BY <1>3, <2>2
<1>5. GetLength(pc, FALSE, cur, counted) \in Int
  <2>1. prog[pc].op = "endfill" => term[pc] # 0
    BY <1>1, PartnerExists
  <2> HIDE DEF counted
  <2> QED BY <1>1, <1>3, <1>4, <2>1, LengthType
<1>6. /\ count' = counted
      /\ size' = [size EXCEPT ![pc] = GetLength(pc, FALSE, cur, counted)]
      /\ cur' \in {sec[pc], cur} /\ pc' = pc + 1
      /\ UNCHANGED <<prog, phase, sym, term, open, chainVars, off, changed, compiled>>
  BY DEF Compile
<1>7. Ins' = Ins /\ Nodes' = Nodes
  BY SameIndices DEF Compile
<1> HIDE DEF counted
<1>8. size' \in [Ins -> Int] /\ count' \in [Ins -> Int] /\ cur' \in Int
  BY <1>2, <1>3, <1>4, <1>5, <1>6
<1>9. TypeOK'
  BY <1>1, <1>6, <1>7, <1>8 DEF TypeOK, chainVars
<1>10. CurOK'
  BY <1>1, <1>6 DEF CurOK
<1> QED BY <1>9, <1>10 DEF TypeInv

(* The actions that only end a loop, pass an instruction over, or end.     *)
LEMMA ControlType ==
  TypeInv /\ (EndParse \/ EndGroup \/ UpdateUnchained \/ Wrap \/ EndUpdate
              \/ EndCompile \/ Stop \/ Finished) => TypeInv'
<1> SUFFICES ASSUME TypeInv,
                    EndParse \/ EndGroup \/ UpdateUnchained \/ Wrap \/ EndUpdate
                      \/ EndCompile \/ Stop \/ Finished
             PROVE  TypeInv'
  OBVIOUS
<1>1. TypeOK
  BY DEF TypeInv
<1>2. Len(prog) \in Nat
  BY <1>1, IndexType
<1>3. CASE EndParse
  <2>1. Ins' = Ins /\ Nodes' = Nodes
    BY <1>3, SameIndices DEF EndParse
  <2>2. TypeOK'
    BY <1>1, <1>2, <1>3, <2>1 DEF TypeOK, EndParse, chainVars
  <2> QED BY <1>3, <2>2 DEF TypeInv, CurOK, EndParse
<1>4. CASE EndGroup
  <2>1. Ins' = Ins /\ Nodes' = Nodes
    BY <1>4, SameIndices DEF EndGroup
  <2>2. TypeOK'
    BY <1>1, <1>2, <1>4, <2>1 DEF TypeOK, EndGroup, chainVars, NoSection
  <2> QED BY <1>4, <2>2 DEF TypeInv, CurOK, EndGroup
<1>5. CASE UpdateUnchained
  <2>1. Ins' = Ins /\ Nodes' = Nodes
    BY <1>5, SameIndices DEF UpdateUnchained
  <2>2. pc + 1 \in 1 .. Len(prog) + 1 /\ phase = "update"
    BY <1>1, <1>5, AtType DEF UpdateUnchained
  <2>3. TypeOK'
    BY <1>1, <1>5, <2>1, <2>2 DEF TypeOK, UpdateUnchained, chainVars
  <2> QED BY <1>5, <2>2, <2>3 DEF TypeInv, CurOK, UpdateUnchained
<1>6. CASE Wrap
  <2>1. Ins' = Ins /\ Nodes' = Nodes
    BY <1>6, SameIndices DEF Wrap
  <2>2. TypeOK'
    BY <1>1, <1>6, <2>1 DEF TypeOK, Wrap, chainVars
  <2> QED BY <1>6, <2>2 DEF TypeInv, CurOK, Wrap
<1>7. CASE EndUpdate
  <2>1. Ins' = Ins /\ Nodes' = Nodes
    BY <1>7, SameIndices DEF EndUpdate
  <2>2. phase' \in {"done", "compile"} /\ pc' \in 1 .. Len(prog) + 1
    BY <1>1, <1>2, <1>7 DEF EndUpdate, TypeOK
  <2>3. TypeOK'
    BY <1>1, <1>7, <2>1, <2>2 DEF TypeOK, EndUpdate, chainVars
  <2> QED BY <2>2, <2>3 DEF TypeInv, CurOK
<1>8. CASE EndCompile
  <2>1. Ins' = Ins /\ Nodes' = Nodes
    BY <1>8, SameIndices DEF EndCompile
  <2>2. /\ UNCHANGED <<prog, cur, sym, term, open, chainVars, off, size, count>>
        /\ phase' = "update" /\ pc' = 1 /\ changed' = FALSE /\ compiled' = TRUE
    BY <1>8 DEF EndCompile
  <2>3. pc' \in 1 .. Len(prog) + 1
    BY <1>2, <2>2
  <2>4. TypeOK'
    BY <1>1, <2>1, <2>2, <2>3 DEF TypeOK, chainVars
  <2> QED BY <2>2, <2>4 DEF TypeInv, CurOK
<1>9. CASE Stop
  <2>1. Ins' = Ins /\ Nodes' = Nodes
    BY <1>9, SameIndices DEF Stop
  <2>2. TypeOK'
    BY <1>1, <1>9, <2>1 DEF TypeOK, Stop, chainVars
  <2> QED BY <1>9, <2>2 DEF TypeInv, CurOK, Stop
<1>10. CASE Finished
  <2>1. UNCHANGED vars
    BY <1>10 DEF Finished
  <2> QED BY <2>1 DEF vars, chainVars, TypeInv, CurOK, TypeOK, Ins, Nodes
<1> QED BY <1>3, <1>4, <1>5, <1>6, <1>7, <1>8, <1>9, <1>10

LEMMA TypeStutter == TypeInv /\ UNCHANGED vars => TypeInv'
BY DEF vars, chainVars, TypeInv, CurOK, TypeOK, Ins, Nodes

LEMMA TypeStep == TypeInv /\ [Next]_vars => TypeInv'
BY ParseType, GroupType, PrecompileType, EndPrecompileType, UpdateType, CompileType,
   ControlType, TypeStutter DEF Next, Pass

(* Every state of the layout passes is well typed: pc stays in the stream, *)
(* every chain and every termination names an instruction that exists, and *)
(* no offset is negative.                                                  *)
THEOREM TypeInvariant == Spec => []TypeInv
BY InitType, TypeStep, PTL DEF Spec

(* ... of which the variables' types are the part the runs check.          *)
THEOREM TypeCorrect == Spec => []TypeOK
<1>1. TypeInv => TypeOK
  BY DEF TypeInv
<1> QED BY <1>1, TypeInvariant, PTL
-----------------------------------------------------------------------------
(***************************************************************************)
(* update_code_offsets only ever raises an offset, whatever the lengths    *)
(* do: no pass moves an instruction down.                                  *)
(***************************************************************************)
THEOREM OffsetsOnlyGrow == Spec => OffsetsGrow
<1>1. TypeInv /\ [Next]_vars => [\A n \in Nodes : off'[n] >= off[n]]_off
  <2> SUFFICES ASSUME TypeInv, Next, off' # off
               PROVE  \A n \in Nodes : off'[n] >= off[n]
    BY DEF vars
  <2>1. Update
    BY DEF Next, Pass, Parse, EndParse, Group, EndGroup, Precompile, EndPrecompile,
           UpdateUnchained, Wrap, EndUpdate, Compile, EndCompile, Stop, Finished, vars
  <2>2. TypeOK /\ off \in [Nodes -> Nat]
    BY DEF TypeInv, TypeOK
  <2>3. pc \in Ins /\ following[pc] \in Nodes
    BY <2>1, <2>2, AtType, FieldType DEF Update
  <2>4. NewOffset(pc) > off[following[pc]] /\ NewOffset(pc) \in Int
    <3>1. NewOffset(pc) \in Int
      BY <2>1, <2>2, AtType, PartnerExists, NewOffsetType DEF Update
    <3>2. off[following[pc]] < NewOffset(pc)
      BY <2>1 DEF Update, Raises
    <3> QED BY <2>2, <2>3, <3>1, <3>2
  <2>5. off' = [off EXCEPT ![following[pc]] = NewOffset(pc)]
    BY <2>1 DEF Update
  <2> QED BY <2>2, <2>3, <2>4, <2>5
<1> QED BY <1>1, TypeInvariant, PTL DEF Spec, OffsetsGrow
-----------------------------------------------------------------------------
(***************************************************************************)
(* No instruction overlaps the next.  In a pass that has raised nothing so *)
(* far, every instruction the pass has visited has the room it asks for;   *)
(* the passes end only when a whole pass has raised nothing.  Sizes,       *)
(* counts and links are constant during the pass.  (The value of an .org   *)
(* may still follow a symbol that a later .equ redefines, so it is left    *)
(* out.)                                                                   *)
(***************************************************************************)
HasRoom(i) ==
  Chained(i) /\ prog[i].op # "org" => off[following[i]] >= Extent(i)

RoomInv ==
  /\ phase = "update" /\ ~changed => \A i \in Ins : i < pc => HasRoom(i)
  /\ phase = "done" => \A i \in Ins : HasRoom(i)

LEMMA RoomUpdate == TypeInv /\ RoomInv /\ Update => RoomInv'
<1> SUFFICES ASSUME TypeInv, RoomInv, Update PROVE RoomInv'
  OBVIOUS
<1>1. /\ TypeOK /\ pc \in Ins /\ phase = "update" /\ following[pc] # 0
      /\ off[following[pc]] \in Nat /\ NewOffset(pc) \in Int /\ pc \in Nat
  <2>1. TypeOK /\ pc \in Ins /\ phase = "update" /\ following[pc] # 0 /\ ~Stops(pc)
    BY AtType DEF Update, TypeInv
  <2> QED BY <2>1, FieldType, NewOffsetType, PartnerExists
<1>2. /\ phase' = "update" /\ pc' = pc + 1 /\ prog' = prog /\ Ins' = Ins
      /\ UNCHANGED <<term, following, size, count>>
  BY <1>1, SameIndices DEF Update, chainVars
<1>3. SUFFICES ASSUME ~changed', NEW i \in Ins, i < pc'
               PROVE  HasRoom(i)'
  BY <1>2 DEF RoomInv
<1>4. ~changed /\ UNCHANGED off /\ off[following[pc]] >= NewOffset(pc)
  <2>1. ~Raises(following[pc], NewOffset(pc))
    BY <1>3 DEF Update
  <2>2. UNCHANGED <<off, changed>>
    BY <2>1 DEF Update
  <2>3. ~(off[following[pc]] < NewOffset(pc))
    BY <2>1 DEF Raises
  <2> QED BY <1>1, <1>3, <2>2, <2>3
<1>5. HasRoom(i)
  <2>1. CASE i = pc
    BY <1>4, <2>1 DEF HasRoom, NewOffset, Extent
  <2>2. CASE i # pc
    <3>1. i < pc
      BY <1>1, <1>2, <1>3, <2>2, FieldType
    <3> QED BY <1>1, <1>4, <3>1 DEF RoomInv
  <2> QED BY <2>1, <2>2
<1> QED BY <1>2, <1>4, <1>5 DEF HasRoom, Chained, Extent

LEMMA RoomPass == TypeInv /\ RoomInv /\ Next /\ ~Update => RoomInv'
<1> SUFFICES ASSUME TypeInv, RoomInv, Next, ~Update PROVE RoomInv'
  OBVIOUS
<1>1. TypeOK
  BY DEF TypeInv
<1>2. CASE UpdateUnchained
  <2>1. /\ phase = "update" /\ following[pc] = 0 /\ pc \in Nat
    BY <1>1, <1>2, AtType, FieldType DEF UpdateUnchained
  <2>2. /\ UNCHANGED <<prog, phase, term, following, off, size, count, changed>>
        /\ pc' = pc + 1 /\ Ins' = Ins
    BY <1>2, SameIndices DEF UpdateUnchained, chainVars
  <2>3. ASSUME ~changed, NEW i \in Ins, i < pc + 1
        PROVE  HasRoom(i)
    <3>1. i < pc \/ i = pc
      BY <1>1, <2>1, <2>3, FieldType
    <3> QED BY <2>1, <2>3, <3>1 DEF RoomInv, HasRoom, Chained
  <2> QED BY <2>1, <2>2, <2>3 DEF RoomInv, HasRoom, Chained, Extent
<1>3. CASE EndUpdate
  <2>1. phase = "update" /\ pc = Len(prog) + 1 /\ Len(prog) \in Nat /\ Ins = 1 .. Len(prog)
    BY <1>1, <1>3, IndexType DEF EndUpdate
  <2>2. /\ UNCHANGED <<prog, term, following, off, size, count>> /\ Ins' = Ins
        /\ phase' \in {"compile", "done"}
        /\ phase' = "done" => ~changed
    BY <1>3, SameIndices DEF EndUpdate, chainVars, Settled
  <2>3. ASSUME ~changed, NEW i \in Ins
        PROVE  HasRoom(i)
    BY <2>1, <2>3 DEF RoomInv
  <2> QED BY <2>2, <2>3 DEF RoomInv, HasRoom, Chained, Extent
<1>4. CASE EndPrecompile \/ EndCompile
  <2>1. phase' = "update" /\ pc' = 1 /\ Ins' = Ins
    BY <1>4, SameIndices DEF EndPrecompile, EndCompile
  <2>2. \A i \in Ins : ~(i < 1)
    BY <1>1, FieldType
  <2> QED BY <2>1, <2>2 DEF RoomInv
<1>5. CASE Finished
  BY <1>5 DEF Finished, vars, chainVars, RoomInv, HasRoom, Chained, Extent, Ins
<1>6. CASE Parse \/ EndParse \/ Group \/ EndGroup \/ Precompile \/ Compile \/ Stop \/ Wrap
  <2>1. phase' \notin {"update", "done"}
    BY <1>1, <1>6 DEF Parse, EndParse, Group, EndGroup, Precompile, Compile, Stop,
                      Wrap, At
  <2> QED BY <2>1 DEF RoomInv
<1> QED BY <1>2, <1>3, <1>4, <1>5, <1>6 DEF Next, Pass

LEMMA RoomInit == Init => RoomInv
BY DEF Init, RoomInv

LEMMA RoomStep == TypeInv /\ RoomInv /\ [Next]_vars => RoomInv'
<1>1. TypeInv /\ RoomInv /\ UNCHANGED vars => RoomInv'
  BY DEF vars, chainVars, RoomInv, HasRoom, Chained, Extent, Ins
<1> QED BY <1>1, RoomUpdate, RoomPass

LEMMA RoomCorrect == Spec => []RoomInv
BY RoomInit, RoomStep, TypeInvariant, PTL DEF Spec

(* When the passes end, every instruction of a chain has the room it asks  *)
(* for, for every program, target and reach (asm.c:843).                   *)
THEOREM RoomForAll == Spec => []NoOverlap
<1>1. RoomInv => NoOverlap
  BY DEF RoomInv, NoOverlap, HasRoom
<1> QED BY <1>1, RoomCorrect, PTL
-----------------------------------------------------------------------------
(***************************************************************************)
(* The chains.  While precompile builds them, the last instruction of a    *)
(* section is one it has visited, in that section and without a link.      *)
(***************************************************************************)
LinksForward == \A i \in Ins : following[i] # 0 => i < following[i]

LinksApart ==
  \A i, j \in Ins : following[i] # 0 /\ following[i] = following[j] => i = j

LinksBuilt ==
  /\ phase \in {"parse", "group"} =>
       (\A i \in Ins : following[i] = 0) /\ (\A s \in Sections : last[s] = 0)
  /\ phase = "precompile" =>
       /\ \A i \in Ins : following[i] # 0 => following[i] < pc
       /\ \A s \in Sections : last[s] # 0 =>
            last[s] < pc /\ sec[last[s]] = s /\ following[last[s]] = 0

ChainInv == LinksForward /\ LinksApart /\ LinksBuilt

LEMMA ChainInit == Init => ChainInv
BY DEF Init, ChainInv, LinksForward, LinksApart, LinksBuilt

LEMMA ChainPrecompile == TypeInv /\ ChainInv /\ Precompile => ChainInv'
<1> SUFFICES ASSUME TypeInv, ChainInv, Precompile PROVE ChainInv'
  OBVIOUS
<1> DEFINE ins     == prog[pc]
           c       == IF OpensText(ins) THEN 1 ELSE cur
           chained == ins.op # "section" /\ c # NoSection
<1>1. TypeOK /\ pc \in Ins /\ phase = "precompile"
  BY AtType DEF Precompile, TypeInv
<1>2. /\ Ins \subseteq Nat \ {0} /\ Sections \subseteq Nat \ {0} /\ 1 \in Sections
      /\ pc \in Nat /\ Ins = 1 .. Len(prog) /\ Len(prog) \in Nat
  BY <1>1, IndexType, FieldType
<1>3. c \in Sections \cup {NoSection}
  BY <1>1, <1>2 DEF TypeInv, CurOK
<1>4. /\ following \in [Ins -> Nat] /\ last \in [Sections -> 0 .. Len(prog)]
      /\ sec \in [Ins -> Sections \cup {NoSection}]
  <2>1. /\ following \in [Ins -> Nodes \cup {0}] /\ last \in [Sections -> 0 .. Len(prog)]
        /\ sec \in [Ins -> Sections \cup {NoSection}]
    BY <1>1 DEF TypeOK
  <2>2. Nodes \cup {0} \subseteq Nat
    BY <1>1, IndexType
  <2> QED BY <2>1, <2>2
<1>5. /\ Ins' = Ins /\ Sections' = Sections /\ phase' = "precompile" /\ pc' = pc + 1
      /\ sec' = [sec EXCEPT ![pc] = c]
  BY <1>1, SameIndices DEF Precompile, Sections
<1>6. /\ \A i \in Ins : following[i] # 0 => i < following[i] /\ following[i] < pc
      /\ \A s \in Sections : last[s] # 0 =>
           last[s] \in Ins /\ last[s] < pc /\ sec[last[s]] = s /\ following[last[s]] = 0
      /\ LinksApart
  BY <1>1, <1>2, <1>4 DEF ChainInv, LinksForward, LinksBuilt
<1>7. following[pc] = 0
  <2>1. following[pc] \in Nat /\ pc \in Nat
    BY <1>1, <1>2, <1>4
  <2>2. following[pc] # 0 => pc < following[pc] /\ following[pc] < pc
    BY <1>1, <1>6
  <2> QED BY <2>1, <2>2
<1>8. CASE ~chained
  <2>1. UNCHANGED <<last, following>>
    BY <1>8 DEF Precompile
  <2>2. LinksForward' /\ LinksApart'
    BY <1>5, <1>6, <2>1 DEF LinksForward, LinksApart
  <2>3. \A i \in Ins : following'[i] # 0 => following'[i] < pc + 1
    BY <1>2, <1>4, <1>6, <2>1
  <2>4. \A s \in Sections : last[s] # 0 =>
          last[s] < pc + 1 /\ sec'[last[s]] = s /\ following[last[s]] = 0
    BY <1>1, <1>2, <1>4, <1>5, <1>6
  <2>5. LinksBuilt'
    BY <1>5, <2>1, <2>3, <2>4 DEF LinksBuilt
  <2> QED BY <2>2, <2>5 DEF ChainInv
<1>9. CASE chained
  <2>1. c \in Sections /\ last' = [last EXCEPT ![c] = pc]
    BY <1>3, <1>9 DEF Precompile
  <2> DEFINE l == last[c]
  <2>2. \/ l = 0 /\ UNCHANGED following
        \/ l # 0 /\ following' = [following EXCEPT ![l] = pc]
    BY <1>9 DEF Precompile, LastIn
  <2>3. l # 0 => l \in Ins /\ l < pc /\ sec[l] = c /\ following[l] = 0
    BY <1>6, <2>1
  <2> HIDE DEF c
  <2>4. \A i \in Ins : following'[i] # 0 =>
          \/ i = l /\ following'[i] = pc
          \/ following'[i] = following[i]
    BY <1>4, <2>2, <2>3
  <2>5. LinksForward' /\ \A i \in Ins : following'[i] # 0 => following'[i] < pc + 1
    <3> SUFFICES ASSUME NEW i \in Ins, following'[i] # 0
                 PROVE  i < following'[i] /\ following'[i] < pc + 1
      BY <1>5 DEF LinksForward
    <3>1. i \in Nat /\ following[i] \in Nat /\ pc \in Nat
      BY <1>2, <1>4
    <3>2. CASE i = l /\ following'[i] = pc
      <4>1. i < pc
        BY <1>2, <2>3, <3>2
      <4> QED BY <3>1, <3>2, <4>1
    <3>3. CASE following'[i] = following[i]
      <4>1. i < following[i] /\ following[i] < pc
        BY <1>6, <3>3
      <4> QED BY <3>1, <3>3, <4>1
    <3> QED BY <2>4, <3>2, <3>3
  <2>6. LinksApart'
    <3> SUFFICES ASSUME NEW i \in Ins, NEW j \in Ins, following'[i] # 0,
                        following'[i] = following'[j]
                 PROVE  i = j
      BY <1>5 DEF LinksApart
    <3> QED BY <1>2, <1>4, <1>6, <2>4 DEF LinksApart
  <2>7. \A s \in Sections : last'[s] # 0 =>
          last'[s] < pc + 1 /\ sec'[last'[s]] = s /\ following'[last'[s]] = 0
    <3> SUFFICES ASSUME NEW s \in Sections, last'[s] # 0
                 PROVE  last'[s] < pc + 1 /\ sec'[last'[s]] = s /\ following'[last'[s]] = 0
      OBVIOUS
    <3>1. CASE s = c
      <4>1. last'[s] = pc /\ l # pc
        BY <1>2, <1>4, <2>1, <2>3, <3>1
      <4>2. following'[pc] = 0
        BY <1>1, <1>4, <1>7, <2>2, <4>1
      <4>3. sec'[pc] = c
        BY <1>1, <1>4, <1>5
      <4> QED BY <1>2, <3>1, <4>1, <4>2, <4>3
    <3>2. CASE s # c
      <4>1. last'[s] = last[s] /\ last[s] # 0
        BY <1>4, <2>1, <3>2
      <4>2. last[s] \in Ins /\ last[s] < pc /\ sec[last[s]] = s /\ following[last[s]] = 0
        BY <1>6, <4>1
      <4>3. last[s] # l
        BY <1>2, <2>3, <3>2, <4>2
      <4>4. following'[last[s]] = 0 /\ sec'[last[s]] = s
        BY <1>2, <1>4, <1>5, <2>2, <4>2, <4>3
      <4> QED BY <1>2, <4>1, <4>2, <4>4
    <3> QED BY <3>1, <3>2
  <2>8. LinksBuilt'
    BY <1>5, <2>5, <2>7 DEF LinksBuilt
  <2> QED BY <2>5, <2>6, <2>8 DEF ChainInv
<1> QED BY <1>8, <1>9

LEMMA ChainEndPrecompile == TypeInv /\ ChainInv /\ EndPrecompile => ChainInv'
<1> SUFFICES ASSUME TypeInv, ChainInv, EndPrecompile PROVE ChainInv'
  OBVIOUS
<1>1. TypeOK /\ phase = "precompile" /\ pc = Len(prog) + 1 /\ phase' = "update"
  BY DEF TypeInv, EndPrecompile
<1>2. /\ Len(prog) \in Nat /\ Ins = 1 .. Len(prog) /\ Ins' = Ins
      /\ Sections \subseteq Nat \ {0}
  BY <1>1, IndexType, SameIndices DEF EndPrecompile
<1>3. following \in [Ins -> Nat]
  <2>1. following \in [Ins -> Nodes \cup {0}] /\ Nodes \cup {0} \subseteq Nat
    BY <1>1, IndexType DEF TypeOK
  <2> QED BY <2>1
<1>4. /\ \A i \in Ins : following[i] # 0 => i < following[i] /\ following[i] <= Len(prog)
      /\ LinksApart
  <2>1. \A i \in Ins : following[i] # 0 => i < following[i] /\ following[i] < Len(prog) + 1
    BY <1>1 DEF ChainInv, LinksForward, LinksBuilt
  <2>2. \A i \in Ins : following[i] \in Nat
    BY <1>3
  <2> QED BY <1>2, <2>1, <2>2 DEF ChainInv
<1>5. \A i \in Ins :
        \/ following'[i] = following[i]
        \/ \E s \in Sections : last[s] = i /\ following'[i] = EndOf(s)
  <2> SUFFICES ASSUME NEW i \in Ins, \E s \in Sections : last[s] = i
               PROVE  \E s \in Sections : last[s] = i /\ following'[i] = EndOf(s)
    BY DEF EndPrecompile
  <2>1. following'[i] = EndOf(CHOOSE s \in Sections : last[s] = i)
    BY DEF EndPrecompile
  <2> QED BY <2>1
<1>6. \A s \in Sections : EndOf(s) > Len(prog)
  BY <1>2 DEF EndOf
<1>7. \A s, t \in Sections : EndOf(s) = EndOf(t) => s = t
  BY <1>2 DEF EndOf
<1>8. LinksForward'
  BY <1>2, <1>4, <1>5, <1>6 DEF LinksForward, EndOf
<1>9. LinksApart'
  <2> SUFFICES ASSUME NEW i \in Ins, NEW j \in Ins, following'[i] # 0,
                      following'[i] = following'[j]
               PROVE  i = j
    BY <1>2 DEF LinksApart
  <2>1. CASE following'[i] = following[i] /\ following'[j] = following[j]
    BY <1>4, <2>1 DEF LinksApart
  <2>2. \A k, m \in Ins :
          ~ /\ following'[k] = following[k] /\ following'[k] # 0
            /\ \E t \in Sections : following'[m] = EndOf(t)
            /\ following'[k] = following'[m]
    <3> SUFFICES ASSUME NEW k \in Ins, NEW t \in Sections, following[k] # 0
                 PROVE  following[k] # EndOf(t)
      OBVIOUS
    <3>1. following[k] \in Nat /\ following[k] <= Len(prog)
      BY <1>3, <1>4
    <3>2. EndOf(t) > Len(prog)
      BY <1>6
    <3> QED BY <1>2, <3>1, <3>2
  <2>4. CASE /\ \E s \in Sections : last[s] = i /\ following'[i] = EndOf(s)
             /\ \E t \in Sections : last[t] = j /\ following'[j] = EndOf(t)
    BY <1>7, <2>4
  <2> QED BY <1>5, <2>1, <2>2, <2>4
<1>10. LinksBuilt'
  BY <1>1 DEF LinksBuilt
<1> QED BY <1>8, <1>9, <1>10 DEF ChainInv

LEMMA ChainKept ==
  TypeInv /\ ChainInv /\ [Next]_vars /\ ~Precompile /\ ~EndPrecompile => ChainInv'
<1> SUFFICES ASSUME TypeInv, ChainInv, [Next]_vars, ~Precompile, ~EndPrecompile
             PROVE  ChainInv'
  OBVIOUS
<1>1. /\ UNCHANGED <<prog, following, last, sec>> /\ Ins' = Ins /\ Sections' = Sections
      /\ \/ phase' = "precompile" /\ phase = "group"
         \/ phase' = "group" /\ phase = "parse"
         \/ phase' = phase /\ (phase = "precompile" => UNCHANGED pc)
         \/ phase' \notin {"parse", "group", "precompile"}
  <2>1. UNCHANGED <<prog, following, last, sec>>
    BY DEF Next, Pass, Parse, EndParse, Group, EndGroup, UpdateUnchained, Update,
           Wrap, EndUpdate, Compile, EndCompile, Stop, Finished, vars, chainVars
  <2>2. \/ phase' = "precompile" /\ phase = "group"
        \/ phase' = "group" /\ phase = "parse"
        \/ phase' = phase /\ (phase = "precompile" => UNCHANGED pc)
        \/ phase' \notin {"parse", "group", "precompile"}
    BY DEF Next, Pass, Parse, EndParse, Group, EndGroup, UpdateUnchained, Update,
           Wrap, EndUpdate, Compile, EndCompile, Stop, Finished, vars, At
  <2> QED BY <2>1, <2>2, SameIndices DEF Sections
<1>2. LinksForward' /\ LinksApart'
  BY <1>1 DEF ChainInv, LinksForward, LinksApart
<1>3. LinksBuilt'
  BY <1>1 DEF ChainInv, LinksBuilt
<1> QED BY <1>2, <1>3 DEF ChainInv

LEMMA ChainStep == TypeInv /\ ChainInv /\ [Next]_vars => ChainInv'
BY ChainPrecompile, ChainEndPrecompile, ChainKept

(* No two instructions are followed by the same one, and none by an        *)
(* earlier one: update_code_offsets raises an offset once in a pass.       *)
THEOREM ChainsApart == Spec => []ChainInv
BY ChainInit, ChainStep, TypeInvariant, PTL DEF Spec
-----------------------------------------------------------------------------
(***************************************************************************)
(* No holes.  The length of a rigid instruction never decreases, nor does  *)
(* its offset, and the offset after it was set to their sum of an earlier  *)
(* moment; so it never exceeds their sum of now.                           *)
(***************************************************************************)
Cap(i) ==
  CASE prog[i].op = "insn" -> prog[i].long
    [] prog[i].op = "data" -> prog[i].short
    [] prog[i].op = "skip" -> prog[i].arg.add
    [] OTHER               -> 0

Unmoved ==
  phase \in {"parse", "group", "precompile"} => ~compiled /\ \A n \in Nodes : off[n] = 0

Bounded == \A i \in Ins : Rigid(i) => 0 <= size[i] /\ size[i] <= Cap(i)

Tight(i) == Rigid(i) /\ Chained(i) => off[following[i]] <= off[i] + size[i]

GapInv == Unmoved /\ Bounded /\ \A i \in Ins : Tight(i)

(* A pass never gives a rigid instruction a shorter form than it had.      *)
LEMMA RigidGrows ==
  ASSUME TypeOK, NEW i \in Ins, Rigid(i), 0 <= size[i], size[i] <= Cap(i),
         NEW forgiving \in BOOLEAN, NEW c, NEW n
  PROVE  /\ size[i] <= GetLength(i, forgiving, c, n)
         /\ 0 <= GetLength(i, forgiving, c, n)
         /\ GetLength(i, forgiving, c, n) <= Cap(i)
<1>1. WellFormed(prog)
  BY ConstantsAssumption DEF TypeOK
<1>2. /\ prog[i].short \in Nat /\ prog[i].long \in Nat /\ prog[i].short <= prog[i].long
      /\ prog[i].op = "skip" /\ IsConst(prog[i].arg) => prog[i].arg.add >= 0
      /\ prog[i].arg \in Exprs
  BY <1>1, ProgramType DEF Instructions, WellFormed, Ins
<1>3. size[i] \in Int
  BY FieldType
<1>4. CASE prog[i].op = "insn"
  <2>1. /\ Cap(i) = prog[i].long
        /\ GetLength(i, forgiving, c, n) = TargetLength(i, forgiving, c)
    BY <1>4 DEF Cap, GetLength
  <2>2. Target = "x86" \/ prog[i].short = prog[i].long
    BY <1>4 DEF Rigid
  <2>3. \/ TargetLength(i, forgiving, c) = prog[i].long
        \/ /\ TargetLength(i, forgiving, c) = prog[i].short
           /\ Target = "x86" => size[i] <= prog[i].short
    BY DEF TargetLength
  <2> QED BY <1>2, <1>3, <2>1, <2>2, <2>3
<1>5. CASE prog[i].op = "data"
  BY <1>2, <1>3, <1>5 DEF Cap, GetLength
<1>6. CASE prog[i].op = "skip"
  <2>1. IsConst(prog[i].arg)
    BY <1>6 DEF Rigid
  <2>2. Eval(prog[i].arg, off[i], c, sym) = [val |-> 0 - 0 + prog[i].arg.add, sec |-> Scalar]
    BY <1>2, <2>1 DEF IsConst, Eval, AtomValue, Scalar
  <2>3. Value(prog[i].arg, off[i], c, sym) = prog[i].arg.add
    BY <1>2, <2>2 DEF Value, Exprs
  <2>4. Cap(i) = prog[i].arg.add /\ GetLength(i, forgiving, c, n) = prog[i].arg.add
    BY <1>6, <2>3 DEF Cap, GetLength
  <2> QED BY <1>2, <1>3, <1>6, <2>1, <2>4 DEF Exprs
<1>7. CASE prog[i].op \in {"equ", "section", "times", "fill"}
  BY <1>3, <1>7 DEF Cap, GetLength
<1> QED BY <1>4, <1>5, <1>6, <1>7 DEF Rigid

LEMMA GapInit == Init => GapInv
<1> SUFFICES ASSUME Init PROVE GapInv
  OBVIOUS
<1>1. TypeOK
  BY InitType DEF TypeInv
<1>2. ASSUME NEW i \in Ins, Rigid(i)
      PROVE  0 <= Cap(i)
  <2>1. WellFormed(prog)
    BY <1>1, ConstantsAssumption DEF TypeOK
  <2>2. /\ prog[i].short \in Nat /\ prog[i].long \in Nat /\ prog[i].arg.add \in Int
        /\ prog[i].op = "skip" /\ IsConst(prog[i].arg) => prog[i].arg.add >= 0
    BY <1>1, <2>1, ProgramType DEF Instructions, Exprs, WellFormed, Ins
  <2> QED BY <1>2, <2>2 DEF Rigid, Cap
<1>3. Unmoved /\ \A i \in Ins : Tight(i)
  BY DEF Init, Unmoved, Tight, Chained
<1> QED BY <1>2, <1>3 DEF Init, GapInv, Bounded

(* The two actions that size instructions.                                 *)
LEMMA GapSized ==
  ASSUME TypeInv, ChainInv, GapInv, Precompile \/ Compile
  PROVE  GapInv'
<1>1. /\ TypeOK /\ TypeOK' /\ pc \in Ins
  BY AtType, PrecompileType, CompileType DEF Precompile, Compile, TypeInv
<1>2. /\ UNCHANGED <<prog, phase, off, compiled>> /\ Ins' = Ins /\ Nodes' = Nodes
      /\ \E c, n : \/ size' = [size EXCEPT ![pc] = GetLength(pc, TRUE, c, n)]
                   \/ size' = [size EXCEPT ![pc] = GetLength(pc, FALSE, c, n)]
  <2>1. CASE Precompile
    <3>1. \E c, n : size' = [size EXCEPT ![pc] = GetLength(pc, TRUE, c, n)]
      BY <2>1 DEF Precompile
    <3>2. UNCHANGED <<prog, phase, off, compiled>>
      BY <2>1 DEF Precompile
    <3> QED BY <3>1, <3>2, SameIndices
  <2>2. CASE Compile
    <3>1. \E c, n : size' = [size EXCEPT ![pc] = GetLength(pc, FALSE, c, n)]
      BY <2>2 DEF Compile
    <3>2. UNCHANGED <<prog, phase, off, compiled>>
      BY <2>2 DEF Compile
    <3> QED BY <3>1, <3>2, SameIndices
  <2> QED BY <2>1, <2>2
<1>3. Unmoved'
  BY <1>2 DEF GapInv, Unmoved
<1>4. \A i \in Ins : Rigid(i)' = Rigid(i) /\ Cap(i)' = Cap(i)
  BY <1>2 DEF Rigid, Cap
<1>5. size \in [Ins -> Int]
  BY <1>1 DEF TypeOK
<1>6. \A i \in Ins : Rigid(i) => /\ size[i] <= size'[i] /\ 0 <= size'[i]
                                 /\ size'[i] <= Cap(i)
  <2> SUFFICES ASSUME NEW i \in Ins, Rigid(i)
               PROVE  size[i] <= size'[i] /\ 0 <= size'[i] /\ size'[i] <= Cap(i)
    OBVIOUS
  <2>1. 0 <= size[i] /\ size[i] <= Cap(i) /\ size[i] \in Int
    BY <1>5 DEF GapInv, Bounded
  <2>2. CASE i = pc
    <3>1. PICK c, n : \/ size' = [size EXCEPT ![pc] = GetLength(pc, TRUE, c, n)]
                      \/ size' = [size EXCEPT ![pc] = GetLength(pc, FALSE, c, n)]
      BY <1>2
    <3>2. \/ size'[i] = GetLength(i, TRUE, c, n)
          \/ size'[i] = GetLength(i, FALSE, c, n)
      BY <1>5, <2>2, <3>1
    <3>3. \A forgiving \in BOOLEAN :
            /\ size[i] <= GetLength(i, forgiving, c, n)
            /\ 0 <= GetLength(i, forgiving, c, n)
            /\ GetLength(i, forgiving, c, n) <= Cap(i)
      BY <1>1, <2>1, RigidGrows
    <3> QED BY <3>2, <3>3
  <2>3. CASE i # pc
    <3>1. size'[i] = size[i]
      BY <1>2, <1>5, <2>3
    <3> QED BY <2>1, <3>1
  <2> QED BY <2>2, <2>3
<1>7. Bounded'
  BY <1>2, <1>4, <1>6 DEF Bounded
<1>8. ASSUME NEW i \in Ins
      PROVE  Tight(i)'
  <2> SUFFICES ASSUME Rigid(i), following'[i] # 0
               PROVE  off[following'[i]] <= off[i] + size'[i]
    BY <1>2, <1>4 DEF Tight, Chained
  <2>1. off[i] \in Nat /\ size[i] \in Int /\ size'[i] \in Int
    BY <1>1, <1>2, FieldType DEF TypeOK
  <2>2. CASE Precompile
    <3>1. following'[i] \in Nodes
      BY <1>1, <1>2 DEF TypeOK
    <3>2. off[i] = 0 /\ off[following'[i]] = 0
      BY <1>1, <2>2, <3>1, FieldType DEF GapInv, Unmoved, Precompile, At
    <3> QED BY <1>6, <2>1, <3>2
  <2>3. CASE Compile
    <3>1. following' = following
      BY <2>3 DEF Compile, chainVars
    <3>2. off[following[i]] <= off[i] + size[i] /\ off[following[i]] \in Nat
      BY <1>1, <3>1, FieldType DEF GapInv, Tight, Chained
    <3> QED BY <1>6, <2>1, <3>1, <3>2
  <2> QED BY <2>2, <2>3
<1> QED BY <1>2, <1>3, <1>7, <1>8 DEF GapInv

(* The one action that moves an instruction: only the link from pc leads   *)
(* to it.                                                                  *)
LEMMA GapUpdate ==
  ASSUME TypeInv, ChainInv, GapInv, Update
  PROVE  GapInv'
<1>1. TypeOK /\ pc \in Ins /\ phase = "update" /\ following[pc] # 0 /\ ~Stops(pc)
  BY AtType DEF Update, TypeInv
<1>2. /\ UNCHANGED <<prog, phase, following, size, compiled>> /\ Ins' = Ins
      /\ off \in [Nodes -> Nat] /\ Ins \subseteq Nodes
  BY <1>1, SameIndices, IndexType DEF Update, chainVars, TypeOK
<1> DEFINE f == following[pc]
<1>3. f \in Nodes /\ NewOffset(pc) \in Int
  BY <1>1, FieldType, PartnerExists, NewOffsetType
<1>4. \/ off' = off
      \/ off' = [off EXCEPT ![f] = NewOffset(pc)] /\ off[f] < NewOffset(pc)
  BY DEF Update, Raises
<1> HIDE DEF f
<1>5. Unmoved' /\ Bounded'
  <2>1. \A i \in Ins : Rigid(i)' = Rigid(i) /\ Cap(i)' = Cap(i)
    BY <1>2 DEF Rigid, Cap
  <2> QED BY <1>1, <1>2, <2>1 DEF GapInv, Unmoved, Bounded
<1>6. ASSUME NEW i \in Ins
      PROVE  Tight(i)'
  <2> SUFFICES ASSUME Rigid(i), following[i] # 0
               PROVE  off'[following[i]] <= off'[i] + size[i]
    BY <1>2 DEF Tight, Chained, Rigid
  <2>1. off[i] \in Nat /\ size[i] \in Int /\ following[i] \in Nodes
        /\ off[following[i]] \in Nat /\ i \in Nodes
    BY <1>1, FieldType
  <2>2. off[following[i]] <= off[i] + size[i]
    BY DEF GapInv, Tight, Chained
  <2>3. off'[i] >= off[i] /\ off'[i] \in Int
    BY <1>2, <1>3, <1>4, <2>1
  <2>4. CASE i # pc
    <3>1. following[i] # f
      BY <1>1, <2>4 DEF ChainInv, LinksApart, f
    <3>2. off'[following[i]] = off[following[i]]
      BY <1>2, <1>4, <2>1, <3>1
    <3> QED BY <2>1, <2>2, <2>3, <3>2
  <2>5. CASE i = pc
    <3>1. NewOffset(pc) = off[i] + size[i]
      BY <2>5 DEF NewOffset, Rigid
    <3>2. off'[following[i]] = off[following[i]] \/ off'[following[i]] = NewOffset(pc)
      BY <1>2, <1>4, <2>1, <2>5 DEF f
    <3> QED BY <2>1, <2>2, <2>3, <3>1, <3>2
  <2> QED BY <2>4, <2>5
<1> QED BY <1>2, <1>5, <1>6 DEF GapInv

LEMMA GapKept ==
  ASSUME TypeInv, ChainInv, GapInv, [Next]_vars, ~Precompile, ~Compile, ~Update
  PROVE  GapInv'
<1>1. TypeOK /\ TypeOK'
  <2>1. TypeInv'
    BY ParseType, GroupType, EndPrecompileType, ControlType, TypeStutter DEF Next, Pass
  <2> QED BY <2>1 DEF TypeInv
<1>2. UNCHANGED <<prog, off, size>> /\ Ins' = Ins /\ Nodes' = Nodes
  <2>1. UNCHANGED <<prog, off, size>>
    BY DEF Next, Pass, Parse, EndParse, Group, EndGroup, EndPrecompile,
           UpdateUnchained, Wrap, EndUpdate, EndCompile, Stop, Finished, vars
  <2> QED BY <2>1, SameIndices
<1>3. Unmoved'
  <2>1. \/ phase' \notin {"parse", "group", "precompile"}
        \/ phase \in {"parse", "group", "precompile"} /\ compiled' = compiled
    BY DEF Next, Pass, Parse, EndParse, Group, EndGroup, EndPrecompile,
           UpdateUnchained, Wrap, EndUpdate, EndCompile, Stop, Finished, vars, At
  <2> QED BY <1>2, <2>1 DEF GapInv, Unmoved
<1>4. Bounded'
  BY <1>2 DEF GapInv, Bounded, Rigid, Cap
<1>5. ASSUME NEW i \in Ins
      PROVE  Tight(i)'
  <2>1. CASE EndPrecompile
    <3> SUFFICES ASSUME Rigid(i), following'[i] # 0
                 PROVE  off[following'[i]] <= off[i] + size[i]
      BY <1>2 DEF Tight, Chained, Rigid
    <3>1. following'[i] \in Nodes /\ i \in Nodes /\ size[i] \in Int
      BY <1>1, <1>2, FieldType DEF TypeOK
    <3>2. off[following'[i]] = 0 /\ off[i] = 0 /\ 0 <= size[i]
      BY <2>1, <3>1 DEF GapInv, Unmoved, Bounded, EndPrecompile
    <3> QED BY <3>1, <3>2
  <2>2. CASE ~EndPrecompile
    <3>1. following' = following
      BY <2>2 DEF Next, Pass, Parse, EndParse, Group, EndGroup, UpdateUnchained, Wrap,
                  EndUpdate, EndCompile, Stop, Finished, vars, chainVars
    <3> QED BY <1>2, <3>1 DEF GapInv, Tight, Rigid, Chained
  <2> QED BY <2>1, <2>2
<1> QED BY <1>2, <1>3, <1>4, <1>5 DEF GapInv

LEMMA GapStep == TypeInv /\ ChainInv /\ GapInv /\ [Next]_vars => GapInv'
BY GapSized, GapUpdate, GapKept

LEMMA GapCloses == TypeInv /\ RoomInv /\ GapInv => NoGap
<1> SUFFICES ASSUME TypeInv, RoomInv, GapInv, phase = "done",
                    NEW i \in Ins, Chained(i), Rigid(i)
             PROVE  off[following[i]] = off[i] + size[i]
  BY DEF NoGap
<1>1. off[i] \in Nat /\ size[i] \in Int /\ off[following[i]] \in Nat
  BY FieldType DEF TypeInv, Chained
<1>2. off[following[i]] >= off[i] + size[i]
  BY DEF RoomInv, HasRoom, Extent, Rigid
<1>3. off[following[i]] <= off[i] + size[i]
  BY DEF GapInv, Tight
<1> QED BY <1>1, <1>2, <1>3

(* When the passes end, what follows an instruction that cannot shrink     *)
(* starts where that instruction ends: raising offsets without ever        *)
(* lowering them leaves no hole (asm.c:843).                               *)
THEOREM NoGapForAll == Spec => []NoGap
BY GapCloses, GapInit, GapStep, ChainInit, ChainStep, RoomCorrect, TypeInvariant,
   PTL DEF Spec
-----------------------------------------------------------------------------
(***************************************************************************)
(* Labels.  update_code_offsets defines a label with the offset it has     *)
(* when the pass reaches it; only the instruction before it in its chain,  *)
(* which the pass has then left behind, can still move it.  A pass that    *)
(* has moved nothing leaves every label of the pass before exact as well.  *)
(***************************************************************************)
Place(j) == [val |-> off[j] + prog[j].arg.add, sec |-> sec[j]]

Exact(j) ==
  /\ IsPlace(j)  => sym[prog[j].name] = Place(j)
  /\ IsNumber(j) => sym[prog[j].name] = [val |-> prog[j].arg.add, sec |-> Scalar]

Given(j) == IsPlace(j) \/ IsNumber(j)

Quiet == phase = "update" /\ compiled /\ ~changed

Defined(j) ==
  \/ phase = "update" /\ j < pc
  \/ Quiet
  \/ phase \in {"compile", "done"}

PlaceInv == \A j \in Ins : Chained(j) /\ Given(j) /\ Defined(j) => Exact(j)

LEMMA OneDefinition ==
  ASSUME TypeOK, NEW i \in Ins, NEW j \in Ins, prog[i].op = "equ",
         prog[j].op = "equ", prog[i].name = prog[j].name
  PROVE  i = j
BY ConstantsAssumption DEF TypeOK, WellFormed, Ins

LEMMA PlaceValue ==
  ASSUME TypeOK, NEW j \in Ins, IsPlace(j)
  PROVE  /\ prog[j].op = "equ" /\ prog[j].name \in Names
         /\ Eval(prog[j].arg, off[j], sec[j], sym)
              = [val |-> off[j] + prog[j].arg.add, sec |-> sec[j]]
<1>1. prog[j].arg.add \in Int /\ off[j] \in Nat /\ prog[j].name \in Names
  BY ProgramType, FieldType DEF Exprs, IsPlace
<1>2. /\ AtomValue(prog[j].arg.pos, off[j], sec[j], sym) = [val |-> off[j], sec |-> sec[j]]
      /\ AtomValue(prog[j].arg.neg, off[j], sec[j], sym) = [val |-> 0, sec |-> Scalar]
  BY DEF IsPlace, AtomValue
<1>3. Eval(prog[j].arg, off[j], sec[j], sym)
        = [val |-> off[j] - 0 + prog[j].arg.add, sec |-> sec[j]]
  BY <1>2 DEF IsPlace, Eval
<1> QED BY <1>1, <1>3 DEF IsPlace

LEMMA NumberValue ==
  ASSUME TypeOK, NEW j \in Ins, IsNumber(j)
  PROVE  /\ prog[j].op = "equ" /\ prog[j].name \in Names
         /\ Eval(prog[j].arg, off[j], sec[j], sym)
              = [val |-> prog[j].arg.add, sec |-> Scalar]
<1>1. prog[j].arg.add \in Int /\ prog[j].name \in Names
  BY ProgramType DEF Exprs, IsNumber
<1>2. /\ AtomValue(prog[j].arg.pos, off[j], sec[j], sym) = [val |-> 0, sec |-> Scalar]
      /\ AtomValue(prog[j].arg.neg, off[j], sec[j], sym) = [val |-> 0, sec |-> Scalar]
  BY DEF IsNumber, IsConst, AtomValue
<1>3. Eval(prog[j].arg, off[j], sec[j], sym)
        = [val |-> 0 - 0 + prog[j].arg.add, sec |-> Scalar]
  BY <1>2 DEF IsNumber, IsConst, Eval
<1> QED BY <1>1, <1>3 DEF IsNumber

(* What an .equ that names no symbol gives its own, and no other .equ does. *)
LEMMA GivenValue ==
  ASSUME TypeOK, NEW j \in Ins, Given(j)
  PROVE  /\ prog[j].op = "equ" /\ prog[j].name \in Names
         /\ IsPlace(j)  => Eval(prog[j].arg, off[j], sec[j], sym) = Place(j)
         /\ IsNumber(j) => Eval(prog[j].arg, off[j], sec[j], sym)
                              = [val |-> prog[j].arg.add, sec |-> Scalar]
BY PlaceValue, NumberValue DEF Given, Place

LEMMA PlaceUpdate ==
  ASSUME TypeInv, ChainInv, PlaceInv, Update
  PROVE  PlaceInv'
<1>1. /\ TypeOK /\ pc \in Ins /\ phase = "update" /\ following[pc] # 0
      /\ pc \in Nat /\ off \in [Nodes -> Nat] /\ sym \in [Names -> Refs]
      /\ following[pc] \in Nodes
  <2>1. TypeOK /\ pc \in Ins /\ phase = "update" /\ following[pc] # 0
    BY AtType DEF Update, TypeInv
  <2> QED BY <2>1, FieldType DEF TypeOK
<1>2. /\ UNCHANGED <<prog, phase, following, sec, compiled>> /\ Ins' = Ins
      /\ pc' = pc + 1
      /\ \/ off' = off /\ changed' = changed
         \/ off' = [off EXCEPT ![following[pc]] = NewOffset(pc)] /\ changed'
      /\ prog[pc].op = "equ" =>
           sym' = [sym EXCEPT ![prog[pc].name] =
                     Eval(prog[pc].arg, off[pc], sec[pc], sym)]
      /\ prog[pc].op # "equ" => sym' = sym
  BY SameIndices DEF Update, chainVars, Redefines
<1>3. pc < following[pc]
  BY <1>1 DEF ChainInv, LinksForward
<1>4. ASSUME NEW j \in Ins, following[j] # 0, Given(j), Defined(j)'
      PROVE  Exact(j)'
  <2>1. j \in Nat /\ j \in Nodes
    BY <1>1, FieldType
  <2>2. j < pc \/ j = pc \/ Quiet
    BY <1>1, <1>2, <1>4, <2>1 DEF Defined, Quiet
  <2>3. off'[j] = off[j]
    <3>1. CASE off' = off
      BY <3>1
    <3>2. CASE off' = [off EXCEPT ![following[pc]] = NewOffset(pc)] /\ changed'
      <4>1. j <= pc
        BY <1>1, <1>2, <1>4, <2>1, <3>2 DEF Defined, Quiet
      <4>2. j # following[pc]
        BY <1>1, <1>3, <2>1, <4>1, IndexType
      <4> QED BY <1>1, <2>1, <3>2, <4>2
    <3> QED BY <1>2, <3>1, <3>2
  <2>4. /\ IsPlace(j)  => sym'[prog[j].name] = Place(j)
        /\ IsNumber(j) => sym'[prog[j].name] = [val |-> prog[j].arg.add, sec |-> Scalar]
    <3>1. CASE j = pc
      BY <1>1, <1>2, <1>4, <3>1, GivenValue
    <3>2. CASE j # pc
      <4>1. Exact(j)
        BY <1>1, <1>4, <2>2, <3>2 DEF PlaceInv, Chained, Defined
      <4>2. prog[pc].op = "equ" => prog[pc].name # prog[j].name
        BY <1>1, <1>4, <3>2, OneDefinition, GivenValue
      <4>3. sym'[prog[j].name] = sym[prog[j].name]
        BY <1>1, <1>2, <1>4, <4>2, GivenValue
      <4> QED BY <4>1, <4>3 DEF Exact
    <3> QED BY <3>1, <3>2
  <2> QED BY <1>2, <2>3, <2>4 DEF Exact, Place, IsPlace, IsNumber
<1> QED BY <1>2, <1>4 DEF PlaceInv, Chained, Given, IsPlace, IsNumber

LEMMA PlaceKept ==
  ASSUME TypeInv, GapInv, PlaceInv, [Next]_vars, ~Update
  PROVE  PlaceInv'
<1>1. TypeOK
  BY DEF TypeInv
<1>2. CASE phase' \notin {"update", "compile", "done"}
  BY <1>2 DEF PlaceInv, Defined, Quiet
<1>3. CASE EndPrecompile
  <2>1. phase' = "update" /\ pc' = 1 /\ ~compiled' /\ Ins' = Ins
    BY <1>3, SameIndices DEF EndPrecompile, GapInv, Unmoved
  <2>2. \A j \in Ins : ~(j < 1)
    BY <1>1, FieldType
  <2> QED BY <2>1, <2>2 DEF PlaceInv, Defined, Quiet
<1>4. CASE phase' \in {"update", "compile", "done"} /\ ~EndPrecompile
  <2>1. UNCHANGED <<prog, following, sec, off, sym>> /\ Ins' = Ins
    <3>1. UNCHANGED <<prog, following, sec, off, sym>>
      BY <1>4 DEF Next, Pass, Parse, EndParse, Group, EndGroup, Precompile,
         UpdateUnchained, Wrap, EndUpdate, Compile, EndCompile, Stop, Finished, vars,
         chainVars, At
    <3> QED BY <3>1, SameIndices
  <2>2. ASSUME NEW j \in Ins, following[j] # 0, Defined(j)'
        PROVE  Defined(j)
    <3>1. CASE UpdateUnchained
      <4>1. pc \in Ins /\ phase = "update" /\ following[pc] = 0 /\ pc' = pc + 1
        BY <1>1, <3>1, AtType DEF UpdateUnchained
      <4>2. UNCHANGED <<phase, changed, compiled>>
        BY <3>1 DEF UpdateUnchained
      <4>3. j < pc + 1 => j < pc
        BY <1>1, <2>2, <4>1, FieldType
      <4> QED BY <2>2, <4>1, <4>2, <4>3 DEF Defined, Quiet
    <3>2. CASE EndUpdate
      <4>1. phase = "update" /\ pc = Len(prog) + 1
        BY <3>2 DEF EndUpdate
      <4>2. j < pc
        BY <1>1, <4>1, IndexType
      <4> QED BY <4>1, <4>2 DEF Defined
    <3>3. CASE Compile \/ EndCompile
      BY <3>3 DEF Compile, EndCompile, Defined, At
    <3>4. CASE UNCHANGED vars
      BY <2>2, <3>4 DEF vars, Defined, Quiet
    <3> QED BY <1>4, <3>1, <3>2, <3>3, <3>4
        DEF Next, Pass, Parse, EndParse, Group, EndGroup, Precompile, Wrap, Stop,
            Finished, At
  <2> QED BY <2>1, <2>2 DEF PlaceInv, Chained, Given, Place, IsPlace, IsNumber, Exact
<1> QED BY <1>2, <1>3, <1>4

LEMMA PlaceStep ==
  TypeInv /\ ChainInv /\ GapInv /\ PlaceInv /\ [Next]_vars => PlaceInv'
BY PlaceUpdate, PlaceKept

LEMMA PlaceInit == Init => PlaceInv
BY DEF Init, PlaceInv, Chained

(* When the passes end, a label has the offset and the section of the      *)
(* place it labels (parser.y:327, asm.c:823).                              *)
THEOREM LabelsForAll == Spec => []LabelsExact
<1>1. PlaceInv => LabelsExact
  BY DEF PlaceInv, Defined, Exact, Given, Place, LabelsExact
<1> QED BY <1>1, PlaceInit, PlaceStep, GapInit, GapStep, ChainInit, ChainStep,
           TypeInvariant, PTL DEF Spec
-----------------------------------------------------------------------------
(***************************************************************************)
(* Forms.  A compile pass measures an instruction against the symbols the  *)
(* pass before left behind.  If the next update moves nothing, it also     *)
(* gives every label the value it had, so the form still fits; and a form  *)
(* once chosen for such values is chosen again.                            *)
(***************************************************************************)
Sized(i) ==
  \/ phase = "compile" /\ i < pc
  \/ Quiet
  \/ phase = "done"

FormInv ==
  \A i \in Ins :
    prog[i].op = "insn" /\ Chained(i) /\ Direct(prog[i].arg) /\ Sized(i)
      => TargetLength(i, FALSE, sec[i]) = size[i]

(* An operand without $ and $$ has one value in every section.             *)
LEMMA DirectEval ==
  ASSUME NEW e, Direct(e), NEW here, NEW c, NEW d, NEW s
  PROVE  e.align = 0 => Eval(e, here, c, s) = Eval(e, here, d, s)
BY DEF Direct, Eval, AtomValue

(* update_code_offsets leaves a direct operand its value when it moves     *)
(* nothing.                                                                *)
LEMMA DirectKept ==
  ASSUME TypeInv, PlaceInv, Update, Quiet, NEW e \in Exprs, Direct(e), NEW here, NEW c
  PROVE  Eval(e, here, c, sym') = Eval(e, here, c, sym)
<1>1. TypeOK /\ pc \in Ins /\ following[pc] # 0
  BY AtType DEF Update, TypeInv
<1>2. ASSUME NEW a \in {e.pos, e.neg}
      PROVE  AtomValue(a, here, c, sym') = AtomValue(a, here, c, sym)
  <2>1. CASE a = "none"
    BY <2>1 DEF AtomValue
  <2>2. CASE a # "none"
    <3>1. a \in Names /\ a \notin {"none", "$", "$$"}
      BY <1>2, <2>2 DEF Direct, Exprs, Atoms
    <3>2. CASE prog[pc].op = "equ" /\ prog[pc].name = a
      <4>1. Given(pc)
        BY <1>1, <1>2, <3>1, <3>2 DEF Direct, Given
      <4>2. Exact(pc)
        BY <1>1, <3>2, <4>1 DEF PlaceInv, Chained, Defined
      <4>3. sym' = [sym EXCEPT ![a] = Eval(prog[pc].arg, off[pc], sec[pc], sym)]
        BY <3>2 DEF Update, Redefines
      <4>4. sym \in [Names -> Refs]
        BY <1>1 DEF TypeOK
      <4>5. sym'[a] = sym[a]
        BY <1>1, <3>1, <3>2, <4>1, <4>2, <4>3, <4>4, GivenValue DEF Exact, Given
      <4> QED BY <3>1, <4>5 DEF AtomValue
    <3>3. CASE ~(prog[pc].op = "equ" /\ prog[pc].name = a)
      <4>1. sym \in [Names -> Refs]
        BY <1>1 DEF TypeOK
      <4>2. \/ sym' = sym
            \/ /\ prog[pc].name # a
               /\ sym' = [sym EXCEPT ![prog[pc].name] =
                            Eval(prog[pc].arg, off[pc], sec[pc], sym)]
        BY <3>3 DEF Update, Redefines
      <4>3. sym'[a] = sym[a]
        BY <3>1, <4>1, <4>2
      <4> QED BY <3>1, <4>3 DEF AtomValue
    <3> QED BY <3>2, <3>3
  <2> QED BY <2>1, <2>2
<1> QED BY <1>2 DEF Eval

LEMMA FormUpdate ==
  ASSUME TypeInv, PlaceInv, FormInv, Update
  PROVE  FormInv'
<1>1. TypeOK /\ phase = "update" /\ phase' = "update" /\ compiled' = compiled
  BY AtType DEF Update, TypeInv
<1>2. UNCHANGED <<prog, following, sec, size>> /\ Ins' = Ins
  BY SameIndices DEF Update, chainVars
<1>3. ASSUME NEW i \in Ins, prog[i].op = "insn", following[i] # 0,
             Direct(prog[i].arg), Sized(i)'
      PROVE  TargetLength(i, FALSE, sec[i])' = size[i]
  <2>1. Quiet /\ off' = off
    BY <1>1, <1>3 DEF Sized, Quiet, Update
  <2>2. TargetLength(i, FALSE, sec[i]) = size[i]
    BY <1>3, <2>1 DEF FormInv, Sized, Chained
  <2>3. prog[i].arg \in Exprs
    BY <1>1, ProgramType
  <2>4. Eval(prog[i].arg, off[i], sec[i], sym') = Eval(prog[i].arg, off[i], sec[i], sym)
    BY <1>3, <2>1, <2>3, DirectKept
  <2>5. Fits(i, sec[i])' <=> Fits(i, sec[i])
    BY <1>2, <2>1, <2>4 DEF Fits
  <2> QED BY <1>2, <2>2, <2>5 DEF TargetLength
<1>4. \A e : Direct(e)' => Direct(e)
  BY <1>2 DEF Direct, Chained, IsPlace, IsNumber
<1>5. SUFFICES ASSUME NEW i \in Ins, prog[i].op = "insn", following[i] # 0,
                      Direct(prog[i].arg)', Sized(i)'
               PROVE  TargetLength(i, FALSE, sec[i])' = size[i]
  BY <1>2 DEF FormInv, Chained, TargetLength
<1> QED BY <1>2, <1>3, <1>4, <1>5

LEMMA FormCompile ==
  ASSUME TypeInv, FormInv, Compile
  PROVE  FormInv'
<1>1. TypeOK /\ pc \in Ins /\ phase = "compile" /\ pc \in Nat
  <2>1. TypeOK /\ pc \in Ins /\ phase = "compile"
    BY AtType DEF Compile, TypeInv
  <2> QED BY <2>1, FieldType
<1>2. /\ UNCHANGED <<prog, phase, sym, following, sec, off>> /\ Ins' = Ins
      /\ pc' = pc + 1
  BY SameIndices DEF Compile, chainVars
<1>3. size \in [Ins -> Int]
  BY <1>1 DEF TypeOK
<1>4. SUFFICES ASSUME NEW i \in Ins, prog[i].op = "insn", following[i] # 0,
                      Direct(prog[i].arg), i < pc + 1
               PROVE  TargetLength(i, FALSE, sec[i])' = size'[i]
  <2>1. \A e : Direct(e)' <=> Direct(e)
    BY <1>2 DEF Direct, Chained, IsPlace, IsNumber
  <2> QED BY <1>1, <1>2, <2>1 DEF FormInv, Chained, TargetLength, Sized, Quiet
<1>5. \A c : Fits(i, c)' <=> Fits(i, c)
  BY <1>2 DEF Fits
<1>6. CASE i = pc
  <2>1. size'[i] = TargetLength(i, FALSE, cur)
    BY <1>3, <1>4, <1>6 DEF Compile, GetLength
  <2>2. Fits(i, cur) <=> Fits(i, sec[i])
    <3>1. Eval(prog[i].arg, off[i], cur, sym) = Eval(prog[i].arg, off[i], sec[i], sym)
      <4>1. CASE prog[i].arg.align = 0
        BY <1>4, <4>1, DirectEval
      <4>2. CASE prog[i].arg.align # 0
        <5>1. prog[i].arg.align > 0
          BY <1>1, <4>2, ProgramType DEF Exprs
        <5> QED BY <5>1 DEF Eval
      <4> QED BY <4>1, <4>2
    <3> QED BY <3>1 DEF Fits
  <2>3. prog[i].short \in Nat /\ prog[i].long \in Nat /\ prog[i].short <= prog[i].long
    BY <1>1, ConstantsAssumption, ProgramType DEF Instructions, TypeOK, WellFormed, Ins
  <2>4. size[i] \in Int
    BY <1>3
  <2>5. TargetLength(i, FALSE, sec[i])' =
          IF (Target = "x86" => size'[i] <= prog[i].short) /\ Fits(i, sec[i])
          THEN prog[i].short ELSE prog[i].long
    BY <1>2, <1>5 DEF TargetLength
  <2>6. \/ /\ size'[i] = prog[i].short /\ Fits(i, sec[i])
        \/ /\ size'[i] = prog[i].long
           /\ Fits(i, sec[i]) => Target = "x86"
    BY <2>1, <2>2 DEF TargetLength
  <2>7. CASE size'[i] = prog[i].short /\ Fits(i, sec[i])
    <3>1. size'[i] <= prog[i].short
      BY <2>3, <2>7
    <3> QED BY <2>5, <2>7, <3>1
  <2>8. CASE size'[i] = prog[i].long /\ ~Fits(i, sec[i])
    BY <2>5, <2>8
  <2>9. CASE size'[i] = prog[i].long /\ Target = "x86"
    <3>1. size'[i] <= prog[i].short => prog[i].short = prog[i].long
      BY <2>3, <2>9
    <3> QED BY <2>5, <2>9, <3>1
  <2> QED BY <2>6, <2>7, <2>8, <2>9
<1>7. CASE i # pc
  <2>1. size'[i] = size[i]
    BY <1>3, <1>7 DEF Compile
  <2>2. i < pc
    BY <1>1, <1>4, <1>7, FieldType
  <2>3. TargetLength(i, FALSE, sec[i]) = size[i]
    BY <1>1, <1>4, <2>2 DEF FormInv, Sized, Chained
  <2> QED BY <1>2, <1>5, <2>1, <2>3 DEF TargetLength
<1> QED BY <1>6, <1>7

LEMMA FormKept ==
  ASSUME TypeInv, GapInv, FormInv, [Next]_vars, ~Update, ~Compile
  PROVE  FormInv'
<1>1. TypeOK
  BY DEF TypeInv
<1>2. CASE \A i \in Ins' : ~Sized(i)'
  BY <1>2 DEF FormInv
<1>3. CASE EndPrecompile \/ phase' \notin {"update", "compile", "done"}
  BY <1>3 DEF FormInv, Sized, Quiet, EndPrecompile, GapInv, Unmoved
<1>4. CASE UpdateUnchained \/ EndUpdate \/ EndCompile \/ UNCHANGED vars
  <2>1. UNCHANGED <<prog, following, sec, off, size, sym>> /\ Ins' = Ins
    <3>1. UNCHANGED <<prog, following, sec, off, size, sym>>
      BY <1>4 DEF UpdateUnchained, EndUpdate, EndCompile, vars, chainVars
    <3> QED BY <3>1, SameIndices
  <2>2. ASSUME NEW i \in Ins, Sized(i)'
        PROVE  Sized(i)
    <3>1. CASE UpdateUnchained
      BY <2>2, <3>1 DEF UpdateUnchained, At, Sized, Quiet
    <3>2. CASE EndUpdate
      <4>1. ~(i < 1)
        BY <1>1, FieldType
      <4> QED BY <2>2, <3>2, <4>1 DEF EndUpdate, Settled, Sized, Quiet
    <3>3. CASE EndCompile
      <4>1. phase = "compile" /\ i < pc
        BY <1>1, <3>3, IndexType DEF EndCompile
      <4> QED BY <4>1 DEF Sized
    <3>4. CASE UNCHANGED vars
      BY <2>2, <3>4 DEF vars, Sized, Quiet
    <3> QED BY <1>4, <3>1, <3>2, <3>3, <3>4
  <2> QED BY <2>1, <2>2 DEF FormInv, Chained, Direct, IsPlace, IsNumber, TargetLength, Fits
<1> QED BY <1>3, <1>4
    DEF Next, Pass, Parse, EndParse, Group, EndGroup, Precompile, Wrap, Stop,
        Finished, At

LEMMA FormInit == Init => FormInv
BY DEF Init, FormInv, Chained

LEMMA FormStep ==
  TypeInv /\ ChainInv /\ GapInv /\ PlaceInv /\ FormInv /\ [Next]_vars => FormInv'
BY FormUpdate, FormCompile, FormKept

LEMMA FormSettles == FormInv => FormsSettled
BY DEF FormInv, Sized, FormsSettled

(* When the passes end, matching an instruction once more chooses the form *)
(* the layout made room for, if its operand names only numbers, labels and *)
(* undefined symbols (x86/gen.c:2392, asm.c:1240).                         *)
THEOREM FormsForAll == Spec => []FormsSettled
BY FormSettles, FormStep, FormInit, PlaceInit, PlaceStep, GapInit, GapStep, ChainInit,
   ChainStep, TypeInvariant, PTL DEF Spec
-----------------------------------------------------------------------------
(***************************************************************************)
(* Blocks nest.  make_instruction_groups is at pc; what it has paired lies *)
(* before pc, and no block still open lies within a pair, so the one that  *)
(* ends at pc contains every pair it meets.                                *)
(***************************************************************************)
Paired ==
  \A i \in Ins : term[i] # 0 =>
    /\ term[i] \in Ins /\ term[term[i]] = i
    /\ \/ i < term[i] /\ Closes(i, term[i])
       \/ term[i] < i /\ Closes(term[i], i)

Nested == \A i, j \in Ins : i < j /\ term[i] > j => term[j] < term[i]

OpenBefore ==
  /\ \A k \in 1 .. Len(open) : open[k] < pc /\ term[open[k]] = 0
  /\ \A k, m \in 1 .. Len(open) : k < m => open[k] < open[m]

OpenOutside ==
  \A i \in Ins, k \in 1 .. Len(open) : ~(i < open[k] /\ open[k] < term[i])

GroupBuilt ==
  /\ phase = "parse" => open = <<>> /\ \A i \in Ins : term[i] = 0
  /\ phase = "group" =>
       /\ \A i \in Ins : term[i] # 0 => i < pc /\ term[i] < pc
       /\ OpenBefore /\ OpenOutside

GroupInv == Paired /\ Nested /\ GroupBuilt

LEMMA FrontType ==
  ASSUME NEW S, NEW s \in Seq(S), Len(s) \in Nat \ {0}
  PROVE  LET t == SubSeq(s, 1, Len(s) - 1)
         IN  /\ Len(t) = Len(s) - 1
             /\ \A k \in 1 .. Len(t) :
                  k \in 1 .. Len(s) /\ k < Len(s) /\ t[k] = s[k]
<1> DEFINE n == Len(s) - 1
<1>1. n \in Nat /\ n <= Len(s) /\ n = Len(s) - 1
  OBVIOUS
<1> HIDE DEF n
<1>2. Len(SubSeq(s, 1, n)) = n /\ \A k \in 1 .. n : SubSeq(s, 1, n)[k] = s[k]
  BY <1>1
<1> QED BY <1>1, <1>2 DEF n

LEMMA GroupInit == Init => GroupInv
<1> SUFFICES ASSUME Init PROVE GroupInv
  OBVIOUS
<1>1. /\ \A i \in Ins : term[i] = 0 /\ i \in Nat
      /\ open = <<>> /\ phase = "parse"
  <2>1. TypeOK
    BY InitType DEF TypeInv
  <2> QED BY <2>1, FieldType DEF Init
<1> QED BY <1>1 DEF GroupInv, Paired, Nested, GroupBuilt

(* The directive that ends the innermost open block.                       *)
LEMMA GroupCloses ==
  ASSUME TypeInv, GroupInv, Group, open # <<>>, Closes(open[Len(open)], pc)
  PROVE  GroupInv'
<1> DEFINE o == open[Len(open)]
<1>1. TypeOK /\ pc \in Ins /\ phase = "group"
  BY AtType DEF Group, TypeInv
<1>2. /\ Len(prog) \in Nat /\ Ins = 1 .. Len(prog) /\ open \in Seq(Ins)
      /\ term \in [Ins -> 0 .. Len(prog)]
  BY <1>1, IndexType DEF TypeOK
<1>3. Len(open) \in Nat \ {0} /\ o \in Ins
  <2>1. ASSUME NEW S, NEW s \in Seq(S), s # <<>>
        PROVE  Len(s) \in Nat \ {0} /\ s[Len(s)] \in S
    BY <2>1
  <2> QED BY <1>2, <2>1
<1>4. /\ OpenBefore /\ OpenOutside /\ Paired /\ Nested
      /\ \A i \in Ins : term[i] # 0 => i < pc /\ term[i] < pc
  BY <1>1 DEF GroupInv, GroupBuilt
<1>5. o < pc /\ term[o] = 0 /\ term[pc] = 0
  <2>1. o < pc /\ term[o] = 0
    BY <1>3, <1>4 DEF OpenBefore
  <2>2. ~(pc < pc)
    BY <1>1, <1>2
  <2> QED BY <1>1, <1>4, <2>1, <2>2
<1>6. /\ term' = [term EXCEPT ![pc] = o, ![o] = pc]
      /\ open' = SubSeq(open, 1, Len(open) - 1)
  <2>1. ~Opens(pc)
    BY DEF Opens, Closes
  <2> QED BY <2>1 DEF Group
<1>7. /\ UNCHANGED <<prog, phase>> /\ Ins' = Ins /\ pc' = pc + 1
  BY SameIndices DEF Group
<1>8. /\ Len(open') = Len(open) - 1
      /\ \A k \in 1 .. Len(open') : k \in 1 .. Len(open) /\ k < Len(open) /\ open'[k] = open[k]
  <2> HIDE DEF o
  <2> QED BY <1>2, <1>3, <1>6, FrontType
<1> HIDE DEF o
<1>9. /\ term'[o] = pc /\ term'[pc] = o
      /\ \A i \in Ins : i # o /\ i # pc => term'[i] = term[i]
  BY <1>1, <1>2, <1>3, <1>5, <1>6
<1>10. \A i \in Ins : /\ i \in Nat /\ term[i] \in Nat
                      /\ term[i] # 0 => term[i] \in Ins /\ term[i] # o /\ term[i] # pc
  <2> SUFFICES ASSUME NEW i \in Ins
               PROVE  /\ i \in Nat /\ term[i] \in Nat
                      /\ term[i] # 0 => term[i] \in Ins /\ term[i] # o /\ term[i] # pc
    OBVIOUS
  <2>1. i \in Nat /\ term[i] \in Nat /\ (term[i] # 0 => term[i] \in Ins)
    BY <1>2
  <2>2. term[i] # 0 => term[term[i]] = i /\ term[i] < pc /\ i # 0
    BY <1>2, <1>4 DEF Paired
  <2> QED BY <1>1, <1>2, <1>5, <2>1, <2>2
<1> pc \in Nat /\ o \in Nat
  BY <1>1, <1>3, <1>10
<1>11. Paired'
  <2> SUFFICES ASSUME NEW i \in Ins, term'[i] # 0
               PROVE  /\ term'[i] \in Ins /\ term'[term'[i]] = i
                      /\ \/ i < term'[i] /\ Closes(i, term'[i])
                         \/ term'[i] < i /\ Closes(term'[i], i)
    BY <1>7 DEF Paired, Closes
  <2>1. CASE i = o
    BY <1>1, <1>3, <1>5, <1>9, <2>1 DEF o
  <2>2. CASE i = pc
    BY <1>1, <1>3, <1>5, <1>9, <2>2 DEF o
  <2>3. CASE i # o /\ i # pc
    BY <1>4, <1>9, <1>10, <2>3 DEF Paired
  <2> QED BY <2>1, <2>2, <2>3
<1>12. Nested'
  <2> SUFFICES ASSUME NEW i \in Ins, NEW j \in Ins, i < j, term'[i] > j
               PROVE  term'[j] < term'[i]
    BY <1>7 DEF Nested
  <2>1. CASE i = pc
    BY <1>1, <1>3, <1>5, <1>9, <1>10, <2>1
  <2>2. CASE i = o
    <3>1. term'[j] = term[j]
      BY <1>1, <1>9, <1>10, <2>2
    <3> QED BY <1>1, <1>2, <1>4, <1>9, <1>10, <2>2, <3>1
  <2>3. CASE i # o /\ i # pc
    <3>1. term'[i] = term[i] /\ term[i] < pc
      BY <1>1, <1>4, <1>9, <1>10, <2>3
    <3>2. j # pc
      BY <1>10, <3>1
    <3>3. j # o
      <4>1. ~(i < o /\ o < term[i])
        BY <1>3, <1>4 DEF OpenOutside, o
      <4> QED BY <3>1, <4>1
    <3> QED BY <1>4, <1>9, <3>1, <3>2, <3>3 DEF Nested
  <2> QED BY <2>1, <2>2, <2>3
<1>13. \A i \in Ins : term'[i] # 0 => i < pc + 1 /\ term'[i] < pc + 1
  <2> SUFFICES ASSUME NEW i \in Ins, term'[i] # 0
               PROVE  i < pc + 1 /\ term'[i] < pc + 1
    OBVIOUS
  <2>1. CASE i # o /\ i # pc
    BY <1>4, <1>9, <1>10, <2>1
  <2>2. CASE i = o \/ i = pc
    BY <1>5, <1>9, <2>2
  <2> QED BY <2>1, <2>2
<1>14. \A k \in 1 .. Len(open') : /\ open'[k] \in Ins /\ open'[k] < o
                                  /\ open'[k] < pc /\ term[open'[k]] = 0
  <2> SUFFICES ASSUME NEW k \in 1 .. Len(open')
               PROVE  /\ open'[k] \in Ins /\ open'[k] < o
                      /\ open'[k] < pc /\ term[open'[k]] = 0
    OBVIOUS
  <2>1. k \in 1 .. Len(open) /\ k < Len(open) /\ open'[k] = open[k]
    BY <1>8
  <2>2. open[k] \in Ins /\ Len(open) \in 1 .. Len(open)
    BY <1>2, <1>3, <2>1
  <2>3. open[k] < open[Len(open)] /\ open[k] < pc /\ term[open[k]] = 0
    BY <1>4, <2>1, <2>2 DEF OpenBefore
  <2> QED BY <2>1, <2>2, <2>3 DEF o
<1>15. OpenBefore'
  <2>1. \A k \in 1 .. Len(open') : open'[k] < pc + 1 /\ term'[open'[k]] = 0
    <3> SUFFICES ASSUME NEW k \in 1 .. Len(open')
                 PROVE  open'[k] < pc + 1 /\ term'[open'[k]] = 0
      OBVIOUS
    <3>1. /\ open'[k] \in Ins /\ open'[k] < o /\ open'[k] < pc
          /\ term[open'[k]] = 0
      BY <1>14
    <3>2. open'[k] \in Nat
      BY <1>10, <3>1
    <3>3. term'[open'[k]] = term[open'[k]]
      BY <1>9, <3>1, <3>2
    <3> QED BY <3>1, <3>2, <3>3
  <2>2. \A k, m \in 1 .. Len(open') : k < m => open'[k] < open'[m]
    BY <1>4, <1>8 DEF OpenBefore
  <2> QED BY <1>7, <2>1, <2>2 DEF OpenBefore
<1>16. OpenOutside'
  <2> SUFFICES ASSUME NEW i \in Ins, NEW k \in 1 .. Len(open'),
                      i < open'[k], open'[k] < term'[i]
               PROVE  FALSE
    BY <1>7 DEF OpenOutside
  <2>1. open'[k] \in Ins /\ open'[k] < o /\ open'[k] < pc
    BY <1>14
  <2>2. i # o /\ i # pc
    <3>1. open'[k] \in Nat
      BY <1>10, <2>1
    <3> QED BY <2>1, <3>1
  <2> QED BY <1>4, <1>8, <1>9, <2>2 DEF OpenOutside
<1>17. GroupBuilt'
  BY <1>1, <1>7, <1>13, <1>15, <1>16 DEF GroupBuilt
<1> QED BY <1>11, <1>12, <1>17 DEF GroupInv

(* A directive that opens a block, and one that touches no block.          *)
LEMMA GroupOpens ==
  ASSUME TypeInv, GroupInv, Group, ~(open # <<>> /\ Closes(open[Len(open)], pc))
  PROVE  GroupInv'
<1>1. TypeOK /\ pc \in Ins /\ phase = "group"
  BY AtType DEF Group, TypeInv
<1>2. open \in Seq(Ins) /\ \A i \in Ins : i \in Nat /\ term[i] \in Int
  <2>1. \A i \in Ins : i \in Nat /\ (term[i] = 0 \/ term[i] \in Ins)
    BY <1>1, FieldType
  <2> QED BY <1>1, <2>1 DEF TypeOK
<1>3. /\ OpenBefore /\ OpenOutside /\ Paired /\ Nested
      /\ \A i \in Ins : term[i] # 0 => i < pc /\ term[i] < pc
  BY <1>1 DEF GroupInv, GroupBuilt
<1>4. /\ UNCHANGED <<prog, phase, term>> /\ Ins' = Ins /\ pc' = pc + 1
      /\ open' = open \/ open' = Append(open, pc)
  BY SameIndices DEF Group
<1>5. Paired' /\ Nested'
  BY <1>3, <1>4 DEF Paired, Nested, Closes
<1>6. \A i \in Ins : term[i] # 0 => i < pc + 1 /\ term[i] < pc + 1
  BY <1>1, <1>2, <1>3
<1>7. term[pc] = 0
  BY <1>1, <1>2, <1>3
<1>8. \A k \in 1 .. Len(open') :
        \/ k \in 1 .. Len(open) /\ open'[k] = open[k]
        \/ k = Len(open) + 1 /\ open'[k] = pc
  <2>1. ASSUME NEW S, NEW s \in Seq(S), NEW x \in S
        PROVE  /\ Len(Append(s, x)) = Len(s) + 1 /\ Len(s) \in Nat
               /\ \A k \in 1 .. Len(s) : Append(s, x)[k] = s[k]
               /\ Append(s, x)[Len(s) + 1] = x
    OBVIOUS
  <2>2. CASE open' = open
    BY <2>2
  <2>3. CASE open' = Append(open, pc)
    <3>1. /\ Len(open') = Len(open) + 1 /\ Len(open) \in Nat
          /\ \A k \in 1 .. Len(open) : open'[k] = open[k]
          /\ open'[Len(open) + 1] = pc
      BY <1>1, <1>2, <2>1, <2>3
    <3> QED BY <3>1
  <2> QED BY <1>4, <2>2, <2>3
<1>9. \A k \in 1 .. Len(open) : open[k] \in Ins /\ open[k] < pc /\ term[open[k]] = 0
  BY <1>2, <1>3 DEF OpenBefore
<1>10. OpenBefore'
  <2>1. ASSUME NEW k \in 1 .. Len(open')
        PROVE  open'[k] < pc + 1 /\ term[open'[k]] = 0
    <3>1. CASE open'[k] = pc
      BY <1>1, <1>2, <1>7, <3>1
    <3>2. CASE k \in 1 .. Len(open) /\ open'[k] = open[k]
      <4>1. open[k] \in Nat /\ pc \in Nat /\ open[k] < pc /\ term[open[k]] = 0
        BY <1>1, <1>2, <1>9, <3>2
      <4> QED BY <3>2, <4>1
    <3> QED BY <1>8, <3>1, <3>2
  <2>2. ASSUME NEW k \in 1 .. Len(open'), NEW m \in 1 .. Len(open'), k < m
        PROVE  open'[k] < open'[m]
    <3>1. k \in 1 .. Len(open) /\ open'[k] = open[k]
      BY <1>2, <1>8, <2>2
    <3> QED BY <1>3, <1>8, <1>9, <2>2, <3>1 DEF OpenBefore
  <2> QED BY <1>4, <2>1, <2>2 DEF OpenBefore
<1>11. OpenOutside'
  <2> SUFFICES ASSUME NEW i \in Ins, NEW k \in 1 .. Len(open'),
                      i < open'[k], open'[k] < term[i]
               PROVE  FALSE
    BY <1>4 DEF OpenOutside
  <2>1. CASE k \in 1 .. Len(open) /\ open'[k] = open[k]
    BY <1>3, <2>1 DEF OpenOutside
  <2>2. CASE open'[k] = pc
    BY <1>1, <1>2, <1>3, <2>2
  <2> QED BY <1>8, <2>1, <2>2
<1>12. GroupBuilt'
  BY <1>1, <1>4, <1>6, <1>10, <1>11 DEF GroupBuilt
<1> QED BY <1>5, <1>12 DEF GroupInv

LEMMA GroupKept ==
  ASSUME TypeInv, GroupInv, [Next]_vars, ~Group
  PROVE  GroupInv'
<1>1. TypeOK
  BY DEF TypeInv
<1>2. /\ UNCHANGED <<prog, term, open>> /\ Ins' = Ins
      /\ \/ phase' = "group" /\ phase = "parse"
         \/ phase' = phase /\ (phase = "group" => UNCHANGED pc)
         \/ phase' \notin {"parse", "group"}
  <2>1. UNCHANGED <<prog, term, open>>
    BY DEF Next, Pass, Parse, EndParse, EndGroup, Precompile, EndPrecompile,
           UpdateUnchained, Update, Wrap, EndUpdate, Compile, EndCompile, Stop,
           Finished, vars
  <2>2. \/ phase' = "group" /\ phase = "parse"
        \/ phase' = phase /\ (phase = "group" => UNCHANGED pc)
        \/ phase' \notin {"parse", "group"}
    BY DEF Next, Pass, Parse, EndParse, EndGroup, Precompile, EndPrecompile,
           UpdateUnchained, Update, Wrap, EndUpdate, Compile, EndCompile, Stop,
           Finished, vars, At
  <2> QED BY <2>1, <2>2, SameIndices
<1>3. Paired' /\ Nested'
  BY <1>2 DEF GroupInv, Paired, Nested, Closes
<1>4. phase = "parse" => OpenBefore /\ OpenOutside /\ \A i \in Ins : term[i] = 0
  BY DEF GroupInv, GroupBuilt, OpenBefore, OpenOutside
<1>5. GroupBuilt'
  <2>1. CASE phase' = "group" /\ phase = "parse"
    <3>1. open' = <<>> /\ \A i \in Ins' : term'[i] = 0
      BY <1>2, <2>1 DEF GroupInv, GroupBuilt
    <3> QED BY <2>1, <3>1 DEF GroupBuilt, OpenBefore, OpenOutside
  <2>2. CASE phase' = phase /\ (phase = "group" => UNCHANGED pc)
    BY <1>2, <2>2 DEF GroupInv, GroupBuilt, OpenBefore, OpenOutside
  <2>3. CASE phase' \notin {"parse", "group"}
    BY <2>3 DEF GroupBuilt
  <2> QED BY <1>2, <2>1, <2>2, <2>3
<1> QED BY <1>3, <1>5 DEF GroupInv

LEMMA GroupStep == TypeInv /\ GroupInv /\ [Next]_vars => GroupInv'
BY GroupCloses, GroupOpens, GroupKept

LEMMA GroupCorrect == Spec => []GroupInv
BY GroupInit, GroupStep, TypeInvariant, PTL DEF Spec

(* In every program each directive that ends a block is paired with one    *)
(* that begins a block of its kind, and no two blocks overlap unless one   *)
(* lies within the other (make_instruction_groups, asm.c:1251).            *)
THEOREM NestForAll == Spec => []BlocksNest
<1>1. TypeInv /\ GroupInv => BlocksNest
  <2> SUFFICES ASSUME TypeInv, GroupInv, NEW i \in Ins, NEW j \in Ins
               PROVE  /\ term[i] = j =>
                           /\ term[j] = i
                           /\ prog[i].op \in {"times", "endtimes"} <=>
                                prog[j].op \in {"times", "endtimes"}
                      /\ i < j /\ term[i] > j => term[j] < term[i]
    BY DEF BlocksNest
  <2>1. j # 0
    BY FieldType DEF TypeInv
  <2>2. term[i] = j => term[j] = i /\ (Closes(i, j) \/ Closes(j, i))
    BY <2>1 DEF GroupInv, Paired
  <2>3. i < j /\ term[i] > j => term[j] < term[i]
    BY DEF GroupInv, Nested
  <2> QED BY <2>2, <2>3 DEF Closes
<1> QED BY <1>1, GroupCorrect, TypeInvariant, PTL
-----------------------------------------------------------------------------
(***************************************************************************)
(* The chains.  precompile is at pc: every instruction it has put into a   *)
(* section leads to the next one of that section, but the last, which the  *)
(* section remembers; the first is remembered too.                         *)
(***************************************************************************)
NextIn(i, s) ==
  /\ following[i] \in Ins /\ InSection(following[i], s) /\ i < following[i]
  /\ \A j \in Ins : InSection(j, s) /\ i < j => following[i] <= j

LinksWithin ==
  \A i \in Ins : following[i] # 0 => sec[i] \in Sections /\ InSection(i, sec[i])

FirstKnown ==
  \A i \in Ins, s \in Sections :
    InSection(i, s) => first[s] # 0 /\ first[s] <= i

StreamBuilt ==
  /\ phase \in {"parse", "group"} =>
       /\ \A i \in Ins : sec[i] = NoSection
       /\ \A s \in Sections : first[s] = 0
  /\ phase = "precompile" =>
       /\ \A i \in Ins : pc <= i => sec[i] = NoSection
       /\ FirstKnown
       /\ \A s \in Sections : last[s] # 0 =>
            last[s] \in Ins /\ InSection(last[s], s) /\ first[s] # 0
       /\ \A i \in Ins, s \in Sections : InSection(i, s) =>
            last[s] # 0 /\ i <= last[s] /\ (i # last[s] => NextIn(i, s))

StreamLinked ==
  phase \in {"update", "compile", "done"} =>
    /\ FirstKnown
    /\ \A i \in Ins, s \in Sections : InSection(i, s) =>
         \/ NextIn(i, s)
         \/ following[i] = EndOf(s) /\ \A j \in Ins : InSection(j, s) => j <= i

StreamInv == LinksWithin /\ StreamBuilt /\ StreamLinked

LEMMA StreamInit == Init => StreamInv
BY DEF Init, StreamInv, LinksWithin, StreamBuilt, StreamLinked

LEMMA StreamType ==
  ASSUME TypeOK
  PROVE  /\ \A i \in Ins : i \in Nat /\ i # 0 /\ following[i] \in Nat
         /\ Sections \subseteq Nat \ {0} /\ NoSection \notin Sections
         /\ Ins = 1 .. Len(prog) /\ Len(prog) \in Nat
         /\ following \in [Ins -> Nodes \cup {0}]
         /\ sec \in [Ins -> Sections \cup {NoSection}]
         /\ last \in [Sections -> 0 .. Len(prog)]
         /\ first \in [Sections -> 0 .. Len(prog)]
<1>1. /\ Sections \subseteq Nat \ {0} /\ Ins = 1 .. Len(prog) /\ Len(prog) \in Nat
      /\ Nodes \subseteq Nat \ {0}
  BY IndexType
<1>2. NoSection \notin Sections
  BY <1>1 DEF NoSection
<1>3. /\ following \in [Ins -> Nodes \cup {0}]
      /\ sec \in [Ins -> Sections \cup {NoSection}]
      /\ last \in [Sections -> 0 .. Len(prog)]
      /\ first \in [Sections -> 0 .. Len(prog)]
  BY DEF TypeOK
<1>4. \A i \in Ins : i \in Nat /\ i # 0 /\ following[i] \in Nat
  <2> SUFFICES ASSUME NEW i \in Ins PROVE i \in Nat /\ i # 0 /\ following[i] \in Nat
    OBVIOUS
  <2>1. i \in Nat /\ i # 0
    BY <1>1
  <2>2. following[i] \in Nodes \cup {0}
    BY <1>3
  <2>3. Nodes \cup {0} \subseteq Nat
    BY <1>1
  <2> QED BY <2>1, <2>2, <2>3
<1> QED BY <1>1, <1>2, <1>3, <1>4

(* An instruction that stays out of every chain.                           *)
LEMMA StreamSkips ==
  ASSUME TypeInv, ChainInv, StreamInv, Precompile,
         UNCHANGED <<first, last, following>>,
         sec'[pc] = NoSection \/ prog[pc].op = "section"
  PROVE  StreamInv'
<1>1. TypeOK /\ pc \in Ins /\ phase = "precompile"
  BY AtType DEF Precompile, TypeInv
<1>2. /\ \A i \in Ins : i \in Nat /\ following[i] \in Nat
      /\ NoSection \notin Sections
  BY <1>1, StreamType
<1>3. /\ UNCHANGED <<prog, phase, first, last, following>> /\ pc' = pc + 1
      /\ Ins' = Ins /\ Sections' = Sections
      /\ \A i \in Ins : i # pc => sec'[i] = sec[i]
  BY <1>1, SameIndices DEF Precompile, Sections, TypeOK
<1>4. \A i \in Ins, s \in Sections : InSection(i, s)' <=> InSection(i, s)
  <2> SUFFICES ASSUME NEW i \in Ins, NEW s \in Sections
               PROVE  InSection(i, s)' <=> InSection(i, s)
    OBVIOUS
  <2>1. CASE i = pc
    <3>1. ~InSection(i, s)
      BY <1>1, <1>2, <2>1 DEF StreamInv, StreamBuilt, InSection
    <3> QED BY <1>2, <1>3, <2>1, <3>1 DEF InSection
  <2> QED BY <1>3, <2>1 DEF InSection
<1>5. following[pc] = 0
  BY <1>1, <1>2 DEF ChainInv, LinksForward, LinksBuilt
<1>6. LinksWithin'
  BY <1>1, <1>3, <1>4, <1>5 DEF StreamInv, LinksWithin
<1>7. FirstKnown'
  BY <1>1, <1>3, <1>4 DEF StreamInv, StreamBuilt, FirstKnown
<1>8. \A i \in Ins, s \in Sections : NextIn(i, s) => NextIn(i, s)'
  BY <1>3, <1>4 DEF NextIn
<1>9. \A i \in Ins : pc + 1 <= i => sec'[i] = NoSection
  BY <1>1, <1>2, <1>3 DEF StreamInv, StreamBuilt
<1>10. StreamBuilt'
  BY <1>1, <1>3, <1>4, <1>7, <1>8, <1>9 DEF StreamInv, StreamBuilt
<1> QED BY <1>1, <1>3, <1>6, <1>10 DEF StreamInv, StreamLinked

(* An instruction that joins the chain of section c.                       *)
LEMMA StreamJoins ==
  ASSUME TypeInv, ChainInv, StreamInv, Precompile, NEW c \in Sections,
         prog[pc].op # "section", sec' = [sec EXCEPT ![pc] = c],
         last' = [last EXCEPT ![c] = pc],
         \/ /\ last[c] = 0 /\ first' = [first EXCEPT ![c] = pc]
            /\ UNCHANGED following
         \/ /\ last[c] # 0 /\ following' = [following EXCEPT ![last[c]] = pc]
            /\ UNCHANGED first
  PROVE  StreamInv'
<1> DEFINE l == last[c]
<1>1. TypeOK /\ pc \in Ins /\ phase = "precompile"
  BY AtType DEF Precompile, TypeInv
<1>2. /\ \A i \in Ins : i \in Nat /\ i # 0 /\ following[i] \in Nat
      /\ NoSection \notin Sections /\ Ins = 1 .. Len(prog)
      /\ following \in [Ins -> Nodes \cup {0}] /\ sec \in [Ins -> Sections \cup {NoSection}]
      /\ last \in [Sections -> 0 .. Len(prog)] /\ first \in [Sections -> 0 .. Len(prog)]
  BY <1>1, StreamType
<1>3. /\ UNCHANGED <<prog, phase>> /\ pc' = pc + 1 /\ Ins' = Ins /\ Sections' = Sections
  BY SameIndices DEF Precompile, Sections
<1>4. /\ \A i \in Ins : pc <= i => sec[i] = NoSection
      /\ FirstKnown /\ LinksWithin
      /\ \A s \in Sections : last[s] # 0 =>
            last[s] \in Ins /\ InSection(last[s], s) /\ first[s] # 0
      /\ \A i \in Ins, s \in Sections : InSection(i, s) =>
            last[s] # 0 /\ i <= last[s] /\ (i # last[s] => NextIn(i, s))
  BY <1>1 DEF StreamInv, StreamBuilt
<1>5. /\ \A i \in Ins : i # pc => sec'[i] = sec[i]
      /\ sec'[pc] = c
      /\ \A s \in Sections : s # c => last'[s] = last[s] /\ first'[s] = first[s]
      /\ last'[c] = pc /\ first'[c] = IF l = 0 THEN pc ELSE first[c]
      /\ \A i \in Ins : i # l => following'[i] = following[i]
      /\ l # 0 => following'[l] = pc /\ l \in Ins /\ InSection(l, c)
  BY <1>1, <1>2, <1>4
<1>6. ASSUME NEW i \in Ins, NEW s \in Sections, InSection(i, s)
      PROVE  i < pc
  <2>1. ~(pc <= i)
    BY <1>2, <1>4, <1>6 DEF InSection
  <2>2. i \in Nat /\ pc \in Nat
    BY <1>1, <1>2
  <2> QED BY <2>1, <2>2
<1>7. \A i \in Ins, s \in Sections :
        InSection(i, s)' <=> InSection(i, s) \/ (i = pc /\ s = c)
  BY <1>1, <1>3, <1>5, <1>6, <1>2 DEF InSection
<1>8. l # 0 => l < pc
  BY <1>5, <1>6
<1>9. LinksWithin'
  <2> SUFFICES ASSUME NEW i \in Ins, following'[i] # 0
               PROVE  sec'[i] \in Sections /\ InSection(i, sec[i])'
    BY <1>3 DEF LinksWithin, InSection
  <2>1. following[pc] = 0
    BY <1>1, <1>2 DEF ChainInv, LinksForward, LinksBuilt
  <2>2. CASE i = l
    BY <1>2, <1>3, <1>5, <1>8, <2>2 DEF InSection
  <2>3. CASE i # l
    <3>1. following[i] # 0 /\ i # pc
      BY <1>5, <2>1, <2>3
    <3> QED BY <1>3, <1>4, <1>5, <3>1 DEF LinksWithin, InSection
  <2> QED BY <2>2, <2>3
<1>10. FirstKnown'
  <2> SUFFICES ASSUME NEW i \in Ins, NEW s \in Sections, InSection(i, s)'
               PROVE  first'[s] # 0 /\ first'[s] <= i
    BY <1>3 DEF FirstKnown
  <2>1. CASE s # c
    BY <1>4, <1>5, <1>7, <2>1 DEF FirstKnown
  <2>2. CASE s = c /\ l = 0
    BY <1>1, <1>2, <1>4, <1>5, <1>7, <2>2
  <2>3. CASE s = c /\ l # 0
    <3>1. first'[c] = first[c] /\ first[c] # 0 /\ first[c] <= l /\ first[c] \in Nat
      BY <1>2, <1>4, <1>5, <2>3 DEF FirstKnown
    <3> QED BY <1>1, <1>2, <1>4, <1>5, <1>7, <1>8, <2>3, <3>1 DEF FirstKnown
  <2> QED BY <2>1, <2>2, <2>3
<1>11. ASSUME NEW s \in Sections, last'[s] # 0
       PROVE  last'[s] \in Ins /\ InSection(last[s], s)' /\ first'[s] # 0
  <2>1. CASE s = c
    <3>1. last'[s] = pc /\ sec'[pc] = s /\ prog'[pc].op # "section"
      BY <1>3, <1>5, <2>1
    <3>2. first'[s] # 0
      BY <1>1, <1>2, <1>4, <1>5, <2>1
    <3> QED BY <1>1, <3>1, <3>2 DEF InSection
  <2>2. CASE s # c
    <3>1. last'[s] = last[s] /\ last[s] \in Ins /\ InSection(last[s], s) /\ first'[s] # 0
      BY <1>4, <1>5, <1>11, <2>2
    <3> QED BY <1>3, <1>5, <1>6, <3>1, <1>2, <1>1 DEF InSection
  <2> QED BY <2>1, <2>2
<1>12. ASSUME NEW i \in Ins, NEW s \in Sections, InSection(i, s)'
       PROVE  last'[s] # 0 /\ i <= last'[s] /\ (i # last'[s] => NextIn(i, s)')
  <2>1. CASE i = pc
    <3>1. s = c
      BY <1>1, <1>6, <1>7, <1>12, <2>1, <1>2
    <3> QED BY <1>1, <1>2, <1>5, <2>1, <3>1
  <2>2. CASE i # pc /\ s # c
    <3>1. /\ InSection(i, s) /\ last'[s] = last[s] /\ last[s] # 0 /\ i <= last[s]
          /\ i # last[s] => NextIn(i, s)
      BY <1>4, <1>5, <1>7, <1>12, <2>2
    <3>2. NextIn(i, s) => NextIn(i, s)'
      <4>1. i # l
        BY <1>2, <1>5, <2>2, <3>1 DEF InSection
      <4>2. following'[i] = following[i]
        BY <1>5, <4>1
      <4> QED BY <1>3, <1>7, <2>2, <4>2 DEF NextIn, InSection
    <3> QED BY <3>1, <3>2
  <2>3. CASE i # pc /\ s = c
    <3>1. /\ InSection(i, c) /\ l # 0 /\ i <= l /\ (i # l => NextIn(i, c))
          /\ last'[s] = pc /\ i < pc
      BY <1>4, <1>5, <1>6, <1>7, <1>12, <2>3
    <3>2. i = l => NextIn(i, c)'
      <4>1. \A j \in Ins : InSection(j, c)' /\ l < j => pc <= j
        BY <1>2, <1>1, <1>4, <1>5, <1>7
      <4>2. /\ i = l => following'[i] = pc
            /\ sec'[pc] = c /\ prog'[pc].op # "section"
        BY <1>3, <1>5, <3>1
      <4> HIDE DEF l
      <4> QED BY <1>1, <1>3, <1>8, <3>1, <4>1, <4>2 DEF NextIn, InSection
    <3>3. i # l => NextIn(i, c)'
      <4> SUFFICES ASSUME i # l PROVE NextIn(i, c)'
        OBVIOUS
      <4>1. following'[i] = following[i] /\ NextIn(i, c)
        BY <1>5, <3>1
      <4>2. following[i] < pc
        BY <1>6, <4>1 DEF NextIn
      <4>3. InSection(following[i], c)'
        BY <1>7, <4>1 DEF NextIn
      <4>4. \A j \in Ins : InSection(j, c)' /\ i < j => following[i] <= j
        BY <1>1, <1>2, <1>7, <4>1, <4>2 DEF NextIn
      <4> QED BY <1>3, <4>1, <4>3, <4>4 DEF NextIn, InSection
    <3> QED BY <1>2, <1>1, <2>3, <3>1, <3>2, <3>3
  <2> QED BY <2>1, <2>2, <2>3
<1>13. \A i \in Ins : pc + 1 <= i => sec'[i] = NoSection
  BY <1>1, <1>2, <1>4, <1>5
<1>14. StreamBuilt'
  BY <1>1, <1>3, <1>10, <1>11, <1>12, <1>13 DEF StreamBuilt, InSection
<1> QED BY <1>1, <1>3, <1>9, <1>14 DEF StreamInv, StreamLinked

(* The loop that closes every chain.                                       *)
LEMMA StreamCloses ==
  ASSUME TypeInv, ChainInv, StreamInv, EndPrecompile
  PROVE  StreamInv'
<1>1. TypeOK /\ phase = "precompile" /\ phase' = "update" /\ pc = Len(prog) + 1
  BY DEF EndPrecompile, TypeInv
<1>2. UNCHANGED <<prog, first, last, sec>> /\ Ins' = Ins /\ Sections' = Sections
  BY SameIndices DEF EndPrecompile, Sections
<1>3. /\ \A i \in Ins : i \in Nat /\ i # 0 /\ following[i] \in Nat
      /\ Ins = 1 .. Len(prog) /\ Len(prog) \in Nat
  BY <1>1, StreamType
<1>4. /\ FirstKnown /\ LinksWithin
      /\ \A s \in Sections : last[s] # 0 => last[s] \in Ins /\ InSection(last[s], s)
      /\ \A i \in Ins, s \in Sections : InSection(i, s) =>
            last[s] # 0 /\ i <= last[s] /\ (i # last[s] => NextIn(i, s))
  BY <1>1 DEF StreamInv, StreamBuilt
<1>5. \A i \in Ins, s \in Sections : InSection(i, s)' <=> InSection(i, s)
  BY <1>2 DEF InSection
<1>6. \A s, t \in Sections : last[s] # 0 /\ last[s] = last[t] => s = t
  BY <1>4 DEF InSection
<1>7. \A i \in Ins :
        \/ \E s \in Sections : last[s] = i /\ following'[i] = EndOf(s)
        \/ (\A s \in Sections : last[s] # i) /\ following'[i] = following[i]
  <2> SUFFICES ASSUME NEW i \in Ins
               PROVE  \/ \E s \in Sections : last[s] = i /\ following'[i] = EndOf(s)
                      \/ (\A s \in Sections : last[s] # i) /\ following'[i] = following[i]
    OBVIOUS
  <2>1. following'[i] = IF \E s \in Sections : last[s] = i
                        THEN EndOf(CHOOSE s \in Sections : last[s] = i)
                        ELSE following[i]
    BY DEF EndPrecompile
  <2> QED BY <2>1
<1>8. LinksWithin'
  <2> SUFFICES ASSUME NEW i \in Ins, following'[i] # 0
               PROVE  sec[i] \in Sections /\ InSection(i, sec[i])
    BY <1>2 DEF LinksWithin, InSection
  <2>1. CASE \E s \in Sections : last[s] = i /\ following'[i] = EndOf(s)
    BY <1>3, <1>4, <2>1 DEF InSection
  <2>2. CASE following'[i] = following[i]
    BY <1>4, <2>2 DEF LinksWithin
  <2> QED BY <1>7, <2>1, <2>2
<1>9. FirstKnown'
  BY <1>2, <1>4 DEF FirstKnown, InSection
<1>10. ASSUME NEW i \in Ins, NEW s \in Sections, InSection(i, s)
       PROVE  \/ NextIn(i, s)'
              \/ following'[i] = EndOf(s)' /\ \A j \in Ins : InSection(j, s) => j <= i
  <2>1. last[s] # 0 /\ i <= last[s]
    BY <1>4, <1>10
  <2>2. CASE i = last[s]
    <3>1. following'[i] = EndOf(s)
      BY <1>3, <1>6, <1>7, <2>2
    <3> QED BY <1>2, <1>4, <2>2, <3>1 DEF EndOf
  <2>3. CASE i # last[s]
    <3>1. NextIn(i, s)
      BY <1>4, <1>10, <2>3
    <3>2. \A t \in Sections : last[t] # i
      BY <1>3, <1>4, <1>10, <2>3 DEF InSection
    <3>3. following'[i] = following[i]
      BY <1>7, <3>2
    <3> QED BY <1>2, <3>1, <3>3 DEF NextIn, InSection
  <2> QED BY <2>2, <2>3
<1>11. StreamLinked'
  BY <1>2, <1>5, <1>9, <1>10 DEF StreamLinked
<1> QED BY <1>1, <1>8, <1>11 DEF StreamInv, StreamBuilt

LEMMA StreamKept ==
  ASSUME TypeInv, ChainInv, StreamInv, [Next]_vars, ~Precompile, ~EndPrecompile
  PROVE  StreamInv'
<1>1. /\ UNCHANGED <<prog, first, last, following, sec>>
      /\ Ins' = Ins /\ Sections' = Sections
      /\ \/ phase' = "precompile" /\ phase = "group"
         \/ phase' = "group" /\ phase = "parse"
         \/ phase' = phase /\ (phase = "precompile" => UNCHANGED pc)
         \/ phase' \in {"update", "compile", "done"} /\
            phase \in {"update", "compile", "done"}
         \/ phase' \in {"stopped", "wrapped"}
  <2>1. UNCHANGED <<prog, first, last, following, sec>>
    BY DEF Next, Pass, Parse, EndParse, Group, EndGroup, UpdateUnchained, Update,
           Wrap, EndUpdate, Compile, EndCompile, Stop, Finished, vars, chainVars
  <2>2. \/ phase' = "precompile" /\ phase = "group"
        \/ phase' = "group" /\ phase = "parse"
        \/ phase' = phase /\ (phase = "precompile" => UNCHANGED pc)
        \/ phase' \in {"update", "compile", "done"} /\
           phase \in {"update", "compile", "done"}
        \/ phase' \in {"stopped", "wrapped"}
    BY DEF Next, Pass, Parse, EndParse, Group, EndGroup, UpdateUnchained, Update,
           Wrap, EndUpdate, Compile, EndCompile, Stop, Finished, vars, At
  <2> QED BY <2>1, <2>2, SameIndices DEF Sections
<1>2. LinksWithin'
  BY <1>1 DEF StreamInv, LinksWithin, InSection
<1>3. /\ \A i \in Ins, s \in Sections :
            /\ InSection(i, s)' <=> InSection(i, s)
            /\ NextIn(i, s)' <=> NextIn(i, s)
            /\ EndOf(s)' = EndOf(s)
      /\ FirstKnown' <=> FirstKnown
  BY <1>1 DEF InSection, NextIn, EndOf, FirstKnown
<1>4. StreamLinked'
  <2>1. CASE phase \in {"update", "compile", "done"}
    BY <1>1, <1>3, <2>1 DEF StreamInv, StreamLinked
  <2>2. CASE phase \notin {"update", "compile", "done"}
    <3>1. phase' \notin {"update", "compile", "done"}
      BY <1>1, <2>2
    <3> QED BY <3>1 DEF StreamLinked
  <2> QED BY <2>1, <2>2
<1>5. StreamBuilt'
  <2>1. CASE phase' = "precompile" /\ phase = "group"
    <3>1. /\ \A i \in Ins : sec[i] = NoSection
          /\ \A s \in Sections : first[s] = 0
      BY <2>1 DEF StreamInv, StreamBuilt
    <3>2. \A i \in Ins, s \in Sections : ~InSection(i, s)
      BY <3>1, StreamType DEF TypeInv, InSection
    <3>3. \A s \in Sections : last[s] = 0
      BY <2>1 DEF ChainInv, LinksBuilt
    <3> QED BY <1>1, <1>3, <2>1, <3>1, <3>2, <3>3 DEF StreamBuilt, FirstKnown
  <2>2. CASE phase' = "group" /\ phase = "parse"
    BY <1>1, <2>2 DEF StreamInv, StreamBuilt
  <2>3. CASE phase' = phase /\ (phase = "precompile" => UNCHANGED pc)
    BY <1>1, <2>3 DEF StreamInv, StreamBuilt, FirstKnown, NextIn, InSection
  <2>4. CASE phase' \notin {"parse", "group", "precompile"}
    BY <2>4 DEF StreamBuilt
  <2> QED BY <1>1, <2>1, <2>2, <2>3, <2>4
<1> QED BY <1>2, <1>4, <1>5 DEF StreamInv

LEMMA StreamStep == TypeInv /\ ChainInv /\ StreamInv /\ [Next]_vars => StreamInv'
<1> SUFFICES ASSUME TypeInv, ChainInv, StreamInv, [Next]_vars PROVE StreamInv'
  OBVIOUS
<1>1. CASE Precompile
  <2> DEFINE c       == IF OpensText(prog[pc]) THEN 1 ELSE cur
             chained == prog[pc].op # "section" /\ c # NoSection
  <2>1. TypeOK /\ pc \in Ins /\ phase = "precompile"
    BY <1>1, AtType DEF Precompile, TypeInv
  <2>2. c \in Sections \cup {NoSection}
    BY <2>1, IndexType DEF TypeInv, CurOK
  <2>3. sec' = [sec EXCEPT ![pc] = c]
    BY <1>1 DEF Precompile
  <2>4. CASE ~chained
    <3>1. UNCHANGED <<first, last, following>>
      BY <1>1, <2>4 DEF Precompile
    <3>2. sec'[pc] = NoSection \/ prog[pc].op = "section"
      BY <2>1, <2>3, <2>4 DEF TypeOK
    <3> QED BY <1>1, <3>1, <3>2, StreamSkips
  <2>5. CASE chained
    <3>1. c \in Sections /\ prog[pc].op # "section"
      BY <2>2, <2>5
    <3>2. /\ last' = [last EXCEPT ![c] = pc]
          /\ \/ /\ last[c] = 0 /\ first' = [first EXCEPT ![c] = pc]
                /\ UNCHANGED following
             \/ /\ last[c] # 0 /\ following' = [following EXCEPT ![last[c]] = pc]
                /\ UNCHANGED first
      BY <1>1, <2>5 DEF Precompile, LastIn
    <3> HIDE DEF c
    <3> QED BY <1>1, <2>3, <3>1, <3>2, StreamJoins
  <2> QED BY <2>4, <2>5
<1> QED BY <1>1, StreamCloses, StreamKept

LEMMA StreamCorrect == Spec => []StreamInv
BY StreamInit, StreamStep, ChainsApart, TypeInvariant, PTL DEF Spec

(* In every program the chain of a section is what the stream puts into    *)
(* that section, in the order of the stream, and ends with the section's   *)
(* own last instruction, however often the sections alternate              *)
(* (precompile_instruction_stream, asm.c:930).                             *)
THEOREM ChainsForAll == Spec => []ChainsFollowStream
<1>1. TypeInv /\ StreamInv => ChainsFollowStream
  <2> SUFFICES ASSUME TypeInv, StreamInv, phase \in {"update", "compile", "done"},
                      NEW s \in Sections, NEW i \in Ins, InSection(i, s)
               PROVE  LET later == {j \in Ins : j > i /\ InSection(j, s)}
                      IN  /\ following[i] = EndOf(s) <=> later = {}
                          /\ later # {} => following[i] \in later
                                          /\ \A j \in later : following[i] <= j
                          /\ first[s] <= i /\ first[s] # 0
    BY DEF ChainsFollowStream
  <2>1. first[s] # 0 /\ first[s] <= i
    BY DEF StreamInv, StreamLinked, FirstKnown
  <2>2. \A j \in Ins : j \in Nat /\ j < EndOf(s)
    BY StreamType DEF TypeInv, EndOf
  <2>3. CASE NextIn(i, s)
    BY <2>1, <2>2, <2>3 DEF NextIn
  <2>4. CASE following[i] = EndOf(s) /\ \A j \in Ins : InSection(j, s) => j <= i
    BY <2>1, <2>2, <2>4
  <2> QED BY <2>3, <2>4 DEF StreamInv, StreamLinked
<1> QED BY <1>1, StreamCorrect, TypeInvariant, PTL
-----------------------------------------------------------------------------
(***************************************************************************)
(* Blocks are exact.  A repeated block asks for the distance between its   *)
(* directives times its count, past its head; that distance shrinks for a  *)
(* moment when a pass has raised the head and not yet the end.  So a pass  *)
(* is compared with the offsets it began with, old: where it has been, no  *)
(* instruction of a block is nearer to the head than it was, everything    *)
(* asks for at least as much as before, and what follows is set to exactly *)
(* what is asked for.                                                      *)
(***************************************************************************)
Closing(i) == prog[i].op \in {"endtimes", "endfill"}

(* The instructions whose extent the passes compute.                       *)
Asks(i) == Chained(i) /\ prog[i].op # "org" /\ (Closing(i) => term[i] # 0)

(* Extent, with the offsets o.                                             *)
ExtentFrom(o, i) ==
  LET t == term[i]
  IN  CASE prog[i].op = "endtimes" -> o[t] + (o[i] - o[t]) * count[t]
        [] prog[i].op = "endfill"  -> o[t] + count[t]
        [] OTHER                   -> o[i] + size[i]

Held(t, b) ==
  /\ Opens(t) /\ term[t] # 0 /\ t <= b /\ b <= term[t]
  /\ sec[t] \in Sections /\ InSection(b, sec[t])

(* The pass has been at all that comes before b in its section.            *)
Reached(b) == \A j \in Ins : InSection(j, sec[b]) /\ j < b => j < pc

Spread(old) ==
  \A t, b \in Ins : Held(t, b) /\ Reached(b) => off[b] - off[t] >= old[b] - old[t]

Sweep(old) ==
  /\ \A n \in Nodes : old[n] <= off[n]
  /\ \A i \in Ins : Asks(i) => old[following[i]] <= ExtentFrom(old, i)
  /\ \A i \in Ins : Chained(i) /\ pc <= i => off[following[i]] = old[following[i]]
  /\ \A i \in Ins : Asks(i) /\ i < pc => off[following[i]] <= ExtentFrom(off, i)
  /\ Spread(old)

CountInv ==
  \A i \in Ins :
    /\ phase \in {"precompile", "update", "compile", "done"}
    /\ phase = "precompile" => i < pc
    /\ Opens(i) /\ IsConst(prog[i].arg)
    => count[i] = prog[i].arg.add

BlockInv ==
  Regular =>
    /\ phase = "update" => \E old \in [Nodes -> Nat] : Sweep(old)
    /\ phase \in {"compile", "done"} =>
         \A i \in Ins : Asks(i) => off[following[i]] <= ExtentFrom(off, i)

LEMMA Scaled ==
  ASSUME NEW n \in Nat, NEW a \in Int, NEW b \in Int, a <= b
  PROVE  a * n <= b * n /\ a * n \in Int /\ b * n \in Int
<1>1. (b - a) * n >= 0
  OBVIOUS
<1>2. (b - a) * n = b * n - a * n
  OBVIOUS
<1>3. a * n \in Int /\ b * n \in Int
  OBVIOUS
<1> QED BY <1>1, <1>2, <1>3

LEMMA ConstValue ==
  ASSUME NEW e \in Exprs, IsConst(e), NEW here, NEW c, NEW s
  PROVE  Value(e, here, c, s) = e.add
<1>1. Eval(e, here, c, s) = [val |-> 0 - 0 + e.add, sec |-> Scalar]
  BY DEF IsConst, Eval, AtomValue, Scalar
<1> QED BY <1>1 DEF Value, Exprs

LEMMA CountInit == Init => CountInv
BY DEF Init, CountInv

LEMMA CountStep == TypeInv /\ CountInv /\ [Next]_vars => CountInv'
<1> SUFFICES ASSUME TypeInv, CountInv, [Next]_vars PROVE CountInv'
  OBVIOUS
<1>1. TypeOK /\ count \in [Ins -> Int] /\ Ins = 1 .. Len(prog) /\ Len(prog) \in Nat
  BY IndexType DEF TypeInv, TypeOK
<1>2. CASE Precompile \/ Compile
  <2>1. pc \in Ins /\ phase \in {"precompile", "compile"}
    BY <1>1, <1>2, AtType DEF Precompile, Compile
  <2>2. UNCHANGED <<prog, phase>> /\ Ins' = Ins /\ pc' = pc + 1
    BY <1>2, SameIndices DEF Precompile, Compile
  <2>3. \/ \E c : count' = [count EXCEPT ![pc] = Value(prog[pc].arg, off[pc], c, sym)]
        \/ count' = count /\ (phase = "precompile" => ~Opens(pc))
    <3>1. CASE Precompile
      BY <3>1 DEF Precompile, Opens
    <3>2. CASE Compile
      BY <2>1, <3>2 DEF Compile, At
    <3> QED BY <1>2, <3>1, <3>2
  <2>4. prog[pc].arg \in Exprs
    BY <1>1, <2>1, ProgramType
  <2>5. ASSUME NEW i \in Ins, phase = "precompile" => i < pc + 1,
               Opens(i), IsConst(prog[i].arg)
        PROVE  count'[i] = prog[i].arg.add
    <3>1. CASE i = pc
      <4>1. CASE count' = count /\ (phase = "precompile" => ~Opens(pc))
        BY <2>1, <2>5, <3>1, <4>1 DEF CountInv
      <4>2. ASSUME NEW c, count' = [count EXCEPT ![pc] = Value(prog[pc].arg, off[pc], c, sym)]
            PROVE  count'[i] = prog[i].arg.add
        BY <1>1, <2>1, <2>4, <2>5, <3>1, <4>2, ConstValue
      <4> QED BY <2>3, <4>1, <4>2
    <3>2. CASE i # pc
      <4>1. count'[i] = count[i]
        BY <1>1, <2>1, <2>3, <3>2
      <4>2. phase = "precompile" => i < pc
        BY <1>1, <2>1, <2>5, <3>2
      <4> QED BY <2>1, <2>5, <4>1, <4>2 DEF CountInv
    <3> QED BY <3>1, <3>2
  <2> QED BY <2>1, <2>2, <2>5 DEF CountInv, Opens
<1>3. CASE ~(Precompile \/ Compile)
  <2>1. UNCHANGED <<prog, count>> /\ Ins' = Ins
    <3>1. UNCHANGED <<prog, count>>
      BY <1>3 DEF Next, Pass, Parse, EndParse, Group, EndGroup, EndPrecompile,
                  UpdateUnchained, Update, Wrap, EndUpdate, EndCompile, Stop,
                  Finished, vars
    <3> QED BY <3>1, SameIndices
  <2>2. \/ phase' \notin {"precompile", "update", "compile", "done"}
        \/ phase' = "precompile" /\ pc' = 1
        \/ phase = "precompile" /\ phase' = "precompile" /\ pc' = pc
        \/ phase = "precompile" /\ pc = Len(prog) + 1 /\ phase' = "update"
        \/ phase \in {"update", "compile", "done"} /\ phase' \in {"update", "compile", "done"}
    BY <1>3 DEF Next, Pass, Parse, EndParse, Group, EndGroup, EndPrecompile,
                UpdateUnchained, Update, Wrap, EndUpdate, EndCompile, Stop,
                Finished, vars, At
  <2>3. \A i \in Ins : ~(i < 1) /\ i < Len(prog) + 1
    BY <1>1
  <2> QED BY <2>1, <2>2, <2>3 DEF CountInv, Opens
<1> QED BY <1>2, <1>3

(* What the earlier invariants say of an instruction that asks for room.   *)
BlockFacts == TypeInv /\ ChainInv /\ GapInv /\ GroupInv /\ StreamInv /\ CountInv

LEMMA AskType ==
  ASSUME BlockFacts, Regular, NEW i \in Ins, Asks(i)
  PROVE  /\ i \in Nat /\ i \in Nodes /\ size[i] \in Int
         /\ following[i] \in Nodes /\ i < following[i]
         /\ sec[i] \in Sections /\ InSection(i, sec[i])
         /\ ~Closing(i) => Rigid(i)
         /\ Closing(i) => /\ term[i] \in Ins /\ term[i] \in Nodes /\ term[i] \in Nat
                          /\ term[i] < i /\ Opens(term[i]) /\ term[term[i]] = i
                          /\ sec[term[i]] = sec[i] /\ Held(term[i], i)
<1>1. TypeOK
  BY DEF BlockFacts, TypeInv
<1>2. /\ i \in Nat /\ i > 0 /\ i \in Nodes /\ size[i] \in Int
      /\ following[i] # 0 => following[i] \in Nodes
  BY <1>1, FieldType
<1>3. following[i] # 0
  BY DEF Asks, Chained
<1>4. i < following[i] /\ sec[i] \in Sections /\ InSection(i, sec[i])
  BY <1>3 DEF BlockFacts, ChainInv, LinksForward, StreamInv, LinksWithin
<1>5. ~Closing(i) => Rigid(i)
  BY DEF Regular, Closing, Asks
<1>6. ASSUME Closing(i)
      PROVE  /\ term[i] \in Ins /\ term[i] \in Nodes /\ term[i] \in Nat
             /\ term[i] < i /\ Opens(term[i]) /\ term[term[i]] = i
             /\ sec[term[i]] = sec[i] /\ Held(term[i], i)
  <2> DEFINE u == term[i]
  <2>1. u \in Ins /\ term[u] = i /\ u < i /\ Opens(u)
    BY <1>6 DEF Asks, BlockFacts, GroupInv, Paired, Closes, Closing, Opens
  <2>2. u \in Nodes /\ u \in Nat
    BY <1>1, <2>1, FieldType
  <2>3. sec[u] = sec[i]
    <3> HIDE DEF u
    <3>1. term[u] = i /\ term[u] # 0
      BY <1>2, <2>1
    <3>2. sec[term[u]] = sec[u]
      BY <2>1, <3>1 DEF Regular, BlocksWithin
    <3> QED BY <3>1, <3>2
  <2> QED BY <1>2, <1>4, <2>1, <2>2, <2>3 DEF Held
<1> QED BY <1>2, <1>3, <1>4, <1>5, <1>6

(* A block is not repeated or filled a negative number of times.           *)
LEMMA CountType ==
  ASSUME BlockFacts, Regular, NEW t \in Ins, Opens(t), term[t] # 0
  PROVE  count[t] \in Nat
<1>1. count[t] \in Int
  BY FieldType DEF BlockFacts, TypeInv
<1> QED BY <1>1 DEF Regular

LEMMA ExtentType ==
  ASSUME BlockFacts, Regular, phase \in {"update", "compile", "done"},
         NEW i \in Ins, Asks(i), NEW o \in [Nodes -> Nat]
  PROVE  ExtentFrom(o, i) \in Int
<1>1. i \in Nodes /\ size[i] \in Int
  BY AskType
<1>2. CASE Closing(i)
  <2>1. term[i] \in Nodes /\ count[term[i]] \in Nat
    BY <1>1, <1>2, AskType, CountType
  <2>2. o[term[i]] \in Nat /\ o[i] \in Nat
    BY <1>1, <2>1
  <2> QED BY <1>2, <2>1, <2>2 DEF ExtentFrom, Closing
<1>3. CASE ~Closing(i)
  BY <1>1, <1>3 DEF ExtentFrom, Closing
<1> QED BY <1>2, <1>3

(* An instruction the pass is at asks for no less than before the pass...  *)
LEMMA ExtentGrows ==
  ASSUME BlockFacts, Regular, phase = "update", NEW old \in [Nodes -> Nat],
         Sweep(old), NEW i \in Ins, Asks(i), i = pc
  PROVE  ExtentFrom(old, i) <= ExtentFrom(off, i)
<1>1. /\ off \in [Nodes -> Nat] /\ i \in Nodes /\ size[i] \in Int
      /\ old[i] <= off[i]
  BY AskType DEF BlockFacts, TypeInv, TypeOK, Sweep
<1>2. CASE Closing(i)
  <2> DEFINE u == term[i]
             n == count[u]
             a == old[i] - old[u]
             b == off[i] - off[u]
  <2>1. u \in Ins /\ u \in Nodes /\ Held(u, i) /\ n \in Nat
    <3>1. u \in Ins /\ u \in Nodes /\ Held(u, i) /\ Opens(u) /\ term[u] # 0
      BY <1>2, AskType DEF Held
    <3> QED BY <3>1, CountType
  <2>2. Reached(i)
    BY DEF Reached
  <2>3. b >= a
    BY <2>1, <2>2 DEF Sweep, Spread
  <2>4. old[u] <= off[u]
    BY <2>1 DEF Sweep
  <2>5. old[i] \in Nat /\ old[u] \in Nat /\ off[i] \in Nat /\ off[u] \in Nat
    BY <1>1, <2>1
  <2>6. a \in Int /\ b \in Int
    BY <2>5
  <2>7. a * n <= b * n /\ a * n \in Int /\ b * n \in Int
    <3> HIDE DEF a, b, n
    <3> QED BY <2>1, <2>3, <2>6, Scaled
  <2>8. \/ /\ ExtentFrom(old, i) = old[u] + a * n
           /\ ExtentFrom(off, i) = off[u] + b * n
        \/ /\ ExtentFrom(old, i) = old[u] + n
           /\ ExtentFrom(off, i) = off[u] + n
    BY <1>2 DEF ExtentFrom, Closing
  <2> HIDE DEF a, b, n, u
  <2> QED BY <2>1, <2>4, <2>5, <2>7, <2>8
<1>3. CASE ~Closing(i)
  <2>1. /\ ExtentFrom(old, i) = old[i] + size[i]
        /\ ExtentFrom(off, i) = off[i] + size[i]
    BY <1>3 DEF ExtentFrom, Closing
  <2>2. old[i] \in Nat /\ off[i] \in Nat
    BY <1>1
  <2> QED BY <1>1, <2>1, <2>2
<1> QED BY <1>2, <1>3

(* ... and ends, within a block, no nearer to the head of the block.       *)
LEMMA ExtentSpreads ==
  ASSUME BlockFacts, Regular, phase = "update", NEW old \in [Nodes -> Nat],
         Sweep(old), NEW i \in Ins, Asks(i), i = pc,
         NEW t \in Ins, Held(t, i), i # term[t]
  PROVE  ExtentFrom(old, i) - old[t] <= ExtentFrom(off, i) - off[t]
<1>1. /\ off \in [Nodes -> Nat] /\ i \in Nodes /\ size[i] \in Int /\ i \in Nat
      /\ t \in Nodes /\ t \in Nat /\ term[t] \in Ins /\ term[t] \in Nat
  <2>1. off \in [Nodes -> Nat] /\ i \in Nodes /\ size[i] \in Int /\ i \in Nat
    BY AskType DEF BlockFacts, TypeInv, TypeOK
  <2>2. t \in Nodes /\ t \in Nat /\ term[t] \in Ins
    BY FieldType DEF BlockFacts, TypeInv, Held
  <2>3. term[t] \in Nat
    BY <2>2, FieldType DEF BlockFacts, TypeInv
  <2> QED BY <2>1, <2>2, <2>3
<1>2. off[i] - off[t] >= old[i] - old[t]
  <2>1. Reached(i)
    BY DEF Reached
  <2> QED BY <2>1 DEF Sweep, Spread
<1>3. old[i] \in Nat /\ off[i] \in Nat /\ old[t] \in Nat /\ off[t] \in Nat
  BY <1>1
<1>4. CASE Closing(i)
  <2> DEFINE u == term[i]
             n == count[u]
             a == old[i] - old[u]
             b == off[i] - off[u]
  <2>1. /\ u \in Ins /\ u \in Nodes /\ u \in Nat /\ u < i /\ Opens(u) /\ term[u] = i
        /\ sec[u] = sec[i] /\ Held(u, i)
    BY <1>4, AskType
  <2>2. n \in Nat
    <3>1. term[u] # 0
      BY <2>1 DEF Held
    <3> QED BY <2>1, <3>1, CountType
  <2>3. Reached(i)
    BY DEF Reached
  <2>4. b >= a
    BY <2>1, <2>3 DEF Sweep, Spread
  <2>5. t < u
    <3>1. u # t
      BY <2>1
    <3>2. ~(u < t)
      <4>1. t < i /\ i < term[t]
        <5>1. t <= i /\ i <= term[t]
          BY DEF Held
        <5>2. t # i
          BY <1>4 DEF Held, Opens, Closing
        <5> QED BY <1>1, <5>1, <5>2
      <4>2. u < t /\ term[u] > t => term[t] < term[u]
        BY <2>1 DEF BlockFacts, GroupInv, Nested
      <4> QED BY <1>1, <2>1, <4>1, <4>2
    <3> QED BY <1>1, <2>1, <3>1, <3>2
  <2>6. Held(t, u)
    <3>1. InSection(u, sec[t])
      BY <2>1 DEF Held, InSection, Opens
    <3>2. u <= term[t]
      BY <1>1, <2>1 DEF Held
    <3> QED BY <1>1, <2>1, <2>5, <3>1, <3>2 DEF Held
  <2>7. Reached(u)
    BY <1>1, <2>1, StreamType DEF Reached, BlockFacts, TypeInv
  <2>8. off[u] - off[t] >= old[u] - old[t]
    BY <2>1, <2>6, <2>7 DEF Sweep, Spread
  <2>9. old[u] \in Nat /\ off[u] \in Nat
    BY <1>1, <2>1
  <2>10. a \in Int /\ b \in Int
    BY <1>3, <2>9
  <2>11. a * n <= b * n /\ a * n \in Int /\ b * n \in Int
    <3> HIDE DEF a, b, n
    <3> QED BY <2>2, <2>4, <2>10, Scaled
  <2>12. \/ /\ ExtentFrom(old, i) = old[u] + a * n
            /\ ExtentFrom(off, i) = off[u] + b * n
         \/ /\ ExtentFrom(old, i) = old[u] + n
            /\ ExtentFrom(off, i) = off[u] + n
    BY <1>4 DEF ExtentFrom, Closing
  <2> HIDE DEF a, b, n, u
  <2> QED BY <1>3, <2>2, <2>8, <2>9, <2>11, <2>12
<1>5. CASE ~Closing(i)
  <2>1. /\ ExtentFrom(old, i) = old[i] + size[i]
        /\ ExtentFrom(off, i) = off[i] + size[i]
    BY <1>5 DEF ExtentFrom, Closing
  <2> QED BY <1>1, <1>2, <1>3, <2>1
<1> QED BY <1>4, <1>5

(* Nothing that a block or its extent is computed from moves in a pass.    *)
LEMMA BlockFrame ==
  ASSUME UNCHANGED <<prog, term, sec, following>>
  PROVE  /\ Ins' = Ins /\ Nodes' = Nodes
         /\ \A i \in Ins : /\ Chained(i)' <=> Chained(i)
                           /\ Asks(i)' <=> Asks(i)
                           /\ Rigid(i)' <=> Rigid(i)
                           /\ Opens(i)' <=> Opens(i)
                           /\ Closing(i)' <=> Closing(i)
         /\ \A t, b \in Ins : Held(t, b)' <=> Held(t, b)
         /\ UNCHANGED count => (Regular' <=> Regular)
<1>1. Ins' = Ins /\ Nodes' = Nodes /\ Sections' = Sections
  BY SameIndices DEF Sections
<1>2. \A i \in Ins : /\ Chained(i)' <=> Chained(i)
                     /\ Asks(i)' <=> Asks(i)
                     /\ Rigid(i)' <=> Rigid(i)
                     /\ Opens(i)' <=> Opens(i)
                     /\ Closing(i)' <=> Closing(i)
  BY DEF Chained, Asks, Closing, Rigid, Opens
<1>3. \A t, b \in Ins : Held(t, b)' <=> Held(t, b)
  BY <1>1 DEF Held, InSection, Opens
<1>4. /\ BlocksWithin' <=> BlocksWithin
      /\ \A i, t \in Ins : InBlock(i, t)' <=> InBlock(i, t)
  BY <1>1, <1>2 DEF BlocksWithin, InBlock
<1>5. UNCHANGED count => (Regular' <=> Regular)
  BY <1>1, <1>2, <1>4 DEF Regular
<1> QED BY <1>1, <1>2, <1>3, <1>5

(* Visiting an instruction sets what follows it to what it asks for, or,   *)
(* for .org, to no less than it was.                                       *)
LEMMA UpdateExact ==
  ASSUME BlockFacts, Regular, Update, NEW old \in [Nodes -> Nat], Sweep(old)
  PROVE  /\ pc \in Ins /\ Chained(pc)
         /\ prog[pc].op # "org" => Asks(pc)
         /\ \E e \in Int : /\ off' = [off EXCEPT ![following[pc]] = e]
                           /\ off[following[pc]] <= e
                           /\ Asks(pc) => e = ExtentFrom(off, pc)
<1>1. /\ TypeOK /\ pc \in Ins /\ phase = "update" /\ following[pc] # 0 /\ ~Stops(pc)
      /\ off \in [Nodes -> Nat]
  BY AtType DEF Update, BlockFacts, TypeInv, TypeOK
<1>2. Chained(pc) /\ (prog[pc].op # "org" => Asks(pc))
  BY <1>1, PartnerExists DEF Asks, Chained, Closing
<1> DEFINE f == following[pc]
<1>3. f \in Nodes /\ off[f] \in Nat /\ NewOffset(pc) \in Int
  BY <1>1, FieldType, PartnerExists, NewOffsetType
<1>4. CASE Asks(pc)
  <2> DEFINE e == ExtentFrom(off, pc)
  <2>1. e \in Int
    BY <1>1, <1>4, ExtentType
  <2>2. NewOffset(pc) = e
    BY <1>4 DEF NewOffset, ExtentFrom, Asks
  <2>3. off[f] <= e
    <3>1. off[f] = old[f]
      <4>1. pc <= pc
        BY <1>1, StreamType
      <4> QED BY <1>1, <4>1 DEF Sweep, Chained
    <3>2. old[f] <= ExtentFrom(old, pc)
      BY <1>1, <1>4 DEF Sweep
    <3>3. ExtentFrom(old, pc) <= e
      BY <1>1, <1>4, ExtentGrows
    <3>4. ExtentFrom(old, pc) \in Int
      BY <1>1, <1>4, ExtentType
    <3> HIDE DEF e
    <3> QED BY <1>3, <2>1, <3>1, <3>2, <3>3, <3>4
  <2>4. \/ off' = [off EXCEPT ![f] = e]
        \/ off' = off /\ ~(off[f] < e)
    BY <2>2 DEF Update, Raises
  <2> HIDE DEF f, e
  <2>5. off' = [off EXCEPT ![f] = e]
    BY <1>1, <1>3, <2>1, <2>3, <2>4
  <2> QED BY <1>1, <1>2, <2>1, <2>3, <2>5 DEF f, e
<1>5. CASE ~Asks(pc)
  <2>1. \/ off' = [off EXCEPT ![f] = NewOffset(pc)] /\ off[f] < NewOffset(pc)
        \/ off' = off
    BY DEF Update, Raises
  <2> HIDE DEF f
  <2>2. off = [off EXCEPT ![f] = off[f]]
    BY <1>1, <1>3
  <2>3. \E e \in Int : off' = [off EXCEPT ![f] = e] /\ off[f] <= e
    <3>1. CASE off' = off
      BY <1>3, <2>2, <3>1
    <3>2. CASE off' = [off EXCEPT ![f] = NewOffset(pc)] /\ off[f] < NewOffset(pc)
      <4>1. off[f] <= NewOffset(pc)
        BY <1>3, <3>2
      <4> QED BY <1>3, <3>2, <4>1
    <3> QED BY <2>1, <3>1, <3>2
  <2> QED BY <1>1, <1>2, <1>5, <2>3 DEF f
<1> QED BY <1>4, <1>5

LEMMA SweepUpdate ==
  ASSUME BlockFacts, Regular, Update, NEW old \in [Nodes -> Nat], Sweep(old)
  PROVE  Sweep(old)'
<1>1. /\ TypeOK /\ pc \in Ins /\ phase = "update" /\ pc \in Nat
      /\ off \in [Nodes -> Nat] /\ Ins \subseteq Nodes
  BY AtType, IndexType, FieldType DEF Update, BlockFacts, TypeInv, TypeOK
<1> PICK p \in Ins : p = pc
  BY <1>1
<1> DEFINE f == following[p]
<1> PICK e \in Int : /\ off' = [off EXCEPT ![f] = e]
                     /\ off[f] <= e
                     /\ Asks(p) => e = ExtentFrom(off, p)
  BY UpdateExact
<1>2. /\ Chained(p) /\ (prog[p].op # "org" => Asks(p))
      /\ off' = [off EXCEPT ![f] = e] /\ off[f] <= e
  BY UpdateExact
<1>3. f \in Nodes /\ p < f /\ f \in Nat /\ p \in Nat /\ sec[p] \in Sections
      /\ InSection(p, sec[p]) /\ e \in Int
  <2>1. f \in Nodes /\ p < f /\ sec[p] \in Sections /\ InSection(p, sec[p])
    <3>1. following[p] # 0
      BY <1>2 DEF Chained
    <3> QED BY <1>1, <3>1, FieldType
            DEF BlockFacts, ChainInv, LinksForward, StreamInv, LinksWithin
  <2> QED BY <1>1, <2>1, IndexType
<1>4. UNCHANGED <<prog, term, sec, following, size, count>> /\ pc' = p + 1
  BY DEF Update, chainVars
<1>5. /\ Ins' = Ins /\ Nodes' = Nodes
      /\ \A i \in Ins : (Chained(i)' <=> Chained(i)) /\ (Asks(i)' <=> Asks(i))
      /\ \A t, b \in Ins : Held(t, b)' <=> Held(t, b)
  BY <1>4, BlockFrame
<1> HIDE DEF f
<1>6. off'[f] = e /\ \A n \in Nodes : n # f => off'[n] = off[n]
  BY <1>1, <1>2, <1>3
<1>7. \A i \in Ins : Chained(i) /\ i # p => following[i] # f
  BY DEF BlockFacts, ChainInv, LinksApart, Chained, f
<1>8. ASSUME NEW i \in Ins, Asks(i), i <= p
      PROVE  ExtentFrom(off', i) = ExtentFrom(off, i)
  <2>1. /\ i \in Nat /\ i \in Nodes
        /\ Closing(i) => term[i] \in Nodes /\ term[i] \in Nat /\ term[i] < i
    BY <1>8, AskType
  <2>2. off'[i] = off[i]
    BY <1>3, <1>6, <1>8, <2>1
  <2>3. Closing(i) => off'[term[i]] = off[term[i]]
    BY <1>3, <1>6, <1>8, <2>1
  <2> QED BY <2>2, <2>3 DEF ExtentFrom, Closing
<1>9. \A n \in Nodes : old[n] <= off'[n]
  <2> SUFFICES ASSUME NEW n \in Nodes PROVE old[n] <= off'[n]
    OBVIOUS
  <2>1. old[n] <= off[n] /\ old[n] \in Nat /\ off[n] \in Nat
    BY <1>1 DEF Sweep
  <2> QED BY <1>2, <1>3, <1>6, <2>1
<1>10. \A i \in Ins : Asks(i) => old[following[i]] <= ExtentFrom(old, i)'
  BY <1>4 DEF Sweep, ExtentFrom
<1>11. \A i \in Ins : Chained(i) /\ p + 1 <= i => off'[following[i]] = old[following[i]]
  <2> SUFFICES ASSUME NEW i \in Ins, Chained(i), p + 1 <= i
               PROVE  off'[following[i]] = old[following[i]]
    OBVIOUS
  <2>1. i \in Nat /\ following[i] \in Nodes
    BY <1>1, FieldType DEF Chained
  <2>2. following[i] # f /\ pc <= i
    BY <1>3, <1>7, <2>1
  <2> QED BY <1>6, <2>1, <2>2 DEF Sweep
<1>12. ASSUME NEW i \in Ins, Asks(i), i < p + 1
       PROVE  off'[following[i]] <= ExtentFrom(off', i)
  <2>1. i \in Nat /\ following[i] \in Nodes
    BY <1>12, AskType
  <2>2. ExtentFrom(off', i) = ExtentFrom(off, i)
    <3>1. i <= p
      BY <1>3, <1>12, <2>1
    <3> QED BY <1>8, <1>12, <3>1
  <2>3. CASE i = p
    <3>1. off'[following[i]] = e
      BY <1>6, <2>3 DEF f
    <3>2. e = ExtentFrom(off, i)
      BY <1>12, <2>3
    <3> QED BY <1>3, <2>2, <3>1, <3>2
  <2>4. CASE i # p
    <3>1. i < pc
      BY <1>3, <1>12, <2>1, <2>4
    <3>2. off[following[i]] <= ExtentFrom(off, i)
      BY <1>12, <3>1 DEF Sweep
    <3>3. following[i] # f
      BY <1>7, <1>12, <2>4 DEF Asks
    <3> QED BY <1>6, <2>1, <2>2, <3>2, <3>3
  <2> QED BY <2>3, <2>4
<1>13. ASSUME NEW t \in Ins, NEW b \in Ins, Held(t, b),
              \A j \in Ins : InSection(j, sec[b]) /\ j < b => j < p + 1
       PROVE  off'[b] - off'[t] >= old[b] - old[t]
  <2>1. /\ t \in Nat /\ b \in Nat /\ t \in Nodes /\ b \in Nodes /\ off[t] \in Nat
        /\ off[b] \in Nat /\ old[t] \in Nat /\ old[b] \in Nat
    BY <1>1, FieldType
  <2>2. /\ sec[b] = sec[t] /\ sec[t] \in Sections /\ t <= b /\ b <= term[t]
        /\ InSection(t, sec[b]) /\ InSection(b, sec[b])
    BY <1>13 DEF Held, InSection, Opens
  <2>3. CASE t = b
    <3>1. off'[t] \in Int
      BY <1>3, <1>6, <2>1
    <3> QED BY <2>1, <2>3, <3>1
  <2>4. CASE t < b
    <3>1. t <= p
      BY <1>3, <1>13, <2>1, <2>2, <2>4
    <3>2. off'[t] = off[t]
      BY <1>3, <1>6, <2>1, <3>1
    <3>3. CASE b = f
      <4>1. NextIn(p, sec[p])
        <5>1. \/ NextIn(p, sec[p]) \/ f = EndOf(sec[p])
          BY <1>1, <1>3 DEF BlockFacts, StreamInv, StreamLinked, f
        <5>2. f # EndOf(sec[p])
          <6>1. f <= Len(prog) /\ Len(prog) \in Nat /\ sec[p] \in Nat \ {0}
            BY <1>1, <1>3, <3>3, StreamType
          <6> QED BY <1>3, <6>1 DEF EndOf
        <5> QED BY <5>1, <5>2
      <4>2. sec[p] = sec[b]
        BY <3>3, <4>1 DEF NextIn, InSection, f
      <4>3. Held(t, p) /\ p # term[t]
        <5>1. term[t] \in Nat
          BY <1>1, <2>1, StreamType DEF TypeOK
        <5>2. p < term[t]
          BY <1>3, <2>1, <2>2, <3>3, <5>1
        <5> QED BY <1>3, <1>13, <2>2, <3>1, <4>2, <5>1, <5>2 DEF Held
      <4>4. Asks(p)
        <5>1. InBlock(p, t) \/ p = t
          BY <1>3, <2>1, <4>3 DEF InBlock, Held, InSection
        <5>2. prog[p].op # "org"
          BY <5>1, <1>13 DEF Regular, Rigid, Held, Opens
        <5> QED BY <1>2, <5>2
      <4>5. ExtentFrom(old, p) - old[t] <= e - off[t]
        BY <1>1, <4>3, <4>4, ExtentSpreads
      <4>6. old[b] <= ExtentFrom(old, p) /\ ExtentFrom(old, p) \in Int
        BY <1>1, <3>3, <4>4, ExtentType DEF Sweep, f
      <4>7. off'[b] = e
        BY <1>6, <3>3
      <4> QED BY <1>3, <2>1, <3>2, <4>5, <4>6, <4>7
    <3>4. CASE b # f
      <4>1. ~(InSection(p, sec[b]) /\ p < b)
        <5> SUFFICES ASSUME InSection(p, sec[b]), p < b PROVE FALSE
          OBVIOUS
        <5>1. \/ NextIn(p, sec[b])
              \/ \A j \in Ins : InSection(j, sec[b]) => j <= p
          BY <1>1, <2>2 DEF BlockFacts, StreamInv, StreamLinked
        <5>2. NextIn(p, sec[b])
          BY <1>3, <2>1, <2>2, <5>1
        <5>3. f \in Ins /\ InSection(f, sec[b]) /\ f <= b
          BY <2>2, <5>2 DEF NextIn, f
        <5> QED BY <1>3, <1>13, <2>1, <3>4, <5>3
      <4>2. Reached(b)
        <5> SUFFICES ASSUME NEW j \in Ins, InSection(j, sec[b]), j < b PROVE j < pc
          BY DEF Reached
        <5>1. j < p + 1 /\ j # p /\ j \in Nat
          BY <1>1, <1>13, <4>1, FieldType
        <5> QED BY <1>3, <5>1
      <4>3. off[b] - off[t] >= old[b] - old[t]
        BY <1>13, <4>2 DEF Sweep, Spread
      <4> QED BY <1>6, <2>1, <3>2, <3>4, <4>3
    <3> QED BY <3>3, <3>4
  <2> QED BY <2>1, <2>2, <2>3, <2>4
<1>14. Spread(old)'
  <2> SUFFICES ASSUME NEW t \in Ins, NEW b \in Ins, Held(t, b), Reached(b)'
               PROVE  off'[b] - off'[t] >= old[b] - old[t]
    BY <1>5 DEF Spread
  <2>1. \A j \in Ins : InSection(j, sec[b]) /\ j < b => j < p + 1
    BY <1>4, <1>5 DEF Reached, InSection
  <2> QED BY <1>13, <2>1
<1>15. \A i \in Ins : Asks(i) /\ i < p + 1 => off'[following[i]] <= ExtentFrom(off, i)'
  BY <1>4, <1>12 DEF ExtentFrom
<1> QED BY <1>4, <1>5, <1>9, <1>10, <1>11, <1>14, <1>15 DEF Sweep

(* An instruction in no chain.                                             *)
LEMMA SweepUnchained ==
  ASSUME BlockFacts, Regular, UpdateUnchained, NEW old \in [Nodes -> Nat], Sweep(old)
  PROVE  Sweep(old)'
<1>1. /\ TypeOK /\ pc \in Ins /\ phase = "update" /\ following[pc] = 0
      /\ \A i \in Ins : i \in Nat
  BY AtType, StreamType DEF UpdateUnchained, BlockFacts, TypeInv
<1>2. UNCHANGED <<prog, term, sec, following, off, size, count>> /\ pc' = pc + 1
  BY DEF UpdateUnchained, chainVars
<1>3. /\ Ins' = Ins /\ Nodes' = Nodes
      /\ \A i \in Ins : (Chained(i)' <=> Chained(i)) /\ (Asks(i)' <=> Asks(i))
      /\ \A t, b \in Ins : Held(t, b)' <=> Held(t, b)
  BY <1>2, BlockFrame
<1>4. \A i \in Ins : Chained(i) /\ pc + 1 <= i => off[following[i]] = old[following[i]]
  <2>1. \A i \in Ins : pc + 1 <= i => pc <= i
    BY <1>1
  <2> QED BY <2>1 DEF Sweep
<1>5. \A i \in Ins : Asks(i) /\ i < pc + 1 => off[following[i]] <= ExtentFrom(off, i)
  <2>1. \A i \in Ins : i < pc + 1 => i < pc \/ i = pc
    BY <1>1
  <2>2. ~Asks(pc)
    BY <1>1 DEF Asks, Chained
  <2> QED BY <2>1, <2>2 DEF Sweep
<1>6. \A i \in Ins, o \in {old, off} : ExtentFrom(o, i)' = ExtentFrom(o', i)
  BY <1>2 DEF ExtentFrom
<1>7. Spread(old)'
  <2> SUFFICES ASSUME NEW t \in Ins, NEW b \in Ins, Held(t, b), Reached(b)'
               PROVE  off[b] - off[t] >= old[b] - old[t]
    BY <1>2, <1>3 DEF Spread
  <2>1. ~InSection(pc, sec[b])
    <3>1. sec[b] \in Sections
      BY DEF Held, InSection
    <3>2. EndOf(sec[b]) # 0
      BY <1>1, <3>1, StreamType DEF EndOf
    <3> QED BY <1>1, <3>1, <3>2 DEF BlockFacts, StreamInv, StreamLinked, NextIn
  <2>2. Reached(b)
    <3> SUFFICES ASSUME NEW j \in Ins, InSection(j, sec[b]), j < b PROVE j < pc
      BY DEF Reached
    <3>1. j < pc + 1
      BY <1>2, <1>3 DEF Reached, InSection
    <3>2. j # pc
      BY <2>1
    <3> QED BY <1>1, <3>1, <3>2
  <2> QED BY <2>2 DEF Sweep, Spread
<1> QED BY <1>2, <1>3, <1>4, <1>5, <1>7 DEF Sweep, ExtentFrom

NodesTyped == \A i \in Ins : i \in Nat /\ i > 0 /\ i \in Nodes

LEMMA NodeType == TypeOK => NodesTyped
BY FieldType DEF NodesTyped

(* A pass begins with the offsets it is compared with.                     *)
LEMMA SweepBegins ==
  ASSUME TypeOK', phase' = "update", pc' = 1,
         \A i \in Ins' : Asks(i)' => off'[following'[i]] <= ExtentFrom(off, i)'
  PROVE  \E old \in [Nodes -> Nat]' : Sweep(old)'
<1>1. off' \in [Nodes -> Nat]'
  BY DEF TypeOK
<1> PICK old \in [Nodes -> Nat]' : old = off'
  BY <1>1
<1>2. \A n \in Nodes' : off'[n] \in Nat
  BY <1>1
<1>3. \A i \in Ins' : i \in Nat /\ i > 0 /\ i \in Nodes'
  <2>1. TypeOK' => NodesTyped'
    BY NodeType, PTL
  <2> QED BY <2>1 DEF NodesTyped
<1>4. \A i \in Ins' : ExtentFrom(old, i)' = ExtentFrom(off, i)'
  BY DEF ExtentFrom
<1>5. \A n \in Nodes' : old[n] <= off'[n]
  BY <1>2
<1>6. Spread(old)'
  <2> SUFFICES ASSUME NEW t \in Ins', NEW b \in Ins'
               PROVE  off'[b] - off'[t] >= old[b] - old[t]
    BY DEF Spread
  <2>1. off'[b] \in Nat /\ off'[t] \in Nat
    BY <1>2, <1>3
  <2> QED BY <2>1
<1>7. \A i \in Ins' : Asks(i)' => old[following'[i]] <= ExtentFrom(old, i)'
  BY <1>4
<1>8. \A i \in Ins' : ~(i < 1)
  BY <1>3
<1>9. Sweep(old)'
  BY <1>5, <1>6, <1>7, <1>8 DEF Sweep
<1> QED BY <1>9

(* What an instruction of a regular program asks for is a number.          *)
AskTyped ==
  \A i \in Ins : Asks(i) =>
    /\ following[i] \in Nodes /\ i \in Nodes /\ size[i] \in Int
    /\ ~Closing(i) => Rigid(i)
    /\ Closing(i) => term[i] \in Nodes /\ count[term[i]] \in Nat

LEMMA AskFacts == BlockFacts /\ Regular /\ phase = "update" => AskTyped
<1> SUFFICES ASSUME BlockFacts, Regular, phase = "update", NEW i \in Ins, Asks(i)
             PROVE  /\ following[i] \in Nodes /\ i \in Nodes /\ size[i] \in Int
                    /\ ~Closing(i) => Rigid(i)
                    /\ Closing(i) => term[i] \in Nodes /\ count[term[i]] \in Nat
  BY DEF AskTyped
<1>1. /\ following[i] \in Nodes /\ i \in Nodes /\ size[i] \in Int
      /\ ~Closing(i) => Rigid(i)
      /\ Closing(i) => /\ term[i] \in Ins /\ term[i] \in Nodes
                       /\ Opens(term[i]) /\ term[term[i]] # 0
  BY AskType DEF Held
<1> QED BY <1>1, CountType

(* Lengths only grow in a compile pass, and the counts of blocks stay.     *)
LEMMA BlockCompile ==
  ASSUME BlockFacts, BlockFacts', BlockInv, Compile
  PROVE  BlockInv'
<1>1. /\ TypeOK /\ pc \in Ins /\ phase = "compile" /\ phase' = "compile"
      /\ off \in [Nodes -> Nat] /\ size \in [Ins -> Int]
  BY AtType DEF Compile, BlockFacts, TypeInv, TypeOK
<1>2. UNCHANGED <<prog, term, sec, following, off>>
  BY DEF Compile, chainVars
<1>3. /\ Ins' = Ins
      /\ \A i \in Ins : (Asks(i)' <=> Asks(i)) /\ (Opens(i)' <=> Opens(i))
                        /\ (Rigid(i)' <=> Rigid(i))
  BY <1>2, BlockFrame
<1> SUFFICES ASSUME Regular'
             PROVE  \A i \in Ins : Asks(i) => off[following[i]] <= ExtentFrom(off, i)'
  BY <1>1, <1>2, <1>3 DEF BlockInv
<1>10. ASSUME NEW t \in Ins, Opens(t), term[t] # 0
       PROVE  count'[t] = count[t] /\ count'[t] >= 0
                /\ (prog[t].op = "fill" => IsConst(prog[t].arg))
  <2>1. count'[t] >= 0 /\ (prog[t].op = "fill" => IsConst(prog[t].arg))
    BY <1>2, <1>3, <1>10 DEF Regular
  <2>2. CASE prog[t].op = "fill"
    <3>1. count[t] = prog[t].arg.add
      BY <1>1, <1>10, <2>1, <2>2 DEF BlockFacts, CountInv
    <3>2. count'[t] = prog[t].arg.add
      BY <1>1, <1>2, <1>3, <1>10, <2>1, <2>2 DEF BlockFacts, CountInv
    <3> QED BY <2>1, <3>1, <3>2
  <2>3. CASE prog[t].op # "fill"
    <3>1. count' = count \/ \E v : prog[pc].op = "fill" /\ count' = [count EXCEPT ![pc] = v]
      BY DEF Compile
    <3>2. count \in [Ins -> Int]
      BY <1>1 DEF TypeOK
    <3> QED BY <2>1, <2>3, <3>1, <3>2
  <2> QED BY <2>2, <2>3
<1>11. Regular
  <2>1. BlocksWithin /\ \A j, t \in Ins : InBlock(j, t)' <=> InBlock(j, t)
    BY <1>2, <1>3 DEF Regular, BlocksWithin, InBlock
  <2> QED BY <1>2, <1>3, <1>10, <2>1 DEF Regular
<1> SUFFICES ASSUME NEW i \in Ins, Asks(i)
             PROVE  off[following[i]] <= ExtentFrom(off, i)'
  OBVIOUS
<1>4. /\ off[following[i]] <= ExtentFrom(off, i)
      /\ off[following[i]] \in Nat /\ off[i] \in Nat /\ ExtentFrom(off, i) \in Int
  <2>1. off[following[i]] <= ExtentFrom(off, i)
    BY <1>1, <1>11 DEF BlockInv
  <2>2. following[i] \in Nodes /\ i \in Nodes
    BY <1>11, AskType
  <2>3. ExtentFrom(off, i) \in Int
    BY <1>1, <1>11, ExtentType
  <2> QED BY <1>1, <2>1, <2>2, <2>3
<1>5. CASE Closing(i)
  <2>1. term[i] \in Ins /\ Opens(term[i]) /\ term[term[i]] # 0
    BY <1>5, <1>11, AskType DEF Held
  <2>2. count'[term[i]] = count[term[i]]
    BY <1>10, <2>1
  <2>3. ExtentFrom(off, i)' = ExtentFrom(off, i)
    BY <1>2, <1>5, <2>2 DEF ExtentFrom, Closing
  <2> QED BY <1>4, <2>3
<1>6. CASE ~Closing(i)
  <2>1. Rigid(i) /\ size[i] \in Int
    BY <1>6, <1>11, AskType
  <2>2. 0 <= size[i] /\ size[i] <= Cap(i)
    BY <2>1 DEF BlockFacts, GapInv, Bounded
  <2>3. size'[i] = size[i] \/ \E c, n : size'[i] = GetLength(i, FALSE, c, n)
    BY <1>1 DEF Compile
  <2>4. ASSUME NEW c, NEW n
        PROVE  size[i] <= GetLength(i, FALSE, c, n)
    BY <1>1, <2>1, <2>2, RigidGrows
  <2>5. size'[i] \in Int
    BY <1>3 DEF BlockFacts, TypeInv, TypeOK
  <2>6. size[i] <= size'[i]
    <3>1. CASE size'[i] = size[i]
      BY <2>1, <3>1
    <3>2. CASE \E c, n : size'[i] = GetLength(i, FALSE, c, n)
      <4> PICK c, n : size'[i] = GetLength(i, FALSE, c, n)
        BY <3>2
      <4>1. size[i] <= GetLength(i, FALSE, c, n)
        BY <2>4
      <4> QED BY <4>1
    <3> QED BY <2>3, <3>1, <3>2
  <2>7. /\ ExtentFrom(off, i) = off[i] + size[i]
        /\ ExtentFrom(off, i)' = off[i] + size'[i]
    BY <1>2, <1>6 DEF ExtentFrom, Closing
  <2> QED BY <1>4, <2>1, <2>5, <2>6, <2>7
<1> QED BY <1>5, <1>6

(* The first pass begins with all offsets 0, any other with those that the *)
(* compile pass before it was given.                                       *)
LEMMA BlockBegins ==
  ASSUME BlockFacts, BlockFacts', BlockInv, EndPrecompile \/ EndCompile
  PROVE  BlockInv'
<1>1. /\ phase' = "update" /\ pc' = 1 /\ UNCHANGED <<prog, term, sec, off, size, count>>
      /\ Ins' = Ins /\ Nodes' = Nodes
  BY SameIndices DEF EndPrecompile, EndCompile, chainVars
<1> SUFFICES ASSUME Regular'
             PROVE  \A i \in Ins' : Asks(i)' => off'[following'[i]] <= ExtentFrom(off, i)'
  BY <1>1, SweepBegins DEF BlockInv, BlockFacts, TypeInv
<1>2. CASE EndCompile
  <2>1. UNCHANGED following /\ phase = "compile"
    BY <1>2 DEF EndCompile, chainVars
  <2>2. Regular /\ \A i \in Ins : Asks(i)' <=> Asks(i)
    BY <1>1, <2>1, BlockFrame
  <2> QED BY <1>1, <2>1, <2>2 DEF BlockInv, ExtentFrom
<1>3. CASE EndPrecompile
  <2> SUFFICES ASSUME NEW i \in Ins, Asks(i)'
               PROVE  off[following'[i]] <= ExtentFrom(off, i)'
    BY <1>1
  <2>1. \A n \in Nodes : off[n] = 0
    BY <1>3 DEF EndPrecompile, BlockFacts, GapInv, Unmoved
  <2>2. AskTyped'
    <3>1. BlockFacts' /\ Regular' /\ (phase = "update")' => AskTyped'
      BY AskFacts, PTL
    <3> QED BY <1>1, <3>1
  <2>3. /\ off[following'[i]] = 0 /\ off[i] = 0 /\ size[i] \in Int
        /\ ~Closing(i) => Rigid(i)'
        /\ Closing(i) => off[term[i]] = 0 /\ count[term[i]] \in Nat
    BY <1>1, <2>1, <2>2 DEF AskTyped, Closing
  <2>4. CASE Closing(i)
    <3> DEFINE n == count[term[i]]
    <3>1. ExtentFrom(off, i)' \in {0 + (0 - 0) * n, 0 + n}
      BY <1>1, <2>3, <2>4 DEF ExtentFrom, Closing
    <3>2. n \in Nat
      BY <2>3, <2>4
    <3> HIDE DEF n
    <3> QED BY <2>3, <3>1, <3>2
  <2>5. CASE ~Closing(i)
    <3>1. 0 <= size[i]
      BY <1>1, <2>3, <2>5 DEF BlockFacts, GapInv, Bounded
    <3>2. ExtentFrom(off, i)' = 0 + size[i]
      BY <1>1, <2>3, <2>5 DEF ExtentFrom, Closing
    <3> QED BY <2>3, <3>1, <3>2
  <2> QED BY <2>4, <2>5
<1> QED BY <1>2, <1>3

LEMMA BlockUpdate ==
  ASSUME BlockFacts, BlockInv, Update \/ UpdateUnchained
  PROVE  BlockInv'
<1>1. /\ phase = "update" /\ phase' = "update"
      /\ UNCHANGED <<prog, term, sec, following, count>>
  BY DEF Update, UpdateUnchained, At, chainVars
<1>2. Nodes' = Nodes /\ (Regular' <=> Regular)
  BY <1>1, BlockFrame
<1> SUFFICES ASSUME Regular PROVE \E old \in [Nodes -> Nat] : Sweep(old)'
  BY <1>1, <1>2 DEF BlockInv
<1> PICK old \in [Nodes -> Nat] : Sweep(old)
  BY <1>1 DEF BlockInv
<1>3. Sweep(old)'
  BY SweepUpdate, SweepUnchained
<1> QED BY <1>3

(* At the end of a pass every instruction has been visited.                *)
LEMMA BlockEnds ==
  ASSUME BlockFacts, BlockInv, EndUpdate
  PROVE  BlockInv'
<1>1. /\ phase = "update" /\ phase' \in {"compile", "done"} /\ pc = Len(prog) + 1
      /\ UNCHANGED <<prog, term, sec, following, off, size, count>>
  BY DEF EndUpdate, chainVars
<1>2. Ins' = Ins /\ (Regular' <=> Regular) /\ \A i \in Ins : Asks(i)' <=> Asks(i)
  BY <1>1, BlockFrame
<1>3. \A i \in Ins : i < pc
  BY <1>1, StreamType DEF BlockFacts, TypeInv
<1> SUFFICES ASSUME Regular, NEW i \in Ins, Asks(i)
             PROVE  off[following[i]] <= ExtentFrom(off, i)
  BY <1>1, <1>2 DEF BlockInv, ExtentFrom
<1> QED BY <1>1, <1>3 DEF BlockInv, Sweep

LEMMA BlockKept ==
  ASSUME BlockFacts, BlockInv, [Next]_vars,
         ~(EndPrecompile \/ Update \/ UpdateUnchained \/ EndUpdate \/ Compile \/ EndCompile)
  PROVE  BlockInv'
<1>1. \/ phase' \notin {"update", "compile", "done"}
      \/ UNCHANGED vars
  BY DEF Next, Pass, Parse, EndParse, Group, EndGroup, Precompile, Wrap, Stop, Finished,
         At
<1>2. CASE phase' \notin {"update", "compile", "done"}
  BY <1>2 DEF BlockInv
<1>3. CASE UNCHANGED vars
  <2>1. UNCHANGED <<prog, phase, pc, term, sec, following, off, size, count>>
    BY <1>3 DEF vars, chainVars
  <2>2. /\ Ins' = Ins /\ Nodes' = Nodes /\ (Regular' <=> Regular)
        /\ \A i \in Ins : (Asks(i)' <=> Asks(i)) /\ (Chained(i)' <=> Chained(i))
        /\ \A t, b \in Ins : Held(t, b)' <=> Held(t, b)
    BY <2>1, BlockFrame
  <2>3. \A old : Sweep(old) => Sweep(old)'
    BY <2>1, <2>2 DEF Sweep, Spread, Reached, InSection, ExtentFrom
  <2> QED BY <2>1, <2>2, <2>3 DEF BlockInv, ExtentFrom
<1> QED BY <1>1, <1>2, <1>3

LEMMA BlockStep == BlockFacts /\ BlockFacts' /\ BlockInv /\ [Next]_vars => BlockInv'
BY BlockCompile, BlockBegins, BlockUpdate, BlockEnds, BlockKept

LEMMA BlockInit == Init => BlockInv
BY DEF Init, BlockInv

LEMMA BlockCloses == BlockFacts /\ RoomInv /\ BlockInv => BlocksExact
<1> SUFFICES ASSUME BlockFacts, RoomInv, BlockInv, phase = "done", Regular,
                    NEW i \in Ins, Chained(i), term[i] # 0
             PROVE  off[following[i]] = Extent(i)
  BY DEF BlocksExact
<1>1. Asks(i)
  BY DEF Asks, BlockFacts, GroupInv, Paired, Closes, Opens
<1>2. Extent(i) = ExtentFrom(off, i)
  BY DEF Extent, ExtentFrom
<1>3. off[following[i]] \in Nat /\ ExtentFrom(off, i) \in Int
  <2>1. off \in [Nodes -> Nat] /\ following[i] \in Nodes
    BY <1>1, AskType DEF BlockFacts, TypeInv, TypeOK
  <2> QED BY <1>1, <2>1, ExtentType
<1>4. off[following[i]] <= ExtentFrom(off, i)
  BY <1>1 DEF BlockInv
<1>5. off[following[i]] >= Extent(i)
  BY <1>1 DEF RoomInv, HasRoom, Asks
<1> QED BY <1>2, <1>3, <1>4, <1>5

(* In every regular program, whose instructions cannot come to ask for     *)
(* less and whose blocks are constant, each within one section, with an .org *)
(* at most outside them: what follows a block starts exactly after its     *)
(* copies, or after the length it is filled to, nested blocks included.    *)
(* Raising offsets never makes more room than that (asm.c:826-846).        *)
THEOREM BlocksForAll == Spec => []BlocksExact
<1>1. Spec => []BlockFacts
  <2>1. BlockFacts <=> TypeInv /\ ChainInv /\ GapInv /\ GroupInv /\ StreamInv /\ CountInv
    BY DEF BlockFacts
  <2> QED BY <2>1, TypeInvariant, ChainInit, ChainStep, GapInit, GapStep, GroupCorrect,
             StreamCorrect, CountInit, CountStep, PTL DEF Spec
<1> QED BY <1>1, BlockCloses, BlockInit, BlockStep, RoomCorrect, PTL DEF Spec
=============================================================================
