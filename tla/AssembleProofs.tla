--------------------------- MODULE AssembleProofs ---------------------------
(***************************************************************************)
(* Generation keeps step with the layout.  While a chain is walked, the    *)
(* output stands where Layout put the instruction, moved by the copies of  *)
(* the blocks around it, and the limit of a .fill is in force exactly      *)
(* inside its block, for every program, target and choice of formats.      *)
(*                                                                         *)
(*   LayInv    what the passes guarantee, until they hand over;            *)
(*   Laid      what is left of it in the walk, which changes none of it;   *)
(*   WalkInv   the walk is in its section;                                 *)
(*   LimitInv  the limit is that of the block the walk is in;              *)
(*   StepInv   counters, limit and location add up to the layout;          *)
(*   PrintInv  the first byte of an instruction is where the layout has    *)
(*             it, and what is repeated has been put out before.           *)
(***************************************************************************)
EXTENDS Assemble, LayoutProofs, WellFoundedInduction, SequenceTheorems
-----------------------------------------------------------------------------
(***************************************************************************)
(* Sums.                                                                   *)
(***************************************************************************)
(* Induction, for a set of numbers in place of a predicate.                *)
LEMMA SetInduction ==
  ASSUME NEW S, 0 \in S, \A n \in Nat : n \in S => n + 1 \in S
  PROVE  Nat \subseteq S
<1> DEFINE T == Nat \ S
           R == OpToRel(<, Nat)
<1> SUFFICES ASSUME T # {} PROVE FALSE
  OBVIOUS
<1>1. IsWellFoundedOn(R, Nat) /\ T \subseteq Nat
  BY NatLessThanWellFounded
<1>2. \A x, y \in Nat : x < y => <<x, y>> \in R
  BY DEF OpToRel
<1>3. PICK x \in T : \A y \in T : <<y, x>> \notin R
  <2> HIDE DEF R, T
  <2> QED BY <1>1, WFMin
<1>4. x # 0 /\ x \in Nat
  BY <1>3
<1> HIDE DEF R
<1>5. x - 1 \in Nat /\ x - 1 < x /\ x = (x - 1) + 1
  BY <1>4
<1>6. x - 1 \in S
  BY <1>2, <1>3, <1>4, <1>5
<1> QED BY <1>3, <1>5, <1>6

(* The partial sums g of the first n values of f.                          *)
IsSum(g, f, n) == g = [k \in 0 .. n |-> IF k = 0 THEN 0 ELSE g[k - 1] + f[k]]

LEMMA SumMeans ==
  ASSUME NEW g, NEW f, NEW n \in Nat, IsSum(g, f, n)
  PROVE  g[0] = 0 /\ \A k \in 1 .. n : g[k] = g[k - 1] + f[k]
<1>1. 0 \in 0 .. n /\ \A k \in 1 .. n : k \in 0 .. n /\ k # 0
  OBVIOUS
<1> QED BY <1>1 DEF IsSum

LEMMA SumExists ==
  ASSUME NEW f, NEW n \in Nat
  PROVE  \E g : IsSum(g, f, n)
<1> DEFINE S == {k \in Nat : \E g : IsSum(g, f, k)}
<1>1. 0 \in S
  <2> DEFINE g == [k \in 0 .. 0 |-> 0]
  <2>1. IsSum(g, f, 0)
    BY DEF IsSum
  <2> QED BY <2>1
<1>2. \A m \in Nat : m \in S => m + 1 \in S
  <2> SUFFICES ASSUME NEW m \in Nat, NEW g, IsSum(g, f, m)
               PROVE  \E h : IsSum(h, f, m + 1)
    OBVIOUS
  <2> DEFINE h == [k \in 0 .. m + 1 |-> IF k = m + 1 THEN g[m] + f[m + 1] ELSE g[k]]
  <2>1. g[0] = 0 /\ \A k \in 1 .. m : g[k] = g[k - 1] + f[k]
    BY SumMeans
  <2>2. (\A k \in 0 .. m : h[k] = g[k]) /\ h[m + 1] = g[m] + f[m + 1]
    OBVIOUS
  <2>3. h = [k \in 0 .. m + 1 |-> h[k]]
    OBVIOUS
  <2> HIDE DEF h
  <2>4. \A k \in 0 .. m + 1 : h[k] = IF k = 0 THEN 0 ELSE h[k - 1] + f[k]
    <3> TAKE k \in 0 .. m + 1
    <3>1. CASE k = 0
      BY <2>1, <2>2, <3>1
    <3>2. CASE k \in 1 .. m
      <4>1. k \in 0 .. m /\ k - 1 \in 0 .. m /\ k # 0
        BY <3>2
      <4> QED BY <2>1, <2>2, <3>2, <4>1
    <3>3. CASE k = m + 1
      <4>1. k - 1 = m /\ m \in 0 .. m /\ k # 0
        BY <3>3
      <4> QED BY <2>2, <3>3, <4>1
    <3> QED BY <3>1, <3>2, <3>3
  <2>5. IsSum(h, f, m + 1)
    BY <2>3, <2>4 DEF IsSum
  <2> QED BY <2>5
<1> HIDE DEF S
<1>3. n \in S
  BY <1>1, <1>2, SetInduction
<1> QED BY <1>3 DEF S

(* Two functions that agree but at u.                                      *)
AlikeBut(f, g, n, u) == \A k \in 1 .. n : k # u => f[k] = g[k]

LEMMA SumsDiffer ==
  ASSUME NEW n \in Nat, NEW f \in [1 .. n -> Int], NEW g \in [1 .. n -> Int],
         NEW u \in 1 .. n, AlikeBut(f, g, n, u),
         NEW a, NEW b, IsSum(a, f, n), IsSum(b, g, n)
  PROVE  a[n] \in Int /\ b[n] \in Int /\ b[n] = a[n] - f[u] + g[u]
<1> DEFINE Good(k) == /\ a[k] \in Int /\ b[k] \in Int
                      /\ k < u => b[k] = a[k]
                      /\ u <= k => b[k] = a[k] - f[u] + g[u]
           S == {k \in Nat : k <= n => Good(k)}
<1>1. /\ a[0] = 0 /\ b[0] = 0
      /\ \A k \in 1 .. n : a[k] = a[k - 1] + f[k] /\ b[k] = b[k - 1] + g[k]
  <2>1. a[0] = 0 /\ \A k \in 1 .. n : a[k] = a[k - 1] + f[k]
    BY SumMeans
  <2>2. b[0] = 0 /\ \A k \in 1 .. n : b[k] = b[k - 1] + g[k]
    BY SumMeans
  <2> QED BY <2>1, <2>2
<1>2. 0 \in S
  BY <1>1
<1>3. \A m \in Nat : m \in S => m + 1 \in S
  <2> SUFFICES ASSUME NEW m \in Nat, m \in S, NEW k \in Nat, k = m + 1, k <= n
               PROVE  Good(k)
    OBVIOUS
  <2>1. Good(m)
    OBVIOUS
  <2>2. /\ k \in 1 .. n /\ a[k] = a[m] + f[k] /\ b[k] = b[m] + g[k]
        /\ f[k] \in Int /\ g[k] \in Int /\ f[u] \in Int /\ g[u] \in Int
    <3>1. k \in 1 .. n /\ k - 1 = m
      OBVIOUS
    <3> QED BY <1>1, <3>1
  <2>3. CASE k < u
    <3>1. f[k] = g[k] /\ m < u /\ ~(u <= k)
      BY <2>2, <2>3 DEF AlikeBut
    <3> QED BY <2>1, <2>2, <3>1
  <2>4. CASE k = u
    <3>1. m < u /\ ~(k < u)
      BY <2>4
    <3>2. a[k] = a[m] + f[u] /\ b[k] = a[m] + g[u] /\ a[m] \in Int
      BY <2>1, <2>2, <2>4, <3>1
    <3> QED BY <2>2, <3>1, <3>2
  <2>5. CASE u < k
    <3>1. f[k] = g[k] /\ u <= m /\ ~(k < u)
      BY <2>2, <2>5 DEF AlikeBut
    <3> QED BY <2>1, <2>2, <3>1
  <2> QED BY <2>2, <2>3, <2>4, <2>5
<1>4. n \in S
  <2> HIDE DEF S
  <2> QED BY <1>2, <1>3, SetInduction
<1> QED BY <1>4

LEMMA SumIs ==
  ASSUME NEW f, NEW n \in Nat
  PROVE  \E g : IsSum(g, f, n) /\ SumUpTo(f, n) = g[n]
<1> DEFINE g == CHOOSE h : IsSum(h, f, n)
<1>1. IsSum(g, f, n)
  BY SumExists
<1>2. SumUpTo(f, n) = g[n]
  BY DEF SumUpTo, IsSum
<1> HIDE DEF g
<1> QED BY <1>1, <1>2

(* One value more or less changes a sum by that much.                      *)
LEMMA SumChange ==
  ASSUME NEW n \in Nat, NEW f \in [1 .. n -> Int], NEW g \in [1 .. n -> Int],
         NEW u \in 1 .. n, AlikeBut(f, g, n, u)
  PROVE  SumUpTo(g, n) = SumUpTo(f, n) - f[u] + g[u]
<1> PICK a : IsSum(a, f, n) /\ SumUpTo(f, n) = a[n]
  BY SumIs
<1> PICK b : IsSum(b, g, n) /\ SumUpTo(g, n) = b[n]
  BY SumIs
<1>1. a[n] \in Int /\ b[n] \in Int /\ b[n] = a[n] - f[u] + g[u]
  BY SumsDiffer
<1> QED BY <1>1

LEMMA SumType ==
  ASSUME NEW n \in Nat, NEW f \in [1 .. n -> Int]
  PROVE  SumUpTo(f, n) \in Int
<1> PICK a : IsSum(a, f, n) /\ SumUpTo(f, n) = a[n]
  BY SumIs
<1>1. CASE n = 0
  BY <1>1, SumMeans
<1>2. CASE n # 0
  <2>1. 1 \in 1 .. n /\ AlikeBut(f, f, n, 1)
    BY <1>2 DEF AlikeBut
  <2>2. a[n] \in Int
    BY <2>1, SumsDiffer
  <2> QED BY <2>2
<1> QED BY <1>1, <1>2

LEMMA SumZero ==
  ASSUME NEW n \in Nat, NEW f, \A k \in 1 .. n : f[k] = 0
  PROVE  SumUpTo(f, n) = 0
<1> PICK a : IsSum(a, f, n) /\ SumUpTo(f, n) = a[n]
  BY SumIs
<1> DEFINE S == {k \in Nat : k <= n => a[k] = 0}
<1>1. 0 \in S
  BY SumMeans
<1>2. \A m \in Nat : m \in S => m + 1 \in S
  <2> SUFFICES ASSUME NEW m \in Nat, m \in S, m + 1 <= n PROVE a[m + 1] = 0
    OBVIOUS
  <2>1. m + 1 \in 1 .. n /\ (m + 1) - 1 = m /\ a[m] = 0
    OBVIOUS
  <2> QED BY <2>1, SumMeans
<1>3. n \in S
  <2> HIDE DEF S
  <2> QED BY <1>1, <1>2, SetInduction
<1> QED BY <1>3
-----------------------------------------------------------------------------
(***************************************************************************)
(* What generation needs of the layout beside the properties of Layout:    *)
(* only what follows something is moved, sections begin with an            *)
(* instruction of their own, sizes are those of a form, and every chained  *)
(* end of a block has been given its beginning.                            *)
(***************************************************************************)
Lifted == \A n \in Nodes : off[n] # 0 => \E i \in Ins : following[i] = n

Started ==
  \A s \in Sections : first[s] # 0 =>
    /\ first[s] \in Ins /\ InSection(first[s], s)
    /\ phase = "precompile" => first[s] < pc

Formed(i) ==
  /\ prog[i].op = "data" => size[i] = prog[i].short
  /\ prog[i].op = "insn" => size[i] \in {prog[i].short, prog[i].long}

Shaped ==
  /\ phase = "precompile" => \A i \in Ins : i < pc => Formed(i)
  /\ phase \in {"update", "compile", "done"} => \A i \in Ins : Formed(i)

HasHead(i) == Chained(i) /\ Closing(i) => term[i] # 0

Headed ==
  /\ phase = "update" => \A i \in Ins : i < pc => HasHead(i)
  /\ phase \in {"compile", "done"} => \A i \in Ins : HasHead(i)

HandInv == Lifted /\ Started /\ Shaped /\ Headed

LEMMA HandInit == Init => HandInv
BY DEF Init, HandInv, Lifted, Started, Shaped, Headed

LEMMA FormedBy ==
  ASSUME NEW i \in Ins, NEW forgiving, NEW c, NEW n, size[i] = GetLength(i, forgiving, c, n)
  PROVE  Formed(i)
<1>1. prog[i].op = "data" => GetLength(i, forgiving, c, n) = prog[i].short
  BY DEF GetLength
<1>2. prog[i].op = "insn" => GetLength(i, forgiving, c, n) = TargetLength(i, forgiving, c)
  BY DEF GetLength
<1>3. TargetLength(i, forgiving, c) \in {prog[i].short, prog[i].long}
  BY DEF TargetLength
<1> QED BY <1>1, <1>2, <1>3 DEF Formed

LEMMA HandSized ==
  ASSUME TypeInv, GapInv, StreamInv, HandInv, Precompile \/ Compile
  PROVE  HandInv'
<1>1. /\ TypeOK /\ pc \in Ins /\ phase \in {"precompile", "compile"} /\ pc \in Nat
      /\ size \in [Ins -> Int] /\ sec \in [Ins -> Sections \cup {NoSection}]
      /\ first \in [Sections -> 0 .. Len(prog)] /\ \A i \in Ins : i \in Nat /\ i # 0
  BY AtType, StreamType DEF Precompile, Compile, TypeInv, TypeOK
<1>2. /\ UNCHANGED <<prog, phase, off, term>> /\ Ins' = Ins /\ Nodes' = Nodes
      /\ Sections' = Sections /\ pc' = pc + 1
  BY SameIndices DEF Precompile, Compile, Sections
<1>3. Lifted'
  <2>1. CASE Precompile
    <3>1. \A n \in Nodes : off'[n] = 0
      BY <1>2, <2>1 DEF Precompile, At, GapInv, Unmoved
    <3> QED BY <1>2, <3>1 DEF Lifted
  <2>2. CASE Compile
    BY <1>2, <2>2 DEF Compile, chainVars, HandInv, Lifted
  <2> QED BY <2>1, <2>2
<1>4. Started'
  <2>1. CASE Precompile
    <3> SUFFICES ASSUME NEW s \in Sections, first'[s] # 0
                 PROVE  /\ first'[s] \in Ins /\ sec'[first'[s]] = s
                        /\ prog[first'[s]].op # "section" /\ first'[s] < pc + 1
      BY <1>2 DEF Started, InSection
    <3> DEFINE c == IF OpensText(prog[pc]) THEN 1 ELSE cur
    <3>1. /\ phase = "precompile" /\ sec' = [sec EXCEPT ![pc] = c]
          /\ \/ first' = first
             \/ /\ prog[pc].op # "section" /\ c # NoSection
                /\ first' = [first EXCEPT ![c] = pc]
      BY <2>1 DEF Precompile, At
    <3> HIDE DEF c
    <3>2. CASE first'[s] = first[s]
      <4>1. first[s] \in Ins /\ InSection(first[s], s) /\ first[s] < pc
        BY <3>1, <3>2 DEF HandInv, Started
      <4>2. first[s] \in Nat /\ first[s] # pc
        BY <1>1, <4>1
      <4> QED BY <1>1, <1>2, <3>1, <3>2, <4>1, <4>2 DEF InSection
    <3>3. CASE first'[s] # first[s]
      <4>1. first' = [first EXCEPT ![c] = pc] /\ prog[pc].op # "section"
        BY <3>1, <3>3
      <4>2. s = c /\ first'[s] = pc
        BY <1>1, <3>3, <4>1
      <4> QED BY <1>1, <1>2, <3>1, <4>1, <4>2 DEF InSection
    <3> QED BY <3>2, <3>3
  <2>2. CASE Compile
    <3>1. phase = "compile" /\ UNCHANGED <<first, sec>>
      BY <2>2 DEF Compile, At, chainVars
    <3> QED BY <1>2, <3>1 DEF HandInv, Started, InSection
  <2> QED BY <2>1, <2>2
<1>5. Shaped'
  <2>1. PICK l \in BOOLEAN :
          \E c, n : size' = [size EXCEPT ![pc] = GetLength(pc, l, c, n)]
    BY DEF Precompile, Compile
  <2> PICK c, n : size' = [size EXCEPT ![pc] = GetLength(pc, l, c, n)]
    BY <2>1
  <2>2. /\ prog[pc].op = "data" => size'[pc] = prog[pc].short
        /\ prog[pc].op = "insn" => size'[pc] \in {prog[pc].short, prog[pc].long}
    <3>1. size'[pc] = GetLength(pc, l, c, n)
      BY <1>1, <2>1
    <3>2. /\ prog[pc].op = "data" => GetLength(pc, l, c, n) = prog[pc].short
          /\ prog[pc].op = "insn" => GetLength(pc, l, c, n) = TargetLength(pc, l, c)
      BY DEF GetLength
    <3>3. TargetLength(pc, l, c) \in {prog[pc].short, prog[pc].long}
      BY DEF TargetLength
    <3> QED BY <3>1, <3>2, <3>3
  <2>3. ASSUME NEW i \in Ins, phase = "precompile" => i < pc + 1
        PROVE  Formed(i)'
    <3>1. CASE i = pc
      BY <1>2, <2>2, <3>1 DEF Formed
    <3>2. CASE i # pc
      <4>1. phase = "precompile" => i < pc
        BY <1>1, <2>3, <3>2
      <4>2. Formed(i)
        BY <1>1, <4>1 DEF HandInv, Shaped
      <4>3. size'[i] = size[i]
        BY <1>1, <2>1, <3>2
      <4> QED BY <1>2, <4>2, <4>3 DEF Formed
    <3> QED BY <3>1, <3>2
  <2> QED BY <1>1, <1>2, <2>3 DEF Shaped
<1>6. Headed'
  <2>1. CASE Precompile
    BY <1>2, <2>1 DEF Headed, Precompile, At
  <2>2. CASE Compile
    <3>1. UNCHANGED following
      BY <2>2 DEF Compile, chainVars
    <3>2. phase = "compile"
      BY <2>2 DEF Compile, At
    <3> QED BY <1>2, <3>1, <3>2 DEF HandInv, Headed, HasHead, Chained, Closing
  <2> QED BY <2>1, <2>2
<1> QED BY <1>3, <1>4, <1>5, <1>6 DEF HandInv

LEMMA HandUpdate ==
  ASSUME TypeInv, HandInv, Update \/ UpdateUnchained
  PROVE  HandInv'
<1>1. /\ TypeOK /\ pc \in Ins /\ phase = "update" /\ ~Stops(pc)
      /\ off \in [Nodes -> Nat] /\ \A i \in Ins : i \in Nat /\ i # 0
  BY AtType, StreamType DEF Update, UpdateUnchained, TypeInv, TypeOK
<1>2. /\ UNCHANGED <<prog, phase, term, first, following, sec, size>>
      /\ Ins' = Ins /\ Nodes' = Nodes /\ Sections' = Sections /\ pc' = pc + 1
  BY SameIndices DEF Update, UpdateUnchained, chainVars, Sections
<1>3. Lifted'
  <2>1. off' = off \/ \E e : off' = [off EXCEPT ![following[pc]] = e]
    BY DEF Update, UpdateUnchained
  <2>2. \A n \in Nodes : off'[n] # off[n] => n = following[pc]
    BY <1>1, <2>1
  <2> QED BY <1>1, <1>2, <2>2 DEF HandInv, Lifted
<1>4. Started' /\ Shaped'
  BY <1>1, <1>2 DEF HandInv, Started, Shaped, Formed, InSection
<1>5. HasHead(pc)
  BY <1>1, PartnerExists DEF HasHead, Chained, Closing
<1>6. \A i \in Ins : i < pc + 1 => HasHead(i)
  <2>1. \A i \in Ins : i < pc + 1 => i = pc \/ i < pc
    BY <1>1
  <2> QED BY <1>1, <1>5, <2>1 DEF HandInv, Headed
<1>7. Headed'
  BY <1>1, <1>2, <1>6 DEF Headed, HasHead, Chained, Closing
<1> QED BY <1>3, <1>4, <1>7 DEF HandInv

LEMMA HandKept ==
  ASSUME TypeInv, GapInv, StreamInv, HandInv, [Next]_vars,
         ~(Precompile \/ Compile \/ Update \/ UpdateUnchained)
  PROVE  HandInv'
<1>1. /\ UNCHANGED <<prog, first, sec, off, size>> /\ Ins' = Ins /\ Nodes' = Nodes
      /\ Sections' = Sections
  <2>1. UNCHANGED <<prog, first, sec, off, size>>
    BY DEF Next, Pass, Parse, EndParse, Group, EndGroup, EndPrecompile, Wrap, EndUpdate,
           EndCompile, Stop, Finished, vars, chainVars
  <2> QED BY <2>1, SameIndices DEF Sections
<1>2. TypeOK /\ Len(prog) \in Nat /\ \A i \in Ins : i \in Nat /\ i # 0 /\ i < Len(prog) + 1
                                                   /\ ~(i < 1)
  BY StreamType DEF TypeInv
<1>3. CASE EndPrecompile
  <2>1. /\ phase = "precompile" /\ phase' = "update" /\ pc = Len(prog) + 1 /\ pc' = 1
    BY <1>3 DEF EndPrecompile
  <2>2. \A n \in Nodes : off[n] = 0
    BY <2>1 DEF GapInv, Unmoved
  <2> QED BY <1>1, <1>2, <2>1, <2>2
          DEF HandInv, Lifted, Started, Shaped, Formed, Headed, InSection
<1>4. CASE EndUpdate
  <2>1. /\ phase = "update" /\ phase' \in {"compile", "done"} /\ pc = Len(prog) + 1
        /\ UNCHANGED <<following, term>>
    BY <1>4 DEF EndUpdate, chainVars
  <2> QED BY <1>1, <1>2, <2>1
          DEF HandInv, Lifted, Started, Shaped, Formed, Headed, HasHead, Chained, Closing,
              InSection
<1>5. CASE EndCompile
  <2>1. /\ phase = "compile" /\ phase' = "update" /\ pc' = 1
        /\ UNCHANGED <<following, term>>
    BY <1>5 DEF EndCompile, chainVars
  <2> QED BY <1>1, <1>2, <2>1
          DEF HandInv, Lifted, Started, Shaped, Formed, Headed, InSection
<1>6. CASE UNCHANGED vars
  BY <1>1, <1>6 DEF vars, chainVars, HandInv, Lifted, Started, Shaped, Formed, Headed,
                    HasHead, Chained, Closing, InSection
<1>7. CASE Parse \/ EndParse \/ Group \/ EndGroup \/ Wrap \/ Stop
  <2>1. /\ UNCHANGED following /\ phase' \notin {"update", "compile", "done"}
        /\ phase' = "precompile" => phase = "group"
    BY <1>7 DEF Parse, EndParse, Group, EndGroup, Wrap, Stop, At, chainVars
  <2>2. phase = "group" => \A s \in Sections : first[s] = 0
    BY DEF StreamInv, StreamBuilt
  <2>3. Lifted' /\ Shaped' /\ Headed'
    <3>1. phase' # "precompile" \/ pc' = 1
      BY <1>7 DEF Parse, EndParse, Group, EndGroup, Wrap, Stop, At
    <3> QED BY <1>1, <1>2, <2>1, <3>1 DEF HandInv, Lifted, Shaped, Headed
  <2>4. Started'
    BY <1>1, <2>1, <2>2 DEF HandInv, Started, InSection
  <2> QED BY <2>3, <2>4 DEF HandInv
<1> QED BY <1>3, <1>4, <1>5, <1>6, <1>7 DEF Next, Pass, Finished

LEMMA HandStep ==
  TypeInv /\ GapInv /\ StreamInv /\ HandInv /\ [Next]_vars => HandInv'
BY HandSized, HandUpdate, HandKept

(* Everything the layout passes keep.                                      *)
LayInv ==
  BlockFacts /\ RoomInv /\ BlockInv /\ PlaceInv /\ FormInv /\ HandInv

LEMMA LayInit == Init => LayInv
BY InitType, ChainInit, GapInit, GroupInit, StreamInit, CountInit, RoomInit, BlockInit,
   PlaceInit, FormInit, HandInit DEF LayInv, BlockFacts

LEMMA LayStep == LayInv /\ [Next]_vars => LayInv'
<1> SUFFICES ASSUME LayInv, [Next]_vars PROVE LayInv'
  OBVIOUS
<1>1. /\ TypeInv /\ ChainInv /\ GapInv /\ GroupInv /\ StreamInv /\ CountInv
      /\ BlockFacts /\ RoomInv /\ BlockInv /\ PlaceInv /\ FormInv /\ HandInv
  BY DEF LayInv, BlockFacts
<1>2. TypeInv' /\ ChainInv' /\ GapInv' /\ GroupInv' /\ StreamInv' /\ CountInv'
  BY <1>1, TypeStep, ChainStep, GapStep, GroupStep, StreamStep, CountStep
<1>3. BlockFacts'
  BY <1>2 DEF BlockFacts
<1>4. RoomInv' /\ BlockInv' /\ PlaceInv' /\ FormInv' /\ HandInv'
  BY <1>1, <1>3, RoomStep, BlockStep, PlaceStep, FormStep, HandStep
<1> QED BY <1>3, <1>4 DEF LayInv
-----------------------------------------------------------------------------
(***************************************************************************)
(* The layout as the walk finds it.  Walking changes none of it: of the    *)
(* variables of Layout only cur, which Laid does not depend on but for its *)
(* type.                                                                   *)
(***************************************************************************)
Linked ==
  \A i \in Ins, s \in Sections : InSection(i, s) =>
    \/ NextIn(i, s)
    \/ following[i] = EndOf(s) /\ \A j \in Ins : InSection(j, s) => j <= i

FromZero ==
  \A s \in Sections : first[s] # 0 =>
    /\ first[s] \in Ins /\ InSection(first[s], s) /\ off[first[s]] = 0
    /\ \A i \in Ins : InSection(i, s) => first[s] <= i

Behind == \A i \in Ins : Chained(i) /\ Rigid(i) => off[following[i]] = off[i] + size[i]

Around ==
  Regular => \A i \in Ins : Chained(i) /\ term[i] # 0 => off[following[i]] = Extent(i)

Chosen ==
  \A i \in Ins : prog[i].op = "insn" /\ Chained(i) /\ Direct(prog[i].arg) =>
    TargetLength(i, FALSE, sec[i]) = size[i]

Labelled ==
  \A i \in Ins : Chained(i) /\ IsPlace(i) =>
    sym[prog[i].name] = [val |-> off[i] + prog[i].arg.add, sec |-> sec[i]]

Laid ==
  /\ phase = "done" /\ TypeOK
  /\ Paired /\ Nested /\ Linked /\ FromZero
  /\ Behind /\ Around /\ Chosen /\ Bounded /\ Labelled
  /\ \A i \in Ins : Formed(i) /\ HasHead(i)

LEMMA LaidBegins == LayInv /\ phase = "done" => Laid
<1> SUFFICES ASSUME LayInv, phase = "done" PROVE Laid
  OBVIOUS
<1>1. /\ TypeInv /\ ChainInv /\ GapInv /\ GroupInv /\ StreamInv /\ CountInv /\ TypeOK
      /\ BlockFacts /\ RoomInv /\ BlockInv /\ PlaceInv /\ FormInv /\ HandInv
  BY DEF LayInv, BlockFacts, TypeInv
<1>2. Paired /\ Nested
  BY <1>1 DEF GroupInv
<1>3. Linked /\ FirstKnown
  BY <1>1 DEF StreamInv, StreamLinked, Linked
<1>4. FromZero
  <2> SUFFICES ASSUME NEW s \in Sections, first[s] # 0
               PROVE  /\ first[s] \in Ins /\ InSection(first[s], s) /\ off[first[s]] = 0
                      /\ \A i \in Ins : InSection(i, s) => first[s] <= i
    BY DEF FromZero
  <2>1. first[s] \in Ins /\ InSection(first[s], s)
    BY <1>1 DEF HandInv, Started
  <2>2. \A i \in Ins : InSection(i, s) => first[s] <= i
    BY <1>3 DEF FirstKnown
  <2>3. off[first[s]] = 0
    <3> SUFFICES ASSUME off[first[s]] # 0 PROVE FALSE
      OBVIOUS
    <3> PICK i \in Ins : following[i] = first[s]
      BY <1>1, <2>1, FieldType DEF HandInv, Lifted
    <3>1. sec[i] \in Sections /\ InSection(i, sec[i])
      BY <1>1 DEF StreamInv, LinksWithin
    <3>2. NextIn(i, sec[i])
      <4>1. first[s] # EndOf(sec[i])
        BY <1>1, <2>1, <3>1, StreamType DEF EndOf
      <4> QED BY <1>3, <3>1, <4>1 DEF Linked
    <3>3. sec[i] = s /\ i < first[s]
      BY <2>1, <3>2 DEF NextIn, InSection
    <3> QED BY <1>1, <2>1, <2>2, <3>1, <3>3, StreamType
  <2> QED BY <2>1, <2>2, <2>3
<1>5. Behind
  BY <1>1, GapCloses DEF NoGap, Behind
<1>6. Around
  BY <1>1, BlockCloses DEF BlocksExact, Around
<1>7. Chosen
  BY <1>1, FormSettles DEF FormsSettled, Chosen
<1>8. Bounded /\ \A i \in Ins : Formed(i) /\ HasHead(i)
  BY <1>1 DEF GapInv, HandInv, Shaped, Headed
<1>9. Labelled
  BY <1>1 DEF PlaceInv, Defined, Exact, Given, Place, Labelled
<1> QED BY <1>1, <1>2, <1>3, <1>4, <1>5, <1>6, <1>7, <1>8, <1>9 DEF Laid

(* What a step of the walk leaves alone.                                   *)
LEMMA WalkFrame ==
  ASSUME UNCHANGED layoutRest
  PROVE  /\ UNCHANGED <<format, bits, prog, phase, pc, sym, term, open, created, first, last>>
         /\ UNCHANGED <<following, sec, off, size, count, changed, compiled>>
         /\ Ins' = Ins /\ Nodes' = Nodes /\ Sections' = Sections
         /\ \A i \in Ins : /\ Chained(i)' <=> Chained(i)
                           /\ Rigid(i)' <=> Rigid(i)
                           /\ Opens(i)' <=> Opens(i)
                           /\ Closing(i)' <=> Closing(i)
         /\ Regular' <=> Regular
         /\ \A e : Direct(e)' <=> Direct(e)
<1>1. /\ UNCHANGED <<format, bits, prog, phase, pc, sym, term, open, created, first, last>>
      /\ UNCHANGED <<following, sec, off, size, count, changed, compiled>>
  BY DEF layoutRest, chainVars
<1>2. /\ Ins' = Ins /\ Nodes' = Nodes /\ Sections' = Sections
      /\ Regular' <=> Regular
      /\ \A i \in Ins : /\ Chained(i)' <=> Chained(i)
                        /\ Rigid(i)' <=> Rigid(i)
                        /\ Opens(i)' <=> Opens(i)
                        /\ Closing(i)' <=> Closing(i)
  BY <1>1, BlockFrame DEF Sections
<1>3. \A e : Direct(e)' <=> Direct(e)
  BY <1>1, <1>2 DEF Direct, IsPlace, IsNumber
<1> QED BY <1>1, <1>2, <1>3

LEMMA LaidKept ==
  ASSUME Laid, UNCHANGED layoutRest, cur' \in Int
  PROVE  Laid'
<1>1. /\ UNCHANGED <<format, prog, phase, pc, sym, term, open, created, first, last>>
      /\ UNCHANGED <<following, sec, off, size, count, changed, compiled>>
      /\ Ins' = Ins /\ Nodes' = Nodes /\ Sections' = Sections
  BY WalkFrame
<1>2. TypeOK' /\ phase' = "done"
  BY <1>1 DEF Laid, TypeOK
<1>3. Paired' /\ Nested'
  BY <1>1 DEF Laid, Paired, Nested, Closes
<1>4. Linked' /\ FromZero'
  BY <1>1 DEF Laid, Linked, FromZero, NextIn, InSection, EndOf
<1>5. Behind' /\ Bounded'
  BY <1>1, WalkFrame DEF Laid, Behind, Bounded, Cap
<1>6. Around'
  BY <1>1, WalkFrame DEF Laid, Around, Extent
<1>7. Chosen'
  <2> SUFFICES ASSUME NEW i \in Ins, prog[i].op = "insn", Chained(i), Direct(prog[i].arg)'
               PROVE  TargetLength(i, FALSE, sec[i])' = size[i]
    BY <1>1, WalkFrame DEF Chosen
  <2>1. \A a : AtomValue(a, off[i], sec[i], sym)' = AtomValue(a, off[i], sec[i], sym)
    BY <1>1 DEF AtomValue
  <2>2. Eval(prog[i].arg, off[i], sec[i], sym)' = Eval(prog[i].arg, off[i], sec[i], sym)
    BY <1>1, <2>1 DEF Eval
  <2>3. Fits(i, sec[i])' <=> Fits(i, sec[i])
    BY <1>1, <2>2 DEF Fits
  <2>4. TargetLength(i, FALSE, sec[i])' = TargetLength(i, FALSE, sec[i])
    BY <1>1, <2>3 DEF TargetLength
  <2>5. Direct(prog[i].arg)
    BY <1>1, WalkFrame
  <2> QED BY <2>4, <2>5 DEF Laid, Chosen
<1>8. \A i \in Ins : Formed(i)' /\ HasHead(i)'
  BY <1>1, WalkFrame DEF Laid, Formed, HasHead
<1>9. Labelled'
  BY <1>1, WalkFrame DEF Laid, Labelled, IsPlace
<1> QED BY <1>1, <1>2, <1>3, <1>4, <1>5, <1>6, <1>7, <1>8, <1>9 DEF Laid
-----------------------------------------------------------------------------
(***************************************************************************)
(* Which blocks the walk is in, before and after a step.                   *)
(***************************************************************************)
LEMMA BlockHead ==
  ASSUME Laid, BlocksWithin, NEW i \in Ins, NEW s \in Sections, InSection(i, s), Closing(i)
  PROVE  /\ term[i] \in Ins /\ term[i] < i /\ term[term[i]] = i /\ Closes(term[i], i)
         /\ Opens(term[i]) /\ InSection(term[i], s) /\ InBlock(i, term[i])
<1> DEFINE u == term[i]
<1>1. Chained(i)
  <2>1. following[i] # 0
    BY StreamType DEF Laid, Linked, NextIn, EndOf
  <2> QED BY <2>1 DEF Chained
<1>2. /\ u \in Ins /\ term[u] = i
      /\ \/ i < u /\ Closes(i, u)
         \/ u < i /\ Closes(u, i)
  BY <1>1 DEF Laid, HasHead, Paired
<1>3. u < i /\ Closes(u, i) /\ Opens(u)
  BY <1>2 DEF Closes, Closing, Opens
<1>4. i # 0 /\ i \in Nat
  BY StreamType DEF Laid
<1>5. sec[u] = s
  <2> HIDE DEF u
  <2>1. sec[term[u]] = sec[u]
    BY <1>2, <1>3, <1>4 DEF BlocksWithin
  <2> QED BY <1>2, <2>1 DEF InSection
<1>6. InSection(u, s)
  BY <1>3, <1>5 DEF InSection, Opens
<1>7. InBlock(i, u)
  BY <1>2, <1>3, <1>4, <1>5 DEF InBlock, InSection
<1> QED BY <1>2, <1>3, <1>6, <1>7

LEMMA BlockTail ==
  ASSUME Laid, BlocksWithin, NEW t \in Ins, Opens(t), term[t] # 0
  PROVE  /\ term[t] \in Ins /\ t < term[t] /\ term[term[t]] = t /\ Closes(t, term[t])
         /\ Closing(term[t]) /\ sec[term[t]] = sec[t]
<1>1. /\ term[t] \in Ins /\ term[term[t]] = t
      /\ \/ t < term[t] /\ Closes(t, term[t])
         \/ term[t] < t /\ Closes(term[t], t)
  BY DEF Laid, Paired
<1>2. t < term[t] /\ Closes(t, term[t])
  BY <1>1 DEF Closes, Opens
<1>3. Closing(term[t])
  BY <1>2 DEF Closes, Closing
<1>4. sec[term[t]] = sec[t]
  BY DEF BlocksWithin
<1> QED BY <1>1, <1>2, <1>3, <1>4

(* From an instruction to the next of its chain: what ends here is left,   *)
(* what begins here is entered.                                            *)
LEMMA NextBlocks ==
  ASSUME Laid, BlocksWithin, NEW i \in Ins, NEW s \in Sections, InSection(i, s),
         NEW t \in Ins, Opens(t)
  PROVE  InBlock(following[i], t) <=>
           (InBlock(i, t) /\ i # term[t]) \/ (i = t /\ term[t] # 0)
<1> DEFINE f == following[i]
<1>1. TypeOK /\ i \in Nat /\ t \in Nat /\ i # 0 /\ t # 0 /\ f \in Nat /\ term[t] \in Nat
  <2>1. TypeOK
    BY DEF Laid
  <2>2. term[t] \in 0 .. Len(prog) /\ Len(prog) \in Nat
    BY <2>1, StreamType DEF TypeOK
  <2> QED BY <2>1, <2>2, StreamType
<1>2. InSection(i, s) /\ sec[i] = s
  BY DEF InSection
<1>3. sec[t] = s => InSection(t, s)
  BY DEF InSection, Opens
<1>4. \A z \in Ins : z = term[t] /\ sec[t] = s /\ z # 0 => InSection(z, s)
  <2>1. term[t] # 0 => Closing(term[t]) /\ sec[term[t]] = sec[t]
    BY BlockTail
  <2> QED BY <2>1 DEF InSection, Closing
<1>5. term[t] # 0 => term[t] \in Ins /\ t < term[t]
  BY BlockTail
<1>6. CASE NextIn(i, s)
  <2>1. /\ f \in Ins /\ sec[f] = s /\ i < f
        /\ \A j \in Ins : InSection(j, s) /\ i < j => f <= j
    BY <1>6 DEF NextIn, InSection
  <2> HIDE DEF f
  <2>2. ASSUME InBlock(f, t) PROVE (InBlock(i, t) /\ i # term[t]) \/ (i = t /\ term[t] # 0)
    <3>1. t < f /\ f <= term[t] /\ sec[t] = s
      BY <2>1, <2>2 DEF InBlock
    <3>2. ~(i < t)
      BY <1>1, <1>3, <2>1, <3>1
    <3> QED BY <1>1, <1>2, <2>1, <3>1, <3>2 DEF InBlock
  <2>3. ASSUME sec[t] = s, t <= i, i < term[t] PROVE InBlock(f, t)
    <3>1. term[t] \in Ins /\ InSection(term[t], s)
      BY <1>1, <1>4, <1>5, <2>3
    <3>2. f <= term[t]
      BY <2>1, <2>3, <3>1
    <3> QED BY <1>1, <2>1, <2>3, <3>2 DEF InBlock
  <2>4. (InBlock(i, t) /\ i # term[t]) \/ (i = t /\ term[t] # 0)
        => sec[t] = s /\ t <= i /\ i < term[t]
    BY <1>1, <1>2, <1>5 DEF InBlock
  <2> QED BY <2>2, <2>3, <2>4 DEF f
<1>7. CASE f = EndOf(s) /\ \A j \in Ins : InSection(j, s) => j <= i
  <2>1. ~InBlock(f, t)
    <3>1. term[t] <= Len(prog) /\ Len(prog) < f /\ Len(prog) \in Nat
      <4>1. term[t] \in 0 .. Len(prog) /\ Len(prog) \in Nat /\ s \in Nat \ {0}
        BY <1>1, StreamType DEF TypeOK
      <4> QED BY <1>7, <4>1 DEF EndOf
    <3> QED BY <1>1, <3>1 DEF InBlock
  <2>2. (InBlock(i, t) /\ i # term[t]) \/ (i = t /\ term[t] # 0)
        => sec[t] = s /\ i < term[t] /\ term[t] # 0
    BY <1>1, <1>2, <1>5 DEF InBlock
  <2>3. ~(sec[t] = s /\ i < term[t] /\ term[t] # 0)
    BY <1>1, <1>4, <1>5, <1>7
  <2> QED BY <2>1, <2>2, <2>3
<1> QED BY <1>6, <1>7 DEF Laid, Linked

(* From the end of a block back to its beginning: only the block itself    *)
(* makes a difference between its two ends.                                *)
LEMMA BackBlocks ==
  ASSUME Laid, BlocksWithin, NEW i \in Ins, NEW s \in Sections, InSection(i, s), Closing(i),
         NEW t \in Ins, Opens(t)
  PROVE  /\ InBlock(term[i], t) <=> InBlock(i, t) /\ t # term[i]
         /\ InBlock(following[term[i]], t) <=> InBlock(i, t)
<1> DEFINE u == term[i]
<1>1. /\ u \in Ins /\ u < i /\ term[u] = i /\ Opens(u) /\ InSection(u, s) /\ InBlock(i, u)
  BY BlockHead
<1>2. /\ i \in Nat /\ t \in Nat /\ u \in Nat /\ term[t] \in Nat /\ i # 0 /\ u # 0
  <2>1. TypeOK
    BY DEF Laid
  <2>2. term[t] \in 0 .. Len(prog) /\ Len(prog) \in Nat
    BY <2>1, StreamType DEF TypeOK
  <2> QED BY <1>1, <2>1, <2>2, StreamType
<1>3. sec[u] = s /\ sec[i] = s
  BY <1>1 DEF InSection
<1>4. /\ term[t] # 0 => term[t] \in Ins /\ t < term[t] /\ term[term[t]] = t /\ Closing(term[t])
      /\ u # term[t]
  <2>1. term[t] # 0 => term[t] \in Ins /\ t < term[t] /\ term[term[t]] = t /\ Closing(term[t])
    BY BlockTail
  <2>2. u # term[t]
    BY <1>1, <1>2, <2>1 DEF Opens, Closing
  <2> QED BY <2>1, <2>2
<1>5. t # u => i # term[t]
  BY <1>2, <1>4
<1>6. \A a, b \in Ins : a < b /\ term[a] > b => term[b] < term[a]
  BY DEF Laid, Nested
<1> HIDE DEF u
<1>7. InBlock(u, t) <=> InBlock(i, t) /\ t # u
  <2>1. ASSUME InBlock(u, t) PROVE InBlock(i, t) /\ t # u
    <3>1. t < u /\ u < term[t] /\ sec[t] = s
      BY <1>2, <1>3, <1>4, <2>1 DEF InBlock
    <3>2. i < term[t]
      BY <1>1, <1>2, <1>6, <3>1
    <3> QED BY <1>1, <1>2, <1>3, <3>1, <3>2 DEF InBlock
  <2>2. ASSUME InBlock(i, t), t # u PROVE InBlock(u, t)
    <3>1. t < i /\ i < term[t] /\ sec[t] = s
      BY <1>2, <1>3, <1>5, <2>2 DEF InBlock
    <3>2. ~(u < t)
      BY <1>1, <1>2, <1>6, <3>1
    <3> QED BY <1>1, <1>2, <1>3, <2>2, <3>1, <3>2 DEF InBlock
  <2> QED BY <2>1, <2>2
<1>8. InBlock(following[u], t) <=> (InBlock(u, t) /\ u # term[t]) \/ (u = t /\ term[t] # 0)
  BY <1>1, NextBlocks
<1>9. InBlock(following[u], t) <=> InBlock(i, t)
  BY <1>1, <1>2, <1>4, <1>7, <1>8
<1> QED BY <1>7, <1>9 DEF u
-----------------------------------------------------------------------------
(***************************************************************************)
(* The layout hands over to the walk.                                      *)
(***************************************************************************)
Untouched ==
  /\ format \in Formats /\ at = 0 /\ limit = NoLimit
  /\ current = [i \in Ins |-> 0] /\ oldLimit = [i \in Ins |-> 0]
  /\ loc = [s \in Sections |-> 0]

HandOver ==
  /\ stage \in {"layout", "section", "walk", "end"}
  /\ stage = "layout" => LayInv /\ Untouched
  /\ stage # "layout" => Laid

LEMMA HandOverInit == AssembleInit => HandOver
<1> SUFFICES ASSUME AssembleInit PROVE HandOver
  OBVIOUS
<1>1. LayInv
  BY LayInit DEF AssembleInit
<1>2. stage = "layout" /\ Untouched
  BY DEF AssembleInit, GenInit, Untouched
<1> QED BY <1>1, <1>2 DEF HandOver

(* Beyond the layout, no step changes any of it.                           *)
LEMMA WalkLeaves ==
  ASSUME HandOver, [AssembleNext]_allVars, stage # "layout"
  PROVE  UNCHANGED layoutRest /\ cur' \in Int /\ stage' \in {"section", "walk", "end"}
<1>1. Laid /\ TypeOK /\ cur \in Int /\ stage \in {"section", "walk", "end"}
  BY DEF HandOver, Laid, TypeOK
<1>2. CASE EndSection
  BY <1>1, <1>2 DEF EndSection
<1>3. CASE WalkInsn
  <2>1. at \in Ins /\ UNCHANGED <<layoutRest, stage>>
        /\ cur' = IF prog[at].mode = "rel" /\ Target = "x86" THEN sec[at] ELSE cur
    BY <1>3 DEF WalkInsn, Visiting
  <2>2. sec[at] \in Int
    BY <1>1, <2>1, FieldType
  <2> QED BY <1>1, <2>1, <2>2
<1>4. CASE BeginSection \/ EndGenerate
  BY <1>1, <1>4 DEF BeginSection, EndGenerate
<1>5. CASE WalkSilent \/ WalkOrg \/ WalkSkip \/ WalkEndTimes
  BY <1>1, <1>5 DEF WalkSilent, WalkOrg, WalkSkip, WalkEndTimes
<1>6. CASE WalkFill \/ WalkEndFill \/ WalkData \/ WalkStop
  BY <1>1, <1>6 DEF WalkFill, WalkEndFill, WalkData, WalkStop
<1>7. CASE UNCHANGED allVars
  BY <1>1, <1>7 DEF allVars, vars, genVars, layoutRest
<1> QED BY <1>2, <1>3, <1>4, <1>5, <1>6, <1>7
        DEF AssembleNext, Step, Walk, Lay, BeginGenerate

LEMMA HandOverStep == HandOver /\ [AssembleNext]_allVars => HandOver'
<1> SUFFICES ASSUME HandOver, [AssembleNext]_allVars PROVE HandOver'
  OBVIOUS
<1>1. CASE stage # "layout"
  <2>1. UNCHANGED layoutRest /\ cur' \in Int /\ stage' \in {"section", "walk", "end"}
    BY <1>1, WalkLeaves
  <2>2. Laid'
    BY <1>1, <2>1, LaidKept DEF HandOver
  <2> QED BY <2>1, <2>2 DEF HandOver
<1>2. CASE stage = "layout" /\ (Lay \/ UNCHANGED allVars)
  <2>1. LayInv /\ Untouched /\ UNCHANGED genVars /\ [Next]_vars
    BY <1>2 DEF HandOver, Lay, Next, allVars
  <2>2. LayInv'
    BY <2>1, LayStep
  <2>3. UNCHANGED prog
    BY <2>1 DEF Next, Pass, Parse, EndParse, Group, EndGroup, Precompile, EndPrecompile, Wrap,
                Update, UpdateUnchained, EndUpdate, Compile, EndCompile, Stop, Finished, vars
  <2>4. Untouched' /\ stage' = "layout"
    BY <1>2, <2>1, <2>3, SameIndices DEF Untouched, genVars, Sections
  <2> QED BY <2>2, <2>4 DEF HandOver
<1>3. CASE stage = "layout" /\ BeginGenerate
  <2>1. /\ LayInv /\ phase = "done" /\ UNCHANGED layoutRest /\ cur' = 1
        /\ stage' = "section"
    BY <1>3 DEF HandOver, BeginGenerate
  <2>2. Laid'
    BY <2>1, LaidBegins, LaidKept
  <2> QED BY <2>1, <2>2 DEF HandOver
<1>4. stage = "layout" => Lay \/ UNCHANGED allVars \/ BeginGenerate
  BY DEF AssembleNext, Step, Walk, BeginSection, EndSection, EndGenerate, WalkSilent, WalkOrg,
         WalkSkip, WalkEndTimes, WalkFill, WalkEndFill, WalkData, WalkInsn, WalkStop, Visiting
<1> QED BY <1>1, <1>2, <1>3, <1>4
-----------------------------------------------------------------------------
(***************************************************************************)
(* The walk stays in its section, when no block reaches into another one.  *)
(***************************************************************************)
Here(i, s) == i = 0 \/ i = EndOf(s) \/ (i \in Ins /\ InSection(i, s))

Typed ==
  /\ format \in Formats
  /\ current \in [Ins -> Nat]
  /\ limit \in Nat \cup {NoLimit}
  /\ oldLimit \in [Ins -> Nat \cup {NoLimit}]
  /\ loc \in [Sections -> Int]

Tracked ==
  /\ Typed
  /\ stage = "walk" => cur \in 1 .. created /\ Here(at, cur)
  /\ stage = "section" => cur \in 1 .. created + 1

WalkInv == stage # "layout" /\ BlocksWithin => Tracked

LEMMA HereNext ==
  ASSUME Laid, NEW s \in Sections, NEW i, i # 0, Here(i, s)
  PROVE  Here(Follow(i), s)
<1>1. CASE i \in Ins /\ InSection(i, s)
  BY <1>1 DEF Laid, Linked, Here, Follow, NextIn
<1>2. CASE i = EndOf(s)
  <2>1. Len(prog) \in Nat /\ s \in Nat \ {0} /\ Ins = 1 .. Len(prog)
    BY StreamType DEF Laid
  <2>2. i \notin Ins
    BY <1>2, <2>1 DEF EndOf
  <2> QED BY <2>2 DEF Follow, Here
<1> QED BY <1>1, <1>2 DEF Here

LEMMA HereFirst ==
  ASSUME Laid, NEW s \in Sections
  PROVE  Here(first[s], s)
BY DEF Laid, FromZero, Here

(* Where a step of the walk is.                                            *)
LEMMA WalkAt ==
  ASSUME Laid, Tracked, stage = "walk"
  PROVE  /\ cur \in Sections /\ cur \in 1 .. created /\ Out \in Sections
         /\ created \in Nat /\ created <= MaxSection /\ MaxSection \in Nat
         /\ Here(at, cur)
         /\ at \in Ins => InSection(at, cur) /\ Chained(at) /\ sec[at] = cur
<1>1. created \in 0 .. MaxSection /\ MaxSection \in Nat /\ MaxSection > 0 /\ TypeOK
  BY ConstantsAssumption DEF Laid, TypeOK
<1>2. cur \in 1 .. created /\ cur \in Sections /\ 1 \in Sections
  BY <1>1 DEF Tracked, Sections
<1>3. Out \in Sections
  BY <1>2 DEF Out, StreamOf
<1>4. ASSUME at \in Ins PROVE InSection(at, cur) /\ Chained(at) /\ sec[at] = cur
  <2>1. Len(prog) \in Nat /\ Ins = 1 .. Len(prog) /\ cur \in Nat \ {0}
    BY <1>1, <1>2, StreamType
  <2>2. at # 0 /\ at # EndOf(cur) /\ EndOf(cur) # 0
    BY <1>4, <2>1 DEF EndOf
  <2>3. InSection(at, cur)
    BY <2>2 DEF Tracked, Here
  <2>4. following[at] # 0
    BY <1>1, <1>2, <1>4, <2>2, <2>3, StreamType DEF Laid, Linked, NextIn
  <2> QED BY <2>3, <2>4 DEF Chained, InSection
<1> QED BY <1>1, <1>2, <1>3, <1>4 DEF Tracked

(* What output_byte does to the location and the limit.                    *)
LEMMA PutOutMoves ==
  ASSUME Typed, NEW i, NEW n \in Nat, PutOut(i, n), Out \in Sections
  PROVE  \E k \in Nat :
           /\ k <= n
           /\ loc' = IF Zeroed(cur) THEN loc ELSE [loc EXCEPT ![Out] = @ + k]
           /\ limit = NoLimit => k = n /\ limit' = NoLimit
           /\ limit # NoLimit => limit' = limit - k /\ limit' \in Nat
                                 /\ (k = n \/ limit' = 0)
<1> DEFINE k == Allowed(n)
<1>1. limit = NoLimit \/ limit \in Nat
  BY DEF Typed
<1>2. k \in Nat /\ k <= n /\ (limit = NoLimit => k = n)
      /\ (limit # NoLimit => limit - k \in Nat /\ (k = n \/ limit - k = 0))
  BY <1>1 DEF Allowed, Least
<1>3. /\ loc' = IF Zeroed(cur) THEN loc ELSE [loc EXCEPT ![Out] = @ + k]
      /\ limit' = IF limit = NoLimit THEN NoLimit ELSE limit - k
  BY DEF PutOut
<1> HIDE DEF k
<1> QED BY <1>2, <1>3

(* The bytes of instruction i.                                             *)
LEMMA FormType ==
  ASSUME Laid, NEW i \in Ins, NEW c
  PROVE  /\ prog[i].short \in Nat /\ prog[i].long \in Nat
         /\ TargetLength(i, FALSE, c) \in {prog[i].short, prog[i].long}
         /\ prog[i].op = "data" => size[i] = prog[i].short
<1>1. prog[i] \in Instructions
  BY ProgramType DEF Laid
<1>2. prog[i].short \in Nat /\ prog[i].long \in Nat
  BY <1>1 DEF Instructions
<1>3. TargetLength(i, FALSE, c) \in {prog[i].short, prog[i].long}
  BY DEF TargetLength
<1> QED BY <1>2, <1>3 DEF Laid, Formed

(* How far an instruction moves the output where no mark is in force.      *)
Span(i) ==
  CASE prog[i].op = "org"  -> IF format \in Moving THEN off[following[i]] - loc[Out] ELSE 0
    [] prog[i].op = "skip" -> size[i]
    [] prog[i].op = "data" -> prog[i].short
    [] prog[i].op = "insn" -> TargetLength(i, FALSE, cur)
    [] OTHER               -> 0

(* The steps that go to the next instruction, but those of blocks.         *)
StepOn == WalkSilent \/ WalkOrg \/ WalkSkip \/ WalkData \/ WalkInsn

(* The section takes what the instruction puts out.                        *)
Taken ==
  /\ prog[at].op \in {"insn", "data"} => ~Zeroed(cur)
  /\ prog[at].op = "skip" => ~SkipIgnored(cur)

(* The output moves by d.                                                  *)
MovesBy(d) ==
  /\ loc' = [loc EXCEPT ![Out] = @ + d]
  /\ limit = NoLimit => limit' = NoLimit /\ (at \in Ins /\ Taken => d = Span(at))
  /\ limit # NoLimit => limit' \in Nat
  /\ \/ limit = NoLimit \/ limit' = limit - d
     \/ /\ at \in Ins
        /\ ~Taken \/ prog[at].op = "org" \/ (prog[at].op = "skip" /\ SkipMoves(cur))

LEMMA StepOnMoves ==
  ASSUME Laid, Tracked, stage = "walk", StepOn
  PROVE  \E d \in Int : MovesBy(d)
<1>1. /\ Typed /\ Out \in Sections /\ loc \in [Sections -> Int]
      /\ limit = NoLimit \/ limit \in Nat
  BY WalkAt DEF Tracked, Typed
<1>2. ASSUME at \in Ins, NEW n \in Nat, PutOut(at, n), n = Span(at),
             prog[at].op \in {"insn", "data"} \/ ~Zeroed(cur)
      PROVE  \E d \in Int : MovesBy(d)
  <2> PICK k \in Nat :
         /\ k <= n
         /\ loc' = IF Zeroed(cur) THEN loc ELSE [loc EXCEPT ![Out] = @ + k]
         /\ limit = NoLimit => k = n /\ limit' = NoLimit
         /\ limit # NoLimit => limit' = limit - k /\ limit' \in Nat
                               /\ (k = n \/ limit' = 0)
    BY <1>1, <1>2, PutOutMoves
  <2>1. CASE Zeroed(cur)
    <3>1. loc' = [loc EXCEPT ![Out] = @ + 0] /\ ~Taken
      BY <1>1, <1>2, <2>1 DEF Taken
    <3>2. MovesBy(0)
      BY <1>2, <3>1 DEF MovesBy
    <3> QED BY <3>2
  <2>2. CASE ~Zeroed(cur)
    <3>1. MovesBy(k)
      BY <1>2, <2>2 DEF MovesBy
    <3> QED BY <3>1
  <2> QED BY <2>1, <2>2
<1>3. CASE WalkSilent
  <2>1. UNCHANGED <<loc, limit>> /\ (at \in Ins => Span(at) = 0)
    BY <1>3 DEF WalkSilent, PutNothing, Span
  <2>2. loc' = [loc EXCEPT ![Out] = @ + 0] /\ (limit # NoLimit => limit' = limit - 0)
    BY <1>1, <2>1
  <2>3. MovesBy(0)
    BY <1>1, <2>1, <2>2 DEF MovesBy
  <2> QED BY <2>3
<1>4. CASE WalkOrg
  <2> DEFINE d == Span(at)
  <2>1. /\ at \in Ins /\ prog[at].op = "org" /\ UNCHANGED limit
        /\ loc' = IF format \in Moving THEN [loc EXCEPT ![Out] = off[following[at]]] ELSE loc
    BY <1>4 DEF WalkOrg, Visiting, OrgPlace
  <2>2. off[following[at]] \in Int
    BY <2>1, WalkAt, FieldType DEF Laid, Chained
  <2>3. d = IF format \in Moving THEN off[following[at]] - loc[Out] ELSE 0
    BY <2>1 DEF Span
  <2>4. /\ d \in Int /\ loc' = [loc EXCEPT ![Out] = @ + d]
        /\ format \notin Moving /\ limit # NoLimit => limit' = limit - d
    <3>1. loc[Out] \in Int
      BY <1>1
    <3> HIDE DEF d
    <3>2. CASE format \in Moving
      <4>1. d \in Int /\ loc[Out] + d = off[following[at]]
        BY <2>2, <2>3, <3>1, <3>2
      <4> QED BY <2>1, <3>2, <4>1
    <3>3. CASE format \notin Moving
      <4>1. d = 0 /\ loc[Out] + d = loc[Out] /\ (limit # NoLimit => limit - d = limit)
        BY <1>1, <2>3, <3>1, <3>3
      <4> QED BY <1>1, <2>1, <3>3, <4>1
    <3> QED BY <3>2, <3>3
  <2>5. MovesBy(d)
    BY <1>1, <2>1, <2>4 DEF MovesBy
  <2> QED BY <2>4, <2>5
<1>5. CASE WalkSkip
  <2>1. at \in Ins /\ prog[at].op = "skip" /\ size[at] \in Int /\ Span(at) = size[at]
    BY <1>5, FieldType DEF WalkSkip, Visiting, Laid, Span
  <2>2. CASE SkipMoves(cur) /\ UNCHANGED limit /\ loc' = [loc EXCEPT ![Out] = @ + size[at]]
    <3>1. MovesBy(size[at])
      BY <1>1, <2>1, <2>2 DEF MovesBy
    <3> QED BY <2>1, <3>1
  <2>3. CASE SkipIgnored(cur) /\ UNCHANGED <<limit, loc>>
    <3>1. loc' = [loc EXCEPT ![Out] = @ + 0] /\ (limit # NoLimit => limit' = limit - 0)
      BY <1>1, <2>3
    <3>2. ~Taken
      BY <2>1, <2>3 DEF Taken
    <3>3. MovesBy(0)
      BY <1>1, <2>1, <2>3, <3>1, <3>2 DEF MovesBy
    <3> QED BY <3>3
  <2>4. CASE ~SkipMoves(cur) /\ size[at] >= 0 /\ PutOut(at, size[at])
    <3>1. ~Zeroed(cur) /\ size[at] \in Nat
      BY <2>1, <2>4 DEF SkipMoves
    <3> QED BY <1>2, <2>1, <2>4, <3>1
  <2> QED BY <1>5, <2>2, <2>3, <2>4 DEF WalkSkip, PutNothing
<1>6. CASE WalkData
  BY <1>2, <1>6, FormType DEF WalkData, Visiting, Span
<1>7. CASE WalkInsn
  <2>1. at \in Ins /\ TargetLength(at, FALSE, cur) \in Nat /\ PutOut(at, TargetLength(at, FALSE, cur))
    BY <1>7, FormType DEF WalkInsn, Visiting
  <2>2. Span(at) = TargetLength(at, FALSE, cur)
    BY <1>7 DEF WalkInsn, Visiting, Span
  <2>3. prog[at].op = "insn"
    BY <1>7 DEF WalkInsn, Visiting
  <2> QED BY <1>2, <2>1, <2>2, <2>3
<1> QED BY <1>3, <1>4, <1>5, <1>6, <1>7 DEF StepOn

LEMMA StepOnGoes ==
  ASSUME Laid, Tracked, stage = "walk", StepOn
  PROVE  /\ at # 0 /\ at' = Follow(at) /\ UNCHANGED <<layoutRest, stage, cur, current, oldLimit>>
         /\ at \in Ins => prog[at].op \in {"equ", "times", "org", "skip", "data", "insn"}
<1>1. at \in Ins => sec[at] = cur /\ at # 0
  BY WalkAt, StreamType DEF Laid
<1>2. CASE WalkInsn
  BY <1>1, <1>2 DEF WalkInsn, Visiting, GoOn
<1>3. CASE WalkSilent \/ WalkOrg \/ WalkSkip \/ WalkData
  BY <1>1, <1>3 DEF WalkSilent, WalkOrg, WalkSkip, WalkData, Visiting, GoOn
<1> QED BY <1>2, <1>3 DEF StepOn

(* The steps of blocks.                                                    *)
LEMMA BlockGoes ==
  ASSUME Laid, Tracked, BlocksWithin, stage = "walk", WalkEndTimes \/ WalkFill \/ WalkEndFill
  PROVE  /\ UNCHANGED <<layoutRest, stage, cur, loc>>
         /\ at \in Ins /\ Follow(at) = following[at]
         /\ Closing(at) => Follow(term[at]) = following[term[at]] /\ term[at] \in Ins
<1>1. /\ UNCHANGED <<layoutRest, stage, cur, loc>>
      /\ at \in Ins
  BY DEF WalkEndTimes, WalkFill, WalkEndFill, Visiting, PutNothing
<1>2. Closing(at) => term[at] \in Ins
  BY <1>1, WalkAt, BlockHead
<1> QED BY <1>1, <1>2 DEF Follow

LEMMA EndTimesGoes ==
  ASSUME Laid, Tracked, BlocksWithin, stage = "walk", WalkEndTimes
  PROVE  /\ prog[at].op = "endtimes" /\ prog[term[at]].op = "times" /\ Closing(at)
         /\ UNCHANGED <<limit, oldLimit>>
         /\ \/ /\ LastCopy(at) /\ at' = following[at]
               /\ current' = [current EXCEPT ![at] = 0]
            \/ /\ ~LastCopy(at) /\ at' = following[term[at]]
               /\ current' = [current EXCEPT ![at] = @ + 1]
<1>1. /\ at \in Ins /\ Follow(at) = following[at] /\ prog[at].op = "endtimes" /\ Closing(at)
      /\ Follow(term[at]) = following[term[at]]
  BY BlockGoes DEF WalkEndTimes, Visiting, Closing
<1>2. Closes(term[at], at)
  BY <1>1, WalkAt, BlockHead
<1>3. prog[term[at]].op = "times"
  BY <1>1, <1>2 DEF Closes
<1> QED BY <1>1, <1>3 DEF WalkEndTimes, PutNothing, GoOn, Restarted

LEMMA FillGoes ==
  ASSUME Laid, Tracked, BlocksWithin, stage = "walk", WalkFill
  PROVE  /\ prog[at].op = "fill" /\ Opens(at) /\ at' = following[at] /\ UNCHANGED current
         /\ oldLimit' = [oldLimit EXCEPT ![at] = limit]
         /\ limit' = count[at] /\ limit' \in Nat
<1>1. at \in Ins /\ Follow(at) = following[at]
  BY BlockGoes
<1>2. count[at] \in Nat
  BY <1>1, FieldType DEF WalkFill, Laid
<1> QED BY <1>1, <1>2 DEF WalkFill, Visiting, GoOn, Opens

LEMMA EndFillGoes ==
  ASSUME Laid, Tracked, BlocksWithin, stage = "walk", WalkEndFill
  PROVE  /\ prog[at].op = "endfill" /\ prog[term[at]].op = "fill" /\ Closing(at)
         /\ UNCHANGED <<current, oldLimit>>
         /\ \/ limit = 0 /\ at' = following[at] /\ limit' = oldLimit[term[at]]
            \/ limit # 0 /\ at' = following[term[at]] /\ limit' = limit
<1>1. /\ at \in Ins /\ Follow(at) = following[at] /\ prog[at].op = "endfill" /\ Closing(at)
      /\ Follow(term[at]) = following[term[at]]
  BY BlockGoes DEF WalkEndFill, Visiting, Closing
<1>2. Closes(term[at], at)
  BY <1>1, WalkAt, BlockHead
<1>3. prog[term[at]].op = "fill"
  BY <1>1, <1>2 DEF Closes
<1> QED BY <1>1, <1>3 DEF WalkEndFill, GoOn, LimitAfter

LEMMA TrackedBlock ==
  ASSUME Laid, Tracked, BlocksWithin, stage = "walk", WalkEndTimes \/ WalkFill \/ WalkEndFill
  PROVE  Typed' /\ Here(at', cur)
<1>1. /\ UNCHANGED <<layoutRest, cur, loc>> /\ at \in Ins /\ Follow(at) = following[at]
      /\ Closing(at) => Follow(term[at]) = following[term[at]] /\ term[at] \in Ins
  BY BlockGoes
<1>2. /\ cur \in Sections /\ Here(at, cur) /\ InSection(at, cur) /\ at # 0 /\ Typed
  BY <1>1, WalkAt, StreamType DEF Laid, Tracked
<1>3. Here(following[at], cur)
  BY <1>1, <1>2, HereNext
<1>4. ASSUME Closing(at) PROVE Here(following[term[at]], cur)
  <2>1. InSection(term[at], cur) /\ term[at] # 0
    BY <1>1, <1>2, <1>4, BlockHead, StreamType DEF Laid
  <2> QED BY <1>1, <1>2, <1>4, <2>1, HereNext DEF Here
<1>5. UNCHANGED <<format, prog>> /\ Ins' = Ins /\ Sections' = Sections
  BY <1>1, WalkFrame
<1>6. CASE WalkEndTimes
  <2>1. current' \in [Ins -> Nat]
    BY <1>1, <1>2, <1>6, EndTimesGoes DEF Typed
  <2> QED BY <1>1, <1>2, <1>3, <1>4, <1>5, <1>6, <2>1, EndTimesGoes DEF Typed
<1>7. CASE WalkFill
  <2>1. oldLimit' \in [Ins -> Nat \cup {NoLimit}]
    BY <1>1, <1>2, <1>7, FillGoes DEF Typed
  <2> QED BY <1>1, <1>2, <1>3, <1>5, <1>7, <2>1, FillGoes DEF Typed
<1>8. CASE WalkEndFill
  <2>1. limit' \in Nat \cup {NoLimit}
    BY <1>1, <1>2, <1>8, EndFillGoes DEF Typed
  <2> QED BY <1>1, <1>2, <1>3, <1>4, <1>5, <1>8, <2>1, EndFillGoes DEF Typed
<1> QED BY <1>6, <1>7, <1>8

LEMMA TrackedOn ==
  ASSUME Laid, Tracked, stage = "walk", StepOn
  PROVE  Typed' /\ Here(at', cur)
<1>1. /\ at # 0 /\ at' = Follow(at) /\ UNCHANGED <<layoutRest, stage, cur, current, oldLimit>>
  BY StepOnGoes
<1>2. cur \in Sections /\ Here(at, cur) /\ Typed /\ Out \in Sections
  BY WalkAt DEF Tracked
<1>3. Here(at', cur)
  BY <1>1, <1>2, HereNext
<1>4. UNCHANGED <<format, prog>> /\ Ins' = Ins /\ Sections' = Sections
  BY <1>1, WalkFrame
<1> PICK d \in Int : MovesBy(d)
  BY StepOnMoves
<1>5. loc' \in [Sections -> Int] /\ limit' \in Nat \cup {NoLimit}
  BY <1>2 DEF MovesBy, Typed
<1> QED BY <1>1, <1>2, <1>3, <1>4, <1>5 DEF Typed

(* The steps of the walk, by where they lead.                              *)
LEMMA WalkSteps ==
  ASSUME HandOver, [AssembleNext]_allVars, stage # "layout"
  PROVE  \/ stage = "walk" /\ StepOn
         \/ stage = "walk" /\ (WalkEndTimes \/ WalkFill \/ WalkEndFill)
         \/ BeginSection
         \/ EndSection
         \/ /\ stage' = "end"
            /\ UNCHANGED <<layoutRest, cur, at, current, limit, oldLimit, loc, image>>
         \/ UNCHANGED <<layoutRest, cur, genVars>>
<1>1. CASE EndGenerate \/ WalkStop
  BY <1>1 DEF EndGenerate, WalkStop
<1>2. CASE UNCHANGED allVars
  BY <1>2 DEF allVars, vars, genVars, layoutRest
<1> QED BY <1>1, <1>2 DEF AssembleNext, Step, Walk, StepOn, Lay, BeginGenerate, WalkSilent,
    WalkOrg, WalkSkip, WalkEndTimes, WalkFill, WalkEndFill, WalkData, WalkInsn, Visiting

LEMMA WalkInvBegins ==
  ASSUME HandOver, stage = "layout", BeginGenerate, BlocksWithin
  PROVE  Tracked' /\ Laid
<1>1. LayInv /\ Untouched /\ phase = "done" /\ Laid
  BY LaidBegins DEF HandOver, BeginGenerate
<1>2. UNCHANGED <<layoutRest, current, limit, oldLimit, loc>> /\ stage' = "section" /\ cur' = 1
  BY DEF BeginGenerate
<1>3. UNCHANGED <<format, created>> /\ Ins' = Ins /\ Sections' = Sections
  BY <1>2, WalkFrame
<1>4. created \in Nat
  BY ConstantsAssumption, <1>1 DEF Laid, TypeOK
<1>5. Typed
  BY <1>1 DEF Untouched, Typed
<1> QED BY <1>1, <1>2, <1>3, <1>4, <1>5 DEF Tracked, Typed

LEMMA WalkInvStep == HandOver /\ WalkInv /\ [AssembleNext]_allVars => WalkInv'
<1> SUFFICES ASSUME HandOver, WalkInv, [AssembleNext]_allVars, stage' # "layout", BlocksWithin'
             PROVE  Tracked'
  BY DEF WalkInv
<1>1. CASE stage = "layout"
  <2>1. BeginGenerate
    BY <1>1 DEF AssembleNext, Step, Walk, BeginSection, EndSection, EndGenerate, WalkSilent,
                WalkOrg, WalkSkip, WalkEndTimes, WalkFill, WalkEndFill, WalkData, WalkInsn,
                WalkStop, Visiting, Lay, genVars, allVars
  <2>2. BlocksWithin
    BY <2>1, WalkFrame DEF BeginGenerate, BlocksWithin
  <2> QED BY <1>1, <2>1, <2>2, WalkInvBegins
<1>2. CASE stage # "layout"
  <2>1. /\ UNCHANGED layoutRest
    BY <1>2, WalkLeaves
  <2>2. /\ UNCHANGED <<format, prog, created, first, sec, term>>
        /\ Ins' = Ins /\ Sections' = Sections
    BY <2>1, WalkFrame
  <2>3. /\ Laid /\ BlocksWithin /\ Tracked
    BY <1>2, <2>1, <2>2, WalkFrame DEF BlocksWithin, HandOver, WalkInv
  <2>5. ASSUME stage' = "walk", UNCHANGED cur, Typed', Here(at', cur), stage = "walk" PROVE Tracked'
    <3>1. Here(at, cur)'
      BY <2>2, <2>5 DEF Here, InSection, EndOf
    <3> QED BY <2>2, <2>3, <2>5, <3>1 DEF Tracked
  <2>6. CASE stage = "walk" /\ StepOn
    BY <2>3, <2>5, <2>6, TrackedOn, StepOnGoes
  <2>7. CASE stage = "walk" /\ (WalkEndTimes \/ WalkFill \/ WalkEndFill)
    BY <2>3, <2>5, <2>7, TrackedBlock, BlockGoes
  <2>8. CASE BeginSection
    <3>1. /\ stage = "section" /\ cur <= created /\ stage' = "walk" /\ at' = first[cur]
          /\ UNCHANGED <<cur, current, limit, oldLimit, loc>>
      BY <2>8 DEF BeginSection
    <3>2. cur \in 1 .. created /\ cur \in Sections
      <4>1. created \in 0 .. MaxSection /\ MaxSection \in Nat /\ cur \in 1 .. created + 1
        BY ConstantsAssumption, <2>3, <3>1 DEF Laid, TypeOK, Tracked
      <4> QED BY <3>1, <4>1 DEF Sections
    <3>3. Here(first[cur], cur)
      BY <2>3, <3>2, HereFirst
    <3>4. Here(at, cur)'
      BY <2>2, <3>1, <3>3 DEF Here, InSection, EndOf
    <3>5. Typed'
      BY <2>2, <2>3, <3>1 DEF Tracked, Typed
    <3> QED BY <2>2, <3>1, <3>2, <3>4, <3>5 DEF Tracked
  <2>9. CASE EndSection
    <3>1. /\ stage = "walk" /\ stage' = "section" /\ cur' = cur + 1
          /\ UNCHANGED <<current, limit, oldLimit, loc>>
      BY <2>9 DEF EndSection
    <3>2. cur \in 1 .. created /\ created \in Nat
      BY <2>3, <3>1, WalkAt
    <3> QED BY <2>2, <2>3, <3>1, <3>2 DEF Tracked, Typed
  <2>10. CASE stage' = "end" /\ UNCHANGED <<layoutRest, cur, at, current, limit, oldLimit, loc>>
    BY <2>2, <2>3, <2>10 DEF Tracked, Typed
  <2>11. CASE UNCHANGED <<layoutRest, cur, genVars>>
    BY <2>2, <2>3, <2>11 DEF Tracked, Typed, Here, InSection, EndOf, genVars
  <2> QED BY <1>2, <2>6, <2>7, <2>8, <2>9, <2>10, <2>11, WalkSteps
<1> QED BY <1>1, <1>2
-----------------------------------------------------------------------------
(***************************************************************************)
(* The limit.                                                              *)
(***************************************************************************)
Guarded == BlocksWithin /\ FillsClosed /\ ~FillInFill

Limited ==
  /\ stage = "walk" =>
       /\ limit = NoLimit <=> ~InFill(at)
       /\ \A t \in Ins : prog[t].op = "fill" /\ InBlock(at, t) => oldLimit[t] = NoLimit
  /\ stage = "section" => limit = NoLimit

LimitInv == stage # "layout" /\ Guarded => Limited

(* Neither NULL nor the end of a chain is in a block.                      *)
LEMMA OutsideBlocks ==
  ASSUME Laid, NEW s \in Sections, NEW t \in Ins
  PROVE  ~InBlock(0, t) /\ ~InBlock(EndOf(s), t)
<1>1. t \in Nat /\ s \in Nat \ {0} /\ Len(prog) \in Nat /\ term[t] \in 0 .. Len(prog)
  BY StreamType DEF Laid, TypeOK
<1> QED BY <1>1 DEF InBlock, EndOf

(* The first instruction of a section is in no block.                      *)
LEMMA FirstOutside ==
  ASSUME Laid, NEW s \in Sections, NEW t \in Ins, Opens(t)
  PROVE  ~InBlock(first[s], t)
<1>1. CASE first[s] = 0
  BY <1>1, OutsideBlocks
<1>2. CASE first[s] # 0
  <2>1. /\ first[s] \in Ins /\ InSection(first[s], s)
        /\ \A i \in Ins : InSection(i, s) => first[s] <= i
    BY <1>2 DEF Laid, FromZero
  <2>2. sec[t] = s => first[s] <= t
    BY <2>1 DEF InSection, Opens
  <2>3. first[s] \in Nat /\ t \in Nat /\ sec[first[s]] = s
    BY <2>1, StreamType DEF Laid, InSection
  <2> QED BY <2>2, <2>3 DEF InBlock
<1> QED BY <1>1, <1>2

LEMMA FillNext ==
  ASSUME Laid, BlocksWithin, NEW i, NEW s \in Sections, i # 0, Here(i, s),
         i \in Ins => prog[i].op \notin {"fill", "endfill"},
         NEW t \in Ins, prog[t].op = "fill"
  PROVE  InBlock(Follow(i), t) <=> InBlock(i, t)
<1>1. Opens(t) /\ (term[t] # 0 => prog[term[t]].op = "endfill")
  <2>1. Opens(t)
    BY DEF Opens
  <2> QED BY <2>1, BlockTail DEF Closes
<1>2. CASE i \in Ins
  <2>1. i # 0 /\ i # EndOf(s)
    <3>1. Len(prog) \in Nat /\ s \in Nat \ {0} /\ Ins = 1 .. Len(prog)
      BY StreamType DEF Laid
    <3> QED BY <1>2, <3>1 DEF EndOf
  <2>2. InSection(i, s) /\ Follow(i) = following[i] /\ i # t /\ i # term[t]
    BY <1>1, <1>2, <2>1 DEF Here, Follow
  <2> QED BY <1>1, <1>2, <2>2, NextBlocks
<1>3. CASE i \notin Ins
  <2>1. i = EndOf(s) /\ Follow(i) = 0
    BY <1>3 DEF Here, Follow
  <2> QED BY <2>1, OutsideBlocks
<1> QED BY <1>2, <1>3

LEMMA LimitOn ==
  ASSUME Laid, Tracked, Guarded, Limited, stage = "walk", StepOn
  PROVE  /\ limit' = NoLimit <=> ~InFill(at')
         /\ \A t \in Ins : prog[t].op = "fill" /\ InBlock(at', t) => oldLimit'[t] = NoLimit
<1>1. /\ at # 0 /\ at' = Follow(at) /\ UNCHANGED oldLimit
      /\ at \in Ins => prog[at].op \in {"equ", "times", "org", "skip", "data", "insn"}
  BY StepOnGoes
<1>2. cur \in Sections /\ Here(at, cur)
  BY WalkAt
<1>3. \A t \in Ins : prog[t].op = "fill" => (InBlock(at', t) <=> InBlock(at, t))
  BY <1>1, <1>2, FillNext DEF Guarded
<1>4. InFill(at') <=> InFill(at)
  BY <1>3 DEF InFill
<1>5. limit' = NoLimit <=> limit = NoLimit
  <2> PICK d \in Int : MovesBy(d)
    BY StepOnMoves
  <2>1. limit # NoLimit => limit' # NoLimit
    BY DEF MovesBy, NoLimit
  <2> QED BY <2>1 DEF MovesBy
<1> QED BY <1>1, <1>3, <1>4, <1>5 DEF Limited

LEMMA LimitTimes ==
  ASSUME Laid, Tracked, Guarded, Limited, stage = "walk", WalkEndTimes
  PROVE  /\ limit' = NoLimit <=> ~InFill(at')
         /\ \A t \in Ins : prog[t].op = "fill" /\ InBlock(at', t) => oldLimit'[t] = NoLimit
<1>1. /\ prog[at].op = "endtimes" /\ Closing(at) /\ UNCHANGED <<limit, oldLimit>>
      /\ at' = following[at] \/ at' = following[term[at]]
  BY EndTimesGoes DEF Guarded
<1>2. /\ at \in Ins /\ Follow(at) = following[at] /\ cur \in Sections /\ InSection(at, cur)
      /\ at # 0 /\ Here(at, cur) /\ BlocksWithin
  BY BlockGoes, WalkAt, StreamType DEF Guarded, Laid
<1>3. \A t \in Ins : prog[t].op = "fill" => (InBlock(at', t) <=> InBlock(at, t))
  <2>1. \A t \in Ins : prog[t].op = "fill" => (InBlock(following[at], t) <=> InBlock(at, t))
    BY <1>1, <1>2, FillNext
  <2>2. \A t \in Ins : prog[t].op = "fill" => (InBlock(following[term[at]], t) <=> InBlock(at, t))
    BY <1>1, <1>2, BackBlocks DEF Opens
  <2> QED BY <1>1, <2>1, <2>2
<1>4. InFill(at') <=> InFill(at)
  BY <1>3 DEF InFill
<1> QED BY <1>1, <1>3, <1>4 DEF Limited

LEMMA LimitFill ==
  ASSUME Laid, Tracked, Guarded, Limited, stage = "walk", WalkFill
  PROVE  /\ limit' = NoLimit <=> ~InFill(at')
         /\ \A t \in Ins : prog[t].op = "fill" /\ InBlock(at', t) => oldLimit'[t] = NoLimit
<1>1. /\ prog[at].op = "fill" /\ Opens(at) /\ at' = following[at]
      /\ oldLimit' = [oldLimit EXCEPT ![at] = limit]
      /\ limit' \in Nat
  BY FillGoes DEF Guarded
<1>2. /\ at \in Ins /\ cur \in Sections /\ InSection(at, cur) /\ BlocksWithin
      /\ oldLimit \in [Ins -> Nat \cup {NoLimit}]
  BY BlockGoes, WalkAt DEF Guarded, Tracked, Typed
<1>3. ~InFill(at) /\ term[at] # 0
  BY <1>1, <1>2 DEF Guarded, FillInFill, FillsClosed
<1>4. \A t \in Ins : prog[t].op = "fill" => (InBlock(at', t) <=> t = at)
  <2> SUFFICES ASSUME NEW t \in Ins, prog[t].op = "fill" PROVE InBlock(at', t) <=> t = at
    OBVIOUS
  <2>1. ~InBlock(at, t) /\ Opens(t)
    BY <1>3 DEF InFill, Opens
  <2>2. InBlock(at', t) <=> (InBlock(at, t) /\ at # term[t]) \/ (at = t /\ term[t] # 0)
    BY <1>1, <1>2, <2>1, NextBlocks
  <2> QED BY <1>3, <2>1, <2>2
<1>5. InFill(at')
  BY <1>1, <1>2, <1>4 DEF InFill
<1>6. limit = NoLimit
  BY <1>3 DEF Limited
<1>7. oldLimit'[at] = NoLimit
  BY <1>1, <1>2, <1>6
<1>8. limit' # NoLimit
  BY <1>1 DEF NoLimit
<1> QED BY <1>4, <1>5, <1>7, <1>8

LEMMA LimitEndFill ==
  ASSUME Laid, Tracked, Guarded, Limited, stage = "walk", WalkEndFill
  PROVE  /\ limit' = NoLimit <=> ~InFill(at')
         /\ \A t \in Ins : prog[t].op = "fill" /\ InBlock(at', t) => oldLimit'[t] = NoLimit
<1> DEFINE u == term[at]
<1>1. /\ prog[at].op = "endfill" /\ prog[u].op = "fill" /\ Closing(at) /\ UNCHANGED oldLimit
      /\ \/ limit = 0 /\ at' = following[at] /\ limit' = oldLimit[u]
         \/ limit # 0 /\ at' = following[u] /\ limit' = limit
  BY EndFillGoes DEF Guarded
<1>2. at \in Ins /\ cur \in Sections /\ InSection(at, cur) /\ BlocksWithin
  BY BlockGoes, WalkAt DEF Guarded
<1>3. u \in Ins /\ term[u] = at /\ InBlock(at, u) /\ InSection(u, cur)
  BY <1>1, <1>2, BlockHead
<1>4. oldLimit[u] = NoLimit /\ limit # NoLimit
  BY <1>1, <1>3 DEF Limited, InFill
<1>5. ASSUME NEW t \in Ins, prog[t].op = "fill"
      PROVE  /\ InBlock(at, t) <=> t = u
             /\ ~InBlock(following[at], t)
             /\ InBlock(following[u], t) <=> t = u
  <2>1. Opens(t) /\ at # t
    BY <1>1, <1>5 DEF Opens
  <2>2. InBlock(u, t) <=> InBlock(at, t) /\ t # u
    BY <1>1, <1>2, <2>1, BackBlocks
  <2>3. ~InBlock(u, t)
    BY <1>1, <1>3, <1>5 DEF Guarded, FillInFill, InFill
  <2>4. InBlock(at, t) <=> t = u
    BY <1>3, <2>2, <2>3
  <2>5. InBlock(following[at], t) <=> (InBlock(at, t) /\ at # term[t]) \/ (at = t /\ term[t] # 0)
    BY <1>2, <2>1, NextBlocks
  <2>6. InBlock(following[u], t) <=> InBlock(at, t)
    BY <1>1, <1>2, <2>1, BackBlocks
  <2> QED BY <1>3, <2>1, <2>4, <2>5, <2>6
<1>6. CASE limit = 0
  BY <1>1, <1>4, <1>5, <1>6 DEF InFill
<1>7. CASE limit # 0
  BY <1>1, <1>3, <1>4, <1>5, <1>7 DEF InFill
<1> QED BY <1>6, <1>7

LEMMA LimitStep == HandOver /\ WalkInv /\ LimitInv /\ [AssembleNext]_allVars => LimitInv'
<1> SUFFICES ASSUME HandOver, WalkInv, LimitInv, [AssembleNext]_allVars, stage' # "layout",
                    Guarded'
             PROVE  Limited'
  BY DEF LimitInv
<1>1. CASE stage = "layout"
  <2>1. BeginGenerate
    BY <1>1 DEF AssembleNext, Step, Walk, BeginSection, EndSection, EndGenerate, WalkSilent,
                WalkOrg, WalkSkip, WalkEndTimes, WalkFill, WalkEndFill, WalkData, WalkInsn,
                WalkStop, Visiting, Lay, genVars, allVars
  <2>2. stage' = "section" /\ limit' = NoLimit
    BY <1>1, <2>1 DEF BeginGenerate, HandOver, Untouched
  <2> QED BY <2>2 DEF Limited
<1>2. CASE stage # "layout"
  <2>1. UNCHANGED layoutRest
    BY <1>2, WalkLeaves
  <2>2. /\ UNCHANGED <<prog, created, first, sec, term>> /\ Ins' = Ins
        /\ \A i, t \in Ins : InBlock(i, t)' <=> InBlock(i, t)
    BY <2>1, WalkFrame DEF InBlock
  <2>3. Guarded
    BY <2>2 DEF Guarded, BlocksWithin, Opens, FillsClosed, FillInFill, InFill
  <2>4. Laid /\ BlocksWithin /\ Tracked /\ Limited
    BY <1>2, <2>3 DEF HandOver, WalkInv, LimitInv, Guarded
  <2>5. ASSUME stage' = "walk", limit' = NoLimit <=> ~InFill(at'),
               \A t \in Ins : prog[t].op = "fill" /\ InBlock(at', t) => oldLimit'[t] = NoLimit
        PROVE  Limited'
    BY <2>2, <2>5 DEF Limited, InFill, InBlock
  <2>6. CASE stage = "walk" /\ StepOn
    BY <2>3, <2>4, <2>5, <2>6, LimitOn, StepOnGoes
  <2>7. CASE stage = "walk" /\ (WalkEndTimes \/ WalkFill \/ WalkEndFill)
    BY <2>3, <2>4, <2>5, <2>7, LimitTimes, LimitFill, LimitEndFill, BlockGoes
  <2>8. CASE BeginSection
    <3>1. /\ stage = "section" /\ cur <= created /\ stage' = "walk" /\ at' = first[cur]
          /\ UNCHANGED limit
      BY <2>8 DEF BeginSection
    <3>2. cur \in Sections
      <4>1. created \in 0 .. MaxSection /\ MaxSection \in Nat /\ cur \in 1 .. created + 1
        BY ConstantsAssumption, <2>4, <3>1 DEF Laid, TypeOK, Tracked
      <4> QED BY <3>1, <4>1 DEF Sections
    <3>3. \A t \in Ins : prog[t].op = "fill" => ~InBlock(at', t)
      BY <2>4, <3>1, <3>2, FirstOutside DEF Opens
    <3>4. limit' = NoLimit /\ ~InFill(at')
      BY <2>4, <3>1, <3>3 DEF Limited, InFill
    <3> QED BY <2>5, <3>1, <3>3, <3>4
  <2>9. CASE EndSection
    <3>1. stage = "walk" /\ stage' = "section" /\ at = 0 /\ UNCHANGED limit
      BY <2>9 DEF EndSection
    <3>2. ~InFill(at)
      BY <2>4, <3>1, WalkAt, OutsideBlocks DEF InFill
    <3> QED BY <2>4, <3>1, <3>2 DEF Limited
  <2>10. CASE stage' = "end"
    BY <2>10 DEF Limited
  <2>11. CASE UNCHANGED <<layoutRest, cur, genVars>>
    BY <2>2, <2>4, <2>11 DEF Limited, InFill, InBlock, genVars
  <2> QED BY <1>2, <2>6, <2>7, <2>8, <2>9, <2>10, <2>11, WalkSteps
<1> QED BY <1>1, <1>2

Passage == HandOver /\ WalkInv /\ LimitInv

LEMMA PassageInit == AssembleInit => Passage
BY HandOverInit DEF AssembleInit, GenInit, Passage, WalkInv, LimitInv

LEMMA PassageStep == Passage /\ [AssembleNext]_allVars => Passage'
BY HandOverStep, WalkInvStep, LimitStep DEF Passage

(* For every program whose blocks each lie in one section and whose marks  *)
(* are closed and not nested, the limit of output_byte is in force exactly *)
(* while the walk is inside a .fill block (asm.c:1186-1199).               *)
THEOREM FillsBoundedForAll == AssembleSpec => []FillsBounded
<1>1. Passage => FillsBounded
  BY DEF Passage, LimitInv, Limited, Guarded, FillsBounded
<1> QED BY <1>1, PassageInit, PassageStep, PTL DEF AssembleSpec
-----------------------------------------------------------------------------
(***************************************************************************)
(* The location.  c stands for current, so that the sums can be compared   *)
(* between one state and the next, where the rest of the layout is the     *)
(* same.                                                                   *)
(***************************************************************************)
MovedBy(c, i, t) ==
  IF prog[t].op = "times" /\ InBlock(i, t)
  THEN c[term[t]] * (off[term[t]] - off[t]) ELSE 0

Moves(c, i) == [t \in Ins |-> MovedBy(c, i, t)]

ShiftBy(c, i) == SumUpTo(Moves(c, i), Len(prog))

LEMMA ShiftIs == \A i : Shift(i) = ShiftBy(current, i)
BY DEF Shift, ShiftBy, Moves, Moved, MovedBy

LEMMA MovesType ==
  ASSUME Laid, NEW c \in [Ins -> Nat], NEW i \in Nat
  PROVE  /\ Len(prog) \in Nat /\ Ins = 1 .. Len(prog)
         /\ Moves(c, i) \in [1 .. Len(prog) -> Int]
         /\ ShiftBy(c, i) \in Int
<1>1. Len(prog) \in Nat /\ Ins = 1 .. Len(prog) /\ TypeOK
  BY StreamType DEF Laid
<1>2. \A t \in Ins : MovedBy(c, i, t) \in Int
  <2> SUFFICES ASSUME NEW t \in Ins, InBlock(i, t) PROVE c[term[t]] * (off[term[t]] - off[t]) \in Int
    BY DEF MovedBy
  <2>1. term[t] \in 0 .. Len(prog) /\ t \in Nat /\ t \in Nodes /\ Ins \subseteq Nodes
    BY <1>1, FieldType, IndexType DEF TypeOK
  <2>2. term[t] \in Ins
    BY <1>1, <2>1 DEF InBlock
  <2>3. off[term[t]] \in Nat /\ off[t] \in Nat /\ c[term[t]] \in Nat
    BY <1>1, <2>1, <2>2 DEF TypeOK
  <2> QED BY <2>3
<1>3. Moves(c, i) \in [1 .. Len(prog) -> Int]
  BY <1>1, <1>2 DEF Moves
<1> QED BY <1>1, <1>3, SumType DEF ShiftBy

LEMMA ShiftAlike ==
  ASSUME NEW c, NEW d, NEW i, NEW j, \A t \in Ins : MovedBy(c, i, t) = MovedBy(d, j, t)
  PROVE  ShiftBy(c, i) = ShiftBy(d, j)
BY DEF ShiftBy, Moves

LEMMA ShiftNone ==
  ASSUME Laid, NEW c, NEW i, \A t \in Ins : Opens(t) => ~InBlock(i, t)
  PROVE  ShiftBy(c, i) = 0
<1>1. Len(prog) \in Nat /\ Ins = 1 .. Len(prog)
  BY StreamType DEF Laid
<1>2. \A t \in 1 .. Len(prog) : Moves(c, i)[t] = 0
  BY <1>1 DEF Moves, MovedBy, Opens
<1> QED BY <1>1, <1>2, SumZero DEF ShiftBy

MovedAlike(c, i, d, j, u) == \A t \in Ins : t # u => MovedBy(c, i, t) = MovedBy(d, j, t)

LEMMA ShiftBut ==
  ASSUME Laid, NEW c \in [Ins -> Nat], NEW d \in [Ins -> Nat], NEW i \in Nat, NEW j \in Nat,
         NEW u \in Ins, MovedAlike(c, i, d, j, u)
  PROVE  ShiftBy(d, j) = ShiftBy(c, i) - MovedBy(c, i, u) + MovedBy(d, j, u)
<1>1. /\ Len(prog) \in Nat /\ u \in 1 .. Len(prog) /\ Ins = 1 .. Len(prog)
      /\ Moves(c, i) \in [1 .. Len(prog) -> Int] /\ Moves(d, j) \in [1 .. Len(prog) -> Int]
  BY MovesType
<1>2. AlikeBut(Moves(c, i), Moves(d, j), Len(prog), u)
  BY <1>1 DEF AlikeBut, Moves, MovedAlike
<1>3. Moves(c, i)[u] = MovedBy(c, i, u) /\ Moves(d, j)[u] = MovedBy(d, j, u)
  BY DEF Moves
<1>4. \A f, g \in [1 .. Len(prog) -> Int] :
        AlikeBut(f, g, Len(prog), u) => SumUpTo(g, Len(prog)) = SumUpTo(f, Len(prog)) - f[u] + g[u]
  BY <1>1, SumChange
<1>5. SumUpTo(Moves(d, j), Len(prog))
        = SumUpTo(Moves(c, i), Len(prog)) - Moves(c, i)[u] + Moves(d, j)[u]
  BY <1>1, <1>2, <1>4
<1> QED BY <1>3, <1>5 DEF ShiftBy
-----------------------------------------------------------------------------
Sure == Steady /\ ~FillInFill

(* Outside the .fill blocks the output is at the offset and its shift...   *)
PlaceAt(c, n, x) == n # 0 /\ ~InFill(n) => x = off[n] + ShiftBy(c, n)

(* ... and inside one, as far from the mark as the limit says.             *)
MarkAt(c, n, x, l) ==
  \A t \in Ins : prog[t].op = "fill" /\ InBlock(n, t) =>
    x + l = off[t] + ShiftBy(c, t) + count[t]

(* A counter is at 0 outside its block.                                    *)
CountsAt(c, n) ==
  \A u \in Ins : prog[u].op = "times" /\ term[u] # 0 =>
    /\ count[u] > 0 => c[term[u]] <= count[u] - 1
    /\ ~InBlock(n, u) => c[term[u]] = 0

Even(c, n, x, l) == PlaceAt(c, n, x) /\ MarkAt(c, n, x, l) /\ CountsAt(c, n)

(* What Steady says of the chains, in the terms of the other lemmas.       *)
LEMMA SureIs ==
  Sure => /\ Regular /\ BlocksWithin /\ FillsClosed /\ ~FillInFill /\ Guarded
          /\ format \in Flat => created <= 1
BY DEF Sure, Steady, Regular, Guarded

(* ... and of the sections: they take what is put into them.               *)
LEMMA SureTakes ==
  ASSUME Sure, at \in Ins, Chained(at), sec[at] = cur
  PROVE  Taken
BY DEF Sure, Steady, Taken

(* Where there is no block, the next instruction is as far as this one     *)
(* moves the output.                                                       *)
LEMMA SpanIsRoom ==
  ASSUME Laid, Sure, NEW i \in Ins, Chained(i), sec[i] = cur,
         prog[i].op \in {"equ", "times", "skip", "data", "insn"}
  PROVE  off[following[i]] = off[i] + Span(i)
<1>1. Rigid(i)
  BY SureIs DEF Regular
<1>2. off[following[i]] = off[i] + size[i]
  BY <1>1 DEF Laid, Behind
<1>3. CASE prog[i].op \in {"equ", "times"}
  <2>1. 0 <= size[i] /\ size[i] <= 0 /\ size[i] \in Int
    BY <1>1, <1>3, FieldType DEF Laid, Bounded, Cap
  <2>2. size[i] = 0
    BY <2>1
  <2>3. Span(i) = 0
    BY <1>3 DEF Span
  <2> QED BY <1>2, <2>2, <2>3
<1>4. CASE prog[i].op \in {"skip", "data"}
  BY <1>2, <1>4, FormType DEF Span
<1>5. CASE prog[i].op = "insn"
  <2>1. TargetLength(i, FALSE, cur) = size[i]
    <3>1. CASE Direct(prog[i].arg)
      BY <1>5, <3>1 DEF Laid, Chosen
    <3>2. CASE prog[i].short = prog[i].long
      BY <1>5, <3>2, FormType DEF Laid, Formed
    <3> QED BY <1>5, <3>1, <3>2 DEF Sure, Steady
  <2> QED BY <1>2, <1>5, <2>1 DEF Span
<1> QED BY <1>3, <1>4, <1>5

LEMMA PlainNext ==
  ASSUME Laid, BlocksWithin, NEW i, NEW s \in Sections, i # 0, Here(i, s),
         i \in Ins => ~Closing(i), NEW t \in Ins, Opens(t)
  PROVE  InBlock(Follow(i), t) <=> InBlock(i, t) \/ (i = t /\ term[t] # 0)
<1>1. term[t] # 0 => Closing(term[t])
  BY BlockTail
<1>2. CASE i \in Ins
  <2>1. i # EndOf(s)
    <3>1. Len(prog) \in Nat /\ s \in Nat \ {0} /\ Ins = 1 .. Len(prog)
      BY StreamType DEF Laid
    <3> QED BY <1>2, <3>1 DEF EndOf
  <2>2. InSection(i, s) /\ Follow(i) = following[i] /\ i # term[t]
    BY <1>1, <1>2, <2>1 DEF Here, Follow
  <2> QED BY <1>2, <2>2, NextBlocks
<1>3. CASE i \notin Ins
  <2>1. i = EndOf(s) /\ Follow(i) = 0
    BY <1>3 DEF Here, Follow
  <2> QED BY <1>3, <2>1, OutsideBlocks
<1> QED BY <1>2, <1>3

(* To the next instruction.                                                *)
LEMMA EvenOn ==
  ASSUME Laid, Sure, NEW c \in [Ins -> Nat], NEW i, NEW s \in Sections, i # 0, Here(i, s),
         i \in Ins => prog[i].op \in {"equ", "times", "org", "skip", "data", "insn"},
         NEW x, NEW l, NEW y, NEW m, Even(c, i, x, l),
         i \in Ins /\ ~InFill(i) => y = off[following[i]] + ShiftBy(c, i),
         InFill(i) => y + m = x + l
  PROVE  Even(c, Follow(i), y, m)
<1>1. BlocksWithin /\ (i \in Ins => ~Closing(i) /\ prog[i].op \notin {"fill", "endfill"})
  BY SureIs DEF Closing
<1>2. \A t \in Ins : Opens(t) =>
        (InBlock(Follow(i), t) <=> InBlock(i, t) \/ (i = t /\ term[t] # 0))
  BY <1>1, PlainNext
<1>3. \A t \in Ins : prog[t].op = "fill" => (InBlock(Follow(i), t) <=> InBlock(i, t))
  BY <1>1, FillNext
<1>4. InFill(Follow(i)) <=> InFill(i)
  BY <1>3 DEF InFill
<1>5. ShiftBy(c, Follow(i)) = ShiftBy(c, i)
  <2>1. ASSUME NEW t \in Ins PROVE MovedBy(c, Follow(i), t) = MovedBy(c, i, t)
    <3>1. CASE prog[t].op = "times" /\ i = t /\ term[t] # 0
      <4>1. ~InBlock(i, t)
        BY <3>1, StreamType DEF Laid, InBlock
      <4>2. c[term[t]] = 0
        BY <3>1, <4>1 DEF Even, CountsAt
      <4>3. off[term[t]] - off[t] \in Int
        <5>1. t \in Nodes /\ term[t] \in Nodes
          BY <3>1, FieldType DEF Laid
        <5> QED BY <5>1 DEF Laid, TypeOK
      <4> QED BY <4>1, <4>2, <4>3 DEF MovedBy
    <3>2. CASE prog[t].op = "times" /\ ~(i = t /\ term[t] # 0)
      BY <1>2, <3>2 DEF MovedBy, Opens
    <3>3. CASE prog[t].op # "times"
      BY <3>3 DEF MovedBy
    <3> QED BY <3>1, <3>2, <3>3
  <2> QED BY <2>1, ShiftAlike
<1>6. PlaceAt(c, Follow(i), y)
  BY <1>4, <1>5 DEF PlaceAt, Follow
<1>7. MarkAt(c, Follow(i), y, m)
  BY <1>3 DEF Even, MarkAt, InFill
<1>8. CountsAt(c, Follow(i))
  BY <1>2 DEF Even, CountsAt, Opens
<1> QED BY <1>6, <1>7, <1>8 DEF Even

(* The end of a .times: on behind it, or back for one more copy.           *)
LEMMA TimesShape ==
  ASSUME Laid, Sure, NEW e \in Ins, NEW s \in Sections, InSection(e, s),
         prog[e].op = "endtimes"
  PROVE  LET u == term[e]
         IN  /\ u \in Ins /\ term[u] = e /\ prog[u].op = "times" /\ InBlock(e, u)
             /\ \A t \in Ins : term[t] = e => t = u
             /\ InSection(u, s) /\ Chained(u) /\ Chained(e) /\ Closing(e)
             /\ off[following[e]] = off[u] + (off[e] - off[u]) * count[u]
             /\ off[following[u]] = off[u]
             /\ off[e] \in Nat /\ off[u] \in Nat /\ count[u] \in Nat
<1> DEFINE u == term[e]
<1>1. Closing(e) /\ BlocksWithin /\ Regular
  BY SureIs DEF Closing
<1>2. u \in Ins /\ term[u] = e /\ Closes(u, e) /\ Opens(u) /\ InSection(u, s) /\ InBlock(e, u)
  BY <1>1, BlockHead
<1>3. prog[u].op = "times"
  BY <1>2 DEF Closes
<1>4. \A t \in Ins : term[t] = e => t = u
  BY <1>2, StreamType DEF Laid, Paired
<1>5. Chained(u) /\ Chained(e)
  <2>1. following[u] # 0 /\ following[e] # 0
    BY <1>2, StreamType DEF Laid, Linked, NextIn, EndOf
  <2> QED BY <2>1 DEF Chained
<1>6. e # 0 /\ u # 0 /\ term[u] # 0
  BY <1>2, StreamType DEF Laid
<1>7. off[following[e]] = off[u] + (off[e] - off[u]) * count[u]
  BY <1>1, <1>5, <1>6 DEF Laid, Around, Extent
<1>8. off[following[u]] = off[u]
  <2>1. Rigid(u)
    BY <1>3 DEF Rigid
  <2>2. 0 <= size[u] /\ size[u] <= 0 /\ size[u] \in Int
    BY <1>2, <1>3, <2>1, FieldType DEF Laid, Bounded, Cap
  <2>3. off[following[u]] = off[u] + size[u] /\ off[u] \in Nat
    BY <1>2, <1>5, <2>1, FieldType DEF Laid, Behind
  <2> QED BY <2>2, <2>3
<1>9. off[e] \in Nat /\ off[u] \in Nat /\ count[u] \in Nat
  <2>1. off[e] \in Nat /\ off[u] \in Nat /\ count[u] \in Int
    BY <1>2, FieldType DEF Laid
  <2>2. count[u] >= 0
    BY <1>1, <1>2, <1>6 DEF Regular
  <2> QED BY <2>1, <2>2
<1> QED BY <1>1, <1>2, <1>3, <1>4, <1>5, <1>7, <1>8, <1>9

(* The counter at e is that of the block u alone, and the only one that c  *)
(* and d do not share; i and n are in the same other blocks.               *)
EndsOnly(e, u)          == \A t \in Ins : term[t] = e => t = u
CountBut(c, d, e)       == \A j \in Ins : j # e => d[j] = c[j]
BlocksAlike(i, n, u)    ==
  \A t \in Ins : prog[t].op = "times" /\ t # u => (InBlock(i, t) <=> InBlock(n, t))

(* The blocks other than u count and shift as before.                      *)
LEMMA TimesOther ==
  ASSUME Laid, NEW e \in Ins, NEW u \in Ins, EndsOnly(e, u), NEW c, NEW d, CountBut(c, d, e),
         NEW i \in Nat, NEW n \in Nat, BlocksAlike(i, n, u)
  PROVE  MovedAlike(c, i, d, n, u)
<1> SUFFICES ASSUME NEW t \in Ins, t # u PROVE MovedBy(c, i, t) = MovedBy(d, n, t)
  BY DEF MovedAlike
<1>1. term[t] # e
  BY DEF EndsOnly
<1>2. InBlock(i, t) => term[t] \in Ins
  <2>1. t \in Nat /\ t # 0 /\ term[t] \in 0 .. Len(prog) /\ Len(prog) \in Nat /\ Ins = 1 .. Len(prog)
    BY StreamType DEF Laid, TypeOK
  <2> QED BY <2>1 DEF InBlock
<1>3. InBlock(i, t) => d[term[t]] = c[term[t]]
  BY <1>1, <1>2 DEF CountBut
<1> QED BY <1>3 DEF MovedBy, BlocksAlike

(* A .fill around a .times does not move while that one is repeated.       *)
LEMMA MarkTimes ==
  ASSUME Laid, Sure, NEW e \in Ins, NEW s \in Sections, InSection(e, s),
         prog[e].op = "endtimes",
         NEW c, NEW d, CountBut(c, d, e),
         NEW t \in Ins, prog[t].op = "fill", InBlock(e, t)
  PROVE  ShiftBy(d, t) = ShiftBy(c, t)
<1> DEFINE u == term[e]
<1>1. /\ u \in Ins /\ term[u] = e /\ prog[u].op = "times" /\ Closing(e)
      /\ EndsOnly(e, u)
  BY TimesShape DEF EndsOnly
<1>2. BlocksWithin /\ Opens(t) /\ t # u
  BY <1>1, SureIs DEF Opens
<1>3. InBlock(u, t)
  BY <1>1, <1>2, BackBlocks
<1>4. t \in Nat /\ u \in Nat
  BY <1>1, StreamType DEF Laid
<1>5. ~InBlock(t, u)
  BY <1>3, <1>4 DEF InBlock
<1>6. \A v \in Ins : MovedBy(d, t, v) = MovedBy(c, t, v)
  <2> HIDE DEF u
  <2>1. MovedBy(d, t, u) = MovedBy(c, t, u)
    BY <1>5 DEF MovedBy
  <2>2. BlocksAlike(t, t, u)
    BY DEF BlocksAlike
  <2>3. MovedAlike(c, t, d, t, u)
    BY <1>1, <1>4, <2>2, TimesOther
  <2> QED BY <2>1, <2>3 DEF MovedAlike
<1> QED BY <1>6, ShiftAlike

LEMMA Copies ==
  ASSUME NEW a \in Int, NEW b \in Int, NEW k \in Int, NEW n \in Int, k = n - 1
  PROVE  b + (b - a) * k = a + (b - a) * n
<1>1. (b - a) * n = (b - a) * k + (b - a)
  OBVIOUS
<1>2. (b - a) * k \in Int
  OBVIOUS
<1> QED BY <1>1, <1>2

LEMMA EvenLast ==
  ASSUME Laid, Sure, NEW e \in Ins, NEW s \in Sections, InSection(e, s),
         prog[e].op = "endtimes",
         NEW c \in [Ins -> Nat], NEW d \in [Ins -> Nat], CountBut(c, d, e),
         NEW x, NEW l, Even(c, e, x, l),
         count[term[e]] > 0, c[e] >= count[term[e]] - 1, d[e] = 0
  PROVE  Even(d, following[e], x, l)
<1> DEFINE u == term[e]
           f == following[e]
<1>1. /\ u \in Ins /\ term[u] = e /\ prog[u].op = "times" /\ InBlock(e, u) /\ Closing(e)
      /\ EndsOnly(e, u)
      /\ off[f] = off[u] + (off[e] - off[u]) * count[u]
      /\ off[e] \in Nat /\ off[u] \in Nat /\ count[u] \in Nat
  BY TimesShape DEF EndsOnly
<1>2. BlocksWithin /\ e \in Nat /\ f \in Nat /\ e # 0
  BY SureIs, StreamType DEF Laid
<1>3. \A t \in Ins : Opens(t) /\ t # u => (InBlock(f, t) <=> InBlock(e, t))
  <2> SUFFICES ASSUME NEW t \in Ins, Opens(t), t # u PROVE InBlock(f, t) <=> InBlock(e, t)
    OBVIOUS
  <2>1. e # t /\ e # term[t]
    BY <1>1 DEF Opens, Closing, EndsOnly
  <2> QED BY <1>2, <2>1, NextBlocks
<1>4. ~InBlock(f, u)
  <2>1. e # u /\ Opens(u)
    BY <1>1 DEF Opens
  <2> HIDE DEF u
  <2>2. InBlock(f, u) <=> (InBlock(e, u) /\ e # term[u]) \/ (e = u /\ term[u] # 0)
    BY <1>1, <1>2, <2>1, NextBlocks
  <2> QED BY <1>1, <2>1, <2>2
<1>5. InFill(f) <=> InFill(e)
  BY <1>1, <1>3 DEF InFill, Opens
<1>6. c[e] = count[u] - 1
  <2>1. c[e] <= count[u] - 1
    BY <1>1, <1>2 DEF Even, CountsAt
  <2> QED BY <1>1, <2>1
<1> HIDE DEF u, f
<1>7. ShiftBy(d, f) = ShiftBy(c, e) - MovedBy(c, e, u) + MovedBy(d, f, u)
  <2>1. BlocksAlike(e, f, u)
    BY <1>3 DEF BlocksAlike, Opens
  <2>2. MovedAlike(c, e, d, f, u)
    BY <1>1, <1>2, <2>1, TimesOther
  <2> QED BY <1>1, <1>2, <2>2, ShiftBut
<1>8. MovedBy(d, f, u) = 0 /\ MovedBy(c, e, u) = (off[e] - off[u]) * c[e]
  BY <1>1, <1>4 DEF MovedBy
<1>9. ShiftBy(c, e) \in Int
  BY <1>2, MovesType
<1>10. PlaceAt(d, f, x)
  <2> SUFFICES ASSUME ~InFill(e) PROVE x = off[f] + ShiftBy(d, f)
    BY <1>5 DEF PlaceAt
  <2>1. x = off[e] + ShiftBy(c, e)
    BY <1>2 DEF Even, PlaceAt
  <2>2. off[e] + (off[e] - off[u]) * c[e] = off[f]
    BY <1>1, <1>6, Copies
  <2>3. (off[e] - off[u]) * c[e] \in Int
    BY <1>1, <1>6
  <2>4. off[f] \in Int
    BY <1>1, <2>2, <2>3
  <2> QED BY <1>1, <1>7, <1>8, <1>9, <2>1, <2>2, <2>3, <2>4
<1>11. MarkAt(d, f, x, l)
  <2> SUFFICES ASSUME NEW t \in Ins, prog[t].op = "fill", InBlock(f, t)
               PROVE  x + l = off[t] + ShiftBy(d, t) + count[t]
    BY DEF MarkAt
  <2>1. InBlock(e, t)
    BY <1>1, <1>3 DEF Opens
  <2>2. ShiftBy(d, t) = ShiftBy(c, t)
    BY <2>1, MarkTimes
  <2> QED BY <2>1, <2>2 DEF Even, MarkAt
<1>12. CountsAt(d, f)
  <2> SUFFICES ASSUME NEW t \in Ins, prog[t].op = "times", term[t] # 0
               PROVE  /\ count[t] > 0 => d[term[t]] <= count[t] - 1
                      /\ ~InBlock(f, t) => d[term[t]] = 0
    BY DEF CountsAt
  <2>1. CASE t = u
    BY <1>1, <2>1
  <2>2. CASE t # u
    <3>1. term[t] \in Ins /\ term[t] # e
      BY <1>1, <2>2 DEF Laid, Paired, EndsOnly
    <3>2. d[term[t]] = c[term[t]] /\ (InBlock(f, t) <=> InBlock(e, t))
      BY <1>3, <2>2, <3>1 DEF Opens, CountBut
    <3> QED BY <3>2 DEF Even, CountsAt
  <2> QED BY <2>1, <2>2
<1> QED BY <1>10, <1>11, <1>12 DEF Even, f

LEMMA EvenAgain ==
  ASSUME Laid, Sure, NEW e \in Ins, NEW s \in Sections, InSection(e, s),
         prog[e].op = "endtimes",
         NEW c \in [Ins -> Nat], NEW d \in [Ins -> Nat], CountBut(c, d, e),
         NEW x, NEW l, Even(c, e, x, l),
         ~(count[term[e]] > 0 /\ c[e] >= count[term[e]] - 1), d[e] = c[e] + 1
  PROVE  Even(d, following[term[e]], x, l)
<1> DEFINE u == term[e]
           f == following[u]
<1>1. /\ u \in Ins /\ term[u] = e /\ prog[u].op = "times" /\ InBlock(e, u) /\ Closing(e)
      /\ EndsOnly(e, u) /\ off[f] = off[u]
      /\ off[e] \in Nat /\ off[u] \in Nat /\ count[u] \in Nat
  BY TimesShape DEF EndsOnly
<1>2. BlocksWithin /\ e \in Nat /\ f \in Nat /\ e # 0
  BY <1>1, SureIs, StreamType DEF Laid
<1>3. \A t \in Ins : Opens(t) => (InBlock(f, t) <=> InBlock(e, t))
  BY <1>1, <1>2, BackBlocks
<1>4. InFill(f) <=> InFill(e)
  BY <1>3 DEF InFill, Opens
<1> HIDE DEF u, f
<1>5. ShiftBy(d, f) = ShiftBy(c, e) - MovedBy(c, e, u) + MovedBy(d, f, u)
  <2>1. BlocksAlike(e, f, u)
    BY <1>3 DEF BlocksAlike, Opens
  <2>2. MovedAlike(c, e, d, f, u)
    BY <1>1, <1>2, <2>1, TimesOther
  <2> QED BY <1>1, <1>2, <2>2, ShiftBut
<1>6. InBlock(f, u)
  BY <1>1, <1>3 DEF Opens
<1>7. /\ MovedBy(c, e, u) = (off[e] - off[u]) * c[e]
      /\ MovedBy(d, f, u) = (off[e] - off[u]) * (c[e] + 1)
  BY <1>1, <1>6 DEF MovedBy
<1>8. ShiftBy(c, e) \in Int /\ c[e] \in Int
  BY <1>2, MovesType
<1>9. PlaceAt(d, f, x)
  <2> SUFFICES ASSUME ~InFill(e) PROVE x = off[f] + ShiftBy(d, f)
    BY <1>4 DEF PlaceAt
  <2>1. x = off[e] + ShiftBy(c, e)
    BY <1>2 DEF Even, PlaceAt
  <2>2. off[e] + (off[e] - off[u]) * c[e] = off[u] + (off[e] - off[u]) * (c[e] + 1)
    <3>1. c[e] + 1 \in Int /\ c[e] = (c[e] + 1) - 1
      BY <1>8
    <3> QED BY <1>1, <1>8, <3>1, Copies
  <2>3. (off[e] - off[u]) * c[e] \in Int /\ (off[e] - off[u]) * (c[e] + 1) \in Int
    BY <1>1, <1>8
  <2> QED BY <1>1, <1>5, <1>7, <1>8, <2>1, <2>2, <2>3
<1>10. MarkAt(d, f, x, l)
  <2> SUFFICES ASSUME NEW t \in Ins, prog[t].op = "fill", InBlock(f, t)
               PROVE  x + l = off[t] + ShiftBy(d, t) + count[t]
    BY DEF MarkAt
  <2>1. InBlock(e, t)
    BY <1>3 DEF Opens
  <2>2. ShiftBy(d, t) = ShiftBy(c, t)
    BY <2>1, MarkTimes
  <2> QED BY <2>1, <2>2 DEF Even, MarkAt
<1>11. CountsAt(d, f)
  <2> SUFFICES ASSUME NEW t \in Ins, prog[t].op = "times", term[t] # 0
               PROVE  /\ count[t] > 0 => d[term[t]] <= count[t] - 1
                      /\ ~InBlock(f, t) => d[term[t]] = 0
    BY DEF CountsAt
  <2>1. CASE t = u
    <3>1. count[u] > 0 => c[e] + 1 <= count[u] - 1
      BY <1>1, <1>8 DEF u
    <3> QED BY <1>1, <1>6, <2>1, <3>1
  <2>2. CASE t # u
    <3>1. term[t] \in Ins /\ term[t] # e
      BY <1>1, <2>2 DEF Laid, Paired, EndsOnly
    <3>2. d[term[t]] = c[term[t]] /\ (InBlock(f, t) <=> InBlock(e, t))
      BY <1>3, <3>1 DEF Opens, CountBut
    <3> QED BY <3>2 DEF Even, CountsAt
  <2> QED BY <2>1, <2>2
<1> QED BY <1>9, <1>10, <1>11 DEF Even, f, u

(* Into a .fill block: the mark is where the block asks for it.            *)
LEMMA EvenFill ==
  ASSUME Laid, Sure, NEW i \in Ins, NEW s \in Sections, InSection(i, s), prog[i].op = "fill",
         NEW c \in [Ins -> Nat], NEW x, NEW l, Even(c, i, x, l)
  PROVE  Even(c, following[i], x, count[i])
<1>1. /\ BlocksWithin /\ ~InFill(i) /\ term[i] # 0 /\ Opens(i) /\ ~Closing(i) /\ i # 0
      /\ Here(i, s) /\ Follow(i) = following[i]
  BY SureIs, StreamType DEF FillInFill, FillsClosed, Opens, Closing, Laid, Here, Follow
<1>2. \A t \in Ins : Opens(t) =>
        (InBlock(following[i], t) <=> InBlock(i, t) \/ (i = t /\ term[t] # 0))
  BY <1>1, PlainNext
<1>3. \A t \in Ins : prog[t].op = "fill" => (InBlock(following[i], t) <=> t = i)
  BY <1>1, <1>2 DEF InFill, Opens
<1>4. InFill(following[i])
  BY <1>3 DEF InFill
<1>5. PlaceAt(c, following[i], x)
  BY <1>4 DEF PlaceAt
<1>6. MarkAt(c, following[i], x, count[i])
  <2>1. x = off[i] + ShiftBy(c, i)
    BY <1>1 DEF Even, PlaceAt
  <2> QED BY <1>3, <2>1 DEF MarkAt
<1>7. CountsAt(c, following[i])
  BY <1>2 DEF Even, CountsAt, Opens
<1> QED BY <1>5, <1>6, <1>7 DEF Even

(* Out of it: the output has reached the mark.                             *)
LEMMA EvenMark ==
  ASSUME Laid, Sure, NEW e \in Ins, NEW s \in Sections, InSection(e, s), prog[e].op = "endfill",
         NEW c \in [Ins -> Nat], NEW x \in Int, NEW l, Even(c, e, x, l)
  PROVE  /\ l = 0 => \A m : Even(c, following[e], x, m)
         /\ Even(c, following[term[e]], x, l)
<1> DEFINE u == term[e]
<1>1. Closing(e) /\ BlocksWithin /\ Regular /\ ~FillInFill
  BY SureIs DEF Closing
<1>2. /\ u \in Ins /\ term[u] = e /\ Closes(u, e) /\ Opens(u) /\ InSection(u, s)
      /\ InBlock(e, u)
  BY <1>1, BlockHead
<1>3. prog[u].op = "fill" /\ InFill(e) /\ ~InFill(u)
  BY <1>1, <1>2 DEF Closes, InFill, FillInFill
<1>4. e # 0 /\ u # 0 /\ following[e] # 0
  BY <1>2, StreamType DEF Laid, Linked, NextIn, EndOf
<1> HIDE DEF u
<1>5. \A t \in Ins : Opens(t) =>
        /\ InBlock(u, t) <=> InBlock(e, t) /\ t # u
        /\ InBlock(following[u], t) <=> InBlock(e, t)
        /\ InBlock(following[e], t) <=> InBlock(u, t)
  <2> SUFFICES ASSUME NEW t \in Ins, Opens(t)
               PROVE  /\ InBlock(u, t) <=> InBlock(e, t) /\ t # u
                      /\ InBlock(following[u], t) <=> InBlock(e, t)
                      /\ InBlock(following[e], t) <=> InBlock(u, t)
    OBVIOUS
  <2>1. /\ InBlock(u, t) <=> InBlock(e, t) /\ t # u
        /\ InBlock(following[u], t) <=> InBlock(e, t)
    BY <1>1, BackBlocks DEF u
  <2>2. InBlock(following[e], t) <=> (InBlock(e, t) /\ e # term[t]) \/ (e = t /\ term[t] # 0)
    BY <1>1, NextBlocks
  <2>3. e # t
    BY <1>1 DEF Opens, Closing
  <2>4. e = term[t] <=> t = u
    BY <1>2, <1>4, StreamType DEF Laid, Paired
  <2> QED BY <2>1, <2>2, <2>3, <2>4
<1>6. ~InFill(following[e]) /\ InFill(following[u])
  BY <1>2, <1>3, <1>5 DEF InFill, Opens
<1>7. CountsAt(c, following[e]) /\ CountsAt(c, following[u])
  BY <1>3, <1>5 DEF Even, CountsAt, Opens
<1>8. ASSUME l = 0, NEW m PROVE Even(c, following[e], x, m)
  <2>1. MarkAt(c, following[e], x, m)
    BY <1>6 DEF MarkAt, InFill
  <2>2. x + 0 = off[u] + ShiftBy(c, u) + count[u]
    BY <1>2, <1>3, <1>8 DEF Even, MarkAt
  <2>3. off[following[e]] = off[u] + count[u]
    <3>1. off[following[e]] = Extent(e)
      BY <1>1, <1>2, <1>4 DEF Laid, Around, Chained, u
    <3> QED BY <3>1 DEF Extent, u
  <2>4. ShiftBy(c, following[e]) = ShiftBy(c, u)
    <3>1. \A t \in Ins : MovedBy(c, following[e], t) = MovedBy(c, u, t)
      BY <1>5 DEF MovedBy, Opens
    <3> QED BY <3>1, ShiftAlike
  <2>5. off[u] \in Int /\ count[u] \in Int /\ ShiftBy(c, u) \in Int
    BY <1>2, FieldType, MovesType DEF Laid
  <2>6. PlaceAt(c, following[e], x)
    BY <2>2, <2>3, <2>4, <2>5 DEF PlaceAt
  <2> QED BY <1>7, <2>1, <2>6 DEF Even
<1>9. Even(c, following[u], x, l)
  <2>1. PlaceAt(c, following[u], x)
    BY <1>6 DEF PlaceAt
  <2>2. MarkAt(c, following[u], x, l)
    BY <1>5 DEF Even, MarkAt, Opens
  <2> QED BY <1>7, <2>1, <2>2 DEF Even
<1> QED BY <1>8, <1>9 DEF u
-----------------------------------------------------------------------------
(***************************************************************************)
(* The counters, the limit and the location, through the whole generation. *)
(***************************************************************************)
(* No section ahead has any output.                                        *)
Ahead == format \notin Flat => \A s \in Sections : cur < s => loc[s] = 0

Balanced ==
  /\ stage = "walk" => Even(current, at, loc[Out], limit) /\ Ahead
  /\ stage = "section" =>
       /\ CountsAt(current, 0)
       /\ format \notin Flat => \A s \in Sections : cur <= s => loc[s] = 0
       /\ format \in Flat /\ cur <= created => loc[1] = 0

StepInv == stage # "layout" /\ Sure => Balanced

(* What holds at a step of the walk.                                       *)
Walking == Laid /\ Tracked /\ Sure /\ Limited /\ Balanced /\ stage = "walk"

LEMMA WalkingAt ==
  ASSUME Walking
  PROVE  /\ Laid /\ Tracked /\ Sure /\ BlocksWithin /\ stage = "walk"
         /\ cur \in Sections /\ Out \in Sections /\ Here(at, cur)
         /\ at \in Ins => InSection(at, cur) /\ Chained(at) /\ sec[at] = cur
         /\ current \in [Ins -> Nat] /\ loc[Out] \in Int
         /\ limit \in Nat \cup {NoLimit} /\ (limit = NoLimit <=> ~InFill(at))
         /\ Even(current, at, loc[Out], limit) /\ Ahead
<1>1. Laid /\ Tracked /\ Sure /\ stage = "walk"
  BY DEF Walking
<1>2. /\ cur \in Sections /\ Out \in Sections /\ Here(at, cur)
      /\ at \in Ins => InSection(at, cur) /\ Chained(at) /\ sec[at] = cur
  BY <1>1, WalkAt
<1>3. /\ current \in [Ins -> Nat] /\ loc[Out] \in Int /\ limit \in Nat \cup {NoLimit}
  BY <1>1, <1>2 DEF Tracked, Typed
<1> QED BY <1>1, <1>2, <1>3, SureIs DEF Walking, Limited, Balanced

LEMMA BalanceOn ==
  ASSUME Walking, StepOn
  PROVE  Even(current, Follow(at), loc'[Out], limit')
<1>1. /\ Laid /\ Tracked /\ Sure /\ BlocksWithin /\ stage = "walk"
      /\ cur \in Sections /\ Out \in Sections /\ Here(at, cur)
      /\ at \in Ins => InSection(at, cur) /\ Chained(at) /\ sec[at] = cur
      /\ current \in [Ins -> Nat] /\ loc[Out] \in Int
      /\ limit \in Nat \cup {NoLimit} /\ (limit = NoLimit <=> ~InFill(at))
      /\ Even(current, at, loc[Out], limit)
  BY WalkingAt
<1>2. /\ at # 0
      /\ at \in Ins => prog[at].op \in {"equ", "times", "org", "skip", "data", "insn"}
  BY <1>1, StepOnGoes
<1> PICK d \in Int : MovesBy(d)
  BY <1>1, StepOnMoves
<1>3. loc'[Out] = loc[Out] + d
  BY <1>1 DEF MovesBy, Tracked, Typed
<1>4. at \in Ins => at \in Nat /\ off[at] \in Int /\ off[following[at]] \in Int
                    /\ ShiftBy(current, at) \in Int
  <2> SUFFICES ASSUME at \in Ins
               PROVE  at \in Nat /\ off[at] \in Int /\ off[following[at]] \in Int
                      /\ ShiftBy(current, at) \in Int
    OBVIOUS
  <2>1. at \in Nat /\ off[at] \in Int /\ off[following[at]] \in Int
    BY <1>1, FieldType DEF Laid, Chained
  <2>2. ShiftBy(current, at) \in Int
    BY <1>1, <2>1, MovesType
  <2> QED BY <2>1, <2>2
<1>5. ASSUME at \in Ins, ~InFill(at)
      PROVE  loc'[Out] = off[following[at]] + ShiftBy(current, at)
  <2>1. d = Span(at)
    <3>1. Taken
      BY <1>1, <1>5, SureTakes
    <3> QED BY <1>1, <1>5, <3>1 DEF MovesBy
  <2>2. CASE prog[at].op = "org"
    <3>1. format \in Moving
      BY <1>1, <1>5, <2>2 DEF Sure, Steady
    <3>2. d = off[following[at]] - loc[Out]
      BY <2>1, <2>2, <3>1 DEF Span
    <3>3. \A t \in Ins : ~InBlock(at, t)
      BY <1>1, <1>5, <2>2, SureIs DEF Regular, Rigid
    <3>4. ShiftBy(current, at) = 0
      BY <1>1, <3>3, ShiftNone
    <3> QED BY <1>1, <1>3, <1>4, <1>5, <3>2, <3>4
  <2>3. CASE prog[at].op # "org"
    <3>1. off[following[at]] = off[at] + d
      BY <1>1, <1>2, <1>5, <2>1, <2>3, SpanIsRoom
    <3>2. loc[Out] = off[at] + ShiftBy(current, at)
      BY <1>1, <1>2, <1>5 DEF Even, PlaceAt
    <3> QED BY <1>3, <1>4, <1>5, <3>1, <3>2
  <2> QED BY <2>2, <2>3
<1>6. ASSUME InFill(at) PROVE loc'[Out] + limit' = loc[Out] + limit
  <2>1. limit \in Nat /\ limit # NoLimit
    BY <1>1, <1>6
  <2>2. /\ at \in Ins => Taken
        /\ ~(at \in Ins /\ prog[at].op = "org")
        /\ ~(at \in Ins /\ prog[at].op = "skip" /\ SkipMoves(cur))
    <3>1. at \in Ins => Taken
      BY <1>1, SureTakes
    <3>2. ~(at \in Ins /\ prog[at].op = "skip" /\ SkipMoves(cur))
      BY <1>1, <1>6 DEF Sure, Steady
    <3>3. ~(at \in Ins /\ prog[at].op = "org")
      BY <1>1, <1>6, SureIs DEF Regular, Rigid, InFill
    <3> QED BY <3>1, <3>2, <3>3
  <2>3. limit' = limit - d
    BY <2>1, <2>2 DEF MovesBy
  <2> QED BY <1>1, <1>3, <2>1, <2>3
<1> QED BY <1>1, <1>2, <1>5, <1>6, EvenOn

LEMMA BalanceBlock ==
  ASSUME Walking, WalkEndTimes \/ WalkFill \/ WalkEndFill
  PROVE  Even(current', at', loc[Out], limit')
<1>1. /\ Laid /\ Tracked /\ Sure /\ BlocksWithin /\ stage = "walk"
      /\ cur \in Sections /\ Here(at, cur)
      /\ current \in [Ins -> Nat] /\ loc[Out] \in Int
      /\ Even(current, at, loc[Out], limit)
  BY WalkingAt
<1>2. at \in Ins /\ InSection(at, cur)
  BY <1>1, BlockGoes, WalkAt
<1>3. CASE WalkEndTimes
  <2>1. /\ prog[at].op = "endtimes" /\ limit' = limit
        /\ \/ /\ LastCopy(at) /\ at' = following[at]
              /\ current' = [current EXCEPT ![at] = 0]
           \/ /\ ~LastCopy(at) /\ at' = following[term[at]]
              /\ current' = [current EXCEPT ![at] = @ + 1]
    BY <1>1, <1>3, EndTimesGoes
  <2>2. current' \in [Ins -> Nat] /\ CountBut(current, current', at)
    BY <1>1, <1>2, <2>1 DEF CountBut
  <2>3. CASE LastCopy(at)
    <3>1. current'[at] = 0 /\ at' = following[at]
      BY <1>1, <1>2, <2>1, <2>3
    <3> QED BY <1>1, <1>2, <2>1, <2>2, <2>3, <3>1, EvenLast DEF LastCopy
  <2>4. CASE ~LastCopy(at)
    <3>1. current'[at] = current[at] + 1 /\ at' = following[term[at]]
      BY <1>1, <1>2, <2>1, <2>4
    <3> QED BY <1>1, <1>2, <2>1, <2>2, <2>4, <3>1, EvenAgain DEF LastCopy
  <2> QED BY <2>3, <2>4
<1>4. CASE WalkFill
  BY <1>1, <1>2, <1>4, FillGoes, EvenFill
<1>5. CASE WalkEndFill
  BY <1>1, <1>2, <1>5, EndFillGoes, EvenMark
<1> QED BY <1>3, <1>4, <1>5

LEMMA SureFrame ==
  ASSUME UNCHANGED layoutRest
  PROVE  Sure' <=> Sure
<1>1. /\ UNCHANGED <<format, bits, prog, created, sec, term>> /\ Ins' = Ins
      /\ (Regular' <=> Regular)
      /\ \A e : Direct(e)' <=> Direct(e)
      /\ \A i \in Ins : Chained(i)' <=> Chained(i)
  BY WalkFrame
<1>2. \A i : InFill(i)' <=> InFill(i)
  BY <1>1 DEF InFill, InBlock
<1>3. (FillsClosed' <=> FillsClosed) /\ (FillInFill' <=> FillInFill)
  BY <1>1, <1>2 DEF FillsClosed, FillInFill
<1>4. \A i \in Ins : Direct(prog[i].arg)' <=> Direct(prog[i].arg)
  BY <1>1
<1>5. Steady' <=> Steady
  BY <1>1, <1>2, <1>3, <1>4 DEF Steady, Zeroed, SkipMoves, SkipIgnored
<1> QED BY <1>3, <1>5 DEF Sure

(* The next state, told from this one.                                     *)
LEMMA EvenNext ==
  ASSUME UNCHANGED <<layoutRest, cur>>, Even(current', at', loc'[Out], limit')
  PROVE  Even(current, at, loc[Out], limit)'
<1>1. /\ UNCHANGED <<format, prog, sec, term, off, count, cur>> /\ Ins' = Ins /\ Out' = Out
  BY WalkFrame DEF Out, StreamOf
<1>2. InFill(at)' <=> InFill(at')
  BY <1>1 DEF InFill, InBlock
<1>3. ShiftBy(current, at)' = ShiftBy(current', at')
  BY <1>1 DEF ShiftBy, Moves, MovedBy, InBlock
<1>4. \A t \in Ins : ShiftBy(current, t)' = ShiftBy(current', t)
  BY <1>1 DEF ShiftBy, Moves, MovedBy, InBlock
<1>5. \A t \in Ins : InBlock(at, t)' <=> InBlock(at', t)
  BY <1>1 DEF InBlock
<1>6. PlaceAt(current, at, loc[Out])'
  BY <1>1, <1>2, <1>3 DEF Even, PlaceAt
<1>7. MarkAt(current, at, loc[Out], limit)'
  BY <1>1, <1>4, <1>5 DEF Even, MarkAt
<1>8. CountsAt(current, at)'
  BY <1>1, <1>5 DEF Even, CountsAt
<1> QED BY <1>6, <1>7, <1>8 DEF Even

LEMMA AheadKept ==
  ASSUME Walking, UNCHANGED <<layoutRest, cur>>,
         \E v : loc' = [loc EXCEPT ![Out] = v]
  PROVE  Ahead'
<1>1. UNCHANGED format /\ Sections' = Sections /\ Sections \subseteq Nat /\ cur \in Sections
      /\ loc \in [Sections -> Int] /\ Ahead
  BY WalkFrame, WalkingAt, StreamType DEF Walking, Tracked, Typed, Laid
<1>2. format \notin Flat => Out = cur
  BY DEF Out, StreamOf
<1>3. ASSUME format \notin Flat, NEW s \in Sections, cur < s PROVE loc'[s] = 0
  <2>1. s # cur
    BY <1>1, <1>3
  <2> QED BY <1>1, <1>2, <1>3, <2>1 DEF Ahead
<1> QED BY <1>1, <1>3 DEF Ahead

LEMMA StepBegins ==
  ASSUME HandOver, stage = "layout", BeginGenerate
  PROVE  Balanced'
<1>1. LayInv /\ Untouched /\ Laid
  BY LaidBegins DEF HandOver, BeginGenerate
<1>2. UNCHANGED <<layoutRest, current, limit, oldLimit, loc>> /\ stage' = "section" /\ cur' = 1
  BY DEF BeginGenerate
<1>3. UNCHANGED <<format, prog, term, count>> /\ Ins' = Ins /\ Sections' = Sections
  BY <1>2, WalkFrame
<1>4. \A u \in Ins : term[u] # 0 => term[u] \in Ins /\ count[u] \in Int
  BY <1>1, FieldType DEF Laid
<1>5. CountsAt(current, 0)'
  BY <1>1, <1>2, <1>3, <1>4 DEF CountsAt, Untouched
<1>6. (\A s \in Sections : loc[s] = 0) /\ 1 \in Sections
  BY <1>1, IndexType DEF Untouched, Laid
<1> QED BY <1>2, <1>3, <1>5, <1>6 DEF Balanced

LEMMA StepSection ==
  ASSUME Laid, Tracked, Limited, Sure, Balanced, BeginSection
  PROVE  Balanced'
<1>1. /\ stage = "section" /\ cur <= created /\ stage' = "walk" /\ at' = first[cur]
      /\ UNCHANGED <<layoutRest, cur, current, limit, loc>>
  BY DEF BeginSection
<1>2. cur \in Sections /\ cur \in Nat \ {0} /\ Sections \subseteq Nat /\ created \in Nat
  <2>1. created \in 0 .. MaxSection /\ MaxSection \in Nat /\ cur \in 1 .. created + 1
    BY ConstantsAssumption, <1>1 DEF Laid, TypeOK, Tracked
  <2> QED BY <1>1, <2>1 DEF Sections
<1>3. \A t \in Ins : Opens(t) => ~InBlock(first[cur], t)
  BY <1>2, FirstOutside
<1>4. loc[Out] = 0
  <2>1. CASE format \in Flat
    <3>1. Out = 1 /\ loc[1] = 0
      BY <1>1, <2>1 DEF Out, StreamOf, Balanced
    <3> QED BY <3>1
  <2>2. CASE format \notin Flat
    <3>1. Out = cur
      BY <2>2 DEF Out, StreamOf
    <3> QED BY <1>1, <1>2, <2>2, <3>1 DEF Balanced
  <2> QED BY <2>1, <2>2
<1>5. Even(current, first[cur], loc[Out], limit)
  <2>1. PlaceAt(current, first[cur], loc[Out])
    <3>1. first[cur] # 0 => off[first[cur]] = 0
      BY <1>2 DEF Laid, FromZero
    <3>2. ShiftBy(current, first[cur]) = 0
      BY <1>3, ShiftNone
    <3> QED BY <1>4, <3>1, <3>2 DEF PlaceAt
  <2>2. MarkAt(current, first[cur], loc[Out], limit)
    BY <1>3 DEF MarkAt, Opens
  <2>3. CountsAt(current, first[cur])
    BY <1>1, <1>2, OutsideBlocks DEF Balanced, CountsAt
  <2> QED BY <2>1, <2>2, <2>3 DEF Even
<1>6. Even(current, at, loc[Out], limit)'
  <2>1. Even(current', at', loc'[Out], limit')
    BY <1>1, <1>5
  <2> QED BY <1>1, <2>1, EvenNext
<1>7. Ahead'
  BY <1>1, <1>2, WalkFrame DEF Ahead, Balanced
<1> QED BY <1>1, <1>6, <1>7 DEF Balanced

LEMMA StepSectionEnds ==
  ASSUME Walking, EndSection
  PROVE  Balanced'
<1>1. /\ at = 0 /\ stage' = "section" /\ cur' = cur + 1
      /\ UNCHANGED <<layoutRest, current, limit, loc>>
  BY DEF EndSection
<1>2. /\ Laid /\ Tracked /\ Sure /\ Even(current, at, loc[Out], limit) /\ Ahead
      /\ cur \in 1 .. created /\ created \in Nat /\ Sections \subseteq Nat
  BY WalkingAt, WalkAt, StreamType DEF Laid
<1>3. /\ UNCHANGED <<format, prog, term, count, sec, created>> /\ Ins' = Ins
      /\ Sections' = Sections
  BY <1>1, WalkFrame
<1>4. CountsAt(current, 0)'
  BY <1>1, <1>2, <1>3 DEF Even, CountsAt, InBlock
<1>5. ~(format \in Flat /\ cur + 1 <= created)
  BY <1>2, SureIs
<1>6. \A s \in Sections : cur + 1 <= s => cur < s
  BY <1>2
<1> QED BY <1>1, <1>2, <1>3, <1>4, <1>5, <1>6 DEF Balanced, Ahead

LEMMA StepWalks ==
  ASSUME Walking, StepOn \/ WalkEndTimes \/ WalkFill \/ WalkEndFill
  PROVE  Balanced'
<1>1. /\ Laid /\ Tracked /\ BlocksWithin /\ stage = "walk" /\ cur \in Sections
      /\ Out \in Sections /\ loc \in [Sections -> Int]
  BY WalkingAt DEF Tracked, Typed
<1>2. CASE StepOn
  <2>1. /\ at' = Follow(at) /\ UNCHANGED <<layoutRest, stage, cur, current>>
    BY <1>1, <1>2, StepOnGoes
  <2>2. Even(current', at', loc'[Out], limit')
    BY <1>2, <2>1, BalanceOn
  <2>3. Even(current, at, loc[Out], limit)'
    BY <2>1, <2>2, EvenNext
  <2>4. \E v : loc' = [loc EXCEPT ![Out] = v]
    BY <1>1, <1>2, StepOnMoves DEF MovesBy
  <2>5. Ahead'
    BY <2>1, <2>4, AheadKept
  <2> QED BY <1>1, <2>1, <2>3, <2>5 DEF Balanced
<1>3. CASE WalkEndTimes \/ WalkFill \/ WalkEndFill
  <2>1. UNCHANGED <<layoutRest, stage, cur, loc>>
    BY <1>1, <1>3, BlockGoes
  <2>2. Even(current', at', loc'[Out], limit')
    BY <1>3, <2>1, BalanceBlock
  <2>3. Even(current, at, loc[Out], limit)'
    BY <2>1, <2>2, EvenNext
  <2>4. \E v : loc' = [loc EXCEPT ![Out] = v]
    <3>1. loc' = [loc EXCEPT ![Out] = loc[Out]]
      BY <1>1, <2>1
    <3> QED BY <3>1
  <2>5. Ahead'
    BY <2>1, <2>4, AheadKept
  <2> QED BY <1>1, <2>1, <2>3, <2>5 DEF Balanced
<1> QED BY <1>2, <1>3

LEMMA StepInvStep == Passage /\ StepInv /\ [AssembleNext]_allVars => StepInv'
<1> SUFFICES ASSUME Passage, StepInv, [AssembleNext]_allVars, stage' # "layout", Sure'
             PROVE  Balanced'
  BY DEF StepInv
<1>1. HandOver /\ WalkInv /\ LimitInv
  BY DEF Passage
<1>2. CASE stage = "layout"
  <2>1. BeginGenerate
    BY <1>2 DEF AssembleNext, Step, Walk, BeginSection, EndSection, EndGenerate, WalkSilent,
                WalkOrg, WalkSkip, WalkEndTimes, WalkFill, WalkEndFill, WalkData, WalkInsn,
                WalkStop, Visiting, Lay, genVars, allVars
  <2> QED BY <1>1, <1>2, <2>1, StepBegins
<1>3. CASE stage # "layout"
  <2>1. UNCHANGED layoutRest /\ Sure
    BY <1>1, <1>3, WalkLeaves, SureFrame
  <2>2. Laid /\ Tracked /\ Limited /\ Balanced
    BY <1>1, <1>3, <2>1, SureIs DEF HandOver, WalkInv, LimitInv, StepInv
  <2>3. stage = "walk" => Walking
    BY <2>1, <2>2 DEF Walking
  <2>4. CASE stage = "walk" /\ (StepOn \/ WalkEndTimes \/ WalkFill \/ WalkEndFill)
    BY <2>3, <2>4, StepWalks
  <2>5. CASE BeginSection
    BY <2>1, <2>2, <2>5, StepSection
  <2>6. CASE EndSection
    BY <2>3, <2>6, StepSectionEnds DEF EndSection
  <2>7. CASE stage' = "end"
    BY <2>7 DEF Balanced
  <2>8. CASE UNCHANGED <<layoutRest, cur, genVars>>
    <3>1. UNCHANGED <<format, prog, sec, term, off, count, created, cur>> /\ Ins' = Ins
          /\ Sections' = Sections
      BY <2>8, WalkFrame
    <3>2. UNCHANGED <<stage, at, current, limit, loc>> /\ Out' = Out
      BY <2>8, <3>1 DEF genVars, Out, StreamOf
    <3>3. stage = "walk" => Even(current, at, loc[Out], limit)'
      <4>1. stage = "walk" => Even(current', at', loc'[Out], limit')
        BY <2>2, <3>2 DEF Balanced
      <4> QED BY <2>8, <4>1, EvenNext
    <3>4. CountsAt(current, 0) => CountsAt(current, 0)'
      BY <3>1, <3>2 DEF CountsAt, InBlock
    <3> QED BY <2>2, <3>1, <3>2, <3>3, <3>4 DEF Balanced, Ahead
  <2> QED BY <1>1, <1>3, <2>4, <2>5, <2>6, <2>7, <2>8, WalkSteps
<1> QED BY <1>2, <1>3

LEMMA StepInvInit == AssembleInit => StepInv
BY DEF AssembleInit, GenInit, StepInv

(* For every program in which no format leaves a hole or runs ahead of the *)
(* layout, every instruction is put out at the offset the layout gave it,  *)
(* or its copy that much further (asm.c:1166-1206 against asm.c:832-837).  *)
THEOREM InStepForAll == AssembleSpec => []InStep
<1>1. Passage /\ StepInv => InStep
  <2> SUFFICES ASSUME Passage, StepInv, stage = "walk", at # 0, Steady, ~FillInFill, ~InFill(at)
               PROVE  loc[Out] = off[at] + Shift(at)
    BY DEF InStep
  <2>1. Even(current, at, loc[Out], limit)
    BY DEF StepInv, Sure, Balanced
  <2> QED BY <2>1, ShiftIs DEF Even, PlaceAt
<1> QED BY <1>1, PassageInit, PassageStep, StepInvInit, StepInvStep, PTL DEF AssembleSpec
-----------------------------------------------------------------------------
(***************************************************************************)
(* The bytes put out.  An instruction first puts out its bytes where the   *)
(* layout has it: while it has none, no block around it has been repeated, *)
(* so that nothing moves it.                                               *)
(***************************************************************************)
Bytes == [at : Int, by : Ins]

HasByte(q, i) == \E b \in DOMAIN q : q[b].by = i

(* The first byte of i among those of q, if it has one, is at x.           *)
StartsAt(q, i, x) ==
  \A b \in DOMAIN q :
    q[b].by = i /\ (\A d \in DOMAIN q : q[d].by = i => b <= d) => q[b].at = x

(* r is q, and then k bytes of i, the first at x.                          *)
Longer(q, r, i, k, x) ==
  /\ Len(r) = Len(q) + k
  /\ \A b \in 1 .. Len(q) : r[b] = q[b]
  /\ \A b \in Len(q) + 1 .. Len(q) + k : r[b].by = i
  /\ k > 0 => r[Len(q) + 1].at = x

LEMMA LongerHas ==
  ASSUME NEW S, NEW q \in Seq(S), NEW r \in Seq(S), NEW i, NEW k \in Nat, NEW x,
         Longer(q, r, i, k, x)
  PROVE  /\ \A j : HasByte(q, j) => HasByte(r, j)
         /\ k > 0 => HasByte(r, i)
<1>1. /\ DOMAIN q = 1 .. Len(q) /\ DOMAIN r = 1 .. Len(r) /\ Len(q) \in Nat
      /\ Len(r) = Len(q) + k /\ \A b \in 1 .. Len(q) : r[b] = q[b]
  BY DEF Longer
<1>2. ASSUME NEW j, HasByte(q, j) PROVE HasByte(r, j)
  <2> PICK b \in DOMAIN q : q[b].by = j
    BY <1>2 DEF HasByte
  <2>1. b \in DOMAIN r /\ r[b].by = j
    BY <1>1
  <2> QED BY <2>1 DEF HasByte
<1>3. ASSUME k > 0 PROVE HasByte(r, i)
  <2>1. Len(q) + 1 \in DOMAIN r /\ Len(q) + 1 \in Len(q) + 1 .. Len(q) + k
    BY <1>1, <1>3
  <2>2. r[Len(q) + 1].by = i
    BY <2>1 DEF Longer
  <2> QED BY <2>1, <2>2 DEF HasByte
<1> QED BY <1>2, <1>3

LEMMA LongerStarts ==
  ASSUME NEW S, NEW q \in Seq(S), NEW r \in Seq(S), NEW i, NEW k \in Nat, NEW x \in Int,
         Longer(q, r, i, k, x), NEW j, NEW y, StartsAt(q, j, y),
         i = j /\ k > 0 /\ ~HasByte(q, i) => x = y
  PROVE  StartsAt(r, j, y)
<1>1. /\ DOMAIN q = 1 .. Len(q) /\ DOMAIN r = 1 .. Len(r) /\ Len(q) \in Nat
      /\ Len(r) = Len(q) + k /\ \A b \in 1 .. Len(q) : r[b] = q[b]
  BY DEF Longer
<1> SUFFICES ASSUME NEW b \in DOMAIN r, r[b].by = j,
                    \A d \in DOMAIN r : r[d].by = j => b <= d
             PROVE  r[b].at = y
  BY DEF StartsAt
<1>2. CASE b <= Len(q)
  <2>1. b \in DOMAIN q /\ r[b] = q[b]
    BY <1>1, <1>2
  <2>2. \A d \in DOMAIN q : q[d].by = j => b <= d
    BY <1>1
  <2> QED BY <2>1, <2>2 DEF StartsAt
<1>3. CASE b > Len(q)
  <2>1. b \in Len(q) + 1 .. Len(q) + k /\ k > 0
    BY <1>1, <1>3
  <2>2. r[b].by = i
    BY <2>1 DEF Longer
  <2>3. ~HasByte(q, i)
    <3> SUFFICES ASSUME NEW d \in DOMAIN q, q[d].by = i PROVE FALSE
      BY DEF HasByte
    <3>1. d \in DOMAIN r /\ r[d].by = j /\ d <= Len(q)
      BY <1>1, <2>2
    <3>2. b <= d
      BY <3>1
    <3> QED BY <1>1, <1>3, <3>1, <3>2
  <2>4. Len(q) + 1 \in DOMAIN r /\ Len(q) + 1 \in Len(q) + 1 .. Len(q) + k
    BY <1>1, <2>1
  <2>5. r[Len(q) + 1].by = j /\ r[Len(q) + 1].at = x
    BY <2>1, <2>2, <2>4 DEF Longer
  <2>6. b <= Len(q) + 1
    BY <2>4, <2>5
  <2>7. b = Len(q) + 1
    BY <1>1, <1>3, <2>6
  <2> QED BY <2>1, <2>2, <2>3, <2>5, <2>7
<1> QED BY <1>1, <1>2, <1>3

Typeset == image \in [Sections -> Seq(Bytes)]

(* The stream in use becomes longer by k bytes of i.                       *)
Prints(i, k) ==
  /\ image' \in [Sections -> Seq(Bytes)]
  /\ \A s \in Sections : s # Out => image'[s] = image[s]
  /\ Longer(image[Out], image'[Out], i, k, loc[Out])

LEMMA PutOutPrints ==
  ASSUME Typed, Typeset, NEW i \in Ins, NEW n \in Nat, PutOut(i, n), Out \in Sections,
         ~Zeroed(cur)
  PROVE  \E k \in Nat : (limit = NoLimit => k = n) /\ Prints(i, k)
<1> DEFINE k == Allowed(n)
           q == image[Out]
           added == [b \in 1 .. k |-> [at |-> loc[Out] + b - 1, by |-> i]]
<1>1. k \in Nat /\ (limit = NoLimit => k = n)
  <2>1. limit = NoLimit \/ limit \in Nat
    BY DEF Typed
  <2> QED BY <2>1 DEF Allowed, Least
<1>2. loc[Out] \in Int /\ q \in Seq(Bytes)
  BY DEF Typed, Typeset
<1>3. image' = [image EXCEPT ![Out] = q \o added]
  BY DEF PutOut
<1> HIDE DEF k, q
<1>4. added \in Seq(Bytes) /\ Len(added) = k
  BY <1>1, <1>2 DEF Bytes
<1>5. \A b \in 1 .. k : added[b].at = loc[Out] + b - 1 /\ added[b].by = i
  OBVIOUS
<1> HIDE DEF added
<1>6. /\ q \o added \in Seq(Bytes) /\ Len(q \o added) = Len(q) + k
      /\ \A b \in 1 .. Len(q) + k : (q \o added)[b] =
           IF b <= Len(q) THEN q[b] ELSE added[b - Len(q)]
  BY <1>2, <1>4, ConcatProperties
<1>7. Longer(q, q \o added, i, k, loc[Out])
  <2>1. \A b \in 1 .. Len(q) : (q \o added)[b] = q[b]
    BY <1>1, <1>2, <1>6
  <2>2. \A b \in Len(q) + 1 .. Len(q) + k :
          b - Len(q) \in 1 .. k /\ (q \o added)[b] = added[b - Len(q)]
    BY <1>1, <1>2, <1>6
  <2>3. \A b \in Len(q) + 1 .. Len(q) + k : (q \o added)[b].by = i
    BY <1>5, <2>2
  <2>4. k > 0 => (q \o added)[Len(q) + 1].at = loc[Out]
    <3> SUFFICES ASSUME k > 0 PROVE (q \o added)[Len(q) + 1].at = loc[Out]
      OBVIOUS
    <3>1. Len(q) + 1 \in Len(q) + 1 .. Len(q) + k /\ (Len(q) + 1) - Len(q) = 1 /\ 1 \in 1 .. k
      BY <1>1, <1>2
    <3>2. (q \o added)[Len(q) + 1] = added[1]
      BY <2>2, <3>1
    <3>3. added[1].at = loc[Out]
      BY <1>2, <1>5, <3>1
    <3> QED BY <3>2, <3>3
  <2> QED BY <1>6, <2>1, <2>3, <2>4 DEF Longer
<1>8. image'[Out] = q \o added /\ \A s \in Sections : s # Out => image'[s] = image[s]
  BY <1>3 DEF Typeset
<1>9. image' \in [Sections -> Seq(Bytes)]
  BY <1>3, <1>6 DEF Typeset
<1> QED BY <1>1, <1>7, <1>8, <1>9 DEF Prints, q

(* What the steps to the next instruction put out.                         *)
LEMMA StepOnPrints ==
  ASSUME Laid, Tracked, Typeset, stage = "walk", StepOn
  PROVE  \/ /\ UNCHANGED image
            /\ at \in Ins /\ Taken => prog[at].op \notin {"insn", "data"}
         \/ /\ at \in Ins
            /\ \E k \in Nat : /\ Prints(at, k)
                              /\ limit = NoLimit => k = Span(at)
<1>1. Typed /\ Out \in Sections
  BY WalkAt DEF Tracked
<1>2. CASE WalkSilent \/ WalkOrg
  BY <1>2 DEF WalkSilent, WalkOrg, PutNothing, Visiting
<1>3. CASE WalkSkip
  <2>1. at \in Ins /\ prog[at].op = "skip" /\ size[at] \in Int /\ Span(at) = size[at]
    BY <1>3, FieldType DEF WalkSkip, Visiting, Laid, Span
  <2>2. UNCHANGED image \/ (size[at] \in Nat /\ PutOut(at, size[at]) /\ ~Zeroed(cur))
    BY <1>3, <2>1 DEF WalkSkip, SkipMoves, PutNothing
  <2> QED BY <1>1, <2>1, <2>2, PutOutPrints
<1>4. CASE WalkData
  <2>1. at \in Ins /\ prog[at].short \in Nat /\ PutOut(at, prog[at].short)
        /\ Span(at) = prog[at].short
    BY <1>4, FormType DEF WalkData, Visiting, Span
  <2>2. Zeroed(cur) => UNCHANGED image /\ ~Taken
    BY <1>4, <2>1 DEF WalkData, Visiting, PutOut, Taken
  <2> QED BY <1>1, <2>1, <2>2, PutOutPrints
<1>5. CASE WalkInsn
  <2> DEFINE n == TargetLength(at, FALSE, cur)
  <2>1. at \in Ins /\ n \in Nat /\ PutOut(at, n) /\ Span(at) = n
    BY <1>5, FormType DEF WalkInsn, Visiting, Span
  <2>2. Zeroed(cur) => UNCHANGED image /\ ~Taken
    BY <1>5, <2>1 DEF WalkInsn, Visiting, PutOut, Taken
  <2> HIDE DEF n
  <2> QED BY <1>1, <2>1, <2>2, PutOutPrints
<1> QED BY <1>2, <1>3, <1>4, <1>5 DEF StepOn

(* An instruction of which the output is kept in step, and whether it has  *)
(* put out the bytes it has.                                               *)
Shown(i)   == prog[i].op \in {"insn", "data"} /\ ~InFill(i) /\ sec[i] \in Sections
Printed(i) == size[i] > 0 => HasByte(image[StreamOf(sec[i])], i)

Placed == \A i \in Ins : Shown(i) => StartsAt(image[StreamOf(sec[i])], i, off[i])

(* All before the walk have put theirs out...                              *)
Passed ==
  stage = "walk" /\ at # 0 =>
    \A i \in Ins : Shown(i) /\ InSection(i, cur) /\ i < at => Printed(i)

(* ... and all of a block that is being repeated.                          *)
Again ==
  \A u \in Ins : prog[u].op = "times" /\ term[u] # 0 /\ current[term[u]] > 0 =>
    \A i \in Ins : Shown(i) /\ InBlock(i, u) => Printed(i)

Depicted == Typeset /\ Placed /\ Passed /\ Again

PrintInv ==
  /\ stage = "layout" => image = [s \in Sections |-> <<>>]
  /\ stage # "layout" /\ Sure => Depicted

LEMMA ShownFrame ==
  ASSUME UNCHANGED layoutRest
  PROVE  /\ \A i \in Ins : /\ Shown(i)' <=> Shown(i)
                           /\ StreamOf(sec[i])' = StreamOf(sec[i])
                           /\ \A s : InSection(i, s)' <=> InSection(i, s)
                           /\ \A u \in Ins : InBlock(i, u)' <=> InBlock(i, u)
<1>1. UNCHANGED <<format, prog, sec, term>> /\ Ins' = Ins /\ Sections' = Sections
  BY WalkFrame
<1>2. \A i : InFill(i)' <=> InFill(i)
  BY <1>1 DEF InFill, InBlock
<1> QED BY <1>1, <1>2 DEF Shown, StreamOf, InSection, InBlock

(* The stream of a section is one of them.                                 *)
LEMMA StreamIs == Laid => \A s \in Sections : StreamOf(s) \in Sections
BY IndexType DEF Laid, StreamOf

LEMMA AroundType ==
  ASSUME Laid, NEW i \in Ins, NEW t \in Ins, InBlock(i, t)
  PROVE  /\ term[t] \in Ins /\ term[t] # 0 /\ t < i /\ i <= term[t] /\ sec[i] = sec[t]
         /\ off[term[t]] - off[t] \in Int
<1>1. TypeOK /\ i \in Nat /\ t \in Nat /\ i # 0
  BY StreamType DEF Laid
<1>2. term[t] \in 0 .. Len(prog) /\ Len(prog) \in Nat /\ t < i /\ i <= term[t] /\ sec[i] = sec[t]
  BY <1>1, StreamType DEF TypeOK, InBlock
<1>3. term[t] # 0
  BY <1>1, <1>2
<1>4. term[t] \in Ins
  BY <1>1, <1>3, FieldType
<1>5. off[term[t]] \in Nat /\ off[t] \in Nat
  BY <1>1, <1>4, FieldType
<1> QED BY <1>2, <1>3, <1>4, <1>5

(* Where no byte has been put out yet, nothing is repeated.                *)
LEMMA FreshAt ==
  ASSUME Walking, Depicted, at \in Ins, Shown(at), size[at] > 0,
         ~HasByte(image[Out], at)
  PROVE  loc[Out] = off[at]
<1>1. /\ Laid /\ Tracked /\ current \in [Ins -> Nat] /\ sec[at] = cur
      /\ Even(current, at, loc[Out], limit) /\ at # 0 /\ off[at] \in Int
  BY WalkingAt, FieldType, StreamType DEF Laid
<1>2. ~Printed(at)
  BY <1>1 DEF Printed, Out
<1>3. ASSUME NEW t \in Ins PROVE MovedBy(current, at, t) = 0
  <2>1. CASE prog[t].op = "times" /\ InBlock(at, t)
    <3>1. term[t] # 0 /\ term[t] \in Ins /\ off[term[t]] - off[t] \in Int
      BY <1>1, <2>1, AroundType
    <3>2. ~(current[term[t]] > 0)
      BY <1>2, <2>1, <3>1 DEF Depicted, Again
    <3>3. current[term[t]] = 0
      BY <1>1, <3>1, <3>2
    <3> QED BY <3>1, <3>3 DEF MovedBy
  <2>2. CASE ~(prog[t].op = "times" /\ InBlock(at, t))
    BY <2>2 DEF MovedBy
  <2> QED BY <2>1, <2>2
<1>4. ShiftBy(current, at) = 0
  <2>1. Len(prog) \in Nat /\ Ins = 1 .. Len(prog)
    BY <1>1, StreamType DEF Laid
  <2>2. \A t \in 1 .. Len(prog) : Moves(current, at)[t] = 0
    BY <1>3, <2>1 DEF Moves
  <2> QED BY <2>1, <2>2, SumZero DEF ShiftBy
<1> QED BY <1>1, <1>4 DEF Even, PlaceAt, Shown

(* An instruction keeps the bytes it has put out.                          *)
LEMMA PrintedStays ==
  ASSUME Laid, UNCHANGED layoutRest, Out \in Sections, Typeset, NEW k \in Nat, NEW j,
         Prints(j, k), NEW i \in Ins, sec[i] \in Sections, Printed(i)
  PROVE  Printed(i)'
<1>1. UNCHANGED size /\ StreamOf(sec[i])' = StreamOf(sec[i]) /\ StreamOf(sec[i]) \in Sections
  BY WalkFrame, ShownFrame, StreamIs
<1>2. image[Out] \in Seq(Bytes) /\ image'[Out] \in Seq(Bytes)
  BY DEF Typeset, Prints
<1>3. HasByte(image[StreamOf(sec[i])], i) => HasByte(image'[StreamOf(sec[i])], i)
  <2>1. CASE StreamOf(sec[i]) = Out
    <3>1. Longer(image[Out], image'[Out], j, k, loc[Out])
      BY DEF Prints
    <3> HIDE DEF Out
    <3> QED BY <1>2, <2>1, <3>1, LongerHas
  <2>2. CASE StreamOf(sec[i]) # Out
    BY <1>1, <2>2 DEF Prints
  <2> QED BY <2>1, <2>2
<1>4. HasByte(image[StreamOf(sec[i])], i)' <=> HasByte(image'[StreamOf(sec[i])], i)
  BY <1>1 DEF HasByte
<1> QED BY <1>1, <1>3, <1>4 DEF Printed

(* The first byte of every instruction is where the layout has it.         *)
LEMMA PlacedOn ==
  ASSUME Walking, Depicted, StepOn
  PROVE  Typeset' /\ Placed'
<1>1. /\ Laid /\ Tracked /\ Typeset /\ stage = "walk" /\ Out \in Sections /\ loc[Out] \in Int
      /\ cur \in Sections /\ limit = NoLimit <=> ~InFill(at)
      /\ at \in Ins => Chained(at) /\ sec[at] = cur
  BY WalkingAt DEF Depicted
<1>2. /\ UNCHANGED <<layoutRest, off, sec>> /\ Sections' = Sections /\ Ins' = Ins
      /\ at \in Ins => prog[at].op \in {"equ", "times", "org", "skip", "data", "insn"}
  BY <1>1, StepOnGoes, WalkFrame
<1>3. ASSUME image' \in [Sections -> Seq(Bytes)],
             \A i \in Ins : Shown(i) => StartsAt(image'[StreamOf(sec[i])], i, off[i])
      PROVE  Typeset' /\ Placed'
  <2>1. Bytes' = Bytes
    BY <1>2 DEF Bytes
  <2>2. Typeset'
    BY <1>2, <1>3, <2>1 DEF Typeset
  <2>3. \A i \in Ins : Shown(i)' => StartsAt(image[StreamOf(sec[i])], i, off[i])'
    <3> SUFFICES ASSUME NEW i \in Ins, Shown(i)'
                 PROVE  StartsAt(image[StreamOf(sec[i])], i, off[i])'
      OBVIOUS
    <3>1. Shown(i) /\ StreamOf(sec[i])' = StreamOf(sec[i])
      BY <1>2, ShownFrame
    <3>2. StartsAt(image'[StreamOf(sec[i])], i, off[i])
      BY <1>3, <3>1
    <3> QED BY <1>2, <3>1, <3>2 DEF StartsAt
  <2> QED BY <1>2, <2>2, <2>3 DEF Placed
<1>4. CASE UNCHANGED image
  BY <1>1, <1>3, <1>4 DEF Depicted, Placed, Typeset
<1>5. ASSUME at \in Ins, NEW k \in Nat, Prints(at, k), limit = NoLimit => k = Span(at)
      PROVE  Typeset' /\ Placed'
  <2>1. image' \in [Sections -> Seq(Bytes)]
    BY <1>5 DEF Prints
  <2>2. ASSUME NEW i \in Ins, Shown(i)
        PROVE  StartsAt(image'[StreamOf(sec[i])], i, off[i])
    <3>1. StartsAt(image[StreamOf(sec[i])], i, off[i]) /\ StreamOf(sec[i]) \in Sections
      BY <1>1, <2>2, StreamIs DEF Depicted, Placed, Shown
    <3>2. CASE StreamOf(sec[i]) # Out
      BY <1>5, <3>1, <3>2 DEF Prints
    <3>3. CASE StreamOf(sec[i]) = Out
      <4>1. ASSUME at = i, k > 0, ~HasByte(image[Out], at) PROVE loc[Out] = off[i]
        <5>1. limit = NoLimit /\ k = Span(at)
          BY <1>1, <1>5, <2>2, <4>1 DEF Shown
        <5>2. Span(at) = size[at]
          <6>1. Rigid(at) /\ prog[at].op \in {"data", "insn"}
            BY <1>1, <1>5, <2>2, <4>1, SureIs DEF Regular, Shown, Walking
          <6>2. off[following[at]] = off[at] + size[at]
            BY <1>1, <1>5, <6>1 DEF Laid, Behind
          <6>3. off[following[at]] = off[at] + Span(at)
            BY <1>1, <1>5, <6>1, SpanIsRoom DEF Walking
          <6>4. off[at] \in Int /\ size[at] \in Int
            BY <1>1, <1>5, FieldType DEF Laid
          <6> QED BY <5>1, <6>2, <6>3, <6>4
        <5> QED BY <1>5, <2>2, <4>1, <5>1, <5>2, FreshAt
      <4>2. image[Out] \in Seq(Bytes) /\ image'[Out] \in Seq(Bytes)
        BY <1>1, <2>1 DEF Typeset
      <4>3. Longer(image[Out], image'[Out], at, k, loc[Out])
        BY <1>5 DEF Prints
      <4>4. StartsAt(image[Out], i, off[i])
        BY <3>1, <3>3
      <4>5. at = i /\ k > 0 /\ ~HasByte(image[Out], at) => loc[Out] = off[i]
        BY <4>1
      <4>6. StartsAt(image'[Out], i, off[i])
        <5> HIDE DEF Out
        <5> QED BY <1>1, <4>2, <4>3, <4>4, <4>5, LongerStarts
      <4> QED BY <3>3, <4>6
    <3> QED BY <3>2, <3>3
  <2> QED BY <1>3, <2>1, <2>2
<1> QED BY <1>1, <1>4, <1>5, StepOnPrints

(* Between an instruction and the next of its chain is none.               *)
LEMMA NoneBetween ==
  ASSUME Laid, NEW s \in Sections, NEW i \in Ins, InSection(i, s),
         NEW j \in Ins, InSection(j, s), j < following[i]
  PROVE  j <= i
<1>1. i \in Nat /\ j \in Nat /\ following[i] \in Nat
  BY StreamType DEF Laid
<1>2. CASE NextIn(i, s)
  <2>1. i < j => following[i] <= j
    BY <1>2 DEF NextIn
  <2> QED BY <1>1, <2>1
<1>3. CASE \A z \in Ins : InSection(z, s) => z <= i
  BY <1>3
<1> QED BY <1>2, <1>3 DEF Laid, Linked

(* A block begins again no later than it ends.                             *)
LEMMA BackTo ==
  ASSUME Laid, BlocksWithin, NEW s \in Sections, NEW i \in Ins, InSection(i, s), Closing(i)
  PROVE  following[term[i]] <= i /\ following[term[i]] \in Nat /\ i \in Nat
<1>1. term[i] \in Ins /\ term[i] < i /\ InSection(term[i], s)
  BY BlockHead
<1>2. i \in Nat /\ term[i] \in Nat /\ following[term[i]] \in Nat
  BY <1>1, StreamType DEF Laid
<1>3. CASE NextIn(term[i], s)
  <2>1. following[term[i]] <= i
    BY <1>1, <1>3 DEF NextIn
  <2> QED BY <1>2, <2>1
<1>4. CASE \A z \in Ins : InSection(z, s) => z <= term[i]
  BY <1>1, <1>2, <1>4
<1> QED BY <1>1, <1>2, <1>3, <1>4 DEF Laid, Linked

Staying == \A i \in Ins : sec[i] \in Sections /\ Printed(i) => Printed(i)'

(* The instruction of this step has put out its bytes after it.            *)
Showing == \A i \in Ins : i = at /\ Shown(i) => Printed(i)'

(* The walk goes to n: what is before that has been passed, or is at.      *)
Reaches(n) == \A i \in Ins : InSection(i, cur) /\ i < n => i < at \/ i = at

LEMMA PassedNext ==
  ASSUME Walking, Depicted, UNCHANGED <<layoutRest, cur>>, Staying,
         Showing, at' # 0 => at \in Ins /\ Reaches(at')
  PROVE  Passed'
<1>1. at # 0 \/ at \notin Ins
  BY StreamType DEF Walking, Laid
<1>2. \A i \in Ins : /\ Shown(i)' <=> Shown(i)
                     /\ InSection(i, cur)' <=> InSection(i, cur)
  <2>1. \A i \in Ins : InSection(i, cur)' <=> InSection(i, cur)
    BY WalkFrame DEF InSection
  <2> QED BY <2>1, ShownFrame
<1>3. Ins' = Ins /\ stage = "walk"
  BY WalkFrame DEF Walking
<1> SUFFICES ASSUME at' # 0, NEW i \in Ins, Shown(i), InSection(i, cur), i < at'
             PROVE  Printed(i)'
  BY <1>2, <1>3 DEF Passed
<1>4. CASE i < at
  <2>1. Printed(i)
    BY <1>1, <1>3, <1>4 DEF Depicted, Passed
  <2> QED BY <2>1 DEF Staying, Shown
<1>5. CASE i = at
  BY <1>5 DEF Showing
<1> QED BY <1>4, <1>5 DEF Reaches

LEMMA AgainSame ==
  ASSUME Depicted, UNCHANGED <<layoutRest, current>>, Staying
  PROVE  Again'
<1>1. UNCHANGED <<prog, term>> /\ Ins' = Ins
  BY WalkFrame
<1> SUFFICES ASSUME NEW u \in Ins, prog[u].op = "times", term[u] # 0, current[term[u]] > 0,
                    NEW i \in Ins, Shown(i)', InBlock(i, u)'
             PROVE  Printed(i)'
  BY <1>1 DEF Again
<1>2. Shown(i) /\ InBlock(i, u)
  BY ShownFrame
<1>3. Printed(i)
  BY <1>2 DEF Depicted, Again
<1> QED BY <1>2, <1>3 DEF Staying, Shown

LEMMA DepictedOn ==
  ASSUME Walking, Depicted, StepOn
  PROVE  Depicted'
<1>1. /\ Laid /\ Tracked /\ Typeset /\ stage = "walk" /\ cur \in Sections /\ Out \in Sections
      /\ limit = NoLimit <=> ~InFill(at)
      /\ at \in Ins => InSection(at, cur) /\ Chained(at) /\ sec[at] = cur
  BY WalkingAt DEF Depicted
<1>2. /\ at' = Follow(at) /\ UNCHANGED <<layoutRest, cur, current>>
  BY <1>1, StepOnGoes
<1>3. Typeset' /\ Placed'
  BY PlacedOn
<1>4. Staying /\ Showing
  <2>1. CASE UNCHANGED image /\ (at \in Ins => prog[at].op \notin {"insn", "data"})
    <3>1. UNCHANGED size /\ \A i \in Ins : StreamOf(sec[i])' = StreamOf(sec[i])
      BY <1>2, WalkFrame, ShownFrame
    <3>2. Staying
      BY <2>1, <3>1 DEF Staying, Printed, HasByte
    <3> QED BY <2>1, <3>2 DEF Shown, Showing
  <2>2. ASSUME at \in Ins, NEW k \in Nat, Prints(at, k), limit = NoLimit => k = Span(at)
        PROVE  Staying /\ Showing
    <3>1. Staying
      BY <1>1, <1>2, <2>2, PrintedStays DEF Staying
    <3>2. ASSUME NEW i \in Ins, i = at, Shown(i) PROVE Printed(i)'
      <4>1. Rigid(i) /\ prog[i].op \in {"data", "insn"}
        BY <3>2, SureIs DEF Regular, Shown, Walking
      <4>2. off[following[i]] = off[i] + size[i]
        BY <1>1, <3>2, <4>1 DEF Laid, Behind
      <4>3. off[following[i]] = off[i] + Span(i)
        BY <1>1, <3>2, <4>1, SpanIsRoom DEF Walking
      <4>4. off[i] \in Int /\ size[i] \in Int /\ k = Span(i)
        BY <1>1, <2>2, <3>2, FieldType DEF Laid, Shown
      <4>5. k = size[i]
        BY <4>2, <4>3, <4>4
      <4>6. size' = size /\ StreamOf(sec[i])' = Out
        <5>1. StreamOf(sec[i])' = StreamOf(sec[i])
          BY <1>2, ShownFrame
        <5> QED BY <1>1, <1>2, <3>2, <5>1, WalkFrame DEF Out
      <4>7. image[Out] \in Seq(Bytes) /\ image'[Out] \in Seq(Bytes)
            /\ Longer(image[Out], image'[Out], i, k, loc[Out])
        BY <1>1, <2>2, <3>2 DEF Typeset, Prints
      <4>8. k > 0 => HasByte(image'[Out], i)
        <5> HIDE DEF Out
        <5> QED BY <4>7, LongerHas
      <4>9. HasByte(image[StreamOf(sec[i])], i)' <=> HasByte(image'[Out], i)
        BY <4>6 DEF HasByte
      <4> QED BY <4>5, <4>6, <4>8, <4>9 DEF Printed
    <3> QED BY <3>1, <3>2 DEF Showing
  <2>3. at \in Ins => Taken
    BY <1>1, SureTakes DEF Walking
  <2> QED BY <1>1, <2>1, <2>2, <2>3, StepOnPrints
<1>5. Passed'
  <2>1. at' # 0 => at \in Ins /\ at' = following[at]
    BY <1>2 DEF Follow
  <2>2. at' # 0 => Reaches(at')
    <3> SUFFICES ASSUME at' # 0, NEW i \in Ins, InSection(i, cur), i < at' PROVE i < at \/ i = at
      BY DEF Reaches
    <3>1. i <= at
      BY <1>1, <2>1, NoneBetween
    <3>2. i \in Nat /\ at \in Nat
      BY <1>1, <2>1, StreamType DEF Laid
    <3> QED BY <3>1, <3>2
  <2> QED BY <1>2, <1>4, <2>1, <2>2, PassedNext
<1>6. Again'
  BY <1>2, <1>4, AgainSame
<1> QED BY <1>3, <1>5, <1>6 DEF Depicted

LEMMA PlacedSame ==
  ASSUME Typeset, Placed, UNCHANGED <<layoutRest, image>>
  PROVE  Typeset' /\ Placed' /\ Staying
<1>1. UNCHANGED <<off, size, sec>> /\ Ins' = Ins /\ Sections' = Sections
  BY WalkFrame
<1>2. Typeset'
  BY <1>1 DEF Typeset, Bytes
<1>3. \A i \in Ins : (Shown(i)' <=> Shown(i)) /\ StreamOf(sec[i])' = StreamOf(sec[i])
  BY ShownFrame
<1>4. Placed'
  BY <1>1, <1>3 DEF Placed, StartsAt
<1>5. Staying
  BY <1>1, <1>3 DEF Staying, Printed, HasByte
<1> QED BY <1>2, <1>4, <1>5

LEMMA AgainTimes ==
  ASSUME Walking, Depicted, WalkEndTimes, UNCHANGED <<layoutRest, image>>, Staying
  PROVE  Again'
<1>1. /\ Laid /\ BlocksWithin /\ Tracked /\ stage = "walk" /\ at \in Ins /\ at # 0
      /\ InSection(at, cur) /\ sec[at] = cur /\ current \in [Ins -> Nat]
  BY WalkingAt, BlockGoes, StreamType DEF Laid
<1>2. /\ prog[at].op = "endtimes" /\ Closing(at)
      /\ \/ current' = [current EXCEPT ![at] = 0]
         \/ current' = [current EXCEPT ![at] = @ + 1]
  BY <1>1, EndTimesGoes
<1>3. UNCHANGED <<prog, term>> /\ Ins' = Ins
  BY WalkFrame
<1> SUFFICES ASSUME NEW u \in Ins, prog[u].op = "times", term[u] # 0, current'[term[u]] > 0,
                    NEW i \in Ins, Shown(i)', InBlock(i, u)'
             PROVE  Printed(i)'
  BY <1>3 DEF Again
<1>4. Shown(i) /\ InBlock(i, u) /\ sec[i] \in Sections
  BY ShownFrame DEF Shown
<1>5. term[u] \in Ins /\ i <= term[u] /\ sec[i] = sec[u] /\ i \in Nat /\ at \in Nat
  BY <1>1, <1>4, AroundType, StreamType DEF Laid
<1>6. CASE term[u] = at
  <2>1. i # at
    BY <1>2, <1>4 DEF Shown
  <2>2. sec[u] = cur
    BY <1>1, <1>6 DEF BlocksWithin, Opens
  <2>3. InSection(i, cur)
    BY <1>4, <1>5, <2>2 DEF InSection, Shown
  <2>4. i < at
    BY <1>5, <1>6, <2>1
  <2>5. Printed(i)
    BY <1>1, <1>4, <2>3, <2>4 DEF Depicted, Passed
  <2> QED BY <1>4, <2>5 DEF Staying
<1>7. CASE term[u] # at
  <2>1. current'[term[u]] = current[term[u]]
    BY <1>1, <1>2, <1>5, <1>7
  <2>2. Printed(i)
    BY <1>4, <2>1 DEF Depicted, Again
  <2> QED BY <1>4, <2>2 DEF Staying
<1> QED BY <1>6, <1>7

LEMMA DepictedBlock ==
  ASSUME Walking, Depicted, WalkEndTimes \/ WalkFill \/ WalkEndFill
  PROVE  Depicted'
<1>1. /\ Laid /\ BlocksWithin /\ Tracked /\ stage = "walk" /\ at \in Ins
      /\ cur \in Sections /\ InSection(at, cur) /\ at \in Nat
      /\ UNCHANGED <<layoutRest, cur>>
  BY WalkingAt, BlockGoes, StreamType DEF Laid
<1>2. UNCHANGED image
  BY DEF WalkEndTimes, WalkFill, WalkEndFill, PutNothing
<1>3. Typeset' /\ Placed' /\ Staying
  BY <1>1, <1>2, PlacedSame DEF Depicted
<1>4. /\ prog[at].op \notin {"insn", "data"}
      /\ at' = following[at] \/ (Closing(at) /\ at' = following[term[at]])
  <2>1. CASE WalkEndTimes
    BY <1>1, <2>1, EndTimesGoes
  <2>2. CASE WalkFill
    BY <1>1, <2>2, FillGoes
  <2>3. CASE WalkEndFill
    BY <1>1, <2>3, EndFillGoes
  <2> QED BY <2>1, <2>2, <2>3
<1>5. Passed'
  <2>1. Showing
    BY <1>4 DEF Showing, Shown
  <2>2. Reaches(at')
    <3> SUFFICES ASSUME NEW i \in Ins, InSection(i, cur), i < at' PROVE i < at \/ i = at
      BY DEF Reaches
    <3>1. i \in Nat
      BY <1>1, StreamType DEF Laid
    <3>2. CASE at' = following[at]
      <4>1. i <= at
        BY <1>1, <3>2, NoneBetween
      <4> QED BY <1>1, <3>1, <4>1
    <3>3. CASE Closing(at) /\ at' = following[term[at]]
      <4>1. at' <= at /\ at' \in Nat
        BY <1>1, <3>3, BackTo
      <4> QED BY <1>1, <3>1, <4>1
    <3> QED BY <1>4, <3>2, <3>3
  <2> QED BY <1>1, <1>3, <2>1, <2>2, PassedNext
<1>6. Again'
  <2>1. CASE WalkEndTimes
    BY <1>1, <1>2, <1>3, <2>1, AgainTimes
  <2>2. CASE WalkFill \/ WalkEndFill
    <3>1. UNCHANGED current
      BY <2>2 DEF WalkFill, WalkEndFill
    <3> QED BY <1>1, <1>3, <3>1, AgainSame
  <2> QED BY <2>1, <2>2
<1> QED BY <1>3, <1>5, <1>6 DEF Depicted

LEMMA DepictedSection ==
  ASSUME Laid, Tracked, Depicted, BeginSection
  PROVE  Depicted'
<1>1. /\ stage = "section" /\ cur <= created /\ stage' = "walk" /\ at' = first[cur]
      /\ UNCHANGED <<layoutRest, cur, current, image>>
  BY DEF BeginSection
<1>2. Typeset' /\ Placed' /\ Staying
  BY <1>1, PlacedSame DEF Depicted
<1>3. Again'
  BY <1>1, <1>2, AgainSame
<1>4. cur \in Sections
  <2>1. created \in 0 .. MaxSection /\ MaxSection \in Nat /\ cur \in 1 .. created + 1
    BY ConstantsAssumption, <1>1 DEF Laid, TypeOK, Tracked
  <2> QED BY <1>1, <2>1 DEF Sections
<1>5. Passed'
  <2> SUFFICES ASSUME first[cur] # 0, NEW i \in Ins, InSection(i, cur)', i < first[cur]
               PROVE  FALSE
    BY <1>1, WalkFrame DEF Passed
  <2>1. InSection(i, cur)
    BY <1>1, WalkFrame DEF InSection
  <2>2. first[cur] \in Ins /\ first[cur] <= i
    BY <1>4, <2>1 DEF Laid, FromZero
  <2>3. i \in Nat /\ first[cur] \in Nat
    BY <2>2, StreamType DEF Laid
  <2> QED BY <2>2, <2>3
<1> QED BY <1>2, <1>3, <1>5 DEF Depicted

LEMMA DepictedBegins ==
  ASSUME HandOver, PrintInv, stage = "layout", BeginGenerate
  PROVE  Depicted'
<1>1. /\ UNCHANGED <<layoutRest, current, image>> /\ stage' = "section"
      /\ current = [i \in Ins |-> 0] /\ image = [s \in Sections |-> <<>>] /\ Laid
  BY LaidBegins DEF BeginGenerate, HandOver, Untouched, PrintInv
<1>2. Typeset
  BY <1>1 DEF Typeset
<1>3. \A s \in Sections : DOMAIN image[s] = {}
  BY <1>1
<1>4. Placed
  BY <1>1, <1>3, StreamIs DEF Placed, StartsAt, Shown
<1>5. Typeset' /\ Placed'
  BY <1>1, <1>2, <1>4, PlacedSame
<1>6. Again'
  <2>1. UNCHANGED <<prog, term>> /\ Ins' = Ins
    BY <1>1, WalkFrame
  <2>2. \A u \in Ins : term[u] # 0 => term[u] \in Ins
    BY <1>1, FieldType DEF Laid
  <2>3. \A u \in Ins : term[u] # 0 => ~(current[term[u]] > 0)
    BY <1>1, <2>2
  <2> QED BY <1>1, <2>1, <2>3 DEF Again
<1> QED BY <1>1, <1>5, <1>6 DEF Depicted, Passed

LEMMA PrintInvStep == Passage /\ StepInv /\ PrintInv /\ [AssembleNext]_allVars => PrintInv'
<1> SUFFICES ASSUME Passage, StepInv, PrintInv, [AssembleNext]_allVars PROVE PrintInv'
  OBVIOUS
<1>1. HandOver /\ WalkInv /\ LimitInv
  BY DEF Passage
<1>2. CASE stage = "layout" /\ (Lay \/ UNCHANGED allVars)
  <2>1. UNCHANGED <<stage, image>> /\ Sections' = Sections
    BY <1>2 DEF Lay, genVars, allVars, Sections
  <2> QED BY <1>2, <2>1 DEF PrintInv
<1>3. CASE stage = "layout" /\ BeginGenerate
  <2>1. stage' # "layout"
    BY <1>3 DEF BeginGenerate
  <2> QED BY <1>1, <1>3, <2>1, DepictedBegins DEF PrintInv
<1>4. stage = "layout" => Lay \/ UNCHANGED allVars \/ BeginGenerate
  BY DEF AssembleNext, Step, Walk, BeginSection, EndSection, EndGenerate, WalkSilent, WalkOrg,
         WalkSkip, WalkEndTimes, WalkFill, WalkEndFill, WalkData, WalkInsn, WalkStop, Visiting
<1>5. CASE stage # "layout"
  <2>1. UNCHANGED layoutRest /\ (Sure' <=> Sure) /\ stage' # "layout"
    BY <1>1, <1>5, WalkLeaves, SureFrame
  <2> SUFFICES ASSUME Sure PROVE Depicted'
    BY <2>1 DEF PrintInv
  <2>2. Laid /\ Tracked /\ Limited /\ Balanced /\ Depicted
    BY <1>1, <1>5, SureIs DEF HandOver, WalkInv, LimitInv, StepInv, PrintInv
  <2>3. stage = "walk" => Walking
    BY <2>2 DEF Walking
  <2>4. CASE stage = "walk" /\ StepOn
    BY <2>2, <2>3, <2>4, DepictedOn
  <2>5. CASE stage = "walk" /\ (WalkEndTimes \/ WalkFill \/ WalkEndFill)
    BY <2>2, <2>3, <2>5, DepictedBlock
  <2>6. CASE BeginSection
    BY <2>2, <2>6, DepictedSection
  <2>7. CASE EndSection \/ (stage' = "end" /\ UNCHANGED <<current, image>>)
    <3>1. stage' # "walk" /\ UNCHANGED <<current, image>>
      BY <2>7 DEF EndSection
    <3>2. Typeset' /\ Placed' /\ Staying
      BY <2>1, <2>2, <3>1, PlacedSame DEF Depicted
    <3>3. Again'
      BY <2>1, <2>2, <3>1, <3>2, AgainSame
    <3> QED BY <3>1, <3>2, <3>3 DEF Depicted, Passed
  <2>8. CASE UNCHANGED <<layoutRest, cur, genVars>>
    <3>1. UNCHANGED <<stage, at, current, image>>
      BY <2>8 DEF genVars
    <3>2. Typeset' /\ Placed' /\ Staying
      BY <2>1, <2>2, <3>1, PlacedSame DEF Depicted
    <3>3. Again'
      BY <2>1, <2>2, <3>1, <3>2, AgainSame
    <3>4. \A i \in Ins : /\ Shown(i)' <=> Shown(i)
                         /\ InSection(i, cur)' <=> InSection(i, cur)
      <4>1. \A i \in Ins : InSection(i, cur)' <=> InSection(i, cur)
        BY <2>8, WalkFrame DEF InSection
      <4> QED BY <2>1, <4>1, ShownFrame
    <3>5. Passed'
      <4>1. Ins' = Ins
        BY <2>1, WalkFrame
      <4> QED BY <2>2, <3>1, <3>2, <3>4, <4>1 DEF Depicted, Passed, Staying, Shown
    <3> QED BY <3>2, <3>3, <3>5 DEF Depicted
  <2>9. \/ stage = "walk" /\ StepOn
        \/ stage = "walk" /\ (WalkEndTimes \/ WalkFill \/ WalkEndFill)
        \/ BeginSection
        \/ EndSection
        \/ stage' = "end" /\ UNCHANGED <<current, image>>
        \/ UNCHANGED <<layoutRest, cur, genVars>>
    BY <1>1, <1>5, WalkSteps
  <2> QED BY <2>4, <2>5, <2>6, <2>7, <2>8, <2>9
<1> QED BY <1>2, <1>3, <1>4, <1>5

LEMMA PrintInvInit == AssembleInit => PrintInv
BY DEF AssembleInit, GenInit, PrintInv

(* The first of the bytes of an instruction.                               *)
LEMMA LeastOf ==
  ASSUME NEW S, S \subseteq Nat, S # {}
  PROVE  \E b \in S : \A d \in S : b <= d
<1> DEFINE R == OpToRel(<, Nat)
<1>1. IsWellFoundedOn(R, Nat)
  BY NatLessThanWellFounded
<1>2. \A x, y \in Nat : x < y => <<x, y>> \in R
  BY DEF OpToRel
<1>3. PICK b \in S : \A d \in S : <<d, b>> \notin R
  <2> HIDE DEF R
  <2> QED BY <1>1, WFMin
<1> HIDE DEF R
<1>4. ASSUME NEW d \in S PROVE b <= d
  <2>1. b \in Nat /\ d \in Nat /\ <<d, b>> \notin R
    BY <1>3
  <2>2. ~(d < b)
    BY <1>2, <2>1
  <2> QED BY <2>1, <2>2
<1> QED BY <1>4

LEMMA PlaceIs ==
  ASSUME Laid, Depicted, NEW i \in Ins, Shown(i), Written(i)
  PROVE  PlaceOf(i) = off[i]
<1> DEFINE q == image[StreamOf(sec[i])]
           least == CHOOSE b \in BytesOf(i) : \A d \in BytesOf(i) : b <= d
<1>1. q \in Seq(Bytes) /\ StartsAt(q, i, off[i])
  BY StreamIs DEF Depicted, Typeset, Placed, Shown
<1>2. BytesOf(i) = {b \in DOMAIN q : q[b].by = i} /\ BytesOf(i) # {}
  BY DEF BytesOf, Written
<1>3. PlaceOf(i) = q[least].at
  BY DEF PlaceOf
<1> HIDE DEF q
<1>4. BytesOf(i) \subseteq Nat
  <2>1. DOMAIN q \subseteq Nat
    BY <1>1
  <2> QED BY <1>2, <2>1
<1>5. \E b \in BytesOf(i) : \A d \in BytesOf(i) : b <= d
  BY <1>2, <1>4, LeastOf
<1>6. least \in BytesOf(i) /\ \A d \in BytesOf(i) : least <= d
  BY <1>5
<1> HIDE DEF least
<1>7. least \in DOMAIN q /\ q[least].by = i /\ \A d \in DOMAIN q : q[d].by = i => least <= d
  BY <1>2, <1>6
<1>8. q[least].at = off[i]
  BY <1>1, <1>7 DEF StartsAt
<1> QED BY <1>3, <1>8

(* A label is a symbol, and the instruction behind it is where it is.      *)
LEMMA LabelAt ==
  ASSUME Laid, NEW i \in Ins, Branches(i), NEW j \in Places(i), NEW k \in Ins, Marks(j, k)
  PROVE  /\ off[k] = off[j] /\ off[j] \in Int
         /\ \A c : Eval(prog[i].arg, off[i], c, sym) = [val |-> off[j], sec |-> sec[i]]
<1>1. /\ j \in Ins /\ prog[j].op = "equ" /\ prog[j].name = prog[i].arg.pos
      /\ Chained(j) /\ IsPlace(j) /\ prog[j].arg.add = 0 /\ sec[j] = sec[i]
      /\ following[j] = k
  BY DEF Places, Marks
<1>2. off[j] \in Int /\ size[j] \in Int /\ prog[j].name \in Names /\ off[k] \in Int
  BY <1>1, FieldType, ProgramType DEF Laid
<1>3. off[k] = off[j]
  <2>1. Rigid(j)
    BY <1>1 DEF Rigid
  <2>2. 0 <= size[j] /\ size[j] <= 0
    BY <1>1, <2>1 DEF Laid, Bounded, Cap
  <2>3. off[k] = off[j] + size[j]
    BY <1>1, <2>1 DEF Laid, Behind
  <2> QED BY <1>2, <2>2, <2>3
<1>4. sym[prog[j].name] = [val |-> off[j], sec |-> sec[i]]
  <2>1. sym[prog[j].name] = [val |-> off[j] + prog[j].arg.add, sec |-> sec[j]]
    BY <1>1 DEF Laid, Labelled
  <2>2. off[j] + prog[j].arg.add = off[j]
    BY <1>1, <1>2
  <2> QED BY <1>1, <2>1, <2>2
<1>5. \A c : Eval(prog[i].arg, off[i], c, sym) = [val |-> off[j], sec |-> sec[i]]
  <2> SUFFICES ASSUME NEW c
               PROVE  Eval(prog[i].arg, off[i], c, sym) = [val |-> off[j], sec |-> sec[i]]
    OBVIOUS
  <2>1. prog[i].arg.pos \notin {"none", "$", "$$"}
    BY <1>1, <1>2, ConstantsAssumption
  <2>2. AtomValue(prog[i].arg.pos, off[i], c, sym) = [val |-> off[j], sec |-> sec[i]]
    BY <1>1, <1>4, <2>1 DEF AtomValue
  <2>3. /\ prog[i].arg.neg = "none" /\ prog[i].arg.add = 0 /\ ~(prog[i].arg.align > 0)
        /\ AtomValue("none", off[i], c, sym) = [val |-> 0, sec |-> Scalar]
    BY DEF Branches, AtomValue
  <2>4. off[j] - 0 + 0 = off[j]
    BY <1>2
  <2> QED BY <2>2, <2>3, <2>4 DEF Eval
<1> QED BY <1>2, <1>3, <1>5

(* The short form, as the layout chose it, holds the whole distance.       *)
LEMMA ShortHolds ==
  ASSUME Laid, Sure, NEW i \in Ins, Branches(i), sec[i] \in Sections,
         NEW v, Eval(prog[i].arg, off[i], sec[i], sym) = [val |-> v, sec |-> sec[i]],
         size[i] < prog[i].long
  PROVE  v - off[following[i]] \in -Reach .. Reach - 1
<1>1. /\ prog[i].op = "insn" /\ prog[i].mode = "rel" /\ Chained(i)
      /\ prog[i].short \in Nat /\ prog[i].long \in Nat
  BY FormType DEF Branches
<1>2. size[i] = prog[i].short /\ prog[i].short # prog[i].long
  BY <1>1 DEF Laid, Formed
<1>3. Direct(prog[i].arg)
  BY <1>1, <1>2 DEF Sure, Steady
<1>4. TargetLength(i, FALSE, sec[i]) = prog[i].short
  BY <1>1, <1>2, <1>3 DEF Laid, Chosen
<1>5. Fits(i, sec[i])
  BY <1>2, <1>4 DEF TargetLength
<1>6. sec[i] # Scalar
  BY StreamType DEF Laid, Scalar
<1> QED BY <1>1, <1>5, <1>6 DEF Fits

LEMMA Wrapped ==
  ASSUME NEW d \in Int, NEW n \in Nat, d \in -n .. n - 1
  PROVE  ((d + n) % (2 * n)) - n = d
<1>1. 0 <= d + n /\ d + n < 2 * n /\ 2 * n \in Nat /\ 2 * n > 0
  OBVIOUS
<1>2. \A a \in Int, m \in Nat : 0 <= a /\ a < m => (a % m) = a
  OBVIOUS
<1>3. ((d + n) % (2 * n)) = d + n
  BY <1>1, <1>2
<1> QED BY <1>3

(* In every finished output that is in step with its layout, a branch      *)
(* reaches the instruction behind the label it names (asm.c:1166-1206,     *)
(* x86/gen.c:2176 against asm.c:832-837 and x86/gen.c:955).                *)
THEOREM BranchesLandForAll == AssembleSpec => []BranchesLand
<1>1. Passage /\ PrintInv => BranchesLand
  <2> SUFFICES ASSUME Passage, PrintInv, stage = "end", Steady, ~FillInFill,
                      NEW i \in Ins, Branches(i), ~InFill(i), Written(i),
                      NEW j \in Places(i), NEW k \in Ins, Marks(j, k), Written(k), ~InFill(k)
               PROVE  PlaceOf(i) + size[i] + Displacement(i) = PlaceOf(k)
    BY DEF BranchesLand
  <2>1. Laid /\ Sure /\ Depicted
    BY DEF Passage, HandOver, PrintInv, Sure
  <2>2. sec[i] \in Sections /\ sec[k] \in Sections
    BY <2>1, FieldType DEF Laid, Written
  <2>3. PlaceOf(i) = off[i] /\ PlaceOf(k) = off[k]
    BY <2>1, <2>2, PlaceIs DEF Shown, Branches, Marks
  <2>4. /\ off[k] = off[j] /\ off[j] \in Int
        /\ \A c : Eval(prog[i].arg, off[i], c, sym) = [val |-> off[j], sec |-> sec[i]]
    BY <2>1, LabelAt
  <2>5. off[following[i]] = off[i] + size[i] /\ off[i] \in Int /\ size[i] \in Int
    <3>1. Rigid(i) /\ Chained(i)
      BY <2>1, SureIs DEF Regular, Branches
    <3> QED BY <2>1, <3>1, FieldType DEF Laid, Behind
  <2>6. Displacement(i) = off[j] - off[following[i]]
    <3> DEFINE d == off[j] - off[following[i]]
    <3>1. Value(prog[i].arg, off[i], cur, sym) = off[j]
      BY <2>4 DEF Value
    <3>2. CASE size[i] < prog[i].long
      <4>1. d \in -Reach .. Reach - 1
        BY <2>1, <2>2, <2>4, <3>2, ShortHolds
      <4>2. Reach \in Nat /\ d \in Int
        BY <2>4, <2>5, ConstantsAssumption
      <4> HIDE DEF d
      <4>3. ((d + Reach) % (2 * Reach)) - Reach = d
        BY <4>1, <4>2, Wrapped
      <4> QED BY <3>1, <3>2, <4>3 DEF Displacement, d
    <3>3. CASE ~(size[i] < prog[i].long)
      BY <3>1, <3>3 DEF Displacement
    <3> QED BY <3>2, <3>3
  <2> QED BY <2>3, <2>4, <2>5, <2>6
<1> QED BY <1>1, PassageInit, PassageStep, StepInvInit, StepInvStep, PrintInvInit, PrintInvStep,
           PTL DEF AssembleSpec
=============================================================================
