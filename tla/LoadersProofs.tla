---------------------------- MODULE LoadersProofs ---------------------------
(***************************************************************************)
(* The parts of a COFF and of an ELF file lie apart, for every object: the *)
(* writer computes offsets in one loop and writes in another, and what is  *)
(* written at an offset has the room the first loop left.  So a linker     *)
(* finds the bytes of a section, and what it makes of the words of an ELF  *)
(* file is what their instructions need.                                   *)
(*                                                                         *)
(*   Kept       what the stages before the writer keep of a section;       *)
(*   Slots      intervals that follow each other, one for each part;       *)
(*   WordsHeld  what they keep of the words: addends, and bytes to come;   *)
(*   Arranged   each part is there once, relocations after their section.  *)
(***************************************************************************)
EXTENDS ObjectLoaders, ObjectProofs, SequenceTheorems, WellFoundedInduction
-----------------------------------------------------------------------------
(***************************************************************************)
(* Recursive functions.                                                    *)
(***************************************************************************)

(* Induction, for a set of numbers in place of a predicate.                *)
LEMMA SetInduction ==
  ASSUME NEW S, 0 \in S, \A n \in Nat : n \in S => n + 1 \in S
  PROVE  Nat \subseteq S
<1> SUFFICES ASSUME Nat \ S # {} PROVE FALSE
  OBVIOUS
<1>1. PICK x \in Nat \ S : \A y \in Nat \ S : <<y, x>> \notin OpToRel(<, Nat)
  <2> DEFINE R == OpToRel(<, Nat)
             T == Nat \ S
  <2>1. IsWellFoundedOn(R, Nat) /\ T \subseteq Nat /\ T # {}
    BY NatLessThanWellFounded
  <2> HIDE DEF R, T
  <2>2. \E x \in T : \A y \in T : <<y, x>> \notin R
    BY <2>1, WFMin
  <2> QED BY <2>2 DEF R, T
<1>2. x \in Nat /\ x # 0
  OBVIOUS
<1>3. x - 1 \in Nat /\ x - 1 < x /\ x = (x - 1) + 1
  BY <1>2
<1>4. <<x - 1, x>> \in OpToRel(<, Nat)
  BY <1>2, <1>3 DEF OpToRel
<1>5. x - 1 \in S
  BY <1>1, <1>3, <1>4
<1> QED BY <1>3, <1>5

(* Some number of a set is at most every other.                            *)
LEMMA LeastOf ==
  ASSUME NEW T, T \subseteq Nat, T # {}
  PROVE  \E x \in T : \A y \in T : x <= y
<1> DEFINE R == OpToRel(<, Nat)
<1>1. IsWellFoundedOn(R, Nat)
  BY NatLessThanWellFounded
<1> HIDE DEF R
<1>2. PICK x \in T : \A y \in T : <<y, x>> \notin R
  BY <1>1, WFMin
<1>3. \A y \in T : ~(y < x)
  BY <1>2 DEF R, OpToRel
<1> QED BY <1>3

(* A property of what a loop starts with, that a step keeps, holds of what *)
(* it has after any number of steps.                                       *)
LEMMA Along ==
  ASSUME NEW V, NEW n \in Nat, NEW f, f[0] \in V,
         \A i \in 1 .. n : f[i - 1] \in V => f[i] \in V
  PROVE  \A i \in 0 .. n : f[i] \in V
<1> DEFINE S == {i \in Nat : i <= n => f[i] \in V}
<1>1. 0 \in S
  OBVIOUS
<1>2. \A i \in Nat : i \in S => i + 1 \in S
  <2> SUFFICES ASSUME NEW i \in Nat, i <= n => f[i] \in V, i + 1 <= n
               PROVE  f[i + 1] \in V
    OBVIOUS
  <2>1. i + 1 \in 1 .. n /\ (i + 1) - 1 = i /\ f[i] \in V
    OBVIOUS
  <2> QED BY <2>1
<1>3. Nat \subseteq S
  <2> HIDE DEF S
  <2> QED BY <1>1, <1>2, SetInduction
<1> QED BY <1>3

(* A loop of n steps from base, where step[i] is what the i-th does.       *)
IsRun(f, step, base, n) ==
  f = [i \in 0 .. n |-> IF i = 0 THEN base ELSE step[i][f[i - 1]]]

LEMMA RunExists ==
  ASSUME NEW V, NEW n \in Nat, NEW base \in V, NEW step \in [1 .. n -> [V -> V]]
  PROVE  \E f \in [0 .. n -> V] : IsRun(f, step, base, n)
<1> DEFINE S == {m \in Nat : m <= n => \E f \in [0 .. m -> V] : IsRun(f, step, base, m)}
<1>1. 0 \in S
  <2> DEFINE f == [i \in 0 .. 0 |-> base]
  <2>1. f = [i \in 0 .. 0 |-> IF i = 0 THEN base ELSE step[i][f[i - 1]]]
    OBVIOUS
  <2>2. f \in [0 .. 0 -> V] /\ IsRun(f, step, base, 0)
    BY <2>1 DEF IsRun
  <2> QED BY <2>2
<1>2. \A m \in Nat : m \in S => m + 1 \in S
  <2> SUFFICES ASSUME NEW m \in Nat, m + 1 <= n,
                      NEW f \in [0 .. m -> V], IsRun(f, step, base, m)
               PROVE  \E g \in [0 .. m + 1 -> V] : IsRun(g, step, base, m + 1)
    OBVIOUS
  <2> DEFINE g == [i \in 0 .. m + 1 |-> IF i = m + 1 THEN step[m + 1][f[m]] ELSE f[i]]
  <2>1. \A i \in 0 .. m : f[i] = IF i = 0 THEN base ELSE step[i][f[i - 1]]
    BY DEF IsRun
  <2>2. /\ \A i \in 0 .. m : g[i] = f[i]
        /\ g[m + 1] = step[m + 1][f[m]] /\ g = [i \in 0 .. m + 1 |-> g[i]]
    OBVIOUS
  <2>3. g \in [0 .. m + 1 -> V]
    <3>1. m + 1 \in 1 .. n /\ f[m] \in V
      OBVIOUS
    <3>2. step[m + 1][f[m]] \in V
      BY <3>1
    <3> QED BY <3>2
  <2> HIDE DEF g
  <2>4. \A i \in 0 .. m + 1 : g[i] = IF i = 0 THEN base ELSE step[i][g[i - 1]]
    <3> TAKE i \in 0 .. m + 1
    <3>1. CASE i = m + 1
      <4>1. i - 1 = m /\ m \in 0 .. m /\ i # 0
        BY <3>1
      <4> QED BY <2>2, <3>1, <4>1
    <3>2. CASE i = 0
      <4>1. 0 \in 0 .. m
        OBVIOUS
      <4> QED BY <2>1, <2>2, <3>2, <4>1
    <3>3. CASE i \in 1 .. m
      <4>1. i \in 0 .. m /\ i - 1 \in 0 .. m /\ i # 0
        BY <3>3
      <4> QED BY <2>1, <2>2, <4>1
    <3> QED BY <3>1, <3>2, <3>3
  <2>5. IsRun(g, step, base, m + 1)
    BY <2>2, <2>4 DEF IsRun
  <2> QED BY <2>3, <2>5
<1>3. n \in S
  <2> HIDE DEF S
  <2> QED BY <1>1, <1>2, SetInduction
<1> QED BY <1>3

(* A loop that never goes back.                                            *)
LEMMA Monotone ==
  ASSUME NEW n \in Nat, NEW f \in [0 .. n -> Nat], \A i \in 1 .. n : f[i - 1] <= f[i]
  PROVE  \A i, j \in 0 .. n : i <= j => f[i] <= f[j]
<1> SUFFICES ASSUME NEW i \in 0 .. n PROVE \A j \in 0 .. n : i <= j => f[i] <= f[j]
  OBVIOUS
<1> DEFINE S == {d \in Nat : i + d <= n => f[i] <= f[i + d]}
<1>1. 0 \in S
  OBVIOUS
<1>2. \A d \in Nat : d \in S => d + 1 \in S
  <2> SUFFICES ASSUME NEW d \in Nat, i + d <= n => f[i] <= f[i + d], i + (d + 1) <= n
               PROVE  f[i] <= f[i + (d + 1)]
    OBVIOUS
  <2> DEFINE k == i + (d + 1)
  <2>1. k \in 1 .. n /\ k - 1 = i + d /\ k - 1 \in 0 .. n /\ k \in 0 .. n
    OBVIOUS
  <2> HIDE DEF k
  <2>2. f[i] <= f[k - 1] /\ f[k - 1] <= f[k]
    BY <2>1
  <2>3. f[i] \in Nat /\ f[k - 1] \in Nat /\ f[k] \in Nat
    BY <2>1
  <2>4. f[i] <= f[k]
    BY <2>2, <2>3
  <2> QED BY <2>4 DEF k
<1>3. Nat \subseteq S
  <2> HIDE DEF S
  <2> QED BY <1>1, <1>2, SetInduction
<1> SUFFICES ASSUME NEW j \in 0 .. n, i <= j PROVE f[i] <= f[j]
  OBVIOUS
<1>4. j - i \in Nat /\ i + (j - i) = j
  OBVIOUS
<1>5. j - i \in S
  BY <1>3, <1>4
<1> QED BY <1>4, <1>5
-----------------------------------------------------------------------------
(***************************************************************************)
(* The sequences a writer makes.                                           *)
(***************************************************************************)

(* The members of a set, in order, are a list of its members.              *)
LEMMA AscendingType ==
  ASSUME NEW S, NEW n \in Nat
  PROVE  Ascending(S, n) \in Seq(S)
<1> DEFINE next(k, x) == IF k \in S THEN Append(x, k) ELSE x
           Upto(f) == f = [k \in 0 .. n |-> IF k = 0 THEN <<>> ELSE next(k, f[k - 1])]
           upto == CHOOSE f : Upto(f)
<1>1. \A k : \A x \in Seq(S) : next(k, x) \in Seq(S)
  OBVIOUS
<1>2. \E f : Upto(f)
  <2> DEFINE step == [k \in 1 .. n |-> [x \in Seq(S) |-> next(k, x)]]
  <2>1. step \in [1 .. n -> [Seq(S) -> Seq(S)]]
    BY <1>1
  <2> HIDE DEF next
  <2>2. \A k \in 1 .. n : \A x \in Seq(S) : step[k][x] = next(k, x)
    OBVIOUS
  <2> HIDE DEF step
  <2>3. PICK f \in [0 .. n -> Seq(S)] : IsRun(f, step, <<>>, n)
    <3>1. <<>> \in Seq(S)
      OBVIOUS
    <3> QED BY <2>1, <3>1, RunExists
  <2>4. \A k \in 0 .. n : f[k] = IF k = 0 THEN <<>> ELSE step[k][f[k - 1]]
    BY <2>3 DEF IsRun
  <2>5. ASSUME NEW k \in 0 .. n, k # 0
        PROVE  f[k] = next(k, f[k - 1])
    <3>1. k \in 1 .. n /\ k - 1 \in 0 .. n
      BY <2>5
    <3> QED BY <2>2, <2>4, <2>5, <3>1
  <2>6. f = [k \in 0 .. n |-> IF k = 0 THEN <<>> ELSE next(k, f[k - 1])]
    BY <2>4, <2>5
  <2> QED BY <2>6
<1>3. Ascending(S, n) = upto[n]
  BY DEF Ascending
<1>4. Upto(upto)
  <2> HIDE DEF Upto
  <2> QED BY <1>2
<1> HIDE DEF upto, next
<1>5. upto[0] = <<>> /\ \A k \in 1 .. n : upto[k] = next(k, upto[k - 1])
  <2>1. \A k \in 0 .. n : upto[k] = IF k = 0 THEN <<>> ELSE next(k, upto[k - 1])
    BY <1>4
  <2>2. 0 \in 0 .. n /\ \A k \in 1 .. n : k \in 0 .. n /\ k # 0
    OBVIOUS
  <2> QED BY <2>1, <2>2
<1>6. upto[0] \in Seq(S) /\ \A k \in 1 .. n : upto[k - 1] \in Seq(S) => upto[k] \in Seq(S)
  BY <1>1, <1>5
<1>7. \A k \in 0 .. n : upto[k] \in Seq(S)
  BY <1>6, Along
<1> QED BY <1>3, <1>7

(* Lists of members are put one behind the other, one at a time.           *)
LEMMA FlattenRun ==
  ASSUME NEW S, NEW seqs \in Seq(Seq(S))
  PROVE  \E h \in [0 .. Len(seqs) -> Seq(S)] :
           /\ FlattenSeq(seqs) = h[Len(seqs)]
           /\ h[0] = <<>>
           /\ \A i \in 1 .. Len(seqs) : h[i] = h[i - 1] \o seqs[i]
<1> DEFINE n == Len(seqs)
           Flat(f) == f = [i \in 1 .. n |-> IF i = 1 THEN seqs[i] ELSE f[i - 1] \o seqs[i]]
           flat == CHOOSE f : Flat(f)
<1>1. n \in Nat /\ \A i \in 1 .. n : seqs[i] \in Seq(S)
  OBVIOUS
<1>2. CASE n = 0
  <2>1. FlattenSeq(seqs) = seqs /\ seqs = <<>>
    BY <1>2 DEF FlattenSeq
  <2> DEFINE h == [i \in 0 .. n |-> <<>>]
  <2>2. h \in [0 .. n -> Seq(S)] /\ h[n] = seqs /\ h[0] = <<>>
    BY <1>2, <2>1
  <2>3. \A i \in 1 .. n : h[i] = h[i - 1] \o seqs[i]
    BY <1>2
  <2> HIDE DEF h
  <2> QED BY <2>1, <2>2, <2>3
<1>3. CASE n # 0
  <2>1. FlattenSeq(seqs) = flat[n]
    BY <1>3 DEF FlattenSeq
  <2> HIDE DEF n
  <2>2. \E f : Flat(f)
    <3> DEFINE step == [i \in 1 .. n |-> [x \in Seq(S) |-> x \o seqs[i]]]
    <3>1. step \in [1 .. n -> [Seq(S) -> Seq(S)]]
      BY <1>1
    <3>2. \A i \in 1 .. n : \A x \in Seq(S) : step[i][x] = x \o seqs[i]
      OBVIOUS
    <3>3. <<>> \in Seq(S)
      OBVIOUS
    <3> HIDE DEF step
    <3>4. PICK f \in [0 .. n -> Seq(S)] : IsRun(f, step, <<>>, n)
      BY <1>1, <3>1, <3>3, RunExists
    <3>5. \A i \in 0 .. n : f[i] = IF i = 0 THEN <<>> ELSE step[i][f[i - 1]]
      BY <3>4 DEF IsRun
    <3> DEFINE g == [i \in 1 .. n |-> f[i]]
    <3>0. \A i \in 1 .. n : g[i] = f[i]
      OBVIOUS
    <3>9. g = [i \in 1 .. n |-> g[i]]
      OBVIOUS
    <3> HIDE DEF g
    <3>6. \A i \in 1 .. n : g[i] = IF i = 1 THEN seqs[i] ELSE g[i - 1] \o seqs[i]
      <4> TAKE i \in 1 .. n
      <4>1. i \in 0 .. n /\ i - 1 \in 0 .. n /\ i # 0 /\ n \in Nat
        BY <1>1
      <4>2. g[i] = f[i - 1] \o seqs[i]
        BY <3>0, <3>2, <3>5, <4>1
      <4>3. CASE i = 1
        <5>1. f[0] = <<>> /\ i - 1 = 0
          BY <3>5, <4>1, <4>3
        <5>2. seqs[i] \in Seq(S)
          BY <1>1
        <5>3. \A q \in Seq(S) : <<>> \o q = q
          OBVIOUS
        <5>4. g[i] = seqs[i]
          BY <4>2, <5>1, <5>2, <5>3
        <5> QED BY <4>3, <5>4
      <4>4. CASE i # 1
        <5>1. i - 1 \in 1 .. n
          BY <4>1, <4>4
        <5> QED BY <3>0, <4>2, <4>4, <5>1
      <4> QED BY <4>3, <4>4
    <3>7. g = [i \in 1 .. n |-> IF i = 1 THEN seqs[i] ELSE g[i - 1] \o seqs[i]]
      BY <3>6, <3>9
    <3> QED BY <3>7
  <2>3. Flat(flat)
    <3> HIDE DEF Flat
    <3> QED BY <2>2
  <2> HIDE DEF flat
  <2>4. \A i \in 1 .. n : flat[i] = IF i = 1 THEN seqs[i] ELSE flat[i - 1] \o seqs[i]
    BY <2>3
  <2> DEFINE h == [i \in 0 .. n |-> IF i = 0 THEN <<>> ELSE flat[i]]
  <2>5. \A i \in 1 .. n : h[i - 1] \in Seq(S) => h[i] \in Seq(S)
    <3> SUFFICES ASSUME NEW i \in 1 .. n, h[i - 1] \in Seq(S) PROVE flat[i] \in Seq(S)
      BY <1>1
    <3>1. seqs[i] \in Seq(S)
      BY <1>1
    <3>2. CASE i = 1
      BY <2>4, <3>1, <3>2
    <3>3. CASE i # 1
      <4>1. i - 1 \in 0 .. n /\ i - 1 # 0
        BY <1>1, <3>3
      <4>2. flat[i - 1] \in Seq(S)
        BY <4>1
      <4>3. flat[i] = flat[i - 1] \o seqs[i]
        BY <2>4, <3>3
      <4> QED BY <3>1, <4>2, <4>3
    <3> QED BY <3>2, <3>3
  <2>6. h[0] \in Seq(S) /\ h[0] = <<>>
    BY <1>1
  <2>7. h[n] = flat[n] /\ n \in 0 .. n /\ h = [i \in 0 .. n |-> h[i]]
    BY <1>1, <1>3
  <2>8. \A i \in 1 .. n : h[i] = h[i - 1] \o seqs[i]
    <3> TAKE i \in 1 .. n
    <3>1. h[i] = flat[i] /\ seqs[i] \in Seq(S)
      BY <1>1
    <3>2. CASE i = 1
      <4>1. i - 1 = 0 /\ \A q \in Seq(S) : <<>> \o q = q
        BY <3>2
      <4>2. flat[i] = seqs[i]
        BY <2>4, <3>2
      <4> HIDE DEF h
      <4> QED BY <2>6, <3>1, <4>1, <4>2
    <3>3. CASE i # 1
      <4>1. i - 1 \in 0 .. n /\ i - 1 # 0
        BY <1>1, <3>3
      <4>2. h[i - 1] = flat[i - 1]
        BY <4>1
      <4> QED BY <2>4, <3>1, <3>3, <4>2
    <3> QED BY <3>2, <3>3
  <2> HIDE DEF h
  <2>9. \A i \in 0 .. n : h[i] \in Seq(S)
    BY <1>1, <2>5, <2>6, Along
  <2>10. h \in [0 .. n -> Seq(S)]
    BY <2>7, <2>9
  <2> QED BY <2>1, <2>6, <2>7, <2>8, <2>10 DEF n
<1> QED BY <1>2, <1>3

(* The result is a list of members,                                        *)
LEMMA FlattenType ==
  ASSUME NEW S, NEW seqs \in Seq(Seq(S))
  PROVE  FlattenSeq(seqs) \in Seq(S)
<1>1. PICK h \in [0 .. Len(seqs) -> Seq(S)] : FlattenSeq(seqs) = h[Len(seqs)]
  BY FlattenRun
<1>2. Len(seqs) \in 0 .. Len(seqs)
  OBVIOUS
<1> QED BY <1>1, <1>2

(* and holds what is in one of the lists.                                  *)
LEMMA FlattenHolds ==
  ASSUME NEW S, NEW seqs \in Seq(Seq(S)), NEW k \in DOMAIN seqs,
         NEW j \in DOMAIN seqs[k]
  PROVE  \E i \in DOMAIN FlattenSeq(seqs) : FlattenSeq(seqs)[i] = seqs[k][j]
<1> DEFINE n == Len(seqs)
           x == seqs[k][j]
           V == {q \in Seq(S) : \E i \in DOMAIN q : q[i] = x}
<1>1. PICK h \in [0 .. n -> Seq(S)] : /\ FlattenSeq(seqs) = h[n]
                                      /\ \A i \in 1 .. n : h[i] = h[i - 1] \o seqs[i]
  BY FlattenRun
<1>2. n \in Nat /\ k \in 1 .. n /\ \A i \in 1 .. n : seqs[i] \in Seq(S)
  OBVIOUS
<1>0. FlattenSeq(seqs) = h[n] /\ \A i \in 1 .. n : h[i] = h[i - 1] \o seqs[i]
  BY <1>1
<1> HIDE DEF n
<1>3. \A u, v \in Seq(S) : (u \in V \/ v \in V) => u \o v \in V
  <2> SUFFICES ASSUME NEW u \in Seq(S), NEW v \in Seq(S), u \in V \/ v \in V
               PROVE  u \o v \in V
    OBVIOUS
  <2>1. u \o v \in Seq(S)
    OBVIOUS
  <2>2. ASSUME NEW i \in DOMAIN u, u[i] = x
        PROVE  i \in DOMAIN (u \o v) /\ (u \o v)[i] = x
    BY <2>2
  <2>3. ASSUME NEW i \in DOMAIN v, v[i] = x
        PROVE  Len(u) + i \in DOMAIN (u \o v) /\ (u \o v)[Len(u) + i] = x
    BY <2>3
  <2> HIDE DEF x
  <2> QED BY <2>1, <2>2, <2>3
<1>4. seqs[k] \in V
  BY <1>2
<1> DEFINE m == n - k
           g == [i \in 0 .. m |-> h[k + i]]
<1>5. m \in Nat /\ k + m = n /\ g[0] = h[k] /\ g[m] = h[n]
  <2>1. m \in Nat /\ k + m = n /\ k + 0 = k
    BY <1>2
  <2>2. 0 \in 0 .. m /\ m \in 0 .. m
    BY <2>1
  <2> HIDE DEF m
  <2> QED BY <2>1, <2>2
<1>6. h[k] \in V
  <2>1. h[k] = h[k - 1] \o seqs[k] /\ h[k - 1] \in Seq(S) /\ seqs[k] \in Seq(S)
    <3>1. k - 1 \in 0 .. n
      BY <1>2
    <3> HIDE DEF V
    <3> QED BY <1>0, <1>2, <3>1
  <2> HIDE DEF V
  <2> QED BY <1>3, <1>4, <2>1
<1>7. \A i \in 1 .. m : g[i - 1] \in V => g[i] \in V
  <2> SUFFICES ASSUME NEW i \in 1 .. m, g[i - 1] \in V PROVE g[i] \in V
    OBVIOUS
  <2> HIDE DEF V
  <2>1. /\ k + i \in 1 .. n /\ (k + i) - 1 \in 0 .. n /\ k + (i - 1) = (k + i) - 1
        /\ i \in 0 .. m /\ i - 1 \in 0 .. m
    <3>1. m \in Nat /\ k + m = n
      BY <1>5
    <3>2. n \in Nat /\ k \in 1 .. n /\ i \in 1 .. m
      BY <1>2
    <3> HIDE DEF m, g
    <3>3. k + i \in 1 .. n /\ (k + i) - 1 \in 0 .. n
      <4>1. \A a, b, c \in Nat : a # 0 /\ b # 0 /\ b <= c =>
              a + b \in 1 .. a + c /\ (a + b) - 1 \in 0 .. a + c
        OBVIOUS
      <4>2. k \in Nat /\ i \in Nat /\ k # 0 /\ i # 0 /\ i <= m
        BY <3>1, <3>2
      <4> QED BY <3>1, <4>1, <4>2
    <3>4. i \in 0 .. m /\ i - 1 \in 0 .. m /\ k + (i - 1) = (k + i) - 1
      BY <3>1, <3>2
    <3> QED BY <3>3, <3>4
  <2>2. g[i - 1] = h[(k + i) - 1] /\ g[i] = h[k + i]
    BY <2>1
  <2> HIDE DEF g, m
  <2>3. h[k + i] = h[(k + i) - 1] \o seqs[k + i]
    BY <1>0, <2>1
  <2>4. h[(k + i) - 1] \in Seq(S) /\ seqs[k + i] \in Seq(S)
    BY <1>2, <2>1
  <2> QED BY <1>3, <2>2, <2>3, <2>4
<1>8. g[m] \in V
  <2>1. m \in 0 .. m
    BY <1>5
  <2> HIDE DEF V, g, m
  <2> QED BY <1>5, <1>6, <1>7, <2>1, Along
<1> HIDE DEF g, m
<1> QED BY <1>0, <1>5, <1>8
-----------------------------------------------------------------------------
(***************************************************************************)
(* Offsets.                                                                *)
(***************************************************************************)

(* Rounding goes up.                                                       *)
LEMMA RoundUpType ==
  ASSUME NEW x \in Nat, NEW align \in Nat \ {0}
  PROVE  RoundUp(x, align) \in Nat /\ x <= RoundUp(x, align)
<1> DEFINE top == x + align - 1
           q == top \div align
           r == top % align
<1>1. top = align * q + r /\ r \in 0 .. align - 1 /\ q \in Nat
  OBVIOUS
<1>2. RoundUp(x, align) = q * align
  BY DEF RoundUp
<1> HIDE DEF q, r
<1>3. align * q = q * align /\ q * align \in Nat
  BY <1>1
<1>4. x <= align * q
  BY <1>1
<1> QED BY <1>2, <1>3, <1>4

(* Regions apart.                                                          *)
Apart(rs) ==
  \A p, q \in DOMAIN rs : p # q =>
    \/ rs[p].size = 0 \/ rs[q].size = 0
    \/ rs[p].at + rs[p].size <= rs[q].at
    \/ rs[q].at + rs[q].size <= rs[p].at

(* Places and sizes are numbers.                                           *)
Placed(rs) == \A p \in DOMAIN rs : rs[p].at \in Nat /\ rs[p].size \in Nat

(* The slots between the numbers bound[0] .. bound[n]: every region is in  *)
(* one, and no two in the same.                                            *)
InSlots(rs, slot, bound, n) ==
  /\ \A p \in DOMAIN rs : /\ slot[p] \in 0 .. n - 1
                          /\ rs[p].at \in Nat /\ rs[p].size \in Nat
                          /\ bound[slot[p]] <= rs[p].at
                          /\ rs[p].at + rs[p].size <= bound[slot[p] + 1]
  /\ \A p, q \in DOMAIN rs : p # q => slot[p] # slot[q]

LEMMA SlotsApart ==
  ASSUME NEW rs, NEW slot, NEW n \in Nat, NEW bound \in [0 .. n -> Nat],
         \A k \in 1 .. n : bound[k - 1] <= bound[k], InSlots(rs, slot, bound, n)
  PROVE  Placed(rs) /\ Apart(rs)
<1>1. \A i, j \in 0 .. n : i <= j => bound[i] <= bound[j]
  BY Monotone
<1>2. ASSUME NEW p \in DOMAIN rs, NEW q \in DOMAIN rs, slot[p] < slot[q]
      PROVE  rs[p].at + rs[p].size <= rs[q].at
  <2>1. /\ slot[p] + 1 \in 0 .. n /\ slot[q] \in 0 .. n /\ slot[p] + 1 <= slot[q]
        /\ rs[p].at \in Nat /\ rs[p].size \in Nat /\ rs[q].at \in Nat
    <3>1. /\ slot[p] \in 0 .. n - 1 /\ slot[q] \in 0 .. n - 1
          /\ rs[p].at \in Nat /\ rs[p].size \in Nat /\ rs[q].at \in Nat
      BY DEF InSlots
    <3>2. \A x, y \in 0 .. n - 1 : x < y => x + 1 \in 0 .. n /\ y \in 0 .. n /\ x + 1 <= y
      OBVIOUS
    <3> QED BY <1>2, <3>1, <3>2
  <2>2. /\ bound[slot[q]] <= rs[q].at
        /\ rs[p].at + rs[p].size <= bound[slot[p] + 1]
    BY DEF InSlots
  <2> DEFINE a == bound[slot[p] + 1]
             b == bound[slot[q]]
  <2>3. a <= b /\ a \in Nat /\ b \in Nat
    BY <1>1, <2>1
  <2> HIDE DEF a, b
  <2>4. b <= rs[q].at /\ rs[p].at + rs[p].size <= a
    BY <2>2 DEF a, b
  <2> QED BY <2>1, <2>3, <2>4
<1>3. ASSUME NEW p \in DOMAIN rs, NEW q \in DOMAIN rs, p # q
      PROVE  slot[p] < slot[q] \/ slot[q] < slot[p]
  <2>1. slot[p] \in Nat /\ slot[q] \in Nat /\ slot[p] # slot[q]
    BY <1>3 DEF InSlots
  <2> QED BY <2>1
<1> QED BY <1>2, <1>3 DEF Apart, Placed, InSlots
-----------------------------------------------------------------------------
(***************************************************************************)
(* What the stages before the writer keep.  A format that does not move    *)
(* has one block in a section, at address 0.                               *)
(***************************************************************************)
Attributes(sec) ==
  /\ sec.name \in DOMAIN Letters /\ sec.align \in Nat
  /\ sec.zero <=> "nobits" \in sec.flags
  /\ IsSeq(sec.relocations)

OneBlock(sec) ==
  /\ sec.blocks = <<>> => sec.current_address = 0
  /\ sec.blocks # <<>> =>
       /\ Len(sec.blocks) = 1 /\ sec.blocks[1].address = 0
       /\ BlockEnd(sec.blocks[1]) = sec.current_address

SectionKept(sec, m, f) ==
  /\ Attributes(sec)
  /\ f \notin Moving => OneBlock(sec)
  /\ m = [a \in DOMAIN m |-> m[a]]

AllKept(sections, memories, f) ==
  \A s \in DOMAIN sections : SectionKept(sections[s], memories[s], f)

DirectivesNamed(ds) == ds \in Seq([name : DOMAIN Letters, attributes : SUBSET STRING, align : Nat])

Kept ==
  /\ DirectivesNamed(directives)
  /\ globals \in Tables
  /\ AllKept(section, memory, format)

(* What the assignments to a section leave alone, and what they set.       *)
LEMMA FieldsKept ==
  ASSUME NEW sec, SectionType(sec), NEW blocks, NEW address, NEW size, NEW list
  PROVE  LET x == [sec EXCEPT !.blocks = blocks, !.current_address = address,
                              !.full_size = size]
             y == [sec EXCEPT !.relocations = list]
             z == [sec EXCEPT !.full_size = size]
         IN  /\ x.name = sec.name /\ x.align = sec.align /\ x.zero = sec.zero
             /\ x.flags = sec.flags /\ x.relocations = sec.relocations
             /\ x.blocks = blocks /\ x.current_address = address
             /\ y.name = sec.name /\ y.align = sec.align /\ y.zero = sec.zero
             /\ y.flags = sec.flags /\ y.relocations = list
             /\ y.blocks = sec.blocks /\ y.current_address = sec.current_address
             /\ z.name = sec.name /\ z.align = sec.align /\ z.zero = sec.zero
             /\ z.flags = sec.flags /\ z.relocations = sec.relocations
             /\ z.blocks = sec.blocks /\ z.current_address = sec.current_address
<1>1. DOMAIN sec = {"name", "flags", "align", "zero", "full_size",
                    "current_address", "blocks", "relocations"}
  BY DEF SectionType
<1> QED BY <1>1

(* A byte of a format that does not move goes to the one block.            *)
LEMMA OneBlockGrows ==
  ASSUME NEW blocks \in Seq(Block), NEW a \in Nat, NEW byte \in 0 .. 255,
         blocks = <<>> => a = 0,
         blocks # <<>> =>
           Len(blocks) = 1 /\ blocks[1].address = 0 /\ BlockEnd(blocks[1]) = a
  PROVE  LET more == NewBlocks(blocks, a, byte)
         IN  /\ more # <<>> /\ Len(more) = 1 /\ more[1].address = 0
             /\ BlockEnd(more[1]) = a + 1
<1>1. CASE blocks = <<>>
  <2> DEFINE b == [address |-> a, bytes |-> <<byte>>]
  <2>1. b.address = 0 /\ BlockEnd(b) = a + 1
    <3>1. a = 0 /\ b.address = a /\ Len(b.bytes) = 1
      BY <1>1
    <3> QED BY <3>1 DEF BlockEnd
  <2>2. NewBlocks(blocks, a, byte) = Append(blocks, b)
    BY <1>1 DEF NewBlocks
  <2> HIDE DEF b
  <2>3. Append(blocks, b) # <<>> /\ Len(Append(blocks, b)) = 1 /\ Append(blocks, b)[1] = b
    BY <1>1
  <2> QED BY <2>1, <2>2, <2>3
<1>2. CASE blocks # <<>>
  <2> DEFINE old == blocks[1]
             new == [old EXCEPT !.bytes = Append(@, byte)]
  <2>1. old \in Block /\ Len(blocks) = 1 /\ old.address = 0 /\ BlockEnd(old) = a
    BY <1>2
  <2>2. NewBlocks(blocks, a, byte) = [blocks EXCEPT ![1] = new]
    BY <2>1 DEF NewBlocks
  <2>3. new.address = 0 /\ new.bytes = Append(old.bytes, byte)
    BY <2>1 DEF Block
  <2>4. Len(old.bytes) \in Nat /\ Len(new.bytes) = Len(old.bytes) + 1
    BY <2>1, <2>3 DEF Block
  <2>5. BlockEnd(new) = a + 1
    BY <2>1, <2>3, <2>4 DEF BlockEnd
  <2> HIDE DEF old, new
  <2>6. /\ Len([blocks EXCEPT ![1] = new]) = 1 /\ [blocks EXCEPT ![1] = new][1] = new
        /\ IsSeq([blocks EXCEPT ![1] = new])
    <3>1. IsSeq(blocks) /\ 1 \in DOMAIN blocks
      BY <2>1 DEF IsSeq
    <3> QED BY <2>1, <3>1, SeqExcept
  <2>7. [blocks EXCEPT ![1] = new] # <<>>
    BY <2>6
  <2> QED BY <2>1, <2>2, <2>3, <2>5, <2>6, <2>7
<1> QED BY <1>1, <1>2

(* A section kept in the place of another.                                 *)
LEMMA KeptReplace ==
  ASSUME NEW ss, NEW ms, NEW f, IsSeq(ss), IsSeq(ms), Len(ms) = Len(ss), AllKept(ss, ms, f),
         NEW c \in DOMAIN ss, NEW x, NEW y
  PROVE  /\ SectionKept(x, y, f) => AllKept([ss EXCEPT ![c] = x], [ms EXCEPT ![c] = y], f)
         /\ SectionKept(x, ms[c], f) => AllKept([ss EXCEPT ![c] = x], ms, f)
<1> DEFINE sections == [ss EXCEPT ![c] = x]
           memories == [ms EXCEPT ![c] = y]
<1>1. DOMAIN ms = DOMAIN ss
  BY SeqIsFunction
<1>2. /\ DOMAIN sections = DOMAIN ss
      /\ \A s \in DOMAIN ss : sections[s] = IF s = c THEN x ELSE ss[s]
  BY SeqExcept
<1>3. \A s \in DOMAIN ss : memories[s] = IF s = c THEN y ELSE ms[s]
  BY <1>1, SeqExcept
<1> HIDE DEF sections, memories
<1>4. SectionKept(x, y, f) => AllKept(sections, memories, f)
  BY <1>2, <1>3 DEF AllKept
<1>5. SectionKept(x, ms[c], f) => AllKept(sections, ms, f)
  BY <1>2 DEF AllKept
<1> QED BY <1>4, <1>5 DEF sections, memories

(* Before generation there are no sections, and the assumptions speak of   *)
(* the directives and the symbols.                                         *)
LEMMA KeptInit == Init => Kept
<1> SUFFICES ASSUME Init PROVE Kept
  OBVIOUS
<1>1. directives \in Directives /\ globals \in Tables /\ section = <<>>
  BY DEF Init
<1>2. DirectivesNamed(directives)
  <2>1. directives \in Seq([name : STRING, attributes : SUBSET STRING, align : Nat])
    BY <1>1, ObjectAssumption
  <2>2. \A i \in DOMAIN directives : directives[i].name \in DOMAIN Letters
    BY <1>1, LettersAssumption
  <2> DEFINE S == [name : STRING, attributes : SUBSET STRING, align : Nat]
             D == [name : DOMAIN Letters, attributes : SUBSET STRING, align : Nat]
             n == Len(directives)
  <2>3. \A r \in S : r.name \in DOMAIN Letters => r \in D
    OBVIOUS
  <2> HIDE DEF S
  <2>4. /\ n \in Nat /\ DOMAIN directives = 1 .. n /\ \A i \in 1 .. n : directives[i] \in S
        /\ directives = [i \in 1 .. n |-> directives[i]]
    <3>1. directives \in Seq(S)
      BY <2>1 DEF S
    <3> QED BY <3>1
  <2> HIDE DEF n, D
  <2>5. \A i \in 1 .. n : directives[i] \in D
    BY <2>2, <2>3, <2>4
  <2>6. directives \in Seq(D)
    BY <2>4, <2>5, FunctionIsSeq
  <2> QED BY <2>6 DEF DirectivesNamed, D
<1>3. AllKept(section, memory, format)
  BY <1>1 DEF AllKept
<1> QED BY <1>1, <1>2, <1>3 DEF Kept

(* A new section has the attributes of its directive and no block.         *)
LEMMA NewSectionKept ==
  ASSUME NEW d \in [name : DOMAIN Letters, attributes : SUBSET STRING, align : Nat], NEW f
  PROVE  SectionKept(NewSection(d), <<>>, f)
<1> DEFINE x == NewSection(d)
<1>1. /\ x.name = d.name /\ x.blocks = <<>> /\ x.current_address = 0
      /\ x.relocations = <<>> /\ (x.zero <=> "nobits" \in x.flags)
      /\ x.align = IF d.align = 0 THEN DefaultAlign(d.name) ELSE d.align
  BY DEF NewSection
<1> HIDE DEF x
<1>2. x.align \in Nat /\ x.name \in DOMAIN Letters
  BY <1>1 DEF DefaultAlign
<1>3. IsSeq(x.relocations)
  <2>1. <<>> \in Seq({})
    OBVIOUS
  <2> QED BY <1>1, <2>1 DEF IsSeq
<1>4. <<>> = [a \in DOMAIN <<>> |-> <<>>[a]]
  OBVIOUS
<1>5. OneBlock(x)
  BY <1>1 DEF OneBlock
<1>6. Attributes(x)
  BY <1>1, <1>2, <1>3 DEF Attributes
<1>7. SectionKept(x, <<>>, f)
  BY <1>4, <1>5, <1>6 DEF SectionKept
<1> QED BY <1>7 DEF x

(* A .section directive adds such a section, or none.                      *)
LEMMA KeptDeclare == ObjInv /\ Kept /\ Declare => Kept'
<1> SUFFICES ASSUME ObjInv, Kept, Declare PROVE Kept'
  OBVIOUS
<1> DEFINE d == Head(directives)
           x == NewSection(d)
           D == [name : DOMAIN Letters, attributes : SUBSET STRING, align : Nat]
<1>1. /\ globals' \in Tables /\ format' = format /\ directives' = Tail(directives)
      /\ directives # <<>> /\ directives \in Seq(D) /\ AllKept(section, memory, format)
      /\ section' = LocateSection(section, d)
      /\ memory' = IF Len(section') = Len(section) THEN memory ELSE Append(memory, <<>>)
  BY DEF Declare, Kept, DirectivesNamed
<1>2. d \in D /\ DirectivesNamed(directives')
  <2> HIDE DEF D
  <2>1. Head(directives) \in D /\ Tail(directives) \in Seq(D)
    BY <1>1, HeadAndTail
  <2> QED BY <1>1, <2>1 DEF D, DirectivesNamed
<1>3. IsSeq(section) /\ IsSeq(memory) /\ Len(memory) = Len(section)
  BY DEF ObjInv, Sound
<1>4. SectionKept(x, <<>>, format)
  BY <1>2, NewSectionKept
<1> HIDE DEF x, d, D
<1>5. AllKept(section', memory', format)
  <2>1. CASE section' = section
    BY <1>1, <2>1
  <2>2. CASE section' = Append(section, x)
    <3> DEFINE n == Len(section)
               ss == Append(section, x)
               ms == Append(memory, <<>>)
    <3>1. n \in Nat /\ DOMAIN section = 1 .. n /\ DOMAIN memory = 1 .. n
      BY <1>3, SeqIsFunction
    <3>2. /\ Len(ss) = n + 1 /\ DOMAIN ss = DOMAIN section \cup {n + 1}
          /\ \A s \in DOMAIN section : ss[s] = section[s]
          /\ ss[n + 1] = x
      BY <1>3, SeqAppend
    <3>3. (\A s \in DOMAIN section : ms[s] = memory[s]) /\ ms[n + 1] = <<>>
      BY <1>3, <3>1, SeqAppend
    <3> HIDE DEF ss, ms
    <3>4. AllKept(ss, ms, format)
      BY <1>1, <1>4, <3>2, <3>3 DEF AllKept
    <3>5. section' = ss /\ memory' = ms
      <4>1. section' = ss
        BY <2>2 DEF ss
      <4>2. Len(ss) # n
        <5> HIDE DEF n
        <5> QED BY <3>1, <3>2
      <4>3. Len(section') # Len(section)
        BY <4>1, <4>2
      <4> QED BY <1>1, <4>1, <4>3 DEF ms
    <3> QED BY <3>4, <3>5
  <2> QED BY <1>1, <2>1, <2>2 DEF LocateSection, x
<1> QED BY <1>1, <1>2, <1>5 DEF Kept, DirectivesNamed

(* A byte leaves the attributes, and a format that does not move has it in *)
(* the one block.                                                          *)
LEMMA AppendByteKept ==
  ASSUME NEW sec, NEW m, NEW f, NEW byte \in 0 .. 255, SectionType(sec), sec.zero = FALSE,
         SectionKept(sec, m, f)
  PROVE  SectionKept(AppendByte(sec, byte), MemoryWith(m, sec.current_address, byte), f)
<1> DEFINE a == sec.current_address
           next == a + 1
           more == NewBlocks(sec.blocks, a, byte)
           size == NewSize(more, sec.full_size)
           x == AppendByte(sec, byte)
           y == MemoryWith(m, a, byte)
<1>1. sec.blocks \in Seq(Block) /\ a \in Nat
  BY DEF SectionType
<1>2. x = [sec EXCEPT !.blocks = more, !.current_address = @ + 1, !.full_size = size]
  BY Zenon DEF AppendByte, NewBlocks, NewSize
<1> HIDE DEF x, more, size
<1>3. x = [sec EXCEPT !.blocks = more, !.current_address = next, !.full_size = size]
  BY <1>2
<1> HIDE DEF next
<1>4. /\ x.name = sec.name /\ x.align = sec.align /\ x.zero = sec.zero
      /\ x.flags = sec.flags /\ x.relocations = sec.relocations
      /\ x.blocks = more /\ x.current_address = next
  BY <1>3, FieldsKept
<1>5. Attributes(x)
  BY <1>4 DEF SectionKept, Attributes
<1>6. ASSUME f \notin Moving PROVE OneBlock(x)
  <2>1. /\ sec.blocks = <<>> => a = 0
        /\ sec.blocks # <<>> =>
             /\ Len(sec.blocks) = 1 /\ sec.blocks[1].address = 0
             /\ BlockEnd(sec.blocks[1]) = a
    <3>1. OneBlock(sec)
      BY <1>6 DEF SectionKept
    <3> QED BY <3>1 DEF OneBlock
  <2>2. /\ more # <<>> /\ Len(more) = 1 /\ more[1].address = 0
        /\ BlockEnd(more[1]) = a + 1
    BY <1>1, <2>1, OneBlockGrows DEF more
  <2> QED BY <1>4, <2>2 DEF OneBlock, next
<1>7. y = [b \in DOMAIN y |-> y[b]]
  BY DEF MemoryWith
<1> HIDE DEF y
<1>8. SectionKept(x, y, f)
  BY <1>5, <1>6, <1>7 DEF SectionKept
<1> QED BY <1>8 DEF x, y

LEMMA KeptOutputByte == ObjInv /\ Kept /\ OutputByte => Kept'
<1> SUFFICES ASSUME ObjInv, Kept, OutputByte PROVE Kept'
  OBVIOUS
<1> DEFINE c == current_section
           byte == Head(queue)
           sec == section[c]
           x == AppendByte(sec, byte)
           y == MemoryWith(memory[c], sec.current_address, byte)
<1>1. /\ c \in DOMAIN section /\ byte \in 0 .. 255 /\ Here = sec
      /\ section' = [section EXCEPT ![c] = x]
  <2>1. queue # <<>> /\ queue \in Seq(0 .. 255)
    BY DEF ObjInv, OutputByte
  <2> QED BY <2>1, HeadAndTail DEF ObjInv, OutputByte, Here
<1>2. /\ globals' = globals /\ format' = format /\ directives' = directives
      /\ memory' = IF sec.zero THEN memory ELSE [memory EXCEPT ![c] = y]
  BY <1>1 DEF OutputByte, Keep, MemoryWith
<1>3. /\ IsSeq(section) /\ IsSeq(memory) /\ Len(memory) = Len(section)
      /\ SectionType(sec) /\ sec.zero \in BOOLEAN
  BY <1>1 DEF ObjInv, Sound, SectionSound, SectionType
<1>4. SectionKept(sec, memory[c], format) /\ AllKept(section, memory, format)
  BY <1>1 DEF Kept, AllKept
<1>5. AllKept(section', memory', format)
  <2>1. CASE sec.zero = TRUE
    <3>1. x = sec
      BY <2>1 DEF AppendByte
    <3> QED BY <1>1, <1>2, <1>3, <1>4, <2>1, <3>1, KeptReplace
  <2>2. CASE sec.zero = FALSE
    <3>1. SectionKept(x, y, format)
      BY <1>1, <1>3, <1>4, <2>2, AppendByteKept
    <3> HIDE DEF x, y, sec
    <3> QED BY <1>1, <1>2, <1>3, <1>4, <2>2, <3>1, KeptReplace
  <2> QED BY <1>3, <2>1, <2>2
<1>6. AllKept(section', memory', format')
  BY <1>2, <1>5
<1> QED BY <1>2, <1>6 DEF Kept, DirectivesNamed

(* A word adds a relocation.                                               *)
LEMMA KeptOutputWord ==
  ASSUME ObjInv, Kept, NEW ref, NEW size, NEW pcrel, NEW order,
         OutputWord(ref, size, pcrel, order)
  PROVE  Kept'
<1> DEFINE c == current_section
           sec == section[c]
<1>1. /\ c \in DOMAIN section
      /\ globals' = globals /\ format' = format /\ directives' = directives
      /\ memory' = memory
  BY DEF OutputWord, StartsItem, Keep
<1>2. /\ IsSeq(section) /\ IsSeq(memory) /\ Len(memory) = Len(section) /\ SectionType(sec)
  BY <1>1 DEF ObjInv, Sound, SectionSound
<1>3. SectionKept(sec, memory[c], format) /\ AllKept(section, memory, format)
  BY <1>1 DEF Kept, AllKept
<1>4. AllKept(section', memory', format)
  <2>1. CASE section' = section
    BY <1>1, <1>3, <2>1
  <2>2. ASSUME NEW r, section' = [section EXCEPT ![c].relocations = Append(@, r)]
        PROVE  AllKept(section', memory', format)
    <3> DEFINE list == Append(sec.relocations, r)
               x == [sec EXCEPT !.relocations = list]
    <3>1. section' = [section EXCEPT ![c] = x]
      BY <1>1, <2>2
    <3>2. IsSeq(list)
      BY <1>3, SeqAppend DEF SectionKept, Attributes
    <3> HIDE DEF list, sec
    <3>3. /\ x.name = sec.name /\ x.align = sec.align /\ x.zero = sec.zero
          /\ x.flags = sec.flags /\ x.relocations = list
          /\ x.blocks = sec.blocks /\ x.current_address = sec.current_address
      BY <1>2, FieldsKept
    <3> HIDE DEF x
    <3>4. Attributes(x) /\ (OneBlock(sec) => OneBlock(x))
      BY <1>3, <3>2, <3>3 DEF SectionKept, Attributes, OneBlock
    <3>5. SectionKept(x, memory[c], format)
      BY <1>3, <3>4 DEF SectionKept
    <3> QED BY <1>1, <1>2, <1>3, <3>1, <3>5, KeptReplace
  <2> QED BY <2>1, <2>2 DEF OutputWord
<1>5. AllKept(section', memory', format')
  BY <1>1, <1>4
<1> QED BY <1>1, <1>5 DEF Kept, DirectivesNamed

(* A move is followed in a format that moves, and a skip changes the size  *)
(* of a section in another.                                                *)
LEMMA MovedKept ==
  ASSUME NEW sec, NEW m, NEW f, NEW n, SectionType(sec), SectionKept(sec, m, f)
  PROVE  /\ f \in Moving => SectionKept([sec EXCEPT !.current_address = n], m, f)
         /\ SectionKept([sec EXCEPT !.full_size = n], m, f)
<1> DEFINE x == [sec EXCEPT !.current_address = n]
           y == [sec EXCEPT !.full_size = n]
<1>1. /\ x.name = sec.name /\ x.align = sec.align /\ x.zero = sec.zero
      /\ x.flags = sec.flags /\ x.relocations = sec.relocations
      /\ y.name = sec.name /\ y.align = sec.align /\ y.zero = sec.zero
      /\ y.flags = sec.flags /\ y.relocations = sec.relocations
      /\ y.blocks = sec.blocks /\ y.current_address = sec.current_address
  <2>1. DOMAIN sec = {"name", "flags", "align", "zero", "full_size",
                      "current_address", "blocks", "relocations"}
    BY DEF SectionType
  <2> QED BY <2>1
<1> HIDE DEF x, y
<1>2. Attributes(x) /\ Attributes(y) /\ (OneBlock(sec) => OneBlock(y))
  BY <1>1 DEF SectionKept, Attributes, OneBlock
<1>3. (f \in Moving => SectionKept(x, m, f)) /\ SectionKept(y, m, f)
  BY <1>2 DEF SectionKept
<1> QED BY <1>3 DEF x, y

LEMMA KeptMoved ==
  ASSUME ObjInv, Kept, NEW count,
         \/ /\ format \in Moving
            /\ section' = [section EXCEPT ![current_section].current_address = @ + count]
         \/ section' = [section EXCEPT ![current_section].full_size = @ + count]
         \/ section' = section,
         current_section \in DOMAIN section, memory' = memory, format' = format,
         globals' = globals, directives' = directives
  PROVE  Kept'
<1> DEFINE c == current_section
           sec == section[c]
<1>1. IsSeq(section) /\ IsSeq(memory) /\ Len(memory) = Len(section) /\ SectionType(sec)
  BY DEF ObjInv, Sound, SectionSound
<1>2. SectionKept(sec, memory[c], format) /\ AllKept(section, memory, format)
  BY DEF Kept, AllKept
<1>3. AllKept(section', memory', format)
  <2>1. CASE section' = section
    BY <1>2, <2>1
  <2>2. ASSUME format \in Moving,
               section' = [section EXCEPT ![c].current_address = @ + count]
        PROVE  AllKept(section', memory', format)
    <3> DEFINE n == sec.current_address + count
               x == [sec EXCEPT !.current_address = n]
    <3>1. section' = [section EXCEPT ![c] = x]
      BY <2>2
    <3> HIDE DEF sec, n
    <3>2. SectionKept(x, memory[c], format)
      BY <1>1, <1>2, <2>2, MovedKept
    <3> HIDE DEF x
    <3> QED BY <1>1, <1>2, <3>1, <3>2, KeptReplace
  <2>3. ASSUME section' = [section EXCEPT ![c].full_size = @ + count]
        PROVE  AllKept(section', memory', format)
    <3> DEFINE n == sec.full_size + count
               x == [sec EXCEPT !.full_size = n]
    <3>1. section' = [section EXCEPT ![c] = x]
      BY <2>3
    <3> HIDE DEF sec, n
    <3>2. SectionKept(x, memory[c], format)
      BY <1>1, <1>2, MovedKept
    <3> HIDE DEF x
    <3> QED BY <1>1, <1>2, <3>1, <3>2, KeptReplace
  <2> QED BY <2>1, <2>2, <2>3
<1>4. AllKept(section', memory', format')
  BY <1>3
<1> QED BY <1>4 DEF Kept, DirectivesNamed

(* Every step keeps it.                                                    *)
LEMMA KeptStep == ObjInv /\ Kept /\ [Next]_vars => Kept'
<1> SUFFICES ASSUME ObjInv, Kept, [Next]_vars PROVE Kept'
  OBVIOUS
<1>1. CASE Declare
  BY <1>1, KeptDeclare
<1>2. CASE /\ UNCHANGED <<format, section, memory, directives, globals>>
  BY <1>2 DEF Kept, DirectivesNamed, AllKept, SectionKept
<1>3. CASE Generate \/ NextSection \/ Write \/ UNCHANGED vars \/ \E b \in Bytes : Byte(b)
  BY <1>2, <1>3 DEF Generate, NextSection, Write, vars, Byte, Keep
<1>4. CASE OutputByte
  BY <1>4, KeptOutputByte
<1>5. ASSUME NEW r \in References[target], NEW w \in Words[target],
             OutputWord(r, w[1], w[2], w[3])
      PROVE  Kept'
  BY <1>5, KeptOutputWord
<1>6. ASSUME NEW n \in Moves, SetLocation(n) PROVE Kept'
  BY <1>6, KeptMoved DEF SetLocation, StartsItem, Keep
<1>7. ASSUME NEW n \in Skips, OutputSkip(n) PROVE Kept'
  BY <1>7, KeptMoved DEF OutputSkip, StartsItem, Keep
<1> QED BY <1>1, <1>3, <1>4, <1>5, <1>6, <1>7 DEF Next, Fill, Done
-----------------------------------------------------------------------------
(***************************************************************************)
(* The object a writer starts from.                                        *)
(***************************************************************************)

(* The bytes a section is written with.                                    *)
BytesFor(s) == IF section[s].full_size > 0 THEN section[s].blocks[1].bytes ELSE <<>>

SectionFits(s) ==
  /\ section[s].full_size \in Nat /\ section[s].align \in Nat
  /\ section[s].name \in DOMAIN Letters
  /\ IsSeq(section[s].relocations)
  /\ section[s].zero <=> "nobits" \in section[s].flags
  /\ ~section[s].zero =>
       /\ BytesFor(s) \in Seq(0 .. 255) /\ Len(BytesFor(s)) = section[s].full_size
       /\ memory[s] = At(0, BytesFor(s))

(* All bytes of a section that does not move are those of its first block. *)
LEMMA SectionsFit ==
  ASSUME ObjInv, Kept, format \notin Moving, NEW s \in DOMAIN section
  PROVE  SectionFits(s)
<1> DEFINE sec == section[s]
           m == memory[s]
           blocks == sec.blocks
           size == sec.full_size
<1>1. SectionSound(sec, m) /\ SectionKept(sec, m, format)
  BY DEF ObjInv, Sound, Kept, AllKept
<1>2. Attributes(sec) /\ OneBlock(sec) /\ m = [a \in DOMAIN m |-> m[a]]
  BY <1>1 DEF SectionKept
<1>3. size \in Nat /\ blocks \in Seq(Block) /\ sec.zero \in BOOLEAN
  BY <1>1 DEF SectionSound, SectionType
<1>4. /\ InOrder(blocks, sec.current_address) /\ Hold(blocks, m)
      /\ ~sec.zero => size = Span(blocks)
  BY <1>1 DEF SectionSound
<1>5. ASSUME ~sec.zero
      PROVE  /\ BytesFor(s) \in Seq(0 .. 255) /\ Len(BytesFor(s)) = size
             /\ m = At(0, BytesFor(s))
  <2>1. CASE blocks = <<>>
    <3>1. size = 0
      BY <1>4, <1>5, <2>1 DEF Span
    <3>2. BytesFor(s) = <<>>
      BY <3>1 DEF BytesFor
    <3>3. DOMAIN m = {}
      BY <1>4, <2>1 DEF Hold
    <3>4. DOMAIN At(0, <<>>) = {} /\ At(0, <<>>) = [a \in {} |-> <<>>[a]]
      BY DEF At
    <3>5. m = At(0, <<>>)
      BY <1>2, <3>3, <3>4
    <3> HIDE DEF m
    <3> QED BY <3>1, <3>2, <3>5
  <2>2. CASE blocks # <<>>
    <3> DEFINE b == blocks[1]
               bytes == b.bytes
    <3>1. Len(blocks) = 1 /\ b.address = 0 /\ b \in Block /\ 1 \in DOMAIN blocks
      <4>1. Len(blocks) = 1 /\ b.address = 0
        BY <1>2, <2>2 DEF OneBlock
      <4> QED BY <1>3, <4>1
    <3>2. /\ bytes \in Seq(0 .. 255) /\ DOMAIN bytes = 1 .. Len(bytes) /\ Len(bytes) \in Nat
          /\ BlockEnd(b) = 0 + Len(bytes)
      BY <3>1, BlockFacts
    <3>3. Len(bytes) > 0
      BY <1>4, <3>1 DEF InOrder
    <3>4. size = Len(bytes)
      <4>1. size = BlockEnd(blocks[Len(blocks)]) - b.address
        BY <1>4, <1>5, <2>2 DEF Span
      <4>2. size = BlockEnd(b) - 0
        BY <3>1, <4>1
      <4> HIDE DEF b, size
      <4> QED BY <3>2, <4>2
    <3>5. BytesFor(s) = bytes
      BY <3>3, <3>4 DEF BytesFor
    <3>6. /\ \A k \in DOMAIN bytes : 0 + k - 1 \in DOMAIN m /\ m[0 + k - 1] = bytes[k]
          /\ \A a \in DOMAIN m : a \in 0 .. Len(bytes) - 1
      <4>1. HoldsBlock(m, b)
        BY <1>4, <3>1 DEF Hold
      <4>2. \A a \in DOMAIN m : Covers(b, a)
        BY <1>3, <1>4, <3>1 DEF Hold
      <4>3. \A a \in DOMAIN m : a \in 0 .. BlockEnd(b) - 1
        BY <3>1, <4>2 DEF Covers
      <4>4. \A k \in DOMAIN bytes : 0 + k - 1 \in DOMAIN m /\ m[0 + k - 1] = bytes[k]
        BY <3>1, <4>1 DEF HoldsBlock
      <4> HIDE DEF b
      <4> QED BY <3>2, <4>3, <4>4
    <3> HIDE DEF bytes
    <3>7. \A a \in 0 .. Len(bytes) - 1 : a \in DOMAIN m /\ m[a] = bytes[a - 0 + 1]
      <4> TAKE a \in 0 .. Len(bytes) - 1
      <4>1. a + 1 \in DOMAIN bytes /\ 0 + (a + 1) - 1 = a /\ a - 0 + 1 = a + 1
        BY <3>2
      <4> HIDE DEF m
      <4> QED BY <3>6, <4>1
    <3>8. DOMAIN m = 0 .. Len(bytes) - 1
      BY <3>6, <3>7
    <3>9. m = At(0, bytes)
      <4>1. At(0, bytes) = [a \in 0 .. Len(bytes) - 1 |-> bytes[a - 0 + 1]]
        BY <3>2 DEF At
      <4> HIDE DEF m
      <4> QED BY <1>2, <3>7, <3>8, <4>1
    <3> HIDE DEF m
    <3> QED BY <3>2, <3>4, <3>5, <3>9
  <2> QED BY <2>1, <2>2
<1> QED BY <1>2, <1>3, <1>5 DEF SectionFits, Attributes

(* What the writers take from the object.                                  *)
Fits ==
  /\ IsSeq(section) /\ IsSeq(globals)
  /\ \A s \in DOMAIN section : SectionFits(s)
  /\ \A g \in DOMAIN globals : globals[g].name \in DOMAIN Letters

LEMMA ObjectFits == ObjInv /\ Kept /\ format \notin Moving => Fits
<1> SUFFICES ASSUME ObjInv, Kept, format \notin Moving PROVE Fits
  OBVIOUS
<1>1. IsSeq(section) /\ globals \in Tables
  BY DEF ObjInv, Sound, Kept
<1>2. IsSeq(globals)
  BY <1>1, ObjectAssumption DEF IsSeq
<1>3. \A g \in DOMAIN globals : globals[g].name \in DOMAIN Letters
  BY <1>1, LettersAssumption
<1>4. \A s \in DOMAIN section : SectionFits(s)
  BY SectionsFit
<1> QED BY <1>1, <1>2, <1>3, <1>4 DEF Fits

LEMMA SectionsCounted ==
  ASSUME Fits
  PROVE  Len(section) \in Nat /\ DOMAIN section = 1 .. Len(section)
  BY SeqIsFunction DEF Fits

(* Two lists, one behind the other.                                        *)
LEMMA SeqConcat ==
  ASSUME NEW s, NEW t, IsSeq(s), IsSeq(t)
  PROVE  IsSeq(s \o t)
<1>1. PICK S : s \in Seq(S)
  BY DEF IsSeq
<1>2. PICK T : t \in Seq(T)
  BY DEF IsSeq
<1>3. s \in Seq(S \cup T) /\ t \in Seq(S \cup T)
  BY <1>1, <1>2
<1>4. s \o t \in Seq(S \cup T)
  BY <1>3
<1> QED BY <1>4 DEF IsSeq

(* A table of something of each member of a list.                          *)
LEMMA SeqOfEach ==
  ASSUME NEW s, IsSeq(s), NEW f, f = [i \in DOMAIN s |-> f[i]]
  PROVE  f \in Seq({f[i] : i \in DOMAIN s}) /\ Len(f) = Len(s)
<1>1. Len(s) \in Nat /\ DOMAIN s = 1 .. Len(s)
  BY SeqIsFunction
<1> DEFINE n == Len(s)
<1> HIDE DEF n
<1>2. n \in Nat /\ f = [i \in 1 .. n |-> f[i]] /\ \A i \in 1 .. n : f[i] \in {f[j] : j \in DOMAIN s}
  BY <1>1 DEF n
<1>3. f \in Seq({f[i] : i \in DOMAIN s})
  BY <1>2, FunctionIsSeq
<1>4. Len(f) = n
  BY <1>2, <1>3
<1> QED BY <1>3, <1>4 DEF n
-----------------------------------------------------------------------------
(***************************************************************************)
(* COFF.                                                                   *)
(***************************************************************************)

(* The section before ends, its data starts and ends, its relocations      *)
(* start and end: each is no lower than the one before.                    *)
LEMMA CoffGoesOn ==
  ASSUME NEW s, SectionFits(s), NEW offset \in Nat
  PROVE  /\ CoffData(s, offset) \in Nat /\ offset <= CoffData(s, offset)
         /\ CoffDataEnd(s, offset) \in Nat /\ CoffData(s, offset) <= CoffDataEnd(s, offset)
         /\ CoffRelocations(s, offset) \in Nat
         /\ CoffDataEnd(s, offset) <= CoffRelocations(s, offset)
         /\ CoffEnd(s, offset) \in Nat /\ CoffDataEnd(s, offset) <= CoffEnd(s, offset)
         /\ RelocationRoom(s) \in Nat
         /\ section[s].relocations # <<>> =>
              CoffEnd(s, offset) = CoffRelocations(s, offset) + RelocationRoom(s)
<1>1. /\ section[s].full_size \in Nat /\ section[s].align \in Nat
      /\ Len(section[s].relocations) \in Nat
  BY SeqIsFunction DEF SectionFits
<1>2. CoffData(s, offset) \in Nat /\ offset <= CoffData(s, offset)
  <2> DEFINE align == section[s].align
  <2> HIDE DEF align
  <2>1. align \in Nat /\ CoffData(s, offset) = IF align # 0 THEN RoundUp(offset, align) ELSE offset
    BY <1>1 DEF CoffData, align
  <2>2. CASE align = 0
    BY <2>1, <2>2
  <2>3. CASE align # 0
    <3>1. RoundUp(offset, align) \in Nat /\ offset <= RoundUp(offset, align)
      BY <2>1, <2>3, RoundUpType
    <3> QED BY <2>1, <2>3, <3>1
  <2> QED BY <2>2, <2>3
<1>3. CoffDataEnd(s, offset) \in Nat /\ CoffData(s, offset) <= CoffDataEnd(s, offset)
  <2> DEFINE x == CoffData(s, offset)
  <2> HIDE DEF x
  <2>1. x \in Nat
    BY <1>2 DEF x
  <2>2. CoffDataEnd(s, offset) = x + section[s].full_size \/ CoffDataEnd(s, offset) = x
    BY DEF CoffDataEnd, x
  <2>3. CoffDataEnd(s, offset) \in Nat /\ x <= CoffDataEnd(s, offset)
    BY <1>1, <2>1, <2>2
  <2> QED BY <2>3 DEF x
<1>4. /\ CoffRelocations(s, offset) \in Nat
      /\ CoffDataEnd(s, offset) <= CoffRelocations(s, offset)
  <2>1. RelocationAlign \in Nat \ {0}
    BY DEF RelocationAlign
  <2> QED BY <1>3, <2>1, RoundUpType DEF CoffRelocations
<1>5. RelocationRoom(s) \in Nat
  <2>1. CoffRelocationSize \in Nat
    BY DEF CoffRelocationSize
  <2>2. \A x, y \in Nat : x * y \in Nat
    OBVIOUS
  <2> QED BY <1>1, <2>1, <2>2 DEF RelocationRoom
<1>6. CASE section[s].relocations = <<>>
  <2>1. CoffEnd(s, offset) = CoffDataEnd(s, offset)
    BY <1>6 DEF CoffEnd
  <2> QED BY <1>2, <1>3, <1>4, <1>5, <1>6, <2>1
<1>7. CASE section[s].relocations # <<>>
  <2>1. CoffEnd(s, offset) = CoffRelocations(s, offset) + RelocationRoom(s)
    BY <1>7 DEF CoffEnd
  <2>2. CoffEnd(s, offset) \in Nat /\ CoffDataEnd(s, offset) <= CoffEnd(s, offset)
    BY <1>3, <1>4, <1>5, <2>1
  <2> QED BY <1>2, <1>3, <1>4, <1>5, <2>1, <2>2
<1> QED BY <1>6, <1>7

(* The loop over the sections.                                             *)
LEMMA CoffLayoutRuns ==
  ASSUME Fits
  PROVE  /\ CoffLayout \in [0 .. Len(section) -> Nat]
         /\ CoffLayout[0] = 20 + 40 * Len(section)
         /\ \A s \in 1 .. Len(section) : CoffLayout[s] = CoffEnd(s, CoffLayout[s - 1])
<1> DEFINE n == Len(section)
           base == 20 + 40 * n
           Run(f) == f = [s \in 0 .. n |-> IF s = 0 THEN base ELSE CoffEnd(s, f[s - 1])]
           end == CHOOSE f : Run(f)
<1>1. n \in Nat /\ base \in Nat /\ \A s \in 1 .. n : SectionFits(s)
  BY SectionsCounted DEF Fits
<1>2. CoffLayout = end
  BY DEF CoffLayout
<1> HIDE DEF n, base
<1>3. \A s \in 1 .. n : \A x \in Nat : CoffEnd(s, x) \in Nat
  BY <1>1, CoffGoesOn
<1>4. \E f : Run(f)
  <2> DEFINE step == [s \in 1 .. n |-> [x \in Nat |-> CoffEnd(s, x)]]
  <2>1. step \in [1 .. n -> [Nat -> Nat]] /\ \A s \in 1 .. n : \A x \in Nat : step[s][x] = CoffEnd(s, x)
    BY <1>3
  <2> HIDE DEF step
  <2>2. PICK f \in [0 .. n -> Nat] : IsRun(f, step, base, n)
    BY <1>1, <2>1, RunExists
  <2>3. \A s \in 0 .. n : f[s] = IF s = 0 THEN base ELSE step[s][f[s - 1]]
    BY <2>2 DEF IsRun
  <2>4. ASSUME NEW s \in 0 .. n, s # 0 PROVE f[s] = CoffEnd(s, f[s - 1])
    <3>1. s \in 1 .. n /\ s - 1 \in 0 .. n
      BY <1>1, <2>4
    <3> QED BY <2>1, <2>3, <2>4, <3>1
  <2>5. f = [s \in 0 .. n |-> IF s = 0 THEN base ELSE CoffEnd(s, f[s - 1])]
    BY <2>3, <2>4
  <2> QED BY <2>5
<1>5. Run(end)
  <2> HIDE DEF Run
  <2> QED BY <1>4
<1> HIDE DEF end
<1>6. end[0] = base /\ \A s \in 1 .. n : end[s] = CoffEnd(s, end[s - 1])
  <2>1. \A s \in 0 .. n : end[s] = IF s = 0 THEN base ELSE CoffEnd(s, end[s - 1])
    BY <1>5
  <2>2. 0 \in 0 .. n /\ \A s \in 1 .. n : s \in 0 .. n /\ s # 0
    BY <1>1
  <2> QED BY <2>1, <2>2
<1>7. end[0] \in Nat /\ \A s \in 1 .. n : end[s - 1] \in Nat => end[s] \in Nat
  BY <1>1, <1>3, <1>6
<1>8. \A s \in 0 .. n : end[s] \in Nat
  BY <1>1, <1>7, Along
<1>9. end \in [0 .. n -> Nat]
  BY <1>5, <1>8
<1> QED BY <1>2, <1>6, <1>9 DEF n, base

(* The number of symbols is one.                                           *)
LEMMA SymbolsType ==
  ASSUME NEW S, Fits
  PROVE  Ascending(S, Len(globals)) \in Seq(S)
  BY AscendingType, SeqIsFunction DEF Fits

LEMMA CoffSymbolsCounted ==
  ASSUME Fits
  PROVE  Len(CoffSymbols) \in Nat
<1> DEFINE first == << CoffSlot(".file", 0, NDebug, CFile, 1), Aux >>
           one(s) == CoffSlot(section[s].name, 0, s, CStat, 1)
           two(s) == [Aux EXCEPT !.value = section[s].full_size]
           seqs == [s \in DOMAIN section |-> << one(s), two(s) >>]
           entries(gs) == [i \in DOMAIN gs |-> CoffEntry(globals[gs[i]])]
           third == entries(Symbols(IsHidden))
           last == entries(Symbols(IsVisible))
<1>1. CoffSymbols = first \o FlattenSeq(seqs) \o third \o last
  BY DEF CoffSymbols
<1>2. IsSeq(first)
  <2> DEFINE a == CoffSlot(".file", 0, NDebug, CFile, 1)
  <2>1. <<a, Aux>> \in Seq({a, Aux})
    <3> HIDE DEF a
    <3> QED OBVIOUS
  <2> QED BY <2>1 DEF IsSeq
<1>3. IsSeq(FlattenSeq(seqs))
  <2> DEFINE S == {one(s) : s \in DOMAIN section} \cup {two(s) : s \in DOMAIN section}
  <2>1. \A s \in DOMAIN section : one(s) \in S /\ two(s) \in S
    OBVIOUS
  <2>2. Len(section) \in Nat /\ DOMAIN section = 1 .. Len(section)
    BY SectionsCounted
  <2> HIDE DEF one, two, S
  <2>3. \A s \in DOMAIN section : << one(s), two(s) >> \in Seq(S)
    BY <2>1
  <2>4. seqs \in Seq(Seq(S))
    BY <2>2, <2>3
  <2> HIDE DEF seqs
  <2>5. FlattenSeq(seqs) \in Seq(S)
    BY <2>4, FlattenType
  <2> QED BY <2>5 DEF IsSeq
<1>4. \A S : IsSeq(Ascending(S, Len(globals)))
  BY SymbolsType DEF IsSeq
<1>5. \A gs : IsSeq(gs) => IsSeq(entries(gs))
  <2> SUFFICES ASSUME NEW gs, IsSeq(gs) PROVE IsSeq(entries(gs))
    OBVIOUS
  <2> DEFINE f == entries(gs)
  <2>1. f = [i \in DOMAIN gs |-> f[i]]
    OBVIOUS
  <2> HIDE DEF f
  <2>2. f \in Seq({f[i] : i \in DOMAIN gs})
    BY <2>1, SeqOfEach
  <2>3. IsSeq(f)
    BY <2>2 DEF IsSeq
  <2> QED BY <2>3 DEF f
<1> HIDE DEF entries, seqs, first
<1>6. IsSeq(third) /\ IsSeq(last)
  BY <1>4, <1>5 DEF Symbols
<1> HIDE DEF third, last
<1>7. IsSeq(CoffSymbols)
  BY <1>1, <1>2, <1>3, <1>6, SeqConcat
<1> QED BY <1>7, SeqIsFunction

(* The slots of a COFF file: its headers, for each section its data and    *)
(* its relocations, and the symbol table.                                  *)
CoffSlotOf(p) ==
  CASE p.kind = "header"  -> 0
    [] p.kind = "headers" -> 1
    [] p.kind = "section" -> 2 * p.of
    [] p.kind = "reloc"   -> 2 * p.of + 1
    [] p.kind = "symtab"  -> 2 * Len(section) + 2

(* Where a slot starts, and the last of n sections ends at the offset end. *)
CoffBound(end, n, last, k) ==
  CASE k = 0 -> 0
    [] k = 1 -> 20
    [] k = 2 * n + 3 -> last
    [] k \in 2 .. 2 * n + 2 /\ k % 2 = 0 -> end[k \div 2 - 1]
    [] k \in 2 .. 2 * n + 2 /\ k % 2 = 1 -> CoffDataEnd(k \div 2, end[k \div 2 - 1])

LEMMA CoffSlotsFollow ==
  ASSUME Fits, NEW n \in Nat, n = Len(section), NEW end \in [0 .. n -> Nat],
         end[0] = 20 + 40 * n, \A s \in 1 .. n : end[s] = CoffEnd(s, end[s - 1]),
         NEW last \in Nat, end[n] <= last
  PROVE  LET bound(k) == CoffBound(end, n, last, k)
         IN  /\ \A k \in 0 .. 2 * n + 3 : bound(k) \in Nat
             /\ \A k \in 1 .. 2 * n + 3 : bound(k - 1) <= bound(k)
             /\ \A s \in 1 .. n : /\ bound(2 * s) = end[s - 1]
                                  /\ bound(2 * s + 1) = CoffDataEnd(s, end[s - 1])
             /\ bound(0) = 0 /\ bound(1) = 20 /\ bound(2) = 20 + 40 * n
             /\ bound(2 * n + 2) = end[n] /\ bound(2 * n + 3) = last
<1> DEFINE bound(k) == CoffBound(end, n, last, k)
           mid(s) == CoffDataEnd(s, end[s - 1])
<1>1. ASSUME NEW s \in 1 .. n
      PROVE  /\ end[s - 1] \in Nat /\ end[s] \in Nat /\ mid(s) \in Nat
             /\ end[s - 1] <= mid(s) /\ mid(s) <= end[s]
  <2> DEFINE x == end[s - 1]
  <2>1. x \in Nat /\ s \in DOMAIN section
    BY SectionsCounted
  <2> HIDE DEF x
  <2>2. SectionFits(s)
    BY <2>1 DEF Fits
  <2>3. /\ CoffData(s, x) \in Nat /\ x <= CoffData(s, x)
        /\ CoffDataEnd(s, x) \in Nat /\ CoffData(s, x) <= CoffDataEnd(s, x)
        /\ CoffEnd(s, x) \in Nat /\ CoffDataEnd(s, x) <= CoffEnd(s, x)
    BY <2>1, <2>2, CoffGoesOn
  <2>4. end[s] = CoffEnd(s, x)
    BY DEF x
  <2>5. x <= CoffDataEnd(s, x)
    BY <2>1, <2>3
  <2> QED BY <2>1, <2>3, <2>4, <2>5 DEF x
<1> HIDE DEF mid
<1>2. \A s \in 0 .. n : bound(2 * s + 2) = end[s]
  <2> TAKE s \in 0 .. n
  <2> DEFINE k == 2 * s + 2
  <2>1. k \in 2 .. 2 * n + 2 /\ k % 2 = 0 /\ k \div 2 - 1 = s /\ k # 0 /\ k # 1 /\ k # 2 * n + 3
    OBVIOUS
  <2> HIDE DEF k
  <2>2. bound(k) = end[s]
    BY <2>1 DEF CoffBound
  <2> QED BY <2>2 DEF k
<1>3. \A s \in 1 .. n : bound(2 * s + 1) = mid(s)
  <2> TAKE s \in 1 .. n
  <2> DEFINE k == 2 * s + 1
  <2>1. k \in 2 .. 2 * n + 2 /\ k % 2 = 1 /\ k \div 2 = s /\ k # 0 /\ k # 1 /\ k # 2 * n + 3
    <3>1. k \in 2 .. 2 * n + 2 /\ k # 0 /\ k # 1 /\ k # 2 * n + 3
      OBVIOUS
    <3>2. k % 2 = 1
      OBVIOUS
    <3>3. k \div 2 = s
      OBVIOUS
    <3> QED BY <3>1, <3>2, <3>3
  <2> HIDE DEF k
  <2>2. bound(k) = mid(s)
    BY <2>1 DEF CoffBound, mid
  <2> QED BY <2>2 DEF k
<1>4. bound(0) = 0 /\ bound(1) = 20 /\ bound(2 * n + 3) = last
  <2>1. 2 * n + 3 # 0 /\ 2 * n + 3 # 1 /\ 0 # 1 /\ 2 * n + 3 \notin 2 .. 2 * n + 2
    OBVIOUS
  <2> QED BY <2>1 DEF CoffBound
<1>5. /\ bound(2) = end[0] /\ bound(2 * n + 2) = end[n] /\ end[0] = 20 + 40 * n
      /\ \A s \in 1 .. n : bound(2 * s) = end[s - 1]
  <2>1. 0 \in 0 .. n /\ n \in 0 .. n /\ 2 * 0 + 2 = 2
    OBVIOUS
  <2>2. \A s \in 1 .. n : s - 1 \in 0 .. n /\ 2 * (s - 1) + 2 = 2 * s
    OBVIOUS
  <2>3. bound(2 * 0 + 2) = end[0] /\ bound(2 * n + 2) = end[n]
    BY <1>2, <2>1
  <2> HIDE DEF bound
  <2>4. ASSUME NEW s \in 1 .. n PROVE bound(2 * s) = end[s - 1]
    <3>1. bound(2 * (s - 1) + 2) = end[s - 1]
      BY <1>2, <2>2
    <3> QED BY <2>2, <3>1
  <2> QED BY <2>1, <2>3, <2>4
<1> HIDE DEF bound
<1>6. \A k \in 0 .. 2 * n + 3 :
        \/ k \in {0, 1, 2 * n + 2, 2 * n + 3}
        \/ \E s \in 1 .. n : k = 2 * s \/ k = 2 * s + 1
  <2> TAKE k \in 0 .. 2 * n + 3
  <2> DEFINE s == k \div 2
  <2>1. s \in Nat /\ (k = 2 * s \/ k = 2 * s + 1)
    OBVIOUS
  <2> HIDE DEF s
  <2>2. s = 0 => k \in {0, 1}
    BY <2>1
  <2>3. s > n => k \in {2 * n + 2, 2 * n + 3}
    <3>1. s <= n + 1
      BY <2>1
    <3>2. s > n => s = n + 1
      BY <2>1, <3>1
    <3>3. s = n + 1 => k = 2 * n + 2 \/ k = 2 * n + 3
      BY <2>1
    <3> QED BY <3>2, <3>3
  <2> QED BY <2>1, <2>2, <2>3
<1>7. \A k \in 0 .. 2 * n + 3 : bound(k) \in Nat
  <2> TAKE k \in 0 .. 2 * n + 3
  <2>1. ASSUME NEW s \in 1 .. n, k = 2 * s \/ k = 2 * s + 1 PROVE bound(k) \in Nat
    BY <1>1, <1>3, <1>5, <2>1
  <2>2. ASSUME k \in {0, 1, 2 * n + 2, 2 * n + 3} PROVE bound(k) \in Nat
    <3>1. end[n] \in Nat
      OBVIOUS
    <3> QED BY <1>4, <1>5, <2>2, <3>1
  <2> QED BY <1>6, <2>1, <2>2
<1>8. \A k \in 1 .. 2 * n + 3 : bound(k - 1) <= bound(k)
  <2> TAKE k \in 1 .. 2 * n + 3
  <2>1. CASE k = 1
    BY <1>4, <2>1
  <2>2. CASE k = 2
    <3>1. k - 1 = 1 /\ 20 <= 20 + 40 * n
      BY <2>2
    <3> QED BY <1>4, <1>5, <2>2, <3>1
  <2>3. CASE k = 2 * n + 3
    <3>1. k - 1 = 2 * n + 2
      BY <2>3
    <3> QED BY <1>4, <1>5, <2>3, <3>1
  <2>4. ASSUME NEW s \in 1 .. n, k = 2 * s + 1 PROVE bound(k - 1) <= bound(k)
    <3>1. k - 1 = 2 * s
      BY <2>4
    <3> QED BY <1>1, <1>3, <1>5, <2>4, <3>1
  <2>5. ASSUME NEW s \in 1 .. n, k = 2 * s + 2 PROVE bound(k - 1) <= bound(k)
    <3>1. k - 1 = 2 * s + 1 /\ s \in 0 .. n
      BY <2>5
    <3> QED BY <1>1, <1>2, <1>3, <2>5, <3>1
  <2>6. k \in {1, 2, 2 * n + 3} \/ \E s \in 1 .. n : k = 2 * s + 1 \/ k = 2 * s + 2
    <3>1. CASE k = 2 * n + 2
      <4>1. n = 0 \/ n \in 1 .. n
        OBVIOUS
      <4> QED BY <3>1, <4>1
    <3>2. ASSUME NEW s \in 1 .. n, k = 2 * s, s # 1
          PROVE  \E r \in 1 .. n : k = 2 * r + 2
      <4>1. s - 1 \in 1 .. n /\ k = 2 * (s - 1) + 2
        BY <3>2
      <4> QED BY <4>1
    <3>3. \A s \in 1 .. n : k = 2 * s /\ s = 1 => k = 2
      OBVIOUS
    <3> QED BY <1>6, <3>1, <3>2, <3>3
  <2> QED BY <2>1, <2>2, <2>3, <2>4, <2>5, <2>6
<1> QED BY <1>3, <1>4, <1>5, <1>7, <1>8 DEF bound, mid

(* What parts there are, and what part of the file each takes.             *)
LEMMA CoffPartsAre ==
  ASSUME Fits, NEW p \in CoffParts
  PROVE  \/ p \in {Part("header", 0), Part("headers", 0), Part("symtab", 0)}
         \/ \E s \in 1 .. Len(section) :
              \/ p = Part("section", s) /\ ~section[s].zero /\ section[s].full_size > 0
              \/ p = Part("reloc", s) /\ section[s].relocations # <<>>
<1>1. DOMAIN section = 1 .. Len(section)
  BY SectionsCounted
<1> QED BY <1>1 DEF CoffParts

Fields(kind, of) ==
  Part(kind, of).kind = kind /\ Part(kind, of).of = of

LEMMA PartFields == \A kind, of : Fields(kind, of)
  BY DEF Part, Fields

(* A region in a slot that starts at a bound and ends at another.          *)
Within(r, from, upto) ==
  /\ r.at \in Nat /\ r.size \in Nat
  /\ from <= r.at /\ r.at + r.size <= upto

LEMMA RegionWithin ==
  ASSUME NEW at \in Nat, NEW size \in Nat, NEW content, NEW from, NEW upto,
         from <= at, at + size <= upto
  PROVE  Within(Region(at, size, content), from, upto)
  BY DEF Within, Region

LEMMA CoffRegionWithin ==
  ASSUME Fits, CoffHasRoom, format \in Coff, NEW end, NEW symbols, Len(symbols) \in Nat,
         end[0] = 20 + 40 * Len(section), end \in [0 .. Len(section) -> Nat],
         \A s \in 1 .. Len(section) : end[s] = CoffEnd(s, end[s - 1])
  PROVE  /\ Within(CoffRegion(end, symbols, Part("header", 0)), 0, 20)
         /\ Within(CoffRegion(end, symbols, Part("headers", 0)), 20, end[0])
         /\ Within(CoffRegion(end, symbols, Part("symtab", 0)), end[Len(section)],
                   end[Len(section)] + (18 * Len(symbols) + 4))
         /\ \A s \in 1 .. Len(section) :
              /\ ~section[s].zero /\ section[s].full_size > 0 =>
                   Within(CoffRegion(end, symbols, Part("section", s)),
                          end[s - 1], CoffDataEnd(s, end[s - 1]))
              /\ section[s].relocations # <<>> =>
                   Within(CoffRegion(end, symbols, Part("reloc", s)),
                          CoffDataEnd(s, end[s - 1]), end[s])
<1> DEFINE n == Len(section)
           size == 18 * Len(symbols) + 4
<1>1. n \in Nat /\ size \in Nat /\ end[n] \in Nat /\ DOMAIN section = 1 .. n
  <2>1. n \in Nat /\ DOMAIN section = 1 .. n
    BY SectionsCounted
  <2>2. size \in Nat
    OBVIOUS
  <2>3. end[n] \in Nat
    BY <2>1
  <2> QED BY <2>1, <2>2, <2>3
<1> HIDE DEF n, size
<1>2. Within(CoffRegion(end, symbols, Part("header", 0)), 0, 20)
  <2>1. CoffRegion(end, symbols, Part("header", 0)) = Region(0, 20, <<>>)
    BY PartFields DEF CoffRegion, Fields
  <2> QED BY <2>1, RegionWithin
<1>3. Within(CoffRegion(end, symbols, Part("headers", 0)), 20, end[0])
  <2> DEFINE room == 40 * n
  <2>1. CoffRegion(end, symbols, Part("headers", 0)) = Region(20, room, <<>>)
    BY PartFields DEF CoffRegion, Fields, n
  <2>2. room \in Nat /\ 20 <= 20 /\ 20 + room <= end[0]
    BY <1>1 DEF n
  <2> HIDE DEF room
  <2> QED BY <2>1, <2>2, RegionWithin
<1>4. Within(CoffRegion(end, symbols, Part("symtab", 0)), end[n], end[n] + size)
  <2>1. CoffRegion(end, symbols, Part("symtab", 0)) = Region(end[n], size, symbols)
    BY PartFields DEF CoffRegion, Fields, n, size
  <2> DEFINE x == end[n]
  <2> HIDE DEF x
  <2>2. x \in Nat /\ x <= x /\ x + size <= x + size
    BY <1>1 DEF x
  <2>3. Within(Region(x, size, symbols), x, x + size)
    BY <1>1, <2>2, RegionWithin
  <2> QED BY <2>1, <2>3 DEF x
<1>5. ASSUME NEW s \in 1 .. n
      PROVE  /\ ~section[s].zero /\ section[s].full_size > 0 =>
                  Within(CoffRegion(end, symbols, Part("section", s)),
                         end[s - 1], CoffDataEnd(s, end[s - 1]))
             /\ section[s].relocations # <<>> =>
                  Within(CoffRegion(end, symbols, Part("reloc", s)),
                         CoffDataEnd(s, end[s - 1]), end[s])
  <2> DEFINE x == end[s - 1]
  <2>1. x \in Nat /\ SectionFits(s) /\ s \in DOMAIN section /\ end[s] = CoffEnd(s, x)
    <3>1. s - 1 \in 0 .. n /\ s \in DOMAIN section
      BY <1>1
    <3> QED BY <3>1 DEF Fits, n
  <2> HIDE DEF x
  <2>2. /\ CoffData(s, x) \in Nat /\ x <= CoffData(s, x)
        /\ CoffRelocations(s, x) \in Nat
        /\ CoffDataEnd(s, x) <= CoffRelocations(s, x)
        /\ RelocationRoom(s) \in Nat
        /\ section[s].relocations # <<>> =>
             CoffEnd(s, x) = CoffRelocations(s, x) + RelocationRoom(s)
        /\ CoffEnd(s, x) \in Nat
    BY <2>1, CoffGoesOn
  <2>3. ASSUME ~section[s].zero, section[s].full_size > 0
        PROVE  Within(CoffRegion(end, symbols, Part("section", s)), x, CoffDataEnd(s, x))
    <3> DEFINE bytes == section[s].blocks[1].bytes
               len == section[s].full_size
    <3>1. len \in Nat /\ Len(bytes) = len /\ ~("nobits" \in section[s].flags)
      BY <2>1, <2>3 DEF SectionFits, BytesFor
    <3>2. "progbits" \in section[s].flags
      BY <2>1, <3>1 DEF CoffHasRoom
    <3>3. CoffDataEnd(s, x) = CoffData(s, x) + len
      BY <3>2 DEF CoffDataEnd
    <3>4. CoffRegion(end, symbols, Part("section", s)) = Region(CoffData(s, x), Len(bytes), bytes)
      <4> DEFINE p == Part("section", s)
      <4>1. p.kind = "section" /\ p.of = s
        BY PartFields DEF Fields
      <4> HIDE DEF p
      <4>2. CoffRegion(end, symbols, p) = Region(CoffData(s, x), Len(bytes), bytes)
        BY <4>1 DEF CoffRegion, x
      <4> QED BY <4>2 DEF p
    <3> HIDE DEF len, bytes
    <3>5. CoffData(s, x) + len <= CoffDataEnd(s, x)
      BY <2>2, <3>1, <3>3
    <3> QED BY <2>2, <3>1, <3>4, <3>5, RegionWithin
  <2>4. ASSUME section[s].relocations # <<>>
        PROVE  Within(CoffRegion(end, symbols, Part("reloc", s)), CoffDataEnd(s, x), CoffEnd(s, x))
    <3> DEFINE p == Part("reloc", s)
               list == section[s].relocations
               content == [i \in DOMAIN list |-> CoffRelocation(list[i])]
    <3>1. CoffRegion(end, symbols, p) = Region(CoffRelocations(s, x), RelocationRoom(s), content)
      <4>1. p.kind = "reloc" /\ p.of = s
        BY PartFields DEF Fields
      <4> HIDE DEF p
      <4> QED BY <4>1 DEF CoffRegion, RelocationRoom, x
    <3> HIDE DEF content
    <3>2. CoffRelocations(s, x) + RelocationRoom(s) <= CoffEnd(s, x)
      BY <2>2, <2>4
    <3> QED BY <2>2, <3>1, <3>2, RegionWithin
  <2> QED BY <2>1, <2>3, <2>4 DEF x
<1> QED BY <1>2, <1>3, <1>4, <1>5 DEF n, size

LEMMA CoffApart ==
  ASSUME Fits, CoffHasRoom, format \in Coff
  PROVE  Placed(CoffFile.regions) /\ Apart(CoffFile.regions)
<1> DEFINE n == Len(section)
           end == CoffLayout
           symbols == CoffSymbols
           rs == [p \in CoffParts |-> CoffRegion(end, symbols, p)]
           last == end[n] + (18 * Len(symbols) + 4)
           bound == [k \in 0 .. 2 * n + 3 |-> CoffBound(end, n, last, k)]
           slot == [p \in CoffParts |-> CoffSlotOf(p)]
<1>1. CoffFile.regions = rs
  BY DEF CoffFile
<1>2. /\ n \in Nat /\ end \in [0 .. n -> Nat] /\ end[0] = 20 + 40 * n
      /\ \A s \in 1 .. n : end[s] = CoffEnd(s, end[s - 1])
      /\ Len(symbols) \in Nat
  BY SectionsCounted, CoffLayoutRuns, CoffSymbolsCounted
<1> HIDE DEF end, symbols
<1>3. last \in Nat /\ end[n] <= last
  <2>1. end[n] \in Nat /\ 18 * Len(symbols) + 4 \in Nat
    BY <1>2
  <2> QED BY <2>1
<1>4. /\ \A k \in 0 .. 2 * n + 3 : bound[k] \in Nat
      /\ \A k \in 1 .. 2 * n + 3 : bound[k - 1] <= bound[k]
      /\ \A s \in 1 .. n : /\ bound[2 * s] = end[s - 1]
                           /\ bound[2 * s + 1] = CoffDataEnd(s, end[s - 1])
                           /\ bound[2 * s + 1 + 1] = end[s]
      /\ bound[0] = 0 /\ bound[1] = 20 /\ bound[2] = end[0]
      /\ bound[2 * n + 2] = end[n] /\ bound[2 * n + 3] = last
  <2> HIDE DEF last
  <2> DEFINE b(k) == CoffBound(end, n, last, k)
  <2>1. /\ \A k \in 0 .. 2 * n + 3 : b(k) \in Nat
        /\ \A k \in 1 .. 2 * n + 3 : b(k - 1) <= b(k)
        /\ \A s \in 1 .. n : /\ b(2 * s) = end[s - 1]
                             /\ b(2 * s + 1) = CoffDataEnd(s, end[s - 1])
        /\ b(0) = 0 /\ b(1) = 20 /\ b(2) = 20 + 40 * n
        /\ b(2 * n + 2) = end[n] /\ b(2 * n + 3) = last
    BY <1>2, <1>3, CoffSlotsFollow
  <2> HIDE DEF b
  <2>2. \A k \in 0 .. 2 * n + 3 : bound[k] = b(k)
    BY DEF b
  <2> HIDE DEF bound, n
  <2>3. /\ \A k \in 1 .. 2 * n + 3 : k \in 0 .. 2 * n + 3 /\ k - 1 \in 0 .. 2 * n + 3
        /\ \A s \in 1 .. n : 2 * s \in 0 .. 2 * n + 3 /\ 2 * s + 1 \in 0 .. 2 * n + 3
        /\ 0 \in 0 .. 2 * n + 3 /\ 1 \in 0 .. 2 * n + 3 /\ 2 \in 0 .. 2 * n + 3
        /\ 2 * n + 2 \in 0 .. 2 * n + 3 /\ 2 * n + 3 \in 0 .. 2 * n + 3
    BY <1>2
  <2>4. ASSUME NEW s \in 1 .. n PROVE bound[2 * s + 1 + 1] = end[s]
    <3>1. CASE s = n
      <4>1. 2 * s + 1 + 1 = 2 * n + 2
        BY <1>2, <3>1
      <4>2. bound[2 * n + 2] = end[n]
        BY <2>1, <2>2, <2>3
      <4> QED BY <3>1, <4>1, <4>2
    <3>2. CASE s # n
      <4>1. s + 1 \in 1 .. n /\ 2 * s + 1 + 1 = 2 * (s + 1) /\ (s + 1) - 1 = s
        BY <1>2, <3>2
      <4>2. bound[2 * (s + 1)] = end[(s + 1) - 1]
        BY <2>1, <2>2, <2>3, <4>1
      <4> QED BY <4>1, <4>2
    <3> QED BY <3>1, <3>2
  <2>5. ASSUME NEW s \in 1 .. n
        PROVE  bound[2 * s] = end[s - 1] /\ bound[2 * s + 1] = CoffDataEnd(s, end[s - 1])
    BY <2>1, <2>2, <2>3
  <2>6. \A k \in 0 .. 2 * n + 3 : bound[k] \in Nat
    BY <2>1, <2>2
  <2>7. \A k \in 1 .. 2 * n + 3 : bound[k - 1] <= bound[k]
    BY <2>1, <2>2, <2>3
  <2>8. /\ bound[0] = 0 /\ bound[1] = 20 /\ bound[2] = end[0]
        /\ bound[2 * n + 2] = end[n] /\ bound[2 * n + 3] = last
    BY <1>2, <2>1, <2>2, <2>3
  <2> QED BY <2>4, <2>5, <2>6, <2>7, <2>8
<1>5. bound \in [0 .. 2 * n + 3 -> Nat]
  BY <1>4
<1> HIDE DEF bound
<1>6. /\ Within(CoffRegion(end, symbols, Part("header", 0)), bound[0], bound[1])
      /\ Within(CoffRegion(end, symbols, Part("headers", 0)), bound[1], bound[2])
      /\ Within(CoffRegion(end, symbols, Part("symtab", 0)), bound[2 * n + 2], bound[2 * n + 3])
      /\ \A s \in 1 .. n :
           /\ ~section[s].zero /\ section[s].full_size > 0 =>
                Within(CoffRegion(end, symbols, Part("section", s)), bound[2 * s], bound[2 * s + 1])
           /\ section[s].relocations # <<>> =>
                Within(CoffRegion(end, symbols, Part("reloc", s)),
                       bound[2 * s + 1], bound[2 * s + 1 + 1])
  BY <1>2, <1>4, CoffRegionWithin
<1>7. ASSUME NEW p \in CoffParts
      PROVE  /\ \/ p = Part("header", 0) /\ CoffSlotOf(p) = 0
                \/ p = Part("headers", 0) /\ CoffSlotOf(p) = 1
                \/ p = Part("symtab", 0) /\ CoffSlotOf(p) = 2 * n + 2
                \/ /\ p = Part("section", p.of) /\ p.of \in 1 .. n
                   /\ CoffSlotOf(p) = 2 * p.of
                \/ /\ p = Part("reloc", p.of) /\ p.of \in 1 .. n
                   /\ CoffSlotOf(p) = 2 * p.of + 1
             /\ CoffSlotOf(p) \in 0 .. 2 * n + 2
             /\ Within(CoffRegion(end, symbols, p), bound[CoffSlotOf(p)], bound[CoffSlotOf(p) + 1])
  <2>1. CASE p = Part("header", 0)
    <3>1. CoffSlotOf(p) = 0
      BY <2>1, PartFields DEF CoffSlotOf, Fields
    <3> QED BY <1>2, <1>6, <2>1, <3>1
  <2>2. CASE p = Part("headers", 0)
    <3>1. CoffSlotOf(p) = 1 /\ 1 + 1 = 2
      BY <2>2, PartFields DEF CoffSlotOf, Fields
    <3> QED BY <1>2, <1>6, <2>2, <3>1
  <2>3. CASE p = Part("symtab", 0)
    <3>1. CoffSlotOf(p) = 2 * n + 2 /\ 2 * n + 2 + 1 = 2 * n + 3
      BY <1>2, <2>3, PartFields DEF CoffSlotOf, Fields
    <3> QED BY <1>2, <1>6, <2>3, <3>1
  <2>4. ASSUME NEW s \in 1 .. n, p = Part("section", s),
               ~section[s].zero /\ section[s].full_size > 0
        PROVE  /\ CoffSlotOf(p) = 2 * s /\ CoffSlotOf(p) \in 0 .. 2 * n + 2 /\ p.of = s
               /\ Within(CoffRegion(end, symbols, p), bound[CoffSlotOf(p)], bound[CoffSlotOf(p) + 1])
    <3>1. CoffSlotOf(p) = 2 * s /\ p.of = s
      BY <2>4, PartFields DEF CoffSlotOf, Fields
    <3>2. 2 * s \in 0 .. 2 * n + 2
      BY <1>2
    <3> QED BY <1>6, <2>4, <3>1, <3>2
  <2>5. ASSUME NEW s \in 1 .. n, p = Part("reloc", s), section[s].relocations # <<>>
        PROVE  /\ CoffSlotOf(p) = 2 * s + 1 /\ CoffSlotOf(p) \in 0 .. 2 * n + 2 /\ p.of = s
               /\ Within(CoffRegion(end, symbols, p), bound[CoffSlotOf(p)], bound[CoffSlotOf(p) + 1])
    <3>1. CoffSlotOf(p) = 2 * s + 1 /\ p.of = s
      BY <2>5, PartFields DEF CoffSlotOf, Fields
    <3>2. 2 * s + 1 \in 0 .. 2 * n + 2
      BY <1>2
    <3> QED BY <1>6, <2>5, <3>1, <3>2
  <2> QED BY <2>1, <2>2, <2>3, <2>4, <2>5, CoffPartsAre
<1>8. ASSUME NEW p \in CoffParts, NEW q \in CoffParts, p # q
      PROVE  CoffSlotOf(p) # CoffSlotOf(q)
  <2> SUFFICES ASSUME CoffSlotOf(p) = CoffSlotOf(q) PROVE p = q
    BY <1>8
  <2> DEFINE k == CoffSlotOf(p)
             a == p.of
             b == q.of
  <2>1. /\ \/ p = Part("header", 0) /\ k = 0
           \/ p = Part("headers", 0) /\ k = 1
           \/ p = Part("symtab", 0) /\ k = 2 * n + 2
           \/ p = Part("section", a) /\ a \in 1 .. n /\ k = 2 * a
           \/ p = Part("reloc", a) /\ a \in 1 .. n /\ k = 2 * a + 1
        /\ \/ q = Part("header", 0) /\ k = 0
           \/ q = Part("headers", 0) /\ k = 1
           \/ q = Part("symtab", 0) /\ k = 2 * n + 2
           \/ q = Part("section", b) /\ b \in 1 .. n /\ k = 2 * b
           \/ q = Part("reloc", b) /\ b \in 1 .. n /\ k = 2 * b + 1
    BY <1>7
  <2>2. n \in Nat
    BY <1>2
  <2> HIDE DEF n, k, a, b
  <2>3. CASE k \in {0, 1, 2 * n + 2}
    BY <2>1, <2>2, <2>3
  <2>4. CASE p = Part("section", a) /\ a \in 1 .. n /\ k = 2 * a
    <3>1. k \notin {0, 1, 2 * n + 2} /\ k % 2 = 0
      BY <2>2, <2>4
    <3>2. q = Part("section", b) /\ b \in 1 .. n /\ k = 2 * b
      BY <2>1, <2>2, <3>1
    <3> QED BY <2>4, <3>2
  <2>5. CASE p = Part("reloc", a) /\ a \in 1 .. n /\ k = 2 * a + 1
    <3>1. k \notin {0, 1, 2 * n + 2}
      BY <2>2, <2>5
    <3>2. q = Part("reloc", b) /\ b \in 1 .. n /\ k = 2 * b + 1
      BY <2>1, <2>2, <2>5, <3>1
    <3> QED BY <2>5, <3>2
  <2> QED BY <2>1, <2>3, <2>4, <2>5
<1>9. InSlots(rs, slot, bound, 2 * n + 3)
  <2>1. /\ DOMAIN rs = CoffParts /\ 2 * n + 3 - 1 = 2 * n + 2
        /\ \A p \in CoffParts : rs[p] = CoffRegion(end, symbols, p) /\ slot[p] = CoffSlotOf(p)
    BY <1>2
  <2> HIDE DEF rs, slot
  <2> QED BY <1>7, <1>8, <2>1 DEF InSlots, Within
<1>10. 2 * n + 3 \in Nat
  BY <1>2
<1> HIDE DEF rs, slot
<1>11. Placed(rs) /\ Apart(rs)
  BY <1>4, <1>5, <1>9, <1>10, SlotsApart
<1> QED BY <1>1, <1>11
-----------------------------------------------------------------------------
(***************************************************************************)
(* ELF: the tables.                                                        *)
(***************************************************************************)
AllParts ==
  { Part(kind, s) : kind \in {"section", "reloc", "base"}, s \in DOMAIN section }
  \cup { Part(kind, 0) : kind \in {"symtab", "strtab", "shstrtab"} }

LEMMA PartKinds ==
  ASSUME NEW p \in AllParts
  PROVE  \/ p.kind \in {"section", "reloc", "base"} /\ p.of \in DOMAIN section
         \/ p.kind \in {"symtab", "strtab", "shstrtab"}
<1>1. \A kind, of : Part(kind, of).kind = kind /\ Part(kind, of).of = of
  BY PartFields DEF Fields
<1> QED BY <1>1 DEF AllParts

(* The sections of the file are such parts.                                *)
LEMMA ElfSectionsType ==
  ASSUME Fits
  PROVE  ElfSections \in Seq(AllParts)
<1> DEFINE one(s) == << Part("section", s) >>
           two(s) == IF section[s].relocations # <<>> THEN << Part("reloc", s) >> ELSE <<>>
           three(s) == IF HasBase(s) THEN << Part("base", s) >> ELSE <<>>
           seqs == [s \in DOMAIN section |-> one(s) \o two(s) \o three(s)]
           tables == << Part("symtab", 0), Part("strtab", 0), Part("shstrtab", 0) >>
<1>1. ElfSections = FlattenSeq(seqs) \o tables
  BY DEF ElfSections
<1>2. /\ \A s \in DOMAIN section : /\ Part("section", s) \in AllParts
                                   /\ Part("reloc", s) \in AllParts
                                   /\ Part("base", s) \in AllParts
      /\ Part("symtab", 0) \in AllParts /\ Part("strtab", 0) \in AllParts
      /\ Part("shstrtab", 0) \in AllParts
  BY DEF AllParts
<1>3. \A x \in AllParts : <<x>> \in Seq(AllParts)
  OBVIOUS
<1>4. <<>> \in Seq(AllParts) /\ \A u, v \in Seq(AllParts) : u \o v \in Seq(AllParts)
  OBVIOUS
<1>5. ASSUME NEW s \in DOMAIN section PROVE one(s) \o two(s) \o three(s) \in Seq(AllParts)
  <2>1. one(s) \in Seq(AllParts) /\ two(s) \in Seq(AllParts) /\ three(s) \in Seq(AllParts)
    BY <1>2, <1>3, <1>4
  <2> HIDE DEF one, two, three
  <2> QED BY <1>4, <2>1
<1>6. seqs \in Seq(Seq(AllParts))
  <2>1. Len(section) \in Nat /\ DOMAIN section = 1 .. Len(section)
    BY SectionsCounted
  <2> HIDE DEF one, two, three
  <2> QED BY <1>5, <2>1
<1>7. tables \in Seq(AllParts)
  <2> DEFINE x == Part("symtab", 0)
             y == Part("strtab", 0)
             z == Part("shstrtab", 0)
  <2> HIDE DEF x, y, z
  <2>1. x \in AllParts /\ y \in AllParts /\ z \in AllParts
    BY <1>2 DEF x, y, z
  <2>2. <<x, y, z>> \in Seq(AllParts)
    BY <2>1
  <2> QED BY <2>2 DEF x, y, z
<1> HIDE DEF seqs, tables
<1>8. FlattenSeq(seqs) \in Seq(AllParts)
  BY <1>6, FlattenType
<1> QED BY <1>1, <1>4, <1>7, <1>8

(* A symbol has the name of a section or of a symbol, or of its base.      *)
SymbolNamed(x) ==
  x.name \in DOMAIN Letters \/ \E n \in DOMAIN Letters : x.name = n \o "!"

NamedList(r) == IsSeq(r) /\ \A i \in DOMAIN r : SymbolNamed(r[i])

LEMMA NamedConcat ==
  ASSUME NEW r, NEW q, NamedList(r), NamedList(q)
  PROVE  NamedList(r \o q)
<1>1. PICK S : r \in Seq(S)
  BY DEF NamedList, IsSeq
<1>2. PICK T : q \in Seq(T)
  BY DEF NamedList, IsSeq
<1> DEFINE U == {r[i] : i \in DOMAIN r} \cup {q[i] : i \in DOMAIN q}
<1>3. r \in Seq(U) /\ q \in Seq(U)
  <2>1. /\ Len(r) \in Nat /\ DOMAIN r = 1 .. Len(r) /\ r = [i \in 1 .. Len(r) |-> r[i]]
        /\ Len(q) \in Nat /\ DOMAIN q = 1 .. Len(q) /\ q = [i \in 1 .. Len(q) |-> q[i]]
    BY <1>1, <1>2
  <2>2. (\A i \in 1 .. Len(r) : r[i] \in U) /\ \A i \in 1 .. Len(q) : q[i] \in U
    BY <2>1
  <2> HIDE DEF U
  <2> QED BY <2>1, <2>2, FunctionIsSeq
<1>4. \A x \in U : SymbolNamed(x)
  BY DEF NamedList
<1> HIDE DEF U
<1>5. r \o q \in Seq(U)
  BY <1>3
<1>6. \A i \in DOMAIN (r \o q) : (r \o q)[i] \in U
  BY <1>5
<1> QED BY <1>4, <1>5, <1>6 DEF NamedList, IsSeq

LEMMA NamedOf ==
  ASSUME NEW S, \A x \in S : SymbolNamed(x), NEW r \in Seq(S)
  PROVE  NamedList(r)
<1>1. \A i \in DOMAIN r : r[i] \in S
  OBVIOUS
<1> QED BY <1>1 DEF NamedList, IsSeq

(* What the symbol of a section and of a definition is named.              *)
LEMMA EntryNames ==
  ASSUME NEW parts, NEW d
  PROVE  /\ ElfEntry(parts, d).name = d.name
         /\ ElfBaseEntry(parts, d).name = d.name \o "!"
<1>1. /\ ElfEntry(parts, d).name = d.name
      /\ DOMAIN ElfEntry(parts, d) = {"name", "value", "size", "binding", "type", "index"}
  BY DEF ElfEntry, ElfSymbol
<1> DEFINE e == ElfEntry(parts, d)
<1> HIDE DEF e
<1>2. PICK i : ElfBaseEntry(parts, d) =
        [[[[e EXCEPT !.name = @ \o "!"] EXCEPT !.value = 0] EXCEPT !.size = 0] EXCEPT !.index = i]
  <2> DEFINE i == IF d.deftype = "equ" /\ d.kind = "section"
                  THEN ElfIndex(parts, Part("base", d.index)) ELSE e.index
  <2>1. ElfBaseEntry(parts, d) =
        [[[[e EXCEPT !.name = @ \o "!"] EXCEPT !.value = 0] EXCEPT !.size = 0] EXCEPT !.index = i]
    BY <1>1 DEF ElfBaseEntry, e
  <2> QED BY <2>1
<1>3. e.name = d.name /\ "name" \in DOMAIN e
  BY <1>1 DEF e
<1>4. ElfBaseEntry(parts, d).name = e.name \o "!"
  BY <1>2, <1>3
<1> QED BY <1>1, <1>3, <1>4

LEMMA ElfEntriesNamed ==
  ASSUME Fits, NEW parts, NEW gs, gs \in Seq(DOMAIN globals)
  PROVE  NamedList(ElfEntries(parts, gs))
<1> DEFINE one(i) == << ElfEntry(parts, globals[gs[i]]) >>
           two(i) == IF segments = "segelf" THEN << ElfBaseEntry(parts, globals[gs[i]]) >>
                                            ELSE <<>>
           seqs == [i \in DOMAIN gs |-> one(i) \o two(i)]
           S == {ElfEntry(parts, globals[g]) : g \in DOMAIN globals}
                \cup {ElfBaseEntry(parts, globals[g]) : g \in DOMAIN globals}
<1>1. ElfEntries(parts, gs) = FlattenSeq(seqs)
  BY DEF ElfEntries
<1>2. \A x \in S : SymbolNamed(x)
  <2>1. ASSUME NEW g \in DOMAIN globals
        PROVE  /\ SymbolNamed(ElfEntry(parts, globals[g]))
               /\ SymbolNamed(ElfBaseEntry(parts, globals[g]))
    <3>1. /\ ElfEntry(parts, globals[g]).name = globals[g].name
          /\ ElfBaseEntry(parts, globals[g]).name = globals[g].name \o "!"
      BY EntryNames
    <3>2. globals[g].name \in DOMAIN Letters
      BY DEF Fits
    <3> QED BY <3>1, <3>2 DEF SymbolNamed
  <2> QED BY <2>1
<1>3. \A x \in S : <<x>> \in Seq(S)
  OBVIOUS
<1>4. <<>> \in Seq(S) /\ \A u, v \in Seq(S) : u \o v \in Seq(S)
  OBVIOUS
<1>5. /\ \A i \in DOMAIN gs : gs[i] \in DOMAIN globals
      /\ Len(gs) \in Nat /\ DOMAIN gs = 1 .. Len(gs)
  OBVIOUS
<1>6. ASSUME NEW i \in DOMAIN gs PROVE one(i) \o two(i) \in Seq(S)
  <2>1. ElfEntry(parts, globals[gs[i]]) \in S /\ ElfBaseEntry(parts, globals[gs[i]]) \in S
    BY <1>5
  <2> HIDE DEF S
  <2>2. one(i) \in Seq(S) /\ two(i) \in Seq(S)
    BY <1>3, <1>4, <2>1
  <2> HIDE DEF one, two
  <2> QED BY <1>4, <2>2
<1> HIDE DEF S
<1>7. seqs \in Seq(Seq(S))
  <2> HIDE DEF one, two
  <2> QED BY <1>5, <1>6
<1> HIDE DEF seqs
<1>8. FlattenSeq(seqs) \in Seq(S)
  BY <1>7, FlattenType
<1> QED BY <1>1, <1>2, <1>8, NamedOf

LEMMA ElfSectionSymbolsNamed ==
  ASSUME Fits, NEW parts
  PROVE  NamedList(ElfSectionSymbols(parts))
<1> DEFINE one == [s \in DOMAIN section |->
                     ElfSymbol(section[s].name, 0, 0, Local, "section",
                               ElfIndex(parts, Part("section", s)))]
           two == [i \in DOMAIN Bases |->
                     ElfSymbol(section[Bases[i]].name \o "!", 0, 0, Local, "section",
                               ElfIndex(parts, Part("base", Bases[i])))]
<1>1. ElfSectionSymbols(parts) = one \o two
  BY DEF ElfSectionSymbols
<1>2. \A x, v, l, b, y, i : ElfSymbol(x, v, l, b, y, i).name = x
  BY DEF ElfSymbol
<1>3. \A s \in DOMAIN section : section[s].name \in DOMAIN Letters
  BY DEF Fits, SectionFits
<1>4. Bases \in Seq({s \in DOMAIN section : HasBase(s)})
  BY AscendingType, SectionsCounted DEF Bases
<1>5. IsSeq(Bases) /\ \A i \in DOMAIN Bases : Bases[i] \in DOMAIN section
  BY <1>4 DEF IsSeq
<1>6. NamedList(one)
  <2>1. \A s \in DOMAIN one : SymbolNamed(one[s])
    BY <1>2, <1>3 DEF SymbolNamed
  <2>2. one = [s \in DOMAIN section |-> one[s]]
    OBVIOUS
  <2> HIDE DEF one
  <2>3. IsSeq(one)
    BY <2>2, SeqOfEach DEF Fits, IsSeq
  <2> QED BY <2>1, <2>3 DEF NamedList
<1>7. NamedList(two)
  <2>1. \A i \in DOMAIN two : SymbolNamed(two[i])
    <3> SUFFICES ASSUME NEW i \in DOMAIN Bases PROVE SymbolNamed(two[i])
      OBVIOUS
    <3> DEFINE n == section[Bases[i]].name
    <3>1. n \in DOMAIN Letters
      BY <1>3, <1>5
    <3> DEFINE m == n \o "!"
               index == ElfIndex(parts, Part("base", Bases[i]))
    <3>3. two[i] = ElfSymbol(m, 0, 0, Local, "section", index)
      OBVIOUS
    <3> HIDE DEF n, two
    <3>4. m = n \o "!"
      OBVIOUS
    <3> HIDE DEF m, index
    <3>5. two[i].name = m
      BY <1>2, <3>3
    <3>2. two[i].name = n \o "!"
      BY <3>4, <3>5
    <3> QED BY <3>1, <3>2 DEF SymbolNamed
  <2>2. two = [i \in DOMAIN Bases |-> two[i]]
    OBVIOUS
  <2> HIDE DEF two
  <2>3. IsSeq(two)
    BY <1>5, <2>2, SeqOfEach DEF IsSeq
  <2> QED BY <2>1, <2>3 DEF NamedList
<1> HIDE DEF one, two
<1> QED BY <1>1, <1>6, <1>7, NamedConcat

(* The marks of the 65xx have names that have characters.                  *)
LEMMA MarksNamed ==
  ASSUME Fits
  PROVE  /\ IsSeq(Marks)
         /\ \A i \in DOMAIN Marks : Marks[i].name \in DOMAIN Letters
<1> DEFINE S == [section : DOMAIN section, name : MarkNames, value : Nat]
           ms == [s \in DOMAIN section |-> MarksOf(s)]
<1>1. <<>> \in Seq(S) /\ \A u, v \in Seq(S) : u \o v \in Seq(S)
  <2> HIDE DEF S
  <2> QED OBVIOUS
<1>2. ASSUME NEW s \in DOMAIN section, NEW name \in MarkNames, NEW ins, ins.offset \in Nat
      PROVE  Mark(s, name, ins) \in Seq(S)
  BY <1>2 DEF Mark
<1>3. ASSUME NEW s \in DOMAIN section PROVE MarksOf(s) \in Seq(S)
  <2> DEFINE w == Walked(s)
             seqs == [i \in DOMAIN w |-> MarksAt(s, i)]
             I == [section : Nat, abits : {8, 16}, xbits : {8, 16}, offset : Nat]
  <2>1. w \in Seq(I)
    <3> DEFINE own == {i \in DOMAIN Stream : Stream[i].section = s}
               m == CHOOSE i \in own : \A j \in own : i <= j
    <3>0. Stream \in Seq(I)
      BY StreamAssumption
    <3> HIDE DEF I
    <3>1. CASE own = {}
      <4>1. w = <<>>
        BY <3>1 DEF Walked
      <4> QED BY <4>1
    <3>2. CASE own # {}
      <4>1. own \subseteq Nat /\ own \subseteq DOMAIN Stream
        BY <3>0
      <4>2. \E i \in own : \A j \in own : i <= j
        <5> HIDE DEF own
        <5>1. PICK i \in own : TRUE
          BY <3>2
        <5> QED BY <3>2, <4>1, LeastOf
      <4>3. m \in own
        BY <4>2
      <4>4. w = SubSeq(Stream, m, Len(Stream))
        BY <3>2 DEF Walked
      <4> HIDE DEF w, m, own
      <4>5. m \in 1 .. Len(Stream) /\ Len(Stream) \in Nat
        BY <3>0, <4>1, <4>3
      <4> QED BY <3>0, <4>4, <4>5
    <3> QED BY <3>1, <3>2
  <2>2. \A i \in DOMAIN w : w[i].offset \in Nat
    <3>1. \A i \in DOMAIN w : w[i] \in I
      <4> HIDE DEF w, I
      <4> QED BY <2>1
    <3> QED BY <3>1
  <2>3. ASSUME NEW i \in DOMAIN w PROVE MarksAt(s, i) \in Seq(S)
    <3> DEFINE ins == w[i]
               abits == IF i = 1 THEN 8 ELSE w[i - 1].abits
               xbits == IF i = 1 THEN 8 ELSE w[i - 1].xbits
               a == IF ins.abits = 16 THEN "$ml" ELSE "$mh"
               x == IF ins.xbits = 16 THEN "$xl" ELSE "$xh"
               one == IF ins.abits = abits THEN <<>> ELSE Mark(s, a, ins)
               two == IF ins.xbits = xbits THEN <<>> ELSE Mark(s, x, ins)
    <3>1. MarksAt(s, i) = one \o two
      BY DEF MarksAt
    <3>2. a \in MarkNames /\ x \in MarkNames /\ ins.offset \in Nat
      BY <2>2 DEF MarkNames
    <3> HIDE DEF a, x, ins, abits, xbits, S
    <3>3. Mark(s, a, ins) \in Seq(S) /\ Mark(s, x, ins) \in Seq(S)
      BY <1>2, <3>2
    <3>4. one \in Seq(S) /\ two \in Seq(S)
      BY <1>1, <3>3
    <3> HIDE DEF one, two
    <3> QED BY <1>1, <3>1, <3>4
  <2>4. seqs \in Seq(Seq(S))
    <3> HIDE DEF S
    <3>1. DOMAIN w = 1 .. Len(w) /\ Len(w) \in Nat
      BY <2>1
    <3> HIDE DEF w
    <3> QED BY <2>3, <3>1
  <2>5. MarksOf(s) = FlattenSeq(seqs)
    BY DEF MarksOf
  <2> HIDE DEF seqs, S
  <2> QED BY <2>4, <2>5, FlattenType
<1>4. Marks \in Seq(S)
  <2>1. CASE target = "x65"
    <3>1. Marks = FlattenSeq(ms)
      BY <2>1 DEF Marks
    <3>2. IsSeq(section)
      BY DEF Fits
    <3>3. DOMAIN section = 1 .. Len(section) /\ Len(section) \in Nat
      BY <3>2 DEF IsSeq
    <3> HIDE DEF S
    <3>4. ms \in Seq(Seq(S))
      BY <1>3, <3>3
    <3> HIDE DEF ms
    <3> QED BY <3>1, <3>4, FlattenType
  <2>2. CASE target # "x65"
    <3>1. Marks = <<>>
      BY <2>2 DEF Marks
    <3> QED BY <3>1
  <2> QED BY <2>1, <2>2
<1>5. MarkNames \subseteq DOMAIN Letters
  BY LettersAssumption
<1>6. \A i \in DOMAIN Marks : Marks[i] \in S
  <2> HIDE DEF S
  <2> QED BY <1>4
<1>7. IsSeq(Marks)
  BY <1>4 DEF IsSeq
<1> QED BY <1>5, <1>6, <1>7

LEMMA MappingSymbolsNamed ==
  ASSUME Fits, NEW parts
  PROVE  NamedList(MappingSymbols(parts))
<1> DEFINE l == MappingSymbols(parts)
           index(i) == ElfIndex(parts, Part("section", Marks[i].section))
<1>1. l = [i \in DOMAIN Marks |->
             ElfSymbol(Marks[i].name, Marks[i].value, 0, Local, "none", index(i))]
  BY DEF MappingSymbols
<1>2. \A x, v, z, b, y, i : ElfSymbol(x, v, z, b, y, i).name = x
  BY DEF ElfSymbol
<1> HIDE DEF l, index
<1>3. \A i \in DOMAIN l : SymbolNamed(l[i])
  BY <1>1, <1>2, MarksNamed DEF SymbolNamed
<1>4. IsSeq(l)
  <2>1. l = [i \in DOMAIN Marks |-> l[i]]
    BY <1>1
  <2> QED BY <2>1, MarksNamed, SeqOfEach DEF IsSeq
<1> QED BY <1>3, <1>4 DEF NamedList, l

LEMMA ElfSymbolsNamed ==
  ASSUME Fits, NEW parts
  PROVE  \E rest : ElfSymbols(parts) = <<ElfNull>> \o rest /\ NamedList(rest)
<1> DEFINE m == MappingSymbols(parts)
           a == ElfSectionSymbols(parts)
           b == ElfEntries(parts, Symbols(IsHidden))
           c == ElfEntries(parts, Symbols(IsVisible))
<1>1. ElfSymbols(parts) = <<ElfNull>> \o m \o a \o b \o c
  BY DEF ElfSymbols
<1>2. \A S : S \subseteq DOMAIN globals => Ascending(S, Len(globals)) \in Seq(DOMAIN globals)
  <2> TAKE S
  <2> HAVE S \subseteq DOMAIN globals
  <2>1. Ascending(S, Len(globals)) \in Seq(S)
    BY SymbolsType
  <2> QED BY <2>1
<1>3. /\ Symbols(IsHidden) \in Seq(DOMAIN globals)
      /\ Symbols(IsVisible) \in Seq(DOMAIN globals)
  BY <1>2 DEF Symbols
<1>4. NamedList(m) /\ NamedList(a) /\ NamedList(b) /\ NamedList(c)
  BY <1>3, MappingSymbolsNamed, ElfSectionSymbolsNamed, ElfEntriesNamed
<1> HIDE DEF m, a, b, c
<1>5. NamedList(m \o a) /\ NamedList((m \o a) \o b) /\ NamedList(((m \o a) \o b) \o c)
  BY <1>4, NamedConcat
<1>6. <<ElfNull>> \o m \o a \o b \o c = <<ElfNull>> \o (((m \o a) \o b) \o c)
  <2>1. PICK M, A, B, C : m \in Seq(M) /\ a \in Seq(A) /\ b \in Seq(B) /\ c \in Seq(C)
    BY <1>4 DEF NamedList, IsSeq
  <2> DEFINE U == M \cup A \cup B \cup C \cup {ElfNull}
  <2>2. m \in Seq(U) /\ a \in Seq(U) /\ b \in Seq(U) /\ c \in Seq(U)
    BY <2>1
  <2>3. <<ElfNull>> \in Seq(U)
    OBVIOUS
  <2> HIDE DEF U
  <2>4. \A u, v, w \in Seq(U) : (u \o v) \o w = u \o (v \o w) /\ u \o v \in Seq(U)
    OBVIOUS
  <2>5. m \o a \in Seq(U) /\ (m \o a) \o b \in Seq(U)
    BY <2>2, <2>4
  <2>6. <<ElfNull>> \o m \o a = <<ElfNull>> \o (m \o a)
    BY <2>2, <2>3, <2>4
  <2>7. <<ElfNull>> \o m \o a \o b = <<ElfNull>> \o ((m \o a) \o b)
    BY <2>2, <2>3, <2>4, <2>5, <2>6
  <2> QED BY <2>2, <2>3, <2>4, <2>5, <2>7
<1> QED BY <1>1, <1>5, <1>6

(* Its name has characters.                                                *)
LEMMA SymbolNameCounted ==
  ASSUME NEW x, SymbolNamed(x)
  PROVE  SymbolNameLength(x) \in Nat
<1>1. \A n \in DOMAIN Letters : Length(n) \in Nat
  BY LettersAssumption DEF Length
<1>2. CASE x.name \in DOMAIN Letters
  BY <1>1, <1>2 DEF SymbolNameLength
<1>3. CASE x.name \notin DOMAIN Letters
  <2> DEFINE n == CHOOSE n \in DOMAIN Letters : n \o "!" = x.name
  <2>1. \E m \in DOMAIN Letters : m \o "!" = x.name
    BY <1>3 DEF SymbolNamed
  <2>2. n \in DOMAIN Letters
    BY <2>1
  <2>3. SymbolNameLength(x) = 1 + Length(n)
    BY <1>3 DEF SymbolNameLength
  <2> HIDE DEF n
  <2> QED BY <1>1, <2>2, <2>3
<1> QED BY <1>2, <1>3

(* The offsets of names are numbers.                                       *)
LEMMA NameOffsetsType ==
  ASSUME NEW lengths \in Seq(Nat)
  PROVE  \A i \in 0 .. Len(lengths) : NameOffsets(lengths)[i] \in Nat
<1> DEFINE n == Len(lengths)
           Run(f) == f = [i \in 0 .. n |-> IF i = 0 THEN 1 ELSE f[i - 1] + lengths[i] + 1]
           offset == CHOOSE f : Run(f)
<1>1. n \in Nat /\ \A i \in 1 .. n : lengths[i] \in Nat
  OBVIOUS
<1>2. NameOffsets(lengths) = offset
  BY DEF NameOffsets
<1> HIDE DEF n
<1>3. \E f : Run(f)
  <2> DEFINE step == [i \in 1 .. n |-> [x \in Nat |-> x + lengths[i] + 1]]
  <2>1. \A i \in 1 .. n : \A x \in Nat : x + lengths[i] + 1 \in Nat
    BY <1>1
  <2>2. /\ step \in [1 .. n -> [Nat -> Nat]]
        /\ \A i \in 1 .. n : \A x \in Nat : step[i][x] = x + lengths[i] + 1
    BY <2>1
  <2> HIDE DEF step
  <2>3. PICK f \in [0 .. n -> Nat] : IsRun(f, step, 1, n)
    BY <1>1, <2>2, RunExists
  <2>4. \A i \in 0 .. n : f[i] = IF i = 0 THEN 1 ELSE step[i][f[i - 1]]
    BY <2>3 DEF IsRun
  <2>5. ASSUME NEW i \in 0 .. n, i # 0 PROVE f[i] = f[i - 1] + lengths[i] + 1
    <3>1. i \in 1 .. n /\ i - 1 \in 0 .. n
      BY <1>1, <2>5
    <3>2. f[i - 1] \in Nat
      BY <3>1
    <3> QED BY <2>2, <2>4, <2>5, <3>1, <3>2
  <2>6. f = [i \in 0 .. n |-> IF i = 0 THEN 1 ELSE f[i - 1] + lengths[i] + 1]
    BY <2>4, <2>5
  <2> QED BY <2>6
<1>4. Run(offset)
  <2> HIDE DEF Run
  <2> QED BY <1>3
<1> HIDE DEF offset
<1>5. offset[0] = 1 /\ \A i \in 1 .. n : offset[i] = offset[i - 1] + lengths[i] + 1
  <2>1. \A i \in 0 .. n : offset[i] = IF i = 0 THEN 1 ELSE offset[i - 1] + lengths[i] + 1
    BY <1>4
  <2>2. 0 \in 0 .. n /\ \A i \in 1 .. n : i \in 0 .. n /\ i # 0
    BY <1>1
  <2> QED BY <2>1, <2>2
<1>6. offset[0] \in Nat /\ \A i \in 1 .. n : offset[i - 1] \in Nat => offset[i] \in Nat
  <2>1. \A x, y \in Nat : x + y + 1 \in Nat
    OBVIOUS
  <2>2. 1 \in Nat
    OBVIOUS
  <2>3. ASSUME NEW i \in 1 .. n, offset[i - 1] \in Nat PROVE offset[i] \in Nat
    BY <1>1, <1>5, <2>1, <2>3
  <2> QED BY <1>5, <2>2, <2>3
<1>7. \A i \in 0 .. n : offset[i] \in Nat
  BY <1>1, <1>6, Along
<1> QED BY <1>2, <1>7 DEF n

(* What is known of the tables.                                            *)
TablesFit(t) ==
  /\ t.parts \in Seq(AllParts)
  /\ Len(t.symbols) \in Nat /\ t.strtab \in Nat /\ t.shstrtab \in Nat

LEMMA PartNameCounted ==
  ASSUME Fits, NEW p \in AllParts
  PROVE  PartNameLength(p) \in Nat
<1>1. \A s \in DOMAIN section : Length(section[s].name) \in Nat
  BY LettersAssumption DEF Length, Fits, SectionFits
<1>2. CASE p.kind \in {"section", "reloc", "base"} /\ p.of \in DOMAIN section
  <2> DEFINE l == Length(section[p.of].name)
  <2>1. l \in Nat /\ l + 1 \in Nat /\ RelPrefix + l \in Nat
    <3>1. l \in Nat
      BY <1>1, <1>2
    <3> HIDE DEF l
    <3> QED BY <3>1 DEF RelPrefix
  <2> HIDE DEF l
  <2>2. PartNameLength(p) \in {l, l + 1, RelPrefix + l}
    BY <1>2 DEF PartNameLength, l
  <2> QED BY <2>1, <2>2
<1>3. CASE p.kind \in {"symtab", "strtab", "shstrtab"}
  BY <1>3 DEF PartNameLength
<1> QED BY <1>2, <1>3, PartKinds

LEMMA ElfTablesFit == Fits => TablesFit(ElfTables)
<1> SUFFICES ASSUME Fits PROVE TablesFit(ElfTables)
  OBVIOUS
<1> DEFINE parts == ElfSections
           symbols == ElfSymbols(parts)
           t == ElfTables
<1>1. /\ t.parts = parts /\ t.symbols = symbols
      /\ t.strtab = StrtabOffsets(symbols)[Len(symbols) - 1]
      /\ t.shstrtab = ShstrtabOffsets(parts)[Len(parts)]
  BY DEF ElfTables
<1>2. parts \in Seq(AllParts)
  BY ElfSectionsType
<1>3. PICK rest : symbols = <<ElfNull>> \o rest /\ NamedList(rest)
  BY ElfSymbolsNamed
<1> HIDE DEF parts, symbols, t
<1>4. Len(rest) \in Nat /\ DOMAIN rest = 1 .. Len(rest)
  BY <1>3, SeqIsFunction DEF NamedList
<1>5. Len(symbols) = Len(rest) + 1 /\ \A i \in 1 .. Len(rest) : symbols[i + 1] = rest[i]
  <2>1. PICK S : rest \in Seq(S)
    BY <1>3 DEF NamedList, IsSeq
  <2>2. rest \in Seq(S \cup {ElfNull}) /\ <<ElfNull>> \in Seq(S \cup {ElfNull})
    BY <2>1
  <2>3. Len(<<ElfNull>>) = 1
    OBVIOUS
  <2> QED BY <1>3, <2>2, <2>3
<1>6. t.strtab \in Nat
  <2> DEFINE m == Len(rest)
             lengths == [i \in 1 .. Len(symbols) - 1 |-> SymbolNameLength(symbols[i + 1])]
  <2>1. m \in Nat /\ Len(symbols) - 1 = m
    BY <1>4, <1>5
  <2>2. \A i \in 1 .. m : SymbolNameLength(symbols[i + 1]) \in Nat
    BY <1>3, <1>4, <1>5, SymbolNameCounted DEF NamedList
  <2> HIDE DEF m
  <2>3. lengths \in Seq(Nat) /\ Len(lengths) = m
    BY <2>1, <2>2
  <2> HIDE DEF lengths
  <2>4. NameOffsets(lengths)[m] \in Nat
    <3>1. m \in 0 .. Len(lengths)
      BY <2>1, <2>3
    <3> QED BY <2>3, <3>1, NameOffsetsType
  <2>5. StrtabOffsets(symbols) = NameOffsets(lengths)
    BY DEF StrtabOffsets, lengths
  <2> QED BY <1>1, <2>1, <2>4, <2>5
<1>7. t.shstrtab \in Nat
  <2> DEFINE n == Len(parts)
             lengths == [i \in DOMAIN parts |-> PartNameLength(parts[i])]
  <2>1. n \in Nat /\ DOMAIN parts = 1 .. n /\ \A i \in 1 .. n : parts[i] \in AllParts
    BY <1>2
  <2>2. \A i \in 1 .. n : PartNameLength(parts[i]) \in Nat
    BY <2>1, PartNameCounted
  <2> HIDE DEF n
  <2>3. lengths \in Seq(Nat) /\ Len(lengths) = n
    BY <2>1, <2>2
  <2> HIDE DEF lengths
  <2>4. NameOffsets(lengths)[n] \in Nat
    <3>1. n \in 0 .. Len(lengths)
      BY <2>1, <2>3
    <3> QED BY <2>3, <3>1, NameOffsetsType
  <2>5. ShstrtabOffsets(parts) = NameOffsets(lengths)
    BY DEF ShstrtabOffsets, lengths
  <2> QED BY <1>1, <2>4, <2>5 DEF n
<1>8. Len(symbols) \in Nat
  BY <1>4, <1>5
<1> QED BY <1>1, <1>2, <1>6, <1>7, <1>8 DEF TablesFit, t
-----------------------------------------------------------------------------
(***************************************************************************)
(* ELF: the places.                                                        *)
(***************************************************************************)

(* What is written of a part has the room the first loop leaves.           *)
LEMMA PartFits ==
  ASSUME Fits, NEW t, TablesFit(t), NEW p \in AllParts
  PROVE  /\ PartSize(t, p) \in Nat /\ PartAlign(p) \in Nat
         /\ ~NoBits(p) => PartWritten(t, p) \in Nat /\ PartWritten(t, p) <= PartSize(t, p)
<1>1. CASE p.kind = "section" /\ p.of \in DOMAIN section
  <2> DEFINE s == p.of
  <2>1. SectionFits(s)
    BY <1>1 DEF Fits
  <2>2. /\ PartSize(t, p) = section[s].full_size /\ PartAlign(p) = section[s].align
        /\ PartWritten(t, p) = Len(BytesFor(s))
    BY <1>1 DEF PartSize, PartAlign, PartWritten, PartContent, BytesFor
  <2>3. ~NoBits(p) => ~section[s].zero
    BY <1>1, <2>1 DEF NoBits, SectionFits
  <2> QED BY <2>1, <2>2, <2>3 DEF SectionFits
<1>2. CASE p.kind = "base" /\ p.of \in DOMAIN section
  <2>1. /\ PartSize(t, p) = 0 /\ PartAlign(p) = section[p.of].align
        /\ PartWritten(t, p) = Len(<<>>)
    BY <1>2 DEF PartSize, PartAlign, PartWritten, PartContent
  <2>2. section[p.of].align \in Nat
    BY <1>2 DEF Fits, SectionFits
  <2> QED BY <2>1, <2>2
<1>3. CASE p.kind = "reloc" /\ p.of \in DOMAIN section
  <2> DEFINE l == Len(section[p.of].relocations)
             e == RelocationEntry
  <2>1. l \in Nat
    BY <1>3, SeqIsFunction DEF Fits, SectionFits
  <2>2. e \in Nat
    BY DEF RelocationEntry
  <2>3. PartSize(t, p) = l * e /\ PartAlign(p) \in Nat /\ PartWritten(t, p) = PartSize(t, p)
    BY <1>3 DEF PartSize, PartAlign, PartWritten, RelocationAlign
  <2> HIDE DEF l, e
  <2>4. l * e \in Nat
    BY <2>1, <2>2
  <2> DEFINE y == l * e
  <2> HIDE DEF y
  <2>5. y \in Nat /\ y <= y
    BY <2>4 DEF y
  <2> QED BY <2>3, <2>5 DEF y
<1>4. CASE p.kind = "symtab"
  <2> DEFINE l == Len(t.symbols)
             e == SymbolEntry
  <2>1. l \in Nat /\ e \in Nat
    BY DEF TablesFit, SymbolEntry
  <2>2. PartSize(t, p) = l * e /\ PartAlign(p) \in Nat /\ PartWritten(t, p) = PartSize(t, p)
    BY <1>4 DEF PartSize, PartAlign, PartWritten
  <2> HIDE DEF l, e
  <2>3. l * e \in Nat
    BY <2>1
  <2> DEFINE y == l * e
  <2> HIDE DEF y
  <2>4. y \in Nat /\ y <= y
    BY <2>3 DEF y
  <2> QED BY <2>2, <2>4 DEF y
<1>5. CASE p.kind \in {"strtab", "shstrtab"}
  <2>1. /\ PartSize(t, p) \in Nat /\ PartAlign(p) \in Nat
        /\ PartWritten(t, p) = PartSize(t, p)
    BY <1>5 DEF PartSize, PartAlign, PartWritten, TablesFit
  <2> QED BY <2>1
<1> QED BY <1>1, <1>2, <1>3, <1>4, <1>5, PartKinds

LEMMA ElfGoesOn ==
  ASSUME Fits, NEW t, TablesFit(t), NEW p \in AllParts, NEW x \in Nat
  PROVE  /\ ElfStart(p, x) \in Nat /\ x <= ElfStart(p, x)
         /\ ElfEnd(t, p, x) \in Nat /\ ElfStart(p, x) <= ElfEnd(t, p, x)
         /\ ~NoBits(p) => ElfEnd(t, p, x) = ElfStart(p, x) + PartSize(t, p)
<1>1. PartSize(t, p) \in Nat /\ PartAlign(p) \in Nat
  BY PartFits
<1>2. ElfStart(p, x) \in Nat /\ x <= ElfStart(p, x)
  <2>1. CASE PartAlign(p) = 0
    BY <2>1 DEF ElfStart
  <2>2. CASE PartAlign(p) # 0
    <3>1. PartAlign(p) \in Nat \ {0} /\ ElfStart(p, x) = RoundUp(x, PartAlign(p))
      BY <1>1, <2>2 DEF ElfStart
    <3> QED BY <3>1, RoundUpType
  <2> QED BY <2>1, <2>2
<1> DEFINE y == ElfStart(p, x)
           z == ElfEnd(t, p, x)
           size == PartSize(t, p)
<1>3. z = IF NoBits(p) THEN y ELSE y + size
  BY DEF ElfEnd
<1> HIDE DEF y, z, size
<1>4. y \in Nat /\ size \in Nat
  BY <1>1, <1>2 DEF y, size
<1>5. z \in Nat /\ y <= z /\ (~NoBits(p) => z = y + size)
  BY <1>3, <1>4
<1> QED BY <1>2, <1>5 DEF y, z, size

(* A loop over the parts of some kinds.                                    *)
LoopRuns(end, t, kinds, start) ==
  LET n == Len(t.parts) IN
  /\ end \in [0 .. n -> Nat] /\ end[0] = start
  /\ \A i \in 1 .. n : end[i - 1] <= end[i]
  /\ \A i \in 1 .. n : t.parts[i].kind \in kinds =>
                         end[i] = ElfEnd(t, t.parts[i], end[i - 1])

LEMMA ElfLoopRuns ==
  ASSUME Fits, NEW t, TablesFit(t), NEW kinds, NEW start \in Nat
  PROVE  LoopRuns(ElfLoop(t, kinds, start), t, kinds, start)
<1> DEFINE n == Len(t.parts)
           next(i, x) == IF t.parts[i].kind \in kinds THEN ElfEnd(t, t.parts[i], x) ELSE x
           Run(f) == f = [i \in 0 .. n |-> IF i = 0 THEN start ELSE next(i, f[i - 1])]
           end == CHOOSE f : Run(f)
<1>1. n \in Nat /\ \A i \in 1 .. n : t.parts[i] \in AllParts
  BY DEF TablesFit
<1>2. ElfLoop(t, kinds, start) = end
  BY DEF ElfLoop
<1>3. \A i \in 1 .. n : \A x \in Nat : next(i, x) \in Nat /\ x <= next(i, x)
  <2> SUFFICES ASSUME NEW i \in 1 .. n, NEW x \in Nat
               PROVE  next(i, x) \in Nat /\ x <= next(i, x)
    OBVIOUS
  <2> DEFINE p == t.parts[i]
             y == ElfStart(p, x)
             z == ElfEnd(t, p, x)
  <2>1. p \in AllParts
    BY <1>1
  <2>2. y \in Nat /\ x <= y /\ z \in Nat /\ y <= z
    BY <2>1, ElfGoesOn
  <2>3. next(i, x) = z \/ next(i, x) = x
    OBVIOUS
  <2> HIDE DEF y, z, next
  <2> QED BY <2>2, <2>3
<1>4. \A i \in 1 .. n : \A x : t.parts[i].kind \in kinds => next(i, x) = ElfEnd(t, t.parts[i], x)
  OBVIOUS
<1> HIDE DEF n, next
<1>5. \E f : Run(f)
  <2> DEFINE step == [i \in 1 .. n |-> [x \in Nat |-> next(i, x)]]
  <2>1. /\ step \in [1 .. n -> [Nat -> Nat]]
        /\ \A i \in 1 .. n : \A x \in Nat : step[i][x] = next(i, x)
    BY <1>3
  <2> HIDE DEF step
  <2>2. PICK f \in [0 .. n -> Nat] : IsRun(f, step, start, n)
    BY <1>1, <2>1, RunExists
  <2>3. \A i \in 0 .. n : f[i] = IF i = 0 THEN start ELSE step[i][f[i - 1]]
    BY <2>2 DEF IsRun
  <2>4. ASSUME NEW i \in 0 .. n, i # 0 PROVE f[i] = next(i, f[i - 1])
    <3>1. i \in 1 .. n /\ i - 1 \in 0 .. n
      BY <1>1, <2>4
    <3> QED BY <2>1, <2>3, <2>4, <3>1
  <2>5. f = [i \in 0 .. n |-> IF i = 0 THEN start ELSE next(i, f[i - 1])]
    BY <2>3, <2>4
  <2> QED BY <2>5
<1>6. Run(end)
  <2> HIDE DEF Run
  <2> QED BY <1>5
<1> HIDE DEF end
<1>7. end[0] = start /\ \A i \in 1 .. n : end[i] = next(i, end[i - 1])
  <2>1. \A i \in 0 .. n : end[i] = IF i = 0 THEN start ELSE next(i, end[i - 1])
    BY <1>6
  <2>2. 0 \in 0 .. n /\ \A i \in 1 .. n : i \in 0 .. n /\ i # 0
    BY <1>1
  <2> QED BY <2>1, <2>2
<1>8. end[0] \in Nat /\ \A i \in 1 .. n : end[i - 1] \in Nat => end[i] \in Nat
  BY <1>3, <1>7
<1>9. \A i \in 0 .. n : end[i] \in Nat
  BY <1>1, <1>8, Along
<1>10. end \in [0 .. n -> Nat]
  BY <1>6, <1>9
<1>11. \A i \in 1 .. n : end[i - 1] <= end[i]
  <2>1. \A i \in 1 .. n : i - 1 \in 0 .. n
    BY <1>1
  <2> QED BY <1>3, <1>7, <1>9, <2>1
<1>12. \A i \in 1 .. n : t.parts[i].kind \in kinds => end[i] = ElfEnd(t, t.parts[i], end[i - 1])
  BY <1>4, <1>7
<1> QED BY <1>2, <1>7, <1>10, <1>11, <1>12 DEF LoopRuns, n

(* The slots of an ELF file: its header, the parts of the first loop, the  *)
(* relocations, the names of the sections, the headers of the sections.    *)
ElfSlotOf(t, p) ==
  LET n == Len(t.parts) IN
  CASE p.kind = "header"   -> 0
    [] p.kind = "headers"  -> 2 * n + 2
    [] p.kind = "shstrtab" -> 2 * n + 1
    [] p.kind = "reloc"    -> n + ElfIndex(t.parts, p)
    [] p.kind \in {"section", "base", "symtab", "strtab"} -> ElfIndex(t.parts, p)

(* Where a slot starts.                                                    *)
ElfBound(first, second, n, names, headers, k) ==
  CASE k = 0 -> 0
    [] k \in 1 .. n -> first[k - 1]
    [] k \in n + 1 .. 2 * n + 1 -> second[k - n - 1]
    [] k = 2 * n + 2 -> second[n] + names
    [] k = 2 * n + 3 -> second[n] + names + headers

(* The slots follow each other, and are where the two loops have got to.   *)
ElfFollows(first, second, n, names, headers) ==
  LET bound(k) == ElfBound(first, second, n, names, headers, k)
  IN  /\ \A k \in 0 .. 2 * n + 3 : bound(k) \in Nat
      /\ \A k \in 1 .. 2 * n + 3 : bound(k - 1) <= bound(k)
      /\ bound(0) = 0 /\ bound(1) = first[0]
      /\ \A i \in 1 .. n : /\ bound(i) = first[i - 1] /\ bound(i + 1) = first[i]
                           /\ bound(n + i) = second[i - 1] /\ bound(n + i + 1) = second[i]
      /\ bound(2 * n + 1) = second[n] /\ bound(2 * n + 2) = second[n] + names
      /\ bound(2 * n + 3) = second[n] + names + headers

LEMMA ElfSlotsFollow ==
  ASSUME NEW n \in Nat, NEW first \in [0 .. n -> Nat], NEW second \in [0 .. n -> Nat],
         NEW names \in Nat, NEW headers \in Nat, second[0] = first[n],
         \A i \in 1 .. n : first[i - 1] <= first[i] /\ second[i - 1] <= second[i]
  PROVE  ElfFollows(first, second, n, names, headers)
<1> DEFINE bound(k) == ElfBound(first, second, n, names, headers, k)
<1>1. bound(0) = 0
  <2>1. 0 \notin 1 .. n /\ 0 \notin n + 1 .. 2 * n + 1 /\ 0 # 2 * n + 2 /\ 0 # 2 * n + 3
    OBVIOUS
  <2> QED BY <2>1 DEF ElfBound
<1>2. \A k \in 1 .. n : bound(k) = first[k - 1]
  <2> TAKE k \in 1 .. n
  <2>1. k # 0 /\ k \notin n + 1 .. 2 * n + 1 /\ k # 2 * n + 2 /\ k # 2 * n + 3
    OBVIOUS
  <2> QED BY <2>1 DEF ElfBound
<1>3. \A k \in n + 1 .. 2 * n + 1 : bound(k) = second[k - n - 1]
  <2> TAKE k \in n + 1 .. 2 * n + 1
  <2>1. k # 0 /\ k \notin 1 .. n /\ k # 2 * n + 2 /\ k # 2 * n + 3
    OBVIOUS
  <2> QED BY <2>1 DEF ElfBound
<1>4. bound(2 * n + 2) = second[n] + names
  <2> DEFINE k == 2 * n + 2
  <2>1. k # 0 /\ k \notin 1 .. n /\ k \notin n + 1 .. 2 * n + 1 /\ k # 2 * n + 3
    OBVIOUS
  <2> QED BY <2>1 DEF ElfBound
<1>5. bound(2 * n + 3) = second[n] + names + headers
  <2> DEFINE k == 2 * n + 3
  <2>1. k # 0 /\ k \notin 1 .. n /\ k \notin n + 1 .. 2 * n + 1 /\ k # 2 * n + 2
    OBVIOUS
  <2> QED BY <2>1 DEF ElfBound
<1> HIDE DEF bound
<1>6. bound(n + 1) = first[n] /\ bound(2 * n + 1) = second[n]
  <2>1. /\ n + 1 \in n + 1 .. 2 * n + 1 /\ (n + 1) - n - 1 = 0
        /\ 2 * n + 1 \in n + 1 .. 2 * n + 1 /\ (2 * n + 1) - n - 1 = n
    OBVIOUS
  <2> QED BY <1>3, <2>1
<1>7. \A i \in 1 .. n : /\ bound(i) = first[i - 1] /\ bound(i + 1) = first[i]
                        /\ bound(n + i) = second[i - 1] /\ bound(n + i + 1) = second[i]
  <2> TAKE i \in 1 .. n
  <2>1. bound(i + 1) = first[i]
    <3>1. CASE i = n
      BY <1>6, <3>1
    <3>2. CASE i # n
      <4>1. i + 1 \in 1 .. n /\ (i + 1) - 1 = i
        BY <3>2
      <4> QED BY <1>2, <4>1
    <3> QED BY <3>1, <3>2
  <2>2. /\ n + i \in n + 1 .. 2 * n + 1 /\ (n + i) - n - 1 = i - 1
        /\ n + i + 1 \in n + 1 .. 2 * n + 1 /\ (n + i + 1) - n - 1 = i
    OBVIOUS
  <2>3. bound(n + i) = second[i - 1] /\ bound(n + i + 1) = second[i]
    BY <1>3, <2>2
  <2> QED BY <1>2, <2>1, <2>3
<1>8. bound(1) = first[0]
  <2>1. CASE n = 0
    <3>1. n + 1 = 1
      BY <2>1
    <3> QED BY <1>6, <2>1, <3>1
  <2>2. CASE n # 0
    <3>1. 1 \in 1 .. n /\ 1 - 1 = 0
      BY <2>2
    <3> QED BY <1>2, <3>1
  <2> QED BY <2>1, <2>2
<1>9. second[n] \in Nat /\ first[0] \in Nat
  OBVIOUS
<1>10. \A k \in 0 .. 2 * n + 3 :
         \/ k \in {0, 2 * n + 1, 2 * n + 2, 2 * n + 3}
         \/ \E i \in 1 .. n : k = i \/ k = n + i
  <2> TAKE k \in 0 .. 2 * n + 3
  <2>1. CASE k \in 1 .. n
    BY <2>1
  <2>2. CASE k \in n + 1 .. 2 * n
    <3>1. k - n \in 1 .. n /\ k = n + (k - n)
      BY <2>2
    <3> QED BY <3>1
  <2>3. CASE k \notin 1 .. 2 * n
    BY <2>3
  <2> QED BY <2>1, <2>2, <2>3
<1>11. \A i \in 1 .. n : first[i - 1] \in Nat /\ second[i - 1] \in Nat
  <2>1. \A i \in 1 .. n : i - 1 \in 0 .. n
    OBVIOUS
  <2> QED BY <2>1
<1>12. \A k \in 0 .. 2 * n + 3 : bound(k) \in Nat
  <2> TAKE k \in 0 .. 2 * n + 3
  <2>1. CASE k \in {0, 2 * n + 1, 2 * n + 2, 2 * n + 3}
    <3>1. 0 \in Nat /\ second[n] + names \in Nat /\ second[n] + names + headers \in Nat
      BY <1>9
    <3>2. /\ bound(0) \in Nat /\ bound(2 * n + 1) \in Nat /\ bound(2 * n + 2) \in Nat
          /\ bound(2 * n + 3) \in Nat
      BY <1>1, <1>4, <1>5, <1>6, <1>9, <3>1
    <3> QED BY <2>1, <3>2
  <2>2. ASSUME NEW i \in 1 .. n, k = i \/ k = n + i PROVE bound(k) \in Nat
    <3>1. bound(i) \in Nat /\ bound(n + i) \in Nat
      BY <1>7, <1>11
    <3> QED BY <2>2, <3>1
  <2> QED BY <1>10, <2>1, <2>2
<1>13. \A k \in 1 .. 2 * n + 3 : bound(k - 1) <= bound(k)
  <2> TAKE k \in 1 .. 2 * n + 3
  <2> DEFINE j == k - 1
  <2>1. j \in 0 .. 2 * n + 2 /\ j \in 0 .. 2 * n + 3 /\ k = j + 1
    OBVIOUS
  <2> SUFFICES bound(j) <= bound(k)
    OBVIOUS
  <2> HIDE DEF j
  <2>2. CASE j = 0
    BY <1>1, <1>8, <1>9, <2>1, <2>2
  <2>3. CASE j = 2 * n + 1
    <3>1. k = 2 * n + 2
      BY <2>1, <2>3
    <3> QED BY <1>4, <1>6, <1>9, <2>3, <3>1
  <2>4. CASE j = 2 * n + 2
    <3>1. k = 2 * n + 3
      BY <2>1, <2>4
    <3> QED BY <1>4, <1>5, <1>9, <2>4, <3>1
  <2>5. ASSUME NEW i \in 1 .. n, j = i \/ j = n + i PROVE bound(j) <= bound(k)
    <3>1. k = i + 1 \/ k = n + i + 1
      BY <2>1, <2>5
    <3>2. first[i - 1] <= first[i] /\ second[i - 1] <= second[i]
      OBVIOUS
    <3>3. CASE j = i
      <4>1. k = i + 1
        BY <2>1, <3>3
      <4> QED BY <1>7, <3>2, <3>3, <4>1
    <3>4. CASE j = n + i
      <4>1. k = n + i + 1
        BY <2>1, <3>4
      <4> QED BY <1>7, <3>2, <3>4, <4>1
    <3> QED BY <2>5, <3>3, <3>4
  <2>6. j # 2 * n + 3
    BY <2>1
  <2> QED BY <1>10, <2>1, <2>2, <2>3, <2>4, <2>5, <2>6
<1> QED BY <1>1, <1>4, <1>5, <1>6, <1>7, <1>8, <1>12, <1>13 DEF bound, ElfFollows

(* A part of the file, and where it is in the list of sections.            *)
IsTablePart(t, p) ==
  /\ p \in AllParts /\ ~NoBits(p)
  /\ ElfIndex(t.parts, p) \in 1 .. Len(t.parts) /\ t.parts[ElfIndex(t.parts, p)] = p
  /\ p.kind = "shstrtab" => p = Part("shstrtab", 0)

LEMMA ElfPartsAre ==
  ASSUME NEW t, TablesFit(t), NEW p \in ElfParts(t.parts)
  PROVE  p = Part("header", 0) \/ p = Part("headers", 0) \/ IsTablePart(t, p)
<1> SUFFICES ASSUME p \notin {Part("header", 0), Part("headers", 0)} PROVE IsTablePart(t, p)
  OBVIOUS
<1>1. p \in ToSet(t.parts) /\ ~NoBits(p)
  BY DEF ElfParts
<1>2. PICK i \in DOMAIN t.parts : t.parts[i] = p
  BY <1>1 DEF ToSet
<1>3. DOMAIN t.parts = 1 .. Len(t.parts) /\ p \in AllParts
  <2>1. t.parts \in Seq(AllParts)
    BY DEF TablesFit
  <2> QED BY <1>2, <2>1
<1>4. /\ ElfIndex(t.parts, p) \in DOMAIN t.parts
      /\ t.parts[ElfIndex(t.parts, p)] = p
  BY <1>2 DEF ElfIndex
<1>5. p.kind = "shstrtab" => p = Part("shstrtab", 0)
  <2>1. \A kind, of : Part(kind, of).kind = kind
    BY PartFields DEF Fields
  <2> QED BY <1>3, <2>1 DEF AllParts
<1> QED BY <1>1, <1>3, <1>4, <1>5 DEF IsTablePart

(* What is written starts where the part does and ends before it.          *)
LEMMA PartWithin ==
  ASSUME Fits, NEW t, TablesFit(t), NEW p \in AllParts, ~NoBits(p), NEW x \in Nat, NEW content
  PROVE  Within(Region(ElfStart(p, x), PartWritten(t, p), content), x, ElfEnd(t, p, x))
<1> DEFINE at == ElfStart(p, x)
           size == PartWritten(t, p)
           room == PartSize(t, p)
           end == ElfEnd(t, p, x)
<1>1. at \in Nat /\ x <= at /\ end = at + room
  BY ElfGoesOn
<1>2. size \in Nat /\ room \in Nat /\ size <= room
  BY PartFits
<1> HIDE DEF at, size, room, end
<1>3. at + size <= end
  BY <1>1, <1>2
<1>4. Within(Region(at, size, content), x, end)
  BY <1>1, <1>2, <1>3, RegionWithin
<1> QED BY <1>4 DEF at, size, end

FirstKinds == {"section", "base", "symtab", "strtab"}

LEMMA ElfRegionWithin ==
  ASSUME Fits, NEW t, TablesFit(t), NEW p, IsTablePart(t, p), NEW first, NEW second,
         LoopRuns(first, t, FirstKinds, ElfHeaderSize),
         LoopRuns(second, t, {"reloc"}, first[Len(t.parts)]),
         NEW layout,
         layout.at = [i \in DOMAIN t.parts |->
                        CASE t.parts[i].kind = "shstrtab" -> second[Len(t.parts)]
                          [] t.parts[i].kind = "reloc" -> ElfStart(t.parts[i], second[i - 1])
                          [] OTHER -> ElfStart(t.parts[i], first[i - 1])]
  PROVE  LET n == Len(t.parts)
             i == ElfIndex(t.parts, p)
             r == ElfRegion(t, layout, p)
         IN  \/ p.kind = "shstrtab" /\ Within(r, second[n], second[n] + t.shstrtab)
             \/ p.kind = "reloc" /\ Within(r, second[i - 1], second[i])
             \/ p.kind \in FirstKinds /\ Within(r, first[i - 1], first[i])
<1> DEFINE n == Len(t.parts)
           i == ElfIndex(t.parts, p)
           content == PartContent(t, p)
           size == PartWritten(t, p)
<1>1. p \in AllParts /\ ~NoBits(p) /\ i \in 1 .. n /\ t.parts[i] = p
  BY DEF IsTablePart
<1>2. n \in Nat /\ DOMAIN t.parts = 1 .. n
  BY DEF TablesFit
<1>3. p.kind \in {"section", "base", "symtab", "strtab", "shstrtab", "reloc"}
  BY <1>1, PartKinds
<1>4. ElfRegion(t, layout, p) = Region(layout.at[i], size, content)
  BY <1>3 DEF ElfRegion
<1>5. /\ first[i - 1] \in Nat /\ second[i - 1] \in Nat /\ second[n] \in Nat
      /\ p.kind \in FirstKinds => first[i] = ElfEnd(t, p, first[i - 1])
      /\ p.kind = "reloc" => second[i] = ElfEnd(t, p, second[i - 1])
  <2>1. i - 1 \in 0 .. n /\ n \in 0 .. n
    BY <1>1, <1>2
  <2> QED BY <1>1, <2>1 DEF LoopRuns
<1> HIDE DEF n, i, content, size
<1>6. CASE p.kind = "shstrtab"
  <2>1. layout.at[i] = second[n]
    BY <1>1, <1>2, <1>6 DEF n
  <2>2. size = t.shstrtab /\ t.shstrtab \in Nat
    BY <1>6 DEF size, PartWritten, PartSize, TablesFit
  <2> DEFINE x == second[n]
  <2>3. x \in Nat
    BY <1>5
  <2> HIDE DEF x
  <2>4. x <= x /\ x + size <= x + t.shstrtab
    BY <2>2, <2>3
  <2>5. Within(Region(x, size, content), x, x + t.shstrtab)
    BY <2>2, <2>3, <2>4, RegionWithin
  <2> QED BY <1>4, <1>6, <2>1, <2>5 DEF x, n
<1>7. CASE p.kind = "reloc"
  <2>1. layout.at[i] = ElfStart(p, second[i - 1])
    BY <1>1, <1>2, <1>7
  <2>2. Within(Region(ElfStart(p, second[i - 1]), size, content),
               second[i - 1], ElfEnd(t, p, second[i - 1]))
    BY <1>1, <1>5, PartWithin DEF size
  <2> QED BY <1>4, <1>5, <1>7, <2>1, <2>2 DEF i
<1>8. CASE p.kind \in FirstKinds
  <2>1. layout.at[i] = ElfStart(p, first[i - 1])
    BY <1>1, <1>2, <1>8 DEF FirstKinds
  <2>2. Within(Region(ElfStart(p, first[i - 1]), size, content),
               first[i - 1], ElfEnd(t, p, first[i - 1]))
    BY <1>1, <1>5, PartWithin DEF size
  <2> QED BY <1>4, <1>5, <1>8, <2>1, <2>2 DEF i
<1> QED BY <1>3, <1>6, <1>7, <1>8 DEF FirstKinds, n, i

LEMMA ElfApart ==
  ASSUME Fits
  PROVE  Placed(ElfFile.regions) /\ Apart(ElfFile.regions)
<1> DEFINE t == ElfTables
           layout == ElfLayout(t)
           n == Len(t.parts)
           first == ElfLoop(t, FirstKinds, ElfHeaderSize)
           second == ElfLoop(t, {"reloc"}, first[n])
           headers == ElfSectionHeaderSize * (1 + n)
           rs == [p \in ElfParts(t.parts) |-> ElfRegion(t, layout, p)]
           bound == [k \in 0 .. 2 * n + 3 |->
                       ElfBound(first, second, n, t.shstrtab, headers, k)]
           slot == [p \in ElfParts(t.parts) |-> ElfSlotOf(t, p)]
<1>1. ElfFile.regions = rs
  BY DEF ElfFile
<1>2. TablesFit(t)
  BY ElfTablesFit
<1> HIDE DEF t
<1>3. /\ layout.at = [i \in DOMAIN t.parts |->
                        CASE t.parts[i].kind = "shstrtab" -> second[n]
                          [] t.parts[i].kind = "reloc" -> ElfStart(t.parts[i], second[i - 1])
                          [] OTHER -> ElfStart(t.parts[i], first[i - 1])]
      /\ layout.offset = second[n] + t.shstrtab
  BY DEF ElfLayout, FirstKinds
<1> HIDE DEF layout, first, second
<1>4. /\ n \in Nat /\ t.shstrtab \in Nat /\ ElfHeaderSize \in Nat /\ headers \in Nat
      /\ ElfSectionHeaderSize \in Nat
  <2>1. n \in Nat /\ t.shstrtab \in Nat
    BY <1>2 DEF TablesFit
  <2>2. ElfHeaderSize \in Nat /\ ElfSectionHeaderSize \in Nat
    BY DEF ElfHeaderSize, ElfSectionHeaderSize
  <2>3. \A x, y \in Nat : x * y \in Nat
    OBVIOUS
  <2>4. 1 + n \in Nat
    BY <2>1
  <2> QED BY <2>1, <2>2, <2>3, <2>4
<1>5. LoopRuns(first, t, FirstKinds, ElfHeaderSize)
  BY <1>2, <1>4, ElfLoopRuns DEF first
<1>6. first[n] \in Nat
  <2>1. n \in 0 .. n
    BY <1>4
  <2> QED BY <1>5, <2>1 DEF LoopRuns
<1>7. LoopRuns(second, t, {"reloc"}, first[n])
  BY <1>2, <1>6, ElfLoopRuns DEF second
<1> HIDE DEF headers
<1>8. /\ \A k \in 0 .. 2 * n + 3 : bound[k] \in Nat
      /\ \A k \in 1 .. 2 * n + 3 : bound[k - 1] <= bound[k]
      /\ bound[0] = 0 /\ bound[1] = first[0]
      /\ \A i \in 1 .. n : /\ bound[i] = first[i - 1] /\ bound[i + 1] = first[i]
                           /\ bound[n + i] = second[i - 1] /\ bound[n + i + 1] = second[i]
      /\ bound[2 * n + 1] = second[n] /\ bound[2 * n + 2] = second[n] + t.shstrtab
      /\ bound[2 * n + 3] = second[n] + t.shstrtab + headers
  <2> DEFINE names == t.shstrtab
             b(k) == ElfBound(first, second, n, names, headers, k)
  <2>0. /\ first \in [0 .. n -> Nat] /\ second \in [0 .. n -> Nat] /\ second[0] = first[n]
        /\ \A i \in 1 .. n : first[i - 1] <= first[i] /\ second[i - 1] <= second[i]
    BY <1>5, <1>7 DEF LoopRuns
  <2>2. \A k \in 0 .. 2 * n + 3 : bound[k] = b(k)
    OBVIOUS
  <2>3. n \in Nat /\ names \in Nat /\ headers \in Nat
    BY <1>4
  <2> HIDE DEF bound, n, names
  <2>1. /\ \A k \in 0 .. 2 * n + 3 : b(k) \in Nat
        /\ \A k \in 1 .. 2 * n + 3 : b(k - 1) <= b(k)
        /\ b(0) = 0 /\ b(1) = first[0]
        /\ \A i \in 1 .. n : /\ b(i) = first[i - 1] /\ b(i + 1) = first[i]
                             /\ b(n + i) = second[i - 1] /\ b(n + i + 1) = second[i]
        /\ b(2 * n + 1) = second[n] /\ b(2 * n + 2) = second[n] + names
        /\ b(2 * n + 3) = second[n] + names + headers
    <3>1. ElfFollows(first, second, n, names, headers)
      BY <2>0, <2>3, ElfSlotsFollow
    <3> QED BY <3>1 DEF ElfFollows
  <2> HIDE DEF b
  <2>4. /\ \A k \in 1 .. 2 * n + 3 : k \in 0 .. 2 * n + 3 /\ k - 1 \in 0 .. 2 * n + 3
        /\ \A i \in 1 .. n : i \in 0 .. 2 * n + 3 /\ i + 1 \in 0 .. 2 * n + 3
        /\ \A i \in 1 .. n : n + i \in 0 .. 2 * n + 3 /\ n + i + 1 \in 0 .. 2 * n + 3
        /\ 0 \in 0 .. 2 * n + 3 /\ 1 \in 0 .. 2 * n + 3 /\ 2 * n + 1 \in 0 .. 2 * n + 3
        /\ 2 * n + 2 \in 0 .. 2 * n + 3 /\ 2 * n + 3 \in 0 .. 2 * n + 3
    BY <2>3
  <2>5. \A k \in 0 .. 2 * n + 3 : bound[k] \in Nat
    BY <2>1, <2>2
  <2>6. \A k \in 1 .. 2 * n + 3 : bound[k - 1] <= bound[k]
    BY <2>1, <2>2, <2>4
  <2>7. ASSUME NEW i \in 1 .. n
        PROVE  /\ bound[i] = first[i - 1] /\ bound[i + 1] = first[i]
               /\ bound[n + i] = second[i - 1] /\ bound[n + i + 1] = second[i]
    BY <2>1, <2>2, <2>4
  <2>8. /\ bound[0] = 0 /\ bound[1] = first[0]
        /\ bound[2 * n + 1] = second[n] /\ bound[2 * n + 2] = second[n] + t.shstrtab
        /\ bound[2 * n + 3] = second[n] + t.shstrtab + headers
    BY <2>1, <2>2, <2>4 DEF names
  <2> QED BY <2>5, <2>6, <2>7, <2>8
<1>9. bound \in [0 .. 2 * n + 3 -> Nat]
  BY <1>8
<1> HIDE DEF bound
<1> DEFINE In(p) == /\ ElfSlotOf(t, p) \in 0 .. 2 * n + 2
                    /\ Within(ElfRegion(t, layout, p),
                              bound[ElfSlotOf(t, p)], bound[ElfSlotOf(t, p) + 1])
<1>10. ElfSlotOf(t, Part("header", 0)) = 0 /\ In(Part("header", 0))
  <2> DEFINE p == Part("header", 0)
  <2>1. p.kind = "header"
    BY PartFields DEF Fields
  <2> HIDE DEF p
  <2>2. ElfSlotOf(t, p) = 0 /\ ElfRegion(t, layout, p) = Region(0, ElfHeaderSize, <<>>)
    BY <2>1 DEF ElfSlotOf, ElfRegion
  <2>3. bound[0] = 0 /\ bound[1] = ElfHeaderSize
    BY <1>5, <1>8 DEF LoopRuns
  <2>4. 0 + ElfHeaderSize <= ElfHeaderSize
    BY <1>4
  <2>5. Within(Region(0, ElfHeaderSize, <<>>), 0, ElfHeaderSize)
    BY <1>4, <2>4, RegionWithin
  <2>6. 0 + 1 = 1 /\ 0 \in 0 .. 2 * n + 2
    BY <1>4
  <2>7. In(p)
    BY <2>2, <2>3, <2>5, <2>6
  <2> QED BY <2>2, <2>7 DEF p
<1>11. ElfSlotOf(t, Part("headers", 0)) = 2 * n + 2 /\ In(Part("headers", 0))
  <2> DEFINE p == Part("headers", 0)
             x == second[n] + t.shstrtab
  <2>1. p.kind = "headers"
    BY PartFields DEF Fields
  <2> HIDE DEF p
  <2>2. ElfSlotOf(t, p) = 2 * n + 2 /\ ElfRegion(t, layout, p) = Region(x, headers, <<>>)
    BY <1>3, <2>1 DEF ElfSlotOf, ElfRegion, headers
  <2>3. /\ bound[2 * n + 2] = x /\ bound[2 * n + 3] = x + headers
        /\ 2 * n + 2 \in 0 .. 2 * n + 3 /\ 2 * n + 2 + 1 = 2 * n + 3
        /\ 2 * n + 2 \in 0 .. 2 * n + 2
    BY <1>4, <1>8
  <2>4. x \in Nat
    BY <1>8, <2>3
  <2> HIDE DEF x
  <2>5. x <= x /\ x + headers <= x + headers
    BY <1>4, <2>4
  <2>6. Within(Region(x, headers, <<>>), x, x + headers)
    BY <1>4, <2>4, <2>5, RegionWithin
  <2>7. In(p)
    BY <2>2, <2>3, <2>6
  <2> QED BY <2>2, <2>7 DEF p
<1>12. ASSUME NEW p, IsTablePart(t, p)
       PROVE  LET i == ElfIndex(t.parts, p)
              IN  /\ i \in 1 .. n /\ t.parts[i] = p /\ In(p)
                  /\ \/ p = Part("shstrtab", 0) /\ ElfSlotOf(t, p) = 2 * n + 1
                     \/ ElfSlotOf(t, p) = n + i /\ p.kind = "reloc"
                     \/ ElfSlotOf(t, p) = i
  <2> DEFINE i == ElfIndex(t.parts, p)
             r == ElfRegion(t, layout, p)
             k == ElfSlotOf(t, p)
  <2>1. i \in 1 .. n /\ t.parts[i] = p /\ (p.kind = "shstrtab" => p = Part("shstrtab", 0))
    BY <1>12 DEF IsTablePart
  <2>2. \/ p.kind = "shstrtab" /\ Within(r, second[n], second[n] + t.shstrtab)
        \/ p.kind = "reloc" /\ Within(r, second[i - 1], second[i])
        \/ p.kind \in FirstKinds /\ Within(r, first[i - 1], first[i])
    BY <1>2, <1>3, <1>5, <1>7, <1>12, ElfRegionWithin
  <2>3. /\ p.kind = "shstrtab" => k = 2 * n + 1
        /\ p.kind = "reloc" => k = n + i
        /\ p.kind \in FirstKinds => k = i
    BY DEF ElfSlotOf, FirstKinds
  <2> HIDE DEF i, r, k, n
  <2>4. /\ i \in 0 .. 2 * n + 2 /\ n + i \in 0 .. 2 * n + 2 /\ 2 * n + 1 \in 0 .. 2 * n + 2
        /\ 2 * n + 1 + 1 = 2 * n + 2
    BY <1>4, <2>1
  <2>5. k \in 0 .. 2 * n + 2 /\ Within(r, bound[k], bound[k + 1])
    <3>1. CASE p.kind = "shstrtab" /\ Within(r, second[n], second[n] + t.shstrtab)
      BY <1>8, <2>3, <2>4, <3>1
    <3>2. CASE p.kind = "reloc" /\ Within(r, second[i - 1], second[i])
      BY <1>8, <2>1, <2>3, <2>4, <3>2
    <3>3. CASE p.kind \in FirstKinds /\ Within(r, first[i - 1], first[i])
      BY <1>8, <2>1, <2>3, <2>4, <3>3
    <3> QED BY <2>2, <3>1, <3>2, <3>3
  <2> QED BY <2>1, <2>2, <2>3, <2>5 DEF i, r, k
<1>13. ASSUME NEW p \in ElfParts(t.parts), NEW q \in ElfParts(t.parts),
              ElfSlotOf(t, p) = ElfSlotOf(t, q)
       PROVE  p = q
  <2> DEFINE i == ElfIndex(t.parts, p)
             j == ElfIndex(t.parts, q)
             k == ElfSlotOf(t, p)
  <2>1. \/ p = Part("header", 0) /\ k = 0
        \/ p = Part("headers", 0) /\ k = 2 * n + 2
        \/ /\ i \in 1 .. n /\ t.parts[i] = p
           /\ \/ p = Part("shstrtab", 0) /\ k = 2 * n + 1
              \/ k = n + i
              \/ k = i
    BY <1>2, <1>10, <1>11, <1>12, ElfPartsAre
  <2>2. \/ q = Part("header", 0) /\ k = 0
        \/ q = Part("headers", 0) /\ k = 2 * n + 2
        \/ /\ j \in 1 .. n /\ t.parts[j] = q
           /\ \/ q = Part("shstrtab", 0) /\ k = 2 * n + 1
              \/ k = n + j
              \/ k = j
    BY <1>2, <1>10, <1>11, <1>12, <1>13, ElfPartsAre
  <2>3. n \in Nat
    BY <1>4
  <2> HIDE DEF i, j, k, n
  <2>4. CASE k \in {0, 2 * n + 1, 2 * n + 2}
    BY <2>1, <2>2, <2>3, <2>4
  <2>5. CASE k \notin {0, 2 * n + 1, 2 * n + 2}
    <3>1. /\ i \in 1 .. n /\ t.parts[i] = p /\ (k = n + i \/ k = i)
          /\ j \in 1 .. n /\ t.parts[j] = q /\ (k = n + j \/ k = j)
      BY <2>1, <2>2, <2>5
    <3>2. i = j
      BY <2>3, <3>1
    <3> QED BY <3>1, <3>2
  <2> QED BY <2>4, <2>5
<1>14. InSlots(rs, slot, bound, 2 * n + 3)
  <2>1. \A p \in ElfParts(t.parts) : In(p)
    <3> HIDE DEF In
    <3> QED BY <1>2, <1>10, <1>11, <1>12, ElfPartsAre
  <2>2. /\ DOMAIN rs = ElfParts(t.parts) /\ (2 * n + 3) - 1 = 2 * n + 2
        /\ \A p \in ElfParts(t.parts) : rs[p] = ElfRegion(t, layout, p) /\ slot[p] = ElfSlotOf(t, p)
    BY <1>4
  <2>3. \A p, q \in ElfParts(t.parts) : p # q => ElfSlotOf(t, p) # ElfSlotOf(t, q)
    BY <1>13
  <2> HIDE DEF rs, slot, n
  <2>4. \A p, q \in DOMAIN rs : p # q => slot[p] # slot[q]
    BY <2>2, <2>3
  <2>5. \A p \in DOMAIN rs : /\ slot[p] \in 0 .. (2 * n + 3) - 1
                             /\ rs[p].at \in Nat /\ rs[p].size \in Nat
                             /\ bound[slot[p]] <= rs[p].at
                             /\ rs[p].at + rs[p].size <= bound[slot[p] + 1]
    <3> TAKE p \in DOMAIN rs
    <3>1. In(p) /\ rs[p] = ElfRegion(t, layout, p) /\ slot[p] = ElfSlotOf(t, p)
      BY <2>1, <2>2
    <3> QED BY <2>2, <3>1 DEF Within
  <2> QED BY <2>4, <2>5 DEF InSlots
<1>15. 2 * n + 3 \in Nat
  BY <1>4
<1> HIDE DEF rs, slot, n
<1>16. Placed(rs) /\ Apart(rs)
  BY <1>8, <1>9, <1>14, <1>15, SlotsApart
<1> QED BY <1>1, <1>16

(***************************************************************************)
(* A linker that goes where a header says finds the region put there.      *)
(***************************************************************************)

RegionIn(rs, offset, size) ==
  IF size = 0 THEN <<>>
  ELSE rs[CHOOSE p \in DOMAIN rs : rs[p].at = offset /\ rs[p].size = size].content

LEMMA RegionFound ==
  ASSUME NEW rs, Placed(rs), Apart(rs), NEW p \in DOMAIN rs, rs[p].size # 0
  PROVE  RegionIn(rs, rs[p].at, rs[p].size) = rs[p].content
<1> DEFINE Here_(q) == rs[q].at = rs[p].at /\ rs[q].size = rs[p].size
           found == CHOOSE q \in DOMAIN rs : Here_(q)
<1>1. found \in DOMAIN rs /\ Here_(found)
  OBVIOUS
<1>2. \A q \in DOMAIN rs : Here_(q) => q = p
  <2> SUFFICES ASSUME NEW q \in DOMAIN rs, Here_(q), q # p PROVE FALSE
    OBVIOUS
  <2>1. \/ rs[p].size = 0 \/ rs[p].at + rs[p].size <= rs[p].at
    BY DEF Apart
  <2>2. rs[p].at \in Nat /\ rs[p].size \in Nat
    BY DEF Placed
  <2> QED BY <2>1, <2>2
<1>3. found = p
  <2> HIDE DEF Here_, found
  <2> QED BY <1>1, <1>2
<1> QED BY <1>3 DEF RegionIn

(* The header of a section of a COFF file leads to its bytes.              *)
LEMMA CoffFinds ==
  ASSUME Fits, CoffHasRoom, format \in Coff,
         NEW s \in DOMAIN section, ~section[s].zero
  PROVE  RegionIn(CoffFile.regions, CoffFile.sections[s].data, CoffFile.sections[s].size)
           = BytesFor(s)
<1> DEFINE p == Part("section", s)
           rs == CoffFile.regions
           header == CoffFile.sections[s]
           bytes == section[s].blocks[1].bytes
           x == CoffLayout[s - 1]
<1>1. header.data = CoffData(s, x) /\ header.size = section[s].full_size
  BY DEF CoffFile, CoffHeader
<1>2. /\ section[s].full_size \in Nat
      /\ section[s].full_size > 0 => BytesFor(s) = bytes /\ Len(bytes) = section[s].full_size
      /\ section[s].full_size = 0 => BytesFor(s) = <<>>
  <2>1. SectionFits(s)
    BY DEF Fits
  <2>2. section[s].full_size \in Nat /\ Len(BytesFor(s)) = section[s].full_size
    BY <2>1 DEF SectionFits
  <2>3. ~(0 > 0)
    OBVIOUS
  <2> QED BY <2>2, <2>3 DEF BytesFor
<1>3. CASE section[s].full_size = 0
  BY <1>1, <1>2, <1>3 DEF RegionIn
<1>4. CASE section[s].full_size > 0
  <2>1. p \in CoffParts
    BY <1>4 DEF CoffParts
  <2>2. rs = [q \in CoffParts |-> CoffRegion(CoffLayout, CoffSymbols, q)]
    BY DEF CoffFile
  <2>3. CoffRegion(CoffLayout, CoffSymbols, p) = Region(CoffData(s, x), Len(bytes), bytes)
    <3>1. p.kind = "section" /\ p.of = s
      BY PartFields DEF Fields
    <3> HIDE DEF p
    <3> QED BY <3>1 DEF CoffRegion
  <2>4. Placed(rs) /\ Apart(rs)
    BY CoffApart
  <2> HIDE DEF rs, header, bytes, p, x
  <2>5. p \in DOMAIN rs /\ rs[p] = Region(CoffData(s, x), Len(bytes), bytes)
    BY <2>1, <2>2, <2>3
  <2>6. rs[p].at = header.data /\ rs[p].size = header.size /\ rs[p].content = bytes
    BY <1>1, <1>2, <1>4, <2>5 DEF Region
  <2>7. rs[p].size # 0
    BY <1>1, <1>2, <1>4, <2>6
  <2>8. RegionIn(rs, rs[p].at, rs[p].size) = rs[p].content
    BY <2>4, <2>5, <2>7, RegionFound
  <2> QED BY <1>2, <1>4, <2>6, <2>8 DEF rs, header
<1> QED BY <1>2, <1>3, <1>4

(* Every section of the object is a section of an ELF file.                *)
LEMMA SectionListed ==
  ASSUME Fits, NEW s \in DOMAIN section
  PROVE  \E i \in DOMAIN ElfSections : ElfSections[i] = Part("section", s)
<1> DEFINE one(r) == << Part("section", r) >>
           two(r) == IF section[r].relocations # <<>> THEN << Part("reloc", r) >> ELSE <<>>
           three(r) == IF HasBase(r) THEN << Part("base", r) >> ELSE <<>>
           seqs == [r \in DOMAIN section |-> one(r) \o two(r) \o three(r)]
           tables == << Part("symtab", 0), Part("strtab", 0), Part("shstrtab", 0) >>
           V == {Part(kind, r) : kind \in {"section", "reloc", "base"}, r \in DOMAIN section}
           x == Part("section", s)
<1>1. ElfSections = FlattenSeq(seqs) \o tables
  BY DEF ElfSections
<1>2. ASSUME NEW r \in DOMAIN section
      PROVE  one(r) \in Seq(V) /\ two(r) \in Seq(V) /\ three(r) \in Seq(V)
  <2>1. Part("section", r) \in V /\ Part("reloc", r) \in V /\ Part("base", r) \in V
    OBVIOUS
  <2> HIDE DEF V
  <2>2. <<>> \in Seq(V) /\ \A v \in V : <<v>> \in Seq(V)
    OBVIOUS
  <2> QED BY <2>1, <2>2
<1>3. one(s) = <<x>>
  OBVIOUS
<1> HIDE DEF one, two, three, V, x, tables
<1>4. \A u, v \in Seq(V) : u \o v \in Seq(V)
  OBVIOUS
<1>5. seqs \in Seq(Seq(V))
  <2>1. Len(section) \in Nat /\ DOMAIN section = 1 .. Len(section)
    BY SectionsCounted
  <2>2. \A r \in DOMAIN section : one(r) \o two(r) \o three(r) \in Seq(V)
    BY <1>2, <1>4
  <2> QED BY <2>1, <2>2
<1>6. 1 \in DOMAIN seqs[s] /\ seqs[s][1] = x
  <2> DEFINE rest == two(s) \o three(s)
  <2>1. \A u, v, w \in Seq(V) : (u \o v) \o w = u \o (v \o w)
    OBVIOUS
  <2>2. seqs[s] = <<x>> \o rest /\ rest \in Seq(V) /\ <<x>> \in Seq(V)
    <3>1. one(s) \in Seq(V) /\ two(s) \in Seq(V) /\ three(s) \in Seq(V)
      BY <1>2
    <3>2. seqs[s] = (one(s) \o two(s)) \o three(s)
      OBVIOUS
    <3> HIDE DEF seqs
    <3>3. seqs[s] = one(s) \o rest
      BY <2>1, <3>1, <3>2
    <3> QED BY <1>3, <1>4, <3>1, <3>3
  <2> HIDE DEF seqs, rest
  <2> QED BY <2>2
<1>7. s \in DOMAIN seqs
  OBVIOUS
<1> HIDE DEF seqs
<1>8. PICK i \in DOMAIN FlattenSeq(seqs) : FlattenSeq(seqs)[i] = x
  BY <1>5, <1>6, <1>7, FlattenHolds
<1>9. FlattenSeq(seqs) \in Seq(V)
  BY <1>5, FlattenType
<1>10. ElfSections \in Seq(AllParts)
  BY ElfSectionsType
<1> DEFINE flat == FlattenSeq(seqs)
<1> HIDE DEF flat
<1>11. i \in DOMAIN ElfSections /\ ElfSections[i] = x
  <2>1. tables \in Seq({Part("symtab", 0), Part("strtab", 0), Part("shstrtab", 0)})
    <3> DEFINE a == Part("symtab", 0)
               b == Part("strtab", 0)
               c == Part("shstrtab", 0)
    <3> HIDE DEF a, b, c
    <3>1. <<a, b, c>> \in Seq({a, b, c})
      OBVIOUS
    <3> QED BY <3>1 DEF a, b, c, tables
  <2>2. Len(tables) \in Nat /\ flat \in Seq(V) /\ ElfSections = flat \o tables
    BY <1>1, <1>9, <2>1 DEF flat
  <2>3. i \in 1 .. Len(flat) /\ flat[i] = x
    BY <1>8, <2>2 DEF flat
  <2>4. i \in DOMAIN (flat \o tables) /\ (flat \o tables)[i] = flat[i]
    BY <2>1, <2>2, <2>3
  <2> QED BY <2>2, <2>3, <2>4
<1> QED BY <1>11 DEF x

(* The header of a section of an ELF file leads to its bytes.              *)
LEMMA ElfFinds ==
  ASSUME Fits, NEW s \in DOMAIN section, ~section[s].zero
  PROVE  LET header == ElfFile.sections[ElfIndex(ElfSections, Part("section", s))]
         IN  RegionIn(ElfFile.regions, header.offset, header.size) = BytesFor(s)
<1> DEFINE p == Part("section", s)
           t == ElfTables
           i == ElfIndex(t.parts, p)
           layout == ElfLayout(t)
           rs == ElfFile.regions
           header == ElfFile.sections[i]
           size == section[s].full_size
<1>1. t.parts = ElfSections
  BY DEF ElfTables
<1>2. i \in DOMAIN t.parts /\ t.parts[i] = p
  <2>1. \E j \in DOMAIN t.parts : t.parts[j] = p
    BY <1>1, SectionListed
  <2> HIDE DEF p, t
  <2> QED BY <2>1 DEF ElfIndex
<1>3. p.kind = "section" /\ p.of = s
  BY PartFields DEF Fields
<1>4. SectionFits(s)
  BY DEF Fits
<1>5. size \in Nat /\ Len(BytesFor(s)) = size /\ ~("nobits" \in section[s].flags)
  BY <1>4 DEF SectionFits
<1>6. header = ElfHeader(t, layout, ShstrtabOffsets(t.parts), i)
  BY <1>2 DEF ElfFile
<1>7. rs = [q \in ElfParts(t.parts) |-> ElfRegion(t, layout, q)]
  BY DEF ElfFile
<1>8. Placed(rs) /\ Apart(rs)
  BY ElfApart
<1> HIDE DEF p, t, layout, rs, header
<1>9. header.offset = layout.at[i] /\ header.size = size
  BY <1>2, <1>3, <1>6 DEF ElfHeader, PartSize
<1>10. PartContent(t, p) = BytesFor(s) /\ PartWritten(t, p) = size
  <2>1. PartContent(t, p) = BytesFor(s)
    BY <1>3 DEF PartContent, BytesFor
  <2> QED BY <1>3, <1>5, <2>1 DEF PartWritten
<1>11. ElfRegion(t, layout, p) = Region(layout.at[i], size, BytesFor(s))
  BY <1>3, <1>10 DEF ElfRegion
<1>12. p \in DOMAIN rs /\ rs[p] = Region(layout.at[i], size, BytesFor(s))
  <2>1. ~NoBits(p) /\ p \in ToSet(t.parts)
    BY <1>2, <1>3, <1>5 DEF NoBits, ToSet
  <2> QED BY <1>7, <1>11, <2>1 DEF ElfParts
<1>13. RegionIn(rs, header.offset, header.size) = BytesFor(s)
  <2>1. CASE size = 0
    <3>1. ~(0 > 0)
      OBVIOUS
    <3>2. BytesFor(s) = <<>>
      BY <2>1, <3>1 DEF BytesFor
    <3> QED BY <1>9, <2>1, <3>2 DEF RegionIn
  <2>2. CASE size # 0
    <3>1. rs[p].at = header.offset /\ rs[p].size = header.size /\ rs[p].content = BytesFor(s)
      BY <1>9, <1>12 DEF Region
    <3>2. rs[p].size # 0
      BY <1>9, <2>2, <3>1
    <3>3. RegionIn(rs, rs[p].at, rs[p].size) = rs[p].content
      BY <1>8, <1>12, <3>2, RegionFound
    <3> QED BY <3>1, <3>3
  <2> QED BY <2>1, <2>2
<1> QED BY <1>1, <1>13 DEF rs, header, p

(***************************************************************************)
(* The file is written from an object that Fits, and nothing changes after.*)
(***************************************************************************)

DataIn(f, s) ==
  LET h == f.sections[IF format \in Coff THEN s
                      ELSE ElfIndex(ElfSections, Part("section", s))]
  IN  RegionIn(f.regions, IF format \in Coff THEN h.data ELSE h.offset, h.size)

LEMMA DataRead == \A s : DataAt(s) = DataIn(file, s)
  BY DEF DataAt, HeaderOf, RegionAt, DataIn, RegionIn

LEMMA DataReadNext ==
  ASSUME UNCHANGED <<format, section, segments>>, NEW s
  PROVE  DataAt(s)' = DataIn(file', s)
<1>1. ElfSections' = ElfSections
  BY DEF ElfSections, HasBase
<1> QED BY <1>1 DEF DataAt, HeaderOf, RegionAt, DataIn, RegionIn, Coff

LEMMA WrittenApart ==
  ASSUME ObjInv, Kept, WriteFile
  PROVE  RegionsApart' /\ HeadersFindBytes'
<1>1. /\ file' = File /\ format' = format /\ section' = section /\ memory' = memory
      /\ UNCHANGED <<format, section, segments>>
  BY DEF WriteFile, Write
<1>2. CASE format \notin Coff \cup Elf \/ ~CoffHasRoom
  BY <1>1, <1>2 DEF RegionsApart, HeadersFindBytes, CoffHasRoom, Coff, Elf
<1>3. CASE format \in Coff \cup Elf /\ CoffHasRoom
  <2>1. Fits
    BY <1>3, ObjectFits DEF Moving, Coff, Elf
  <2> DEFINE Good == /\ Apart(File.regions)
                     /\ \A s \in DOMAIN section : ~section[s].zero =>
                          DataIn(File, s) = BytesFor(s)
  <2>2. ASSUME format \in Coff PROVE Good
    <3>1. /\ format # "rel" /\ format # "omf80" /\ format # "omf86"
          /\ format \notin Elf
      BY <2>2 DEF Coff, Elf
    <3>2. File = CoffFile
      BY <2>2, <3>1 DEF File
    <3>3. Apart(File.regions)
      BY <1>3, <2>1, <2>2, <3>2, CoffApart
    <3>4. \A s \in DOMAIN section : ~section[s].zero => DataIn(File, s) = BytesFor(s)
      BY <1>3, <2>1, <2>2, <3>2, CoffFinds DEF DataIn
    <3> QED BY <3>3, <3>4
  <2>3. ASSUME format \in Elf PROVE Good
    <3>1. /\ format # "rel" /\ format # "omf80" /\ format # "omf86"
          /\ format \notin Coff
      BY <2>3 DEF Coff, Elf
    <3>2. File = ElfFile
      BY <2>3, <3>1 DEF File
    <3>3. Apart(File.regions)
      BY <2>1, <3>2, ElfApart
    <3>4. \A s \in DOMAIN section : ~section[s].zero => DataIn(File, s) = BytesFor(s)
      BY <2>1, <3>1, <3>2, ElfFinds DEF DataIn
    <3> QED BY <3>3, <3>4
  <2>4. Good
    BY <1>3, <2>2, <2>3
  <2>5. RegionsApart'
    BY <1>1, <2>4 DEF RegionsApart, Apart
  <2>6. ASSUME NEW s \in DOMAIN section, ~section[s].zero
        PROVE  At(0, DataAt(s)') = memory'[s]
    <3>1. DataAt(s)' = BytesFor(s)
      BY <1>1, <2>4, <2>6, DataReadNext
    <3>2. memory[s] = At(0, BytesFor(s))
      BY <2>1, <2>6 DEF Fits, SectionFits
    <3> QED BY <1>1, <3>1, <3>2
  <2>7. HeadersFindBytes'
    BY <1>1, <2>6 DEF HeadersFindBytes, Given
  <2> QED BY <2>5, <2>7
<1> QED BY <1>2, <1>3

LEMMA ObjectStep == ObjectNext => [Next]_vars
  BY DEF ObjectNext, WriteFile, Next

(* Filling the object ends before the file is written.                     *)
LEMMA FillUnwritten == Fill => phase' # "written"
  BY DEF Fill, Declare, Generate, Byte, OutputByte, OutputWord, SetLocation,
         OutputSkip, NextSection, StartsItem, Keep

(* What is said of the file from the step that writes it.                  *)
FileInv == ObjInv /\ Kept /\ RegionsApart /\ HeadersFindBytes

LEMMA FileInit == ObjectInit => FileInv
<1> SUFFICES ASSUME ObjectInit PROVE FileInv
  OBVIOUS
<1>1. RegionsApart /\ HeadersFindBytes
  BY DEF ObjectInit, Init, RegionsApart, HeadersFindBytes, Written
<1> QED BY <1>1, InitInv, KeptInit DEF ObjectInit, FileInv

LEMMA FileStep == FileInv /\ [ObjectNext]_<<vars, file>> => FileInv'
<1> SUFFICES ASSUME FileInv, [ObjectNext]_<<vars, file>> PROVE FileInv'
  OBVIOUS
<1>1. ObjInv' /\ Kept'
  BY ObjectStep, StepInv, KeptStep DEF FileInv
<1>2. CASE Fill
  <2>1. ~Written'
    BY <1>2, FillUnwritten DEF Written
  <2> QED BY <1>1, <2>1 DEF FileInv, RegionsApart, HeadersFindBytes
<1>3. CASE WriteFile
  BY <1>1, <1>3, WrittenApart DEF FileInv
<1>4. CASE UNCHANGED <<vars, file>>
  <2>1. UNCHANGED <<phase, format, section, segments, memory, file>>
    BY <1>4 DEF vars
  <2>2. RegionsApart'
    BY <2>1 DEF FileInv, RegionsApart, Written, CoffHasRoom, Coff, Elf
  <2>3. \A s : DataAt(s)' = DataAt(s)
    BY <2>1, DataRead, DataReadNext
  <2>4. HeadersFindBytes'
    BY <2>1, <2>3 DEF FileInv, HeadersFindBytes, Written, CoffHasRoom, Given, Coff, Elf
  <2> QED BY <1>1, <2>2, <2>4 DEF FileInv
<1> QED BY <1>2, <1>3, <1>4 DEF ObjectNext, Done
-----------------------------------------------------------------------------
(***************************************************************************)
(* What generation keeps of the words of an ELF file: the addend in the    *)
(* relocation, and the bytes of the addend where the word goes.  Those not *)
(* put out yet are in the queue.                                           *)
(***************************************************************************)
FieldFor(r, t) == Field(AddendFor(r), r.size, OrderOf(t))

(* The byte for address a is in the memory, or waits for its turn.         *)
ByteHeld(m, next, q, a, v) ==
  \/ a < next /\ a \in DOMAIN m /\ m[a] = v
  \/ a - next + 1 \in DOMAIN q /\ q[a - next + 1] = v

BytesHeld(r, m, next, q, t) ==
  \A k \in 1 .. r.size \div 8 :
    ByteHeld(m, next, q, r.offset + k - 1, FieldFor(r, t)[k])

RelocationHeld(r, m, next, q, t, f) ==
  /\ r.offset \in Nat /\ r.size \in Nat /\ r.addend = AddendFor(r)
  /\ ~Rela(t, f) => BytesHeld(r, m, next, q, t)

SectionHeld(sec, m, q, t, f) ==
  ~sec.zero =>
    \A i \in DOMAIN sec.relocations :
      RelocationHeld(sec.relocations[i], m, sec.current_address, q, t, f)

Pending(s) == IF s = current_section THEN queue ELSE <<>>

WordsHeld ==
  format \in Elf /\ WordsInOrder =>
    \A s \in DOMAIN section :
      SectionHeld(section[s], memory[s], Pending(s), target, format)

(* What nothing waits for is held whatever waits.                          *)
LEMMA HeldWhateverWaits ==
  ASSUME NEW sec, NEW m, NEW q, NEW t, NEW f, SectionHeld(sec, m, <<>>, t, f)
  PROVE  SectionHeld(sec, m, q, t, f)
<1>1. \A next, a, v : ByteHeld(m, next, <<>>, a, v) => ByteHeld(m, next, q, a, v)
  <2>1. DOMAIN <<>> = {}
    OBVIOUS
  <2> QED BY <2>1 DEF ByteHeld
<1>2. \A r, next : BytesHeld(r, m, next, <<>>, t) => BytesHeld(r, m, next, q, t)
  BY <1>1 DEF BytesHeld
<1> QED BY <1>2 DEF SectionHeld, RelocationHeld

(* The byte at the head of what waits goes where the section is.           *)
LEMMA ByteComes ==
  ASSUME NEW m, NEW next \in Nat, NEW q \in Seq(0 .. 255), q # <<>>, NEW a \in Nat, NEW v,
         ByteHeld(m, next, q, a, v)
  PROVE  ByteHeld(MemoryWith(m, next, Head(q)), next + 1, Tail(q), a, v)
<1> DEFINE more == MemoryWith(m, next, Head(q))
<1>1. \A b \in DOMAIN m \cup {next} : b \in DOMAIN more /\ more[b] = IF b = next THEN Head(q) ELSE m[b]
  BY DEF MemoryWith
<1> HIDE DEF more
<1>2. CASE a < next /\ a \in DOMAIN m /\ m[a] = v
  <2>1. a # next /\ a < next + 1
    BY <1>2
  <2> QED BY <1>1, <1>2, <2>1 DEF ByteHeld, more
<1>3. ASSUME NEW j, j = a - next + 1, j \in DOMAIN q, q[j] = v
      PROVE  ByteHeld(more, next + 1, Tail(q), a, v)
  <2>1. j \in 1 .. Len(q) /\ Len(q) \in Nat /\ Head(q) = q[1]
    BY <1>3
  <2>2. CASE j = 1
    <3>1. a = next /\ a < next + 1
      BY <1>3, <2>2
    <3> QED BY <1>1, <1>3, <2>1, <2>2, <3>1 DEF ByteHeld
  <2>3. CASE j # 1
    <3>1. j - 1 \in 1 .. Len(q) - 1 /\ (j - 1) + 1 = j
      BY <2>1, <2>3
    <3>2. j - 1 \in DOMAIN Tail(q) /\ Tail(q)[j - 1] = q[j]
      BY <2>1, <3>1
    <3>3. a - (next + 1) + 1 = j - 1
      BY <1>3
    <3> QED BY <1>3, <3>2, <3>3 DEF ByteHeld
  <2> QED BY <2>2, <2>3
<1> QED BY <1>2, <1>3 DEF ByteHeld, more

(* So a byte put out keeps the words of its section.                       *)
LEMMA SectionByteComes ==
  ASSUME NEW sec, SectionType(sec), NEW m, NEW q \in Seq(0 .. 255), q # <<>>, NEW t, NEW f,
         ~sec.zero, SectionHeld(sec, m, q, t, f), NEW x, x.relocations = sec.relocations,
         x.current_address = sec.current_address + 1
  PROVE  SectionHeld(x, MemoryWith(m, sec.current_address, Head(q)), Tail(q), t, f)
<1> DEFINE next == sec.current_address
           more == MemoryWith(m, next, Head(q))
<1>1. next \in Nat
  BY DEF SectionType
<1> HIDE DEF next, more
<1>2. \A a \in Nat : \A v : ByteHeld(m, next, q, a, v) => ByteHeld(more, next + 1, Tail(q), a, v)
  BY <1>1, ByteComes DEF more
<1>3. ASSUME NEW r, RelocationHeld(r, m, next, q, t, f)
      PROVE  RelocationHeld(r, more, next + 1, Tail(q), t, f)
  <2>1. \A k \in 1 .. r.size \div 8 : r.offset + k - 1 \in Nat
    BY <1>3 DEF RelocationHeld
  <2>2. BytesHeld(r, m, next, q, t) => BytesHeld(r, more, next + 1, Tail(q), t)
    BY <1>2, <2>1 DEF BytesHeld
  <2> QED BY <1>3, <2>2 DEF RelocationHeld
<1>4. x.current_address = next + 1
  BY DEF next
<1>5. \A i \in DOMAIN sec.relocations :
        RelocationHeld(sec.relocations[i], m, next, q, t, f)
  BY DEF SectionHeld, next
<1>6. SectionHeld(x, more, Tail(q), t, f)
  BY <1>3, <1>4, <1>5 DEF SectionHeld
<1> QED BY <1>6 DEF more, next

(* Sections that stay as they are, with nothing waiting or the same.       *)
LEMMA WordsStay ==
  ASSUME WordsHeld, target' = target, format' = format,
         \A s \in DOMAIN section' :
           ~section'[s].zero /\ section'[s].relocations # <<>> =>
             /\ s \in DOMAIN section
             /\ ~section[s].zero /\ section'[s].relocations = section[s].relocations
             /\ section'[s].current_address = section[s].current_address
             /\ memory'[s] = memory[s]
             /\ Pending(s)' = Pending(s) \/ Pending(s) = <<>>
  PROVE  WordsHeld'
<1>1. (WordsInOrder)' = WordsInOrder
  BY DEF WordsInOrder
<1> SUFFICES ASSUME format \in Elf, WordsInOrder, NEW s \in DOMAIN section'
             PROVE  SectionHeld(section'[s], memory'[s], Pending(s)', target, format)
  BY <1>1 DEF WordsHeld, Elf
<1>2. CASE section'[s].zero \/ section'[s].relocations = <<>>
  <2>1. DOMAIN <<>> = {}
    OBVIOUS
  <2> QED BY <1>2, <2>1 DEF SectionHeld
<1>3. CASE ~section'[s].zero /\ section'[s].relocations # <<>>
  <2>1. SectionHeld(section[s], memory[s], Pending(s), target, format)
    BY <1>3 DEF WordsHeld
  <2>2. SectionHeld(section[s], memory[s], Pending(s)', target, format)
    BY <1>3, <2>1, HeldWhateverWaits
  <2> QED BY <1>3, <2>2 DEF SectionHeld
<1> QED BY <1>2, <1>3

LEMMA WordsInit == Init => WordsHeld
  BY DEF Init, WordsHeld

(* A new section has no words.                                             *)
LEMMA WordsDeclare == ObjInv /\ WordsHeld /\ Declare => WordsHeld'
<1> SUFFICES ASSUME ObjInv, WordsHeld, Declare PROVE WordsHeld'
  OBVIOUS
<1> DEFINE x == NewSection(Head(directives))
<1>1. /\ target' = target /\ format' = format /\ UNCHANGED <<current_section, queue>>
      /\ section' = section \/ section' = Append(section, x)
      /\ memory' = IF Len(section') = Len(section) THEN memory ELSE Append(memory, <<>>)
      /\ x.relocations = <<>>
  BY DEF Declare, LocateSection, NewSection
<1>2. IsSeq(section) /\ IsSeq(memory) /\ Len(memory) = Len(section)
  BY DEF ObjInv, Sound
<1>3. DOMAIN memory = DOMAIN section
  BY <1>2, SeqIsFunction
<1> HIDE DEF x
<1>4. /\ DOMAIN Append(section, x) = DOMAIN section \cup {Len(section) + 1}
      /\ Append(section, x)[Len(section) + 1] = x
      /\ \A s \in DOMAIN section : /\ Append(section, x)[s] = section[s]
                                   /\ Append(memory, <<>>)[s] = memory[s]
  BY <1>2, <1>3, SeqAppend
<1>5. \A s \in DOMAIN section : memory'[s] = memory[s] /\ section'[s] = section[s]
  BY <1>1, <1>4
<1>6. \A s \in DOMAIN section' : section'[s].relocations # <<>> => s \in DOMAIN section
  BY <1>1, <1>4
<1>7. \A s : Pending(s)' = Pending(s)
  BY <1>1 DEF Pending
<1> QED BY <1>1, <1>5, <1>6, <1>7, WordsStay

(* Nothing waits when an item starts, so it may leave anything waiting.    *)
LEMMA NothingPending ==
  ASSUME queue = <<>>
  PROVE  \A s : Pending(s) = <<>>
  BY DEF Pending

LEMMA WordsIdle ==
  ASSUME WordsHeld, UNCHANGED <<target, format, section, memory>>,
         queue = <<>> \/ UNCHANGED <<queue, current_section>>
  PROVE  WordsHeld'
<1>1. \A s : Pending(s)' = Pending(s) \/ Pending(s) = <<>>
  BY NothingPending DEF Pending
<1> QED BY <1>1, WordsStay

LEMMA WordsSkip ==
  ASSUME NEW count \in Skips, ObjInv, WordsHeld, OutputSkip(count)
  PROVE  WordsHeld'
<1> DEFINE c == current_section
           sec == section[c]
           size == sec.full_size + count
           x == [sec EXCEPT !.full_size = size]
<1>1. /\ queue = <<>> /\ UNCHANGED <<target, format, memory>> /\ c \in DOMAIN section
      /\ format \in Elf => section' = IF sec.zero THEN [section EXCEPT ![c] = x] ELSE section
  BY DEF OutputSkip, StartsItem, Keep, Here, Elf, Moving
<1>2. IsSeq(section) /\ SectionType(sec)
  BY <1>1 DEF ObjInv, Sound, SectionSound
<1>3. CASE format \notin Elf
  BY <1>1, <1>3 DEF WordsHeld, Elf
<1>4. CASE format \in Elf /\ ~sec.zero
  <2>1. section' = section
    BY <1>1, <1>4
  <2> QED BY <1>1, <2>1, WordsIdle
<1>5. CASE format \in Elf /\ sec.zero
  <2>1. x.zero = sec.zero
    <3> HIDE DEF sec, size
    <3> QED BY <1>2, FieldsKept
  <2> HIDE DEF x
  <2>2. /\ DOMAIN section' = DOMAIN section
        /\ \A s \in DOMAIN section : section'[s] = IF s = c THEN x ELSE section[s]
    BY <1>1, <1>2, <1>5, SeqExcept
  <2>3. \A s \in DOMAIN section' :
          ~section'[s].zero => s \in DOMAIN section /\ section'[s] = section[s]
    BY <1>5, <2>1, <2>2
  <2> QED BY <1>1, <2>3, NothingPending, WordsStay
<1> QED BY <1>3, <1>4, <1>5

(* A byte put out is where the word wants it.                              *)
LEMMA WordsByte == ObjInv /\ WordsHeld /\ OutputByte => WordsHeld'
<1> SUFFICES ASSUME ObjInv, WordsHeld, OutputByte PROVE WordsHeld'
  OBVIOUS
<1> DEFINE c == current_section
           byte == Head(queue)
           sec == section[c]
           x == AppendByte(sec, byte)
           y == MemoryWith(memory[c], sec.current_address, byte)
<1>1. /\ c \in DOMAIN section /\ byte \in 0 .. 255 /\ Here = sec
      /\ section' = [section EXCEPT ![c] = x] /\ queue \in Seq(0 .. 255) /\ queue # <<>>
  <2>1. queue # <<>> /\ queue \in Seq(0 .. 255)
    BY DEF ObjInv, OutputByte
  <2> QED BY <2>1, HeadAndTail DEF ObjInv, OutputByte, Here
<1>2. /\ UNCHANGED <<target, format, current_section>> /\ queue' = Tail(queue)
      /\ memory' = IF sec.zero THEN memory ELSE [memory EXCEPT ![c] = y]
  BY <1>1 DEF OutputByte, Keep, MemoryWith
<1>3. /\ IsSeq(section) /\ IsSeq(memory) /\ Len(memory) = Len(section)
      /\ SectionType(sec) /\ sec.zero \in BOOLEAN /\ c \in DOMAIN memory
  <2>1. IsSeq(section) /\ IsSeq(memory) /\ Len(memory) = Len(section) /\ SectionType(sec)
    BY <1>1 DEF ObjInv, Sound, SectionSound
  <2> QED BY <1>1, <2>1, SeqIsFunction DEF SectionType
<1>4. /\ DOMAIN section' = DOMAIN section
      /\ \A s \in DOMAIN section : section'[s] = IF s = c THEN x ELSE section[s]
  BY <1>1, <1>3, SeqExcept
<1>5. CASE sec.zero = TRUE
  <2>1. x = sec
    BY <1>5 DEF AppendByte
  <2> HIDE DEF x, sec
  <2>2. \A s \in DOMAIN section' :
          ~section'[s].zero => /\ s \in DOMAIN section /\ section'[s] = section[s]
                               /\ s # c
    BY <1>4, <1>5, <2>1 DEF sec
  <2>3. \A s : s # c => Pending(s) = <<>>
    BY DEF Pending
  <2>4. memory' = memory
    BY <1>2, <1>5
  <2> QED BY <1>2, <2>2, <2>3, <2>4, WordsStay
<1>6. CASE sec.zero = FALSE
  <2>1. x.relocations = sec.relocations /\ x.current_address = sec.current_address + 1
    <3> DEFINE next == sec.current_address + 1
               more == NewBlocks(sec.blocks, sec.current_address, byte)
               size == NewSize(more, sec.full_size)
    <3>1. x = [sec EXCEPT !.blocks = more, !.current_address = @ + 1, !.full_size = size]
      BY <1>6, Zenon DEF AppendByte, NewBlocks, NewSize
    <3> HIDE DEF x, more, size
    <3>2. x = [sec EXCEPT !.blocks = more, !.current_address = next, !.full_size = size]
      BY <3>1
    <3> HIDE DEF next, sec
    <3>3. x.relocations = sec.relocations /\ x.current_address = next
      BY <1>3, <3>2, FieldsKept
    <3> QED BY <3>3 DEF next
  <2>2. \A s \in DOMAIN section : memory'[s] = IF s = c THEN y ELSE memory[s]
    <3>1. DOMAIN memory = DOMAIN section /\ memory' = [memory EXCEPT ![c] = y]
      BY <1>2, <1>3, <1>6, SeqIsFunction
    <3> HIDE DEF y
    <3> QED BY <1>3, <3>1, SeqExcept
  <2> SUFFICES ASSUME format \in Elf, WordsInOrder, NEW s \in DOMAIN section
               PROVE  SectionHeld(section'[s], memory'[s], Pending(s)', target, format)
    BY <1>2, <1>4 DEF WordsHeld, Elf, WordsInOrder
  <2>3. SectionHeld(section[s], memory[s], Pending(s), target, format)
    BY DEF WordsHeld
  <2>4. CASE s # c
    <3>1. Pending(s)' = Pending(s)
      BY <1>2, <2>4 DEF Pending
    <3> QED BY <1>4, <2>2, <2>3, <2>4, <3>1
  <2>5. CASE s = c
    <3>1. Pending(s) = queue /\ Pending(s)' = Tail(queue)
      BY <1>2, <2>5 DEF Pending
    <3>2. SectionHeld(sec, memory[c], queue, target, format) /\ ~sec.zero
      BY <1>6, <2>3, <2>5, <3>1
    <3> HIDE DEF x, sec
    <3>3. SectionHeld(x, MemoryWith(memory[c], sec.current_address, Head(queue)), Tail(queue),
                      target, format)
      BY <1>1, <1>3, <2>1, <3>2, SectionByteComes
    <3> QED BY <1>4, <2>2, <2>5, <3>1, <3>3
  <2> QED BY <2>4, <2>5
<1> QED BY <1>3, <1>5, <1>6

(* The bias makes the value of a distance its addend: what is counted from *)
(* the byte after the word is the end of the block, where the word starts. *)
LEMMA ValueIsAddend ==
  ASSUME NEW sec, NEW m, SectionSound(sec, m), OneBlock(sec), format \in Elf, ~sec.zero,
         NEW ref, ref.value \in Int, NEW size \in Nat, NEW pcrel, pcrel => sec.blocks # <<>>,
         NEW relocation, relocation.var = ref, relocation.size = size,
         relocation.pc_relative = pcrel
  PROVE  (IF pcrel THEN ref.value - (sec.current_address + size \div 8) ELSE ref.value)
         + (IF pcrel THEN Bias(sec, ref, size) ELSE 0) = AddendFor(relocation)
<1> DEFINE next == sec.current_address
           value == ref.value
<1>1. next \in Nat
  BY DEF SectionSound, SectionType
<1>2. AddendFor(relocation) = value - (IF pcrel THEN size \div 8 ELSE 0)
  BY DEF AddendFor
<1>3. CASE pcrel
  <2>1. Bias(sec, ref, size) = CurrentOffset(sec)
    <3>1. /\ format \notin {"omf80", "omf86"} /\ format # "coff" /\ format \notin Windows
          /\ format \in {"elf32", "elf64"}
      BY DEF Elf, Windows
    <3> QED BY <3>1 DEF Bias
  <2>2. CurrentOffset(sec) = next
    BY <1>3 DEF OneBlock, CurrentOffset
  <2>3. size \div 8 \in Nat /\ value \in Int
    OBVIOUS
  <2> HIDE DEF next, value
  <2>4. (value - (next + size \div 8)) + next = value - size \div 8
    BY <1>1, <2>3
  <2> QED BY <1>2, <1>3, <2>1, <2>2, <2>4 DEF next, value
<1>4. CASE ~pcrel
  BY <1>2, <1>4
<1> QED BY <1>3, <1>4

(* A word adds a relocation with its addend, and its bytes wait.           *)
LEMMA WordsWord ==
  ASSUME ObjInv, Kept, WordsHeld, NEW ref \in References[target], NEW w \in Words[target],
         OutputWord(ref, w[1], w[2], w[3])
  PROVE  WordsHeld'
<1> DEFINE c == current_section
           sec == section[c]
           size == w[1]
           pcrel == w[2]
           next == sec.current_address + size \div 8
           relocated == NeedsRelocation(ref, pcrel)
           value == (IF pcrel THEN ref.value - next ELSE ref.value)
                    + (IF pcrel /\ relocated THEN Bias(sec, ref, size) ELSE 0)
           left == IF relocated THEN Residue(value) ELSE value
           relocation == [offset |-> sec.current_address, size |-> size,
                          pc_relative |-> pcrel, var |-> ref, addend |-> value,
                          segment |-> ref.segment, wrt_section |-> ref.wrt,
                          hint |-> ref.hint]
           list == Append(sec.relocations, relocation)
           x == [sec EXCEPT !.relocations = list]
<1>1. /\ c \in DOMAIN section /\ queue = <<>> /\ (pcrel => fresh)
      /\ UNCHANGED <<target, format, current_section, memory>>
      /\ queue' = Field(left, size, w[3])
      /\ section' = IF relocated THEN [section EXCEPT ![c] = x] ELSE section
  BY DEF OutputWord, StartsItem, Keep, Here
<1>2. ref.value \in Int /\ size \in Nat
  BY ObjectAssumption DEF ObjInv
<1>3. IsSeq(section) /\ SectionSound(sec, memory[c]) /\ SectionType(sec)
  BY <1>1 DEF ObjInv, Sound, SectionSound
<1>4. CASE format \notin Elf \/ ~WordsInOrder
  BY <1>1, <1>4 DEF WordsHeld, WordsInOrder, Elf
<1>5. CASE ~relocated
  BY <1>1, <1>5, WordsIdle
<1>6. CASE format \in Elf /\ WordsInOrder /\ relocated
  <2>1. /\ x.zero = sec.zero /\ x.relocations = list
        /\ x.current_address = sec.current_address
    <3> HIDE DEF sec, list
    <3> QED BY <1>3, FieldsKept
  <2>2. SectionKept(sec, memory[c], format) /\ OneBlock(sec) /\ IsSeq(sec.relocations)
    <3>1. SectionKept(sec, memory[c], format) /\ format \notin Moving
      BY <1>1, <1>6 DEF Kept, AllKept, Elf, Moving
    <3> QED BY <3>1 DEF SectionKept, Attributes
  <2>3. /\ relocation.var = ref /\ relocation.size = size /\ relocation.pc_relative = pcrel
        /\ relocation.offset = sec.current_address /\ relocation.addend = value
        /\ sec.current_address \in Nat
    BY <1>3 DEF SectionType
  <2>4. pcrel => sec.blocks # <<>>
    BY <1>1 DEF ObjInv
  <2>5. /\ \A i \in DOMAIN sec.relocations : list[i] = sec.relocations[i]
        /\ DOMAIN list = DOMAIN sec.relocations \cup {Len(sec.relocations) + 1}
        /\ list[Len(sec.relocations) + 1] = relocation
    <3> DEFINE old == sec.relocations
    <3>1. IsSeq(old)
      BY <2>2
    <3> HIDE DEF relocation, old
    <3>2. /\ \A i \in DOMAIN old : Append(old, relocation)[i] = old[i]
          /\ DOMAIN Append(old, relocation) = DOMAIN old \cup {Len(old) + 1}
          /\ Append(old, relocation)[Len(old) + 1] = relocation
      BY <3>1, SeqAppend
    <3> QED BY <3>2 DEF old
  <2>6. ASSUME ~sec.zero PROVE value = AddendFor(relocation)
    <3> HIDE DEF relocation, sec, pcrel, size
    <3> QED BY <1>2, <1>3, <1>6, <2>2, <2>3, <2>4, <2>6, ValueIsAddend
  <2>7. w[3] = OrderOf(target)
    BY <1>6 DEF WordsInOrder
  <2>8. section' = [section EXCEPT ![c] = x]
    BY <1>1, <1>6
  <2>9. ~Rela(target, format) => left = value
    BY <1>6 DEF Residue, Elf
  <2>10. queue' = Field(left, size, w[3])
    BY <1>1
  <2> HIDE DEF x, list, relocation, value, left, relocated
  <2>11. /\ DOMAIN section' = DOMAIN section
         /\ \A s \in DOMAIN section : section'[s] = IF s = c THEN x ELSE section[s]
    BY <1>1, <1>3, <2>8, SeqExcept
  <2>12. ASSUME ~sec.zero
         PROVE  RelocationHeld(relocation, memory[c], sec.current_address, queue',
                               target, format)
    <3>1. AddendFor(relocation) = value
      BY <2>6, <2>12
    <3>2. relocation.addend = AddendFor(relocation)
      BY <2>3, <3>1
    <3>3. ASSUME ~Rela(target, format), NEW k \in 1 .. size \div 8
          PROVE  ByteHeld(memory[c], sec.current_address, queue', sec.current_address + k - 1,
                          FieldFor(relocation, target)[k])
      <4>1. queue' = FieldFor(relocation, target)
        BY <2>3, <2>7, <2>9, <2>10, <3>1, <3>3 DEF FieldFor
      <4>2. k \in DOMAIN queue'
        BY <2>10 DEF Field
      <4> DEFINE at == sec.current_address
      <4>3. ((at + k - 1) - at) + 1 = k
        <5>1. at \in Nat
          BY <2>3
        <5> HIDE DEF at
        <5> QED BY <5>1
      <4> HIDE DEF at
      <4>4. ByteHeld(memory[c], at, queue', at + k - 1, FieldFor(relocation, target)[k])
        BY <4>1, <4>2, <4>3 DEF ByteHeld
      <4> QED BY <4>4 DEF at
    <3>4. ~Rela(target, format) =>
            BytesHeld(relocation, memory[c], sec.current_address, queue', target)
      BY <2>3, <3>3 DEF BytesHeld
    <3> QED BY <1>2, <2>3, <3>2, <3>4 DEF RelocationHeld
  <2> SUFFICES ASSUME NEW s \in DOMAIN section
               PROVE  SectionHeld(section'[s], memory[s], Pending(s)', target, format)
    BY <1>1, <2>11 DEF WordsHeld
  <2>13. Pending(s) = <<>>
    BY <1>1, NothingPending
  <2>14. SectionHeld(section[s], memory[s], Pending(s)', target, format)
    <3>1. SectionHeld(section[s], memory[s], <<>>, target, format)
      BY <1>6, <2>13 DEF WordsHeld
    <3> QED BY <3>1, HeldWhateverWaits
  <2>15. CASE s = c
    <3>1. Pending(s)' = queue'
      BY <1>1, <2>15 DEF Pending
    <3>2. \A i \in DOMAIN list : ~sec.zero =>
            RelocationHeld(list[i], memory[c], sec.current_address, queue', target, format)
      <4>1. SectionHeld(sec, memory[c], queue', target, format)
        BY <2>14, <2>15, <3>1
      <4> HIDE DEF sec
      <4> QED BY <2>5, <2>12, <4>1 DEF SectionHeld
    <3>3. SectionHeld(x, memory[c], queue', target, format)
      BY <2>1, <3>2 DEF SectionHeld
    <3> QED BY <2>11, <2>15, <3>1, <3>3
  <2>16. CASE s # c
    BY <2>11, <2>14, <2>16
  <2> QED BY <2>15, <2>16
<1> QED BY <1>4, <1>5, <1>6

LEMMA WordsStep == ObjInv /\ Kept /\ WordsHeld /\ [Next]_vars => WordsHeld'
<1> SUFFICES ASSUME ObjInv, Kept, WordsHeld, [Next]_vars PROVE WordsHeld'
  OBVIOUS
<1>1. CASE Declare
  BY <1>1, WordsDeclare
<1>2. CASE Generate \/ NextSection \/ Write \/ UNCHANGED vars \/ \E b \in Bytes : Byte(b)
  BY <1>2, WordsIdle DEF Generate, NextSection, Write, vars, Byte, StartsItem, Keep
<1>3. CASE OutputByte
  BY <1>3, WordsByte
<1>4. ASSUME NEW r \in References[target], NEW w \in Words[target],
             OutputWord(r, w[1], w[2], w[3])
      PROVE  WordsHeld'
  BY <1>4, WordsWord
<1>5. ASSUME NEW n \in Moves, SetLocation(n) PROVE WordsHeld'
  <2>1. CASE format \in Elf
    <3>1. format \notin Moving
      BY <2>1 DEF Elf, Moving
    <3> QED BY <1>5, <3>1, WordsIdle DEF SetLocation, StartsItem, Keep
  <2>2. CASE format \notin Elf
    BY <1>5, <2>2 DEF WordsHeld, SetLocation, Keep, Elf
  <2> QED BY <2>1, <2>2
<1>6. ASSUME NEW n \in Skips, OutputSkip(n) PROVE WordsHeld'
  BY <1>6, WordsSkip
<1> QED BY <1>1, <1>2, <1>3, <1>4, <1>5, <1>6 DEF Next, Fill, Done

(* What is part of a list.                                                 *)
LEMMA SeqMembers ==
  ASSUME NEW S, NEW q \in Seq(S)
  PROVE  \A j \in 1 .. Len(q) : q[j] \in S
  OBVIOUS

LEMMA SubSeqIs ==
  ASSUME NEW bytes \in Seq(0 .. 255), NEW at \in Nat, NEW n \in Nat, NEW f,
         f = [k \in 1 .. n |-> f[k]],
         \A k \in 1 .. n : at + k \in DOMAIN bytes /\ bytes[at + k] = f[k]
  PROVE  SubSeq(bytes, at + 1, at + n) = f
<1>1. SubSeq(bytes, at + 1, at + n) = [k \in 1 .. n |-> bytes[at + k]]
  <2>1. CASE n = 0
    <3>1. SubSeq(bytes, at + 1, at + n) = <<>>
      BY <2>1
    <3>2. 1 .. n = {}
      BY <2>1
    <3> QED BY <3>1, <3>2
  <2>2. CASE n # 0
    <3>1. n \in 1 .. n /\ at + n \in DOMAIN bytes
      BY <2>2
    <3>2. at + 1 \in 1 .. Len(bytes) + 1 /\ at + n \in (at + 1) - 1 .. Len(bytes)
      BY <2>2, <3>1
    <3>0. \A j \in at + 1 .. at + n : bytes[j] \in 0 .. 255
      <4> SUFFICES ASSUME NEW j \in at + 1 .. at + n PROVE bytes[j] \in 0 .. 255
        OBVIOUS
      <4>1. j \in 1 .. Len(bytes)
        BY <3>2
      <4> QED BY <4>1, SeqMembers
    <3> DEFINE sub == SubSeq(bytes, at + 1, at + n)
    <3>3. sub \in Seq(0 .. 255) /\ Len(sub) = n
      <4>1. (at + n) - (at + 1) + 1 = n /\ at + 1 \in Int /\ at + n \in Int /\ at + 1 <= at + n
        BY <2>2
      <4> QED BY <3>0, <4>1, SubSeqProperties
    <3>4. \A k \in 1 .. n : sub[k] = bytes[at + k]
      <4>1. \A k \in 1 .. n : /\ (at + 1) + k - 1 = at + k
                              /\ k \in 1 .. (at + n) - (at + 1) + 1
        OBVIOUS
      <4> QED BY <3>0, <4>1, SubSeqProperties
    <3> HIDE DEF sub
    <3>5. sub = [k \in 1 .. n |-> sub[k]]
      BY <3>3
    <3>6. sub = [k \in 1 .. n |-> bytes[at + k]]
      BY <3>4, <3>5
    <3> QED BY <3>6 DEF sub
  <2> QED BY <2>1, <2>2
<1> QED BY <1>1

(* When the file is written no byte waits, so the bytes of a section have  *)
(* the fields of its words.                                                *)
LEMMA WordsInBytes ==
  ASSUME ObjInv, Kept, WordsHeld, format \in Elf, WordsInOrder,
         current_section \notin DOMAIN section,
         NEW s \in DOMAIN section, ~section[s].zero,
         NEW i \in DOMAIN section[s].relocations
  PROVE  LET r == section[s].relocations[i]
         IN  /\ r.addend = AddendFor(r)
             /\ ~Rela(target, format) =>
                  SubSeq(BytesFor(s), r.offset + 1, r.offset + r.size \div 8)
                    = FieldFor(r, target)
<1> DEFINE r == section[s].relocations[i]
           bytes == BytesFor(s)
           n == r.size \div 8
           f == FieldFor(r, target)
           next == section[s].current_address
<1>1. RelocationHeld(r, memory[s], next, <<>>, target, format)
  <2>1. queue = <<>>
    BY DEF ObjInv
  <2> QED BY <2>1, NothingPending DEF WordsHeld, SectionHeld
<1>2. r.offset \in Nat /\ r.size \in Nat /\ r.addend = AddendFor(r)
  BY <1>1 DEF RelocationHeld
<1>3. bytes \in Seq(0 .. 255) /\ memory[s] = At(0, bytes)
  <2>1. format \notin Moving
    BY DEF Elf, Moving
  <2> QED BY <2>1, SectionsFit DEF SectionFits
<1>4. ASSUME ~Rela(target, format)
      PROVE  SubSeq(bytes, r.offset + 1, r.offset + n) = f
  <2>1. \A k \in 1 .. n : r.offset + k - 1 \in DOMAIN memory[s]
                          /\ memory[s][r.offset + k - 1] = f[k]
    <3>1. DOMAIN <<>> = {}
      OBVIOUS
    <3> QED BY <1>1, <1>4, <3>1 DEF RelocationHeld, BytesHeld, ByteHeld
  <2>2. n \in Nat
    BY <1>2
  <2>3. f = [k \in 1 .. n |-> f[k]]
    BY DEF FieldFor, Field
  <2>4. At(0, bytes) = [a \in 0 .. Len(bytes) - 1 |-> bytes[a - 0 + 1]]
    BY <1>3 DEF At
  <2> HIDE DEF bytes, n, f
  <2>5. ASSUME NEW k \in 1 .. n
        PROVE  r.offset + k \in DOMAIN bytes /\ bytes[r.offset + k] = f[k]
    <3> DEFINE a == r.offset + k - 1
    <3>1. a \in DOMAIN At(0, bytes) /\ At(0, bytes)[a] = f[k]
      BY <1>3, <2>1
    <3>2. a - 0 + 1 = r.offset + k
      <4> DEFINE o == r.offset
      <4>1. o \in Nat
        BY <1>2
      <4> HIDE DEF o
      <4>2. (o + k - 1) - 0 + 1 = o + k
        BY <2>2, <4>1
      <4> QED BY <4>2 DEF o
    <3> HIDE DEF a, r
    <3>3. a \in 0 .. Len(bytes) - 1 /\ bytes[a - 0 + 1] = f[k]
      BY <2>4, <3>1
    <3>4. a - 0 + 1 \in DOMAIN bytes
      BY <1>3, <3>3
    <3> QED BY <3>2, <3>3, <3>4
  <2> DEFINE o == r.offset
  <2>6. o \in Nat /\ \A k \in 1 .. n : o + k \in DOMAIN bytes /\ bytes[o + k] = f[k]
    BY <1>2, <2>5
  <2> HIDE DEF o
  <2>7. SubSeq(bytes, o + 1, o + n) = f
    BY <1>3, <2>2, <2>3, <2>6, SubSeqIs
  <2> QED BY <2>7 DEF o
<1> QED BY <1>2, <1>4

(***************************************************************************)
(* The sections of an ELF file: each part is there once, and relocations   *)
(* are next to what they are about.                                        *)
(***************************************************************************)
Once(q) == \A i, j \in DOMAIN q : q[i] = q[j] => i = j

Followed(q) ==
  \A i \in DOMAIN q : \A r :
    q[i] = Part("section", r) /\ section[r].relocations # <<>> =>
      i + 1 \in DOMAIN q /\ q[i + 1] = Part("reloc", r)

Arranged(q) == Once(q) /\ Followed(q)

(* One list behind another with other parts.                               *)
LEMMA ArrangedConcat ==
  ASSUME NEW S, NEW u \in Seq(S), NEW v \in Seq(S), Arranged(u), Arranged(v),
         \A i \in DOMAIN u, j \in DOMAIN v : u[i] # v[j]
  PROVE  Arranged(u \o v)
<1> DEFINE m == Len(u)
           n == Len(v)
           w == u \o v
<1>1. /\ m \in Nat /\ n \in Nat /\ DOMAIN u = 1 .. m /\ DOMAIN v = 1 .. n
      /\ DOMAIN w = 1 .. m + n
      /\ \A i \in 1 .. m : w[i] = u[i]
      /\ \A i \in 1 .. n : w[m + i] = v[i]
  OBVIOUS
<1> HIDE DEF m, n, w
<1>0. m \in Nat /\ n \in Nat
  BY <1>1
<1>2. \A i \in DOMAIN w : \/ i \in 1 .. m /\ w[i] = u[i]
                         \/ \E k \in 1 .. n : i = m + k /\ w[i] = v[k]
  <2> TAKE i \in DOMAIN w
  <2>1. CASE i <= m
    BY <1>1, <2>1
  <2>2. CASE i > m
    <3>1. i - m \in 1 .. n /\ m + (i - m) = i
      BY <1>1, <2>2
    <3> QED BY <1>1, <3>1
  <2> QED BY <1>1, <2>1, <2>2
<1>3. Once(w)
  <2> SUFFICES ASSUME NEW i \in DOMAIN w, NEW j \in DOMAIN w, w[i] = w[j] PROVE i = j
    BY DEF Once
  <2>1. CASE i \in 1 .. m /\ w[i] = u[i]
    <3>1. u[i] \notin {v[a] : a \in 1 .. n}
      BY <1>1, <2>1
    <3>2. j \in 1 .. m /\ w[j] = u[j]
      BY <1>2, <2>1, <3>1
    <3> QED BY <1>1, <2>1, <3>2 DEF Arranged, Once
  <2>2. ASSUME NEW k \in 1 .. n, i = m + k, w[i] = v[k] PROVE i = j
    <3>1. v[k] \notin {u[a] : a \in 1 .. m}
      BY <1>1
    <3>2. PICK a \in 1 .. n : j = m + a /\ w[j] = v[a]
      BY <1>2, <2>2, <3>1
    <3>3. k = a
      BY <1>1, <2>2, <3>2 DEF Arranged, Once
    <3> QED BY <2>2, <3>2, <3>3
  <2> QED BY <1>2, <2>1, <2>2
<1>4. Followed(w)
  <2> SUFFICES ASSUME NEW i \in DOMAIN w, NEW r, w[i] = Part("section", r),
                      section[r].relocations # <<>>
               PROVE  i + 1 \in DOMAIN w /\ w[i + 1] = Part("reloc", r)
    BY DEF Followed
  <2>1. CASE i \in 1 .. m /\ w[i] = u[i]
    <3>1. i + 1 \in 1 .. m /\ u[i + 1] = Part("reloc", r)
      BY <1>1, <2>1 DEF Arranged, Followed
    <3> QED BY <1>1, <3>1
  <2>2. ASSUME NEW k \in 1 .. n, i = m + k, w[i] = v[k]
        PROVE  i + 1 \in DOMAIN w /\ w[i + 1] = Part("reloc", r)
    <3>1. k + 1 \in 1 .. n /\ v[k + 1] = Part("reloc", r)
      <4>1. v[k] = Part("section", r) /\ k \in DOMAIN v
        BY <1>1, <2>2
      <4> QED BY <1>1, <4>1 DEF Arranged, Followed
    <3>2. i + 1 = m + (k + 1) /\ i + 1 \in 1 .. m + n
      <4>1. \A x \in Nat : x + 1 \in 1 .. n =>
              (m + x) + 1 = m + (x + 1) /\ (m + x) + 1 \in 1 .. m + n
        BY <1>0
      <4> QED BY <2>2, <3>1, <4>1
    <3> QED BY <1>1, <3>1, <3>2
  <2> QED BY <1>2, <2>1, <2>2
<1> QED BY <1>3, <1>4 DEF Arranged, w

(* The parts a section of the object makes.                                *)
Group(s) ==
  << Part("section", s) >>
  \o (IF section[s].relocations # <<>> THEN << Part("reloc", s) >> ELSE <<>>)
  \o (IF HasBase(s) THEN << Part("base", s) >> ELSE <<>>)

PartsOf(s) == { Part(kind, s) : kind \in {"section", "reloc", "base"} }

LEMMA ShortLists ==
  /\ \A a, b : <<a>> \o <<b>> = <<a, b>>
  /\ \A a, b, c : <<a, b>> \o <<c>> = <<a, b, c>>
  /\ \A a, b : <<a>> \o <<>> = <<a>> /\ <<a, b>> \o <<>> = <<a, b>>
<1>1. ASSUME NEW a, NEW b PROVE <<a>> \o <<b>> = <<a, b>>
  <2> DEFINE S == {a, b}
             u == <<a>> \o <<b>>
             v == <<a, b>>
  <2>1. v \in Seq(S) /\ Len(v) = 2 /\ v[1] = a /\ v[2] = b
    OBVIOUS
  <2>2. <<a>> \in Seq(S) /\ <<b>> \in Seq(S) /\ Len(<<a>>) = 1 /\ Len(<<b>>) = 1
    OBVIOUS
  <2>3. u \in Seq(S) /\ Len(u) = 2 /\ u[1] = a /\ u[2] = b
    BY <2>2
  <2> HIDE DEF S, u, v
  <2>4. \A i \in 1 .. Len(u) : u[i] = v[i]
    BY <2>1, <2>3
  <2> QED BY <2>1, <2>3, <2>4, SeqEqual DEF u, v
<1>2. ASSUME NEW a, NEW b, NEW c PROVE <<a, b>> \o <<c>> = <<a, b, c>>
  <2> DEFINE S == {a, b, c}
             u == <<a, b>> \o <<c>>
             v == <<a, b, c>>
  <2>1. v \in Seq(S) /\ Len(v) = 3 /\ v[1] = a /\ v[2] = b /\ v[3] = c
    OBVIOUS
  <2>2. <<a, b>> \in Seq(S) /\ <<c>> \in Seq(S) /\ Len(<<a, b>>) = 2 /\ Len(<<c>>) = 1
    OBVIOUS
  <2>3. u \in Seq(S) /\ Len(u) = 3 /\ u[1] = a /\ u[2] = b /\ u[3] = c
    BY <2>2
  <2> HIDE DEF S, u, v
  <2>4. \A i \in 1 .. Len(u) : u[i] = v[i]
    BY <2>1, <2>3
  <2> QED BY <2>1, <2>3, <2>4, SeqEqual DEF u, v
<1>3. \A a, b : <<a>> \o <<>> = <<a>> /\ <<a, b>> \o <<>> = <<a, b>>
  OBVIOUS
<1> QED BY <1>1, <1>2, <1>3

LEMMA GroupArranged ==
  ASSUME NEW s \in DOMAIN section
  PROVE  Group(s) \in Seq(PartsOf(s)) /\ Arranged(Group(s))
<1> DEFINE a == Part("section", s)
           b == Part("reloc", s)
           c == Part("base", s)
           S == PartsOf(s)
           R == section[s].relocations # <<>>
           q == Group(s)
<1>1. /\ a.kind = "section" /\ b.kind = "reloc" /\ c.kind = "base"
      /\ a.of = s
      /\ \A r : Part("section", r).of = r /\ Part("section", r).kind = "section"
  BY PartFields DEF Fields
<1>2. a # b /\ a # c /\ b # c
  BY <1>1
<1>3. a \in S /\ b \in S /\ c \in S
  BY DEF PartsOf
<1>4. \A r : /\ a = Part("section", r) => r = s
             /\ b # Part("section", r) /\ c # Part("section", r)
  BY <1>1
<1>5. q = (<<a>> \o (IF R THEN <<b>> ELSE <<>>)) \o (IF HasBase(s) THEN <<c>> ELSE <<>>)
  BY DEF Group
<1> HIDE DEF a, b, c, S, q
<1>6. \/ q = <<a, b, c>> /\ R
      \/ q = <<a, b>> /\ R
      \/ q = <<a, c>> /\ ~R
      \/ q = <<a>> /\ ~R
  <2> HIDE DEF R
  <2>1. CASE R /\ HasBase(s)
    <3>1. q = (<<a>> \o <<b>>) \o <<c>>
      BY <1>5, <2>1
    <3>2. <<a>> \o <<b>> = <<a, b>> /\ <<a, b>> \o <<c>> = <<a, b, c>>
      BY ShortLists
    <3> QED BY <2>1, <3>1, <3>2
  <2>2. CASE R /\ ~HasBase(s)
    <3>1. q = (<<a>> \o <<b>>) \o <<>>
      BY <1>5, <2>2
    <3> QED BY <2>2, <3>1, ShortLists
  <2>3. CASE ~R /\ HasBase(s)
    <3>1. q = (<<a>> \o <<>>) \o <<c>>
      BY <1>5, <2>3
    <3> QED BY <2>3, <3>1, ShortLists
  <2>4. CASE ~R /\ ~HasBase(s)
    <3>1. q = (<<a>> \o <<>>) \o <<>>
      BY <1>5, <2>4
    <3> QED BY <2>4, <3>1, ShortLists
  <2> QED BY <2>1, <2>2, <2>3, <2>4
<1>7. q \in Seq(S)
  <2>1. /\ <<a>> \in Seq(S) /\ <<a, b>> \in Seq(S) /\ <<a, c>> \in Seq(S)
        /\ <<a, b, c>> \in Seq(S)
    BY <1>3
  <2> QED BY <1>6, <2>1
<1>8. Once(q)
  <2>1. Once(<<a>>) /\ Once(<<a, b>>) /\ Once(<<a, c>>) /\ Once(<<a, b, c>>)
    BY <1>2 DEF Once
  <2> QED BY <1>6, <2>1
<1>9. Followed(q)
  <2> SUFFICES ASSUME NEW i \in DOMAIN q, NEW r, q[i] = Part("section", r),
                      section[r].relocations # <<>>
               PROVE  i + 1 \in DOMAIN q /\ q[i + 1] = Part("reloc", r)
    BY DEF Followed
  <2>1. q[i] \in {a, b, c}
    BY <1>6
  <2>2. r = s /\ q[i] = a /\ R /\ Part("reloc", r) = b
    BY <1>4, <2>1 DEF b
  <2>3. CASE q = <<a, b, c>>
    BY <1>2, <2>2, <2>3
  <2>4. CASE q = <<a, b>>
    BY <1>2, <2>2, <2>4
  <2> QED BY <1>6, <2>2, <2>3, <2>4
<1> QED BY <1>7, <1>8, <1>9 DEF Arranged, q, S

LEMMA ElfArranged ==
  ASSUME Fits
  PROVE  Arranged(ElfSections)
<1> DEFINE n == Len(section)
           seqs == [s \in DOMAIN section |-> Group(s)]
           x == Part("symtab", 0)
           y == Part("strtab", 0)
           z == Part("shstrtab", 0)
           V == {Part(kind, s) : kind \in {"section", "reloc", "base"}, s \in DOMAIN section}
           Upto(q, k) == \A i \in DOMAIN q : q[i].of \in 1 .. k
                           /\ q[i].kind \in {"section", "reloc", "base"}
<1>1. n \in Nat /\ DOMAIN section = 1 .. n
  BY SectionsCounted
<1>2. ElfSections = FlattenSeq(seqs) \o <<x, y, z>>
  BY DEF ElfSections, Group
<1>3. \A s \in 1 .. n : Group(s) \in Seq(V) /\ Arranged(Group(s)) /\ Group(s) \in Seq(PartsOf(s))
  <2> TAKE s \in 1 .. n
  <2>1. Group(s) \in Seq(PartsOf(s)) /\ Arranged(Group(s))
    BY <1>1, GroupArranged
  <2>2. PartsOf(s) \subseteq V
    BY <1>1 DEF PartsOf
  <2> HIDE DEF V
  <2>3. \A q \in Seq(PartsOf(s)) : q \in Seq(V)
    BY <2>2
  <2> QED BY <2>1, <2>3
<1>4. seqs \in Seq(Seq(V)) /\ Len(seqs) = n /\ \A s \in 1 .. n : seqs[s] = Group(s)
  <2>1. seqs = [s \in 1 .. n |-> Group(s)]
    BY <1>1
  <2> HIDE DEF V, seqs
  <2> QED BY <1>1, <1>3, <2>1
<1> HIDE DEF seqs, V
<1>5. PICK h \in [0 .. n -> Seq(V)] : /\ FlattenSeq(seqs) = h[n] /\ h[0] = <<>>
                                      /\ \A i \in 1 .. n : h[i] = h[i - 1] \o seqs[i]
  <2>1. \E h \in [0 .. Len(seqs) -> Seq(V)] :
          /\ FlattenSeq(seqs) = h[Len(seqs)]
          /\ h[0] = <<>>
          /\ \A i \in 1 .. Len(seqs) : h[i] = h[i - 1] \o seqs[i]
    <3>1. seqs \in Seq(Seq(V))
      BY <1>4
    <3> QED BY <3>1, FlattenRun
  <2>2. Len(seqs) = n
    BY <1>4
  <2> QED BY <2>1, <2>2
<1>6. /\ FlattenSeq(seqs) = h[n] /\ h[0] = <<>>
      /\ \A i \in 1 .. n : h[i] = h[i - 1] \o Group(i)
  BY <1>4, <1>5
<1> DEFINE Good(k) == Arranged(h[k]) /\ Upto(h[k], k)
           S == {k \in Nat : k <= n => Good(k)}
<1>7. 0 \in S
  <2>1. DOMAIN h[0] = {}
    BY <1>6
  <2> QED BY <2>1 DEF Arranged, Once, Followed
<1>8. \A k \in Nat : k \in S => k + 1 \in S
  <2> SUFFICES ASSUME NEW k \in Nat, k + 1 <= n, Good(k) PROVE Good(k + 1)
    OBVIOUS
  <2> DEFINE u == h[k]
             j == k + 1
             v == Group(j)
  <2>1. j \in 1 .. n /\ j - 1 = k /\ k \in 0 .. n
    BY <1>1
  <2>2. h[j] = u \o v
    <3> HIDE DEF j, Good
    <3>1. h[j] = h[j - 1] \o Group(j)
      BY <1>6, <2>1
    <3> QED BY <2>1, <3>1
  <2>3. u \in Seq(V) /\ v \in Seq(V) /\ Arranged(u) /\ Arranged(v) /\ Upto(u, k)
        /\ v \in Seq(PartsOf(j))
    <3> HIDE DEF j, Upto
    <3> QED BY <1>3, <2>1
  <2>4. \A i \in DOMAIN v : v[i].of = j /\ v[i].kind \in {"section", "reloc", "base"}
    <3>1. \A p \in PartsOf(j) : p.of = j /\ p.kind \in {"section", "reloc", "base"}
      BY PartFields DEF PartsOf, Fields
    <3> HIDE DEF v, j
    <3>2. \A i \in DOMAIN v : v[i] \in PartsOf(j)
      BY <2>3
    <3> QED BY <3>1, <3>2
  <2> HIDE DEF u, v
  <2>5. \A i \in DOMAIN u, l \in DOMAIN v : u[i] # v[l]
    BY <2>3, <2>4
  <2>6. Arranged(u \o v)
    BY <2>3, <2>5, ArrangedConcat
  <2>7. Upto(u \o v, j)
    <3> SUFFICES ASSUME NEW i \in DOMAIN (u \o v)
                 PROVE  /\ (u \o v)[i].of \in 1 .. j
                        /\ (u \o v)[i].kind \in {"section", "reloc", "base"}
      OBVIOUS
    <3> DEFINE e == (u \o v)[i]
    <3>1. e \in {u[l] : l \in DOMAIN u} \cup {v[l] : l \in DOMAIN v}
      <4>1. CASE i \in DOMAIN u
        <5>1. e = u[i]
          BY <2>3, <4>1
        <5> QED BY <4>1, <5>1
      <4>2. CASE i \notin DOMAIN u
        <5>1. i - Len(u) \in DOMAIN v /\ e = v[i - Len(u)]
          BY <2>3, <4>2
        <5> QED BY <5>1
      <4> QED BY <4>1, <4>2
    <3> HIDE DEF e
    <3>2. \A c \in 1 .. k : c \in 1 .. j
      OBVIOUS
    <3>3. j \in 1 .. j
      BY <2>1
    <3> HIDE DEF j
    <3>4. e.of \in 1 .. j /\ e.kind \in {"section", "reloc", "base"}
      BY <2>3, <2>4, <3>1, <3>2, <3>3
    <3> QED BY <3>4 DEF e
  <2> QED BY <2>2, <2>6, <2>7
<1>9. Good(n)
  <2> HIDE DEF Good
  <2>1. 0 \in S /\ \A k \in Nat : k \in S => k + 1 \in S
    BY <1>7, <1>8 DEF Good
  <2> HIDE DEF S
  <2>2. n \in S
    BY <1>1, <2>1, SetInduction
  <2> QED BY <1>1, <2>2 DEF S
<1> DEFINE tables == <<x, y, z>>
           T == {x, y, z}
           W == V \cup T
<1>10. /\ x.kind = "symtab" /\ y.kind = "strtab" /\ z.kind = "shstrtab"
       /\ \A r : Part("section", r).kind = "section"
  BY PartFields DEF Fields
<1> HIDE DEF x, y, z, Good
<1>11. tables \in Seq(T)
  OBVIOUS
<1>12. Arranged(tables)
  <2>1. x # y /\ x # z /\ y # z
    BY <1>10
  <2>2. Once(tables)
    BY <2>1 DEF Once
  <2>3. \A i \in DOMAIN tables : \A r : tables[i] # Part("section", r)
    BY <1>10
  <2> HIDE DEF tables
  <2>4. Followed(tables)
    BY <2>3 DEF Followed
  <2> QED BY <2>2, <2>4 DEF Arranged
<1>13. \A i \in DOMAIN tables : tables[i].kind \notin {"section", "reloc", "base"}
  BY <1>10
<1>14. h[n] \in Seq(W) /\ tables \in Seq(W)
  <2>1. h[n] \in Seq(V)
    BY <1>1
  <2> HIDE DEF tables, T
  <2> QED BY <1>11, <2>1
<1>15. \A i \in DOMAIN h[n], l \in DOMAIN tables : h[n][i] # tables[l]
  BY <1>9, <1>13 DEF Good
<1>16. Arranged(h[n])
  BY <1>9 DEF Good
<1> DEFINE flat == h[n]
<1> HIDE DEF tables, flat, W
<1>17. Arranged(flat \o tables)
  BY <1>12, <1>14, <1>15, <1>16, ArrangedConcat DEF flat
<1> QED BY <1>2, <1>6, <1>17 DEF tables, flat

(* The relocations of a section are those of the one section that says it  *)
(* is about it.                                                            *)
RelocationsAbout(f, about) ==
  LET i == CHOOSE i \in DOMAIN f.sections :
             f.sections[i].type \in {"REL", "RELA"} /\ f.sections[i].info = about
  IN  RegionIn(f.regions, f.sections[i].offset, f.sections[i].size)

RelocationsIn(f, s) == RelocationsAbout(f, ElfIndex(ElfSections, Part("section", s)))

LEMMA RelocationPart ==
  ASSUME NEW p \in AllParts
  PROVE  PartType(p) \in {"REL", "RELA"} <=> p.kind = "reloc"
<1>1. CASE p.kind = "reloc"
  <2>1. ~NoBits(p)
    BY <1>1 DEF NoBits
  <2> QED BY <1>1, <2>1 DEF PartType
<1>2. CASE p.kind \in {"symtab", "strtab", "shstrtab"}
  <2>1. ~NoBits(p)
    BY <1>2 DEF NoBits
  <2> QED BY <1>2, <2>1 DEF PartType
<1>3. CASE p.kind \in {"section", "base"}
  <2>1. CASE NoBits(p)
    BY <1>3, <2>1 DEF PartType
  <2>2. CASE ~NoBits(p)
    BY <1>3, <2>2 DEF PartType
  <2> QED BY <2>1, <2>2
<1> QED BY <1>1, <1>2, <1>3, PartKinds

LEMMA ElfEntriesFound ==
  ASSUME Fits, NEW s \in DOMAIN section, section[s].relocations # <<>>
  PROVE  RelocationsIn(ElfFile, s)
           = [i \in DOMAIN section[s].relocations |-> ElfRelocation(section[s].relocations[i])]
<1> DEFINE t == ElfTables
           parts == ElfSections
           about == ElfIndex(parts, Part("section", s))
           p == Part("reloc", s)
           layout == ElfLayout(t)
           rs == ElfFile.regions
           headers == ElfFile.sections
           j == about + 1
           found == CHOOSE i \in DOMAIN headers :
                      headers[i].type \in {"REL", "RELA"} /\ headers[i].info = about
           list == section[s].relocations
           entries == [i \in DOMAIN list |-> ElfRelocation(list[i])]
           size == Len(list) * RelocationEntry
<1>1. t.parts = parts /\ parts \in Seq(AllParts) /\ Arranged(parts)
  BY ElfSectionsType, ElfArranged DEF ElfTables
<1>2. about \in DOMAIN parts /\ parts[about] = Part("section", s)
  <2>1. \E i \in DOMAIN parts : parts[i] = Part("section", s)
    BY SectionListed
  <2> HIDE DEF parts
  <2> QED BY <2>1 DEF ElfIndex
<1>3. j \in DOMAIN parts /\ parts[j] = p
  <2> HIDE DEF parts, about, p
  <2> QED BY <1>1, <1>2 DEF Arranged, Followed, p
<1>4. ElfIndex(parts, p) = j
  <2> HIDE DEF parts, about, p, j
  <2>1. \E i \in DOMAIN parts : parts[i] = p
    BY <1>3
  <2>2. ElfIndex(parts, p) \in DOMAIN parts /\ parts[ElfIndex(parts, p)] = p
    BY <2>1 DEF ElfIndex
  <2> QED BY <1>1, <1>3, <2>2 DEF Arranged, Once
<1>5. p.kind = "reloc" /\ p.of = s
  BY PartFields DEF Fields
<1>6. /\ headers = [i \in DOMAIN parts |-> ElfHeader(t, layout, ShstrtabOffsets(parts), i)]
      /\ rs = [q \in ElfParts(parts) |-> ElfRegion(t, layout, q)]
  BY <1>1 DEF ElfFile
<1>7. Placed(rs) /\ Apart(rs)
  BY ElfApart
<1> HIDE DEF t, parts, layout, rs, headers, p
<1>8. \A i \in DOMAIN parts :
        /\ headers[i].type = PartType(parts[i])
        /\ headers[i].offset = layout.at[i] /\ headers[i].size = PartSize(t, parts[i])
        /\ parts[i].kind = "reloc" => headers[i].info = i - 1
  BY <1>1, <1>6 DEF ElfHeader
<1>9. found = j
  <2>1. j \in DOMAIN headers /\ headers[j].type \in {"REL", "RELA"} /\ headers[j].info = about
    <3>1. parts[j] \in AllParts /\ parts[j].kind = "reloc"
      BY <1>1, <1>3, <1>5
    <3>2. about \in Nat
      BY <1>1, <1>2
    <3> HIDE DEF about
    <3>3. headers[j].info = about
      BY <1>3, <1>8, <3>1, <3>2
    <3> HIDE DEF j
    <3> QED BY <1>3, <1>6, <1>8, <3>1, <3>3, RelocationPart
  <2> HIDE DEF about, j
  <2>2. found \in DOMAIN headers /\ headers[found].type \in {"REL", "RELA"}
        /\ headers[found].info = about
    BY <2>1
  <2> HIDE DEF found
  <2>3. found \in DOMAIN parts /\ found \in Nat
    <3>1. found \in DOMAIN parts
      BY <1>6, <2>2
    <3> QED BY <1>1, <3>1
  <2>4. parts[found].kind = "reloc"
    <3>1. parts[found] \in AllParts
      BY <1>1, <2>3
    <3> QED BY <1>8, <2>2, <2>3, <3>1, RelocationPart
  <2>5. found - 1 = about
    BY <1>8, <2>2, <2>3, <2>4
  <2> QED BY <2>3, <2>5 DEF j
<1>10. /\ list # <<>> /\ size \in Nat /\ size # 0
  <2>1. Len(list) \in Nat /\ Len(list) # 0
    <3>1. IsSeq(list)
      BY DEF Fits, SectionFits
    <3> HIDE DEF list
    <3>2. PICK S : list \in Seq(S)
      BY <3>1 DEF IsSeq
    <3> QED BY <3>2 DEF list
  <2>2. RelocationEntry \in {8, 12, 16, 24}
    BY DEF RelocationEntry
  <2> HIDE DEF list
  <2>3. \A a \in Nat : \A b \in {8, 12, 16, 24} : a # 0 => a * b \in Nat /\ a * b # 0
    OBVIOUS
  <2> QED BY <2>1, <2>2, <2>3 DEF list
<1>11. PartSize(t, p) = size /\ PartContent(t, p) = entries /\ PartWritten(t, p) = size
  <2>1. PartSize(t, p) = size
    BY <1>5 DEF PartSize
  <2>2. PartContent(t, p) = entries
    BY <1>5 DEF PartContent
  <2> QED BY <1>5, <2>1, <2>2 DEF PartWritten
<1> HIDE DEF size, entries
<1>12. p \in DOMAIN rs /\ rs[p] = Region(layout.at[j], size, entries)
  <2>1. ~NoBits(p) /\ p \in ToSet(parts)
    BY <1>3, <1>5 DEF NoBits, ToSet
  <2>2. ElfRegion(t, layout, p) = Region(layout.at[j], size, entries)
    BY <1>1, <1>4, <1>5, <1>11 DEF ElfRegion
  <2> QED BY <1>6, <2>1, <2>2 DEF ElfParts
<1>13. headers[j].offset = layout.at[j] /\ headers[j].size = size
  BY <1>3, <1>8, <1>11
<1> HIDE DEF j, found, about
<1>14. rs[p].at = headers[j].offset /\ rs[p].size = headers[j].size /\ rs[p].content = entries
  BY <1>12, <1>13 DEF Region
<1>15. rs[p].size # 0
  BY <1>10, <1>13, <1>14
<1>16. RegionIn(rs, rs[p].at, rs[p].size) = rs[p].content
  BY <1>7, <1>12, <1>15, RegionFound
<1>17. RegionIn(rs, headers[found].offset, headers[found].size) = entries
  BY <1>9, <1>14, <1>16
<1> QED BY <1>17 DEF RelocationsIn, RelocationsAbout, rs, headers, found, about, parts, entries

LEMMA RelocationsRead ==
  ASSUME format \in Elf, NEW s, section[s].relocations # <<>>
  PROVE  RelocationsAt(s) = RelocationsIn(file, s)
<1>1. RelocationsAt(s) = ElfRelocationsOf(s)
  BY DEF RelocationsAt, Elf, Coff
<1>2. ElfRelocationsOf(s) = RelocationsIn(file, s)
  BY DEF ElfRelocationsOf, RelocationsIn, RelocationsAbout, RegionAt, RegionIn
<1> QED BY <1>1, <1>2

LEMMA RelocationsReadNext ==
  ASSUME UNCHANGED <<format, section, segments>>, format \in Elf, NEW s,
         section[s].relocations # <<>>
  PROVE  RelocationsAt(s)' = RelocationsIn(file', s)
<1>1. ElfSections' = ElfSections
  BY DEF ElfSections, HasBase
<1>2. RelocationsAt(s)' = ElfRelocationsOf(s)'
  BY DEF RelocationsAt, Elf, Coff
<1>3. ElfRelocationsOf(s)'
        = RelocationsAbout(file', ElfIndex(ElfSections', Part("section", s)))
  BY DEF ElfRelocationsOf, RelocationsAbout, RegionAt, RegionIn
<1> QED BY <1>1, <1>2, <1>3 DEF RelocationsIn

(* What a linker reads, and where it writes.                               *)
ResolvesIn(f) ==
  \A s \in DOMAIN section : ~section[s].zero =>
    \A i \in DOMAIN section[s].relocations :
      LET r == section[s].relocations[i] IN
      IF Rela(target, format) THEN RelocationsIn(f, s)[i].addend = AddendFor(r)
      ELSE SubSeq(DataIn(f, s), r.offset + 1, r.offset + r.size \div 8) = FieldFor(r, target)

LEMMA ResolvesRead ==
  ASSUME Written, format \in Elf, WordsInOrder, WordsResolve
  PROVE  ResolvesIn(file)
<1> SUFFICES ASSUME NEW s \in DOMAIN section, ~section[s].zero,
                    NEW i \in DOMAIN section[s].relocations
             PROVE  LET r == section[s].relocations[i]
                    IN  IF Rela(target, format) THEN RelocationsIn(file, s)[i].addend = AddendFor(r)
                        ELSE SubSeq(DataIn(file, s), r.offset + 1, r.offset + r.size \div 8)
                               = FieldFor(r, target)
  BY DEF ResolvesIn
<1>1. section[s].relocations # <<>>
  OBVIOUS
<1>2. RelocationsAt(s) = RelocationsIn(file, s) /\ DataAt(s) = DataIn(file, s)
  BY <1>1, RelocationsRead, DataRead
<1> QED BY <1>2 DEF WordsResolve, FieldFor

LEMMA ResolvesReadNext ==
  ASSUME UNCHANGED <<target, format, section, segments>>, ResolvesIn(file') \/ ~WordsInOrder
  PROVE  WordsResolve'
<1>1. WordsInOrder' = WordsInOrder
  BY DEF WordsInOrder
<1> SUFFICES ASSUME format \in Elf, WordsInOrder, NEW s \in DOMAIN section, ~section[s].zero,
                    NEW i \in DOMAIN section[s].relocations
             PROVE  LET r == section[s].relocations[i]
                    IN  IF Rela(target, format) THEN RelocationsAt(s)'[i].addend = AddendFor(r)
                        ELSE SubSeq(DataAt(s)', r.offset + 1, r.offset + r.size \div 8)
                               = FieldFor(r, target)
  BY <1>1 DEF WordsResolve, Elf, AddendFor, FieldFor, Rela, OrderOf
<1>2. section[s].relocations # <<>>
  OBVIOUS
<1>3. RelocationsAt(s)' = RelocationsIn(file', s) /\ DataAt(s)' = DataIn(file', s)
  BY <1>2, RelocationsReadNext, DataReadNext
<1> QED BY <1>3 DEF ResolvesIn

LEMMA WrittenResolves ==
  ASSUME ObjInv, Kept, WordsHeld, WriteFile
  PROVE  WordsResolve'
<1>1. /\ file' = File /\ UNCHANGED <<target, format, section, segments>>
      /\ current_section \notin DOMAIN section
  BY DEF WriteFile, Write
<1>2. CASE format \notin Elf
  BY <1>1, <1>2 DEF WordsResolve, Elf
<1>3. CASE format \in Elf
  <2>1. /\ format # "rel" /\ format # "omf80" /\ format # "omf86"
        /\ format \notin Coff /\ format \notin Moving
    BY <1>3 DEF Coff, Elf, Moving
  <2>2. File = ElfFile
    BY <1>3, <2>1 DEF File
  <2>3. Fits
    BY <2>1, ObjectFits
  <2>4. ASSUME WordsInOrder, NEW s \in DOMAIN section, ~section[s].zero,
               NEW i \in DOMAIN section[s].relocations
        PROVE  LET r == section[s].relocations[i]
               IN  IF Rela(target, format) THEN RelocationsIn(ElfFile, s)[i].addend = AddendFor(r)
                   ELSE SubSeq(DataIn(ElfFile, s), r.offset + 1, r.offset + r.size \div 8)
                          = FieldFor(r, target)
    <3> DEFINE r == section[s].relocations[i]
    <3>1. /\ r.addend = AddendFor(r)
          /\ ~Rela(target, format) =>
               SubSeq(BytesFor(s), r.offset + 1, r.offset + r.size \div 8) = FieldFor(r, target)
      BY <1>1, <1>3, <2>4, WordsInBytes
    <3>2. DataIn(ElfFile, s) = BytesFor(s)
      BY <2>1, <2>3, <2>4, ElfFinds DEF DataIn
    <3>3. Rela(target, format) => RelocationsIn(ElfFile, s)[i].addend = r.addend
      <4>1. section[s].relocations # <<>>
        OBVIOUS
      <4>2. RelocationsIn(ElfFile, s)[i] = ElfRelocation(r)
        BY <2>3, <4>1, ElfEntriesFound
      <4> QED BY <4>2 DEF ElfRelocation
    <3> QED BY <3>1, <3>2, <3>3
  <2>5. WordsInOrder => ResolvesIn(ElfFile)
    BY <2>4 DEF ResolvesIn
  <2> QED BY <1>1, <2>2, <2>5, ResolvesReadNext
<1> QED BY <1>2, <1>3

(* What is said of the words of the file from the step that writes it.     *)
ResolvedInv == ObjInv /\ Kept /\ WordsHeld /\ WordsResolve

LEMMA ResolvedInit == ObjectInit => ResolvedInv
<1> SUFFICES ASSUME ObjectInit PROVE ResolvedInv
  OBVIOUS
<1>1. WordsResolve
  BY DEF ObjectInit, Init, WordsResolve, Written
<1> QED BY <1>1, InitInv, KeptInit, WordsInit DEF ObjectInit, ResolvedInv

LEMMA ResolvedStep == ResolvedInv /\ [ObjectNext]_<<vars, file>> => ResolvedInv'
<1> SUFFICES ASSUME ResolvedInv, [ObjectNext]_<<vars, file>> PROVE ResolvedInv'
  OBVIOUS
<1>1. ObjInv' /\ Kept' /\ WordsHeld'
  <2>1. [Next]_vars
    BY ObjectStep
  <2> QED BY <2>1, StepInv, KeptStep, WordsStep DEF ResolvedInv
<1>2. CASE Fill
  <2>1. ~Written'
    BY <1>2, FillUnwritten DEF Written
  <2> QED BY <1>1, <2>1 DEF ResolvedInv, WordsResolve
<1>3. CASE WriteFile
  BY <1>1, <1>3, WrittenResolves DEF ResolvedInv
<1>4. CASE UNCHANGED <<vars, file>>
  <2>1. UNCHANGED <<phase, target, format, section, segments, file>>
    BY <1>4 DEF vars
  <2>2. CASE Written /\ format \in Elf /\ WordsInOrder
    <3>1. ResolvesIn(file')
      BY <2>1, <2>2, ResolvesRead DEF ResolvedInv
    <3>2. WordsResolve'
      BY <2>1, <3>1, ResolvesReadNext
    <3> QED BY <1>1, <3>2 DEF ResolvedInv
  <2>3. CASE ~(Written /\ format \in Elf /\ WordsInOrder)
    <3>1. WordsResolve'
      BY <2>1, <2>3 DEF WordsResolve, Written, Elf, WordsInOrder
    <3> QED BY <1>1, <3>1 DEF ResolvedInv
  <2> QED BY <2>2, <2>3
<1> QED BY <1>2, <1>3, <1>4 DEF ObjectNext, Done
-----------------------------------------------------------------------------
(* No two parts of a COFF or ELF file share a byte, whatever the object is *)
(* and however its sections were filled (coff_generate, elf_generate).     *)
THEOREM RegionsApartForAll == ObjectSpec => []RegionsApart
<1>1. FileInv => RegionsApart
  BY DEF FileInv
<1> QED BY <1>1, FileInit, FileStep, PTL DEF ObjectSpec

(* What a linker reads where the header of a section of a COFF or ELF file *)
(* says is every byte generation put into the section, from address 0 on:  *)
(* all of it is in the first block (coff_generate, elf_generate).          *)
THEOREM HeadersFindBytesForAll == ObjectSpec => []HeadersFindBytes
<1>1. FileInv => HeadersFindBytes
  BY DEF FileInv
<1> QED BY <1>1, FileInit, FileStep, PTL DEF ObjectSpec

(* The value a linker computes for a word of an ELF file is the one the    *)
(* instruction needs, for every value, width, section and symbol, wherever *)
(* the target puts the addend (output_word_type, elf_generate).            *)
THEOREM WordsResolveForAll == ObjectSpec => []WordsResolve
<1>1. ResolvedInv => WordsResolve
  BY DEF ResolvedInv
<1> QED BY <1>1, ResolvedInit, ResolvedStep, PTL DEF ObjectSpec
=============================================================================
