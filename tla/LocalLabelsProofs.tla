-------------------------- MODULE LocalLabelsProofs -------------------------
(***************************************************************************)
(* For every set of streams: one pass over the stream, with a list of      *)
(* waiting references per number, gives every reference the nearest label  *)
(* in its direction.  LocalLabels implements NearestLabel.                 *)
(***************************************************************************)
EXTENDS LocalLabels, TLAPS

(* A reference is pending while the loop has not reached it, and then only *)
(* while it waits on a list, or when it has no label.                      *)
PendingExact ==
  \A i \in Nearest!References :
    /\ i >= pc => bound[i] = Pending
    /\ i < pc /\ prog[i].op = "forward" =>
         (bound[i] = Pending <=> i \in forwards[prog[i].num])
    /\ i < pc /\ prog[i].op = "backward" /\ Nearest!Answered(i) => bound[i] # Pending

Inv == TypeOK /\ ListsExact /\ LatestExact /\ PendingExact

USE DEF NoLabel, Pending

LEMMA InitInv == Init => Inv
<1> SUFFICES ASSUME Init PROVE Inv
  OBVIOUS
<1>1. prog \in Seq(Items)
  BY StreamsAssumption DEF Init
<1>2. TypeOK
  BY <1>1 DEF TypeOK, Init, Nearest!References, Nearest!Places
<1>3. ListsExact
  <2>1. \A i \in Nearest!References : ~(i < pc)
    BY <1>1 DEF Init, Nearest!References, Nearest!Places
  <2> QED
    BY <2>1 DEF ListsExact, Init
<1>4. LatestExact
  <2>1. \A n \in Numbers : Nearest!Without(n, 1, pc)
    BY <1>1 DEF Init, Nearest!Without, Nearest!Places
  <2> QED
    BY <2>1 DEF LatestExact, Init
<1>5. PendingExact
  BY <1>1 DEF PendingExact, Init, Nearest!References, Nearest!Places
<1> QED
  BY <1>2, <1>3, <1>4, <1>5 DEF Inv

(* What a step of the loop has in common with every other: it goes on by   *)
(* one instruction, and what it passes is a label or it is not.            *)
LEMMA OneOn ==
  ASSUME TypeOK, pc' = pc + 1, prog' = prog, pc <= Len(prog)
  PROVE  /\ pc \in Nearest!Places
         /\ \A n \in Numbers, a \in Int :
              Nearest!Without(n, a, pc)' <=>
                Nearest!Without(n, a, pc) /\ (a <= pc => ~Nearest!Defines(pc, n))
<1>1. pc \in Nearest!Places
  BY DEF TypeOK, Nearest!Places
<1>2. ASSUME NEW n \in Numbers, NEW a \in Int
      PROVE  Nearest!Without(n, a, pc)' <=>
               Nearest!Without(n, a, pc) /\ (a <= pc => ~Nearest!Defines(pc, n))
  <2>1. Nearest!Without(n, a, pc)' <=>
          \A j \in Nearest!Places : a <= j /\ j < pc + 1 => ~Nearest!Defines(j, n)
    BY DEF Nearest!Without, Nearest!Defines, Nearest!Places
  <2>2. \A j \in Nearest!Places : j < pc + 1 <=> j < pc \/ j = pc
    BY DEF TypeOK, Nearest!Places
  <2> QED
    BY <1>1, <2>1, <2>2 DEF Nearest!Without
<1> QED
  BY <1>1, <1>2

LEMMA TypeStep == TypeOK /\ Next => TypeOK'
<1> SUFFICES ASSUME TypeOK, Next PROVE TypeOK'
  OBVIOUS
<1> USE DEF TypeOK, Nearest!References, Nearest!Places
<1>0. \A i \in 1 .. Len(prog) : prog[i] \in Items
  OBVIOUS
<1>1. CASE BindBackward
  BY <1>0, <1>1 DEF BindBackward, Here, Items
<1>2. CASE BindForward
  BY <1>0, <1>2 DEF BindForward, Here, Items
<1>3. CASE Define
  BY <1>0, <1>3 DEF Define, Here, Items, Latest, Waiting, Resolved
<1>4. CASE Visited
  BY <1>4 DEF Visited, vars
<1> QED
  BY <1>1, <1>2, <1>3, <1>4 DEF Next

LEMMA ListsStep == Inv /\ Next => ListsExact'
<1> SUFFICES ASSUME Inv, Next, NEW n \in Numbers
             PROVE  forwards'[n] = {i \in Nearest!References' :
                       /\ i < pc' /\ prog'[i] = [op |-> "forward", num |-> n]
                       /\ Nearest!Without(n, i, pc)'}
  BY DEF ListsExact
<1> DEFINE Refers(i) == prog[i] = [op |-> "forward", num |-> n]
<1> USE DEF Inv
<1>0. forwards[n] = {i \in Nearest!References :
                        i < pc /\ Refers(i) /\ Nearest!Without(n, i, pc)}
  BY DEF ListsExact
<1>1. ASSUME pc' = pc + 1, prog' = prog, pc <= Len(prog)
      PROVE  \A i \in Nearest!References' :
               i < pc' /\ Nearest!Without(n, i, pc)' <=>
                 \/ i < pc /\ Nearest!Without(n, i, pc) /\ ~Nearest!Defines(pc, n)
                 \/ i = pc /\ ~Nearest!Defines(pc, n)
  <2>1. \A i \in Nearest!References : i \in Int /\ Nearest!Without(n, pc, pc)
    BY DEF Nearest!References, Nearest!Places, Nearest!Without, TypeOK
  <2>2. Nearest!References' = Nearest!References
    BY <1>1 DEF Nearest!References, Nearest!Places
  <2>3. \A i \in Nearest!References : i < pc + 1 <=> i < pc \/ i = pc
    BY <2>1 DEF TypeOK
  <2> QED
    BY <1>1, <2>1, <2>2, <2>3, OneOn DEF TypeOK
<1>2. CASE BindBackward
  <2>1. ~Refers(pc) /\ ~Nearest!Defines(pc, n)
    BY <1>2 DEF BindBackward, Here, Nearest!Defines
  <2> QED
    BY <1>0, <1>1, <1>2, <2>1 DEF BindBackward, Here, Nearest!References, Nearest!Places
<1>3. CASE BindForward
  <2>1. ~Nearest!Defines(pc, n) /\ pc \in Nearest!References
    BY <1>3 DEF BindForward, Here, Nearest!Defines, Nearest!References, Nearest!Places, TypeOK
  <2>2. Refers(pc) <=> prog[pc].num = n
    <3>1. prog[pc] \in Items
      BY <2>1 DEF TypeOK, Nearest!References, Nearest!Places
    <3> QED
      BY <1>3, <3>1 DEF BindForward, Here, Items
  <2>3. forwards'[n] = IF prog[pc].num = n THEN forwards[n] \cup {pc} ELSE forwards[n]
    BY <1>3 DEF BindForward, TypeOK
  <2> QED
    BY <1>0, <1>1, <1>3, <2>1, <2>2, <2>3
       DEF BindForward, Here, Nearest!References, Nearest!Places
<1>4. CASE Define
  <2>1. Nearest!Defines(pc, n) <=> prog[pc].num = n
    BY <1>4 DEF Define, Here, Nearest!Defines
  <2>2. ~Refers(pc)
    BY <1>4 DEF Define, Here
  <2>3. forwards'[n] = IF prog[pc].num = n THEN {} ELSE forwards[n]
    BY <1>4 DEF Define, TypeOK, Waiting
  <2> QED
    BY <1>0, <1>1, <1>4, <2>1, <2>2, <2>3
       DEF Define, Here, Nearest!References, Nearest!Places
<1>5. CASE Visited
  BY <1>0, <1>5 DEF Visited, vars, Nearest!References, Nearest!Places, Nearest!Without,
                    Nearest!Defines
<1> QED
  BY <1>2, <1>3, <1>4, <1>5 DEF Next

LEMMA LatestStep == Inv /\ Next => LatestExact'
<1> SUFFICES ASSUME Inv, Next, NEW n \in Numbers
             PROVE  /\ backwards'[n] = NoLabel => Nearest!Without(n, 1, pc)'
                    /\ backwards'[n] # NoLabel =>
                         /\ backwards'[n] < pc'
                         /\ Nearest!Defines(backwards[n], n)'
                         /\ Nearest!Without(n, backwards[n] + 1, pc)'
                         /\ n \in located'
  BY DEF LatestExact
<1> USE DEF Inv
<1>0. /\ backwards[n] \in Int /\ pc \in Int /\ pc >= 1
      /\ backwards[n] = NoLabel => Nearest!Without(n, 1, pc)
      /\ backwards[n] # NoLabel =>
           /\ backwards[n] < pc /\ Nearest!Defines(backwards[n], n)
           /\ Nearest!Without(n, backwards[n] + 1, pc) /\ n \in located
  BY DEF LatestExact, TypeOK, Nearest!Places
<1>1. ASSUME pc' = pc + 1, prog' = prog, pc <= Len(prog)
      PROVE  /\ \A a \in Int : Nearest!Without(n, a, pc)' <=>
                    Nearest!Without(n, a, pc) /\ (a <= pc => ~Nearest!Defines(pc, n))
             /\ \A j : Nearest!Defines(j, n)' <=> Nearest!Defines(j, n)
  BY <1>1, OneOn DEF Nearest!Defines
<1>2. ASSUME pc' = pc + 1, prog' = prog, pc <= Len(prog), ~Nearest!Defines(pc, n),
             backwards'[n] = backwards[n], located \subseteq located'
      PROVE  /\ backwards'[n] = NoLabel => Nearest!Without(n, 1, pc)'
             /\ backwards'[n] # NoLabel =>
                  /\ backwards'[n] < pc'
                  /\ Nearest!Defines(backwards[n], n)'
                  /\ Nearest!Without(n, backwards[n] + 1, pc)'
                  /\ n \in located'
  <2>1. backwards[n] = NoLabel => Nearest!Without(n, 1, pc)'
    BY <1>0, <1>1, <1>2
  <2>2. ASSUME backwards[n] # NoLabel
        PROVE  /\ Nearest!Defines(backwards[n], n)'
               /\ Nearest!Without(n, backwards[n] + 1, pc)'
    <3>1. Nearest!Without(n, backwards[n] + 1, pc)' <=>
            \A j \in Nearest!Places :
              backwards[n] + 1 <= j /\ j < pc + 1 => ~Nearest!Defines(j, n)
      BY <1>2 DEF Nearest!Without, Nearest!Defines, Nearest!Places
    <3>2. \A j \in Nearest!Places : j < pc + 1 <=> j < pc \/ j = pc
      BY DEF TypeOK, Nearest!Places
    <3>3. Nearest!Defines(backwards[n], n)'
      BY <1>0, <1>2, <2>2 DEF Nearest!Defines
    <3> QED
      BY <1>0, <1>2, <2>2, <3>1, <3>2, <3>3 DEF Nearest!Without
  <2> QED
    BY <1>0, <1>2, <2>1, <2>2
<1>3. CASE BindBackward
  <2>1. ~Nearest!Defines(pc, n)
    BY <1>3 DEF BindBackward, Here, Nearest!Defines
  <2> QED
    BY <1>2, <1>3, <2>1 DEF BindBackward, Here
<1>4. CASE BindForward
  <2>1. ~Nearest!Defines(pc, n)
    BY <1>4 DEF BindForward, Here, Nearest!Defines
  <2> QED
    BY <1>2, <1>4, <2>1 DEF BindForward, Here
<1>5. CASE Define
  <2>1. Nearest!Defines(pc, n) <=> prog[pc].num = n
    BY <1>5 DEF Define, Here, Nearest!Defines
  <2>2. CASE prog[pc].num # n
    BY <1>2, <1>5, <2>1, <2>2 DEF Define, Here, TypeOK
  <2>3. CASE prog[pc].num = n
    <3>1. backwards'[n] = pc /\ n \in located'
      BY <1>5, <2>3 DEF Define, TypeOK, Latest
    <3>2. backwards'[n] < pc' /\ backwards'[n] # NoLabel
      BY <1>0, <1>5, <3>1 DEF Define
    <3>3. Nearest!Without(n, backwards[n] + 1, pc)'
      BY <1>0, <1>5, <3>1 DEF Define, Nearest!Without, Nearest!Places, TypeOK
    <3>4. Nearest!Defines(backwards[n], n)'
      BY <1>5, <2>1, <2>3, <3>1 DEF Define, Nearest!Defines
    <3> QED
      BY <3>1, <3>2, <3>3, <3>4
  <2> QED
    BY <2>2, <2>3
<1>6. CASE Visited
  BY <1>0, <1>6 DEF Visited, vars, Nearest!Places, Nearest!Without, Nearest!Defines
<1> QED
  BY <1>3, <1>4, <1>5, <1>6 DEF Next

LEMMA PendingStep == Inv /\ Next => PendingExact'
<1> SUFFICES ASSUME Inv, Next, NEW i \in Nearest!References'
             PROVE  /\ i >= pc' => bound'[i] = Pending
                    /\ i < pc' /\ prog'[i].op = "forward" =>
                         (bound'[i] = Pending <=> i \in forwards'[prog'[i].num])
                    /\ i < pc' /\ prog'[i].op = "backward" /\ Nearest!Answered(i)' =>
                         bound'[i] # Pending
  BY DEF PendingExact
<1> USE DEF Inv
<1>1. prog' = prog
  BY DEF Next, BindBackward, BindForward, Define, Visited, vars
<1>2. /\ i \in Nearest!References /\ i \in Nearest!Places /\ i \in Int
      /\ prog[i] \in Items /\ pc \in Int
      /\ Nearest!Answered(i)' <=> Nearest!Answered(i)
  BY <1>1 DEF TypeOK, Nearest!References, Nearest!Places, Nearest!Answered, Nearest!Means,
              Nearest!Without, Nearest!Defines
<1>3. /\ i >= pc => bound[i] = Pending
      /\ i < pc /\ prog[i].op = "forward" =>
           (bound[i] = Pending <=> i \in forwards[prog[i].num])
      /\ i < pc /\ prog[i].op = "backward" /\ Nearest!Answered(i) => bound[i] # Pending
      /\ i < pc <=> ~(i >= pc)
  BY <1>2 DEF PendingExact
<1>4. \A n \in Numbers : i \in forwards[n] =>
         i < pc /\ prog[i].op = "forward" /\ prog[i].num = n
  <2> SUFFICES ASSUME NEW n \in Numbers, i \in forwards[n]
               PROVE  i < pc /\ prog[i].op = "forward" /\ prog[i].num = n
    OBVIOUS
  <2>1. i < pc /\ prog[i] = [op |-> "forward", num |-> n]
    BY DEF ListsExact
  <2> QED
    BY <2>1
<1>5. CASE BindBackward
  <2>1. CASE i = pc
    <3>1. Nearest!Answered(i) => prog[i].num \in located
      <4>1. SUFFICES ASSUME NEW j \in Nearest!Places, Nearest!Means(i, j)
                     PROVE  prog[i].num \in located
        BY DEF Nearest!Answered
      <4>2. Nearest!Defines(j, prog[i].num) /\ 1 <= j /\ j < pc
        BY <1>5, <2>1, <4>1 DEF BindBackward, Here, Nearest!Means, Nearest!Places
      <4>3. ~Nearest!Without(prog[i].num, 1, pc)
        BY <4>2 DEF Nearest!Without
      <4> QED
        BY <1>2, <4>3 DEF LatestExact, Items
    <3>2. prog[i].num \in located => bound'[i] = backwards[prog[i].num]
      BY <1>2, <1>5, <2>1 DEF BindBackward, TypeOK
    <3>3. backwards[prog[i].num] # Pending
      BY <1>2 DEF TypeOK, Items, Nearest!Places
    <3> QED
      BY <1>1, <1>2, <1>5, <2>1, <3>1, <3>2, <3>3 DEF BindBackward, Here
  <2>2. CASE i # pc
    BY <1>1, <1>2, <1>3, <1>5, <2>2 DEF BindBackward, Here, TypeOK
  <2> QED
    BY <2>1, <2>2
<1>6. CASE BindForward
  <2>1. i \in forwards'[prog[i].num] <=> i \in forwards[prog[i].num] \/ i = pc
    BY <1>2, <1>6 DEF BindForward, Here, TypeOK, Items
  <2> QED
    BY <1>1, <1>2, <1>3, <1>6, <2>1 DEF BindForward, Here
<1>7. CASE Define
  <2>1. bound'[i] = IF i \in forwards[prog[pc].num] THEN pc ELSE bound[i]
    BY <1>2, <1>7 DEF Define, TypeOK, Resolved
  <2>2. prog[pc].num \in Numbers /\ i # pc /\ pc # Pending
    <3>1. prog[pc] \in Items /\ pc >= 1
      BY <1>7 DEF Define, Here, TypeOK
    <3> QED
      BY <1>2, <1>7, <3>1 DEF Define, Here, Items, Nearest!References
  <2>3. i \in forwards'[prog[i].num] <=>
          i \in forwards[prog[i].num] /\ prog[i].num # prog[pc].num
    BY <1>2, <1>7, <2>2 DEF Define, TypeOK, Items, Waiting
  <2>4. i \in forwards[prog[pc].num] <=>
          i \in forwards[prog[i].num] /\ prog[i].num = prog[pc].num
    BY <1>4, <2>2
  <2>5. /\ i < pc' <=> i < pc
        /\ i >= pc' => i >= pc
    BY <1>2, <1>7, <2>2 DEF Define
  <2>6. i >= pc => i \notin forwards[prog[pc].num]
    BY <1>2, <1>4, <2>2
  <2>7. i < pc /\ prog[i].op = "forward" =>
          (bound'[i] = Pending <=> i \in forwards'[prog[i].num])
    BY <1>3, <2>1, <2>2, <2>3, <2>4
  <2>8. i < pc /\ prog[i].op = "backward" /\ Nearest!Answered(i) => bound'[i] # Pending
    BY <1>3, <2>1, <2>2
  <2> QED
    BY <1>1, <1>2, <1>3, <2>1, <2>5, <2>6, <2>7, <2>8
<1>8. CASE Visited
  BY <1>1, <1>2, <1>3, <1>8 DEF Visited, vars
<1> QED
  BY <1>5, <1>6, <1>7, <1>8 DEF Next

THEOREM InvCorrect == Spec => []Inv
<1>1. Inv /\ [Next]_vars => Inv'
  <2> SUFFICES ASSUME Inv, [Next]_vars PROVE Inv'
    OBVIOUS
  <2>1. CASE Next
    BY <2>1, TypeStep, ListsStep, LatestStep, PendingStep DEF Inv
  <2>2. CASE UNCHANGED vars
    <3>1. /\ prog' = prog /\ pc' = pc /\ located' = located
          /\ backwards' = backwards /\ forwards' = forwards /\ bound' = bound
      BY <2>2 DEF vars
    <3>2. TypeOK'
      BY <3>1 DEF Inv, TypeOK, Nearest!References, Nearest!Places
    <3>3. ListsExact'
      BY <3>1 DEF Inv, ListsExact, Nearest!References, Nearest!Places, Nearest!Without,
                  Nearest!Defines
    <3>4. LatestExact'
      BY <3>1 DEF Inv, LatestExact, Nearest!Places, Nearest!Without, Nearest!Defines
    <3>5. PendingExact'
      BY <3>1 DEF Inv, PendingExact, Nearest!References, Nearest!Places, Nearest!Answered,
                  Nearest!Means, Nearest!Without, Nearest!Defines
    <3> QED
      BY <3>2, <3>3, <3>4, <3>5 DEF Inv
  <2> QED
    BY <2>1, <2>2
<1> QED
  BY <1>1, InitInv, PTL DEF Spec

(* Types, the lists of waiting references and the entries of the labels    *)
(* are right in every stream (symbolic.c:758-875).                         *)
THEOREM LocalTypeCorrect == Spec => []TypeOK
BY InvCorrect, PTL DEF Inv

THEOREM ListsAlwaysExact == Spec => []ListsExact
BY InvCorrect, PTL DEF Inv

THEOREM LatestAlwaysExact == Spec => []LatestExact
BY InvCorrect, PTL DEF Inv
-----------------------------------------------------------------------------
LEMMA EndComplete == Inv /\ pc > Len(prog) => Nearest!Complete
<1> SUFFICES ASSUME Inv, pc > Len(prog), NEW i \in Nearest!References,
                    Nearest!Answered(i)
             PROVE  bound[i] # Pending
  BY DEF Nearest!Complete
<1> USE DEF Inv
<1>1. i \in Nearest!Places /\ i < pc /\ prog[i] \in Items /\ prog[i].op # "define"
  BY DEF Nearest!References, Nearest!Places, TypeOK
<1>2. CASE prog[i].op = "backward"
  BY <1>1, <1>2 DEF PendingExact
<1>3. CASE prog[i].op = "forward"
  <2>1. PICK j \in Nearest!Places : Nearest!Means(i, j)
    BY DEF Nearest!Answered
  <2>2. Nearest!Defines(j, prog[i].num) /\ i <= j /\ j < pc
    BY <1>1, <1>3, <2>1 DEF Nearest!Means, Nearest!Places, TypeOK
  <2>3. ~Nearest!Without(prog[i].num, i, pc)
    BY <2>2 DEF Nearest!Without
  <2>4. i \notin forwards[prog[i].num]
    BY <1>1, <2>3 DEF ListsExact, Items
  <2> QED
    BY <1>1, <1>3, <2>4 DEF PendingExact
<1> QED
  BY <1>1, <1>2, <1>3 DEF Items

(* What a step does to one reference is what NearestLabel allows.          *)
LEMMA StepReplaces ==
  ASSUME Inv, Next, NEW i \in Nearest!References
  PROVE  Nearest!Replaced(i, bound'[i])
<1> USE DEF Inv
<1>1. /\ i \in Nearest!Places /\ i \in Int /\ prog[i] \in Items /\ prog[i].op # "define"
      /\ pc \in Int /\ prog[i].num \in Numbers
  <2>1. i \in 1 .. Len(prog) /\ prog[i].op # "define"
    BY DEF Nearest!References, Nearest!Places
  <2>2. prog[i] \in Items
    BY <2>1 DEF TypeOK
  <2> QED
    BY <2>1, <2>2 DEF Nearest!Places, TypeOK, Items
<1>2. CASE BindBackward
  <2>1. CASE i = pc /\ prog[i].num \in located
    <3>1. bound[i] = Pending /\ bound'[i] = backwards[prog[i].num] /\ prog[i].op = "backward"
      BY <1>1, <1>2, <2>1 DEF BindBackward, Here, TypeOK, PendingExact
    <3>2. CASE backwards[prog[i].num] = NoLabel
      <4>1. Nearest!Without(prog[i].num, 1, i)
        BY <1>1, <2>1, <3>2 DEF LatestExact
      <4>2. ~Nearest!Answered(i)
        BY <1>1, <3>1, <4>1
           DEF Nearest!Answered, Nearest!Means, Nearest!Without, Nearest!Places
      <4> QED
        BY <3>1, <3>2, <4>2 DEF Nearest!Replaced
    <3>3. CASE backwards[prog[i].num] # NoLabel
      <4>1. /\ backwards[prog[i].num] \in Nearest!Places
            /\ Nearest!Means(i, backwards[prog[i].num])
        BY <1>1, <2>1, <3>1, <3>3 DEF LatestExact, Nearest!Means, TypeOK
      <4> QED
        BY <3>1, <4>1 DEF Nearest!Replaced
    <3> QED
      BY <3>2, <3>3
  <2>2. CASE ~(i = pc /\ prog[i].num \in located)
    BY <1>1, <1>2, <2>2 DEF BindBackward, Nearest!Replaced, TypeOK
  <2> QED
    BY <2>1, <2>2
<1>3. CASE BindForward
  BY <1>3 DEF BindForward, Nearest!Replaced
<1>4. CASE Define
  <2>1. bound'[i] = IF i \in forwards[prog[pc].num] THEN pc ELSE bound[i]
    BY <1>4 DEF Define, TypeOK, Resolved
  <2>2. ASSUME i \in forwards[prog[pc].num]
        PROVE  bound[i] = Pending /\ pc \in Nearest!Places /\ Nearest!Means(i, pc)
    <3>1. pc \in Nearest!Places /\ prog[pc] \in Items /\ prog[pc].op = "define"
      BY <1>4 DEF Define, Here, TypeOK, Nearest!Places
    <3>2. /\ i < pc /\ prog[i] = [op |-> "forward", num |-> prog[pc].num]
          /\ Nearest!Without(prog[pc].num, i, pc)
      BY <2>2, <3>1 DEF ListsExact, Items
    <3>3. prog[i].op = "forward" /\ prog[i].num = prog[pc].num
      BY <3>2
    <3>4. bound[i] = Pending
      BY <2>2, <3>2, <3>3 DEF PendingExact
    <3> QED
      BY <3>1, <3>2, <3>3, <3>4 DEF Nearest!Means, Nearest!Defines
  <2> QED
    BY <2>1, <2>2 DEF Nearest!Replaced
<1>5. CASE Visited
  BY <1>5 DEF Visited, vars, Nearest!Replaced
<1> QED
  BY <1>2, <1>3, <1>4, <1>5 DEF Next

(* Every reference becomes the nearest label in its direction, whatever    *)
(* the stream (symbolic.c:758-875).                                        *)
THEOREM BindsNearestForAll == Spec => BindsNearest
<1>1. Init => Nearest!Init
  <2> SUFFICES ASSUME Init PROVE Nearest!Init
    OBVIOUS
  <2>1. prog \in Seq(Items) /\ pc = 1
    BY StreamsAssumption DEF Init
  <2> QED
    BY <2>1 DEF Init, Nearest!Init
<1> DEFINE Ends == Inv /\ (pc > Len(prog) => Nearest!Complete)
<1>2. Ends /\ Ends' /\ [Next]_vars => [Nearest!Next]_<<prog, bound, pc > Len(prog)>>
  <2> SUFFICES ASSUME Ends, Ends', Next
               PROVE  Nearest!Next \/ UNCHANGED <<prog, bound, pc > Len(prog)>>
    BY DEF vars
  <2>1. CASE Visited
    BY <2>1 DEF Visited, vars
  <2>2. CASE BindBackward \/ BindForward \/ Define
    <3>1. prog' = prog /\ pc <= Len(prog)
      BY <2>2 DEF BindBackward, BindForward, Define, Here
    <3>2. DOMAIN bound' = Nearest!References
      BY <3>1 DEF Inv, TypeOK, Nearest!References, Nearest!Places
    <3>3. \A i \in Nearest!References : Nearest!Replaced(i, bound'[i])
      BY StepReplaces
    <3>4. ~(pc > Len(prog))
      BY <3>1 DEF Inv, TypeOK
    <3>5. pc' > Len(prog') => Nearest!Complete'
      OBVIOUS
    <3> QED
      BY <3>1, <3>2, <3>3, <3>4, <3>5 DEF Nearest!Next
  <2> QED
    BY <2>1, <2>2 DEF Next
<1>3. Inv => Ends
  BY EndComplete
<1> QED
  BY <1>1, <1>2, <1>3, InvCorrect, PTL DEF Spec, BindsNearest, Nearest!Spec
=============================================================================
