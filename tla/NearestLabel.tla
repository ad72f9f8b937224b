---------------------------- MODULE NearestLabel ----------------------------
(***************************************************************************)
(* What numbered labels promise: 1b is the last label 1 before it, 1f the  *)
(* first after it.  A reference is replaced once and for all, and all that *)
(* have a label are replaced by the end.                                   *)
(***************************************************************************)
EXTENDS Integers, Sequences

CONSTANTS NoLabel,      \* NULL: there is no such label
          Pending       \* not replaced yet

VARIABLES prog, bound, ended

Places        == 1 .. Len(prog)
References    == {i \in Places : prog[i].op # "define"}
Defines(j, n) == prog[j].op = "define" /\ prog[j].num = n

(* No label n stands from place a up to, but not at, place b.              *)
Without(n, a, b) == \A j \in Places : a <= j /\ j < b => ~Defines(j, n)

(* j is the label that the reference at i means.                           *)
Means(i, j) ==
  /\ Defines(j, prog[i].num)
  /\ \/ prog[i].op = "backward" /\ j < i /\ Without(prog[i].num, j + 1, i)
     \/ prog[i].op = "forward"  /\ i < j /\ Without(prog[i].num, i, j)

Answered(i) == \E j \in Places : Means(i, j)

(* A reference may be replaced by its label, one without by NULL.          *)
Replaced(i, b) ==
  \/ b = bound[i]
  \/ bound[i] = Pending /\ b \in Places /\ Means(i, b)
  \/ bound[i] = Pending /\ b = NoLabel /\ ~Answered(i)

Complete == \A i \in References : Answered(i) => bound[i] # Pending

Init == bound = [i \in References |-> Pending] /\ (ended <=> prog = <<>>)

Next ==
  /\ UNCHANGED prog
  /\ DOMAIN bound' = References /\ \A i \in References : Replaced(i, bound'[i])
  /\ ended => ended' /\ UNCHANGED bound
  /\ ended' => Complete'

Spec == Init /\ [][Next]_<<prog, bound, ended>>
=============================================================================
