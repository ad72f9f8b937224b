----------------------------- MODULE Expansion ------------------------------
(***************************************************************************)
(* What the output of a program is supposed to be, by recursion on its     *)
(* blocks instead of by jumps and counters: a .times block is its contents *)
(* over and over, a .fill block as much of that as fits before the mark.   *)
(* A byte is the number of the instruction it comes from.                  *)
(***************************************************************************)
EXTENDS Assemble, SequencesExt

Copies(s, n) == FlattenSeq([k \in 1 .. n |-> s])

\* The output of the instructions from .. to, as far as they are in section s.
RECURSIVE Expand(_, _, _)
Expand(s, from, to) ==
  IF from > to THEN <<>>
  ELSE LET t == term[from]
       IN  CASE prog[from].op = "times" /\ t > from ->
                  Copies(Expand(s, from + 1, t - 1), count[from]) \o Expand(s, t + 1, to)
             [] prog[from].op = "fill" /\ t > from ->
                  SubSeq(Copies(Expand(s, from + 1, t - 1), count[from]), 1, count[from])
                  \o Expand(s, t + 1, to)
             [] prog[from].op \in {"insn", "data", "skip"} /\ sec[from] = s ->
                  Copies(<<from>>, size[from]) \o Expand(s, from + 1, to)
             [] OTHER -> Expand(s, from + 1, to)

Repeats == \A i \in Ins : prog[i].op = "times" => count[i] > 0

(* The bytes of the finished flat file are those of the expanded program,  *)
(* one section after the other (asm.c:1139-1249).                          *)
FileIsExpansion ==
  (stage = "end" /\ phase = "done" /\ format = "bin" /\ Repeats /\ ~FillInFill) =>
    [b \in 1 .. Len(image[1]) |-> image[1][b].by] =
      FlattenSeq([s \in 1 .. created |-> Expand(s, 1, Len(prog))])
=============================================================================
