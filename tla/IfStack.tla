------------------------------ MODULE IfStack -------------------------------
(***************************************************************************)
(* What .if, .elif, .else and .endif promise: a stack of conditionals, of  *)
(* each of which at most one clause, the first whose condition holds, is   *)
(* active; a word of the source is passed on when every conditional around *)
(* it is in its active clause.                                             *)
(***************************************************************************)
EXTENDS Integers, Sequences

VARIABLES
  nest,       \* the conditionals around the current line, the outermost first,
              \* "waiting" for a clause, in its "active" one, or "past" it
  passed      \* was the last word passed on?

Live(n) == \A d \in 1 .. Len(n) : n[d].state = "active"

Top(n)   == n[Len(n)]
Outer(n) == SubSeq(n, 1, Len(n) - 1)

(* What becomes of a conditional at the start of its next clause.          *)
Switched(n, holds) ==
  IF Top(n).state # "waiting" THEN "past"
  ELSE IF holds /\ Live(Outer(n)) THEN "active" ELSE "waiting"

Opened(n, holds) ==
  Append(n, [state   |-> IF ~Live(n) THEN "past"
                         ELSE IF holds THEN "active" ELSE "waiting",
             closing |-> FALSE])

Alternative(n, holds) ==
  Append(Outer(n), [state |-> Switched(n, holds), closing |-> FALSE])

Otherwise(n) ==
  Append(Outer(n), [state |-> Switched(n, TRUE), closing |-> TRUE])

Word == passed' = Live(nest) /\ UNCHANGED nest

Directive ==
  /\ \/ \E holds \in BOOLEAN : nest' = Opened(nest, holds)
     \/ /\ nest # <<>> /\ ~Top(nest).closing
        /\ \/ \E holds \in BOOLEAN : nest' = Alternative(nest, holds)
           \/ nest' = Otherwise(nest)
     \/ nest # <<>> /\ nest' = Outer(nest)
  /\ UNCHANGED passed

Init == nest = <<>> /\ passed = TRUE
Next == Word \/ Directive
Spec == Init /\ [][Next]_<<nest, passed>>
=============================================================================
