---------------------------- MODULE MemoryImage -----------------------------
(***************************************************************************)
(* What an output format that can move its location promises: a byte goes  *)
(* where the location is, and the location then is one higher.             *)
(***************************************************************************)
EXTENDS Integers

CONSTANT Values

VARIABLES memory, location

Put(v) ==
  /\ memory' = [a \in DOMAIN memory \cup {location} |->
                  IF a = location THEN v ELSE memory[a]]
  /\ location' = location + 1

Move == location' \in Nat /\ UNCHANGED memory

Init == memory = <<>> /\ location = 0
Next == (\E v \in Values : Put(v)) \/ Move
Spec == Init /\ [][Next]_<<memory, location>>
=============================================================================
