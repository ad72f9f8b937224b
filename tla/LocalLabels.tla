----------------------------- MODULE LocalLabels ----------------------------
(***************************************************************************)
(* Numbered labels (src/symbolic.c, from local_label_definitions on).      *)
(* precompile_instruction_stream visits the stream once.  A backward       *)
(* reference is looked up at once; a forward reference waits in the list   *)
(* of its number, until a label of that number replaces all that wait.     *)
(*                                                                         *)
(* The stream is reduced to labels and references; an instruction whose    *)
(* operands hold several references is several of them in a row, in the    *)
(* order of local_label_bind_all.  The sorted list of definitions is a     *)
(* function of the number, defined where located says.                     *)
(***************************************************************************)
EXTENDS Integers, Sequences

CONSTANTS Numbers,      \* the numbers of labels
          Streams       \* the streams the parser may deliver

NoLabel == 0            \* NULL
Pending == -1           \* still EXP_LABEL_FORWARD or EXP_LABEL_BACKWARD

Items == [op : {"define", "backward", "forward"}, num : Numbers]

ASSUME StreamsAssumption == Streams \subseteq Seq(Items)

VARIABLES
  prog,       \* the stream
  pc,         \* the instruction precompile_instruction_stream is at
  located,    \* the numbers with an entry in local_label_definitions
  backwards,  \* ... and the fields of these entries
  forwards,
  bound       \* expression_t.value.l, once the type is EXP_LABEL

vars == <<prog, pc, located, backwards, forwards, bound>>

Nearest == INSTANCE NearestLabel WITH ended <- pc > Len(prog)

Here(op) == pc <= Len(prog) /\ prog[pc].op = op

(* local_label_lookup_backwards: a number without an entry is reported,    *)
(* and the reference is left as it is.                                     *)
BindBackward ==
  /\ Here("backward")
  /\ bound' = IF prog[pc].num \in located
              THEN [bound EXCEPT ![pc] = backwards[prog[pc].num]]
              ELSE bound
  /\ pc' = pc + 1
  /\ UNCHANGED <<prog, located, backwards, forwards>>

(* local_label_forwards_insert: local_label_locate makes the entry, with   *)
(* a NULL in backwards.                                                    *)
BindForward ==
  /\ Here("forward")
  /\ located' = located \cup {prog[pc].num}
  /\ forwards' = [forwards EXCEPT ![prog[pc].num] = @ \cup {pc}]
  /\ pc' = pc + 1
  /\ UNCHANGED <<prog, backwards, bound>>

(* Slips: the list is kept for the next label; the entry keeps the first   *)
(* label; whatever waits is replaced.  *)
WaitingKept(n) == forwards[n]

LatestFirst(n) == IF backwards[n] = NoLabel THEN pc ELSE backwards[n]

ResolvedAll(n) == UNION {forwards[m] : m \in Numbers}

Waiting(n)  == {}
Latest(n)   == pc
Resolved(n) == forwards[n]

(* local_label_define, with local_label_forwards_insert_all.               *)
Define ==
  LET n == prog[pc].num
  IN  /\ Here("define")
      /\ located' = located \cup {n}
      /\ backwards' = [backwards EXCEPT ![n] = Latest(n)]
      /\ forwards' = [forwards EXCEPT ![n] = Waiting(n)]
      /\ bound' = [i \in DOMAIN bound |-> IF i \in Resolved(n) THEN pc ELSE bound[i]]
      /\ pc' = pc + 1
      /\ UNCHANGED prog

Init ==
  /\ prog \in Streams /\ pc = 1
  /\ located = {}
  /\ backwards = [n \in Numbers |-> NoLabel]
  /\ forwards = [n \in Numbers |-> {}]
  /\ bound = [i \in Nearest!References |-> Pending]

Visited == pc > Len(prog) /\ UNCHANGED vars

Next == BindBackward \/ BindForward \/ Define \/ Visited

Spec == Init /\ [][Next]_vars
-----------------------------------------------------------------------------
TypeOK ==
  /\ prog \in Seq(Items) /\ pc \in 1 .. Len(prog) + 1
  /\ located \in SUBSET Numbers
  /\ backwards \in [Numbers -> Nearest!Places \cup {NoLabel}]
  /\ forwards \in [Numbers -> SUBSET Nearest!References]
  /\ bound \in [Nearest!References -> Nearest!Places \cup {NoLabel, Pending}]

(* The references that wait for label n are exactly the forward references *)
(* to n that the loop has passed since the last label n: one that was      *)
(* replaced, whose value.i has become value.l, is on no list any more      *)
(* (symbolic.c:777-791).                                                   *)
ListsExact ==
  \A n \in Numbers :
    forwards[n] = {i \in Nearest!References :
                     /\ i < pc /\ prog[i] = [op |-> "forward", num |-> n]
                     /\ Nearest!Without(n, i, pc)}

(* The entry of n names the last label n before the loop, and has none     *)
(* when there is none yet (symbolic.c:816-826).                            *)
LatestExact ==
  \A n \in Numbers :
    LET b == backwards[n]
    IN  /\ b = NoLabel => Nearest!Without(n, 1, pc)
        /\ b # NoLabel => /\ b < pc /\ Nearest!Defines(b, n)
                          /\ Nearest!Without(n, b + 1, pc)
                          /\ n \in located

(* Every reference becomes the nearest label in its direction, once and    *)
(* for all, and by the end of the loop none with a label is left over      *)
(* (symbolic.c:758-875).                                                   *)
BindsNearest == Nearest!Spec
=============================================================================
