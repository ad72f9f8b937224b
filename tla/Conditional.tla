----------------------------- MODULE Conditional ----------------------------
(***************************************************************************)
(* Conditional assembly (src/preprocess.c): yylex filters the tokens of    *)
(* dead code by two variables, false_if_level and past_true_if_clause,     *)
(* that the directive handlers update when the parser has reduced a        *)
(* conditional line.  The handlers have no stack; IfStack says what they   *)
(* stand for.                                                              *)
(***************************************************************************)
EXTENDS Integers, Sequences

CONSTANTS MaxDepth,     \* bound on the nesting of the source
          MaxLines,     \* bound on its lines
          NestInPast    \* may an .if stand in a clause after the active one?

ASSUME BoundsAssumption ==
  MaxDepth \in Nat /\ MaxLines \in Nat /\ NestInPast \in BOOLEAN

VARIABLES
  false_if_level, past_true_if_clause, parsing_conditional, is_line_start,
  line_number,
  line,       \* the line being read
  rest,       \* its tokens that are still to be fetched
  directive,  \* the conditional the parser has shifted, or "none"
  lines,      \* how many lines have been begun
  nest,       \* history: the stack of conditionals, as in IfStack
  passed      \* history: was the last word passed to the parser?

filter == <<false_if_level, past_true_if_clause, parsing_conditional,
            is_line_start>>
vars == <<filter, line_number, line, rest, directive, lines, nest, passed>>

S == INSTANCE IfStack

Conditionals == {"if", "elif", "else", "endif"}

Lines == [kind : Conditionals \cup {"plain"}, labelled : BOOLEAN, holds : BOOLEAN]

Directive(l) ==
  IF l.kind \in {"if", "elif"} THEN <<l.kind, "expression", "newline">>
                               ELSE <<l.kind, "newline">>

Tokens(l) ==
  IF l.kind = "plain" THEN <<"word", "newline">>
  ELSE (IF l.labelled THEN <<"word">> ELSE <<>>) \o Directive(l)

(* The clause of a conditional that comes after its active one.            *)
InPast == \E d \in 1 .. Len(nest) :
            nest[d].state = "past" /\ S!Live(SubSeq(nest, 1, d - 1))

(* The sources considered: every .elif, .else and .endif belongs to an .if *)
(* and no clause follows the .else.                                        *)
Fitting(l) ==
  /\ l.kind \in {"elif", "else"} => nest # <<>> /\ ~S!Top(nest).closing
  /\ l.kind = "endif" => nest # <<>>
  /\ l.kind = "if" => Len(nest) < MaxDepth /\ (InPast => NestInPast)

BeginLine ==
  /\ rest = <<>> /\ lines < MaxLines
  /\ \E l \in Lines : Fitting(l) /\ line' = l /\ rest' = Tokens(l)
  /\ lines' = lines + 1
  /\ UNCHANGED <<filter, line_number, directive, nest, passed>>

Dead == ~(false_if_level = 0 /\ ~past_true_if_clause)
-----------------------------------------------------------------------------
(* Slip: an .if in dead code is not counted.                               *)
HandleIfUncounted(holds) ==
  /\ false_if_level' = IF Dead \/ holds THEN false_if_level ELSE 1
  /\ UNCHANGED past_true_if_clause

HandleIf(holds) ==
  /\ false_if_level' = IF Dead THEN false_if_level + 1
                       ELSE IF holds THEN 0 ELSE 1
  /\ UNCHANGED past_true_if_clause

(* .else is an .elif whose condition holds.                                *)
HandleElse(holds) ==
  /\ past_true_if_clause' = (past_true_if_clause \/ false_if_level = 0)
  /\ false_if_level' = IF ~past_true_if_clause /\ false_if_level = 1 /\ holds
                       THEN 0 ELSE false_if_level

(* Slip: past_true_if_clause is left set.                                 *)
HandleEndKept ==
  /\ false_if_level' = IF false_if_level >= 1 THEN false_if_level - 1 ELSE 0
  /\ UNCHANGED past_true_if_clause

HandleEnd ==
  /\ false_if_level' = IF false_if_level >= 1 THEN false_if_level - 1 ELSE 0
  /\ past_true_if_clause' = (past_true_if_clause /\ false_if_level' # 0)

(* The parser, when it has the end of the line.                            *)
Reduce ==
  CASE directive = "if"    -> HandleIf(line.holds)
    [] directive = "elif"  -> HandleElse(line.holds)
    [] directive = "else"  -> HandleElse(TRUE)
    [] directive = "endif" -> HandleEnd
    [] OTHER -> UNCHANGED <<false_if_level, past_true_if_clause>>

Nested ==
  CASE line.kind = "if"    -> S!Opened(nest, line.holds)
    [] line.kind = "elif"  -> S!Alternative(nest, line.holds)
    [] line.kind = "else"  -> S!Otherwise(nest)
    [] line.kind = "endif" -> S!Outer(nest)
    [] OTHER               -> nest

(* Slip: directives are dropped with the rest of a dead line.              *)
RecognisedNever(t) == FALSE

(* A directive is looked for from the start of a dead line; the flag is    *)
(* not lowered by the tokens that are dropped.                             *)
Recognised(t) == is_line_start /\ t \in Conditionals

(* Slip: only the parser counts lines.                                     *)
LineAfterLive(t) == IF t = "newline" /\ ~Dead THEN line_number + 1 ELSE line_number

(* advance_line, in yylex or in the parser.                                *)
LineAfter(t) == IF t = "newline" THEN line_number + 1 ELSE line_number

(* yylex in dead code: the token is dropped.                               *)
DropToken ==
  LET t == Head(rest)
  IN  /\ rest # <<>> /\ Dead /\ ~Recognised(t) /\ ~parsing_conditional
      /\ is_line_start' = (is_line_start \/ t = "newline")
      /\ line_number' = LineAfter(t)
      /\ passed' = IF t = "word" THEN FALSE ELSE passed
      /\ nest' = IF t = "newline" THEN Nested ELSE nest
      /\ rest' = Tail(rest)
      /\ UNCHANGED <<false_if_level, past_true_if_clause, parsing_conditional,
                     line, directive, lines>>

(* yylex returns the token, and the parser takes it.                       *)
PassToken ==
  LET t == Head(rest)
  IN  /\ rest # <<>> /\ (Dead => Recognised(t) \/ parsing_conditional)
      /\ is_line_start' = (t = "newline")
      /\ parsing_conditional' =
           ((parsing_conditional \/ (Dead /\ Recognised(t))) /\ t # "newline")
      /\ passed' = IF t = "word" THEN TRUE ELSE passed
      /\ line_number' = LineAfter(t)
      /\ rest' = Tail(rest)
      /\ \/ /\ t = "newline"
            /\ Reduce
            /\ directive' = "none"
            /\ nest' = Nested
         \/ /\ t # "newline"
            /\ directive' = IF t \in Conditionals THEN t ELSE directive
            /\ UNCHANGED <<false_if_level, past_true_if_clause, nest>>
      /\ UNCHANGED <<line, lines>>

Init ==
  /\ false_if_level = 0 /\ past_true_if_clause = FALSE
  /\ parsing_conditional = FALSE /\ is_line_start = FALSE
  /\ line_number = 1
  /\ line = [kind |-> "plain", labelled |-> FALSE, holds |-> FALSE]
  /\ rest = <<>> /\ directive = "none" /\ lines = 0
  /\ nest = <<>> /\ passed = TRUE

EndOfInput == rest = <<>> /\ lines = MaxLines /\ UNCHANGED vars

Next == BeginLine \/ DropToken \/ PassToken \/ EndOfInput

Spec == Init /\ [][Next]_vars
-----------------------------------------------------------------------------
(* yylex passes a word on exactly when the conditionals around it say so   *)
(* (preprocess.c:301-323 and the handlers, 235-299): the two variables     *)
(* stand for the whole stack.                                              *)
FiltersByStack == S!Spec

(* Between two lines the filter is open exactly when the source is live,   *)
(* and the parser holds no half of a directive.                            *)
OpenWhenLive ==
  rest = <<>> => (Dead <=> ~S!Live(nest)) /\ directive = "none" /\ ~parsing_conditional

(* false_if_level counts the conditionals to be closed before the code can *)
(* be live again.                                                          *)
LevelCountsNest ==
  rest = <<>> =>
    \A d \in 1 .. Len(nest) :
      (nest[d].state # "active" /\ S!Live(SubSeq(nest, 1, d - 1))) =>
        false_if_level = Len(nest) - d + (IF nest[d].state = "waiting" THEN 1 ELSE 0)

(* Every line is counted once, in dead code (by yylex) and in live code    *)
(* and for directives (by the parser).                                     *)
LinesCounted == rest = <<>> => line_number = lines + 1
=============================================================================
