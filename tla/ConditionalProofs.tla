------------------------- MODULE ConditionalProofs -------------------------
(***************************************************************************)
(* For every bound on the nesting and on the lines of the source: the two  *)
(* variables of the filter stand for the stack of conditionals, as long as *)
(* no .if is in a clause after the active one, and every line is counted.  *)
(* Conditional implements IfStack.                                         *)
(***************************************************************************)
EXTENDS Conditional, TLAPS

States == {"waiting", "active", "past"}
Clauses == [state : States, closing : BOOLEAN]
Nests   == Seq(Clauses)

(* The outermost conditional that is not in its active clause.             *)
FirstDead(n, d) ==
  d \in 1 .. Len(n) /\ n[d].state # "active" /\ S!Live(SubSeq(n, 1, d - 1))

(* How two variables stand for a stack: the code is live; or a conditional *)
(* waits, and the level counts it and all that it holds; or the innermost  *)
(* conditional is past its active clause.                                  *)
Stands(n, level, past) ==
  \/ S!Live(n) /\ level = 0 /\ ~past
  \/ /\ ~past
     /\ \E d \in 1 .. Len(n) : /\ FirstDead(n, d) /\ n[d].state = "waiting"
                               /\ level = Len(n) - d + 1
  \/ FirstDead(n, Len(n)) /\ n[Len(n)].state = "past" /\ level = 0 /\ past
-----------------------------------------------------------------------------
(* Sequences.                                                              *)
LEMMA SeqFacts ==
  ASSUME NEW E, NEW s \in Seq(E)
  PROVE  /\ Len(s) \in Nat /\ DOMAIN s = 1 .. Len(s) /\ (s # <<>> <=> Len(s) > 0)
         /\ \A i \in 1 .. Len(s) : s[i] \in E
OBVIOUS

LEMMA FrontFacts ==
  ASSUME NEW E, NEW s \in Seq(E), NEW k \in Nat, k <= Len(s)
  PROVE  /\ SubSeq(s, 1, k) \in Seq(E) /\ Len(SubSeq(s, 1, k)) = k
         /\ \A i \in 1 .. k : SubSeq(s, 1, k)[i] = s[i]
<1>1. Len(s) \in Nat
  BY SeqFacts
<1>2. Len(SubSeq(s, 1, k)) = k /\ \A i \in 1 .. k : SubSeq(s, 1, k)[i] = s[i]
  BY <1>1
<1>3. SubSeq(s, 1, k) \in Seq(E)
  BY <1>1
<1> QED
  BY <1>2, <1>3

LEMMA AppendFacts ==
  ASSUME NEW E, NEW s \in Seq(E), NEW x \in E
  PROVE  /\ Append(s, x) \in Seq(E) /\ Len(Append(s, x)) = Len(s) + 1
         /\ Append(s, x)[Len(s) + 1] = x
         /\ \A i \in 1 .. Len(s) : Append(s, x)[i] = s[i]
OBVIOUS
-----------------------------------------------------------------------------
LEMMA NestType ==
  ASSUME NEW n \in Nests
  PROVE  /\ Len(n) \in Nat /\ DOMAIN n = 1 .. Len(n) /\ (n # <<>> <=> Len(n) > 0)
         /\ \A d \in 1 .. Len(n) : n[d].state \in States /\ n[d].closing \in BOOLEAN
<1>1. /\ Len(n) \in Nat /\ DOMAIN n = 1 .. Len(n) /\ (n # <<>> <=> Len(n) > 0)
      /\ \A d \in 1 .. Len(n) : n[d] \in Clauses
  BY SeqFacts DEF Nests
<1> QED
  BY <1>1 DEF Clauses

(* What is live up to d.                                                   *)
LEMMA LivePrefix ==
  ASSUME NEW n \in Nests, NEW d \in 0 .. Len(n)
  PROVE  /\ S!Live(SubSeq(n, 1, d)) <=> \A e \in 1 .. d : n[e].state = "active"
         /\ SubSeq(n, 1, d) \in Nests
<1>1. d \in Nat /\ d <= Len(n)
  BY NestType
<1>2. /\ SubSeq(n, 1, d) \in Nests /\ Len(SubSeq(n, 1, d)) = d
      /\ \A i \in 1 .. d : SubSeq(n, 1, d)[i] = n[i]
  BY <1>1, FrontFacts DEF Nests
<1> QED
  BY <1>2 DEF S!Live

(* The stack without its innermost conditional.                            *)
LEMMA OuterFacts ==
  ASSUME NEW n \in Nests, n # <<>>
  PROVE  /\ S!Outer(n) \in Nests /\ Len(S!Outer(n)) = Len(n) - 1
         /\ \A d \in 1 .. Len(n) - 1 : S!Outer(n)[d] = n[d]
<1>1. Len(n) - 1 \in Nat /\ Len(n) - 1 <= Len(n)
  BY NestType
<1> QED
  BY <1>1, FrontFacts DEF Nests, S!Outer

LEMMA FirstDeadMeans ==
  ASSUME NEW n \in Nests, NEW d \in 1 .. Len(n)
  PROVE  FirstDead(n, d) <=>
           n[d].state # "active" /\ \A e \in 1 .. d - 1 : n[e].state = "active"
<1>1. d - 1 \in 0 .. Len(n)
  BY NestType
<1> QED
  BY <1>1, LivePrefix DEF FirstDead

(* One stack goes on where the other stands up to d.                       *)
LEMMA SameStart ==
  ASSUME NEW n \in Nests, NEW m \in Nests, NEW d \in 1 .. Len(n), d \in 1 .. Len(m),
         \A e \in 1 .. d : m[e].state = n[e].state
  PROVE  FirstDead(m, d) <=> FirstDead(n, d)
<1>1. d \in Nat /\ d \in 1 .. d /\ \A e \in 1 .. d - 1 : e \in 1 .. d
  BY NestType
<1>2. FirstDead(m, d) <=>
        m[d].state # "active" /\ \A e \in 1 .. d - 1 : m[e].state = "active"
  BY FirstDeadMeans
<1>3. FirstDead(n, d) <=>
        n[d].state # "active" /\ \A e \in 1 .. d - 1 : n[e].state = "active"
  BY FirstDeadMeans
<1> QED
  BY <1>1, <1>2, <1>3

(* Only one conditional is the first.                                      *)
LEMMA OneFirstDead ==
  ASSUME NEW n \in Nests, NEW d \in 1 .. Len(n), NEW e \in 1 .. Len(n),
         FirstDead(n, d), FirstDead(n, e)
  PROVE  d = e
<1>1. \A c \in 1 .. Len(n) : c \in Nat
  BY NestType
<1>2. ~(d < e) /\ ~(e < d)
  <2>1. ASSUME d < e PROVE FALSE
    <3>1. d \in 1 .. e - 1
      BY <1>1, <2>1
    <3> QED
      BY <3>1, FirstDeadMeans
  <2>2. ASSUME e < d PROVE FALSE
    <3>1. e \in 1 .. d - 1
      BY <1>1, <2>2
    <3> QED
      BY <3>1, FirstDeadMeans
  <2> QED
    BY <2>1, <2>2
<1> QED
  BY <1>1, <1>2

LEMMA LiveMeans ==
  ASSUME NEW n \in Nests
  PROVE  /\ S!Live(n) <=> \A d \in 1 .. Len(n) : n[d].state = "active"
         /\ n # <<>> => (S!Live(S!Outer(n)) <=>
                           \A d \in 1 .. Len(n) - 1 : n[d].state = "active")
         /\ n # <<>> => (FirstDead(n, Len(n)) <=>
                           n[Len(n)].state # "active" /\ S!Live(S!Outer(n)))
<1>1. n # <<>> => Len(n) \in 1 .. Len(n)
  BY NestType
<1> QED
  BY <1>1, OuterFacts DEF S!Live, FirstDead, S!Outer

(* The variables tell whether the code is live.                            *)
LEMMA DeadWhenStands ==
  ASSUME NEW n \in Nests, NEW level, NEW past, Stands(n, level, past)
  PROVE  (level = 0 /\ ~past) <=> S!Live(n)
<1>1. \A d \in 1 .. Len(n) : FirstDead(n, d) => ~S!Live(n) /\ Len(n) - d + 1 # 0
  BY NestType, LiveMeans, FirstDeadMeans
<1>2. FirstDead(n, Len(n)) => Len(n) \in 1 .. Len(n)
  BY DEF FirstDead
<1> QED
  BY <1>1, <1>2 DEF Stands

(* .if                                                                     *)
LEMMA OpenedStands ==
  ASSUME NEW n \in Nests, NEW level, NEW past \in BOOLEAN, Stands(n, level, past),
         NEW holds \in BOOLEAN, ~past
  PROVE  /\ S!Opened(n, holds) \in Nests
         /\ Stands(S!Opened(n, holds),
                   IF S!Live(n) THEN (IF holds THEN 0 ELSE 1) ELSE level + 1, past)
<1> DEFINE x == [state   |-> IF ~S!Live(n) THEN "past"
                             ELSE IF holds THEN "active" ELSE "waiting",
                 closing |-> FALSE]
           m == S!Opened(n, holds)
           after == IF S!Live(n) THEN (IF holds THEN 0 ELSE 1) ELSE level + 1
<1> SUFFICES m \in Nests /\ Stands(m, after, past)
  OBVIOUS
<1>1. x \in Clauses
  BY DEF Clauses, States
<1>2. m = Append(n, x)
  BY DEF S!Opened
<1>3. /\ m \in Nests /\ Len(m) = Len(n) + 1 /\ m[Len(n) + 1] = x
      /\ \A d \in 1 .. Len(n) : m[d] = n[d]
  BY <1>1, <1>2, AppendFacts DEF Nests
<1>4. Len(n) \in Nat
  BY NestType
<1>7. /\ S!Live(n) => after = IF holds THEN 0 ELSE 1
      /\ ~S!Live(n) => after = level + 1
  OBVIOUS
<1> HIDE DEF m, after
<1>5. CASE S!Live(n)
  <2>1. x.state = IF holds THEN "active" ELSE "waiting"
    BY <1>5
  <2>2. \A d \in 1 .. Len(n) : m[d].state = "active"
    BY <1>3, <1>5, LiveMeans
  <2>3. CASE holds
    <3>1. \A d \in 1 .. Len(m) : m[d].state = "active"
      BY <1>3, <1>4, <2>1, <2>2, <2>3
    <3> QED
      BY <1>3, <1>5, <1>7, <2>3, <3>1, LiveMeans DEF Stands
  <2>4. CASE ~holds
    <3>1. Len(m) \in 1 .. Len(m) /\ m[Len(m)].state = "waiting"
      BY <1>3, <1>4, <2>1, <2>4
    <3>2. FirstDead(m, Len(m))
      <4>1. \A d \in 1 .. Len(m) - 1 : m[d].state = "active"
        BY <1>3, <1>4, <2>2
      <4> QED
        BY <1>3, <3>1, <4>1, FirstDeadMeans
    <3>3. Len(m) - Len(m) + 1 = 1
      BY <1>3, <1>4
    <3> QED
      BY <1>3, <1>5, <1>7, <2>4, <3>1, <3>2, <3>3 DEF Stands
  <2> QED
    BY <2>3, <2>4
<1>6. CASE ~S!Live(n)
  <2>1. PICK d \in 1 .. Len(n) : /\ FirstDead(n, d) /\ n[d].state = "waiting"
                                 /\ level = Len(n) - d + 1
    BY <1>6 DEF Stands
  <2>2. d \in 1 .. Len(m) /\ m[d].state = "waiting" /\ level + 1 = Len(m) - d + 1
    BY <1>3, <1>4, <2>1
  <2>3. FirstDead(m, d)
    <3>1. \A e \in 1 .. d : m[e].state = n[e].state
      BY <1>3, <1>4
    <3> QED
      BY <1>3, <2>1, <2>2, <3>1, SameStart
  <2> QED
    BY <1>3, <1>6, <1>7, <2>2, <2>3 DEF Stands
<1> QED
  BY <1>3, <1>5, <1>6

(* .endif                                                                  *)
LEMMA EndStands ==
  ASSUME NEW n \in Nests, n # <<>>, NEW level \in Nat, NEW past \in BOOLEAN,
         Stands(n, level, past)
  PROVE  Stands(S!Outer(n), IF level >= 1 THEN level - 1 ELSE 0,
                past /\ (IF level >= 1 THEN level - 1 ELSE 0) # 0)
<1> DEFINE m == S!Outer(n)
<1>1. m \in Nests /\ Len(m) = Len(n) - 1 /\ \A d \in 1 .. Len(n) - 1 : m[d] = n[d]
  BY OuterFacts
<1>2. Len(n) \in Nat /\ Len(n) > 0
  BY NestType
<1>3. CASE S!Live(n) /\ level = 0 /\ ~past
  <2>1. S!Live(m)
    BY <1>1, <1>2, <1>3, LiveMeans
  <2> QED
    BY <1>3, <2>1 DEF Stands
<1>4. CASE FirstDead(n, Len(n)) /\ n[Len(n)].state = "past" /\ level = 0 /\ past
  <2>1. S!Live(m)
    BY <1>4, LiveMeans
  <2> QED
    BY <1>4, <2>1 DEF Stands
<1>5. ASSUME ~past, NEW d \in 1 .. Len(n), FirstDead(n, d), n[d].state = "waiting",
             level = Len(n) - d + 1
      PROVE  Stands(m, IF level >= 1 THEN level - 1 ELSE 0, FALSE)
  <2>1. CASE d = Len(n)
    <3>1. S!Live(m) /\ level = 1
      BY <1>2, <1>5, <2>1, LiveMeans
    <3> QED
      BY <3>1 DEF Stands
  <2>2. CASE d # Len(n)
    <3>1. d \in 1 .. Len(m) /\ level >= 1 /\ level - 1 = Len(m) - d + 1
      BY <1>1, <1>2, <1>5, <2>2
    <3>2. FirstDead(m, d) /\ m[d].state = "waiting"
      <4>1. \A e \in 1 .. d : m[e].state = n[e].state
        BY <1>1, <1>2, <3>1
      <4> QED
        BY <1>1, <1>2, <1>5, <3>1, <4>1, SameStart
    <3> QED
      BY <3>1, <3>2 DEF Stands
  <2> QED
    BY <2>1, <2>2
<1> QED
  <2>1. (past /\ (IF level >= 1 THEN level - 1 ELSE 0) # 0) = FALSE
    BY <1>3, <1>4 DEF Stands
  <2> QED
    BY <1>3, <1>4, <1>5, <2>1 DEF Stands

(* .elif, and .else, whose condition holds.                                *)
LEMMA ClauseStands ==
  ASSUME NEW n \in Nests, n # <<>>, NEW level \in Nat, NEW past \in BOOLEAN,
         Stands(n, level, past), NEW holds \in BOOLEAN, NEW x \in Clauses,
         x.state = S!Switched(n, holds)
  PROVE  /\ Append(S!Outer(n), x) \in Nests
         /\ Stands(Append(S!Outer(n), x),
                   IF ~past /\ level = 1 /\ holds THEN 0 ELSE level,
                   past \/ level = 0)
<1> DEFINE m == Append(S!Outer(n), x)
           after == IF ~past /\ level = 1 /\ holds THEN 0 ELSE level
           passedBy == past \/ level = 0
<1> SUFFICES m \in Nests /\ Stands(m, after, passedBy)
  OBVIOUS
<1>1. Len(n) \in Nat /\ Len(n) > 0 /\ Len(n) \in 1 .. Len(n)
  BY NestType
<1>2. m \in Nests /\ Len(m) = Len(n) /\ m[Len(m)] = x
      /\ \A d \in 1 .. Len(n) - 1 : m[d] = n[d]
  <2>1. /\ S!Outer(n) \in Nests /\ Len(S!Outer(n)) = Len(n) - 1
        /\ \A d \in 1 .. Len(n) - 1 : S!Outer(n)[d] = n[d]
    BY OuterFacts
  <2>2. /\ m \in Nests /\ Len(m) = (Len(n) - 1) + 1 /\ m[(Len(n) - 1) + 1] = x
        /\ \A d \in 1 .. Len(n) - 1 : m[d] = n[d]
    BY <2>1, AppendFacts DEF Nests
  <2> QED
    BY <1>1, <2>2
<1>3. /\ n[Len(n)].state # "waiting" => x.state = "past"
      /\ n[Len(n)].state = "waiting" /\ S!Live(S!Outer(n)) =>
           x.state = IF holds THEN "active" ELSE "waiting"
  BY DEF S!Switched, S!Top
<1>9. /\ level = 0 => after = 0 /\ passedBy
      /\ level # 0 /\ ~past => ~passedBy
      /\ level = 1 /\ ~past => after = IF holds THEN 0 ELSE 1
      /\ level # 1 => after = level
  OBVIOUS
<1> HIDE DEF m, after, passedBy
<1>4. FirstDead(m, Len(m)) <=> x.state # "active" /\ S!Live(S!Outer(n))
  <2>1. FirstDead(m, Len(m)) <=>
          m[Len(m)].state # "active" /\ \A e \in 1 .. Len(m) - 1 : m[e].state = "active"
    BY <1>1, <1>2, FirstDeadMeans
  <2>2. S!Live(S!Outer(n)) <=> \A d \in 1 .. Len(n) - 1 : n[d].state = "active"
    BY LiveMeans
  <2> QED
    BY <1>2, <2>1, <2>2
<1>5. S!Live(m) <=> x.state = "active" /\ S!Live(S!Outer(n))
  <2>1. S!Live(m) <=> \A d \in 1 .. Len(n) : m[d].state = "active"
    BY <1>2, LiveMeans
  <2>2. S!Live(S!Outer(n)) <=> \A d \in 1 .. Len(n) - 1 : m[d].state = "active"
    BY <1>2, LiveMeans
  <2> QED
    BY <1>1, <1>2, <2>1, <2>2
<1>6. CASE S!Live(n) /\ level = 0 /\ ~past
  <2>1. n[Len(n)].state = "active" /\ S!Live(S!Outer(n))
    BY <1>1, <1>6, LiveMeans
  <2>2. x.state = "past" /\ after = 0 /\ passedBy
    BY <1>3, <1>6, <1>9, <2>1
  <2> QED
    BY <1>2, <1>4, <2>1, <2>2 DEF Stands
<1>7. CASE FirstDead(n, Len(n)) /\ n[Len(n)].state = "past" /\ level = 0 /\ past
  <2>1. S!Live(S!Outer(n))
    BY <1>7, LiveMeans
  <2>2. x.state = "past" /\ after = 0 /\ passedBy
    BY <1>3, <1>7, <1>9
  <2> QED
    BY <1>2, <1>4, <2>1, <2>2 DEF Stands
<1>8. ASSUME ~past, NEW d \in 1 .. Len(n), FirstDead(n, d), n[d].state = "waiting",
             level = Len(n) - d + 1
      PROVE  Stands(m, after, passedBy)
  <2>1. d \in Nat /\ level > 0 /\ ~passedBy /\ d \in 1 .. Len(m)
    BY <1>1, <1>2, <1>8, <1>9
  <2>2. CASE d = Len(n)
    <3>1. S!Live(S!Outer(n)) /\ level = 1
      BY <1>1, <1>8, <2>2, LiveMeans
    <3>2. x.state = IF holds THEN "active" ELSE "waiting"
      BY <1>3, <1>8, <2>2, <3>1
    <3>3. after = IF holds THEN 0 ELSE 1
      BY <1>8, <1>9, <3>1
    <3>4. CASE holds
      BY <1>5, <2>1, <3>1, <3>2, <3>3, <3>4 DEF Stands
    <3>5. CASE ~holds
      <4>1. m[d].state = "waiting" /\ FirstDead(m, d) /\ after = Len(m) - d + 1
        BY <1>1, <1>2, <1>4, <2>2, <3>1, <3>2, <3>3, <3>5
      <4> QED
        BY <2>1, <4>1 DEF Stands
    <3> QED
      BY <3>4, <3>5
  <2>3. CASE d # Len(n)
    <3>1. level # 1 /\ after = Len(m) - d + 1
      BY <1>1, <1>2, <1>8, <1>9, <2>1, <2>3
    <3>2. \A e \in 1 .. d : m[e].state = n[e].state
      BY <1>1, <1>2, <2>1, <2>3
    <3>3. FirstDead(m, d) /\ m[d].state = "waiting"
      <4>1. d \in 1 .. d
        BY <2>1
      <4> QED
        BY <1>2, <1>8, <2>1, <3>2, <4>1, SameStart
    <3> QED
      BY <2>1, <3>1, <3>3 DEF Stands
  <2> QED
    BY <2>2, <2>3
<1> QED
  BY <1>2, <1>6, <1>7, <1>8 DEF Stands
-----------------------------------------------------------------------------
(* Where the parser can be in a line: the directive is still to come ...   *)
Ahead(l) ==
  IF l.kind = "plain" THEN {<<"word", "newline">>, <<"newline">>}
                      ELSE {<<"word">> \o Directive(l), Directive(l)}

BeforeDirective == rest \in Ahead(line) /\ directive = "none" /\ ~parsing_conditional

(* ... or it has been shifted; in dead code, because it was recognised.    *)
BehindDirective ==
  /\ line.kind # "plain" /\ directive = line.kind
  /\ rest \in {<<"expression", "newline">>, <<"newline">>}
  /\ Dead => parsing_conditional

BetweenLines == rest = <<>> /\ directive = "none" /\ ~parsing_conditional

Types ==
  /\ false_if_level \in Nat /\ past_true_if_clause \in BOOLEAN
  /\ parsing_conditional \in BOOLEAN /\ is_line_start \in BOOLEAN
  /\ line_number \in Nat /\ lines \in Nat /\ line \in Lines
  /\ nest \in Nests

(* Nothing of a line is left behind when the next one is read; a dead line *)
(* is looked at from its start; a line is counted at its end.              *)
LineInv ==
  /\ BetweenLines \/ BeforeDirective \/ BehindDirective
  /\ BetweenLines \/ BeforeDirective => (Dead => is_line_start)
  /\ line_number = IF rest = <<>> THEN lines + 1 ELSE lines

(* Of the line being read: it belongs to its conditional.                  *)
SourceInv == rest # <<>> => Fitting(line)

FilterInv == Stands(nest, false_if_level, past_true_if_clause)
-----------------------------------------------------------------------------
(* The tokens of a line.                                                   *)
Words == {"word", "expression", "newline"} \cup Conditionals

LEMMA HeadOfLine ==
  ASSUME NEW s \in Seq(Words)
  PROVE  /\ <<"word">> \o s # <<>> /\ Head(<<"word">> \o s) = "word"
         /\ Tail(<<"word">> \o s) = s
<1>1. ASSUME NEW W, NEW t \in Seq(W), NEW w \in W
      PROVE  <<w>> \o t # <<>> /\ Head(<<w>> \o t) = w /\ Tail(<<w>> \o t) = t
  OBVIOUS
<1> QED
  BY <1>1 DEF Words

LEMMA DirectiveTokens ==
  ASSUME NEW l \in Lines, l.kind # "plain"
  PROVE  /\ Directive(l) \in Seq(Words) /\ Directive(l) # <<>>
         /\ Head(Directive(l)) = l.kind /\ l.kind \in Conditionals
         /\ Tail(Directive(l)) \in {<<"expression", "newline">>, <<"newline">>}
<1>1. l.kind \in Conditionals
  BY DEF Lines, Conditionals
<1>2. l.kind \in Words /\ "expression" \in Words /\ "newline" \in Words
  BY <1>1 DEF Words
<1> DEFINE k == l.kind
<1>3. <<k, "expression", "newline">> \in Seq(Words) /\ <<k, "newline">> \in Seq(Words)
  BY <1>2
<1>4. /\ <<k, "expression", "newline">> # <<>> /\ <<k, "newline">> # <<>>
      /\ Head(<<k, "expression", "newline">>) = k /\ Head(<<k, "newline">>) = k
      /\ Tail(<<k, "expression", "newline">>) = <<"expression", "newline">>
      /\ Tail(<<k, "newline">>) = <<"newline">>
  OBVIOUS
<1> QED
  BY <1>1, <1>3, <1>4 DEF Directive

(* The five places in a line: at its label or at the word it is, at its    *)
(* directive, at its end if it is plain, at the expression, at the end.    *)
AtWord ==
  BeforeDirective /\ Head(rest) = "word" /\ Tail(rest) \in Ahead(line)

AtDirective ==
  /\ BeforeDirective /\ line.kind \in Conditionals /\ Head(rest) = line.kind
  /\ Tail(rest) \in {<<"expression", "newline">>, <<"newline">>}

AtPlainEnd ==
  BeforeDirective /\ line.kind = "plain" /\ Head(rest) = "newline" /\ Tail(rest) = <<>>

AtExpression ==
  BehindDirective /\ Head(rest) = "expression" /\ Tail(rest) = <<"newline">>

AtEnd == BehindDirective /\ Head(rest) = "newline" /\ Tail(rest) = <<>>

LEMMA PlacesInLine ==
  ASSUME Types, LineInv, rest # <<>>
  PROVE  AtWord \/ AtDirective \/ AtPlainEnd \/ AtExpression \/ AtEnd
<1>0. /\ Head(<<"word", "newline">>) = "word" /\ Tail(<<"word", "newline">>) = <<"newline">>
      /\ Head(<<"newline">>) = "newline" /\ Tail(<<"newline">>) = <<>>
      /\ Head(<<"expression", "newline">>) = "expression"
      /\ Tail(<<"expression", "newline">>) = <<"newline">>
  OBVIOUS
<1>1. CASE BeforeDirective /\ line.kind = "plain"
  <2>1. rest = <<"word", "newline">> \/ rest = <<"newline">>
    BY <1>1 DEF BeforeDirective, Ahead
  <2>2. <<"newline">> \in Ahead(line)
    BY <1>1 DEF Ahead
  <2> QED
    BY <1>0, <1>1, <2>1, <2>2 DEF AtWord, AtPlainEnd
<1>2. CASE BeforeDirective /\ line.kind # "plain"
  <2>1. /\ Directive(line) \in Seq(Words) /\ Head(Directive(line)) = line.kind
        /\ line.kind \in Conditionals
        /\ Tail(Directive(line)) \in {<<"expression", "newline">>, <<"newline">>}
    BY <1>2, DirectiveTokens DEF Types
  <2>2. /\ Head(<<"word">> \o Directive(line)) = "word"
        /\ Tail(<<"word">> \o Directive(line)) = Directive(line)
    BY <2>1, HeadOfLine
  <2>3. rest = <<"word">> \o Directive(line) \/ rest = Directive(line)
    BY <1>2 DEF BeforeDirective, Ahead
  <2>4. Directive(line) \in Ahead(line)
    BY <1>2 DEF Ahead
  <2> QED
    BY <1>2, <2>1, <2>2, <2>3, <2>4 DEF AtWord, AtDirective
<1>3. CASE BehindDirective
  BY <1>0, <1>3 DEF BehindDirective, AtExpression, AtEnd
<1> QED
  BY <1>1, <1>2, <1>3 DEF LineInv, BetweenLines

(* A line has not ended while a word or its directive is to come.          *)
LEMMA AheadIsLine ==
  ASSUME NEW l \in Lines
  PROVE  <<>> \notin Ahead(l) /\ Tokens(l) \in Ahead(l)
<1>1. CASE l.kind = "plain"
  BY <1>1 DEF Ahead, Tokens
<1>2. CASE l.kind # "plain"
  <2>1. Directive(l) \in Seq(Words) /\ Directive(l) # <<>>
    BY <1>2, DirectiveTokens
  <2>2. <<>> \o Directive(l) = Directive(l) /\ <<"word">> \o Directive(l) # <<>>
    BY <2>1, HeadOfLine
  <2> QED
    BY <1>2, <2>1, <2>2 DEF Ahead, Tokens
<1> QED
  BY <1>1, <1>2

LEMMA LineGoesOn ==
  ASSUME Types
  PROVE  /\ BeforeDirective \/ BehindDirective => rest # <<>>
         /\ AtWord \/ AtDirective \/ AtExpression => Tail(rest) # <<>>
<1>1. <<"expression", "newline">> # <<>> /\ <<"newline">> # <<>>
  OBVIOUS
<1>2. line \in Lines
  BY DEF Types
<1>3. <<>> \notin Ahead(line)
  BY <1>2, AheadIsLine
<1> QED
  BY <1>1, <1>3 DEF BeforeDirective, BehindDirective, AtWord, AtDirective, AtExpression
-----------------------------------------------------------------------------
LEMMA InitLine == Init => Types /\ LineInv /\ SourceInv /\ FilterInv
<1> SUFFICES ASSUME Init PROVE Types /\ LineInv /\ SourceInv /\ FilterInv
  OBVIOUS
<1>1. line \in Lines
  BY DEF Init, Lines, Conditionals
<1>2. nest \in Nests /\ Len(nest) = 0
  BY DEF Init, Nests
<1>3. S!Live(nest)
  BY <1>2 DEF S!Live
<1>4. Types
  BY <1>1, <1>2 DEF Init, Types
<1>5. LineInv /\ SourceInv
  BY DEF Init, LineInv, BetweenLines, SourceInv, Dead
<1>6. FilterInv
  BY <1>3 DEF Init, FilterInv, Stands
<1> QED
  BY <1>4, <1>5, <1>6

(* A step at a label or a word, at a directive, at the end of a plain line,*)
(* at an expression, at the end of a conditional line.                     *)
LEMMA DropWhere ==
  ASSUME Types, LineInv, DropToken
  PROVE  AtWord \/ AtPlainEnd
<1>1. rest # <<>> /\ Dead /\ ~Recognised(Head(rest)) /\ ~parsing_conditional
  BY DEF DropToken
<1>2. ~AtDirective
  BY <1>1 DEF AtDirective, BeforeDirective, LineInv, Recognised
<1>3. ~BehindDirective
  BY <1>1 DEF BehindDirective
<1> QED
  BY <1>1, <1>2, <1>3, PlacesInLine DEF AtExpression, AtEnd

LEMMA PassWhere ==
  ASSUME Types, LineInv, PassToken
  PROVE  \/ AtWord /\ ~Dead
         \/ AtDirective
         \/ AtPlainEnd /\ ~Dead
         \/ AtExpression
         \/ AtEnd
<1>1. rest # <<>> /\ (Dead => Recognised(Head(rest)) \/ parsing_conditional)
  BY DEF PassToken
<1>2. AtWord \/ AtPlainEnd => ~Dead
  BY <1>1 DEF AtWord, AtPlainEnd, BeforeDirective, Recognised, Conditionals
<1> QED
  BY <1>1, <1>2, PlacesInLine

(* What the last token of a line makes of the stack.                       *)
LEMMA NestedType ==
  ASSUME Types, SourceInv, rest # <<>>
  PROVE  Nested \in Nests
<1>1. nest \in Nests /\ line \in Lines /\ Fitting(line)
  BY DEF Types, SourceInv
<1>2. line.holds \in BOOLEAN
  BY <1>1 DEF Lines
<1>3. \A n \in Nests, x \in Clauses : Append(n, x) \in Nests
  BY AppendFacts DEF Nests
<1>4. \A n, holds : S!Switched(n, holds) \in States
  BY DEF S!Switched, States
<1>5. CASE line.kind = "if"
  <2>1. S!Opened(nest, line.holds) \in Nests
    BY <1>1, <1>3 DEF S!Opened, Clauses, States
  <2> QED
    BY <1>5, <2>1 DEF Nested
<1>6. CASE line.kind = "elif"
  <2>1. S!Outer(nest) \in Nests
    BY <1>1, <1>6, OuterFacts DEF Fitting
  <2>2. [state |-> S!Switched(nest, line.holds), closing |-> FALSE] \in Clauses
    BY <1>4 DEF Clauses
  <2>3. S!Alternative(nest, line.holds) \in Nests
    BY <1>3, <2>1, <2>2 DEF S!Alternative
  <2> QED
    BY <1>6, <2>3 DEF Nested
<1>7. CASE line.kind = "else"
  <2>1. S!Outer(nest) \in Nests
    BY <1>1, <1>7, OuterFacts DEF Fitting
  <2>2. [state |-> S!Switched(nest, TRUE), closing |-> TRUE] \in Clauses
    BY <1>4 DEF Clauses
  <2>3. S!Otherwise(nest) \in Nests
    BY <1>3, <2>1, <2>2 DEF S!Otherwise
  <2> QED
    BY <1>7, <2>3 DEF Nested
<1>8. CASE line.kind = "endif"
  <2>1. S!Outer(nest) \in Nests
    BY <1>1, <1>8, OuterFacts DEF Fitting
  <2> QED
    BY <1>8, <2>1 DEF Nested
<1>9. CASE line.kind = "plain"
  BY <1>1, <1>9 DEF Nested
<1> QED
  BY <1>1, <1>5, <1>6, <1>7, <1>8, <1>9 DEF Lines, Conditionals

LEMMA ReduceType ==
  ASSUME Types, Reduce
  PROVE  false_if_level' \in Nat /\ past_true_if_clause' \in BOOLEAN
<1>1. false_if_level \in Nat /\ past_true_if_clause \in BOOLEAN
  BY DEF Types
<1>2. \A h : HandleIf(h) => false_if_level' \in Nat /\ past_true_if_clause' \in BOOLEAN
  BY <1>1 DEF HandleIf
<1>3. \A h : HandleElse(h) => false_if_level' \in Nat /\ past_true_if_clause' \in BOOLEAN
  BY <1>1 DEF HandleElse
<1>4. HandleEnd => false_if_level' \in Nat /\ past_true_if_clause' \in BOOLEAN
  BY <1>1 DEF HandleEnd
<1> QED
  BY <1>1, <1>2, <1>3, <1>4 DEF Reduce
-----------------------------------------------------------------------------
Inv == Types /\ LineInv /\ SourceInv

LEMMA BeginLineInv == Inv /\ BeginLine => Inv'
<1> SUFFICES ASSUME Inv, BeginLine PROVE Inv'
  OBVIOUS
<1> USE DEF Inv
<1>1. PICK l \in Lines : Fitting(l) /\ line' = l /\ rest' = Tokens(l)
  BY DEF BeginLine
<1>2. /\ rest = <<>> /\ lines' = lines + 1
      /\ UNCHANGED <<filter, line_number, directive, nest, passed>>
  BY DEF BeginLine
<1>3. BetweenLines
  BY <1>2, LineGoesOn DEF LineInv
<1>4. rest' \in Ahead(l) /\ rest' # <<>>
  BY <1>1, AheadIsLine
<1>5. Types'
  BY <1>1, <1>2 DEF Types, filter
<1>6. BeforeDirective'
  BY <1>1, <1>2, <1>3, <1>4 DEF BeforeDirective, BetweenLines, Ahead, filter
<1>7. (Dead => is_line_start)'
  BY <1>2, <1>3 DEF LineInv, Dead, filter
<1>8. (line_number = IF rest = <<>> THEN lines + 1 ELSE lines)'
  BY <1>2, <1>4 DEF LineInv
<1>9. SourceInv'
  BY <1>1, <1>2 DEF SourceInv, Fitting, InPast
<1> QED
  BY <1>5, <1>6, <1>7, <1>8, <1>9 DEF LineInv

LEMMA DropTokenInv == Inv /\ DropToken => Inv'
<1> SUFFICES ASSUME Inv, DropToken PROVE Inv'
  OBVIOUS
<1> USE DEF Inv
<1>1. /\ rest # <<>> /\ rest' = Tail(rest)
      /\ is_line_start' = (is_line_start \/ Head(rest) = "newline")
      /\ line_number' = LineAfter(Head(rest))
      /\ nest' = IF Head(rest) = "newline" THEN Nested ELSE nest
      /\ UNCHANGED <<false_if_level, past_true_if_clause, parsing_conditional,
                     line, directive, lines>>
  BY DEF DropToken
<1>2. AtWord \/ AtPlainEnd
  BY DropWhere
<1>3. BeforeDirective /\ (Dead => is_line_start)
  BY <1>2 DEF AtWord, AtPlainEnd, LineInv
<1>4. Types'
  <2>1. nest' \in Nests
    BY <1>1, NestedType DEF Types
  <2> QED
    BY <1>1, <2>1 DEF Types, LineAfter
<1>5. (Dead => is_line_start)'
  BY <1>1, <1>3 DEF Dead
<1>6. line_number = lines
  BY <1>1 DEF LineInv
<1>7. CASE AtWord
  <2>1. rest' \in Ahead(line) /\ rest' # <<>> /\ Head(rest) = "word"
    BY <1>1, <1>7, LineGoesOn DEF AtWord
  <2>2. BeforeDirective'
    BY <1>1, <1>3, <2>1 DEF BeforeDirective, Ahead
  <2>3. SourceInv'
    BY <1>1, <2>1 DEF SourceInv, Fitting, InPast
  <2>4. line_number' = lines'
    BY <1>1, <1>6, <2>1 DEF LineAfter
  <2> QED
    BY <1>4, <1>5, <2>1, <2>2, <2>3, <2>4 DEF LineInv
<1>8. CASE AtPlainEnd
  <2>1. rest' = <<>> /\ line_number' = lines' + 1
    BY <1>1, <1>6, <1>8 DEF AtPlainEnd, LineAfter
  <2>2. BetweenLines'
    BY <1>1, <1>3, <2>1 DEF BetweenLines, BeforeDirective
  <2> QED
    BY <1>4, <1>5, <2>1, <2>2 DEF LineInv, SourceInv
<1> QED
  BY <1>2, <1>7, <1>8

(* What every PassToken does, and what it does before the end of a line.   *)
LEMMA PassTokenMeans ==
  ASSUME PassToken
  PROVE  /\ rest # <<>> /\ rest' = Tail(rest)
         /\ is_line_start' = (Head(rest) = "newline")
         /\ parsing_conditional' =
              ((parsing_conditional \/ (Dead /\ Recognised(Head(rest))))
                 /\ Head(rest) # "newline")
         /\ passed' = IF Head(rest) = "word" THEN TRUE ELSE passed
         /\ line_number' = LineAfter(Head(rest))
         /\ UNCHANGED <<line, lines>>
         /\ Head(rest) = "newline" => Reduce /\ directive' = "none" /\ nest' = Nested
         /\ Head(rest) # "newline" =>
              /\ directive' = IF Head(rest) \in Conditionals THEN Head(rest) ELSE directive
              /\ UNCHANGED <<false_if_level, past_true_if_clause, nest>>
BY DEF PassToken

LEMMA PassTokenInv == Inv /\ PassToken => Inv'
<1> SUFFICES ASSUME Inv, PassToken PROVE Inv'
  OBVIOUS
<1> USE DEF Inv
<1> DEFINE t == Head(rest)
<1>1. /\ rest # <<>> /\ rest' = Tail(rest)
      /\ is_line_start' = (t = "newline")
      /\ parsing_conditional' =
           ((parsing_conditional \/ (Dead /\ Recognised(t))) /\ t # "newline")
      /\ line_number' = LineAfter(t)
      /\ UNCHANGED <<line, lines>>
  BY PassTokenMeans
<1>2. t # "newline" =>
        /\ directive' = IF t \in Conditionals THEN t ELSE directive
        /\ UNCHANGED <<false_if_level, past_true_if_clause, nest>>
  BY PassTokenMeans
<1>3. t = "newline" => Reduce /\ directive' = "none" /\ nest' = Nested
  BY PassTokenMeans
<1>4. Types'
  <2>1. nest' \in Nests
    BY <1>1, <1>2, <1>3, NestedType DEF Types
  <2>2. false_if_level' \in Nat /\ past_true_if_clause' \in BOOLEAN
    BY <1>2, <1>3, ReduceType DEF Types
  <2>3. parsing_conditional' \in BOOLEAN /\ is_line_start' \in BOOLEAN
    BY <1>1
  <2> QED
    BY <1>1, <2>1, <2>2, <2>3 DEF Types, LineAfter
<1>5. line_number = lines
  BY <1>1 DEF LineInv
<1>6. t # "newline" => SourceInv' /\ (Dead' <=> Dead)
  BY <1>1, <1>2 DEF SourceInv, Fitting, InPast, Dead
<1>7. t = "newline" => line_number' = lines' + 1 /\ is_line_start'
  BY <1>1, <1>5 DEF LineAfter
<1>8. t # "newline" => line_number' = lines'
  BY <1>1, <1>5 DEF LineAfter
<1>13. t # "newline" =>
         (parsing_conditional' <=> (parsing_conditional \/ (Dead /\ Recognised(t))))
  BY <1>1
<1> HIDE DEF t
<1>9. CASE AtWord /\ ~Dead
  <2>1. rest' \in Ahead(line) /\ rest' # <<>> /\ t = "word" /\ BeforeDirective
    BY <1>1, <1>9, LineGoesOn DEF AtWord, t
  <2>3. ~parsing_conditional' /\ ~Dead' /\ directive' = "none"
    BY <1>2, <1>6, <1>9, <1>13, <2>1 DEF BeforeDirective, Conditionals
  <2>4. Ahead(line)' = Ahead(line)
    BY <1>1 DEF Ahead
  <2>2. BeforeDirective' /\ ~Dead'
    BY <2>1, <2>3, <2>4 DEF BeforeDirective
  <2> QED
    BY <1>4, <1>6, <1>8, <2>1, <2>2 DEF LineInv
<1>10. CASE AtDirective
  <2>1. /\ BeforeDirective /\ t \in Conditionals /\ t = line.kind /\ rest' # <<>>
        /\ rest' \in {<<"expression", "newline">>, <<"newline">>}
    BY <1>1, <1>10, LineGoesOn DEF AtDirective, t
  <2>2. t # "newline" /\ line.kind # "plain"
    BY <2>1 DEF Conditionals
  <2>3. Dead => Recognised(t)
    BY <2>1 DEF LineInv, Recognised
  <2>5. directive' = line.kind /\ line' = line /\ directive' # "none"
    BY <1>1, <1>2, <2>1, <2>2 DEF Conditionals
  <2>6. Dead' => parsing_conditional'
    BY <1>6, <1>13, <2>2, <2>3
  <2>7. ~BeforeDirective' /\ ~BetweenLines'
    BY <2>5 DEF BeforeDirective, BetweenLines
  <2>4. BehindDirective' /\ ~BeforeDirective' /\ ~BetweenLines'
    BY <2>1, <2>2, <2>5, <2>6, <2>7 DEF BehindDirective
  <2> QED
    BY <1>4, <1>6, <1>8, <2>1, <2>2, <2>4 DEF LineInv
<1>11. CASE AtPlainEnd \/ AtEnd
  <2>1. t = "newline" /\ rest' = <<>>
    BY <1>1, <1>11 DEF AtPlainEnd, AtEnd, t
  <2>2. BetweenLines'
    BY <1>1, <1>3, <2>1 DEF BetweenLines, t
  <2> QED
    BY <1>4, <1>7, <2>1, <2>2 DEF LineInv, SourceInv
<1>12. CASE AtExpression
  <2>1. /\ BehindDirective /\ t = "expression" /\ rest' = <<"newline">> /\ rest' # <<>>
    BY <1>1, <1>12, LineGoesOn DEF AtExpression, t
  <2>2. t # "newline" /\ t \notin Conditionals
    BY <2>1 DEF Conditionals
  <2>6. directive' = directive /\ line' = line /\ (Dead' => parsing_conditional')
    BY <1>1, <1>2, <1>6, <1>13, <2>1, <2>2 DEF BehindDirective
  <2>3. BehindDirective'
    BY <2>1, <2>6 DEF BehindDirective
  <2>4. directive' # "none"
    BY <2>3, <1>4 DEF BehindDirective, Types, Lines, Conditionals
  <2>5. ~BeforeDirective' /\ ~BetweenLines'
    BY <2>4 DEF BeforeDirective, BetweenLines
  <2> QED
    BY <1>4, <1>6, <1>8, <2>1, <2>2, <2>3, <2>5 DEF LineInv
<1> QED
  BY <1>9, <1>10, <1>11, <1>12, PassWhere

LEMMA NextInv == Inv /\ [Next]_vars => Inv'
<1> SUFFICES ASSUME Inv, [Next]_vars PROVE Inv'
  OBVIOUS
<1>1. CASE BeginLine
  BY <1>1, BeginLineInv
<1>2. CASE DropToken
  BY <1>2, DropTokenInv
<1>3. CASE PassToken
  BY <1>3, PassTokenInv
<1>4. CASE UNCHANGED vars
  <2>1. UNCHANGED <<false_if_level, past_true_if_clause, parsing_conditional,
                    is_line_start, line_number, line, rest, directive, lines, nest>>
    BY <1>4 DEF vars, filter
  <2> QED
    BY <2>1 DEF Inv, Types, LineInv, SourceInv, BetweenLines, BeforeDirective,
                BehindDirective, Ahead, Dead, Fitting, InPast
<1> QED
  BY <1>1, <1>2, <1>3, <1>4 DEF Next, EndOfInput

LEMMA InvHolds == Spec => []Inv
<1>1. Init => Inv
  BY InitLine DEF Inv
<1> QED
  BY <1>1, NextInv, PTL DEF Spec
-----------------------------------------------------------------------------
(* Where no .if is in a clause after the active one, the filter is not     *)
(* past the active clause when a line opens a conditional.                 *)
LEMMA NotPast ==
  ASSUME Inv, FilterInv, ~NestInPast, rest # <<>>, line.kind = "if"
  PROVE  ~past_true_if_clause
<1>1. ~InPast
  BY DEF Inv, SourceInv, Fitting
<1>2. ~(FirstDead(nest, Len(nest)) /\ nest[Len(nest)].state = "past")
  BY <1>1 DEF FirstDead, InPast
<1> QED
  BY <1>2 DEF FilterInv, Stands

(* The handlers do to the two variables what the line does to the stack.   *)
LEMMA NestedStands ==
  ASSUME Inv, FilterInv, ~NestInPast, rest # <<>>, Reduce,
         (line.kind = "plain" /\ directive = "none") \/ directive = line.kind
  PROVE  Stands(Nested, false_if_level', past_true_if_clause')
<1> DEFINE level == false_if_level
           past  == past_true_if_clause
<1>1. /\ nest \in Nests /\ line \in Lines /\ Fitting(line)
      /\ level \in Nat /\ past \in BOOLEAN /\ Stands(nest, level, past)
  BY DEF Inv, Types, SourceInv, FilterInv
<1>2. line.holds \in BOOLEAN
  BY <1>1 DEF Lines
<1>3. Dead <=> ~S!Live(nest)
  BY <1>1, DeadWhenStands DEF Dead
<1>4. \A n, h : S!Switched(n, h) \in States
  BY DEF S!Switched, States
<1>5. CASE line.kind = "if"
  <2>1. HandleIf(line.holds) /\ ~past
    BY <1>5, NotPast DEF Reduce
  <2>2. /\ level' = IF S!Live(nest) THEN (IF line.holds THEN 0 ELSE 1) ELSE level + 1
        /\ past' = past
    BY <1>3, <2>1 DEF HandleIf
  <2>3. Nested = S!Opened(nest, line.holds)
    BY <1>5 DEF Nested
  <2> QED
    BY <1>1, <1>2, <2>1, <2>2, <2>3, OpenedStands
<1>6. ASSUME NEW h \in BOOLEAN, NEW c \in BOOLEAN, HandleElse(h), nest # <<>>
      PROVE  Stands(Append(S!Outer(nest), [state |-> S!Switched(nest, h), closing |-> c]),
                    level', past')
  <2>1. /\ past' = (past \/ level = 0)
        /\ level' = IF ~past /\ level = 1 /\ h THEN 0 ELSE level
    BY <1>6 DEF HandleElse
  <2> DEFINE x == [state |-> S!Switched(nest, h), closing |-> c]
  <2>2. x \in Clauses /\ x.state = S!Switched(nest, h)
    BY <1>4 DEF Clauses
  <2> HIDE DEF x
  <2>3. Stands(Append(S!Outer(nest), x),
               IF ~past /\ level = 1 /\ h THEN 0 ELSE level, past \/ level = 0)
    BY <1>1, <1>6, <2>2, ClauseStands
  <2> QED
    BY <2>1, <2>3 DEF x
<1>7. CASE line.kind = "elif"
  <2>1. HandleElse(line.holds) /\ nest # <<>>
    BY <1>1, <1>7 DEF Reduce, Fitting
  <2>2. Nested = Append(S!Outer(nest),
                        [state |-> S!Switched(nest, line.holds), closing |-> FALSE])
    BY <1>7 DEF Nested, S!Alternative
  <2> QED
    BY <1>2, <1>6, <2>1, <2>2
<1>8. CASE line.kind = "else"
  <2>1. HandleElse(TRUE) /\ nest # <<>>
    BY <1>1, <1>8 DEF Reduce, Fitting
  <2>2. Nested = Append(S!Outer(nest),
                        [state |-> S!Switched(nest, TRUE), closing |-> TRUE])
    BY <1>8 DEF Nested, S!Otherwise
  <2> QED
    BY <1>6, <2>1, <2>2
<1>9. CASE line.kind = "endif"
  <2>1. HandleEnd /\ nest # <<>>
    BY <1>1, <1>9 DEF Reduce, Fitting
  <2>2. /\ level' = IF level >= 1 THEN level - 1 ELSE 0
        /\ past' = (past /\ level' # 0)
    BY <2>1 DEF HandleEnd
  <2>3. Nested = S!Outer(nest)
    BY <1>9 DEF Nested
  <2>4. Stands(S!Outer(nest), IF level >= 1 THEN level - 1 ELSE 0,
               past /\ (IF level >= 1 THEN level - 1 ELSE 0) # 0)
    BY <1>1, <2>1, EndStands
  <2> QED
    BY <2>2, <2>3, <2>4
<1>10. CASE line.kind = "plain"
  <2>1. Nested = nest
    BY <1>10 DEF Nested
  <2>2. UNCHANGED <<level, past>>
    BY <1>10 DEF Reduce
  <2> QED
    BY <1>1, <2>1, <2>2
<1> QED
  BY <1>1, <1>5, <1>7, <1>8, <1>9, <1>10 DEF Lines, Conditionals

LEMMA FilterStands == ~NestInPast /\ Inv /\ FilterInv /\ [Next]_vars => FilterInv'
<1> SUFFICES ASSUME ~NestInPast, Inv, FilterInv, [Next]_vars PROVE FilterInv'
  OBVIOUS
<1>1. CASE UNCHANGED <<false_if_level, past_true_if_clause, nest>>
  BY <1>1 DEF FilterInv
<1>2. CASE BeginLine \/ EndOfInput \/ UNCHANGED vars
  BY <1>1, <1>2 DEF BeginLine, EndOfInput, vars, filter
<1>3. CASE DropToken
  <2>1. Head(rest) = "newline" => line.kind = "plain"
    BY <1>3, DropWhere DEF Inv, AtWord, AtPlainEnd
  <2>2. nest' = nest
    BY <1>3, <2>1 DEF DropToken, Nested
  <2> QED
    BY <1>1, <1>3, <2>2 DEF DropToken
<1>4. CASE PassToken
  <2>1. CASE Head(rest) # "newline"
    BY <1>1, <1>4, <2>1, PassTokenMeans
  <2>2. CASE Head(rest) = "newline"
    <3>1. AtPlainEnd \/ AtEnd
      BY <1>4, <2>2, PassWhere
         DEF Inv, AtWord, AtDirective, AtExpression, Conditionals
    <3>2. (line.kind = "plain" /\ directive = "none") \/ directive = line.kind
      BY <3>1 DEF AtPlainEnd, AtEnd, BeforeDirective, BehindDirective
    <3>3. rest # <<>> /\ Reduce /\ nest' = Nested
      BY <1>4, <2>2, PassTokenMeans
    <3>4. Stands(Nested, false_if_level', past_true_if_clause')
      BY <3>2, <3>3, NestedStands
    <3> QED
      BY <3>3, <3>4 DEF FilterInv
  <2> QED
    BY <2>1, <2>2
<1> QED
  BY <1>2, <1>3, <1>4 DEF Next
-----------------------------------------------------------------------------
(* Each step of the filter is one of the stack, or none.                   *)
LEMMA StepImplements ==
  ~NestInPast /\ Inv /\ FilterInv /\ [Next]_vars => [S!Next]_<<nest, passed>>
<1> SUFFICES ASSUME ~NestInPast, Inv, FilterInv, [Next]_vars
             PROVE  S!Next \/ UNCHANGED <<nest, passed>>
  OBVIOUS
<1>1. Dead <=> ~S!Live(nest)
  BY DeadWhenStands DEF Inv, Types, FilterInv, Dead
<1>2. CASE BeginLine \/ EndOfInput \/ UNCHANGED vars
  BY <1>2 DEF BeginLine, EndOfInput, vars, filter
<1>3. CASE DropToken
  <2>1. Head(rest) = "newline" => line.kind = "plain"
    BY <1>3, DropWhere DEF Inv, AtWord, AtPlainEnd
  <2>2. nest' = nest /\ passed' = IF Head(rest) = "word" THEN FALSE ELSE passed
    BY <1>3, <2>1 DEF DropToken, Nested
  <2>3. S!Live(nest) = FALSE
    BY <1>1, <1>3 DEF DropToken
  <2> QED
    BY <2>2, <2>3 DEF S!Next, S!Word
<1>4. CASE PassToken
  <2>1. /\ rest # <<>> /\ passed' = IF Head(rest) = "word" THEN TRUE ELSE passed
        /\ Head(rest) # "newline" => nest' = nest
        /\ Head(rest) = "newline" => nest' = Nested
    BY <1>4, PassTokenMeans
  <2>2. CASE Head(rest) = "word"
    <3>1. AtWord /\ ~Dead
      BY <1>4, <2>2, PassWhere
         DEF Inv, AtDirective, AtPlainEnd, AtExpression, AtEnd, Conditionals
    <3>2. S!Live(nest) = TRUE
      BY <1>1, <3>1 DEF S!Live
    <3> QED
      BY <2>1, <2>2, <3>2 DEF S!Next, S!Word
  <2>3. CASE Head(rest) = "newline"
    <3>1. passed' = passed /\ nest' = Nested
      BY <2>1, <2>3
    <3>2. line.holds \in BOOLEAN /\ Fitting(line) /\ line \in Lines
      BY <2>1 DEF Inv, Types, SourceInv, Lines
    <3>3. CASE line.kind = "if"
      BY <3>1, <3>2, <3>3 DEF Nested, S!Next, S!Directive
    <3>4. CASE line.kind = "elif"
      BY <3>1, <3>2, <3>4 DEF Nested, Fitting, S!Next, S!Directive
    <3>5. CASE line.kind = "else"
      BY <3>1, <3>2, <3>5 DEF Nested, Fitting, S!Next, S!Directive
    <3>6. CASE line.kind = "endif"
      BY <3>1, <3>2, <3>6 DEF Nested, Fitting, S!Next, S!Directive
    <3>7. CASE line.kind = "plain"
      BY <3>1, <3>7 DEF Nested
    <3> QED
      BY <3>2, <3>3, <3>4, <3>5, <3>6, <3>7 DEF Lines, Conditionals
  <2> QED
    BY <2>1, <2>2, <2>3
<1> QED
  BY <1>2, <1>3, <1>4 DEF Next

LEMMA FilterHolds == ~NestInPast /\ Spec => [](Inv /\ FilterInv)
<1> SUFFICES ASSUME ~NestInPast PROVE Spec => [](Inv /\ FilterInv)
  OBVIOUS
<1>1. Init => Inv /\ FilterInv
  BY InitLine DEF Inv
<1>2. Inv /\ FilterInv /\ [Next]_vars => (Inv /\ FilterInv)'
  BY NextInv, FilterStands
<1> QED
  BY <1>1, <1>2, PTL DEF Spec
-----------------------------------------------------------------------------
(* Every line is counted once, wherever it stands, in a clause after the   *)
(* active one too (preprocess.c:301-323, advance_line).                    *)
THEOREM LinesCountedForAll == Spec => []LinesCounted
<1>1. Inv => LinesCounted
  BY DEF Inv, LineInv, LinesCounted
<1> QED
  BY <1>1, InvHolds, PTL

(* If no .if stands in a clause after the active one, then between two     *)
(* lines the filter is open exactly when all conditionals around are in    *)
(* their active clauses, and no directive is half read (preprocess.c:301,  *)
(* the test of yylex).                                                     *)
THEOREM OpenWhenLiveForAll ==
  ASSUME ~NestInPast
  PROVE  Spec => []OpenWhenLive
<1>1. Inv /\ FilterInv => OpenWhenLive
  <2> SUFFICES ASSUME Inv, FilterInv, rest = <<>>
               PROVE  (Dead <=> ~S!Live(nest)) /\ directive = "none"
                        /\ ~parsing_conditional
    BY DEF OpenWhenLive
  <2>1. BetweenLines
    BY LineGoesOn DEF Inv, LineInv
  <2>2. Dead <=> ~S!Live(nest)
    BY DeadWhenStands DEF Inv, Types, FilterInv, Dead
  <2> QED
    BY <2>1, <2>2 DEF BetweenLines
<1> QED
  BY <1>1, FilterHolds, PTL

(* Under the same condition false_if_level is the number of .endif lines   *)
(* until the code can be live again, or zero behind the active clause      *)
(* (preprocess.c:235-299, the handlers).                                   *)
THEOREM LevelCountsNestForAll ==
  ASSUME ~NestInPast
  PROVE  Spec => []LevelCountsNest
<1>1. Inv /\ FilterInv => LevelCountsNest
  <2> SUFFICES ASSUME Inv, FilterInv,
                      NEW d \in 1 .. Len(nest), FirstDead(nest, d)
               PROVE  false_if_level =
                        Len(nest) - d + (IF nest[d].state = "waiting" THEN 1 ELSE 0)
    BY DEF LevelCountsNest, FirstDead
  <2>1. nest \in Nests /\ Len(nest) \in Nat /\ ~S!Live(nest)
    BY NestType, LiveMeans, FirstDeadMeans DEF Inv, Types
  <2>2. CASE \E e \in 1 .. Len(nest) : /\ FirstDead(nest, e) /\ nest[e].state = "waiting"
                                       /\ false_if_level = Len(nest) - e + 1
    BY <2>1, <2>2, OneFirstDead
  <2>3. CASE FirstDead(nest, Len(nest)) /\ nest[Len(nest)].state = "past"
               /\ false_if_level = 0
    <3>1. Len(nest) \in 1 .. Len(nest)
      BY <2>3 DEF FirstDead
    <3>2. d = Len(nest)
      BY <2>1, <2>3, <3>1, OneFirstDead
    <3> QED
      BY <2>1, <2>3, <3>2
  <2> QED
    BY <2>1, <2>2, <2>3 DEF FilterInv, Stands
<1> QED
  BY <1>1, FilterHolds, PTL

(* Under the same condition the two variables filter as the stack would: a *)
(* word is passed on if and only if it is in the active clause of every    *)
(* conditional around it (preprocess.c:235-323).                           *)
THEOREM FiltersByStackForAll ==
  ASSUME ~NestInPast
  PROVE  Spec => FiltersByStack
<1>1. Init => S!Init
  BY DEF Init, S!Init
<1>2. Spec => [](Inv /\ FilterInv)
  BY FilterHolds
<1>3. Inv /\ FilterInv /\ [Next]_vars => [S!Next]_<<nest, passed>>
  BY StepImplements
<1> QED
  BY <1>1, <1>2, <1>3, PTL DEF Spec, FiltersByStack, S!Spec
=============================================================================
