----------------------------- MODULE MacroProofs ----------------------------
(***************************************************************************)
(* Theorems about macros, for every source: lines are counted as they are  *)
(* read, and memory that was freed is read only where PlainMacrosSafe says. *)
(* The inductive invariants, each over the types:                          *)
(*                                                                         *)
(*   RefInv    what replacements refer to is there, and finished;          *)
(*   LineInv   a definition that is read began in the file, and the lines  *)
(*             counted are those read;                                     *)
(*   ChainInv  in a plain source the replacements not yet freed are the    *)
(*             stack, and what their contexts hold is on it;               *)
(*   GivenInv  there the arguments of a call are those of a line.          *)
(***************************************************************************)
EXTENDS Macro, FiniteSetTheorems, WellFoundedInduction, TLAPS

Places == DOMAIN source

Modes == {"line", "words", "name", "head", "body", "arguments", "error", "undefined"}

MacroDefinitions == [name : Places, names : Seq(Places), body : Seq(Places)]

Replacements ==
  [macro : Nat, context : Nat, argument : Nat, parameters : Seq(Seq(Places)),
   index : Nat \ {0}, next : Nat]

TypeInv ==
  /\ source \in Sources /\ position \in Nat \ {0} /\ is_replacement \in BOOLEAN
  /\ macros \in Seq(MacroDefinitions) /\ heap \in Seq(Replacements)
  /\ freed \subseteq DOMAIN heap /\ names_freed \subseteq Places
  /\ current \in 0 .. Len(heap) /\ call \in 0 .. Len(heap)
  /\ line_number \in Nat /\ paren_depth \in Nat /\ mode \in Modes

RefersTo(r) ==
  /\ heap[r].macro \in DOMAIN macros
  /\ mode \in {"head", "body"} => heap[r].macro # Len(macros)
  /\ Context(r) \in 1 .. r /\ heap[Context(r)].argument = 0
  /\ heap[r].argument = 0 => Context(r) = r
  /\ heap[r].argument <= Len(Definition(r).names)
  /\ heap[r].next < r

RefInv ==
  /\ mode \in {"head", "body"} => macros # <<>>
  /\ mode = "arguments" => call # 0
  /\ \A r \in DOMAIN heap : RefersTo(r)

LinesBefore(n) == {i \in Places : i < n /\ source[i] = "newline"}

InFile ==
  /\ mode \in {"name", "head"} => current = 0
  /\ mode = "body" => ~is_replacement

Counted ==
  mode # "error" /\ position <= Len(source) =>
    line_number = 1 + Cardinality(LinesBefore(position))

LineInv == EndsAlone /\ ~DefinitionStored => InFile /\ Counted

Plain == EndsAlone /\ ~(CallsMacro \/ GivesMacro \/ GivesTooFew)

(* The replacements on the stack: all that are not freed, but for that of  *)
(* a call whose arguments are being read.                                  *)
OnStack == (DOMAIN heap \ freed) \ (IF mode = "arguments" THEN {call} ELSE {})

ChainInv ==
  /\ current # 0 => current \in OnStack
  /\ \A q \in OnStack : q <= current
  /\ \A r \in OnStack :
       /\ Context(r) \in OnStack
       /\ heap[r].next # 0 => heap[r].next \in OnStack
       /\ \A q \in OnStack : q < r => q <= heap[r].next
  /\ mode = "arguments" =>
       /\ current = 0 /\ call \notin freed
       /\ heap[call].next = 0 /\ heap[call].argument = 0

PlaceInv ==
  /\ \A p \in names_freed :
       source[p] \in MacroNames /\ (mode # "error" => p < position)
  /\ (mode = "line" \/ (mode # "body" /\ current # 0)) /\ position <= Len(source) =>
       StartsLine(position)

ArgumentsInLines ==
  \A r \in DOMAIN heap : \A k \in DOMAIN heap[r].parameters :
    \A n \in DOMAIN heap[r].parameters[k] :
      \E i \in Places : OneLine(i, heap[r].parameters[k][n]) /\ source[i] \in MacroNames

(* A call of replacement r is the line from i to j.                        *)
LineOfCall(r, i, j) ==
  /\ OneLine(i, j) /\ source[macros[heap[r].macro].name] = source[i]
  /\ Len(heap[r].parameters) = ArgumentCount(source, i, j)

CallsAreLines ==
  \A r \in DOMAIN heap :
    heap[r].argument = 0 /\ ~(mode = "arguments" /\ r = call) =>
      \E i, j \in Places : LineOfCall(r, i, j) /\ source[j] = "newline"

CallIsRead ==
  mode = "arguments" =>
    \E i \in Places :
      /\ LineOfCall(call, i, position)
      /\ position <= Len(source) + 1
      /\ paren_depth = ParenDepth(source, i)[position - i - 1]

GivenInv == ArgumentsInLines /\ CallsAreLines /\ CallIsRead

PlainInv == Plain => mode # "undefined" /\ ChainInv /\ PlaceInv /\ GivenInv
-----------------------------------------------------------------------------
(***************************************************************************)
(* Types.                                                                  *)
(***************************************************************************)

LEMMA SourceType ==
  ASSUME TypeInv
  PROVE  /\ source \in Seq(STRING) /\ Len(source) \in Nat /\ Len(source) > 0
         /\ Places = 1 .. Len(source) /\ source[Len(source)] = "newline"
<1>1. source \in Seq(STRING) /\ Len(source) > 0 /\ Last(source) = "newline"
  BY MacroAssumption DEF TypeInv
<1> QED BY <1>1 DEF Places, Last

LEMMA HeapType ==
  ASSUME TypeInv
  PROVE  /\ heap \in Seq(Replacements) /\ Len(heap) \in Nat
         /\ DOMAIN heap = 1 .. Len(heap)
         /\ \A r \in DOMAIN heap : heap[r] \in Replacements
<1>1. heap \in Seq(Replacements)
  BY DEF TypeInv
<1> HIDE DEF Replacements
<1> QED BY <1>1

LEMMA MacrosType ==
  ASSUME TypeInv
  PROVE  /\ macros \in Seq(MacroDefinitions) /\ Len(macros) \in Nat
         /\ DOMAIN macros = 1 .. Len(macros)
         /\ \A m \in DOMAIN macros : macros[m] \in MacroDefinitions
<1>1. macros \in Seq(MacroDefinitions)
  BY DEF TypeInv
<1> HIDE DEF MacroDefinitions
<1> QED BY <1>1

(* A token of a body, or of an argument.                                   *)
InBody(p) ==
  \E m \in DOMAIN macros : \E i \in DOMAIN macros[m].body : p = macros[m].body[i]

InArgument(p) ==
  \E r \in DOMAIN heap : \E k \in DOMAIN heap[r].parameters :
    \E n \in DOMAIN heap[r].parameters[k] : p = heap[r].parameters[k][n]

(* What fetch_next_token takes is a token of the source.                   *)
LEMMA TokenType ==
  ASSUME TypeInv, RefInv, Ready, current = 0 => position <= Len(source)
  PROVE  /\ Token \in Places
         /\ current = 0 => Token = position
         /\ current # 0 => InBody(Token) \/ InArgument(Token)
<1>1. CASE current = 0
  BY <1>1, SourceType DEF Token, TypeInv
<1>2. CASE current # 0
  <2>1. current \in DOMAIN heap /\ heap[current] \in Replacements
    BY <1>2, HeapType DEF TypeInv
  <2>2. RefersTo(current)
    BY <2>1 DEF RefInv
  <2> DEFINE h == heap[current]
             c == Context(current)
  <2>3. h.index \in Nat \ {0} /\ ~(h.index > Len(TokensOf(current)))
    BY <1>2, <2>1 DEF Ready, Exhausted, Replacements
  <2>4. CASE h.argument = 0
    <3>1. TokensOf(current) = macros[h.macro].body /\ h.macro \in DOMAIN macros
      BY <2>2, <2>4 DEF TokensOf, RefersTo
    <3>2. macros[h.macro].body \in Seq(Places)
      BY <3>1, MacrosType DEF MacroDefinitions
    <3>3. h.index \in DOMAIN macros[h.macro].body
      BY <2>3, <3>1, <3>2
    <3>4. Token = macros[h.macro].body[h.index]
      BY <1>2, <3>1 DEF Token
    <3>5. InBody(Token)
      BY <3>1, <3>3, <3>4 DEF InBody
    <3>6. Token \in Places
      BY <3>2, <3>3, <3>4
    <3> QED BY <1>2, <3>5, <3>6
  <2>5. CASE h.argument # 0
    <3>1. c \in DOMAIN heap /\ heap[c] \in Replacements
      <4>1. c \in 1 .. current
        BY <2>2 DEF RefersTo
      <4>2. c \in DOMAIN heap
        BY <2>1, <4>1, HeapType
      <4> QED BY <4>2, HeapType
    <3>2. heap[c].parameters \in Seq(Seq(Places)) /\ h.argument \in Nat \ {0}
      BY <2>1, <2>5, <3>1 DEF Replacements
    <3>3. h.argument <= Len(heap[c].parameters)
      BY <1>2 DEF Ready, Valid, Held
    <3>4. h.argument \in DOMAIN heap[c].parameters
      BY <3>2, <3>3
    <3>5. heap[c].parameters[h.argument] \in Seq(Places)
      BY <3>2, <3>4
    <3>6. TokensOf(current) = heap[c].parameters[h.argument]
      BY <2>5 DEF TokensOf
    <3>7. h.index \in DOMAIN heap[c].parameters[h.argument]
      BY <2>3, <3>5, <3>6
    <3>8. Token = heap[c].parameters[h.argument][h.index]
      BY <1>2, <3>6 DEF Token
    <3>9. InArgument(Token)
      BY <3>1, <3>4, <3>7, <3>8 DEF InArgument
    <3>10. Token \in Places
      BY <3>5, <3>7, <3>8
    <3> QED BY <1>2, <3>9, <3>10
  <2> QED BY <2>4, <2>5
<1> QED BY <1>1, <1>2

(* A token that is returned.                                               *)
LEMMA ReturnedType ==
  ASSUME TypeInv, RefInv, NEW p, Returns(p)
  PROVE  /\ p \in Places /\ source[p] \in STRING /\ p = Token
         /\ current = 0 => p = position /\ position' = position + 1
         /\ current # 0 => position' = position /\ (InBody(p) \/ InArgument(p))
         /\ is_replacement' = (current # 0) /\ source' = source
<1>1. Ready /\ (current = 0 => position <= Len(source)) /\ p = Token
  BY DEF Returns
<1>2. p \in Places /\ (current = 0 => p = position) /\ (current # 0 => InBody(p) \/ InArgument(p))
  BY <1>1, TokenType
<1>3. source[p] \in STRING
  BY <1>2, SourceType
<1> QED BY <1>1, <1>2, <1>3 DEF Returns

(* Two heaps that differ in what their replacements have read.             *)
Alike(g, h) ==
  /\ g \in Seq(Replacements) /\ h \in Seq(Replacements) /\ Len(h) >= Len(g)
  /\ \A r \in DOMAIN g :
       /\ h[r].macro = g[r].macro /\ h[r].context = g[r].context
       /\ h[r].argument = g[r].argument /\ h[r].next = g[r].next
       /\ h[r].parameters = g[r].parameters

LEMMA IndexMoves ==
  ASSUME TypeInv, current # 0
  PROVE  LET h == [heap EXCEPT ![current].index = @ + 1]
         IN  Alike(heap, h) /\ Len(h) = Len(heap)
<1> DEFINE h == [heap EXCEPT ![current].index = @ + 1]
<1>1. current \in DOMAIN heap
  BY HeapType DEF TypeInv
<1>2. [heap[current] EXCEPT !.index = @ + 1] \in Replacements
  <2> DEFINE r == heap[current]
  <2>1. r \in Replacements
    BY <1>1, HeapType
  <2>2. r.index + 1 \in Nat \ {0}
    BY <2>1 DEF Replacements
  <2> HIDE DEF r
  <2>3. [r EXCEPT !.index = r.index + 1] \in Replacements
    BY <2>1, <2>2 DEF Replacements
  <2> QED BY <2>3 DEF r
<1>3. h = [heap EXCEPT ![current] = [heap[current] EXCEPT !.index = @ + 1]]
  BY <1>1
<1>4. h \in Seq(Replacements) /\ Len(h) = Len(heap)
  <2> HIDE DEF Replacements
  <2> QED BY <1>1, <1>2, <1>3, HeapType
<1>5. \A r \in DOMAIN heap : h[r] = IF r = current THEN [heap[current] EXCEPT !.index = @ + 1]
                                   ELSE heap[r]
  BY <1>1, <1>3, HeapType
<1>6. \A r \in DOMAIN heap :
       /\ h[r].macro = heap[r].macro /\ h[r].context = heap[r].context
       /\ h[r].argument = heap[r].argument /\ h[r].next = heap[r].next
       /\ h[r].parameters = heap[r].parameters
  <2> TAKE r \in DOMAIN heap
  <2>1. heap[r] \in Replacements
    BY HeapType
  <2> HIDE DEF h
  <2>2. CASE r = current
    BY <1>5, <2>1, <2>2 DEF Replacements
  <2>3. CASE r # current
    BY <1>5, <2>3
  <2> QED BY <2>2, <2>3
<1> HIDE DEF h
<1>7. Alike(heap, h)
  BY <1>4, <1>6, HeapType DEF Alike
<1> QED BY <1>4, <1>7 DEF h

LEMMA AdvancedType ==
  ASSUME TypeInv
  PROVE  Alike(heap, Advanced) /\ Len(Advanced) = Len(heap)
<1>1. CASE current = 0
  BY <1>1, HeapType DEF Advanced, Alike
<1>2. CASE current # 0
  BY <1>2, IndexMoves DEF Advanced
<1> QED BY <1>1, <1>2

-----------------------------------------------------------------------------
(***************************************************************************)
(* What a step leaves of the macros and of the replacements.               *)
(***************************************************************************)

LEMMA SameSource ==
  ASSUME source' = source
  PROVE  /\ Places' = Places /\ Replacements' = Replacements
         /\ MacroDefinitions' = MacroDefinitions
BY DEF Places, Replacements, MacroDefinitions

(* Macros keep their names, and what is added to one comes behind; a       *)
(* definition that is read is the last.                                    *)
MacrosGrow ==
  /\ Len(macros') >= Len(macros)
  /\ \A m \in DOMAIN macros :
       /\ macros'[m].name = macros[m].name
       /\ Len(macros'[m].names) >= Len(macros[m].names)
       /\ \A i \in DOMAIN macros[m].body :
            i \in DOMAIN macros'[m].body /\ macros'[m].body[i] = macros[m].body[i]
  /\ mode' \in {"head", "body"} =>
       Len(macros') = IF mode \in {"head", "body"} THEN Len(macros) ELSE Len(macros) + 1

(* Replacements keep what they refer to, and arguments get longer while    *)
(* they are read.                                                          *)
HeapGrows ==
  /\ Len(heap') >= Len(heap)
  /\ \A r \in DOMAIN heap :
       /\ heap'[r].macro = heap[r].macro /\ heap'[r].context = heap[r].context
       /\ heap'[r].argument = heap[r].argument /\ heap'[r].next = heap[r].next
       /\ \A k \in DOMAIN heap[r].parameters :
            /\ k \in DOMAIN heap'[r].parameters
            /\ \A n \in DOMAIN heap[r].parameters[k] :
                 /\ n \in DOMAIN heap'[r].parameters[k]
                 /\ heap'[r].parameters[k][n] = heap[r].parameters[k][n]
       /\ (mode = "arguments" /\ r = call) \/ heap'[r].parameters = heap[r].parameters

LEMMA AlikeGrows ==
  ASSUME TypeInv, Alike(heap, heap')
  PROVE  HeapGrows
<1> HIDE DEF Replacements
<1>1. Len(heap') >= Len(heap)
  BY DEF Alike
<1>2. \A r \in DOMAIN heap :
       /\ heap'[r].macro = heap[r].macro /\ heap'[r].context = heap[r].context
       /\ heap'[r].argument = heap[r].argument /\ heap'[r].next = heap[r].next
       /\ heap'[r].parameters = heap[r].parameters
  BY DEF Alike
<1> QED BY <1>1, <1>2 DEF HeapGrows

LEMMA SameMacros ==
  ASSUME TypeInv, macros' = macros,
         mode' \in {"head", "body"} => mode \in {"head", "body"}
  PROVE  MacrosGrow
<1>1. \A m \in DOMAIN macros : Len(macros[m].names) >= Len(macros[m].names)
  <2> TAKE m \in DOMAIN macros
  <2>1. macros[m].names \in Seq(Places)
    BY MacrosType DEF MacroDefinitions
  <2> QED BY <2>1
<1>2. Len(macros) \in Nat
  BY MacrosType
<1> QED BY <1>1, <1>2 DEF MacrosGrow

LEMMA Longer ==
  ASSUME NEW S, NEW s \in Seq(S), NEW p \in S
  PROVE  /\ Append(s, p) \in Seq(S) /\ Len(Append(s, p)) = Len(s) + 1 /\ Len(s) \in Nat
         /\ \A i \in DOMAIN s : i \in DOMAIN Append(s, p) /\ Append(s, p)[i] = s[i]
OBVIOUS

LEMMA DefinitionWith ==
  ASSUME NEW S, NEW d \in [name : S, names : Seq(S), body : Seq(S)], NEW a \in Seq(S)
  PROVE  LET e == [d EXCEPT !.names = a]
             f == [d EXCEPT !.body = a]
         IN  /\ e \in [name : S, names : Seq(S), body : Seq(S)]
             /\ e.name = d.name /\ e.names = a /\ e.body = d.body
             /\ f \in [name : S, names : Seq(S), body : Seq(S)]
             /\ f.name = d.name /\ f.names = d.names /\ f.body = a
OBVIOUS

(* One more macro, without names or a body.                                *)
LEMMA OneMoreMacro ==
  ASSUME TypeInv, NEW p \in Places,
         macros' = Append(macros, [name |-> p, names |-> <<>>, body |-> <<>>]),
         mode \notin {"head", "body"}
  PROVE  MacrosGrow /\ macros' \in Seq(MacroDefinitions)
<1> DEFINE d == [name |-> p, names |-> <<>>, body |-> <<>>]
<1>1. d \in MacroDefinitions
  BY DEF MacroDefinitions
<1> HIDE DEF d
<1>2. macros' = Append(macros, d)
  BY DEF d
<1>3. macros' \in Seq(MacroDefinitions) /\ Len(macros') = Len(macros) + 1
  <2> HIDE DEF MacroDefinitions
  <2> QED BY <1>1, <1>2, MacrosType
<1>4. \A m \in DOMAIN macros : macros'[m] = macros[m]
  BY <1>2, MacrosType
<1>5. \A m \in DOMAIN macros : Len(macros[m].names) >= Len(macros[m].names)
  <2> TAKE m \in DOMAIN macros
  <2>1. macros[m].names \in Seq(Places)
    BY MacrosType DEF MacroDefinitions
  <2> QED BY <2>1
<1>6. Len(macros') >= Len(macros)
  BY <1>3, MacrosType
<1> QED BY <1>3, <1>4, <1>5, <1>6 DEF MacrosGrow

(* The last macro gets a name, or a token of its body.                     *)
LEMMA LastMacroGrows ==
  ASSUME TypeInv, macros # <<>>, NEW p \in Places, mode \in {"head", "body"},
         \/ macros' = [macros EXCEPT ![Len(macros)].names = Append(@, p)]
         \/ macros' = [macros EXCEPT ![Len(macros)].body = Append(@, p)]
  PROVE  MacrosGrow /\ macros' \in Seq(MacroDefinitions)
<1> DEFINE l == Len(macros)
           d == macros[l]
<1>1. l \in DOMAIN macros /\ d \in MacroDefinitions
  <2>1. macros \in Seq(MacroDefinitions) /\ Len(macros) \in Nat /\ Len(macros) # 0
    BY MacrosType
  <2> QED BY <2>1, MacrosType
<1>2. d.names \in Seq(Places) /\ d.body \in Seq(Places)
  BY <1>1 DEF MacroDefinitions
<1>3. PICK e \in MacroDefinitions :
        /\ macros' = [macros EXCEPT ![l] = e]
        /\ e.name = d.name
        /\ e.names = d.names \/ e.names = Append(d.names, p)
        /\ e.body = d.body \/ e.body = Append(d.body, p)
  <2>1. CASE macros' = [macros EXCEPT ![Len(macros)].names = Append(@, p)]
    <3> DEFINE e == [d EXCEPT !.names = Append(d.names, p)]
    <3>1. Append(d.names, p) \in Seq(Places)
      BY <1>2, Longer
    <3>3. e \in MacroDefinitions /\ e.name = d.name /\ e.names = Append(d.names, p) /\ e.body = d.body
      <4> DEFINE a == Append(d.names, p)
      <4> HIDE DEF a, d
      <4> QED BY <1>1, <3>1, DefinitionWith DEF MacroDefinitions, a
    <3>2. macros' = [macros EXCEPT ![l] = e]
      BY <2>1
    <3> HIDE DEF e
    <3> QED BY <3>2, <3>3
  <2>2. CASE macros' = [macros EXCEPT ![Len(macros)].body = Append(@, p)]
    <3> DEFINE e == [d EXCEPT !.body = Append(d.body, p)]
    <3>1. Append(d.body, p) \in Seq(Places)
      BY <1>2, Longer
    <3>3. e \in MacroDefinitions /\ e.name = d.name /\ e.names = d.names /\ e.body = Append(d.body, p)
      <4> DEFINE a == Append(d.body, p)
      <4> HIDE DEF a, d
      <4> QED BY <1>1, <3>1, DefinitionWith DEF MacroDefinitions, a
    <3>2. macros' = [macros EXCEPT ![l] = e]
      BY <2>2
    <3> HIDE DEF e
    <3> QED BY <3>2, <3>3
  <2> QED BY <2>1, <2>2
<1> HIDE DEF d, l
<1>4. macros' \in Seq(MacroDefinitions) /\ Len(macros') = Len(macros)
  <2> HIDE DEF MacroDefinitions
  <2> QED BY <1>1, <1>3, MacrosType
<1>5. \A m \in DOMAIN macros : macros'[m] = IF m = l THEN e ELSE macros[m]
  BY <1>1, <1>3, MacrosType
<1>6. /\ Len(e.names) >= Len(d.names)
      /\ \A i \in DOMAIN d.body : i \in DOMAIN e.body /\ e.body[i] = d.body[i]
  <2>1. /\ Len(Append(d.names, p)) = Len(d.names) + 1 /\ Len(d.names) \in Nat
        /\ \A i \in DOMAIN d.body :
             i \in DOMAIN Append(d.body, p) /\ Append(d.body, p)[i] = d.body[i]
    BY <1>2, Longer
  <2> QED BY <1>3, <2>1
<1>7. \A m \in DOMAIN macros :
       /\ macros'[m].name = macros[m].name
       /\ Len(macros'[m].names) >= Len(macros[m].names)
       /\ \A i \in DOMAIN macros[m].body :
            i \in DOMAIN macros'[m].body /\ macros'[m].body[i] = macros[m].body[i]
  <2> TAKE m \in DOMAIN macros
  <2>1. macros[m].names \in Seq(Places)
    BY MacrosType DEF MacroDefinitions
  <2>2. CASE m = l
    BY <1>3, <1>5, <1>6, <2>2 DEF d
  <2>3. CASE m # l
    BY <1>5, <2>1, <2>3
  <2> QED BY <2>2, <2>3
<1>8. Len(macros') >= Len(macros)
  BY <1>4, MacrosType
<1> QED BY <1>4, <1>7, <1>8 DEF MacrosGrow

(* What the parser does with a token but for calls and arguments.          *)
LEMMA AdvanceStep ==
  ASSUME TypeInv, RefInv, NEW p, Returns(p), heap' = Advanced, freed' = freed,
         macros' \in Seq(MacroDefinitions), names_freed' \subseteq Places,
         current' \in {current, call}, call' = call, paren_depth' = paren_depth,
         mode' \in Modes, line_number' \in Nat
  PROVE  TypeInv' /\ HeapGrows
<1>1. /\ position' \in Nat \ {0} /\ is_replacement' \in BOOLEAN /\ source' = source
  <2>1. position' = position \/ position' = position + 1
    BY ReturnedType
  <2>2. is_replacement' = (current # 0) /\ source' = source
    BY ReturnedType
  <2>3. (current # 0) \in BOOLEAN
    OBVIOUS
  <2>4. is_replacement' \in BOOLEAN
    BY <2>2, <2>3
  <2>5. position' \in Nat \ {0}
    BY <2>1 DEF TypeInv
  <2> QED BY <2>2, <2>4, <2>5
<1>2. Alike(heap, heap') /\ Len(heap') = Len(heap)
  BY AdvancedType
<1>3. heap' \in Seq(Replacements) /\ DOMAIN heap' = DOMAIN heap
  <2>1. heap' \in Seq(Replacements)
    BY <1>2 DEF Alike
  <2> HIDE DEF Replacements
  <2> QED BY <1>2, <2>1, HeapType
<1>4. HeapGrows
  BY <1>2, AlikeGrows
<1> QED BY <1>1, <1>2, <1>3, <1>4, SameSource DEF TypeInv

LineCounts(n) == n = line_number \/ n = line_number + 1

LEMMA LinesType ==
  ASSUME TypeInv, NEW c
  PROVE  LineAfter(c) \in Nat /\ LineCounts(LineAfter(c)) /\ LineCounts(line_number)
BY DEF LineAfter, LineCounts, TypeInv

LEMMA WordsGrow ==
  ASSUME TypeInv, RefInv, NEW p, Words(p)
  PROVE  TypeInv' /\ MacrosGrow /\ HeapGrows
<1>1. /\ Returns(p) /\ heap' = Advanced /\ freed' = freed /\ macros' = macros
      /\ names_freed' = names_freed /\ current' = current /\ call' = call
      /\ paren_depth' = paren_depth /\ mode' \in {"line", "words"}
      /\ line_number' = LineAfter(current # 0) \/ line_number' = line_number
  BY DEF Words
<1>2. TypeInv' /\ HeapGrows
  BY <1>1, AdvanceStep, LinesType DEF TypeInv, Modes
<1> QED BY <1>1, <1>2, SameMacros

LEMMA SyntaxErrorGrows ==
  ASSUME TypeInv, RefInv, NEW p, SyntaxError(p)
  PROVE  TypeInv' /\ MacrosGrow /\ HeapGrows
<1>1. /\ Returns(p) /\ heap' = Advanced /\ freed' = freed /\ macros' = macros
      /\ names_freed' = names_freed \/ names_freed' = names_freed \cup {p}
      /\ current' = current /\ call' = call
      /\ paren_depth' = paren_depth /\ mode' = "error" /\ line_number' = line_number
  BY DEF SyntaxError
<1>2. names_freed' \subseteq Places
  BY <1>1, ReturnedType DEF TypeInv
<1>3. TypeInv' /\ HeapGrows
  BY <1>1, <1>2, AdvanceStep DEF TypeInv, Modes
<1> QED BY <1>1, <1>3, SameMacros

LEMMA InvokeGrows ==
  ASSUME TypeInv, RefInv, NEW p, Invoke(p)
  PROVE  TypeInv' /\ MacrosGrow /\ HeapGrows
<1>1. /\ Returns(p) /\ heap' = Advanced /\ freed' = freed /\ macros' = macros
      /\ names_freed' = names_freed /\ current' = call /\ call' = call
      /\ paren_depth' = paren_depth /\ mode' = "line"
      /\ line_number' = LineAfter(current # 0)
  BY DEF Invoke
<1>2. TypeInv' /\ HeapGrows
  BY <1>1, AdvanceStep, LinesType DEF TypeInv, Modes
<1> QED BY <1>1, <1>2, SameMacros

LEMMA KeywordGrows ==
  ASSUME TypeInv, RefInv, NEW p, DefinitionKeyword(p)
  PROVE  TypeInv' /\ MacrosGrow /\ HeapGrows
<1>1. /\ Returns(p) /\ heap' = Advanced /\ freed' = freed /\ macros' = macros
      /\ names_freed' = names_freed /\ current' = current /\ call' = call
      /\ paren_depth' = paren_depth /\ mode' = "name" /\ line_number' = line_number
  BY DEF DefinitionKeyword
<1>2. TypeInv' /\ HeapGrows
  BY <1>1, AdvanceStep DEF TypeInv, Modes
<1> QED BY <1>1, <1>2, SameMacros

LEMMA BeginGrows ==
  ASSUME TypeInv, RefInv, NEW p, Begin(p)
  PROVE  TypeInv' /\ MacrosGrow /\ HeapGrows
<1>1. /\ Returns(p) /\ heap' = Advanced /\ freed' = freed
      /\ macros' = Append(macros, [name |-> p, names |-> <<>>, body |-> <<>>])
      /\ names_freed' = names_freed /\ current' = current /\ call' = call
      /\ paren_depth' = paren_depth /\ mode = "name" /\ mode' = "head"
      /\ line_number' = line_number
  BY DEF Begin
<1>2. MacrosGrow /\ macros' \in Seq(MacroDefinitions)
  <2>1. p \in Places /\ mode \notin {"head", "body"}
    BY <1>1, ReturnedType
  <2> QED BY <1>1, <2>1, OneMoreMacro
<1>3. TypeInv' /\ HeapGrows
  BY <1>1, <1>2, AdvanceStep DEF TypeInv, Modes
<1> QED BY <1>2, <1>3

LEMMA ParameterGrows ==
  ASSUME TypeInv, RefInv, NEW p, Parameter(p)
  PROVE  TypeInv' /\ MacrosGrow /\ HeapGrows
<1>1. /\ Returns(p) /\ heap' = Advanced /\ freed' = freed
      /\ \/ macros' = [macros EXCEPT ![Len(macros)].names = Append(@, p)]
         \/ macros' = macros
      /\ names_freed' = names_freed /\ current' = current /\ call' = call
      /\ paren_depth' = paren_depth /\ mode = "head" /\ mode' = mode
      /\ line_number' = line_number
  BY DEF Parameter
<1>2. MacrosGrow /\ macros' \in Seq(MacroDefinitions)
  <2>1. p \in Places /\ mode \in {"head", "body"} /\ macros # <<>>
    BY <1>1, ReturnedType DEF RefInv
  <2>2. CASE macros' = macros
    BY <1>1, <2>1, <2>2, SameMacros, MacrosType
  <2>3. CASE macros' = [macros EXCEPT ![Len(macros)].names = Append(@, p)]
    BY <2>1, <2>3, LastMacroGrows
  <2> QED BY <1>1, <2>2, <2>3
<1>3. TypeInv' /\ HeapGrows
  BY <1>1, <1>2, AdvanceStep DEF TypeInv, Modes
<1> QED BY <1>2, <1>3

LEMMA HeadEndGrows ==
  ASSUME TypeInv, RefInv, NEW p, HeadEnd(p)
  PROVE  TypeInv' /\ MacrosGrow /\ HeapGrows
<1>1. /\ Returns(p) /\ heap' = Advanced /\ freed' = freed /\ macros' = macros
      /\ names_freed' = names_freed /\ current' = current /\ call' = call
      /\ paren_depth' = paren_depth /\ mode = "head" /\ mode' = "body"
      /\ line_number' = LineAfter(current # 0)
  BY DEF HeadEnd
<1>2. TypeInv' /\ HeapGrows
  BY <1>1, AdvanceStep, LinesType DEF TypeInv, Modes
<1> QED BY <1>1, <1>2, SameMacros

(* One more replacement.                                                   *)
LEMMA OneMoreReplacement ==
  ASSUME NEW h, Alike(heap, h), Len(h) = Len(heap), TypeInv,
         NEW r \in Replacements, heap' = Append(h, r)
  PROVE  /\ heap' \in Seq(Replacements) /\ Len(heap') = Len(heap) + 1
         /\ DOMAIN heap' = DOMAIN heap \cup {Len(heap) + 1}
         /\ heap'[Len(heap) + 1] = r /\ HeapGrows
<1>1. h \in Seq(Replacements) /\ Len(h) = Len(heap) /\ Len(heap) \in Nat
  BY HeapType DEF Alike
<1>2. /\ heap' \in Seq(Replacements) /\ Len(heap') = Len(heap) + 1
      /\ heap'[Len(heap) + 1] = r
      /\ \A q \in DOMAIN heap : heap'[q] = h[q]
      /\ DOMAIN heap' = DOMAIN heap \cup {Len(heap) + 1}
  <2> HIDE DEF Replacements
  <2> QED BY <1>1, HeapType
<1>3. Alike(heap, heap')
  <2>1. Len(heap') >= Len(heap)
    BY <1>1, <1>2
  <2> HIDE DEF Replacements
  <2> QED BY <1>2, <2>1, HeapType DEF Alike
<1> QED BY <1>2, <1>3, AlikeGrows

LEMMA FreshType ==
  ASSUME NEW m \in Nat, NEW c \in Nat, NEW a \in Nat, current \in Nat
  PROVE  Replacement(m, c, a) \in Replacements
<1>1. <<>> \in Seq(Seq(Places))
  OBVIOUS
<1> QED BY <1>1 DEF Replacement, Replacements

LEMMA PopGrows ==
  ASSUME TypeInv, RefInv, Pop
  PROVE  TypeInv' /\ MacrosGrow /\ HeapGrows
<1>1. /\ Exhausted /\ current' = heap[current].next /\ freed' = freed \cup {current}
      /\ UNCHANGED <<input, heap, names_freed, macros, line_number, mode, call, paren_depth>>
  BY DEF Pop
<1>2. current \in DOMAIN heap /\ RefersTo(current) /\ heap[current] \in Replacements
  <2>1. current # 0
    BY <1>1 DEF Exhausted
  <2>2. current \in DOMAIN heap
    BY <2>1, HeapType DEF TypeInv
  <2> QED BY <2>2, HeapType DEF RefInv
<1>3. heap[current].next \in Nat /\ heap[current].next < current
  BY <1>2 DEF RefersTo, Replacements
<1>4. current' \in 0 .. Len(heap)
  BY <1>1, <1>3, HeapType DEF TypeInv
<1>5. TypeInv'
  BY <1>1, <1>2, <1>4, SameSource DEF TypeInv, input
<1>6. HeapGrows
  BY <1>1, HeapType DEF HeapGrows
<1> QED BY <1>1, <1>5, <1>6, SameMacros

LEMMA PushGrows ==
  ASSUME TypeInv, RefInv, PushParameter
  PROVE  /\ TypeInv' /\ MacrosGrow /\ HeapGrows
         /\ DOMAIN heap' = DOMAIN heap \cup {Len(heap) + 1} /\ current' = Len(heap) + 1
         /\ \E i \in Indices(Token) :
              heap'[Len(heap) + 1] = Replacement(heap[current].macro, Context(current), i)
<1>1. PICK i \in Indices(Token) :
        heap' = Append([heap EXCEPT ![current].index = @ + 1],
                       Replacement(heap[current].macro, Context(current), i))
  BY DEF PushParameter
<1>2. /\ current # 0 /\ Ready /\ current' = Len(heap')
      /\ UNCHANGED <<input, freed, names_freed, macros, line_number, mode, call, paren_depth>>
  BY DEF PushParameter
<1> DEFINE h == [heap EXCEPT ![current].index = @ + 1]
           r == Replacement(heap[current].macro, Context(current), i)
<1>3. current \in DOMAIN heap /\ RefersTo(current) /\ heap[current] \in Replacements
  <2>1. current \in DOMAIN heap
    BY <1>2, HeapType DEF TypeInv
  <2> QED BY <2>1, HeapType DEF RefInv
<1>4. i \in Nat
  <2>1. i \in DOMAIN Definition(current).names
    BY DEF Indices
  <2>2. Context(current) \in DOMAIN heap
    <3>1. Context(current) \in 1 .. current
      BY <1>3 DEF RefersTo
    <3> QED BY <1>3, <3>1, HeapType
  <2>3. heap[Context(current)].macro \in DOMAIN macros
    BY <2>2 DEF RefInv, RefersTo
  <2>4. Definition(current).names \in Seq(Places)
    BY <2>3, MacrosType DEF Definition, MacroDefinitions
  <2> QED BY <2>1, <2>4
<1>5. r \in Replacements
  <2>1. heap[current].macro \in Nat /\ Context(current) \in Nat /\ current \in Nat
    BY <1>3, HeapType DEF Replacements, Context
  <2> QED BY <1>4, <2>1, FreshType
<1>6. /\ heap' \in Seq(Replacements) /\ Len(heap') = Len(heap) + 1
      /\ DOMAIN heap' = DOMAIN heap \cup {Len(heap) + 1} /\ HeapGrows
      /\ heap'[Len(heap) + 1] = r
  <2>1. Alike(heap, h) /\ Len(h) = Len(heap)
    BY <1>2, IndexMoves
  <2>2. heap' = Append(h, r)
    BY <1>1
  <2> HIDE DEF h, r
  <2> QED BY <1>5, <2>1, <2>2, OneMoreReplacement
<1>7. TypeInv'
  <2>1. current' \in 0 .. Len(heap') /\ call' \in 0 .. Len(heap') /\ freed' \subseteq DOMAIN heap'
    BY <1>2, <1>6, HeapType DEF TypeInv
  <2> QED BY <1>2, <1>6, <2>1, SameSource DEF TypeInv, input
<1>8. /\ DOMAIN heap' = DOMAIN heap \cup {Len(heap) + 1} /\ current' = Len(heap) + 1
      /\ \E k \in Indices(Token) :
           heap'[Len(heap) + 1] = Replacement(heap[current].macro, Context(current), k)
  BY <1>2, <1>6
<1> QED BY <1>2, <1>6, <1>7, <1>8, SameMacros

LEMMA CallGrows ==
  ASSUME TypeInv, RefInv, NEW p, Call(p)
  PROVE  /\ TypeInv' /\ MacrosGrow /\ HeapGrows
         /\ DOMAIN heap' = DOMAIN heap \cup {Len(heap) + 1}
         /\ \E m \in Found : heap'[Len(heap) + 1] = Replacement(m, Len(heap) + 1, 0)
<1>1. PICK m \in Found : heap' = Append(Advanced, Replacement(m, Len(heap) + 1, 0))
  BY DEF Call
<1>2. /\ Returns(p) /\ names_freed' = names_freed \cup {p} /\ mode' = "arguments"
      /\ call' = Len(heap) + 1 /\ paren_depth' = 0
      /\ UNCHANGED <<freed, current, macros, line_number>>
  BY DEF Call
<1> DEFINE r == Replacement(m, Len(heap) + 1, 0)
<1>3. r \in Replacements
  <2>1. m \in Nat /\ Len(heap) + 1 \in Nat /\ current \in Nat
    BY HeapType, MacrosType DEF Found, TypeInv
  <2> QED BY <2>1, FreshType
<1>4. /\ heap' \in Seq(Replacements) /\ Len(heap') = Len(heap) + 1
      /\ DOMAIN heap' = DOMAIN heap \cup {Len(heap) + 1} /\ HeapGrows
      /\ heap'[Len(heap) + 1] = r
  <2> HIDE DEF r
  <2>1. heap' = Append(Advanced, r)
    BY <1>1 DEF r
  <2> QED BY <1>3, <2>1, AdvancedType, OneMoreReplacement
<1>5. TypeInv'
  <2>1. current' \in 0 .. Len(heap') /\ call' \in 0 .. Len(heap') /\ freed' \subseteq DOMAIN heap'
    BY <1>2, <1>4, HeapType DEF TypeInv
  <2>2. names_freed' \subseteq Places /\ source' = source
    BY <1>2, ReturnedType DEF TypeInv
  <2>3. position' \in Nat \ {0} /\ is_replacement' \in BOOLEAN
    <3>1. position' = position \/ position' = position + 1
      BY <1>2, ReturnedType
    <3>2. is_replacement' = (current # 0) /\ (current # 0) \in BOOLEAN
      BY <1>2, ReturnedType
    <3>3. is_replacement' \in BOOLEAN
      BY <3>2
    <3>4. position' \in Nat \ {0}
      BY <3>1 DEF TypeInv
    <3> QED BY <3>3, <3>4
  <2> QED BY <1>2, <1>4, <2>1, <2>2, <2>3, SameSource DEF TypeInv, Modes
<1>6. /\ DOMAIN heap' = DOMAIN heap \cup {Len(heap) + 1}
      /\ \E k \in Found : heap'[Len(heap) + 1] = Replacement(k, Len(heap) + 1, 0)
  BY <1>4
<1> QED BY <1>2, <1>4, <1>5, <1>6, SameMacros

LEMMA BodyGrows ==
  ASSUME TypeInv, RefInv, Body
  PROVE  TypeInv' /\ MacrosGrow /\ HeapGrows
<1>1. /\ mode = "body" /\ UNCHANGED <<source, is_replacement, stack, call, paren_depth>>
  BY DEF Body
<1>2. /\ position' \in Nat \ {0} /\ line_number' \in Nat /\ mode' \in {"body", "line"}
      /\ \/ macros' = macros
         \/ /\ position \in Places
            /\ macros' = [macros EXCEPT ![Len(macros)].body = Append(@, position)]
  <2>1. position \in Nat \ {0} /\ line_number \in Nat /\ Len(source) \in Nat
    BY SourceType DEF TypeInv
  <2>2. LineAfter(is_replacement) \in Nat
    BY LinesType
  <2> QED BY <2>1, <2>2, SourceType DEF Body
<1>3. MacrosGrow /\ macros' \in Seq(MacroDefinitions)
  <2>1. CASE macros' = macros
    BY <1>1, <1>2, <2>1, SameMacros, MacrosType
  <2>2. CASE position \in Places
             /\ macros' = [macros EXCEPT ![Len(macros)].body = Append(@, position)]
    BY <1>1, <2>2, LastMacroGrows DEF RefInv
  <2> QED BY <1>2, <2>1, <2>2
<1>4. HeapGrows
  BY <1>1, HeapType DEF HeapGrows, stack
<1>5. TypeInv'
  BY <1>1, <1>2, <1>3, SameSource DEF TypeInv, stack, Modes
<1> QED BY <1>3, <1>4, <1>5

(* The arguments b are those of a, and what they have besides is token p.  *)
ArgumentsGrow(a, b, p) ==
  /\ \A k \in DOMAIN a :
       /\ k \in DOMAIN b
       /\ \A n \in DOMAIN a[k] : n \in DOMAIN b[k] /\ b[k][n] = a[k][n]
  /\ \A k \in DOMAIN b : \A n \in DOMAIN b[k] :
       b[k][n] = p \/ (k \in DOMAIN a /\ n \in DOMAIN a[k] /\ b[k][n] = a[k][n])

(* There is one argument from the first token on, and one more behind each *)
(* comma that separates.                                                   *)
CommasCount(a, b, depth, t) ==
  Len(b) = (IF a = <<>> THEN 1 ELSE Len(a)) + (IF t = "comma" /\ depth = 0 THEN 1 ELSE 0)

(* An argument gets a token, or another begins.                            *)
LEMMA GivenType ==
  ASSUME NEW S, NEW parameters \in Seq(Seq(S)), NEW depth, NEW t, NEW p \in S
  PROVE  LET given == Given(parameters, depth, t, p)
         IN  /\ given \in Seq(Seq(S)) /\ ArgumentsGrow(parameters, given, p)
             /\ CommasCount(parameters, given, depth, t)
<1> DEFINE started == IF parameters = <<>> THEN <<<<>>>> ELSE parameters
           given == Given(parameters, depth, t, p)
           l == Len(started)
<1>1. /\ started \in Seq(Seq(S)) /\ l \in Nat /\ l > 0
      /\ l = IF parameters = <<>> THEN 1 ELSE Len(parameters)
      /\ \A k \in DOMAIN parameters : k \in DOMAIN started /\ started[k] = parameters[k]
      /\ parameters = <<>> => started[1] = <<>> /\ DOMAIN started = {1}
      /\ parameters # <<>> => started = parameters
  <2>1. CASE parameters = <<>>
    <3>1. started = <<<<>>>>
      BY <2>1
    <3>2. <<>> \in Seq(S) /\ <<<<>>>> \in Seq(Seq(S))
      OBVIOUS
    <3> HIDE DEF started
    <3> QED BY <2>1, <3>1, <3>2
  <2>2. CASE parameters # <<>>
    BY <2>2
  <2> QED BY <2>1, <2>2
<1>2. \A k \in DOMAIN started : \A n \in DOMAIN started[k] :
        k \in DOMAIN parameters /\ n \in DOMAIN parameters[k] /\ started[k][n] = parameters[k][n]
  <2>1. CASE parameters = <<>>
    BY <1>1, <2>1
  <2>2. CASE parameters # <<>>
    BY <1>1, <2>2
  <2> QED BY <2>1, <2>2
<1> HIDE DEF started
<1> DEFINE Kept(g) ==
             /\ g \in Seq(Seq(S))
             /\ \A k \in DOMAIN started :
                  /\ k \in DOMAIN g
                  /\ \A n \in DOMAIN started[k] : n \in DOMAIN g[k] /\ g[k][n] = started[k][n]
             /\ \A k \in DOMAIN g : \A n \in DOMAIN g[k] :
                  g[k][n] = p \/ (k \in DOMAIN started /\ n \in DOMAIN started[k]
                                  /\ g[k][n] = started[k][n])
<1>3. Kept(started)
  BY <1>1
<1>4. Kept(Append(started, <<>>)) /\ Len(Append(started, <<>>)) = l + 1
  <2> DEFINE g == Append(started, <<>>)
  <2>1. <<>> \in Seq(S)
    OBVIOUS
  <2>2. g \in Seq(Seq(S)) /\ Len(g) = l + 1 /\ DOMAIN g = DOMAIN started \cup {l + 1}
    <3> DEFINE e == <<>>
    <3>1. e \in Seq(S)
      BY <2>1
    <3> HIDE DEF e
    <3>2. Append(started, e) \in Seq(Seq(S)) /\ Len(Append(started, e)) = l + 1
      <4> DEFINE T == Seq(S)
      <4>1. started \in Seq(T) /\ e \in T
        BY <1>1, <3>1
      <4> HIDE DEF T
      <4>2. Append(started, e) \in Seq(T) /\ Len(Append(started, e)) = Len(started) + 1
        BY <4>1, Longer
      <4> QED BY <4>2 DEF T
    <3>3. DOMAIN Append(started, e) = 1 .. l + 1 /\ DOMAIN started = 1 .. l
      BY <1>1, <3>2
    <3>4. 1 .. l + 1 = (1 .. l) \cup {l + 1}
      BY <1>1
    <3> QED BY <3>2, <3>3, <3>4 DEF e
  <2>3. \A k \in DOMAIN started : g[k] = started[k]
    BY <1>1
  <2>4. g[l + 1] = <<>>
    BY <1>1
  <2> HIDE DEF g
  <2> QED BY <2>2, <2>3, <2>4 DEF g
<1>5. LET g == [started EXCEPT ![l] = Append(@, p)] IN Kept(g) /\ Len(g) = l
  <2> DEFINE a == Append(started[l], p)
             g == [started EXCEPT ![l] = a]
  <2>1. l \in DOMAIN started /\ started[l] \in Seq(S)
    BY <1>1
  <2>2. /\ a \in Seq(S) /\ Len(a) = Len(started[l]) + 1 /\ Len(started[l]) \in Nat
        /\ \A n \in DOMAIN started[l] : n \in DOMAIN a /\ a[n] = started[l][n]
    BY <2>1, Longer
  <2>3. \A n \in DOMAIN a : a[n] = p \/ (n \in DOMAIN started[l] /\ a[n] = started[l][n])
    BY <2>1
  <2>4. g \in Seq(Seq(S)) /\ DOMAIN g = DOMAIN started /\ Len(g) = l
    <3> HIDE DEF a
    <3> QED BY <1>1, <2>1, <2>2
  <2>5. \A k \in DOMAIN started : g[k] = IF k = l THEN a ELSE started[k]
    BY <1>1
  <2> HIDE DEF a
  <2>6. Kept(g)
    <3> HIDE DEF g
    <3> QED BY <2>2, <2>3, <2>4, <2>5
  <2>7. g = [started EXCEPT ![l] = Append(@, p)]
    BY <2>1 DEF a
  <2> QED BY <2>4, <2>6, <2>7
<1>6. \/ given = started /\ ~(t = "comma" /\ depth = 0)
      \/ given = Append(started, <<>>) /\ t = "comma" /\ depth = 0
      \/ given = [started EXCEPT ![l] = Append(@, p)] /\ ~(t = "comma" /\ depth = 0)
  BY DEF Given, started
<1>7. Kept(given) /\ Len(given) = l + (IF t = "comma" /\ depth = 0 THEN 1 ELSE 0)
  <2> DEFINE separates == t = "comma" /\ depth = 0
             more == Append(started, <<>>)
             longer == [started EXCEPT ![l] = Append(@, p)]
  <2>1. Kept(more) /\ Len(more) = l + 1 /\ Kept(longer) /\ Len(longer) = l
    BY <1>4, <1>5
  <2>2. \/ given = started /\ ~separates
        \/ given = more /\ separates
        \/ given = longer /\ ~separates
    BY <1>6
  <2> SUFFICES Kept(given) /\ Len(given) = l + (IF separates THEN 1 ELSE 0)
    OBVIOUS
  <2>3. l \in Nat /\ Kept(started) /\ l = Len(started)
    BY <1>1, <1>3
  <2> HIDE DEF Kept, given, separates, more, longer, l
  <2>4. CASE given = started /\ ~separates
    <3>1. Kept(given)
      BY <2>3, <2>4, Zenon
    <3>2. Len(given) = l
      BY <2>3, <2>4
    <3> QED BY <2>3, <2>4, <3>1, <3>2
  <2>5. CASE given = more /\ separates
    <3>1. Kept(given)
      BY <2>1, <2>5, Zenon
    <3>2. Len(given) = l + 1
      BY <2>1, <2>5
    <3> QED BY <2>5, <3>1, <3>2
  <2>6. CASE given = longer /\ ~separates
    <3>1. Kept(given)
      BY <2>1, <2>6, Zenon
    <3>2. Len(given) = l
      BY <2>1, <2>6
    <3> QED BY <2>3, <2>6, <3>1, <3>2
  <2> QED BY <2>2, <2>4, <2>5, <2>6
<1> HIDE DEF given
<1>8. \A k \in DOMAIN parameters :
        /\ k \in DOMAIN given
        /\ \A n \in DOMAIN parameters[k] :
             n \in DOMAIN given[k] /\ given[k][n] = parameters[k][n]
  <2> TAKE k \in DOMAIN parameters
  <2>1. k \in DOMAIN started /\ started[k] = parameters[k]
    BY <1>1
  <2> QED BY <1>7, <2>1
<1>9. \A k \in DOMAIN given : \A n \in DOMAIN given[k] :
        given[k][n] = p \/ (k \in DOMAIN parameters /\ n \in DOMAIN parameters[k]
                            /\ given[k][n] = parameters[k][n])
  BY <1>2, <1>7
<1>10. Len(given) = (IF parameters = <<>> THEN 1 ELSE Len(parameters))
                    + (IF t = "comma" /\ depth = 0 THEN 1 ELSE 0)
  BY <1>1, <1>7
<1> QED BY <1>7, <1>8, <1>9, <1>10 DEF given, ArgumentsGrow, CommasCount

(* A token of an argument.                                                 *)
LEMMA ArgumentHeap ==
  ASSUME TypeInv, RefInv, NEW p, Argument(p)
  PROVE  /\ heap' \in Seq(Replacements) /\ Len(heap') = Len(heap) /\ HeapGrows
         /\ heap'[call].parameters = Given(heap[call].parameters, paren_depth, source[p], p)
         /\ \A r \in DOMAIN heap : r # call => heap'[r].parameters = heap[r].parameters
<1> DEFINE g == Advanced
           a == Given(heap[call].parameters, paren_depth, source[p], p)
           e == [g[call] EXCEPT !.parameters = a]
<1>1. Returns(p) /\ mode = "arguments" /\ heap' = [g EXCEPT ![call].parameters = Given(@, paren_depth, source[p], p)]
  BY DEF Argument
<1>2. Alike(heap, g) /\ Len(g) = Len(heap) /\ p \in Places
  BY <1>1, AdvancedType, ReturnedType
<1>3. g \in Seq(Replacements) /\ DOMAIN g = DOMAIN heap
  <2>1. g \in Seq(Replacements)
    BY <1>2 DEF Alike
  <2> HIDE DEF g, Replacements
  <2> QED BY <1>2, <2>1, HeapType
<1>4. call \in DOMAIN heap
  BY <1>1, HeapType DEF RefInv, TypeInv
<1> HIDE DEF g
<1>5. /\ g[call].parameters = heap[call].parameters
      /\ heap[call].parameters \in Seq(Seq(Places)) /\ g[call] \in Replacements
  <2>1. g[call].parameters = heap[call].parameters
    BY <1>2, <1>4 DEF Alike
  <2>2. heap[call] \in Replacements
    BY <1>4, HeapType
  <2>3. g[call] \in Replacements
    <3> HIDE DEF Replacements
    <3> QED BY <1>3, <1>4
  <2> QED BY <2>1, <2>2, <2>3 DEF Replacements
<1>6. /\ a \in Seq(Seq(Places))
      /\ \A k \in DOMAIN heap[call].parameters :
           /\ k \in DOMAIN a
           /\ \A n \in DOMAIN heap[call].parameters[k] :
                n \in DOMAIN a[k] /\ a[k][n] = heap[call].parameters[k][n]
  <2> DEFINE t == source[p]
             parameters == heap[call].parameters
             given == Given(parameters, paren_depth, t, p)
  <2>1. parameters \in Seq(Seq(Places)) /\ p \in Places
    BY <1>2, <1>5
  <2> HIDE DEF t, parameters
  <2>2. given \in Seq(Seq(Places)) /\ ArgumentsGrow(parameters, given, p)
    BY <2>1, GivenType
  <2> QED BY <2>2 DEF t, parameters, ArgumentsGrow
<1>7. heap' = [g EXCEPT ![call] = e]
  BY <1>1, <1>5
<1> HIDE DEF a
<1>8. /\ e \in Replacements /\ e.parameters = a /\ e.macro = g[call].macro
      /\ e.context = g[call].context /\ e.argument = g[call].argument
      /\ e.next = g[call].next
  BY <1>5, <1>6 DEF Replacements
<1> HIDE DEF e
<1>9. heap' \in Seq(Replacements) /\ Len(heap') = Len(heap) /\ DOMAIN heap' = DOMAIN heap
  <2> HIDE DEF Replacements
  <2> QED BY <1>2, <1>3, <1>4, <1>7, <1>8, HeapType
<1>10. \A r \in DOMAIN heap : heap'[r] = IF r = call THEN e ELSE g[r]
  BY <1>3, <1>7
<1>11. \A r \in DOMAIN heap :
        /\ heap'[r].macro = heap[r].macro /\ heap'[r].context = heap[r].context
        /\ heap'[r].argument = heap[r].argument /\ heap'[r].next = heap[r].next
        /\ r # call => heap'[r].parameters = heap[r].parameters
  <2> TAKE r \in DOMAIN heap
  <2>1. /\ g[r].macro = heap[r].macro /\ g[r].context = heap[r].context
        /\ g[r].argument = heap[r].argument /\ g[r].next = heap[r].next
        /\ g[r].parameters = heap[r].parameters
    BY <1>2 DEF Alike
  <2> QED BY <1>8, <1>10, <2>1
<1>12. heap'[call].parameters = a
  BY <1>4, <1>8, <1>10
<1>13. HeapGrows
  <2>1. \A r \in DOMAIN heap : \A k \in DOMAIN heap[r].parameters :
          /\ k \in DOMAIN heap'[r].parameters
          /\ \A n \in DOMAIN heap[r].parameters[k] :
               /\ n \in DOMAIN heap'[r].parameters[k]
               /\ heap'[r].parameters[k][n] = heap[r].parameters[k][n]
    <3> TAKE r \in DOMAIN heap
    <3>1. CASE r = call
      BY <1>6, <1>12, <3>1
    <3>2. CASE r # call
      BY <1>11, <3>2
    <3> QED BY <3>1, <3>2
  <2>2. Len(heap') >= Len(heap)
    BY <1>9, HeapType
  <2> QED BY <1>1, <1>11, <2>1, <2>2 DEF HeapGrows
<1> QED BY <1>9, <1>11, <1>12, <1>13 DEF a

LEMMA ArgumentGrows ==
  ASSUME TypeInv, RefInv, NEW p, Argument(p)
  PROVE  TypeInv' /\ MacrosGrow /\ HeapGrows
<1>1. /\ Returns(p) /\ mode = "arguments"
      /\ UNCHANGED <<freed, names_freed, current, macros, line_number, mode, call>>
      /\ paren_depth' \in {paren_depth, paren_depth + 1, paren_depth - 1}
      /\ paren_depth' = paren_depth - 1 => paren_depth > 0
  BY DEF Argument, TypeInv
<1>2. paren_depth' \in Nat
  BY <1>1 DEF TypeInv
<1>3. heap' \in Seq(Replacements) /\ Len(heap') = Len(heap) /\ HeapGrows
  BY ArgumentHeap
<1>4. DOMAIN heap' = DOMAIN heap
  <2> HIDE DEF Replacements
  <2> QED BY <1>3, HeapType
<1>5. position' \in Nat \ {0} /\ is_replacement' \in BOOLEAN /\ source' = source
  <2>1. position' = position \/ position' = position + 1
    BY <1>1, ReturnedType
  <2>2. is_replacement' = (current # 0) /\ (current # 0) \in BOOLEAN /\ source' = source
    BY <1>1, ReturnedType
  <2>3. is_replacement' \in BOOLEAN
    BY <2>2
  <2>4. position' \in Nat \ {0}
    BY <2>1 DEF TypeInv
  <2> QED BY <2>2, <2>3, <2>4
<1>6. TypeInv'
  BY <1>1, <1>2, <1>3, <1>4, <1>5, SameSource DEF TypeInv
<1> QED BY <1>1, <1>3, <1>6, SameMacros

LEMMA NothingGrows ==
  ASSUME TypeInv, UNCHANGED <<input, stack, macros, line_number, call, paren_depth>>,
         mode' = mode \/ mode' = "undefined"
  PROVE  TypeInv' /\ MacrosGrow /\ HeapGrows
<1>1. TypeInv'
  BY SameSource DEF TypeInv, input, stack, Modes
<1>2. HeapGrows
  BY HeapType DEF HeapGrows, stack
<1> QED BY <1>1, <1>2, SameMacros

(* Nothing a step needs is lost by another.                                *)
LEMMA StepGrows ==
  ASSUME TypeInv, RefInv, [Next]_vars
  PROVE  TypeInv' /\ MacrosGrow /\ HeapGrows /\ source' = source
<1>1. CASE Pop
  BY <1>1, PopGrows DEF Pop, input
<1>2. CASE PushParameter
  BY <1>2, PushGrows DEF PushParameter, input
<1>3. CASE ReadFreed
  BY <1>3, NothingGrows DEF ReadFreed, input
<1>4. CASE Body
  BY <1>4, BodyGrows DEF Body
<1>5. CASE Stopped \/ UNCHANGED vars
  <2>1. UNCHANGED vars
    BY <1>5 DEF Stopped
  <2> QED BY <2>1, NothingGrows DEF vars, input
<1>6. ASSUME NEW p \in 1 .. Len(source), Returned(p)
      PROVE  TypeInv' /\ MacrosGrow /\ HeapGrows /\ source' = source
  <2>1. Returns(p)
    BY <1>6 DEF Returned, Words, Call, SyntaxError, Argument, Invoke, DefinitionKeyword,
                Begin, Parameter, HeadEnd
  <2>2. source' = source
    BY <2>1 DEF Returns
  <2>3. TypeInv' /\ MacrosGrow /\ HeapGrows
    BY <1>6, WordsGrow, CallGrows, SyntaxErrorGrows, ArgumentGrows, InvokeGrows,
       KeywordGrows, BeginGrows, ParameterGrows, HeadEndGrows DEF Returned
  <2> QED BY <2>2, <2>3
<1> QED BY <1>1, <1>2, <1>3, <1>4, <1>5, <1>6 DEF Next

(***************************************************************************)
(* References.                                                             *)
(***************************************************************************)

(* Replacements are made by calls and by parameters.                       *)
LEMMA NewReplacement ==
  ASSUME TypeInv, RefInv, [Next]_vars
  PROVE  \/ DOMAIN heap' = DOMAIN heap
         \/ PushParameter
         \/ \E p \in 1 .. Len(source) : Call(p)
<1>1. CASE Pop \/ ReadFreed \/ Body \/ Stopped \/ UNCHANGED vars
  BY <1>1 DEF Pop, ReadFreed, Body, Stopped, vars, stack
<1>2. ASSUME NEW p \in 1 .. Len(source), Returned(p), ~Call(p)
      PROVE  DOMAIN heap' = DOMAIN heap
  <2>1. CASE Argument(p)
    <3>1. heap' \in Seq(Replacements) /\ Len(heap') = Len(heap)
      BY <2>1, ArgumentHeap
    <3> HIDE DEF Replacements
    <3> QED BY <3>1, HeapType
  <2>2. CASE heap' = Advanced
    <3>1. heap' \in Seq(Replacements) /\ Len(heap') = Len(heap)
      BY <2>2, AdvancedType DEF Alike
    <3> HIDE DEF Replacements
    <3> QED BY <3>1, HeapType
  <2> QED BY <1>2, <2>1, <2>2 DEF Returned, Words, SyntaxError, Invoke,
               DefinitionKeyword, Begin, Parameter, HeadEnd
<1> QED BY <1>1, <1>2 DEF Next

(* The modes that macros and calls are about.                              *)
LEMMA ModeSteps ==
  ASSUME TypeInv, RefInv, [Next]_vars
  PROVE  /\ mode' = "arguments" =>
              \/ mode = "arguments" /\ call' = call
              \/ call' = Len(heap) + 1 /\ \E p \in 1 .. Len(source) : Call(p)
<1>1. CASE Pop \/ PushParameter \/ ReadFreed \/ Body \/ Stopped \/ UNCHANGED vars
  BY <1>1 DEF Pop, PushParameter, ReadFreed, Body, Stopped, vars
<1>2. ASSUME NEW p \in 1 .. Len(source), Returned(p)
      PROVE  mode' = "arguments" =>
               (mode = "arguments" /\ call' = call) \/ (call' = Len(heap) + 1 /\ Call(p))
  BY <1>2 DEF Returned, Words, Call, SyntaxError, Argument, Invoke, DefinitionKeyword,
              Begin, Parameter, HeadEnd
<1> QED BY <1>1, <1>2 DEF Next

LEMMA RefKept ==
  ASSUME TypeInv, RefInv, MacrosGrow, HeapGrows, TypeInv', NEW r \in DOMAIN heap
  PROVE  RefersTo(r)'
<1>1. RefersTo(r) /\ r \in 1 .. Len(heap) /\ Len(heap) \in Nat
  BY HeapType DEF RefInv
<1> DEFINE c == heap[r].context
<1>2. c \in DOMAIN heap /\ c \in 1 .. r /\ RefersTo(c)
  <2>1. c \in 1 .. r
    BY <1>1 DEF RefersTo, Context
  <2>2. c \in DOMAIN heap
    BY <1>1, <2>1, HeapType
  <2> QED BY <2>1, <2>2 DEF RefInv
<1>3. /\ heap'[r].macro = heap[r].macro /\ heap'[r].context = c
      /\ heap'[r].argument = heap[r].argument /\ heap'[r].next = heap[r].next
      /\ heap'[c].macro = heap[c].macro /\ heap'[c].argument = heap[c].argument
  BY <1>2 DEF HeapGrows
<1>4. /\ Len(macros) \in Nat /\ Len(macros') \in Nat /\ Len(macros') >= Len(macros)
      /\ DOMAIN macros = 1 .. Len(macros) /\ DOMAIN macros' = 1 .. Len(macros')
  <2>1. macros' \in Seq(MacroDefinitions')
    BY DEF TypeInv
  <2>2. Len(macros') \in Nat /\ DOMAIN macros' = 1 .. Len(macros')
    <3> HIDE DEF MacroDefinitions
    <3> QED BY <2>1
  <2>3. Len(macros) \in Nat /\ DOMAIN macros = 1 .. Len(macros)
    BY MacrosType
  <2>4. Len(macros') >= Len(macros)
    BY DEF MacrosGrow
  <2> QED BY <2>2, <2>3, <2>4
<1>5. heap'[r].macro \in DOMAIN macros'
  BY <1>1, <1>3, <1>4 DEF RefersTo
<1>6. mode' \in {"head", "body"} => heap'[r].macro # Len(macros')
  <2> SUFFICES ASSUME mode' \in {"head", "body"} PROVE heap'[r].macro # Len(macros')
    OBVIOUS
  <2>1. heap[r].macro \in 1 .. Len(macros)
    BY <1>1, <1>4 DEF RefersTo
  <2>2. CASE mode \in {"head", "body"}
    <3>1. Len(macros') = Len(macros)
      BY <2>2 DEF MacrosGrow
    <3> QED BY <1>1, <1>3, <2>2, <3>1 DEF RefersTo
  <2>3. CASE mode \notin {"head", "body"}
    <3>1. Len(macros') = Len(macros) + 1
      BY <2>3 DEF MacrosGrow
    <3> QED BY <1>3, <1>4, <2>1, <3>1
  <2> QED BY <2>2, <2>3
<1>7. heap'[r].argument <= Len(macros'[heap'[c].macro].names)
  <2> DEFINE m == heap[c].macro
  <2>1. m \in DOMAIN macros
    BY <1>2 DEF RefersTo
  <2>2. heap[r].argument <= Len(macros[m].names)
    BY <1>1 DEF RefersTo, Definition, Context
  <2>3. Len(macros'[m].names) >= Len(macros[m].names)
    BY <2>1 DEF MacrosGrow
  <2>4. Len(macros[m].names) \in Nat /\ heap[r].argument \in Nat
    <3>1. macros[m].names \in Seq(Places)
      BY <2>1, MacrosType DEF MacroDefinitions
    <3>2. heap[r] \in Replacements
      BY HeapType
    <3> QED BY <3>1, <3>2 DEF Replacements
  <2>5. Len(macros'[m].names) \in Nat
    <3>0. m \in DOMAIN macros'
      BY <1>4, <2>1
    <3>1. m \in DOMAIN macros' /\ macros' \in Seq(MacroDefinitions')
      BY <3>0 DEF TypeInv
    <3>2. macros'[m] \in MacroDefinitions'
      <4> HIDE DEF MacroDefinitions
      <4> QED BY <3>1
    <3>3. macros'[m].names \in Seq(Places')
      BY <3>2 DEF MacroDefinitions
    <3> QED BY <3>3
  <2>6. heap[r].argument <= Len(macros'[m].names)
    <3> DEFINE x == heap[r].argument
               y == Len(macros[m].names)
               z == Len(macros'[m].names)
    <3>1. x \in Nat /\ y \in Nat /\ z \in Nat /\ x <= y /\ z >= y
      BY <2>2, <2>3, <2>4, <2>5
    <3> HIDE DEF x, y, z
    <3>2. x <= z
      BY <3>1
    <3> QED BY <3>2 DEF x, z
  <2>7. heap'[c].macro = m /\ heap'[r].argument = heap[r].argument
    BY <1>3
  <2> HIDE DEF m
  <2> QED BY <2>6, <2>7
<1>8. /\ heap'[r].context \in 1 .. r /\ heap'[heap'[r].context].argument = 0
      /\ heap'[r].argument = 0 => heap'[r].context = r
      /\ heap'[r].next < r
  BY <1>1, <1>2, <1>3 DEF RefersTo, Context
<1>9. heap'[r].argument <= Len(macros'[heap'[heap'[r].context].macro].names)
  BY <1>3, <1>7
<1> QED BY <1>5, <1>6, <1>8, <1>9 DEF RefersTo, Context, Definition

LEMMA RefOfParameter ==
  ASSUME TypeInv, RefInv, PushParameter, NEW l, l = Len(heap) + 1
  PROVE  RefersTo(l)'
<1>1. /\ MacrosGrow /\ HeapGrows /\ TypeInv' /\ current # 0 /\ mode' = mode /\ macros' = macros
      /\ current \in DOMAIN heap
  <2>1. current # 0 /\ mode' = mode /\ macros' = macros
    BY DEF PushParameter
  <2>2. current \in DOMAIN heap
    BY <2>1, HeapType DEF TypeInv
  <2> QED BY <2>1, <2>2, PushGrows
<1> DEFINE c == heap[current].context
<1>2. PICK i \in Indices(Token) :
        heap'[l] = Replacement(heap[current].macro, Context(current), i)
  BY PushGrows
<1>3. /\ heap'[l].macro = heap[current].macro /\ heap'[l].context = c
      /\ heap'[l].argument = i /\ heap'[l].next = current
  BY <1>2 DEF Replacement, Context
<1>4. RefersTo(current) /\ l \in Nat /\ current \in 1 .. Len(heap) /\ Len(heap) \in Nat
  BY <1>1, HeapType DEF RefInv
<1>5. c \in 1 .. current /\ c \in DOMAIN heap /\ heap[c].argument = 0
  BY <1>4, HeapType DEF RefersTo, Context
<1>6. heap'[c].argument = 0 /\ heap'[c].macro = heap[c].macro
  <2> HIDE DEF c
  <2> QED BY <1>1, <1>5 DEF HeapGrows
<1>7. i \in DOMAIN macros[heap[c].macro].names
  BY DEF Indices, Definition, Context
<1>8. i \in Nat /\ i # 0 /\ i <= Len(macros[heap[c].macro].names)
  <2>1. heap[c].macro \in DOMAIN macros
    BY <1>5 DEF RefInv, RefersTo
  <2>2. macros[heap[c].macro].names \in Seq(Places)
    BY <2>1, MacrosType DEF MacroDefinitions
  <2> DEFINE names == macros[heap[c].macro].names
  <2>3. names \in Seq(Places) /\ i \in DOMAIN names
    BY <1>7, <2>2
  <2> HIDE DEF names
  <2>4. i \in 1 .. Len(names) /\ Len(names) \in Nat
    BY <2>3
  <2>5. i \in Nat /\ i # 0 /\ i <= Len(names)
    BY <2>4
  <2> QED BY <2>5 DEF names
<1>9. /\ heap'[l].macro \in DOMAIN macros'
      /\ mode' \in {"head", "body"} => heap'[l].macro # Len(macros')
  BY <1>1, <1>3, <1>4 DEF RefersTo
<1>10. /\ heap'[l].context \in 1 .. l /\ heap'[heap'[l].context].argument = 0
       /\ heap'[l].argument # 0 /\ heap'[l].next < l
  <2> HIDE DEF c
  <2> QED BY <1>3, <1>4, <1>5, <1>6, <1>8
<1>11. heap'[l].argument <= Len(macros'[heap'[heap'[l].context].macro].names)
  BY <1>1, <1>3, <1>6, <1>8
<1> QED BY <1>9, <1>10, <1>11 DEF RefersTo, Context, Definition

LEMMA RefOfCall ==
  ASSUME TypeInv, RefInv, NEW p, Call(p), NEW l, l = Len(heap) + 1
  PROVE  RefersTo(l)'
<1>1. PICK m \in Found : heap'[l] = Replacement(m, l, 0)
  BY CallGrows
<1>2. /\ heap'[l].macro = m /\ heap'[l].context = l /\ heap'[l].argument = 0
      /\ heap'[l].next = current
  BY <1>1 DEF Replacement
<1>3. /\ macros' = macros /\ mode' = "arguments" /\ l \in Nat /\ l > 0 /\ current < l
  BY HeapType DEF Call, TypeInv
<1>4. m \in DOMAIN macros /\ Len(macros[m].names) \in Nat
  <2>1. m \in DOMAIN macros
    BY DEF Found
  <2>2. macros[m].names \in Seq(Places)
    BY <2>1, MacrosType DEF MacroDefinitions
  <2> QED BY <2>1, <2>2
<1>5. /\ heap'[l].macro \in DOMAIN macros' /\ heap'[l].context \in 1 .. l
      /\ heap'[heap'[l].context].argument = 0
      /\ heap'[l].argument <= Len(macros'[heap'[heap'[l].context].macro].names)
  BY <1>2, <1>3, <1>4
<1> QED BY <1>2, <1>3, <1>5 DEF RefersTo, Context, Definition

LEMMA RefStep ==
  ASSUME TypeInv, RefInv, [Next]_vars
  PROVE  RefInv'
<1>1. TypeInv' /\ MacrosGrow /\ HeapGrows
  BY StepGrows
<1>2. \A r \in DOMAIN heap : RefersTo(r)'
  BY <1>1, RefKept
<1>3. \A r \in DOMAIN heap' : RefersTo(r)'
  <2>1. CASE DOMAIN heap' = DOMAIN heap
    BY <1>2, <2>1
  <2>2. CASE PushParameter
    <3> TAKE r \in DOMAIN heap'
    <3>1. r \in DOMAIN heap \/ r = Len(heap) + 1
      BY <2>2, PushGrows
    <3> QED BY <1>2, <2>2, <3>1, RefOfParameter
  <2>3. CASE \E p \in 1 .. Len(source) : Call(p)
    <3>1. PICK p \in 1 .. Len(source) : Call(p)
      BY <2>3
    <3> TAKE r \in DOMAIN heap'
    <3>2. r \in DOMAIN heap \/ r = Len(heap) + 1
      BY <3>1, CallGrows
    <3> QED BY <1>2, <3>1, <3>2, RefOfCall
  <2> QED BY <2>1, <2>2, <2>3, NewReplacement
<1>4. mode' \in {"head", "body"} => macros' # <<>>
  <2> SUFFICES ASSUME mode' \in {"head", "body"} PROVE Len(macros') # 0
    OBVIOUS
  <2>1. Len(macros') = IF mode \in {"head", "body"} THEN Len(macros) ELSE Len(macros) + 1
    BY <1>1 DEF MacrosGrow
  <2>2. Len(macros) \in Nat /\ (mode \in {"head", "body"} => Len(macros) # 0)
    BY MacrosType DEF RefInv
  <2> QED BY <2>1, <2>2
<1>5. mode' = "arguments" => call' # 0
  <2> SUFFICES ASSUME mode' = "arguments" PROVE call' # 0
    OBVIOUS
  <2>1. CASE mode = "arguments" /\ call' = call
    BY <2>1 DEF RefInv
  <2>2. CASE call' = Len(heap) + 1
    BY <2>2, HeapType
  <2> QED BY <2>1, <2>2, ModeSteps
<1> QED BY <1>3, <1>4, <1>5 DEF RefInv

LEMMA TypesInit ==
  ASSUME Init
  PROVE  TypeInv /\ RefInv
<1>1. heap = <<>> /\ macros = <<>> /\ mode = "line"
  BY DEF Init
<1>2. <<>> \in Seq(Replacements) /\ <<>> \in Seq(MacroDefinitions) /\ DOMAIN heap = {}
  BY <1>1
<1>3. TypeInv
  <2>1. heap \in Seq(Replacements) /\ macros \in Seq(MacroDefinitions)
    BY <1>1, <1>2
  <2>2. Len(heap) = 0 /\ 0 \in 0 .. 0
    BY <1>1
  <2>3. /\ source \in Sources /\ freed \subseteq DOMAIN heap /\ names_freed \subseteq Places
        /\ mode \in Modes
    <3>1. source \in Sources /\ freed = {} /\ names_freed = {}
      BY DEF Init
    <3> QED BY <1>1, <3>1 DEF Modes
  <2>5. /\ position \in Nat \ {0} /\ is_replacement \in BOOLEAN
        /\ line_number \in Nat /\ paren_depth \in Nat
    <3>1. position = 1 /\ line_number = 1 /\ paren_depth = 0
      BY DEF Init
    <3>2. is_replacement = FALSE
      BY DEF Init
    <3>3. is_replacement \in BOOLEAN
      BY <3>2, Zenon
    <3> QED BY <3>1, <3>3
  <2>4. current \in 0 .. Len(heap) /\ call \in 0 .. Len(heap)
    BY <2>2 DEF Init
  <2> QED BY <2>1, <2>3, <2>4, <2>5 DEF TypeInv
<1>4. RefInv
  BY <1>1, <1>2 DEF RefInv
<1> QED BY <1>3, <1>4

-----------------------------------------------------------------------------
(***************************************************************************)
(* Lines.                                                                  *)
(***************************************************************************)

LEMMA StoredStays ==
  ASSUME TypeInv, TypeInv', MacrosGrow, HeapGrows, source' = source, DefinitionStored
  PROVE  DefinitionStored'
<1>1. DOMAIN heap \subseteq DOMAIN heap' /\ DOMAIN macros \subseteq DOMAIN macros'
  <2>1. heap' \in Seq(Replacements') /\ macros' \in Seq(MacroDefinitions')
    BY DEF TypeInv
  <2>2. /\ DOMAIN heap' = 1 .. Len(heap') /\ Len(heap') \in Nat
        /\ DOMAIN macros' = 1 .. Len(macros') /\ Len(macros') \in Nat
    <3> HIDE DEF Replacements, MacroDefinitions
    <3> QED BY <2>1
  <2>3. Len(heap') >= Len(heap) /\ Len(macros') >= Len(macros)
    BY DEF HeapGrows, MacrosGrow
  <2> QED BY <2>2, <2>3, HeapType, MacrosType
<1>2. ASSUME NEW m \in DOMAIN macros, NEW i \in DOMAIN macros[m].body,
             source[macros[m].body[i]] = ".macro"
      PROVE  DefinitionStored'
  <2>1. m \in DOMAIN macros' /\ i \in DOMAIN macros'[m].body
        /\ macros'[m].body[i] = macros[m].body[i]
    BY <1>1, <1>2 DEF MacrosGrow
  <2> QED BY <1>2, <2>1 DEF DefinitionStored
<1>3. ASSUME NEW r \in DOMAIN heap, NEW k \in DOMAIN heap[r].parameters,
             NEW i \in DOMAIN heap[r].parameters[k],
             source[heap[r].parameters[k][i]] = ".macro"
      PROVE  DefinitionStored'
  <2>1. /\ r \in DOMAIN heap' /\ k \in DOMAIN heap'[r].parameters
        /\ i \in DOMAIN heap'[r].parameters[k]
        /\ heap'[r].parameters[k][i] = heap[r].parameters[k][i]
    BY <1>1, <1>3 DEF HeapGrows
  <2> QED BY <1>3, <2>1 DEF DefinitionStored
<1> QED BY <1>2, <1>3 DEF DefinitionStored

(* A definition that a replacement begins is stored.                       *)
LEMMA KeywordStored ==
  ASSUME TypeInv, RefInv, NEW p, Returns(p), current # 0, source[p] = ".macro"
  PROVE  DefinitionStored
<1>1. InBody(p) \/ InArgument(p)
  BY ReturnedType
<1> QED BY <1>1 DEF InBody, InArgument, DefinitionStored

LEMMA LinesNext ==
  ASSUME TypeInv, NEW n \in Places
  PROVE  /\ Cardinality(LinesBefore(n)) \in Nat
         /\ Cardinality(LinesBefore(n + 1)) =
              IF source[n] = "newline" THEN Cardinality(LinesBefore(n)) + 1
              ELSE Cardinality(LinesBefore(n))
<1>1. n \in Nat /\ Places = 1 .. Len(source) /\ Len(source) \in Nat
  BY SourceType
<1>2. IsFiniteSet(LinesBefore(n)) /\ n \notin LinesBefore(n)
  <2>1. IsFiniteSet(1 .. Len(source))
    BY <1>1, FS_Interval
  <2>2. LinesBefore(n) \subseteq 1 .. Len(source)
    BY <1>1 DEF LinesBefore
  <2> QED BY <1>1, <2>1, <2>2, FS_Subset DEF LinesBefore
<1>3. Cardinality(LinesBefore(n)) \in Nat
  BY <1>2, FS_CardinalityType
<1>4. CASE source[n] = "newline"
  <2>1. LinesBefore(n + 1) = LinesBefore(n) \cup {n}
    BY <1>1, <1>4 DEF LinesBefore
  <2>2. Cardinality(LinesBefore(n) \cup {n}) = Cardinality(LinesBefore(n)) + 1
    BY <1>2, FS_AddElement
  <2> QED BY <1>3, <1>4, <2>1, <2>2
<1>5. CASE source[n] # "newline"
  <2>1. LinesBefore(n + 1) = LinesBefore(n)
    BY <1>1, <1>5 DEF LinesBefore
  <2> QED BY <1>3, <1>5, <2>1
<1> QED BY <1>4, <1>5

LEMMA SameLines ==
  ASSUME source' = source, position' = position, line_number' = line_number, Counted,
         mode = "error" => mode' = "error"
  PROVE  Counted'
<1>1. LinesBefore(position)' = LinesBefore(position)
  BY DEF LinesBefore, Places
<1> QED BY <1>1 DEF Counted

(* The parser counts the newlines it is given from the file.               *)
LEMMA ReturnedLines ==
  ASSUME TypeInv, RefInv, NEW p, Returned(p), Counted
  PROVE  Counted'
<1>1. /\ Returns(p) /\ mode # "error"
      /\ \/ mode' = "error"
         \/ line_number' = IF source[p] = "newline" THEN LineAfter(current # 0) ELSE line_number
  BY DEF Returned, Words, Call, SyntaxError, Argument, Invoke, DefinitionKeyword,
         Begin, Parameter, HeadEnd, IsName, Punctuation
<1>2. CASE mode' = "error"
  BY <1>2 DEF Counted
<1>3. CASE current # 0 /\ mode' # "error"
  <2>1. position' = position /\ line_number' = line_number /\ source' = source
    BY <1>1, <1>3, ReturnedType DEF LineAfter
  <2> QED BY <1>1, <2>1, SameLines
<1>4. CASE current = 0 /\ mode' # "error"
  <2>1. /\ p = position /\ position \in Places /\ position' = position + 1 /\ source' = source
        /\ line_number' = IF source[position] = "newline" THEN line_number + 1 ELSE line_number
    BY <1>1, <1>4, ReturnedType DEF LineAfter
  <2>2. line_number = 1 + Cardinality(LinesBefore(position))
    BY <1>1, <2>1, SourceType DEF Counted
  <2>3. LinesBefore(position)' = LinesBefore(position + 1)
    BY <2>1 DEF LinesBefore, Places
  <2>4. line_number' = 1 + Cardinality(LinesBefore(position + 1))
    BY <2>1, <2>2, LinesNext
  <2> QED BY <2>3, <2>4 DEF Counted
<1> QED BY <1>2, <1>3, <1>4

(* parse_macro_definition counts those of the body, and the one behind it. *)
LEMMA BodyLines ==
  ASSUME TypeInv, RefInv, Body, EndsAlone, Counted, ~is_replacement
  PROVE  Counted'
<1>1. /\ source' = source /\ mode = "body" /\ mode' # "error" /\ position \in Nat \ {0}
      /\ LineAfter(is_replacement) = line_number + 1
  BY DEF Body, LineAfter, TypeInv
<1>2. CASE position > Len(source)
  <2>1. position' = position
    BY <1>2, SourceType, <1>1 DEF Body
  <2> QED BY <1>1, <1>2, <2>1, SourceType DEF Counted
<1>3. CASE position <= Len(source)
  <2>1. position \in Places /\ line_number = 1 + Cardinality(LinesBefore(position))
    BY <1>1, <1>3, SourceType DEF Counted
  <2>2. CASE source[position] # ".endmacro"
    <3>1. /\ position' = position + 1
          /\ line_number' = IF source[position] = "newline" THEN line_number + 1 ELSE line_number
      BY <1>1, <1>3, <2>2 DEF Body
    <3>2. LinesBefore(position)' = LinesBefore(position + 1)
      BY <1>1, <3>1 DEF LinesBefore, Places
    <3>3. line_number' = 1 + Cardinality(LinesBefore(position + 1))
      BY <2>1, <3>1, LinesNext
    <3> QED BY <3>2, <3>3 DEF Counted
  <2>3. CASE source[position] = ".endmacro"
    <3>1. position' = position + 2 /\ line_number' = line_number + 1
      BY <1>1, <1>3, <2>3 DEF Body
    <3> SUFFICES ASSUME position + 2 <= Len(source)
                 PROVE  line_number' = 1 + Cardinality(LinesBefore(position + 2))
      <4>1. LinesBefore(position)' = LinesBefore(position + 2)
        BY <1>1, <3>1 DEF LinesBefore, Places
      <4> QED BY <1>1, <3>1, <4>1 DEF Counted
    <3>2. position + 1 \in Places /\ (position + 1) + 1 = position + 2
      BY <1>1, <2>1, SourceType
    <3>3. source[position + 1] = "newline"
      BY <2>1, <2>3 DEF EndsAlone, Places
    <3>4. Cardinality(LinesBefore(position + 1)) = Cardinality(LinesBefore(position))
      BY <2>1, <2>3, LinesNext
    <3>5. Cardinality(LinesBefore(position + 2)) = Cardinality(LinesBefore(position + 1)) + 1
      BY <3>2, <3>3, LinesNext
    <3> QED BY <2>1, <3>1, <3>4, <3>5, LinesNext
  <2> QED BY <2>2, <2>3
<1> QED BY <1>1, <1>2, <1>3, SourceType

LEMMA LineStep ==
  ASSUME TypeInv, RefInv, LineInv, [Next]_vars
  PROVE  LineInv'
<1> SUFFICES ASSUME EndsAlone', ~DefinitionStored'
             PROVE  InFile' /\ Counted'
  BY DEF LineInv
<1>1. TypeInv' /\ MacrosGrow /\ HeapGrows /\ source' = source
  BY StepGrows
<1>2. EndsAlone /\ ~DefinitionStored /\ InFile /\ Counted
  BY <1>1, StoredStays DEF EndsAlone, LineInv
<1>3. CASE Pop \/ PushParameter
  <2>1. /\ current # 0 /\ mode' = mode /\ position' = position /\ line_number' = line_number
        /\ is_replacement' = is_replacement
    BY <1>3 DEF Pop, PushParameter, Exhausted, input
  <2> QED BY <1>1, <1>2, <2>1, SameLines DEF InFile
<1>4. CASE ReadFreed
  <2>1. /\ mode' = "undefined" /\ position' = position /\ line_number' = line_number
        /\ mode # "error"
    BY <1>4 DEF ReadFreed, Fetching, input
  <2> QED BY <1>1, <1>2, <2>1, SameLines DEF InFile
<1>5. CASE Body
  <2>1. InFile'
    BY <1>2, <1>5 DEF Body, InFile, stack
  <2>2. Counted'
    BY <1>2, <1>5, BodyLines DEF InFile, Body
  <2> QED BY <2>1, <2>2
<1>6. CASE Stopped \/ UNCHANGED vars
  <2>1. UNCHANGED vars
    BY <1>6 DEF Stopped
  <2> QED BY <1>2, <2>1, SameLines DEF InFile, vars, input, stack
<1>7. ASSUME NEW p \in 1 .. Len(source), Returned(p)
      PROVE  InFile' /\ Counted'
  <2>1. Returns(p)
    BY <1>7 DEF Returned, Words, Call, SyntaxError, Argument, Invoke, DefinitionKeyword,
                Begin, Parameter, HeadEnd
  <2>2. source[p] = ".macro" => current = 0
    BY <1>2, <2>1, KeywordStored
  <2>3. is_replacement' = (current # 0)
    BY <2>1, ReturnedType
  <2>4. InFile'
    <3>1. mode' \in {"name", "head"} => current' = 0
      BY <1>2, <1>7, <2>2 DEF InFile, Returned, Words, Call, SyntaxError, Argument, Invoke,
                DefinitionKeyword, Begin, Parameter, HeadEnd
    <3>2. mode' = "body" => mode = "head"
      BY <1>7 DEF Returned, Words, Call, SyntaxError, Argument, Invoke,
                DefinitionKeyword, Begin, Parameter, HeadEnd
    <3>3. mode = "head" => ~is_replacement'
      BY <1>2, <2>3 DEF InFile
    <3> QED BY <3>1, <3>2, <3>3 DEF InFile
  <2> QED BY <1>2, <1>7, <2>4, ReturnedLines
<1> QED BY <1>3, <1>4, <1>5, <1>6, <1>7 DEF Next

LEMMA LineInit ==
  ASSUME Init
  PROVE  LineInv
<1>1. mode = "line" /\ position = 1 /\ line_number = 1
  BY DEF Init
<1>2. LinesBefore(1) = {}
  <2>1. \A i \in Places : ~(i < 1)
    BY TypesInit, SourceType
  <2> QED BY <2>1, Zenon DEF LinesBefore
<1>3. Cardinality(LinesBefore(1)) = 0
  BY <1>2, FS_EmptySet
<1> QED BY <1>1, <1>3 DEF LineInv, InFile, Counted

(* The lines of an error message are those of the file, whatever macros    *)
(* replace (preprocess.c:72-99, parser.y:124-128, 360-367).                *)
THEOREM LinesOfFileForAll == Spec => []LinesOfFile
<1>1. Init => TypeInv /\ RefInv /\ LineInv
  BY TypesInit, LineInit
<1>2. TypeInv /\ RefInv /\ LineInv /\ [Next]_vars => (TypeInv /\ RefInv /\ LineInv)'
  BY StepGrows, RefStep, LineStep
<1>3. TypeInv /\ RefInv /\ LineInv => LinesOfFile
  BY DEF LineInv, Counted, LinesOfFile, LinesBefore, Places
<1> QED BY <1>1, <1>2, <1>3, PTL DEF Spec

-----------------------------------------------------------------------------
(***************************************************************************)
(* Plain sources.                                                          *)
(***************************************************************************)

LEMMA NamesGrow ==
  ASSUME TypeInv, TypeInv', MacrosGrow, source' = source
  PROVE  /\ DOMAIN macros \subseteq DOMAIN macros' /\ MacroNames \subseteq MacroNames'
         /\ \A m \in DOMAIN macros : macros'[m].name = macros[m].name
<1>1. DOMAIN macros \subseteq DOMAIN macros'
  <2>1. macros' \in Seq(MacroDefinitions')
    BY DEF TypeInv
  <2>2. DOMAIN macros' = 1 .. Len(macros') /\ Len(macros') \in Nat
    <3> HIDE DEF MacroDefinitions
    <3> QED BY <2>1
  <2>3. DOMAIN macros = 1 .. Len(macros) /\ Len(macros) \in Nat
    BY MacrosType
  <2>4. Len(macros') >= Len(macros)
    BY DEF MacrosGrow
  <2> QED BY <2>2, <2>3, <2>4
<1>2. \A m \in DOMAIN macros : macros'[m].name = macros[m].name
  BY DEF MacrosGrow
<1> QED BY <1>1, <1>2 DEF MacroNames

LEMMA NamesType ==
  ASSUME TypeInv, NEW m \in DOMAIN macros
  PROVE  Len(macros[m].names) \in Nat
<1>1. macros[m].names \in Seq(Places)
  BY MacrosType DEF MacroDefinitions
<1> QED BY <1>1

LEMMA NamesLater ==
  ASSUME TypeInv'
  PROVE  \A m \in DOMAIN macros' : Len(macros'[m].names) \in Nat
<1> TAKE m \in DOMAIN macros'
<1>1. macros' \in Seq(MacroDefinitions')
  BY DEF TypeInv
<1>2. macros'[m] \in MacroDefinitions'
  <2> HIDE DEF MacroDefinitions
  <2> QED BY <1>1
<1>3. macros'[m].names \in Seq(Places')
  BY <1>2 DEF MacroDefinitions
<1> QED BY <1>3

LEMMA SeparatorsType ==
  ASSUME NEW text, NEW i \in Nat, NEW j \in Nat
  PROVE  /\ IsFiniteSet(Separators(text, i, j)) /\ j \notin Separators(text, i, j)
         /\ Cardinality(Separators(text, i, j)) \in Nat
<1>1. IsFiniteSet(i + 1 .. j - 1)
  BY FS_Interval
<1>2. Separators(text, i, j) \subseteq i + 1 .. j - 1
  BY DEF Separators
<1>3. IsFiniteSet(Separators(text, i, j))
  BY <1>1, <1>2, FS_Subset
<1> QED BY <1>2, <1>3, FS_CardinalityType

LEMMA CountType ==
  ASSUME NEW text, NEW i \in Nat, NEW j \in Nat
  PROVE  ArgumentCount(text, i, j) \in Nat
BY SeparatorsType DEF ArgumentCount

LEMMA PlainStays ==
  ASSUME TypeInv, TypeInv', MacrosGrow, source' = source, Plain'
  PROVE  Plain
<1>1. /\ DOMAIN macros \subseteq DOMAIN macros' /\ MacroNames \subseteq MacroNames'
      /\ \A m \in DOMAIN macros : macros'[m].name = macros[m].name
  BY NamesGrow
<1>2. EndsAlone
  BY DEF Plain, EndsAlone
<1>3. ~CallsMacro
  <2> SUFFICES ASSUME NEW m \in DOMAIN macros, NEW i \in DOMAIN macros[m].body,
                      source[macros[m].body[i]] \in MacroNames
               PROVE  CallsMacro'
    BY DEF Plain, CallsMacro
  <2>1. /\ m \in DOMAIN macros' /\ i \in DOMAIN macros'[m].body
        /\ macros'[m].body[i] = macros[m].body[i]
    BY <1>1 DEF MacrosGrow
  <2>2. source'[macros'[m].body[i]] \in MacroNames'
    BY <1>1, <2>1
  <2> QED BY <2>1, <2>2 DEF CallsMacro
<1>4. ~GivesMacro
  <2> SUFFICES ASSUME NEW i \in DOMAIN source, NEW j \in DOMAIN source, OneLine(i, j),
                      {source[i], source[j]} \subseteq MacroNames
               PROVE  GivesMacro'
    BY DEF Plain, GivesMacro
  <2>1. i \in DOMAIN source' /\ j \in DOMAIN source'
    OBVIOUS
  <2>2. OneLine(i, j)'
    BY DEF OneLine, StartsLine
  <2>3. {source[i], source[j]}' \subseteq MacroNames'
    BY <1>1
  <2> QED BY <2>1, <2>2, <2>3 DEF GivesMacro
<1>5. ~GivesTooFew
  <2> SUFFICES ASSUME NEW i \in DOMAIN source, NEW j \in DOMAIN source, OneLine(i, j),
                      source[j] = "newline", NEW m \in DOMAIN macros,
                      source[macros[m].name] = source[i],
                      ArgumentCount(source, i, j) < Len(macros[m].names)
               PROVE  GivesTooFew'
    BY DEF Plain, GivesTooFew
  <2>1. OneLine(i, j)' /\ source'[j] = "newline" /\ i \in DOMAIN source' /\ j \in DOMAIN source'
    BY DEF OneLine, StartsLine
  <2>2. m \in DOMAIN macros' /\ source'[macros'[m].name] = source'[i]
    BY <1>1
  <2>3. ArgumentCount(source', i, j) < Len(macros'[m].names)
    <3>1. Len(macros'[m].names) >= Len(macros[m].names)
      BY DEF MacrosGrow
    <3>2. Len(macros[m].names) \in Nat
      BY NamesType
    <3>3. Len(macros'[m].names) \in Nat
      <4>1. m \in DOMAIN macros'
        BY <1>1
      <4> QED BY <4>1, NamesLater
    <3>4. ArgumentCount(source, i, j) \in Nat
      <4>1. i \in Nat /\ j \in Nat
        BY SourceType DEF Places
      <4> QED BY <4>1, CountType
    <3> DEFINE count == ArgumentCount(source, i, j)
               before == Len(macros[m].names)
               after == Len(macros'[m].names)
    <3>5. count < before /\ after >= before /\ count \in Nat /\ before \in Nat /\ after \in Nat
      BY <3>1, <3>2, <3>3, <3>4
    <3> HIDE DEF count, before, after
    <3>6. count < after
      BY <3>5
    <3> QED BY <3>6 DEF count, after
  <2> QED BY <2>1, <2>2, <2>3 DEF GivesTooFew
<1> QED BY <1>2, <1>3, <1>4, <1>5 DEF Plain

(* A plain source names macros in the file only.                           *)
LEMMA NameInFile ==
  ASSUME TypeInv, RefInv, Plain, ArgumentsInLines, Ready, current # 0
  PROVE  source[Token] \notin MacroNames
<1> SUFFICES ASSUME source[Token] \in MacroNames PROVE FALSE
  OBVIOUS
<1>1. Token \in Places /\ (InBody(Token) \/ InArgument(Token))
  BY TokenType
<1>2. CASE InBody(Token)
  BY <1>2 DEF InBody, Plain, CallsMacro
<1>3. CASE InArgument(Token)
  <2>1. PICK i \in Places : OneLine(i, Token) /\ source[i] \in MacroNames
    BY <1>3 DEF InArgument, ArgumentsInLines
  <2> QED BY <1>1, <2>1 DEF Plain, GivesMacro, Places
<1> QED BY <1>1, <1>2, <1>3

LEMMA CallInFile ==
  ASSUME TypeInv, RefInv, Plain, ArgumentsInLines, NEW p, Call(p)
  PROVE  /\ current = 0 /\ p = position /\ position \in Places /\ position' = position + 1
         /\ source[p] \in MacroNames /\ IsName(p) /\ mode = "line"
<1>1. Returns(p) /\ Found # {} /\ IsName(p) /\ mode = "line"
  BY DEF Call
<1>2. p = Token /\ Ready /\ p \in Places
  BY <1>1, ReturnedType DEF Returns
<1>3. source[p] \in MacroNames
  <2>1. PICK m \in DOMAIN macros : source[macros[m].name] = source[Token]
    BY <1>1 DEF Found
  <2> QED BY <1>2, <2>1 DEF MacroNames
<1>4. current = 0
  BY <1>2, <1>3, NameInFile
<1> QED BY <1>1, <1>2, <1>3, <1>4, ReturnedType

(* No name that is read was freed, and no replacement that is.             *)
LEMMA NameHeld ==
  ASSUME TypeInv, RefInv, Plain, ArgumentsInLines, PlaceInv, Ready,
         current = 0 => position <= Len(source)
  PROVE  Token \notin names_freed
<1> SUFFICES ASSUME Token \in names_freed PROVE FALSE
  OBVIOUS
<1>1. source[Token] \in MacroNames /\ Token < position
  BY DEF PlaceInv, Ready, Fetching
<1>2. CASE current = 0
  <2>1. Token = position /\ position \in Nat
    BY <1>2 DEF Token, TypeInv
  <2> QED BY <1>1, <2>1
<1>3. CASE current # 0
  BY <1>1, <1>3, NameInFile
<1> QED BY <1>2, <1>3

LEMMA CurrentHeld ==
  ASSUME TypeInv, RefInv, Plain, ChainInv, CallsAreLines
  PROVE  Valid
<1> SUFFICES ASSUME current # 0 PROVE Held(current)
  BY DEF Valid
<1>1. current \in OnStack /\ Context(current) \in OnStack
  BY DEF ChainInv
<1> DEFINE c == Context(current)
<1>2. /\ c \in DOMAIN heap /\ ~(mode = "arguments" /\ c = call)
      /\ {current, c} \cap freed = {} /\ current \in DOMAIN heap
  BY <1>1 DEF OnStack
<1>3. /\ heap[c].argument = 0 /\ heap[c].macro \in DOMAIN macros
      /\ heap[current].argument <= Len(macros[heap[c].macro].names)
  BY <1>2 DEF RefInv, RefersTo, Definition
<1>4. PICK i, j \in Places : LineOfCall(c, i, j) /\ source[j] = "newline"
  BY <1>2, <1>3 DEF CallsAreLines
<1> DEFINE given == Len(heap[c].parameters)
           names == Len(macros[heap[c].macro].names)
           argument == heap[current].argument
<1>5. ~(given < names)
  BY <1>3, <1>4 DEF Plain, GivesTooFew, LineOfCall, Places
<1>6. given \in Nat /\ names \in Nat /\ argument \in Nat /\ argument <= names
  <2>1. heap[c] \in Replacements /\ heap[current] \in Replacements
    BY <1>2, HeapType
  <2>2. given \in Nat /\ argument \in Nat
    BY <2>1 DEF Replacements
  <2> QED BY <1>3, <2>2, NamesType
<1> HIDE DEF given, names, argument
<1>7. argument <= given
  BY <1>5, <1>6
<1> QED BY <1>2, <1>7 DEF Held, argument, given

LEMMA NothingFreed ==
  ASSUME TypeInv, RefInv, Plain, ChainInv, PlaceInv, GivenInv
  PROVE  ~ReadFreed
<1> SUFFICES ASSUME ReadFreed PROVE FALSE
  OBVIOUS
<1>1. Valid
  BY CurrentHeld DEF GivenInv
<1>2. Ready
  BY <1>1 DEF ReadFreed, Ready
<1>3. (current = 0 => position <= Len(source)) /\ Token \in names_freed
  BY <1>2 DEF ReadFreed
<1> QED BY <1>2, <1>3, NameHeld DEF GivenInv

(* The stack.                                                              *)
LEMMA ChainSame ==
  ASSUME TypeInv, RefInv, HeapGrows, ChainInv, DOMAIN heap' = DOMAIN heap, freed' = freed,
         current' = current, call' = call, mode' = "arguments" <=> mode = "arguments"
  PROVE  ChainInv'
<1>1. OnStack' = OnStack /\ OnStack \subseteq DOMAIN heap
  BY DEF OnStack
<1>2. \A r \in DOMAIN heap :
        /\ heap'[r].context = heap[r].context /\ heap'[r].next = heap[r].next
        /\ heap'[r].argument = heap[r].argument
  BY DEF HeapGrows
<1>3. \A r \in OnStack :
        /\ heap'[r].context \in OnStack
        /\ heap'[r].next # 0 => heap'[r].next \in OnStack
        /\ \A q \in OnStack : q < r => q <= heap'[r].next
  BY <1>1, <1>2 DEF ChainInv, Context
<1>4. mode' = "arguments" =>
        current' = 0 /\ call' \notin freed' /\ heap'[call'].next = 0 /\ heap'[call'].argument = 0
  <2> SUFFICES ASSUME mode = "arguments"
               PROVE  current = 0 /\ call \notin freed /\ heap'[call].next = 0
                      /\ heap'[call].argument = 0
    OBVIOUS
  <2>1. call \in DOMAIN heap
    BY HeapType DEF RefInv, TypeInv
  <2> QED BY <1>2, <2>1 DEF ChainInv
<1> QED BY <1>1, <1>3, <1>4 DEF ChainInv, Context

LEMMA ChainPop ==
  ASSUME TypeInv, RefInv, ChainInv, Pop
  PROVE  ChainInv'
<1>1. /\ current # 0 /\ current' = heap[current].next /\ freed' = freed \cup {current}
      /\ heap' = heap /\ mode' = mode /\ call' = call
  BY DEF Pop, Exhausted
<1>2. mode # "arguments" /\ current \in OnStack
  BY <1>1 DEF ChainInv
<1>3. OnStack' = OnStack \ {current} /\ OnStack \subseteq DOMAIN heap
  BY <1>1, <1>2 DEF OnStack
<1>4. OnStack \subseteq Nat /\ \A r \in OnStack : heap[r].next \in Nat
  <2>1. \A r \in OnStack : heap[r] \in Replacements
    BY <1>3, HeapType
  <2>2. DOMAIN heap \subseteq Nat
    BY HeapType
  <2> QED BY <1>3, <2>1, <2>2 DEF Replacements
<1>5. \A r \in OnStack : r # current => r < current
  BY <1>2, <1>4 DEF ChainInv
<1>6. \A r \in OnStack : Context(r) \in OnStack /\ Context(r) <= r /\ heap[r].next < r
  <2> TAKE r \in OnStack
  <2>1. RefersTo(r)
    BY <1>3 DEF RefInv
  <2> QED BY <2>1 DEF ChainInv, RefersTo
<1>7. \A r \in OnStack \ {current} :
        /\ heap[r].context \in OnStack \ {current}
        /\ heap[r].next # 0 => heap[r].next \in OnStack \ {current}
        /\ \A q \in OnStack \ {current} : q < r => q <= heap[r].next
  <2> TAKE r \in OnStack \ {current}
  <2>1. r < current /\ r \in Nat /\ current \in Nat
    BY <1>2, <1>4, <1>5
  <2>2. Context(r) # current /\ heap[r].next # current
    <3>1. Context(r) \in Nat /\ Context(r) <= r /\ heap[r].next < r /\ heap[r].next \in Nat
      BY <1>4, <1>6
    <3> QED BY <2>1, <3>1
  <2> QED BY <1>6, <2>2 DEF ChainInv, Context
<1>8. current' # 0 => current' \in OnStack'
  <2>1. heap[current].next # current
    BY <1>2, <1>4, <1>6
  <2> QED BY <1>1, <1>2, <1>3, <2>1 DEF ChainInv
<1>9. \A q \in OnStack' : q <= current'
  BY <1>1, <1>2, <1>3, <1>5 DEF ChainInv
<1> QED BY <1>1, <1>2, <1>3, <1>7, <1>8, <1>9 DEF ChainInv, Context

LEMMA ChainPush ==
  ASSUME TypeInv, RefInv, ChainInv, PushParameter
  PROVE  ChainInv'
<1> DEFINE l == Len(heap) + 1
<1>1. /\ current # 0 /\ freed' = freed /\ mode' = mode /\ call' = call
  BY DEF PushParameter
<1>2. /\ HeapGrows /\ DOMAIN heap' = DOMAIN heap \cup {l} /\ current' = l
      /\ heap'[l].context = Context(current) /\ heap'[l].next = current
  <2>1. PICK i \in Indices(Token) :
          heap'[l] = Replacement(heap[current].macro, Context(current), i)
    BY PushGrows
  <2>2. heap'[l].context = Context(current) /\ heap'[l].next = current
    BY <2>1 DEF Replacement
  <2> QED BY <2>2, PushGrows
<1>3. mode # "arguments" /\ current \in OnStack
  BY <1>1 DEF ChainInv
<1>4. l \notin DOMAIN heap /\ freed \subseteq DOMAIN heap /\ l \in Nat
      /\ \A r \in DOMAIN heap : r \in Nat /\ r < l
  BY HeapType DEF TypeInv
<1> HIDE DEF l
<1>5. OnStack' = OnStack \cup {l} /\ OnStack \subseteq DOMAIN heap
  BY <1>1, <1>2, <1>3, <1>4 DEF OnStack
<1>6. \A r \in OnStack : heap'[r].context = Context(r) /\ heap'[r].next = heap[r].next
  BY <1>2, <1>5 DEF HeapGrows, Context
<1>7. \A r \in OnStack :
        /\ Context(r) \in OnStack
        /\ heap[r].next # 0 => heap[r].next \in OnStack
        /\ \A q \in OnStack : q < r => q <= heap[r].next
  BY DEF ChainInv
<1>8. \A r \in OnStack' :
        /\ heap'[r].context \in OnStack'
        /\ heap'[r].next # 0 => heap'[r].next \in OnStack'
        /\ \A q \in OnStack' : q < r => q <= heap'[r].next
  <2> TAKE r \in OnStack'
  <2>1. CASE r \in OnStack
    <3>1. ~(l < r)
      BY <1>4, <1>5, <2>1
    <3> QED BY <1>5, <1>6, <1>7, <2>1, <3>1
  <2>2. CASE r = l
    <3>1. \A q \in OnStack' : q < l => q <= current
      <4>1. ~(l < l)
        BY <1>4
      <4> QED BY <1>5, <4>1 DEF ChainInv
    <3> QED BY <1>2, <1>3, <1>5, <1>7, <2>2, <3>1
  <2> QED BY <1>5, <2>1, <2>2
<1>9. \A q \in OnStack' : q <= current'
  BY <1>2, <1>4, <1>5
<1> QED BY <1>1, <1>2, <1>3, <1>5, <1>8, <1>9 DEF ChainInv, Context

LEMMA ChainCall ==
  ASSUME TypeInv, RefInv, ChainInv, NEW p, Call(p), current = 0
  PROVE  ChainInv'
<1> DEFINE l == Len(heap) + 1
<1>1. /\ mode = "line" /\ mode' = "arguments" /\ freed' = freed /\ current' = 0 /\ call' = l
      /\ DOMAIN heap' = DOMAIN heap \cup {l}
      /\ heap'[l].next = 0 /\ heap'[l].argument = 0
  <2>1. PICK m \in Found : heap'[l] = Replacement(m, l, 0)
    BY CallGrows
  <2>2. heap'[l].next = 0 /\ heap'[l].argument = 0
    BY <2>1 DEF Replacement
  <2> QED BY <2>2, CallGrows DEF Call
<1>2. l \notin DOMAIN heap /\ l \notin freed /\ \A r \in DOMAIN heap : ~(r <= 0)
  BY HeapType DEF TypeInv
<1> HIDE DEF l
<1>3. OnStack = {}
  BY <1>2 DEF ChainInv, OnStack
<1>4. OnStack' = OnStack
  BY <1>1, <1>2 DEF OnStack
<1> QED BY <1>1, <1>2, <1>3, <1>4 DEF ChainInv

LEMMA ChainInvoke ==
  ASSUME TypeInv, RefInv, ChainInv, NEW p, Invoke(p)
  PROVE  ChainInv'
<1>1. /\ mode = "arguments" /\ mode' = "line" /\ freed' = freed /\ current' = call
      /\ current = 0 /\ call \notin freed /\ heap[call].next = 0 /\ heap[call].argument = 0
  BY DEF Invoke, ChainInv
<1>2. HeapGrows /\ DOMAIN heap' = DOMAIN heap
  <2>1. heap' \in Seq(Replacements) /\ Len(heap') = Len(heap)
    BY AdvancedType DEF Invoke, Alike
  <2>2. DOMAIN heap' = DOMAIN heap
    <3> HIDE DEF Replacements
    <3> QED BY <2>1, HeapType
  <2> QED BY <2>2, InvokeGrows
<1>3. call \in DOMAIN heap /\ call # 0 /\ \A r \in DOMAIN heap : ~(r <= 0)
  BY <1>1, HeapType DEF RefInv, TypeInv
<1>4. OnStack = {}
  BY <1>1, <1>3 DEF ChainInv, OnStack
<1>5. OnStack' = {call}
  BY <1>1, <1>2, <1>3, <1>4 DEF OnStack
<1>6. heap'[call].context = call /\ heap'[call].next = 0
  <2>1. RefersTo(call)
    BY <1>3 DEF RefInv
  <2> QED BY <1>1, <1>2, <1>3, <2>1 DEF RefersTo, HeapGrows, Context
<1>7. call <= call /\ ~(call < call)
  BY <1>3, HeapType
<1> QED BY <1>1, <1>3, <1>5, <1>6, <1>7 DEF ChainInv, Context

LEMMA ChainStep ==
  ASSUME TypeInv, RefInv, Plain, ChainInv, ArgumentsInLines, ~ReadFreed, [Next]_vars
  PROVE  ChainInv'
<1>1. HeapGrows
  BY StepGrows
<1>2. CASE Stopped \/ Body \/ UNCHANGED vars
  <2>1. /\ DOMAIN heap' = DOMAIN heap /\ freed' = freed /\ current' = current /\ call' = call
        /\ mode' = "arguments" <=> mode = "arguments"
    BY <1>2 DEF Stopped, Body, vars, stack
  <2> QED BY <1>1, <2>1, ChainSame
<1>3. ASSUME NEW p \in 1 .. Len(source), Returned(p)
      PROVE  ChainInv'
  <2>1. CASE Call(p)
    BY <2>1, CallInFile, ChainCall
  <2>2. CASE Invoke(p)
    BY <2>2, ChainInvoke
  <2>3. CASE ~Call(p) /\ ~Invoke(p)
    <3>1. DOMAIN heap' = DOMAIN heap
      <4>1. heap' \in Seq(Replacements) /\ Len(heap') = Len(heap)
        <5>1. CASE Argument(p)
          BY <5>1, ArgumentHeap
        <5>2. CASE heap' = Advanced
          BY <5>2, AdvancedType DEF Alike
        <5> QED BY <1>3, <2>3, <5>1, <5>2 DEF Returned, Words, SyntaxError,
                    DefinitionKeyword, Begin, Parameter, HeadEnd
      <4> HIDE DEF Replacements
      <4> QED BY <4>1, HeapType
    <3>2. /\ freed' = freed /\ current' = current /\ call' = call
          /\ mode' = "arguments" <=> mode = "arguments"
      BY <1>3, <2>3 DEF Returned, Words, SyntaxError, Argument, DefinitionKeyword, Begin,
                       Parameter, HeadEnd
    <3> QED BY <1>1, <3>1, <3>2, ChainSame
  <2> QED BY <2>1, <2>2, <2>3
<1> QED BY <1>2, <1>3, ChainPop, ChainPush DEF Next

(* Where lines begin, and names that were freed lie.                       *)
LEMMA FreedBefore ==
  ASSUME TypeInv, RefInv, Plain, ChainInv, PlaceInv, ArgumentsInLines, ~ReadFreed,
         [Next]_vars, NEW q \in names_freed'
  PROVE  source'[q] \in MacroNames' /\ (mode' # "error" => q < position')
<1>1. TypeInv' /\ MacrosGrow /\ source' = source /\ MacroNames \subseteq MacroNames'
  BY StepGrows, NamesGrow
<1>2. ASSUME q \in names_freed, position' \in {position, position + 1, position + 2},
             mode' # "error" => mode # "error"
      PROVE  source'[q] \in MacroNames' /\ (mode' # "error" => q < position')
  <2>1. source[q] \in MacroNames /\ (mode # "error" => q < position)
    BY <1>2 DEF PlaceInv
  <2>2. q \in Nat /\ position \in Nat
    BY <1>2, SourceType DEF TypeInv
  <2>3. q < position => q < position'
    BY <1>2, <2>2
  <2> QED BY <1>1, <1>2, <2>1, <2>3
<1>3. CASE Pop \/ PushParameter \/ Stopped \/ Body \/ UNCHANGED vars
  <2>1. /\ names_freed' = names_freed /\ position' \in {position, position + 1, position + 2}
        /\ mode' # "error" => mode # "error"
    BY <1>3 DEF Pop, PushParameter, Stopped, Body, vars, input, stack
  <2> QED BY <1>2, <2>1
<1>4. ASSUME NEW p \in 1 .. Len(source), Returned(p)
      PROVE  source'[q] \in MacroNames' /\ (mode' # "error" => q < position')
  <2>1. Returns(p) /\ mode # "error"
    BY <1>4 DEF Returned, Words, Call, SyntaxError, Argument, Invoke, DefinitionKeyword,
                Begin, Parameter, HeadEnd
  <2>2. position' \in {position, position + 1, position + 2}
    BY <2>1, ReturnedType
  <2>3. CASE q \in names_freed
    BY <1>2, <2>1, <2>2, <2>3
  <2>4. CASE q \notin names_freed
    <3>1. q = p /\ (Call(p) \/ (SyntaxError(p) /\ IsName(p)))
      BY <1>4, <2>4 DEF Returned, Words, Call, SyntaxError, Argument, Invoke,
                DefinitionKeyword, Begin, Parameter, HeadEnd
    <3>2. CASE Call(p)
      <4>1. source[p] \in MacroNames /\ p = position /\ position' = position + 1
        BY <3>2, CallInFile
      <4>2. p < position'
        BY <4>1 DEF TypeInv
      <4> QED BY <1>1, <3>1, <4>1, <4>2
    <3>3. CASE SyntaxError(p) /\ IsName(p)
      <4>1. Found # {} /\ mode' = "error"
        BY <3>3 DEF SyntaxError, IsName, Punctuation
      <4>2. p = Token
        BY <2>1, ReturnedType
      <4>3. source[p] \in MacroNames
        <5>1. PICK m \in DOMAIN macros : source[macros[m].name] = source[Token]
          BY <4>1 DEF Found
        <5> QED BY <4>2, <5>1 DEF MacroNames
      <4> QED BY <1>1, <3>1, <4>1, <4>3
    <3> QED BY <3>1, <3>2, <3>3
  <2> QED BY <2>3, <2>4
<1> QED BY <1>3, <1>4 DEF Next

LEMMA NewLine ==
  ASSUME TypeInv, NEW n \in Places, source[n] = "newline"
  PROVE  StartsLine(n + 1)
BY SourceType DEF StartsLine

LEMMA LinesStart ==
  ASSUME TypeInv, RefInv, Plain, ChainInv, PlaceInv, ArgumentsInLines, ~ReadFreed,
         [Next]_vars, mode' = "line" \/ (mode' # "body" /\ current' # 0),
         position' <= Len(source')
  PROVE  StartsLine(position)'
<1>1. source' = source
  BY StepGrows
<1>2. ASSUME position' = position, mode # "body" /\ (mode = "line" \/ current # 0)
      PROVE  StartsLine(position)'
  <2>1. StartsLine(position)
    BY <1>1, <1>2 DEF PlaceInv
  <2> QED BY <1>1, <1>2, <2>1 DEF StartsLine
<1>3. CASE Pop \/ PushParameter
  <2>1. position' = position /\ mode # "body" /\ current # 0
    BY <1>3 DEF Pop, PushParameter, Ready, Fetching, Exhausted, input
  <2> QED BY <1>2, <2>1
<1>4. CASE Stopped \/ UNCHANGED vars
  <2>1. position' = position /\ mode' = mode /\ current' = current
    BY <1>4 DEF Stopped, vars, input, stack
  <2>2. CASE mode # "body"
    BY <1>2, <2>1, <2>2
  <2> QED BY <2>1, <2>2
<1>5. CASE Body
  <2>1. /\ position <= Len(source) => source[position] = ".endmacro" /\ position' = position + 2
        /\ position > Len(source) => position' = position
    BY <1>5, SourceType DEF Body, TypeInv
  <2>2. position \in Places /\ position' = position + 2 /\ position + 1 \in Places
    <3>1. position \in Nat \ {0} /\ Len(source) \in Nat /\ Places = 1 .. Len(source)
      BY SourceType DEF TypeInv
    <3> QED BY <1>1, <2>1, <3>1
  <2>3. source[position + 1] = "newline"
    BY <2>1, <2>2, SourceType DEF Plain, EndsAlone, Places
  <2>4. StartsLine((position + 1) + 1)
    BY <2>2, <2>3, NewLine
  <2>5. (position + 1) + 1 = position + 2
    BY DEF TypeInv
  <2> QED BY <1>1, <2>2, <2>4, <2>5 DEF StartsLine
<1>6. ASSUME NEW p \in 1 .. Len(source), Returned(p)
      PROVE  StartsLine(position)'
  <2>1. Returns(p) /\ mode # "body"
    BY <1>6 DEF Returned, Words, Call, SyntaxError, Argument, Invoke, DefinitionKeyword,
                Begin, Parameter, HeadEnd
  <2>2. CASE current # 0
    BY <1>2, <2>1, <2>2, ReturnedType
  <2>3. CASE current = 0
    <3>1. p = position /\ position' = position + 1 /\ p \in Places
      BY <2>1, <2>3, ReturnedType
    <3>2. source[p] = "newline"
      <4>1. ~Call(p) \/ mode' = "arguments"
        BY DEF Call
      <4> QED BY <1>6, <2>3, <4>1 DEF Returned, Words, Call, SyntaxError, Argument, Invoke,
                  DefinitionKeyword, Begin, Parameter, HeadEnd, ChainInv
    <3>3. StartsLine(position + 1)
      BY <3>1, <3>2, NewLine
    <3> QED BY <1>1, <3>1, <3>3 DEF StartsLine
  <2> QED BY <2>2, <2>3
<1> QED BY <1>3, <1>4, <1>5, <1>6 DEF Next

LEMMA PlaceStep ==
  ASSUME TypeInv, RefInv, Plain, ChainInv, PlaceInv, ArgumentsInLines, ~ReadFreed, [Next]_vars
  PROVE  PlaceInv'
BY FreedBefore, LinesStart DEF PlaceInv

(* Induction, for a set of numbers in place of a predicate.                *)
LEMMA SetInduction ==
  ASSUME NEW S, 0 \in S, \A n \in Nat : n \in S => n + 1 \in S
  PROVE  Nat \subseteq S
<1> SUFFICES ASSUME Nat \ S # {} PROVE FALSE
  OBVIOUS
<1>1. PICK x \in Nat \ S : \A y \in Nat \ S : <<y, x>> \notin OpToRel(<, Nat)
  <2> DEFINE R == OpToRel(<, Nat)
             T == Nat \ S
  <2>1. IsWellFoundedOn(R, Nat) /\ T \subseteq Nat /\ T # {}
    BY NatLessThanWellFounded
  <2> HIDE DEF R, T
  <2>2. \E x \in T : \A y \in T : <<y, x>> \notin R
    BY <2>1, WFMin
  <2> QED BY <2>2 DEF R, T
<1>2. x \in Nat /\ x # 0
  OBVIOUS
<1>3. x - 1 \in Nat /\ x - 1 < x /\ x = (x - 1) + 1
  BY <1>2
<1>4. <<x - 1, x>> \in OpToRel(<, Nat)
  BY <1>2, <1>3 DEF OpToRel
<1>5. x - 1 \in S
  BY <1>1, <1>3, <1>4
<1> QED BY <1>3, <1>5

(* The parentheses that are open after one more token.                     *)
Deeper(t, depth) ==
  CASE t = "open" -> depth + 1
    [] t = "close" /\ depth > 0 -> depth - 1
    [] OTHER -> depth

LEMMA DepthIs ==
  ASSUME NEW text, Len(text) \in Nat, NEW i \in Nat, i <= Len(text)
  PROVE  /\ ParenDepth(text, i)[0] = 0
         /\ \A d \in 1 .. Len(text) - i :
              ParenDepth(text, i)[d] = Deeper(text[i + d], ParenDepth(text, i)[d - 1])
<1> DEFINE n == Len(text) - i
           next(d, x) == Deeper(text[i + d], x)
           IsDepth(f, m) == f = [d \in 0 .. m |-> IF d = 0 THEN 0 ELSE next(d, f[d - 1])]
           S == {m \in Nat : \E f \in [0 .. m -> Nat] : IsDepth(f, m)}
<1>1. n \in Nat /\ \A d : \A x \in Nat : next(d, x) \in Nat
  BY DEF Deeper
<1> HIDE DEF n, next
<1>2. 0 \in S
  <2> DEFINE f == [d \in 0 .. 0 |-> 0]
  <2>1. f = [d \in 0 .. 0 |-> IF d = 0 THEN 0 ELSE next(d, f[d - 1])]
    OBVIOUS
  <2>2. f \in [0 .. 0 -> Nat] /\ IsDepth(f, 0)
    BY <2>1
  <2> QED BY <2>2
<1>3. \A m \in Nat : m \in S => m + 1 \in S
  <2> HIDE DEF S, IsDepth
  <2> SUFFICES ASSUME NEW m \in Nat, m \in S PROVE m + 1 \in S
    OBVIOUS
  <2>0. PICK f \in [0 .. m -> Nat] : IsDepth(f, m)
    BY DEF S
  <2> USE DEF IsDepth
  <2> DEFINE g == [d \in 0 .. m + 1 |-> IF d = m + 1 THEN next(m + 1, f[m]) ELSE f[d]]
  <2>1. \A d \in 0 .. m : f[d] = IF d = 0 THEN 0 ELSE next(d, f[d - 1])
    BY <2>0
  <2>2. /\ \A d \in 0 .. m : g[d] = f[d]
        /\ g[m + 1] = next(m + 1, f[m]) /\ g = [d \in 0 .. m + 1 |-> g[d]]
    OBVIOUS
  <2>3. g \in [0 .. m + 1 -> Nat]
    <3>1. f[m] \in Nat
      OBVIOUS
    <3>2. next(m + 1, f[m]) \in Nat
      BY <1>1, <3>1
    <3> QED BY <3>2
  <2> HIDE DEF g
  <2>4. \A d \in 0 .. m + 1 : g[d] = IF d = 0 THEN 0 ELSE next(d, g[d - 1])
    <3> TAKE d \in 0 .. m + 1
    <3>1. CASE d = m + 1
      <4>1. d - 1 = m /\ m \in 0 .. m /\ d # 0
        BY <3>1
      <4> QED BY <2>2, <3>1, <4>1
    <3>2. CASE d = 0
      <4>1. 0 \in 0 .. m
        OBVIOUS
      <4> QED BY <2>1, <2>2, <3>2, <4>1
    <3>3. CASE d \in 1 .. m
      <4>1. d \in 0 .. m /\ d - 1 \in 0 .. m /\ d # 0
        BY <3>3
      <4> QED BY <2>1, <2>2, <4>1
    <3> QED BY <3>1, <3>2, <3>3
  <2>5. IsDepth(g, m + 1)
    BY <2>2, <2>4
  <2>6. m + 1 \in Nat
    OBVIOUS
  <2> HIDE DEF IsDepth
  <2> QED BY <2>3, <2>5, <2>6 DEF S
<1>4. \E f : IsDepth(f, n)
  <2>1. n \in S
    <3> HIDE DEF S
    <3> QED BY <1>1, <1>2, <1>3, SetInduction
  <2> QED BY <2>1
<1> DEFINE depth == CHOOSE f : IsDepth(f, n)
<1>5. ParenDepth(text, i) = depth
  BY DEF ParenDepth, Deeper, n, next
<1>6. IsDepth(depth, n)
  <2> HIDE DEF IsDepth
  <2> QED BY <1>4
<1> HIDE DEF depth
<1>7. \A d \in 0 .. n : depth[d] = IF d = 0 THEN 0 ELSE next(d, depth[d - 1])
  BY <1>6
<1>8. depth[0] = 0 /\ \A d \in 1 .. n : depth[d] = next(d, depth[d - 1])
  <2>1. 0 \in 0 .. n /\ \A d \in 1 .. n : d \in 0 .. n /\ d # 0
    BY <1>1
  <2> QED BY <1>7, <2>1
<1> QED BY <1>5, <1>8 DEF n, next

LEMMA CountNext ==
  ASSUME NEW text, NEW i \in Nat, NEW j \in Nat, i < j
  PROVE  ArgumentCount(text, i, j + 1) =
           (IF ArgumentCount(text, i, j) = 0 THEN 1 ELSE ArgumentCount(text, i, j))
           + (IF text[j] = "comma" /\ ParenDepth(text, i)[j - i - 1] = 0 THEN 1 ELSE 0)
<1> DEFINE separates(n) == text[n] = "comma" /\ ParenDepth(text, i)[n - i - 1] = 0
           before == Separators(text, i, j)
           after == Separators(text, i, j + 1)
<1>1. IsFiniteSet(before) /\ j \notin before /\ Cardinality(before) \in Nat
  BY SeparatorsType
<1>2. before = {n \in i + 1 .. j - 1 : separates(n)} /\ after = {n \in i + 1 .. j : separates(n)}
  <2>1. (j + 1) - 1 = j
    OBVIOUS
  <2> QED BY <2>1 DEF Separators
<1>3. i + 1 .. j = (i + 1 .. j - 1) \cup {j}
  OBVIOUS
<1> HIDE DEF separates, before, after
<1>4. Cardinality(after) = Cardinality(before) + (IF separates(j) THEN 1 ELSE 0)
  <2>1. CASE separates(j)
    <3>1. after = before \cup {j}
      BY <1>2, <1>3, <2>1
    <3>2. Cardinality(after) = Cardinality(before) + 1
      BY <1>1, <3>1, FS_AddElement
    <3> QED BY <2>1, <3>2
  <2>2. CASE ~separates(j)
    <3>1. after = before
      BY <1>2, <1>3, <2>2
    <3> QED BY <1>1, <2>2, <3>1
  <2> QED BY <2>1, <2>2
<1>5. j = i + 1 => Cardinality(before) = 0
  <2>1. j = i + 1 => before = {}
    BY <1>2
  <2> QED BY <2>1, FS_EmptySet
<1>6. /\ ArgumentCount(text, i, j + 1) = 1 + Cardinality(after)
      /\ ArgumentCount(text, i, j) = IF j = i + 1 THEN 0 ELSE 1 + Cardinality(before)
  <2>1. j + 1 # i + 1
    OBVIOUS
  <2> QED BY <2>1 DEF ArgumentCount, before, after
<1> DEFINE more == IF separates(j) THEN 1 ELSE 0
           count == ArgumentCount(text, i, j)
<1>7. ArgumentCount(text, i, j + 1) = (IF count = 0 THEN 1 ELSE count) + more
  <2>1. more \in Nat
    OBVIOUS
  <2>2. ArgumentCount(text, i, j + 1) = 1 + (Cardinality(before) + more)
    BY <1>4, <1>6
  <2> HIDE DEF more, count
  <2>3. CASE j = i + 1
    <3>1. count = 0 /\ Cardinality(before) = 0
      BY <1>5, <1>6, <2>3 DEF count
    <3> QED BY <2>1, <2>2, <3>1
  <2>4. CASE j # i + 1
    <3>1. count = 1 + Cardinality(before) /\ count # 0
      BY <1>1, <1>6, <2>4 DEF count
    <3> QED BY <1>1, <2>1, <2>2, <3>1
  <2> QED BY <2>3, <2>4
<1> QED BY <1>7 DEF separates

(* Arguments are those of the line of the call.                            *)
LEMMA ParametersKept ==
  ASSUME TypeInv, RefInv, ChainInv, [Next]_vars, NEW r \in DOMAIN heap'
  PROVE  \/ r \in DOMAIN heap /\ heap'[r].parameters = heap[r].parameters
         \/ r \notin DOMAIN heap /\ heap'[r].parameters = <<>>
         \/ r = call /\ \E p \in 1 .. Len(source) : Argument(p)
<1>1. HeapGrows
  BY StepGrows
<1>2. CASE r \in DOMAIN heap /\ ~(mode = "arguments" /\ r = call)
  BY <1>1, <1>2 DEF HeapGrows
<1>3. CASE r \in DOMAIN heap /\ mode = "arguments" /\ r = call
  <2>1. current = 0 /\ Advanced = heap
    BY <1>3 DEF ChainInv, Advanced
  <2>2. heap' = heap \/ \E p \in 1 .. Len(source) : Argument(p)
    BY <1>3, <2>1 DEF Next, Pop, Exhausted, PushParameter, ReadFreed, Body, Stopped, Returned,
       Words, Call, SyntaxError, Invoke, DefinitionKeyword, Begin, Parameter, HeadEnd,
       vars, stack
  <2> QED BY <1>3, <2>2
<1>4. CASE r \notin DOMAIN heap
  <2>1. CASE PushParameter
    <3>1. r = Len(heap) + 1
      BY <1>4, <2>1, PushGrows
    <3>2. \E i : heap'[r] = Replacement(heap[current].macro, Context(current), i)
      BY <2>1, <3>1, PushGrows
    <3> QED BY <1>4, <3>2 DEF Replacement
  <2>2. ASSUME NEW p \in 1 .. Len(source), Call(p)
        PROVE  heap'[r].parameters = <<>>
    <3>1. r = Len(heap) + 1
      BY <1>4, <2>2, CallGrows
    <3>2. \E m : heap'[r] = Replacement(m, Len(heap) + 1, 0)
      BY <2>2, <3>1, CallGrows
    <3> QED BY <3>2 DEF Replacement
  <2> QED BY <1>4, <2>1, <2>2, NewReplacement
<1> QED BY <1>2, <1>3, <1>4

(* The token of an argument.                                               *)
LEMMA ArgumentInFile ==
  ASSUME TypeInv, RefInv, ChainInv, CallIsRead, NEW p, Argument(p) \/ Invoke(p)
  PROVE  /\ mode = "arguments" /\ current = 0 /\ call \in DOMAIN heap
         /\ p = position /\ position \in Places /\ position' = position + 1
         /\ heap[call].parameters \in Seq(Seq(Places))
         /\ heap[call].argument = 0 /\ heap[call].macro \in DOMAIN macros
<1>1. Returns(p) /\ mode = "arguments"
  BY DEF Argument, Invoke
<1>2. current = 0 /\ call \in DOMAIN heap /\ heap[call].argument = 0
  BY <1>1, HeapType DEF ChainInv, RefInv, TypeInv
<1>3. heap[call] \in Replacements /\ RefersTo(call)
  BY <1>2, HeapType DEF RefInv
<1>4. heap[call].parameters \in Seq(Seq(Places)) /\ heap[call].macro \in DOMAIN macros
  BY <1>3 DEF Replacements, RefersTo
<1> QED BY <1>1, <1>2, <1>4, ReturnedType

LEMMA ArgumentsStep ==
  ASSUME TypeInv, RefInv, ChainInv, ArgumentsInLines, CallIsRead, [Next]_vars
  PROVE  ArgumentsInLines'
<1>1. TypeInv' /\ MacrosGrow /\ source' = source /\ Places' = Places
      /\ MacroNames \subseteq MacroNames'
  BY StepGrows, NamesGrow, SameSource
<1>2. \A i, j : OneLine(i, j)' <=> OneLine(i, j)
  BY <1>1 DEF OneLine, StartsLine
<1>3. ASSUME NEW q, \E i \in Places : OneLine(i, q) /\ source[i] \in MacroNames
      PROVE  \E i \in Places' : OneLine(i, q)' /\ source'[i] \in MacroNames'
  BY <1>1, <1>2, <1>3
<1> SUFFICES ASSUME NEW r \in DOMAIN heap', NEW k \in DOMAIN heap'[r].parameters,
                    NEW n \in DOMAIN heap'[r].parameters[k],
                    NEW q, q = heap'[r].parameters[k][n]
             PROVE  \E i \in Places : OneLine(i, q) /\ source[i] \in MacroNames
  <2> SUFFICES ASSUME NEW r \in DOMAIN heap', NEW k \in DOMAIN heap'[r].parameters,
                      NEW n \in DOMAIN heap'[r].parameters[k],
                      NEW q, q = heap'[r].parameters[k][n]
               PROVE  \E i \in Places' : OneLine(i, q)' /\ source'[i] \in MacroNames'
    BY DEF ArgumentsInLines
  <2> QED BY <1>3
<1>4. CASE r \in DOMAIN heap /\ heap'[r].parameters = heap[r].parameters
  BY <1>4 DEF ArgumentsInLines
<1>5. CASE heap'[r].parameters = <<>>
  BY <1>5
<1>6. ASSUME NEW p \in 1 .. Len(source), Argument(p), r = call
      PROVE  \E i \in Places : OneLine(i, q) /\ source[i] \in MacroNames
  <2> DEFINE before == heap[call].parameters
             t == source[p]
             after == Given(before, paren_depth, t, p)
  <2>1. /\ p = position /\ p \in Places /\ call \in DOMAIN heap /\ mode = "arguments"
        /\ before \in Seq(Seq(Places)) /\ heap[call].macro \in DOMAIN macros
    BY <1>6, ArgumentInFile
  <2>2. heap'[call].parameters = after
    BY <1>6, ArgumentHeap
  <2>3. ArgumentsGrow(before, after, p)
    <3> HIDE DEF before, t
    <3> QED BY <2>1, GivenType
  <2>4. q = p \/ (k \in DOMAIN before /\ n \in DOMAIN before[k] /\ q = before[k][n])
    <3> HIDE DEF before, after
    <3> QED BY <1>6, <2>2, <2>3 DEF ArgumentsGrow
  <2>5. CASE q = p
    <3>1. PICK i \in Places : LineOfCall(call, i, position)
      BY <2>1 DEF CallIsRead
    <3>2. source[i] \in MacroNames
      BY <2>1, <3>1 DEF LineOfCall, MacroNames
    <3> QED BY <2>1, <2>5, <3>1, <3>2 DEF LineOfCall
  <2>6. CASE k \in DOMAIN before /\ n \in DOMAIN before[k] /\ q = before[k][n]
    BY <2>1, <2>6 DEF ArgumentsInLines
  <2> QED BY <2>4, <2>5, <2>6
<1> QED BY <1>4, <1>5, <1>6, ParametersKept

LEMMA LineKept ==
  ASSUME TypeInv, RefInv, [Next]_vars, NEW r \in DOMAIN heap,
         heap'[r].parameters = heap[r].parameters, NEW i, NEW j, LineOfCall(r, i, j)
  PROVE  LineOfCall(r, i, j)'
<1>1. /\ TypeInv' /\ MacrosGrow /\ HeapGrows /\ source' = source
  BY StepGrows
<1>2. heap'[r].macro = heap[r].macro /\ heap[r].macro \in DOMAIN macros
  BY <1>1 DEF HeapGrows, RefInv, RefersTo
<1>3. macros'[heap[r].macro].name = macros[heap[r].macro].name
  BY <1>1, <1>2 DEF MacrosGrow
<1>4. OneLine(i, j)' <=> OneLine(i, j)
  BY <1>1 DEF OneLine, StartsLine
<1> QED BY <1>1, <1>2, <1>3, <1>4 DEF LineOfCall

LEMMA CallsStep ==
  ASSUME TypeInv, RefInv, ChainInv, CallsAreLines, CallIsRead, ~ReadFreed, [Next]_vars
  PROVE  CallsAreLines'
<1>1. HeapGrows /\ source' = source /\ Places' = Places /\ RefInv'
  BY StepGrows, SameSource, RefStep
<1> SUFFICES ASSUME NEW r \in DOMAIN heap', heap'[r].argument = 0,
                    ~(mode' = "arguments" /\ r = call')
             PROVE  \E i, j \in Places : LineOfCall(r, i, j)' /\ source[j] = "newline"
  BY <1>1 DEF CallsAreLines
<1>2. CASE r \in DOMAIN heap /\ ~(mode = "arguments" /\ r = call)
  <2>1. heap'[r].parameters = heap[r].parameters /\ heap[r].argument = 0
    BY <1>1, <1>2 DEF HeapGrows
  <2>2. PICK i, j \in Places : LineOfCall(r, i, j) /\ source[j] = "newline"
    BY <1>2, <2>1 DEF CallsAreLines
  <2>3. LineOfCall(r, i, j)'
    BY <1>2, <2>1, <2>2, LineKept
  <2> QED BY <2>2, <2>3
<1>3. CASE r \in DOMAIN heap /\ mode = "arguments" /\ r = call
  <2>1. current = 0 /\ Advanced = heap
    BY <1>3 DEF ChainInv, Advanced
  <2>2. PICK p \in 1 .. Len(source) : Invoke(p)
    BY <1>3, <2>1 DEF Next, Pop, Exhausted, PushParameter, Body, Stopped, Returned,
       Words, Call, SyntaxError, Argument, DefinitionKeyword, Begin, Parameter, HeadEnd,
       vars, stack
  <2>3. source[position] = "newline" /\ position \in Places /\ heap' = heap
    BY <2>1, <2>2, ArgumentInFile DEF Invoke
  <2>4. PICK i \in Places : LineOfCall(call, i, position)
    BY <1>3 DEF CallIsRead
  <2>5. ASSUME NEW j, j = position
        PROVE  LineOfCall(r, i, j)'
    BY <1>3, <2>3, <2>4, <2>5, LineKept
  <2> QED BY <2>3, <2>5
<1>4. CASE r \notin DOMAIN heap
  <2>1. CASE PushParameter
    <3>1. r = Len(heap) + 1 /\ current # 0 /\ heap'[r].context = Context(current)
      <4>1. r = Len(heap) + 1
        BY <1>4, <2>1, PushGrows
      <4>2. \E i : heap'[r] = Replacement(heap[current].macro, Context(current), i)
        BY <2>1, <4>1, PushGrows
      <4> QED BY <2>1, <4>1, <4>2 DEF PushParameter, Replacement
    <3>2. Context(current) <= current /\ Context(current) \in Nat /\ current < r
      <4>1. current \in DOMAIN heap /\ Len(heap) \in Nat /\ DOMAIN heap = 1 .. Len(heap)
        BY <3>1, HeapType DEF TypeInv
      <4>2. Context(current) \in 1 .. current
        BY <4>1 DEF RefInv, RefersTo
      <4> QED BY <3>1, <4>1, <4>2
    <3>3. heap'[r].context = r
      BY <1>1 DEF RefInv, RefersTo, Context
    <3>4. FALSE
      <4>1. current \in Nat
        BY HeapType DEF TypeInv
      <4> QED BY <3>1, <3>2, <3>3, <4>1
    <3> QED BY <3>4
  <2>2. ASSUME NEW p \in 1 .. Len(source), Call(p)
        PROVE  FALSE
    <3>1. r = Len(heap) + 1
      BY <1>4, <2>2, CallGrows
    <3> QED BY <2>2, <3>1 DEF Call
  <2> QED BY <1>4, <2>1, <2>2, NewReplacement
<1> QED BY <1>2, <1>3, <1>4

(* The call that is read from the file.                                    *)
LEMMA OneLineNext ==
  ASSUME TypeInv, NEW i \in Places, NEW j \in Places, source[j] # "newline",
         OneLine(i, j) \/ (i = j /\ StartsLine(i))
  PROVE  OneLine(i, j + 1)
<1>1. i \in Nat /\ j \in Nat /\ (j + 1) - 1 = j
  BY SourceType
<1>2. StartsLine(i) /\ i < j + 1
  BY <1>1 DEF OneLine
<1>3. ASSUME NEW n \in i .. j
      PROVE  source[n] # "newline"
  <2>1. CASE n = j
    BY <2>1
  <2>2. CASE n # j
    <3>1. n \in i .. j - 1 /\ i # j
      BY <1>1, <2>2
    <3> QED BY <3>1 DEF OneLine
  <2> QED BY <2>1, <2>2
<1> QED BY <1>1, <1>2, <1>3 DEF OneLine

LEMMA ReadCall ==
  ASSUME TypeInv, RefInv, Plain, ChainInv, PlaceInv, ArgumentsInLines, NEW p, Call(p)
  PROVE  CallIsRead'
<1> DEFINE l == Len(heap) + 1
<1>1. /\ p = position /\ position \in Places /\ position' = position + 1
      /\ IsName(p) /\ mode = "line" /\ source' = source /\ p = Token
  <2>1. Returns(p)
    BY DEF Call
  <2> QED BY <2>1, CallInFile, ReturnedType
<1>2. call' = l /\ paren_depth' = 0 /\ macros' = macros
  BY DEF Call
<1>3. PICK m \in Found : heap'[l] = Replacement(m, l, 0)
  BY CallGrows
<1>4. heap'[l].macro = m /\ heap'[l].parameters = <<>> /\ source[macros[m].name] = source[p]
  BY <1>1, <1>3 DEF Replacement, Found
<1>5. position \in Nat /\ Len(source) \in Nat /\ position <= Len(source)
      /\ (position + 1) - position - 1 = 0
  BY <1>1, SourceType
<1>6. OneLine(position, position + 1)
  <2>1. StartsLine(position)
    BY <1>1, <1>5 DEF PlaceInv
  <2>2. source[position] # "newline"
    BY <1>1 DEF IsName, Punctuation
  <2> QED BY <1>1, <2>1, <2>2, OneLineNext
<1>7. ArgumentCount(source, position, position + 1) = 0
  BY DEF ArgumentCount
<1>8. ParenDepth(source, position)[0] = 0
  BY <1>5, DepthIs
<1> SUFFICES ASSUME NEW i, i = position
             PROVE  /\ LineOfCall(call, i, position)'
                    /\ position' <= Len(source) + 1
                    /\ paren_depth' = ParenDepth(source, i)[position' - i - 1]
  <2>1. Places' = Places
    BY <1>1, SameSource
  <2> QED BY <1>1, <2>1 DEF CallIsRead
<1> HIDE DEF l
<1>9. LineOfCall(call, i, position)'
  <2>1. OneLine(i, position)'
    BY <1>1, <1>6 DEF OneLine, StartsLine
  <2> QED BY <1>1, <1>2, <1>4, <1>7, <2>1 DEF LineOfCall
<1> QED BY <1>1, <1>2, <1>5, <1>8, <1>9

LEMMA ReadArgument ==
  ASSUME TypeInv, RefInv, ChainInv, CallIsRead, NEW p, Argument(p)
  PROVE  CallIsRead'
<1> DEFINE before == heap[call].parameters
           t == source[p]
           after == Given(before, paren_depth, t, p)
<1>1. /\ p = position /\ position \in Places /\ position' = position + 1 /\ mode = "arguments"
      /\ before \in Seq(Seq(Places)) /\ heap[call].macro \in DOMAIN macros
      /\ call \in DOMAIN heap
  BY ArgumentInFile
<1>2. /\ source' = source /\ macros' = macros /\ call' = call /\ t # "newline"
      /\ paren_depth' = Deeper(t, paren_depth)
  BY DEF Argument, Returns, Deeper
<1>3. heap'[call].parameters = after /\ heap'[call].macro = heap[call].macro
  BY <1>1, ArgumentHeap DEF HeapGrows
<1>4. PICK i \in Places : /\ LineOfCall(call, i, position)
                          /\ paren_depth = ParenDepth(source, i)[position - i - 1]
  BY <1>1 DEF CallIsRead
<1>5. /\ i \in Nat /\ position \in Nat /\ Len(source) \in Nat /\ position <= Len(source)
      /\ i < position
  BY <1>1, <1>4, SourceType DEF LineOfCall, OneLine
<1>6. OneLine(i, position + 1)
  BY <1>1, <1>2, <1>4, OneLineNext DEF LineOfCall
<1>7. Len(after) = ArgumentCount(source, i, position + 1)
  <2> DEFINE separates == t = "comma" /\ paren_depth = 0
             count == ArgumentCount(source, i, position)
  <2>1. Len(before) = count
    BY <1>4 DEF LineOfCall
  <2>2. Len(after) = (IF before = <<>> THEN 1 ELSE Len(before)) + (IF separates THEN 1 ELSE 0)
    <3>1. before \in Seq(Seq(Places)) /\ p \in Places
      BY <1>1
    <3>2. CommasCount(before, after, paren_depth, t)
      <4> HIDE DEF before, t
      <4> QED BY <3>1, GivenType
    <3> QED BY <3>2 DEF CommasCount
  <2>3. ArgumentCount(source, i, position + 1) =
          (IF count = 0 THEN 1 ELSE count) + (IF separates THEN 1 ELSE 0)
    BY <1>1, <1>4, <1>5, CountNext
  <2>4. before = <<>> <=> Len(before) = 0
    BY <1>1
  <2> HIDE DEF separates, count, before, after
  <2> QED BY <2>1, <2>2, <2>3, <2>4
<1>8. paren_depth' = ParenDepth(source, i)[(position + 1) - i - 1]
  <2> DEFINE d == position - i
  <2>1. d \in 1 .. Len(source) - i /\ i + d = position /\ i <= Len(source)
    BY <1>5
  <2>2. ParenDepth(source, i)[d] = Deeper(source[i + d], ParenDepth(source, i)[d - 1])
    BY <1>5, <2>1, DepthIs
  <2>3. d = (position + 1) - i - 1 /\ d - 1 = position - i - 1
    BY <1>5
  <2> HIDE DEF d
  <2> QED BY <1>1, <1>2, <1>4, <2>1, <2>2, <2>3
<1> SUFFICES /\ LineOfCall(call, i, position)'
             /\ position' <= Len(source) + 1
             /\ paren_depth' = ParenDepth(source, i)[position' - i - 1]
  <2>1. Places' = Places
    BY <1>2, SameSource
  <2> QED BY <1>2, <1>4, <2>1 DEF CallIsRead
<1> HIDE DEF before, after
<1>9. LineOfCall(call, i, position)'
  <2>1. OneLine(i, position)'
    BY <1>1, <1>2, <1>6 DEF OneLine, StartsLine
  <2> QED BY <1>1, <1>2, <1>3, <1>4, <1>7, <2>1 DEF LineOfCall
<1> QED BY <1>1, <1>5, <1>8, <1>9

LEMMA ReadStep ==
  ASSUME TypeInv, RefInv, Plain, ChainInv, PlaceInv, GivenInv, ~ReadFreed, [Next]_vars
  PROVE  CallIsRead'
<1>1. CASE mode' # "arguments"
  BY <1>1 DEF CallIsRead
<1>2. ASSUME NEW p \in 1 .. Len(source), Call(p) \/ Argument(p)
      PROVE  CallIsRead'
  BY <1>2, ReadCall, ReadArgument DEF GivenInv
<1>3. CASE mode' = "arguments" /\ mode = "arguments" /\ ~\E p \in 1 .. Len(source) : Argument(p)
  <2>1. current = 0
    BY <1>3 DEF ChainInv
  <2>2. UNCHANGED vars
    BY <1>3, <2>1 DEF Next, Pop, Exhausted, PushParameter, Body, Stopped, Returned,
       Words, Call, SyntaxError, Invoke, DefinitionKeyword, Begin, Parameter, HeadEnd
  <2>3. CallIsRead
    BY DEF GivenInv
  <2> QED BY <2>2, <2>3 DEF CallIsRead, LineOfCall, OneLine, StartsLine, Places, vars, input,
             stack
<1> QED BY <1>1, <1>2, <1>3, ModeSteps

LEMMA PlainStep ==
  ASSUME TypeInv, RefInv, PlainInv, [Next]_vars
  PROVE  PlainInv'
<1> SUFFICES ASSUME Plain'
             PROVE  mode' # "undefined" /\ ChainInv' /\ PlaceInv' /\ GivenInv'
  BY DEF PlainInv
<1>1. Plain
  BY StepGrows, PlainStays
<1>2. mode # "undefined" /\ ChainInv /\ PlaceInv /\ GivenInv
  BY <1>1 DEF PlainInv
<1>3. ~ReadFreed
  BY <1>1, <1>2, NothingFreed
<1>4. mode' # "undefined"
  BY <1>2, <1>3 DEF Next, Pop, PushParameter, Body, Stopped, Returned, Words, Call,
     SyntaxError, Argument, Invoke, DefinitionKeyword, Begin, Parameter, HeadEnd, vars
<1>5. ChainInv' /\ PlaceInv'
  BY <1>1, <1>2, <1>3, ChainStep, PlaceStep DEF GivenInv
<1>6. GivenInv'
  BY <1>1, <1>2, <1>3, ArgumentsStep, CallsStep, ReadStep DEF GivenInv
<1> QED BY <1>4, <1>5, <1>6

LEMMA PlainInit ==
  ASSUME Init
  PROVE  PlainInv
<1>1. /\ mode = "line" /\ position = 1 /\ heap = <<>> /\ current = 0 /\ names_freed = {}
  BY DEF Init
<1>2. OnStack = {} /\ DOMAIN heap = {}
  BY <1>1 DEF OnStack
<1>3. ChainInv
  BY <1>1, <1>2 DEF ChainInv
<1>4. PlaceInv
  BY <1>1 DEF PlaceInv, StartsLine
<1>5. GivenInv
  BY <1>1, <1>2 DEF GivenInv, ArgumentsInLines, CallsAreLines, CallIsRead
<1> QED BY <1>1, <1>3, <1>4, <1>5 DEF PlainInv

(* No macro that is called by a line of the file, with enough arguments and *)
(* no macro's name in them, makes the program read memory that it freed    *)
(* (preprocess.c:140-190, 256-345).                                        *)
THEOREM PlainMacrosSafeForAll == Spec => []PlainMacrosSafe
<1>1. Init => TypeInv /\ RefInv /\ PlainInv
  BY TypesInit, PlainInit
<1>2. TypeInv /\ RefInv /\ PlainInv /\ [Next]_vars => (TypeInv /\ RefInv /\ PlainInv)'
  BY StepGrows, RefStep, PlainStep
<1>3. PlainInv => PlainMacrosSafe
  BY DEF PlainInv, Plain, PlainMacrosSafe
<1> QED BY <1>1, <1>2, <1>3, PTL DEF Spec
=============================================================================
