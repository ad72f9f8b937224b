------------------------------- MODULE Macro --------------------------------
(***************************************************************************)
(* Macros (src/preprocess.c): .macro stores the tokens up to .endmacro, a  *)
(* call pushes a replacement that is read instead of the file until it is  *)
(* exhausted, and a parameter met in it pushes another.  A token is the    *)
(* position in the source where the lexer made it: a stored body and the   *)
(* arguments copy the pointer to the name, never the name.                 *)
(*                                                                         *)
(* The lines are live (Conditional models dead ones), and the parser is    *)
(* what it takes to tell a call, a definition and other lines apart.       *)
(***************************************************************************)
EXTENDS Integers, Sequences, SequencesExt

CONSTANTS Sources,         \* the sources considered: sequences of tokens
          MaxReplacements  \* bound on the replacements of a run

ASSUME MacroAssumption ==
  /\ MaxReplacements \in Nat
  /\ \A s \in Sources : s \in Seq(STRING) /\ Len(s) > 0 /\ Last(s) = "newline"

VARIABLES
  source, position,      \* the file, and the next token of it
  macros,                \* the definitions, in their order
  heap, freed,           \* every replacement made, and those freed
  names_freed,           \* the tokens whose name was freed
  current,               \* current_replacement, 0 for none
  is_replacement, line_number,
  mode,                  \* what the parser reads
  call, paren_depth,     \* of the macro being invoked
  passed,                \* history: the tokens of the lines passed on
  captured               \* history: an argument was read in the macro's context

input == <<source, position, is_replacement>>
stack == <<heap, freed, names_freed, current>>
vars  == <<input, stack, macros, line_number, mode, call, paren_depth, passed, captured>>

Punctuation == {"newline", "comma", "open", "close", ".macro", ".endmacro"}
IsName(p) == source[p] \notin Punctuation

Replacement(of, c, argument) ==
  [macro |-> of, context |-> c, argument |-> argument, parameters |-> <<>>,
   index |-> 1, next |-> current]

Context(r) == heap[r].context
Definition(r) == macros[heap[Context(r)].macro]

(* The sequence a replacement reads: a body, or a parameter of its context. *)
TokensOf(r) ==
  IF heap[r].argument = 0 THEN macros[heap[r].macro].body
  ELSE heap[Context(r)].parameters[heap[r].argument]

(* Whether the sequence is memory still held: the replacement, and the     *)
(* array of its context up to the parameters the call gave.                *)
Held(r) ==
  /\ {r, Context(r)} \cap freed = {}
  /\ heap[r].argument <= Len(heap[Context(r)].parameters)

Fetching == mode \in {"line", "words", "name", "head", "arguments"}
Valid    == current # 0 => Held(current)

(* Slip: the last token of a replacement is left out.                      *)
ExhaustedEarly == current # 0 /\ heap[current].index >= Len(TokensOf(current))

Exhausted == current # 0 /\ heap[current].index > Len(TokensOf(current))

Token == IF current = 0 THEN position ELSE TokensOf(current)[heap[current].index]

Indices(p) == {i \in DOMAIN Definition(current).names :
                 source[Definition(current).names[i]] = source[p]}

(* fetch_next_token looks a name of a replacement up in the arguments.     *)
IsParameter(p) == current # 0 /\ IsName(p) /\ Indices(p) # {}

Found == {m \in DOMAIN macros : source[macros[m].name] = source[Token]}

(* strcmp reads the name: of a token in a replacement with arguments, and  *)
(* of every token yylex looks up.                                          *)
NameRead(p) ==
  /\ IsName(p)
  /\ (mode = "arguments" \/ macros = <<>>) =>
       current # 0 /\ Definition(current).names # <<>>

Ready == Fetching /\ Valid /\ ~Exhausted

Pop ==
  /\ Fetching /\ Valid /\ Exhausted
  /\ current' = heap[current].next /\ freed' = freed \cup {current}
  /\ UNCHANGED <<input, heap, names_freed, macros, line_number, mode, call,
                 paren_depth, passed, captured>>

PushParameter ==
  /\ Ready /\ current # 0 /\ Token \notin names_freed /\ IsParameter(Token)
  /\ Len(heap) < MaxReplacements
  /\ \E i \in Indices(Token) :
       /\ \A j \in Indices(Token) : i <= j
       /\ heap' = Append([heap EXCEPT ![current].index = @ + 1],
                         Replacement(heap[current].macro, Context(current), i))
  /\ current' = Len(heap')
  /\ captured' = (captured \/ heap[current].argument # 0)
  /\ UNCHANGED <<input, freed, names_freed, macros, line_number, mode, call,
                 paren_depth, passed>>

(* Freed memory, or memory past the end of an array, is read.  What follows *)
(* is whatever that memory holds.                                          *)
ReadFreed ==
  /\ Fetching
  /\ Ready => /\ current = 0 => position <= Len(source)
              /\ NameRead(Token) /\ Token \in names_freed
  /\ Valid => ~Exhausted
  /\ mode' = "undefined"
  /\ UNCHANGED <<input, stack, macros, line_number, call, paren_depth, passed, captured>>

(* fetch_next_token returns p.                                             *)
Returns(p) ==
  /\ Ready /\ (current = 0 => position <= Len(source))
  /\ p = Token /\ ~IsParameter(p)
  /\ NameRead(p) => p \notin names_freed
  /\ is_replacement' = (current # 0)
  /\ position' = IF current = 0 THEN position + 1 ELSE position
  /\ UNCHANGED source

Advanced == IF current = 0 THEN heap ELSE [heap EXCEPT ![current].index = @ + 1]

(* Slip: the lines of replacements are counted as well.                    *)
LineAfterAll(replaced) == line_number + 1
LineAfter(replaced) == IF replaced THEN line_number ELSE line_number + 1
-----------------------------------------------------------------------------
(* yylex for the parser: a word, or the end of a line, of other code.      *)
Words(p) ==
  /\ Returns(p) /\ mode \in {"line", "words"}
  /\ source[p] \notin {".macro", ".endmacro"}
  /\ IsName(p) => Found = {}
  /\ heap' = Advanced
  /\ mode' = IF source[p] = "newline" THEN "line" ELSE "words"
  /\ line_number' = IF source[p] = "newline" THEN LineAfter(current # 0) ELSE line_number
  /\ passed' = Append(passed, source[p])
  /\ UNCHANGED <<freed, names_freed, current, macros, call, paren_depth, captured>>

(* yylex finds a macro: its replacement goes on top of the one the name    *)
(* was read from, and the name is freed.                                   *)
Call(p) ==
  /\ Returns(p) /\ mode = "line" /\ IsName(p) /\ Len(heap) < MaxReplacements
  /\ \E m \in Found :
       heap' = Append(Advanced, Replacement(m, Len(heap) + 1, 0))
  /\ names_freed' = names_freed \cup {p}
  /\ mode' = "arguments" /\ call' = Len(heap) + 1 /\ paren_depth' = 0
  /\ UNCHANGED <<freed, current, macros, line_number, passed, captured>>

(* A macro's name anywhere else is no identifier for the grammar; a        *)
(* definition begins a line, its head is made of names and commas, and its *)
(* end is read by parse_macro_definition.                                  *)
SyntaxError(p) ==
  /\ Returns(p)
  /\ \/ mode \in {"words", "name", "head"} /\ IsName(p) /\ Found # {}
     \/ mode \in {"line", "words"} /\ source[p] = ".endmacro"
     \/ mode = "words" /\ source[p] = ".macro"
     \/ mode = "name" /\ ~IsName(p)
     \/ mode = "head" /\ source[p] \in Punctuation \ {"newline", "comma"}
  /\ heap' = Advanced /\ mode' = "error"
  /\ names_freed' = IF IsName(p) THEN names_freed \cup {p} ELSE names_freed
  /\ UNCHANGED <<freed, current, macros, line_number, call, paren_depth, passed, captured>>

(* Slip: a comma between two arguments is dropped with them.               *)
GivenMerged(parameters, depth, t, p) ==
  LET started == IF parameters = <<>> THEN <<<<>>>> ELSE parameters
  IN  IF t \in {"open", "close", "comma"} THEN started
      ELSE [started EXCEPT ![Len(started)] = Append(@, p)]

(* invoke_macro: parentheses are counted and dropped.                      *)
Given(parameters, depth, t, p) ==
  LET started == IF parameters = <<>> THEN <<<<>>>> ELSE parameters
  IN  CASE t \in {"open", "close"} -> started
        [] t = "comma" /\ depth = 0 -> Append(started, <<>>)
        [] OTHER -> [started EXCEPT ![Len(started)] = Append(@, p)]

Argument(p) ==
  LET t == source[p]
  IN  /\ Returns(p) /\ mode = "arguments" /\ t # "newline"
      /\ heap' = [Advanced EXCEPT ![call].parameters = Given(@, paren_depth, t, p)]
      /\ paren_depth' = CASE t = "open" -> paren_depth + 1
                          [] t = "close" /\ paren_depth > 0 -> paren_depth - 1
                          [] OTHER -> paren_depth
      /\ UNCHANGED <<freed, names_freed, current, macros, line_number, mode, call,
                     passed, captured>>

(* The end of the arguments; the parser counts the line.                   *)
Invoke(p) ==
  /\ Returns(p) /\ mode = "arguments" /\ source[p] = "newline"
  /\ heap' = Advanced /\ current' = call /\ mode' = "line"
  /\ line_number' = LineAfter(current # 0)
  /\ UNCHANGED <<freed, names_freed, macros, call, paren_depth, passed, captured>>
-----------------------------------------------------------------------------
DefinitionKeyword(p) ==
  /\ Returns(p) /\ mode = "line" /\ source[p] = ".macro"
  /\ heap' = Advanced /\ mode' = "name"
  /\ UNCHANGED <<freed, names_freed, current, macros, line_number, call,
                 paren_depth, passed, captured>>

(* begin_macro_definition                                                  *)
Begin(p) ==
  /\ Returns(p) /\ mode = "name" /\ IsName(p) /\ Found = {}
  /\ macros' = Append(macros, [name |-> p, names |-> <<>>, body |-> <<>>])
  /\ heap' = Advanced /\ mode' = "head"
  /\ UNCHANGED <<freed, names_freed, current, line_number, call, paren_depth,
                 passed, captured>>

(* append_macro_definition_parameter, or the comma before it               *)
Parameter(p) ==
  /\ Returns(p) /\ mode = "head" /\ (IsName(p) \/ source[p] = "comma")
  /\ IsName(p) => Found = {}
  /\ macros' = IF IsName(p) THEN [macros EXCEPT ![Len(macros)].names = Append(@, p)]
               ELSE macros
  /\ heap' = Advanced
  /\ UNCHANGED <<freed, names_freed, current, line_number, mode, call, paren_depth,
                 passed, captured>>

(* The parser has looked the end of the head's line ahead.                 *)
HeadEnd(p) ==
  /\ Returns(p) /\ mode = "head" /\ source[p] = "newline"
  /\ heap' = Advanced /\ mode' = "body"
  /\ line_number' = LineAfter(current # 0)
  /\ UNCHANGED <<freed, names_freed, current, macros, call, paren_depth, passed, captured>>

(* parse_macro_definition reads the file itself, whatever is replaced, and *)
(* one token after .endmacro; the parser then counts the newline it held.  *)
Body ==
  /\ mode = "body"
  /\ \/ /\ position <= Len(source) /\ source[position] # ".endmacro"
        /\ macros' = [macros EXCEPT ![Len(macros)].body = Append(@, position)]
        /\ position' = position + 1
        /\ line_number' = IF source[position] = "newline" THEN LineAfter(is_replacement)
                          ELSE line_number
        /\ UNCHANGED mode
     \/ /\ position <= Len(source) => source[position] = ".endmacro"
        /\ position' = IF position <= Len(source) THEN position + 2 ELSE position
        /\ line_number' = LineAfter(is_replacement)
        /\ mode' = "line" /\ UNCHANGED macros
  /\ UNCHANGED <<source, is_replacement, stack, call, paren_depth, passed, captured>>

Returned(p) ==
  \/ Words(p) \/ Call(p) \/ SyntaxError(p) \/ Argument(p) \/ Invoke(p)
  \/ DefinitionKeyword(p) \/ Begin(p) \/ Parameter(p) \/ HeadEnd(p)

-----------------------------------------------------------------------------
Init ==
  /\ source \in Sources /\ position = 1
  /\ macros = <<>> /\ heap = <<>> /\ freed = {} /\ names_freed = {}
  /\ current = 0 /\ is_replacement = FALSE /\ line_number = 1
  /\ mode = "line" /\ call = 0 /\ paren_depth = 0
  /\ passed = <<>> /\ captured = FALSE

AtEnd == mode = "line" /\ current = 0 /\ position > Len(source)

Stopped ==
  /\ AtEnd \/ mode \in {"error", "undefined"} \/ Len(heap) = MaxReplacements
  /\ UNCHANGED vars

Next == Pop \/ PushParameter \/ ReadFreed \/ Body \/ Stopped
        \/ \E p \in 1 .. Len(source) : Returned(p)

Spec == Init /\ [][Next]_vars
-----------------------------------------------------------------------------
MacroNames == {source[macros[m].name] : m \in DOMAIN macros}

(* parse_macro_definition takes what follows .endmacro for the end of its  *)
(* line (preprocess.c:88-92).                                              *)
EndsAlone ==
  \A i \in DOMAIN source : source[i] = ".endmacro" => source[i + 1] = "newline"

(* A definition within a macro, or given to one.                           *)
DefinitionStored ==
  \/ \E m \in DOMAIN macros : \E i \in DOMAIN macros[m].body :
       source[macros[m].body[i]] = ".macro"
  \/ \E r \in DOMAIN heap : \E k \in DOMAIN heap[r].parameters :
       \E i \in DOMAIN heap[r].parameters[k] : source[heap[r].parameters[k][i]] = ".macro"

(* A line is counted when it is read from the file, by whichever of the    *)
(* parser, parse_macro_definition and the newline held ahead of it, and    *)
(* never for a replacement (preprocess.c:72-99, parser.y:124-128, 360-367). *)
(* Not so when a macro begins a definition: its body is read from the file, *)
(* and no line of it is counted (line 93).  At the end of the file a       *)
(* definition that does not end may have counted one too many.             *)
LinesOfFile ==
  mode = "line" /\ EndsAlone /\ ~DefinitionStored /\ position <= Len(source) =>
    line_number = 1 + Cardinality({i \in DOMAIN source :
                                      i < position /\ source[i] = "newline"})

StartsLine(i) == i = 1 \/ source[i - 1] = "newline"

(* Token j stands in the line that token i starts, or ends it.             *)
OneLine(i, j) ==
  StartsLine(i) /\ i < j /\ \A n \in i .. j - 1 : source[n] # "newline"

(* The parentheses that are open after each of the tokens behind a call    *)
(* at i.                                                                   *)
ParenDepth(text, i) ==
  LET depth[d \in 0 .. Len(text) - i] ==
        IF d = 0 THEN 0
        ELSE CASE text[i + d] = "open" -> depth[d - 1] + 1
               [] text[i + d] = "close" /\ depth[d - 1] > 0 -> depth[d - 1] - 1
               [] OTHER -> depth[d - 1]
  IN depth

Separators(text, i, j) ==
  {n \in i + 1 .. j - 1 : text[n] = "comma" /\ ParenDepth(text, i)[n - i - 1] = 0}

(* The arguments between a call at i and token j: commas between           *)
(* parentheses do not separate.                                            *)
ArgumentCount(text, i, j) ==
  IF j = i + 1 THEN 0 ELSE 1 + Cardinality(Separators(text, i, j))

CallsMacro ==
  \E m \in DOMAIN macros : \E i \in DOMAIN macros[m].body :
    source[macros[m].body[i]] \in MacroNames

GivesMacro ==
  \E i, j \in DOMAIN source : OneLine(i, j) /\ {source[i], source[j]} \subseteq MacroNames

GivesTooFew ==
  \E i, j \in DOMAIN source :
    /\ OneLine(i, j) /\ source[j] = "newline"
    /\ \E m \in DOMAIN macros :
         /\ source[macros[m].name] = source[i]
         /\ ArgumentCount(source, i, j) < Len(macros[m].names)

(* Freed memory is read only by sources in which a macro calls another, is *)
(* given the name of one, or is given too few arguments: the name of a call *)
(* is freed though a stored body holds it (preprocess.c:338), and reading  *)
(* arguments frees the replacement the new one returns to (line 337).      *)
PlainMacrosSafe ==
  mode = "undefined" /\ EndsAlone => CallsMacro \/ GivesMacro \/ GivesTooFew
=============================================================================
