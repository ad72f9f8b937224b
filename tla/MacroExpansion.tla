--------------------------- MODULE MacroExpansion ---------------------------
(***************************************************************************)
(* What macros promise: the expansion of a source, by substitution, line   *)
(* by line.  Calls within calls make it recursive over lists of lines.     *)
(***************************************************************************)
EXTENDS Macro

(* What a call stands for: the lines of the body, with the argument for    *)
(* each parameter.  A comma between parentheses does not separate, and the *)
(* parentheses themselves are no part of the argument.                     *)
RECURSIVE Split(_, _, _)
Split(line, depth, arguments) ==
  IF line = <<>> THEN arguments
  ELSE LET t == Head(line)
           last == Len(arguments)
       IN  CASE t = "open"  -> Split(Tail(line), depth + 1, arguments)
             [] t = "close" -> Split(Tail(line), IF depth = 0 THEN 0 ELSE depth - 1, arguments)
             [] t = "comma" /\ depth = 0 -> Split(Tail(line), depth, Append(arguments, <<>>))
             [] OTHER -> Split(Tail(line), depth, [arguments EXCEPT ![last] = Append(@, t)])

Arguments(line) == IF Len(line) = 1 THEN <<>> ELSE Split(Tail(line), 0, <<<<>>>>)

(* The lines of a source, each without its newline.                        *)
Lines(text) ==
  LET ends == {i \in DOMAIN text : text[i] = "newline"}
      Start(e) == 1 + Max({0} \cup {i \in ends : i < e})
  IN  [n \in 1 .. Cardinality(ends) |->
         LET e == CHOOSE e \in ends : Cardinality({i \in ends : i <= e}) = n
         IN  SubSeq(text, Start(e), e - 1)]

Substituted(line, names, arguments) ==
  FlattenSeq([i \in DOMAIN line |->
    IF \E j \in DOMAIN names : names[j] = line[i]
    THEN LET j == Min({j \in DOMAIN names : names[j] = line[i]})
         IN  IF j \in DOMAIN arguments THEN arguments[j] ELSE <<"missing">>
    ELSE <<line[i]>>])

(* The expansion of lines, after the definitions of them.                  *)
RECURSIVE Expansion(_, _, _)
Expansion(lines, defined, limit) ==
  IF lines = <<>> \/ limit = 0 THEN <<>>
  ELSE LET line == Head(lines)
           After(n) == Expansion(SubSeq(lines, n + 1, Len(lines)), defined, limit - 1)
       IN  CASE line = <<>> -> <<"newline">> \o After(1)
             [] line[1] = ".macro" ->
                  LET end == Min({n \in DOMAIN lines : lines[n] = <<".endmacro">>})
                      m == [name |-> line[2],
                            names |-> SelectSeq(SubSeq(line, 3, Len(line)),
                                                LAMBDA t : t # "comma"),
                            body |-> SubSeq(lines, 2, end - 1)]
                  IN  Expansion(SubSeq(lines, end + 1, Len(lines)),
                                Append(defined, m), limit - 1)
             [] \E m \in DOMAIN defined : defined[m].name = line[1] ->
                  LET m == defined[CHOOSE m \in DOMAIN defined : defined[m].name = line[1]]
                      body == [n \in DOMAIN m.body |->
                                 Substituted(m.body[n], m.names, Arguments(line))]
                  IN  Expansion(body \o Tail(lines), defined, limit - 1)
             [] OTHER -> line \o <<"newline">> \o After(1)

Promised == [s \in Sources |-> Expansion(Lines(s), <<>>, Len(s))]

(* The lines that reach the parser are those of the expansion, in order:   *)
(* nested calls, parameters and the return to the file each resume where   *)
(* they left off (preprocess.c:119-206).  Left out are sources that read   *)
(* freed memory and arguments that mention a parameter of the macro they   *)
(* are given to, which fetch_next_token replaces once more (line 150).     *)
ExpandsInPlace ==
  (mode # "undefined" /\ ~captured) =>
    /\ IsPrefix(passed, Promised[source])
    /\ AtEnd => passed = Promised[source]
=============================================================================
