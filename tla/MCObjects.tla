----------------------------- MODULE MCObjects -----------------------------
(***************************************************************************)
(* Small objects for the object formats: two or three sections, a symbol   *)
(* of each kind, words of each width that refer to each kind of thing.     *)
(***************************************************************************)
EXTENDS ObjectLoaders

Plain(t, f) == << t, f, "none" >>

AllBuilds ==
  { Plain("x86", "rel"), Plain("x80", "omf80"), Plain("x86", "omf86"),
    Plain("x86", "coff"), Plain("x65", "coff"), Plain("x86", "win64"),
    Plain("x86", "elf32"), <<"x86", "elf32", "segelf">>, Plain("x86", "elf64"),
    Plain("680x", "elf32"), Plain("x65", "elf32") }

Section(name, attributes) == [name |-> name, attributes |-> attributes, align |-> 0]
Aligned(name, attributes, n) == [Section(name, attributes) EXCEPT !.align = n]

SmallDirectives ==
  { << Section(".text", {}), Section(".data", {}) >>,
    << Section(".bss", {}), Aligned(".text", {}, 4), Section(".text", {"nobits"}) >> }

Symbol(name, deftype, global, kind, index, value, size) ==
  [name |-> name, deftype |-> deftype, global |-> global, kind |-> kind,
   index |-> index, value |-> value, size |-> size,
   import |-> "none", export |-> "none"]

SmallTables ==
  { << Symbol("a", "equ", TRUE, "section", 2, 1, 0),
       [Symbol("e", "external", FALSE, "none", 0, 0, 0) EXCEPT !.import = "name"],
       Symbol("l", "equ", FALSE, "section", 1, 0, 0),
       Symbol("c", "common", TRUE, "none", 0, 2, 6),
       Symbol("..start", "equ", TRUE, "section", 1, 1, 0) >>,
    << Symbol("q", "equ", TRUE, "none", 0, 3, 0),
       Symbol("e", "external", TRUE, "none", 0, 0, 0) >> }

Ref(kind, index, value) == [NoRef EXCEPT !.kind = kind, !.index = index, !.value = value]

Targets == {"x86", "x80", "x65", "680x"}

SmallReferences ==
  [t \in Targets |->
     { [NoRef EXCEPT !.value = 5], Ref("section", 2, 1), Ref("define", 2, 0) }
     \cup (IF t = "x86" THEN { [Ref("section", 1, 0) EXCEPT !.segment = TRUE] }
                         ELSE {})]

SmallWords ==
  [t \in Targets |->
     CASE t = "x86"  -> { <<16, FALSE, "LE">>, <<32, TRUE, "LE">> }
       [] t = "680x" -> { <<16, FALSE, "BE">>, <<8, TRUE, "BE">> }
       [] OTHER      -> { <<16, FALSE, "LE">>, <<8, TRUE, "LE">> }]

AllLetters ==
  [n \in {".text", ".data", ".bss", "a", "e", "l", "c", "q", "..start", "m"}
         \cup MarkNames |->
     CASE n = ".text" -> <<1, 2, 3, 4, 5>> [] n = ".data" -> <<1, 6, 7, 8, 9>>
       [] n = ".bss" -> <<1, 6, 6, 6>> [] n = "a" -> <<170>> [] n = "e" -> <<85>>
       [] n = "l" -> <<12>> [] n = "c" -> <<255>> [] n = "q" -> <<1>>
       [] n = "..start" -> <<7, 7, 7, 8, 9, 10, 11>> [] n = "m" -> <<109>>
       [] n \in MarkNames -> <<36, 13, 8>>]

Instruction(s, abits, xbits, offset) ==
  [section |-> s, abits |-> abits, xbits |-> xbits, offset |-> offset]

(* Both widths change, together and apart, and the source returns to the   *)
(* section it began with.                                                  *)
SmallStream ==
  << Instruction(1, 8, 8, 0), Instruction(1, 16, 8, 1), Instruction(2, 16, 16, 0),
     Instruction(1, 8, 16, 3) >>
=============================================================================
