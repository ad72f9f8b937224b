----------------------------- MODULE ElfWriter -----------------------------
(***************************************************************************)
(* elf_generate: a relocatable ELF file of an object.  Indices of sections *)
(* and symbols count from zero, with an empty one in front.                *)
(***************************************************************************)
EXTENDS CoffWriter

CONSTANTS
  Letters,    \* the characters of the names of symbols and sections
  Stream      \* the instructions of a 65xx program, in the order of the source

(* The marks of the widths of registers, 8 bits and 16 bits.               *)
MarkNames == {"$mh", "$ml", "$xh", "$xl"}

(* Each instruction has its section, the widths the parser was told for    *)
(* the accumulator and the index registers, and the offset it ended at.    *)
ASSUME StreamAssumption ==
  Stream \in Seq([section : Nat, abits : {8, 16}, xbits : {8, 16}, offset : Nat])

(* Every name of a program has characters.                                 *)
ASSUME LettersAssumption ==
  /\ MarkNames \subseteq DOMAIN Letters
  /\ \A n \in DOMAIN Letters : Letters[n] \in Seq(Nat)
  /\ \A ds \in Directives : \A i \in DOMAIN ds : ds[i].name \in DOMAIN Letters
  /\ \A t \in Tables : \A i \in DOMAIN t : t[i].name \in DOMAIN Letters

Elf64 == format = "elf64"

(***************************************************************************)
(* The sections of the file: those of the object, each followed by its     *)
(* relocations, and under segelf by an empty section for its base, which   *)
(* also joins the sections of the object; then the tables.                 *)
(***************************************************************************)
HasBase(s) ==
  segments = "segelf" /\ section[s].flags \cap {"progbits", "nobits"} # {}

Bases == Ascending({s \in DOMAIN section : HasBase(s)}, Len(section))

(* The index the base of a section has among the sections of the object.   *)
BaseOf(s) ==
  IF HasBase(s) THEN Len(section) + Cardinality({i \in DOMAIN Bases : Bases[i] <= s})
  ELSE Unset

ElfSections ==
  FlattenSeq([s \in DOMAIN section |->
         << Part("section", s) >>
         \o (IF section[s].relocations # <<>> THEN << Part("reloc", s) >> ELSE <<>>)
         \o (IF HasBase(s) THEN << Part("base", s) >> ELSE <<>>)])
  \o << Part("symtab", 0), Part("strtab", 0), Part("shstrtab", 0) >>

ElfIndex(parts, part) == CHOOSE i \in DOMAIN parts : parts[i] = part

-----------------------------------------------------------------------------
(* Symbols: the marks, the sections, bases included, then the local ones,  *)
(* then the global ones.  Under segelf each symbol is followed by one for  *)
(* its base.                                                               *)

Local == 0  Global == 1
Undefined == 0  Absolute == 65521  CommonIndex == 65522

ElfSymbol(name, value, size, binding, type, index) ==
  [name |-> name, value |-> value, size |-> size, binding |-> binding,
   type |-> type, index |-> index]

ElfSectionSymbols(parts) ==
  [s \in DOMAIN section |->
     ElfSymbol(section[s].name, 0, 0, Local, "section",
               ElfIndex(parts, Part("section", s)))]
  \o [i \in DOMAIN Bases |->
        ElfSymbol(section[Bases[i]].name \o "!", 0, 0, Local, "section",
                  ElfIndex(parts, Part("base", Bases[i])))]

ElfEntry(parts, d) ==
  LET binding == IF d.global THEN Global ELSE Local IN
  CASE d.deftype = "external" ->
         ElfSymbol(d.name, 0, d.size, Global, "none", Undefined)
    [] d.deftype = "common" ->
         ElfSymbol(d.name, d.value, d.size, binding, "none", CommonIndex)
    [] d.deftype = "equ" /\ d.kind = "none" ->
         ElfSymbol(d.name, d.value, d.size, binding, "none", Absolute)
    [] d.deftype = "equ" /\ d.kind = "section" ->
         ElfSymbol(d.name, d.value, d.size, binding, "none",
                   ElfIndex(parts, Part("section", d.index)))
    [] OTHER -> ElfSymbol(d.name, d.value, d.size, binding, "none", Undefined)

ElfBaseEntry(parts, d) ==
  [ElfEntry(parts, d) EXCEPT !.name = @ \o "!", !.value = 0, !.size = 0,
     !.index = IF d.deftype = "equ" /\ d.kind = "section"
               THEN ElfIndex(parts, Part("base", d.index)) ELSE @]

ElfEntries(parts, gs) ==
  FlattenSeq([i \in DOMAIN gs |->
         << ElfEntry(parts, globals[gs[i]]) >>
         \o (IF segments = "segelf" THEN << ElfBaseEntry(parts, globals[gs[i]]) >>
                                    ELSE <<>>)])

ElfNull == ElfSymbol("", 0, 0, Local, "none", Undefined)

(* Marks, on the 65xx only: where one of the widths changes, from 8 bits   *)
(* at the first instruction of a section.  The walk goes along the source  *)
(* from there and enters whatever sections come after.                     *)
Walked(s) ==
  LET own == {i \in DOMAIN Stream : Stream[i].section = s} IN
    IF own = {} THEN <<>>
    ELSE SubSeq(Stream, CHOOSE i \in own : \A j \in own : i <= j, Len(Stream))

Mark(s, name, ins) == << [section |-> s, name |-> name, value |-> ins.offset] >>

MarksAt(s, i) ==
  LET ins == Walked(s)[i]
      abits == IF i = 1 THEN 8 ELSE Walked(s)[i - 1].abits
      xbits == IF i = 1 THEN 8 ELSE Walked(s)[i - 1].xbits
  IN (IF ins.abits = abits THEN <<>>
      ELSE Mark(s, IF ins.abits = 16 THEN "$ml" ELSE "$mh", ins))
     \o (IF ins.xbits = xbits THEN <<>>
         ELSE Mark(s, IF ins.xbits = 16 THEN "$xl" ELSE "$xh", ins))

MarksOf(s) == FlattenSeq([i \in DOMAIN Walked(s) |-> MarksAt(s, i)])

Marks ==
  IF target = "x65" THEN FlattenSeq([s \in DOMAIN section |-> MarksOf(s)]) ELSE <<>>

MappingSymbols(parts) ==
  [i \in DOMAIN Marks |->
     ElfSymbol(Marks[i].name, Marks[i].value, 0, Local, "none",
               ElfIndex(parts, Part("section", Marks[i].section)))]

ElfSymbols(parts) ==
  <<ElfNull>> \o MappingSymbols(parts) \o ElfSectionSymbols(parts)
  \o ElfEntries(parts, Symbols(IsHidden)) \o ElfEntries(parts, Symbols(IsVisible))

(* Where a section and a symbol are in the table.                          *)
ElfSectionSymbol(s) == Len(Marks) + s

Stride == IF segments = "segelf" THEN 2 ELSE 1
FirstLocal == 1 + Len(Marks) + Len(section) + Len(Bases)
(* Mutant of FirstGlobal: the base of each symbol is forgotten.            *)
FirstGlobalPlain == FirstLocal + Hidden

FirstGlobal == FirstLocal + Stride * Hidden

ElfSymbolIndex(g) ==
  IF IsHidden(globals[g]) THEN FirstLocal + Stride * (Place(g, IsHidden) - 1)
                          ELSE FirstGlobal + Stride * (Place(g, IsVisible) - 1)

-----------------------------------------------------------------------------

ElfRelocation(r) ==
  LET segsym ==
        CASE segments # "segelf" -> Unset
          [] segments = "segelf" /\ r.wrt_section # 0 ->
               ElfSectionSymbol(BaseOf(r.wrt_section))
          [] segments = "segelf" /\ r.wrt_section = 0 /\ r.var.kind = "section" ->
               ElfSectionSymbol(BaseOf(r.var.index))
          [] segments = "segelf" /\ r.wrt_section = 0 /\ r.var.kind = "define" ->
               ElfSymbolIndex(r.var.index) + 1
          [] OTHER -> Unset
      plain == CASE r.var.kind = "none" -> 0
                 [] r.var.kind = "section" -> ElfSectionSymbol(r.var.index)
                 [] r.var.kind = "define" -> ElfSymbolIndex(r.var.index)
      type == ElfType(target, format, segments, r)
  IN [offset |-> r.offset,
      (* no number: the word is all ones *)
      symbol |-> IF type = -1 THEN Unset
                 ELSE IF segments = "segelf" /\ r.segment THEN segsym ELSE plain,
      type |-> type,
      addend |-> IF Rela(target, format) THEN r.addend ELSE 0]

-----------------------------------------------------------------------------
(* String tables: an empty string, then each name with its end.            *)

Length(name) == Len(Letters[name])

(* The offset of each name in a table of names of these lengths, and last  *)
(* the size of the table.                                                  *)
NameOffsets(lengths) ==
  LET offset[i \in 0 .. Len(lengths)] ==
        IF i = 0 THEN 1 ELSE offset[i - 1] + lengths[i] + 1
  IN offset

RelPrefix == IF Rela(target, format) THEN 5 ELSE 4

PartNameLength(p) ==
  CASE p.kind = "section" -> Length(section[p.of].name)
    [] p.kind = "reloc"   -> RelPrefix + Length(section[p.of].name)
    [] p.kind = "base"    -> Length(section[p.of].name) + 1
    [] p.kind \in {"symtab", "strtab"} -> 7
    [] p.kind = "shstrtab" -> 9

SymbolNameLength(symbol) ==
  IF symbol.name \in DOMAIN Letters THEN Length(symbol.name)
  ELSE 1 + Length(CHOOSE n \in DOMAIN Letters : n \o "!" = symbol.name)

StrtabOffsets(symbols) ==
  NameOffsets([i \in 1 .. Len(symbols) - 1 |-> SymbolNameLength(symbols[i + 1])])

ShstrtabOffsets(parts) ==
  NameOffsets([i \in DOMAIN parts |-> PartNameLength(parts[i])])

-----------------------------------------------------------------------------
(* Places in the file: first the sections in order without the relocations *)
(* and the names of the sections, then the relocations, then those names.  *)

RelocationEntry == (IF Rela(target, format) THEN 3 ELSE 2) * (IF Elf64 THEN 8 ELSE 4)
SymbolEntry == IF Elf64 THEN 24 ELSE 16

(* t holds the parts, the symbols and the sizes of the tables of names.    *)
PartSize(t, p) ==
  CASE p.kind = "section"  -> section[p.of].full_size
    [] p.kind = "base"     -> 0
    [] p.kind = "reloc"    -> Len(section[p.of].relocations) * RelocationEntry
    [] p.kind = "symtab"   -> Len(t.symbols) * SymbolEntry
    [] p.kind = "strtab"   -> t.strtab
    [] p.kind = "shstrtab" -> t.shstrtab

PartAlign(p) ==
  CASE p.kind \in {"section", "base"} -> section[p.of].align
    [] p.kind = "reloc" -> RelocationAlign
    [] p.kind = "symtab" -> IF Elf64 THEN 8 ELSE 4
    [] p.kind \in {"strtab", "shstrtab"} -> 1

NoBits(p) == p.kind \in {"section", "base"} /\ "nobits" \in section[p.of].flags

ElfHeaderSize == IF Elf64 THEN 64 ELSE 52
ElfSectionHeaderSize == IF Elf64 THEN 64 ELSE 40

ElfStart(p, offset) ==
  IF PartAlign(p) # 0 THEN RoundUp(offset, PartAlign(p)) ELSE offset

ElfEnd(t, p, offset) ==
  IF NoBits(p) THEN ElfStart(p, offset) ELSE ElfStart(p, offset) + PartSize(t, p)

(* A loop over the parts of some kinds: where it is behind the first i.    *)
ElfLoop(t, kinds, start) ==
  LET end[i \in 0 .. Len(t.parts)] ==
        IF i = 0 THEN start
        ELSE IF t.parts[i].kind \in kinds THEN ElfEnd(t, t.parts[i], end[i - 1])
        ELSE end[i - 1]
  IN end

ElfLayout(t) ==
  LET n == Len(t.parts)
      first == ElfLoop(t, {"section", "base", "symtab", "strtab"}, ElfHeaderSize)
      second == ElfLoop(t, {"reloc"}, first[n])
  IN [at |-> [i \in DOMAIN t.parts |->
                CASE t.parts[i].kind = "shstrtab" -> second[n]
                  [] t.parts[i].kind = "reloc" -> ElfStart(t.parts[i], second[i - 1])
                  [] OTHER -> ElfStart(t.parts[i], first[i - 1])],
      offset |-> second[n] + t.shstrtab]

-----------------------------------------------------------------------------

PartType(p) ==
  CASE p.kind \in {"strtab", "shstrtab"} -> "STRTAB"
    [] p.kind = "symtab" -> "SYMTAB"
    [] p.kind = "reloc" -> IF Rela(target, format) THEN "RELA" ELSE "REL"
    [] NoBits(p) -> "NOBITS"
    [] p.kind \in {"section", "base"} /\ ~NoBits(p) ->
         IF "progbits" \in section[p.of].flags THEN "PROGBITS" ELSE "NOTE"

ElfHeader(t, layout, names, i) ==
  LET p == t.parts[i] IN
  [name |-> names[i - 1], type |-> PartType(p),
   flags |-> IF p.kind \in {"section", "base"}
             THEN section[p.of].flags \cap {"write", "alloc", "exec"} ELSE {},
   offset |-> layout.at[i], size |-> PartSize(t, p),
   link |-> CASE p.kind = "symtab" -> ElfIndex(t.parts, Part("strtab", 0))
              [] p.kind = "reloc" -> ElfIndex(t.parts, Part("symtab", 0))
              [] OTHER -> 0,
   info |-> CASE p.kind = "symtab" -> FirstGlobal
              [] p.kind = "reloc" -> i - 1   \* the section before it
              [] OTHER -> 0,
   align |-> PartAlign(p)]

(* What is written at the offset of a section.                             *)
PartContent(t, p) ==
  CASE p.kind = "section" ->
         IF section[p.of].full_size > 0 THEN section[p.of].blocks[1].bytes ELSE <<>>
    [] p.kind = "base" -> <<>>
    [] p.kind = "reloc" ->
         [i \in DOMAIN section[p.of].relocations |->
            ElfRelocation(section[p.of].relocations[i])]
    [] p.kind = "symtab" -> t.symbols
    [] p.kind \in {"strtab", "shstrtab"} -> <<>>

PartWritten(t, p) ==
  IF p.kind \in {"section", "base"} THEN Len(PartContent(t, p)) ELSE PartSize(t, p)

ElfParts(parts) ==
  { Part(kind, 0) : kind \in {"header", "headers"} }
  \cup { p \in ToSet(parts) : ~NoBits(p) }

ElfRegion(t, layout, p) ==
  CASE p.kind = "header"  -> Region(0, ElfHeaderSize, <<>>)
    [] p.kind = "headers" ->
         Region(layout.offset, ElfSectionHeaderSize * (1 + Len(t.parts)), <<>>)
    [] OTHER -> Region(layout.at[ElfIndex(t.parts, p)], PartWritten(t, p), PartContent(t, p))

ElfTables ==
  LET parts == ElfSections
      symbols == ElfSymbols(parts)
  IN [parts |-> parts, symbols |-> symbols,
      strtab |-> StrtabOffsets(symbols)[Len(symbols) - 1],
      shstrtab |-> ShstrtabOffsets(parts)[Len(parts)]]

ElfFile ==
  LET t == ElfTables
      layout == ElfLayout(t)
      names == ShstrtabOffsets(t.parts)
  IN
  [sections |-> [i \in DOMAIN t.parts |-> ElfHeader(t, layout, names, i)],
   header |-> [sections |-> layout.offset, count |-> 1 + Len(t.parts),
               names |-> ElfIndex(t.parts, Part("shstrtab", 0))],
   regions |-> [p \in ElfParts(t.parts) |-> ElfRegion(t, layout, p)]]
=============================================================================
