----------------------------- MODULE CoffWriter ----------------------------
(***************************************************************************)
(* coff_generate: a UNIX or Microsoft COFF file of an object.  A file is   *)
(* its header, its section headers, and regions at offsets: the data and   *)
(* the relocations of sections, and the symbol table.                      *)
(***************************************************************************)
EXTENDS OmfWriter, RelocationTypes

RoundUp(n, align) == ((n + align - 1) \div align) * align

CoffRelocationSize ==
  CASE target = "x86" -> 10 [] target \in {"x80", "x65"} -> 16 [] OTHER -> 0

RelocationAlign == IF format = "elf64" THEN 8 ELSE 4

(* Mutant of RelocationRoom: the size of the original format.              *)
RelocationRoomOld(s) == 10 * Len(section[s].relocations)

RelocationRoom(s) == CoffRelocationSize * Len(section[s].relocations)

(* Where the data and the relocations of a section go, and where it ends,  *)
(* if the one before it ends at an offset.  Only a progbits section takes  *)
(* room.                                                                   *)
CoffData(s, offset) ==
  IF section[s].align # 0 THEN RoundUp(offset, section[s].align) ELSE offset

CoffDataEnd(s, offset) ==
  IF "progbits" \in section[s].flags THEN CoffData(s, offset) + section[s].full_size
                                     ELSE CoffData(s, offset)

CoffRelocations(s, offset) == RoundUp(CoffDataEnd(s, offset), RelocationAlign)

CoffEnd(s, offset) ==
  IF section[s].relocations = <<>> THEN CoffDataEnd(s, offset)
  ELSE CoffRelocations(s, offset) + RelocationRoom(s)

(* Where the first s sections end, for each s.                             *)
CoffLayout ==
  LET end[s \in 0 .. Len(section)] ==
        IF s = 0 THEN 20 + 40 * Len(section) ELSE CoffEnd(s, end[s - 1])
  IN end

-----------------------------------------------------------------------------
(* The symbol table: the file and each section with an auxiliary entry,    *)
(* the local symbols, the global ones.  Indices count from zero.           *)

IsVisible(d) == d.global \/ IsExternal(d)
IsHidden(d) == ~IsVisible(d)

Hidden == Cardinality({g \in DOMAIN globals : IsHidden(globals[g])})

CoffSectionSymbol(s) == 2 * s

CoffSymbol(g) ==
  2 + 2 * Len(section)
  + (IF IsHidden(globals[g]) THEN Place(g, IsHidden) - 1
                             ELSE Hidden + Place(g, IsVisible) - 1)

NUndef == 0  NAbs == -1  NDebug == -2
CExt == 2  CStat == 3  CFile == 103

CoffSlot(name, value, sec, class, aux) ==
  [name |-> name, value |-> value, section |-> sec, class |-> class, aux |-> aux]

Aux == [name |-> "", value |-> 0, section |-> 0, class |-> 0, aux |-> 0]

CoffEntry(d) ==
  LET class == IF d.global THEN CExt ELSE CStat IN
  CASE d.deftype = "external" -> CoffSlot(d.name, 0, NUndef, CExt, 0)
    [] d.deftype = "common" -> CoffSlot(d.name, d.value, NUndef, CExt, 0)
    [] d.deftype = "equ" /\ d.kind = "none" -> CoffSlot(d.name, d.value, NAbs, class, 0)
    [] d.deftype = "equ" /\ d.kind = "section" -> CoffSlot(d.name, d.value, d.index, class, 0)
    [] OTHER -> CoffSlot(d.name, 0, NUndef, CExt, 0)

CoffSymbols ==
  LET entries(gs) == [i \in DOMAIN gs |-> CoffEntry(globals[gs[i]])] IN
  << CoffSlot(".file", 0, NDebug, CFile, 1), Aux >>
  \o FlattenSeq([s \in DOMAIN section |->
            << CoffSlot(section[s].name, 0, s, CStat, 1),
               [Aux EXCEPT !.value = section[s].full_size] >>])
  \o entries(Symbols(IsHidden)) \o entries(Symbols(IsVisible))

-----------------------------------------------------------------------------

CoffRelocation(r) ==
  LET type == CoffType(target, format, r) IN
  [offset |-> r.offset,
   symbol |-> CASE r.var.kind = "none"    -> NAbs
                [] r.var.kind = "section" -> CoffSectionSymbol(r.var.index)
                [] r.var.kind = "define"  -> CoffSymbol(r.var.index),
   type |-> IF type = -1 THEN 0 ELSE type,
   addend |-> IF CoffRelocationSize = 16 THEN r.addend ELSE 0]

ContentFlag(flags) ==
  IF "nobits" \in flags THEN "bss" ELSE IF "exec" \in flags THEN "text" ELSE "data"

(* The alignment field counts from 1 for 1, doubling; 0 counts as 1.       *)
WindowsAlign(align) ==
  LET exact == {k \in 0 .. 13 : 2 ^ k = align} IN
    IF align = 0 THEN 1
    ELSE IF exact = {} THEN 0 ELSE 1 + CHOOSE k \in exact : TRUE

CoffHeader(layout, s) ==
  LET sec == section[s] IN
  [name |-> sec.name, size |-> sec.full_size, data |-> CoffData(s, layout[s - 1]),
   relocations |-> IF sec.relocations = <<>> THEN Unset
                   ELSE CoffRelocations(s, layout[s - 1]),
   count |-> Len(sec.relocations),
   content |-> ContentFlag(sec.flags),
   access |-> IF format = "coff" THEN {}
              ELSE sec.flags \cap {"exec", "read", "write"},
   align |-> IF format = "coff" THEN 0 ELSE WindowsAlign(sec.align)]

(* A file has parts: its headers, its tables, and what is of a section.    *)
Part(kind, of) == [kind |-> kind, of |-> of]

Region(at, size, content) == [at |-> at, size |-> size, content |-> content]

CoffParts ==
  { Part(kind, 0) : kind \in {"header", "headers", "symtab"} }
  \cup { Part("section", s) : s \in {s \in DOMAIN section :
                                      ~section[s].zero /\ section[s].full_size > 0} }
  \cup { Part("reloc", s) : s \in {s \in DOMAIN section : section[s].relocations # <<>>} }

(* The bytes of a section are those of its first block.                    *)
CoffRegion(layout, symbols, p) ==
  CASE p.kind = "header"  -> Region(0, 20, <<>>)
    [] p.kind = "headers" -> Region(20, 40 * Len(section), <<>>)
    [] p.kind = "section" ->
         LET bytes == section[p.of].blocks[1].bytes IN
           Region(CoffData(p.of, layout[p.of - 1]), Len(bytes), bytes)
    [] p.kind = "reloc" ->
         LET relocations == section[p.of].relocations IN
           Region(CoffRelocations(p.of, layout[p.of - 1]),
                  CoffRelocationSize * Len(relocations),
                  [i \in DOMAIN relocations |-> CoffRelocation(relocations[i])])
    [] p.kind = "symtab" ->
         Region(layout[Len(section)], 18 * Len(symbols) + 4, symbols)

CoffFile ==
  LET layout == CoffLayout
      symbols == CoffSymbols
  IN
  [header |-> [symbols |-> layout[Len(section)], count |-> Len(symbols)],
   sections |-> [s \in DOMAIN section |-> CoffHeader(layout, s)],
   regions |-> [p \in CoffParts |-> CoffRegion(layout, symbols, p)]]
=============================================================================
