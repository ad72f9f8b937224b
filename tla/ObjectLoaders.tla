--------------------------- MODULE ObjectLoaders ---------------------------
(***************************************************************************)
(* What a linker finds in the written files, and the properties that say   *)
(* it finds the object.  The readers follow the formats, not the writers.  *)
(***************************************************************************)
EXTENDS ElfWriter

VARIABLE file       \* what has been written

(* The stages that fill the object, then the one that writes it.           *)
Coff == {"coff", "win32", "win64"}
Elf == {"elf32", "elf64"}

File ==
  CASE format = "rel"   -> LET items_ == RelItems IN
                             [items |-> items_, bytes |-> RelFile(items_, Letters)]
    [] format = "omf80" -> [records |-> Omf80Records]
    [] format = "omf86" -> [records |-> Omf86Records]
    [] format \in Coff  -> CoffFile
    [] format \in Elf   -> ElfFile

WriteFile == Write /\ file' = File

ObjectInit == Init /\ file = <<>>

ObjectNext ==
  \/ Fill /\ UNCHANGED file
  \/ WriteFile
  \/ Done /\ UNCHANGED file

ObjectSpec == ObjectInit /\ [][ObjectNext]_<<vars, file>>

Written == phase = "written"

(* The bytes a section was given, from the lowest address it was given one *)
(* at, as a function of addresses.                                         *)
Given(s) == memory[s]

At(address, bytes) ==
  [a \in address .. address + Len(bytes) - 1 |-> bytes[a - address + 1]]

Over(f, g) == [a \in DOMAIN f \cup DOMAIN g |-> IF a \in DOMAIN g THEN g[a] ELSE f[a]]

-----------------------------------------------------------------------------
(* REL: items move the location of one of the areas, or fill it.           *)
RelStep(r, i) ==
  CASE i.kind = "set location" -> [r EXCEPT !.area = i.relative, !.location = i.value]
    [] i.kind = "byte" ->
         [r EXCEPT !.memory[r.area] = Over(@, At(r.location, <<i.value>>)),
                   !.location = @ + 1]
    [] OTHER -> r

RelMemory ==
  FoldLeft(RelStep, [area |-> Code, location |-> 0,
                     memory |-> [a \in {Abs, Code, Data, Common} |-> <<>>]],
           file.items).memory

(* The bits of a file, and the item that starts at one of them.            *)
BitOf(bytes, i) == (bytes[1 + i \div 8] \div 2 ^ (7 - (i % 8))) % 2

BitField(bytes, at, n) ==
  FoldLeft(LAMBDA v, k : 2 * v + BitOf(bytes, at + k), 0, [k \in 1 .. n |-> k - 1])

SpecialOf(code) == CHOOSE k \in DOMAIN Special : Special[k] = code

NameOf(letters) == CHOOSE n \in DOMAIN Letters : Letters[n] = letters

ReadItem(bytes, at) ==
  LET bits(from, n) == BitField(bytes, at + from, n)
      word(from) == bits(from, 8) + 256 * bits(from + 8, 8)
  IN IF bits(0, 1) = 0 THEN [item |-> Item("byte", Abs, bits(1, 8), ""), next |-> at + 9]
     ELSE IF bits(1, 2) # 0
     THEN [item |-> Item("relative", bits(1, 2), word(3), ""), next |-> at + 19]
     ELSE LET kind == SpecialOf(bits(3, 4))
              name == IF kind \in Addressed THEN 25 ELSE 7
              n == IF kind \in Named THEN bits(name, 3) ELSE 0
          IN [item |-> Item(kind, IF kind \in Addressed THEN bits(7, 2) ELSE Abs,
                            IF kind \in Addressed THEN word(9) ELSE 0,
                            IF kind \in Named
                            THEN NameOf([k \in 1 .. n |-> bits(name + 3 + 8 * (k - 1), 8)])
                            ELSE ""),
              next |-> at + name + (IF kind \in Named THEN 3 + 8 * n ELSE 0)]

ReadItems(bytes) ==
  LET read[at \in 0 .. 8 * Len(bytes)] ==
        LET i == ReadItem(bytes, at) IN
          <<i.item>> \o (IF i.item.kind = "module end" THEN <<>> ELSE read[i.next])
  IN read[0]

(* The stream of bits of a REL file reads back as the items that were put, *)
(* up to the end of the module, wherever bytes divide them (rel_writebits).*)
RelStreamReads ==
  Written /\ format = "rel" =>
    ReadItems(file.bytes) = file.items

-----------------------------------------------------------------------------
(* OMF: data records put bytes at offsets of a segment, and the fixups of  *)
(* a record are about the data record before them.                         *)

OmfMemory(records, segment) ==
  FoldLeft(LAMBDA m, r :
             IF r.type \in {"LEDATA80", "LEDATA16", "LEDATA32"} /\ r.segment = segment
             THEN Over(m, At(r.offset, r.bytes)) ELSE m,
           <<>>, records)

-----------------------------------------------------------------------------
(* COFF and ELF: offsets in headers lead to regions of the file.           *)

RegionAt(offset, size) ==
  IF size = 0 THEN <<>>
  ELSE file.regions[CHOOSE p \in DOMAIN file.regions :
                      file.regions[p].at = offset /\ file.regions[p].size = size].content

HeaderOf(s) ==
  file.sections[IF format \in Coff THEN s
                ELSE ElfIndex(ElfSections, Part("section", s))]

DataAt(s) ==
  LET h == HeaderOf(s) IN
    RegionAt(IF format \in Coff THEN h.data ELSE h.offset, h.size)

(* The sections that share their area of a REL file with no other.         *)
AloneInArea(s) ==
  \A t \in DOMAIN section \ {s} : AreaOf(t) = AreaOf(s) => memory[t] = <<>>

(* The records of a REL or OMF file put into each section the bytes that   *)
(* generation put there, at their addresses.  Two limits are the writers': *)
(* sections of one kind share the area of a REL file, and the 8080 OMF     *)
(* forgets where a block starts (rel_generate, omf80_generate,             *)
(* omf86_generate).                                                        *)
RecordsHoldBytes ==
  Written =>
    \A s \in DOMAIN section : ~section[s].zero =>
      CASE format = "rel"   -> AloneInArea(s) => RelMemory[AreaOf(s)] = Given(s)
        [] format = "omf80" -> (\A b \in DOMAIN section[s].blocks :
                                  section[s].blocks[b].address = 0) =>
                                 OmfMemory(file.records, Segment80(s)) = Given(s)
        [] format = "omf86" -> OmfMemory(file.records, s) = Given(s)
        [] OTHER -> TRUE

(* A COFF file makes room for progbits sections only.                      *)
CoffHasRoom ==
  format \in Coff =>
    \A s \in DOMAIN section : section[s].flags \cap {"progbits", "nobits"} # {}

(* No two parts of a file share a byte, and no part lies past the next: a  *)
(* part written later would destroy what a header points at                *)
(* (coff_generate, elf_generate).                                          *)
RegionsApart ==
  Written /\ format \in Coff \cup Elf /\ CoffHasRoom =>
    LET rs == file.regions IN
      \A p, q \in DOMAIN rs : p # q =>
        \/ rs[p].size = 0 \/ rs[q].size = 0
        \/ rs[p].at + rs[p].size <= rs[q].at
        \/ rs[q].at + rs[q].size <= rs[p].at

(* What a linker reads where the header of a section says is what was put  *)
(* into the section, from address 0 on: all of it, though only the first   *)
(* block of a section is written (coff.c:283, elf.c:479-481).              *)
HeadersFindBytes ==
  Written /\ format \in Coff \cup Elf /\ CoffHasRoom =>
    \A s \in DOMAIN section : ~section[s].zero => At(0, DataAt(s)) = Given(s)

-----------------------------------------------------------------------------
(* The symbols of a file, as <<name, where, value>>; where is a section's  *)
(* name, "absolute", "common" or "outside".                                *)

Definition(g) ==
  LET d == globals[g] IN
  CASE d.deftype = "external" -> <<d.name, "outside", 0>>
    [] d.deftype = "common"   -> <<d.name, "common", d.size>>
    [] d.deftype = "equ"      ->
         <<d.name, IF d.kind = "section" THEN section[d.index].name ELSE "absolute",
           d.value>>

CoffTable == RegionAt(file.header.symbols, 18 * file.header.count + 4)

(* An undefined symbol with a value is a common symbol of that size.       *)
CoffMeaning(e) ==
  CASE e.section = NUndef -> <<e.name, IF e.value = 0 THEN "outside" ELSE "common", e.value>>
    [] e.section = NAbs   -> <<e.name, "absolute", e.value>>
    [] e.section > 0      -> <<e.name, section[e.section].name, e.value>>

ElfSymtab == CHOOSE i \in DOMAIN file.sections : file.sections[i].type = "SYMTAB"

ElfTable ==
  LET h == file.sections[ElfSymtab] IN RegionAt(h.offset, h.size)

ElfMeaning(e) ==
  CASE e.index = Undefined -> <<e.name, "outside", 0>>
    [] e.index = Absolute  -> <<e.name, "absolute", e.value>>
    [] e.index = CommonIndex -> <<e.name, "common", e.size>>
    [] OTHER -> <<e.name, section[ElfSections[e.index].of].name, e.value>>

RelSymbolsFound ==
  LET items_ == ToSet(file.items)
      area(d) == IF d.kind = "section" THEN AreaOf(d.index) ELSE Abs
  IN \A g \in DOMAIN globals : LET d == globals[g] IN
       CASE IsPublic(d) /\ d.kind = "section" /\ ~IsStart(d) ->
              /\ Item("public", Abs, 0, d.name) \in items_
              /\ Item("define public", area(d), d.value, d.name) \in items_
         [] IsStart(d) -> Item("module end", area(d), d.value, "") \in items_
         [] IsCommon(d) -> Item("define common", Abs, d.size, d.name) \in items_
         [] OTHER -> TRUE

OmfSymbolsFound ==
  \A g \in DOMAIN globals : LET d == globals[g] IN
    IsPublic(d) /\ (format = "omf86" => d.name # EntryName) =>
      \E i \in DOMAIN file.records :
        LET r == file.records[i] IN
        /\ r.type \in {"PUBDEF80", "PUBDEF16", "PUBDEF32"}
        /\ r.name = d.name /\ r.value = d.value
        /\ r.segment = IF d.kind = "none" THEN 0
                       ELSE IF format = "omf80" THEN Segment80(d.index) ELSE d.index

(* Every symbol is in the table of the file, as what it is, and ELF's      *)
(* local symbols are those before the index its header gives.  A COFF file *)
(* gives a common symbol its alignment for a size, so those are left out.  *)
SymbolsFound ==
  Written =>
    CASE format = "rel"   -> RelSymbolsFound
      [] format \in {"omf80", "omf86"} -> OmfSymbolsFound
      [] format \in Coff -> LET table == CoffTable IN
           \A g \in DOMAIN globals : ~IsCommon(globals[g]) =>
             CoffMeaning(table[CoffSymbol(g) + 1]) = Definition(g)
      [] format \in Elf -> LET table == ElfTable IN
           /\ \A g \in DOMAIN globals :
                ElfMeaning(table[ElfSymbolIndex(g) + 1]) = Definition(g)
           /\ \A i \in DOMAIN table :
                table[i].binding = Local <=> i <= file.sections[ElfSymtab].info

-----------------------------------------------------------------------------
(* Relocations.  What the number of one says of its width and kind.        *)

Meanings(t, f) ==
  CASE t = "x86" /\ f = "elf32" ->
         [n \in {22, 23, 20, 21, 1, 2} |->
            CASE n = 22 -> <<8, FALSE>> [] n = 23 -> <<8, TRUE>>
              [] n = 20 -> <<16, FALSE>> [] n = 21 -> <<16, TRUE>>
              [] n = 1 -> <<32, FALSE>> [] n = 2 -> <<32, TRUE>>]
    [] t = "x86" /\ f = "elf64" ->
         [n \in {14, 15, 12, 13, 10, 2, 1, 24} |->
            CASE n = 14 -> <<8, FALSE>> [] n = 15 -> <<8, TRUE>>
              [] n = 12 -> <<16, FALSE>> [] n = 13 -> <<16, TRUE>>
              [] n = 10 -> <<32, FALSE>> [] n = 2 -> <<32, TRUE>>
              [] n = 1 -> <<64, FALSE>> [] n = 24 -> <<64, TRUE>>]
    [] t = "x86" /\ f \in {"coff", "win32"} ->
         [n \in {1, 2, 6, 20} |->
            CASE n = 1 -> <<16, FALSE>> [] n = 2 -> <<16, TRUE>>
              [] n = 6 -> <<32, FALSE>> [] n = 20 -> <<32, TRUE>>]
    [] t = "x86" /\ f = "win64" ->
         [n \in {1, 2, 4} |->
            CASE n = 1 -> <<64, FALSE>> [] n = 2 -> <<32, FALSE>>
              [] n = 4 -> <<32, TRUE>>]
    [] t = "680x" -> [n \in {1, 4, 5, 8} |->
            CASE n = 1 -> <<8, FALSE>> [] n = 4 -> <<8, TRUE>>
              [] n = 5 -> <<16, FALSE>> [] n = 8 -> <<16, TRUE>>]
    [] t = "x80" /\ f \in Elf -> [n \in {1, 3, 4} |->
            CASE n = 1 -> <<8, FALSE>> [] n = 3 -> <<8, TRUE>>
              [] n = 4 -> <<16, FALSE>>]
    [] t = "x80" /\ f = "coff" -> [n \in {34, 2, 1} |->
            CASE n = 34 -> <<8, FALSE>> [] n = 2 -> <<8, TRUE>>
              [] n = 1 -> <<16, FALSE>>]
    [] t = "x65" /\ f \in Elf -> [n \in {1, 6, 12, 16} |->
            CASE n = 1 -> <<8, FALSE>> [] n = 6 -> <<8, TRUE>>
              [] n = 16 -> <<16, FALSE>> [] n = 12 -> <<16, TRUE>>]
    [] t = "x65" /\ f = "coff" -> [n \in {1, 8, 2, 9} |->
            CASE n = 1 -> <<8, FALSE>> [] n = 8 -> <<8, TRUE>>
              [] n = 2 -> <<16, FALSE>> [] n = 9 -> <<16, TRUE>>]

(* The target has a number for a relocation of this kind.                  *)
Expressible(r) ==
  \E n \in DOMAIN Meanings(target, format) : Meanings(target, format)[n] = Key(r)

ReferentOf(r) ==
  CASE r.var.kind = "section" -> section[r.var.index].name
    [] r.var.kind = "define"  -> globals[r.var.index].name
    [] r.var.kind = "none"    -> ""

(* The relocations a file has for a section.  ELF finds them by the index  *)
(* of the section they are about.                                          *)
ElfRelocationsOf(s) ==
  LET about == ElfIndex(ElfSections, Part("section", s))
      i == CHOOSE i \in DOMAIN file.sections :
             file.sections[i].type \in {"REL", "RELA"} /\ file.sections[i].info = about
  IN RegionAt(file.sections[i].offset, file.sections[i].size)

RelocationsAt(s) ==
  IF section[s].relocations = <<>> THEN <<>>
  ELSE IF format \in Coff
  THEN RegionAt(HeaderOf(s).relocations, CoffRelocationSize * HeaderOf(s).count)
  ELSE ElfRelocationsOf(s)

TypedRight(r, entry) ==
  /\ entry.type \in DOMAIN Meanings(target, format)
  /\ Meanings(target, format)[entry.type] = Key(r)

(* What the index of a fixup means: records of a type, counted.            *)
Outside86 == SelectSeq(file.records, LAMBDA r : r.type \in {"EXTDEF", "COMDEF"})

Target86(f) ==
  CASE f.method = "SEGDEF" -> section[f.target].name
    [] f.method = "EXTDEF" -> Outside86[f.target].name
    [] f.method = "none"   -> ""

(* A fixup of a group is at an offset of the data record before it, which  *)
(* has some room from there to its end.                                    *)
Fixups86 ==
  FlattenSeq([i \in DOMAIN file.records |->
    IF file.records[i].type # "FIXUPP16" THEN <<>>
    ELSE LET data == file.records[i - 1] IN
         [k \in DOMAIN file.records[i].fixups |->
            LET f == file.records[i].fixups[k] IN
              [place |-> << data.segment, data.offset + f.offset >>,
               self_relative |-> f.self_relative, target |-> Target86(f),
               room |-> Len(data.bytes) - f.offset]]])

(* The fixups of the 8080: the section is that of the data before them.    *)
SegmentName80(n) == section[CHOOSE s \in DOMAIN section : Segment80(s) = n].name

Target80(record, segment) ==
  CASE record.type = "FIXUPA80" -> SegmentName80(segment)
    [] record.type = "FIXUPB80" ->
         IF \E s \in DOMAIN section : Segment80(s) = record.to
         THEN SegmentName80(record.to)
         ELSE SelectSeq(globals, IsCommon)[255 - record.to].name
    [] record.type = "FIXUPC80" ->
         SelectSeq(file.records, LAMBDA r : r.type = "EXTDEF80")[1].names[record.to + 1]

Fixups80 ==
  FoldLeft(LAMBDA w, r :
             CASE r.type = "LEDATA80" -> [w EXCEPT !.segment = r.segment]
               [] r.type \in {"FIXUPA80", "FIXUPB80", "FIXUPC80"} ->
                    [w EXCEPT !.found = Append(@, << w.segment, r.at.offset, r.at.part,
                                                    Target80(r, w.segment) >>)]
               [] OTHER -> w,
           [segment |-> 0, found |-> <<>>], file.records).found

(* The relocations generation made, in the terms of a reader.              *)
Wanted(accept(_), as(_, _)) ==
  FlattenSeq([s \in DOMAIN section |->
    IF section[s].zero THEN <<>>
    ELSE LET rs == SelectSeq(section[s].relocations, accept)
         IN [i \in DOMAIN rs |-> as(s, rs[i])]])

Wanted86 ==
  Wanted(LAMBDA r : TRUE,
         LAMBDA s, r : [place |-> << s, r.offset >>, self_relative |-> r.pc_relative,
                        target |-> ReferentOf(r), size |-> r.size \div 8])

(* A record of data ends within the word: blocks are cut each ChunkSize.   *)
CutByRecord(w) ==
  \E i \in DOMAIN section[w.place[1]].blocks :
    LET b == section[w.place[1]].blocks[i]
        into == w.place[2] - b.address
    IN into \in 0 .. Len(b.bytes) - 1 /\ (into % ChunkSize) + w.size > ChunkSize

SameFixup(f, w) ==
  f.place = w.place /\ f.self_relative = w.self_relative /\ f.target = w.target

Holds86(f, w) == f.room >= w.size

Fixups86Found ==
  LET fs == Fixups86
      ws == Wanted86
  IN /\ Len(fs) = Len(ws)
     /\ \A i \in DOMAIN ws :
          SameFixup(fs[i], ws[i]) /\ (CutByRecord(ws[i]) \/ Holds86(fs[i], ws[i]))

Wanted80 ==
  Wanted(LAMBDA r : r.var.kind # "none",
         LAMBDA s, r : << Segment80(s), r.offset, IF r.size = 8 THEN 1 ELSE 3,
                          ReferentOf(r) >>)

Base(r) == segments = "segelf" /\ r.segment

(* Words of 32 bits in 32-bit ELF for the 8086 have no number.             *)
Numberless(r) == format = "elf32" /\ target = "x86" /\ r.size = 32

EntryRight(r, entry, table) ==
  /\ entry.offset = r.offset
  /\ r.var.kind # "none" =>
       table[entry.symbol + 1].name = ReferentOf(r) \o (IF Base(r) THEN "!" ELSE "")
  /\ ~r.segment /\ Key(r) \in Range(Meanings(target, format)) => TypedRight(r, entry)

(* Each relocation is in the file for its section and place, about the     *)
(* symbol or section it was made for, and its number means its width and   *)
(* kind where the format has one.  The data record before an 8086 fixup    *)
(* holds the whole word, unless the border of records cuts it.  Left out:  *)
(* REL, which emits none, the widths of the 8086 fixups, and words of 32   *)
(* bits in 32-bit ELF.                                                     *)
RelocationsFound ==
  Written =>
    CASE format = "rel" -> TRUE
      [] format = "omf80" -> Fixups80 = Wanted80
      [] format = "omf86" -> Fixups86Found
      [] format \in Coff \cup Elf ->
           LET table == IF format \in Coff THEN CoffTable ELSE ElfTable IN
           \A s \in DOMAIN section :
             LET entries == RelocationsAt(s) IN
             \A i \in DOMAIN section[s].relocations :
               LET r == section[s].relocations[i] IN
                 Numberless(r) \/ EntryRight(r, entries[i], table)

(* The order in which a linker reads the words of a target.  A program can *)
(* ask for another, and no number of a relocation would say so (.word16be).*)
OrderOf(t) == IF t = "680x" THEN "BE" ELSE "LE"

WordsInOrder == \A w \in Words[target] : w[3] = OrderOf(target)

(* A distance is counted from the byte after the word, and the linker's    *)
(* from the word: the addend is what was written past the symbol, less the *)
(* word.                                                                   *)
AddendFor(r) == r.var.value - (IF r.pc_relative THEN r.size \div 8 ELSE 0)

(* In an ELF file the value a linker computes, symbol plus addend, less    *)
(* the place when it is pc-relative, is the one the instruction needs.  The*)
(* addend is in the entry of the relocation or in the bytes, at its place  *)
(* and in the order of the target (output_word_type, elf_generate).        *)
WordsResolve ==
  Written /\ format \in Elf /\ WordsInOrder =>
    \A s \in DOMAIN section : ~section[s].zero =>
      \A i \in DOMAIN section[s].relocations :
        LET r == section[s].relocations[i] IN
        IF Rela(target, format) THEN RelocationsAt(s)[i].addend = AddendFor(r)
        ELSE SubSeq(DataAt(s), r.offset + 1, r.offset + r.size \div 8)
               = Field(AddendFor(r), r.size, OrderOf(target))
=============================================================================
