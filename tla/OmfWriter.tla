----------------------------- MODULE OmfWriter -----------------------------
(***************************************************************************)
(* omf80_generate and omf86_generate: the Object Module Format files of an *)
(* object, as sequences of records.  A record has the fields its type has; *)
(* how fields become bytes is at the end.                                  *)
(***************************************************************************)
EXTENDS RelWriter

CONSTANT ChunkSize      \* bytes in one LEDATA record of omf86: 1024

Sections == [s \in DOMAIN section |-> s]

(* The positions, from one, of the symbols of a kind.                      *)
Place(g, predicate(_)) ==
  Cardinality({i \in 1 .. g : predicate(globals[i])})

IsExternal(d) == d.deftype = "external"
IsCommon(d) == d.deftype = "common"

-----------------------------------------------------------------------------
(* OMF for the 8080.  Segment 5 is reserved.                               *)

Segment80(s) == IF s < 5 THEN s ELSE s + 1

(* A segment for each common symbol, from 254 down, as long as there are.  *)
CommonCount ==
  LET all == Cardinality({g \in DOMAIN globals : IsCommon(globals[g])})
      next == Segment80(Len(section) + 1)
      most == 256 - (IF next > 6 THEN next ELSE 6)
  IN Least(all, most)

CommonSegment80(g) == 255 - Place(g, IsCommon)

(* The segment number of the sections made for the common symbols is never *)
(* set: the header shows what the memory held.                             *)
Unset == -1

Header80 ==
  LET commons == Symbols(IsCommon)
      (* the symbol with the n-th new section: the last has number 254     *)
      owner(n) == globals[commons[CommonCount + 1 - n]]
  IN [type |-> "THEADR80",
      segments |->
        [s \in DOMAIN section |->
           [segment |-> Segment80(s), size |-> section[s].full_size % 65536,
            align |-> IF section[s].align <= 1 THEN 3 ELSE 2]]
        \o [n \in 1 .. CommonCount |->
              [segment |-> Unset, size |-> owner(n).size % 65536,
               align |-> IF owner(n).value <= 1 THEN 3 ELSE 2]]]

Externals80 ==
  LET names == Symbols(IsExternal) IN
    IF names = <<>> THEN <<>>
    ELSE << [type |-> "EXTDEF80",
             names |-> [i \in DOMAIN names |-> globals[names[i]].name]] >>

Publics80 ==
  LET is(d) == IsPublic(d) /\ d.kind \in {"none", "section"} IN
    [i \in DOMAIN Symbols(is) |->
       LET d == globals[Symbols(is)[i]] IN
         [type |-> "PUBDEF80",
          segment |-> IF d.kind = "section" THEN Segment80(d.index) ELSE 0,
          value |-> d.value % 65536, name |-> d.name]]

Fixup80(s, r) ==
  LET part == IF r.size = 8 THEN 1 ELSE 3
      at == [part |-> part, offset |-> r.offset % 65536]
  IN CASE r.var.kind = "define" /\ IsExternal(globals[r.var.index]) ->
            << [type |-> "FIXUPC80", to |-> Place(r.var.index, IsExternal) - 1,
                at |-> at] >>
       [] r.var.kind = "define" /\ IsCommon(globals[r.var.index]) ->
            << [type |-> "FIXUPB80", to |-> CommonSegment80(r.var.index),
                at |-> at] >>
       [] r.var.kind = "section" /\ r.var.index = s ->
            << [type |-> "FIXUPA80", to |-> 0, at |-> at] >>
       [] r.var.kind = "section" /\ r.var.index # s ->
            << [type |-> "FIXUPB80", to |-> Segment80(r.var.index), at |-> at] >>
       [] OTHER -> <<>>

(* Mutant of Taken: one at the limit is taken as well.                     *)
TakenOver(s, from, limit) ==
  LET rs == section[s].relocations
      stops == {i \in from .. Len(rs) : rs[i].offset > limit}
  IN IF stops = {} THEN Len(rs) + 1
     ELSE CHOOSE i \in stops : \A j \in stops : i <= j

(* The relocations of a section that come after those already taken, up to *)
(* the first that lies at or past a limit.                                 *)
Taken(s, from, limit) ==
  LET rs == section[s].relocations
      stops == {i \in from .. Len(rs) : rs[i].offset >= limit}
  IN IF stops = {} THEN Len(rs) + 1
     ELSE CHOOSE i \in stops : \A j \in stops : i <= j

(* A block is one record of data, at offset 0 of the segment whatever its  *)
(* address is, then the fixups.                                            *)
Block80(w, s, block) ==
  LET next == Taken(s, w.next, BlockEnd(block))
      data == [type |-> "LEDATA80", segment |-> Segment80(s), offset |-> 0,
               bytes |-> block.bytes]
      fixups == [i \in 1 .. next - w.next |->
                   Fixup80(s, section[s].relocations[w.next + i - 1])]
  IN [records |-> w.records \o <<data>> \o FlattenSeq(fixups), next |-> next]

WithData == SelectSeq(Sections, LAMBDA s : ~section[s].zero)

Data80 ==
  FoldLeft(LAMBDA rs, s :
             FoldLeft(LAMBDA w, b : Block80(w, s, b),
                      [records |-> rs, next |-> 1], section[s].blocks).records,
           <<>>, WithData)

(* label_lookup: a symbol has a place if it was defined.                   *)
Entry == {g \in DOMAIN globals : globals[g].name = EntryName}

End80 ==
  LET found == {g \in Entry : globals[g].deftype = "equ"}
      d == globals[CHOOSE g \in found : TRUE]
  IN [type |-> "MODEND80",
      segment |-> IF found # {} /\ d.kind = "section" THEN Segment80(d.index)
                  ELSE 0,
      start |-> IF found = {} THEN 0 ELSE d.value % 65536]

Omf80Records ==
  <<Header80>> \o Externals80 \o Publics80 \o Data80 \o <<End80>>
  \o << [type |-> "EOF80"] >>

-----------------------------------------------------------------------------
(* OMF for the 8086 and 386.                                               *)

(* IMPDEF and EXPDEF comments; import and export say how a symbol is.      *)
Imports(d) ==
  IF d.import = "none" THEN <<>>
  ELSE << [type |-> "IMPDEF", ordinal |-> d.import = "ordinal",
           name |-> d.name] >>

Exports(d) ==
  IF d.export = "none" THEN <<>>
  ELSE << [type |-> "EXPDEF", ordinal |-> d.export = "ordinal",
           name |-> d.name] >>

Comments86 ==
  FlattenSeq([g \in DOMAIN globals |-> Imports(globals[g]) \o Exports(globals[g])])

Names86 == [type |-> "LNAMES",
            names |-> <<"">> \o [s \in DOMAIN section |-> section[s].name]]

Combine(flags) ==
  IF "private" \in flags THEN "private"
  ELSE IF "public" \in flags THEN "public"
  ELSE IF "stack" \in flags THEN "stack"
  ELSE IF "common" \in flags THEN "common" ELSE "private"

Alignment86(align) ==
  CASE align = 1 -> "byte" [] align = 2 -> "word" [] align = 4 -> "dword"
    [] align \notin {1, 2, 4} /\ align <= 16 -> "paragraph"
    [] align > 16 /\ align <= 4096 -> "page"
    [] align > 4096 -> "absolute"

Segment86(s) ==
  LET size == section[s].full_size IN
    [type |-> IF size <= 65536 THEN "SEGDEF16" ELSE "SEGDEF32",
     big |-> size = 65536, use32 |-> "use32" \in section[s].flags,
     combine |-> Combine(section[s].flags),
     align |-> Alignment86(section[s].align),
     size |-> IF size <= 65536 THEN size % 65536 ELSE size,
     name |-> s + 1]

(* The symbols that are not the entry point, EXTDEF and COMDEF counted     *)
(* together.                                                               *)
IsOutside(d) == d.name # EntryName /\ (IsExternal(d) \/ IsCommon(d))

(* The index of a symbol; the entry point, passed over, keeps zero.        *)
External86(g) == IF IsOutside(globals[g]) THEN Place(g, IsOutside) ELSE 0

Symbol86(g) ==
  LET d == globals[g]
      wide == d.value % 2 ^ 30 >= 65536
  IN CASE d.name = EntryName -> <<>>
       [] d.name # EntryName /\ IsExternal(d) ->
            << [type |-> "EXTDEF", name |-> d.name] >>
       [] d.name # EntryName /\ IsCommon(d) ->
            << [type |-> "COMDEF", name |-> d.name, size |-> d.size] >>
       [] d.name # EntryName /\ IsPublic(d) ->
            << [type |-> IF wide THEN "PUBDEF32" ELSE "PUBDEF16",
                segment |-> IF d.kind = "section" THEN d.index ELSE 0,
                name |-> d.name, value |-> d.value] >>
       [] OTHER -> <<>>

(* The location type of a fixup tests for sizes in bytes, and relocations  *)
(* have theirs in bits.                                                    *)
Location86(r) ==
  CASE r.size = 2 /\ r.segment -> "base" [] r.size = 2 /\ ~r.segment -> "offset16"
    [] r.size = 4 -> "offset32" [] OTHER -> "low byte"

Fixup86(r, base) ==
  [offset |-> (r.offset - base) % 1024, location |-> Location86(r),
   self_relative |-> r.pc_relative, frame |-> r.wrt_section,
   method |-> CASE r.var.kind = "section" -> "SEGDEF"
                [] r.var.kind = "define" -> "EXTDEF"
                [] r.var.kind = "none" -> "none",
   target |-> IF r.var.kind = "section" THEN r.var.index
              ELSE IF r.var.kind = "define" THEN External86(r.var.index)
              ELSE Unset]

Chunk86(w, s, block, offset) ==
  LET base == block.address + offset
      end == Least(offset + ChunkSize, Len(block.bytes))
      next == Taken(s, w.next, Least(BlockEnd(block), base + ChunkSize))
      data == [type |-> IF base < 65536 THEN "LEDATA16" ELSE "LEDATA32",
               segment |-> s, offset |-> base,
               bytes |-> SubSeq(block.bytes, offset + 1, end)]
      fixups == [i \in 1 .. next - w.next |->
                   Fixup86(section[s].relocations[w.next + i - 1], base)]
  IN [records |-> w.records \o <<data>>
        \o (IF fixups = <<>> THEN <<>>
            ELSE << [type |-> "FIXUPP16", fixups |-> fixups] >>),
      next |-> next]

Block86(w, s, block) ==
  FoldLeft(LAMBDA v, k : Chunk86(v, s, block, (k - 1) * ChunkSize), w,
           [k \in 1 .. (Len(block.bytes) + ChunkSize - 1) \div ChunkSize |-> k])

Data86 ==
  FoldLeft(LAMBDA rs, s :
             FoldLeft(LAMBDA w, b : Block86(w, s, b),
                      [records |-> rs, next |-> 1], section[s].blocks).records,
           <<>>, WithData)

End86 ==
  LET g == CHOOSE g \in Entry : \A h \in Entry : h <= g
      value == IF Entry = {} THEN 0 ELSE globals[g].value
  IN [type |-> IF value < 65536 THEN "MODEND16" ELSE "MODEND32",
      main |-> Entry # {},
      segment |-> IF Entry = {} THEN 0
                  ELSE IF globals[g].kind = "section" THEN globals[g].index
                  ELSE Unset,
      start |-> value]

Omf86Records ==
  << [type |-> "THEADR", name |-> "m"] >> \o Comments86 \o <<Names86>>
  \o [s \in DOMAIN section |-> Segment86(s)]
  \o FlattenSeq([g \in DOMAIN globals |-> Symbol86(g)]) \o Data86 \o <<End86>>

-----------------------------------------------------------------------------
(* Bytes of a record.                                                      *)

PutWord(v) == << v % 256, (v \div 256) % 256 >>
PutDword(v) == PutWord(v % 65536) \o PutWord(v \div 65536)

PutIndex(v) ==
  IF v < 128 THEN <<v>> ELSE << 128 + ((v \div 256) % 128), v % 256 >>

PutNumber(v) ==
  CASE v <= 128 -> <<v>>
    [] v > 128 /\ v <= 65536 -> <<129>> \o PutWord(v)
    [] v > 65536 /\ v <= 2 ^ 24 -> <<129>> \o PutWord(v) \o << (v \div 65536) % 256 >>
    [] OTHER -> <<129>> \o PutDword(v)

PutOffset(type, v) == IF type % 2 = 0 THEN PutWord(v) ELSE PutDword(v)

(* A record is its type, a size filled in at its end that counts the body  *)
(* and the checksum, the body, and what takes the sum of the body to zero. *)
Framed(type, body) ==
  LET total == FoldLeft(LAMBDA a, b : a + b, 0, body)
  IN <<type>> \o PutWord(Len(body) + 1) \o body \o << (- total) % 256 >>
=============================================================================
