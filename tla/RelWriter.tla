----------------------------- MODULE RelWriter -----------------------------
(***************************************************************************)
(* rel_generate: the Microsoft REL file of an object, as a sequence of     *)
(* items and as the stream of bits that holds them.                        *)
(***************************************************************************)
EXTENDS ObjectFile, SequencesExt

Abs == 0  Code == 1  Data == 2  Common == 3

EntryName == "..start"

(* The members of S among the first n numbers, in order.                   *)
Ascending(S, n) ==
  LET upto[k \in 0 .. n] ==
        IF k = 0 THEN <<>>
        ELSE IF k \in S THEN Append(upto[k - 1], k) ELSE upto[k - 1]
  IN upto[n]

(* The positions of the symbols of a kind, in the order of the table.      *)
Symbols(predicate(_)) ==
  Ascending({g \in DOMAIN globals : predicate(globals[g])}, Len(globals))

(* The items of a file: a kind, the area and offset of an address, a name. *)
Item(kind, relative, value, name) ==
  [kind |-> kind, relative |-> relative, value |-> value % 65536,
   name |-> name]

RelByte(b) == Item("byte", Abs, b, "")

AreaOf(s) == IF "exec" \in section[s].flags THEN Code ELSE Data

IsPublic(d) == d.deftype = "equ" /\ d.global
IsStart(d) == IsPublic(d) /\ d.name = EntryName

RelCommons ==
  LET is(d) == d.deftype = "common" IN
    [i \in DOMAIN Symbols(is) |->
       LET d == globals[Symbols(is)[i]] IN
         Item("define common", Abs, d.size, d.name)]

RelPublics ==
  LET is(d) == IsPublic(d) /\ ~IsStart(d) IN
    [i \in DOMAIN Symbols(is) |->
       Item("public", Abs, 0, globals[Symbols(is)[i]].name)]

AreaSize(area) ==
  FoldLeft(LAMBDA n, s : IF AreaOf(s) = area THEN n + section[s].full_size
                                             ELSE n,
           0, [s \in DOMAIN section |-> s])

RelSizes == << Item("data size", Abs, AreaSize(Data), ""),
               Item("code size", Code, AreaSize(Code), "") >>

-----------------------------------------------------------------------------

(* The state of the writer while it walks the blocks: what it has put, the *)
(* location and area the loader then has, the next relocation of the       *)
(* section, the bytes a relocation stands for and are not put, the last    *)
(* common block selected, and the head of each symbol's chain.             *)
RelStart == [items |-> <<>>, location |-> 0, relative |-> Abs, next |-> 1,
             skip |-> 0, common |-> "", chain |-> [i \in DOMAIN globals |-> Item("", Abs, 0, "")]]

Put(w, item, by) ==
  [w EXCEPT !.items = Append(@, item), !.location = (@ + by) % 65536]

(* Mutant of RelSetLocation: the area is not compared.                     *)
RelSetLocationIn(w, relative, address) ==
  IF address % 65536 = w.location THEN w
  ELSE [w EXCEPT !.items = Append(@, Item("set location", relative, address, "")),
                 !.relative = relative, !.location = address % 65536]

RelSetLocation(w, relative, address) ==
  IF relative = w.relative /\ address % 65536 = w.location THEN w
  ELSE [w EXCEPT !.items = Append(@, Item("set location", relative, address, "")),
                 !.relative = relative, !.location = address % 65536]

RelSelectCommon(w, name) ==
  IF w.common = name THEN w
  ELSE [w EXCEPT !.items = Append(@, Item("select common", Abs, 0, name)),
                 !.common = name]

(* A reference to an external is the address of the one before it.         *)
PutExternal(w, area, g, addend) ==
  LET old == w.chain[g]
      offset == IF addend = 0 THEN w
                ELSE Put(w, Item("external offset", Abs, addend, ""), 0)
      link == IF old.relative = Abs
              THEN \* rel_putword takes its word as a byte
                   Put(Put(offset, RelByte(old.value % 256), 1), RelByte(0), 1)
              ELSE Put(offset, Item("relative", old.relative, old.value, ""), 2)
  IN [link EXCEPT !.chain[g] = Item("", area, w.location, "")]

PutRelocation(w, area, r) ==
  LET target_ == r.var.index IN
  CASE r.var.kind = "section" ->
         Put(w, Item("relative", AreaOf(target_), r.addend, ""), 2)
    [] r.var.kind = "define" /\ globals[target_].deftype = "external" ->
         PutExternal(w, area, target_, r.addend)
    [] r.var.kind = "define" /\ globals[target_].deftype = "common" ->
         Put(RelSelectCommon(w, globals[target_].name),
             Item("relative", Common, r.addend, ""), 2)
    [] OTHER -> w

(* One byte of a block, at its turn.  The size of a relocation is in bits  *)
(* and the test is for bytes.                                              *)
RelPutByte(w, s, byte) ==
  LET relocations == section[s].relocations
      here == w.next \in DOMAIN relocations
              /\ relocations[w.next].offset = w.location
      r == relocations[w.next]
      passed == IF here THEN [w EXCEPT !.next = @ + 1] ELSE w
  IN IF w.skip > 0 THEN [w EXCEPT !.skip = @ - 1]
     ELSE IF here /\ r.size = 2 /\ ~r.pc_relative
     THEN [PutRelocation(passed, AreaOf(s), r) EXCEPT !.skip = r.size]
     ELSE Put(passed, RelByte(byte), 1)

RelBlock(w, s, block) ==
  FoldLeft(LAMBDA v, b : RelPutByte(v, s, b),
           [RelSetLocation(w, AreaOf(s), block.address) EXCEPT !.skip = 0],
           block.bytes)

RelSections ==
  FoldLeft(LAMBDA w, s : FoldLeft(LAMBDA v, b : RelBlock(v, s, b),
                                  [w EXCEPT !.next = 1], section[s].blocks),
           RelStart, [s \in DOMAIN section |-> s])

-----------------------------------------------------------------------------

RelExternals(chain) ==
  LET is(d) == d.deftype = "external" /\ d.global IN
    [i \in DOMAIN Symbols(is) |->
       LET g == Symbols(is)[i] IN
         Item("external", chain[g].relative, chain[g].value, globals[g].name)]

(* Only symbols of a section are defined: an absolute public is not.       *)
RelDefinitions ==
  LET is(d) == IsPublic(d) /\ ~IsStart(d) /\ d.kind = "section" IN
    [i \in DOMAIN Symbols(is) |->
       LET d == globals[Symbols(is)[i]] IN
         Item("define public", AreaOf(d.index), d.value, d.name)]

RelEnd ==
  LET starts == Symbols(IsStart) IN
    IF starts = <<>> THEN Item("module end", Abs, 0, "")
    ELSE LET d == globals[starts[Len(starts)]] IN
         CASE d.kind = "none"    -> Item("module end", Abs, d.value, "")
           [] d.kind = "section" -> Item("module end", AreaOf(d.index), d.value, "")
           [] OTHER              -> Item("module end", Abs, 0, "")

RelItems ==
  LET body == RelSections IN
  << Item("module", Abs, 0, "m") >> \o RelCommons \o RelPublics \o RelSizes
  \o body.items \o RelExternals(body.chain) \o RelDefinitions \o << RelEnd >>

-----------------------------------------------------------------------------
(* The bits.  Writing a field is <<how many bits, value>>.                 *)

Special ==
  [k \in {"public", "select common", "module", "define common", "external",
          "define public", "external offset", "data size", "set location",
          "code size", "module end"} |->
   CASE k = "public" -> 0 [] k = "select common" -> 1 [] k = "module" -> 2
     [] k = "define common" -> 5 [] k = "external" -> 6
     [] k = "define public" -> 7 [] k = "external offset" -> 9
     [] k = "data size" -> 10 [] k = "set location" -> 11
     [] k = "code size" -> 13 [] k = "module end" -> 14]

FileEnd == 15
Named == {"public", "select common", "module", "define common", "external",
          "define public"}
Addressed == DOMAIN Special \ {"public", "select common", "module"}

(* Mutant of RelWord: sixteen bits at once, the high byte first.           *)
RelWordBig(v) == << <<8, v \div 256>>, <<8, v % 256>> >>

RelWord(v) == << <<8, v % 256>>, <<8, v \div 256>> >>
RelAddress(i) == << <<2, i.relative>> >> \o RelWord(i.value)

Least(a, b) == IF a < b THEN a ELSE b

RelName(letters) ==
  LET n == Least(Len(letters), 7) IN
    << <<3, n>> >> \o [k \in 1 .. n |-> <<8, letters[k]>>]

(* letters gives the characters of a name.                                 *)
RelFields(i, letters) ==
  CASE i.kind = "byte"     -> << <<1, 0>>, <<8, i.value>> >>
    [] i.kind = "relative" -> << <<3, 4 + i.relative>> >> \o RelWord(i.value)
    [] OTHER -> << <<7, 64 + Special[i.kind]>> >>
                \o (IF i.kind \in Addressed THEN RelAddress(i) ELSE <<>>)
                \o (IF i.kind \in Named THEN RelName(letters[i.name]) ELSE <<>>)

EmptyBits == [buffer |-> 0, size |-> 0, file |-> <<>>]

Flush(b) == [buffer |-> 0, size |-> 0, file |-> Append(b.file, b.buffer)]

(* rel_writebits: a field that reaches past the byte is split.             *)
WriteBits(b, field) ==
  LET count == field[1]
      over == b.size + count - 8
      rest == IF over >= 0
              THEN Flush([b EXCEPT !.buffer = @ + field[2] \div 2 ^ over]) ELSE b
      left == IF over >= 0 THEN over ELSE count
      value == IF over >= 0 THEN field[2] % 2 ^ over ELSE field[2]
  IN IF left = 0 THEN rest
     ELSE [rest EXCEPT !.buffer = @ + value * 2 ^ (8 - rest.size - left),
                       !.size = @ + left]

WriteItem(b, i, letters) == FoldLeft(WriteBits, b, RelFields(i, letters))

RelFile(items_, letters) ==
  LET body == FoldLeft(LAMBDA b, i : WriteItem(b, i, letters), EmptyBits, items_)
  IN Flush(WriteBits(Flush(body), <<7, 64 + FileEnd>>)).file
=============================================================================
