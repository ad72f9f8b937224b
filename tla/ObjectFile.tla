---------------------------- MODULE ObjectFile -----------------------------
(***************************************************************************)
(* The object that the generation stage fills and an object format is      *)
(* written from: sections with attributes, each a list of blocks of bytes  *)
(* at addresses, and a list of relocations.  A word is emitted in one step *)
(* that adds its relocation and queues its bytes, and each byte is a step. *)
(* Bytes that go straight to a file (bin, hex) are in Assemble, HexWriter. *)
(***************************************************************************)
EXTENDS Integers, Sequences

CONSTANTS
  Builds,        \* <<target, format, ELF segments>> the assembler is run as
  Directives,    \* the sequences of .section directives of the programs
  Tables,        \* the symbol tables generation starts from
  Bytes,         \* the bytes that data and opcodes are made of
  References,    \* per target, what a word may refer to
  Words,         \* per target, <<width in bits, pc-relative, byte order>>
  Moves, Skips,  \* how far .org moves forward, and how much .skip skips
  MaxItems       \* bound on the items of a program

(* Bytes are bytes, a location is only moved forward, a word is some bits  *)
(* of an integer in one of the orders, and programs and tables are lists.  *)
ASSUME ObjectAssumption ==
  /\ Bytes \subseteq 0 .. 255 /\ Moves \subseteq Nat /\ Skips \subseteq Nat
  /\ \A ds \in Directives :
       ds \in Seq([name : STRING, attributes : SUBSET STRING, align : Nat])
  /\ \A t \in Tables : t \in Seq({t[i] : i \in DOMAIN t})
  /\ \A b \in Builds :
       /\ \A r \in References[b[1]] : r.value \in Int
       /\ \A w \in Words[b[1]] : w[1] \in Nat /\ w[3] \in {"LE", "BE", "PE", "none"}

VARIABLES
  target, format,   \* the build and its -f option
  segments,         \* how 32-bit ELF gets segments: none, vma, segelf, link
  directives,       \* .section directives not yet seen
  section,          \* output.section
  current_section,  \* index into section, one past it when all are done
  globals,          \* the symbol table, fixed by the time words are written
  queue,            \* bytes of the item being emitted
  fresh,            \* the section's last byte was written where it stands
  memory,           \* what was put where, per section, for the properties
  items,            \* items emitted so far
  phase

vars == <<target, format, segments, directives, section, current_section, globals,
          queue, fresh, memory, items, phase>>

Flag == {"progbits", "nobits", "read", "write", "exec", "alloc", "private",
         "public", "common", "stack", "use16", "use32"}

NoRef == [kind |-> "none", index |-> 0, value |-> 0, segment |-> FALSE,
          wrt |-> 0, hint |-> 0]

(* A list of attributes sets the flags it names; "noread" and its like are *)
(* only compared with them to print a warning.                             *)
SectionFlags(attributes) == attributes \cap Flag

DefaultFlags(name) ==
  CASE name = ".text"   -> {"progbits", "alloc", "exec"}
    [] name = ".rodata" -> {"progbits", "alloc"}
    [] name = ".data"   -> {"progbits", "alloc", "write"}
    [] name = ".bss"    -> {"nobits", "alloc", "write"}
    [] OTHER            -> {}

DefaultAlign(name) == IF name = ".data" THEN 0 ELSE 1

NewSection(d) ==
  LET given == SectionFlags(d.attributes)
      flags == IF given = {} THEN DefaultFlags(d.name) ELSE given
  IN [name |-> d.name, flags |-> flags,
      align |-> IF d.align = 0 THEN DefaultAlign(d.name) ELSE d.align,
      zero |-> "nobits" \in flags,
      full_size |-> 0, current_address |-> 0, blocks |-> <<>>,
      relocations |-> <<>>]

(* The attributes of a section are those of its first directive.           *)
LocateSection(sections, d) ==
  IF \E i \in DOMAIN sections : sections[i].name = d.name
  THEN sections
  ELSE Append(sections, NewSection(d))

BlockEnd(b) == b.address + Len(b.bytes)

(* Mutant of AppendByte: a moved section goes on in the block it had.      *)
AppendByteOn(s, byte) ==
  LET blocks == IF s.blocks = <<>>
                THEN << [address |-> s.current_address, bytes |-> <<byte>>] >>
                ELSE [s.blocks EXCEPT ![Len(s.blocks)].bytes = Append(@, byte)]
  IN IF s.zero THEN s
     ELSE [s EXCEPT !.blocks = blocks, !.current_address = @ + 1,
                    !.full_size = BlockEnd(blocks[Len(blocks)]) - blocks[1].address]

(* A byte extends the current block, or opens one where the section was    *)
(* moved to.  full_size spans from the first block to the highest end.     *)
AppendByte(s, byte) ==
  LET n == Len(s.blocks)
      opens == n = 0 \/ BlockEnd(s.blocks[n]) # s.current_address
      blocks == IF opens
                THEN Append(s.blocks, [address |-> s.current_address,
                                       bytes |-> <<byte>>])
                ELSE [s.blocks EXCEPT ![n].bytes = Append(@, byte)]
      end == BlockEnd(blocks[Len(blocks)])
  IN IF s.zero THEN s
     ELSE [s EXCEPT !.blocks = blocks,
                    !.current_address = @ + 1,
                    !.full_size = IF end > blocks[1].address + @
                                  THEN end - blocks[1].address ELSE @]

CurrentOffset(s) ==
  IF s.zero THEN s.full_size ELSE BlockEnd(s.blocks[Len(s.blocks)])

Rela(t, f) == t = "680x" \/ (t = "x86" /\ f = "elf64")

(* Mutant of Moving: a move is followed in a format that has no addresses. *)
MovingAlso == {"rel", "omf80", "omf86", "coff", "win32", "win64"}

(* The formats that follow .org, and skip without putting anything out.    *)
Moving == {"rel", "omf80", "omf86"}
Windows == {"win32", "win64"}

(* Mutant of Bias: ELF counts from the byte after the word.                *)
BiasAfter(s, ref, size) == CurrentOffset(s) + size \div 8

(***************************************************************************)
(* What output_word_type adds to a pc-relative value, so that the linker   *)
(* that subtracts its own idea of the place gets the distance.  size is in *)
(* bits, as its callers multiply it by ARCH_BITS_IN_UNIT.                  *)
(***************************************************************************)
Bias(s, ref, size) ==
  CASE format \in {"omf80", "omf86"} -> CurrentOffset(s) + size
    [] format = "coff" /\ target \in {"x80", "x65"} -> CurrentOffset(s) + size
    [] format = "coff" /\ target \notin {"x80", "x65"} -> CurrentOffset(s)
    [] format \in Windows /\ ref.kind = "none" -> 2 * CurrentOffset(s) + size
    [] format \in Windows /\ ref.kind # "none" -> CurrentOffset(s) + size
    [] format \in {"elf32", "elf64"} -> CurrentOffset(s)
    [] OTHER -> 0

NeedsRelocation(ref, pcrel) ==
  IF pcrel THEN ~(ref.kind = "section" /\ ref.index = current_section)
           ELSE ref.kind # "none"

(* What is left in the field once the relocation holds the addend.         *)
Residue(value) ==
  IF (format = "coff" /\ target = "x80")
     \/ (format \in {"elf32", "elf64"} /\ Rela(target, format))
  THEN 0 ELSE value

(* Which bits of the value come at an offset: first the low byte, first the*)
(* high byte, or pairs of bytes low first and the pairs high first.  A     *)
(* format without an order only holds one byte.                            *)
BitsAt(offset, size, order) ==
  CASE order = "LE" -> offset
    [] order = "BE" -> size - 8 - offset
    [] order = "PE" -> size - 8 - (IF size % 16 # 0 THEN offset
                                   ELSE IF offset % 16 = 0 THEN offset + 8
                                   ELSE offset - 8)

(* Mutant of Field: the bytes are not cut to their width.                  *)
FieldUncut(value, size, order) ==
  [i \in 1 .. size \div 8 |-> value \div 2 ^ (8 * (i - 1))]

Field(value, size, order) ==
  [i \in 1 .. size \div 8 |->
     IF order = "none" THEN IF size = 8 THEN value % 256 ELSE 0
     ELSE (value \div 2 ^ BitsAt(8 * (i - 1), size, order)) % 256]

Init ==
  /\ \E b \in Builds : target = b[1] /\ format = b[2] /\ segments = b[3]
  /\ directives \in Directives
  /\ section = <<>> /\ memory = <<>>
  /\ globals \in Tables
  /\ current_section = 1
  /\ queue = <<>> /\ fresh = FALSE
  /\ items = 0
  /\ phase = "precompile"

(* The section directives come first, in precompile_instruction_stream.    *)
Declare ==
  /\ phase = "precompile" /\ directives # <<>>
  /\ section' = LocateSection(section, Head(directives))
  /\ memory' = IF Len(section') = Len(section) THEN memory
               ELSE Append(memory, <<>>)
  /\ directives' = Tail(directives)
  /\ UNCHANGED <<target, format, segments, current_section, globals, queue, fresh, items,
                 phase>>

Generate ==
  /\ phase = "precompile" /\ directives = <<>>
  /\ phase' = "generate"
  /\ UNCHANGED <<target, format, segments, directives, section, current_section, globals,
                 queue, fresh, memory, items>>

Here == section[current_section]

StartsItem ==
  /\ phase = "generate" /\ queue = <<>>
  /\ items < MaxItems /\ items' = items + 1
  /\ current_section \in DOMAIN section

Keep == UNCHANGED <<target, format, segments, directives, globals, phase>>

(* An opcode, or a byte of data.                                           *)
Byte(b) ==
  /\ StartsItem
  /\ queue' = <<b>>
  /\ Keep /\ UNCHANGED <<section, current_section, fresh, memory>>

(* output_byte, for the formats that collect an object.                    *)
OutputByte ==
  /\ phase = "generate" /\ queue # <<>>
  /\ section' = [section EXCEPT ![current_section] = AppendByte(@, Head(queue))]
  /\ memory' = IF Here.zero THEN memory
               ELSE [memory EXCEPT ![current_section] =
                       [a \in DOMAIN @ \cup {Here.current_address} |->
                          IF a = Here.current_address THEN Head(queue)
                                                      ELSE @[a]]]
  /\ fresh' = ~Here.zero
  /\ queue' = Tail(queue)
  /\ Keep /\ UNCHANGED <<current_section, items>>

(* A pc-relative word follows the opcode of its instruction; a target asks *)
(* for its value less the address after it.                                *)
OutputWord(ref, size, pcrel, order) ==
  LET next == Here.current_address + size \div 8
      relocated == NeedsRelocation(ref, pcrel)
      value == (IF pcrel THEN ref.value - next ELSE ref.value)
               + (IF pcrel /\ relocated THEN Bias(Here, ref, size) ELSE 0)
      left == IF relocated THEN Residue(value) ELSE value
      relocation == [offset |-> Here.current_address, size |-> size,
                     pc_relative |-> pcrel, var |-> ref, addend |-> value,
                     segment |-> ref.segment, wrt_section |-> ref.wrt,
                     hint |-> ref.hint]
  IN /\ StartsItem
     /\ pcrel => fresh
     /\ ref.kind = "section" => ref.index \in DOMAIN section
     /\ ref.kind = "define" => ref.index \in DOMAIN globals
     /\ section' = IF relocated
                   THEN [section EXCEPT ![current_section].relocations =
                           Append(@, relocation)]
                   ELSE section
     /\ queue' = Field(left, size, order)
     /\ Keep /\ UNCHANGED <<current_section, fresh, memory>>

(* .org, which only some formats follow.                                   *)
SetLocation(by) ==
  /\ StartsItem
  /\ section' = IF format \in Moving
                THEN [section EXCEPT ![current_section].current_address = @ + by]
                ELSE section
  /\ fresh' = FALSE
  /\ Keep /\ UNCHANGED <<current_section, queue, memory>>

NopByte ==
  CASE target = "x86" -> 144 [] target = "x65" -> 234
    [] target = "680x" -> 18 [] OTHER -> 0

(* .skip and .align                                                        *)
OutputSkip(count) ==
  LET fill == IF "exec" \in Here.flags THEN NopByte ELSE 0
  IN /\ StartsItem
     /\ section' =
          IF format \in Moving
          THEN [section EXCEPT ![current_section].current_address = @ + count]
          ELSE IF Here.zero
          THEN [section EXCEPT ![current_section].full_size = @ + count]
          ELSE section
     /\ queue' = IF format \notin Moving /\ ~Here.zero
                    /\ "progbits" \in Here.flags
                 THEN [i \in 1 .. count |-> fill] ELSE <<>>
     /\ fresh' = FALSE
     /\ Keep /\ UNCHANGED <<current_section, memory>>

NextSection ==
  /\ phase = "generate" /\ queue = <<>>
  /\ current_section \in DOMAIN section
  /\ current_section' = current_section + 1
  /\ fresh' = FALSE
  /\ Keep /\ UNCHANGED <<section, queue, memory, items>>

(* The stage after generation writes the file; see the writers.            *)
Write ==
  /\ phase = "generate" /\ current_section \notin DOMAIN section
  /\ phase' = "written"
  /\ UNCHANGED <<target, format, segments, directives, section, current_section, globals,
                 queue, fresh, memory, items>>

Done == phase = "written" /\ UNCHANGED vars

Fill ==
  \/ Declare
  \/ Generate
  \/ \E b \in Bytes : Byte(b)
  \/ OutputByte
  \/ \E r \in References[target], w \in Words[target] : OutputWord(r, w[1], w[2], w[3])
  \/ \E n \in Moves : SetLocation(n)
  \/ \E n \in Skips : OutputSkip(n)
  \/ NextSection

Next == Fill \/ Write \/ Done

Spec == Init /\ [][Next]_vars

-----------------------------------------------------------------------------

Covers(b, a) == a \in b.address .. BlockEnd(b) - 1

(* Type correctness of the object.                                         *)
TypeOK ==
  /\ \A s \in DOMAIN section :
       /\ section[s].full_size \in Nat /\ section[s].current_address \in Nat
       /\ section[s].blocks \in Seq([address : Nat, bytes : Seq(0 .. 255)])
  /\ queue \in Seq(0 .. 255)
  /\ current_section \in Nat \ {0}

(* Every byte output_byte accepted for a section is in one of its blocks,  *)
(* at the address it was meant for, and in the last block that covers it;  *)
(* a block holds nothing else (section_append, section_move_address).      *)
BlocksHoldMemory ==
  \A s \in DOMAIN section :
    LET blocks == section[s].blocks IN
    /\ \A i \in DOMAIN blocks : \A k \in DOMAIN blocks[i].bytes :
         LET a == blocks[i].address + k - 1 IN
           /\ a \in DOMAIN memory[s]
           /\ memory[s][a] = blocks[i].bytes[k]
    /\ \A a \in DOMAIN memory[s] : \E i \in DOMAIN blocks : Covers(blocks[i], a)

(* The blocks of a section follow each other without touching, so that a   *)
(* writer that emits them one by one writes every address once.            *)
BlocksApart ==
  \A s \in DOMAIN section :
    LET blocks == section[s].blocks IN
      \A i, j \in DOMAIN blocks :
        i < j => BlockEnd(blocks[i]) < blocks[j].address

(* full_size is the span of the bytes, the size the headers of OMF, COFF   *)
(* and ELF give for the section.                                           *)
SizeSpansBlocks ==
  \A s \in DOMAIN section :
    LET sec == section[s] IN
      ~sec.zero /\ sec.blocks # <<>> =>
        sec.full_size = BlockEnd(sec.blocks[Len(sec.blocks)])
                        - sec.blocks[1].address

(* The three together: what section_append keeps.                          *)
BlocksSound == BlocksHoldMemory /\ BlocksApart /\ SizeSpansBlocks
=============================================================================
