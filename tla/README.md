# A verification of pcrasm

pcrasm is a portable assembler: one program, built once per target, that reads
an assembly source and writes a flat binary, Intel HEX, or an object file
(README.md, doc.md). This directory holds TLA+ modules that model its core,
TLC configurations that check them on small programs, and theorems proved with
TLAPS. Line numbers below are of the files in `src/`; `asm.c:779` stands for
`src/src/asm.c`, line 779.

## 1. The system

The program is one thread that runs a pipeline over global state. Nothing runs
beside it, nothing is kept between two runs, and no call can be lost: what is
hard here is the *order* in which several loops revisit the same instructions,
what a pass still sees of the pass before it, whether the passes end, and
whether two pieces of code that compute the same location independently agree.

    source -> lexer -> preprocessor -> parser -> instruction stream
           -> groups -> precompile -> (update offsets <-> compile)* -> generate
           -> flat file | HEX | sections and relocations -> REL, OMF, COFF, ELF

| Component | Source | State it keeps | Operations |
|---|---|---|---|
| Lexer | parser.lex, target lexers | flex buffers | one token |
| Conditionals | preprocess.c:208-352 | `false_if_level`, `past_true_if_clause`, `parsing_conditional`, `is_line_start`, the line number | `yylex`, `handle_*_directive` |
| Macros | preprocess.c:1-206 | the list of macros, the stack of replacements | define, invoke, fetch a token |
| Parser, instruction builder | parser.y, syntax.c | `current_instruction`, the stream | append an instruction, define a symbol |
| Symbols and expressions | symbolic.c:1-757 | `globals`: value, section, kind, global flag | define, look up, evaluate |
| Local labels | symbolic.c:758-875 | per number: last definition, unresolved uses | bind, define |
| Layout | asm.c:779-1133, 1251-1303, 1577-1594 | per instruction: offset, size, section, next in section, pair; per section: first and last | group, precompile, update offsets, compile, until nothing moves |
| Generation | asm.c:522-777, 1139-1249 | `current_section`, `output_limit`, repetition counters, the output location | walk a section, jump back, put bytes, move, skip |
| Object sections | asm.c:305-520 | sections, blocks, relocations, symbols, strings | append, move, add |
| Format writers | hex.c, rel.c, omf.c, coff.c, elf.c | record buffer (hex), bit buffer and location (rel), record size and checksum (omf), tables (coff, elf) | write the file |
| Targets | x86, x65, x80, x89, 680x, i4, dummy | none, but the instruction and `current_section` they are given | match a form, its length, its bytes |
| Driver | asm.c:1339-1763 | format, file names | the order of the stages |

How they interact. The parser calls the preprocessor for every token and the
preprocessor asks the symbol table for the value of a condition, so `.if` sees
the symbols defined so far. The parser defines every label and `.equ` at once
(at location 0 of the first section) *and* appends an instruction that defines
it again in every later pass. Layout asks the target for a length and the
target asks the symbol table for values, which layout redefines between two
questions. Generation asks the target once more, with the state the last pass
left, and nothing compares the answer with the one that was laid out.
`current_section` is a global that five loops share: some set it for every
instruction, some use it as their loop counter, and one
(`compile_instruction_stream`) uses whatever it finds there.

What makes each of them correct:

- *Conditionals*: two variables behave as the stack of conditionals they stand
  for; every line is counted once, whether it is dead or live.
- *Macros*: a use of a parameter is replaced by the argument of the macro it is
  written in, however deep the replacement; all replacements end.
- *Symbols*: when the passes end, a symbol has the value of the place or of the
  expression it is defined by.
- *Local labels*: `nb` is the last label n before the use, `nf` the first after.
- *Layout*: the passes end; no instruction lies over another; no holes behind
  what cannot shrink; the form laid out for an instruction is the one it gets.
- *Generation*: the output stands at the location the layout computed; a block
  is repeated as often as it says; a limit holds inside its block, and only
  there.
- *Writers*: a reader of the file finds every byte, symbol and relocation where
  it was put.
- *Targets*: an instruction is as long as it was measured; its bytes mean it and
  nothing else.

The list of hazards with their lines is in `PROJECT.json`.

## 2. The modules

| Module | Models | Kind |
|---|---|---|
| `Layout` | asm.c:779-1133, 1251-1303, 1571-1594; expression forms of symbolic.c; the choice between two forms in x86/gen.c and x65/gen.c | detailed, state machine |
| `Assemble` | the whole run: `Layout`, then asm.c:522-647, 1139-1249 | composes `Layout` with generation |
| `Expansion` | the output a program with blocks is meant to have, by recursion | reference definition |
| `Conditional` | preprocess.c:208-352 | detailed |
| `IfStack` | what conditionals promise: a stack | abstract; `Conditional` implements it |
| `Macro` | preprocess.c:1-206, 319-352 and the parser's calls of it | detailed |
| `MacroExpansion` | what a macro promises, by recursion over lists of lines | reference definition |
| `LocalLabels` | symbolic.c:758-875, in the loop of asm.c:930-1003 | detailed |
| `NearestLabel` | what numbered labels promise | abstract; `LocalLabels` implements it |
| `HexWriter` | hex.c, with a loader of its files | detailed |
| `MemoryImage` | what a writer promises: bytes at places | abstract; `HexWriter` implements it |
| `ObjectFile` | asm.c:305-777: sections, blocks, relocations, words | detailed, state machine |
| `RelWriter`, `OmfWriter`, `CoffWriter`, `ElfWriter` | rel.c, omf.c, coff.c, elf.c | functions of the object; each extends the one before |
| `RelocationTypes` | the hooks of the targets that number relocations (isa.h of each) | functions |
| `ObjectLoaders` | readers of the four formats, and the stage of `main` that writes | composes `ObjectFile` with the writers |
| `Operands` | operands as the parsers leave them for a target | functions |
| `X80Patterns`, `X65Patterns`, `X89Patterns` | the instruction tables of x80/gen.c, x65/gen.h, x89/gen.c | data |
| `X80Encoder`, `X65Encoder`, `X89Encoder` | matching, lengths and bytes in the three gen.c | functions |
| `Encoding` | an instruction's way through two passes and generation | state machine over the three encoders |
| `MCLayout`, `MCAssemble`, `MCLocalLabels`, `MCMacro`, `MCObjects`, `MCEncoding` | the small programs of the runs | model checking |
| `LayoutProofs` | theorems about `Layout` | proofs |
| `AssembleProofs` | theorems about `Assemble`, over those of `Layout` | proofs |
| `ConditionalProofs`, `HexProofs` | theorems about `Conditional` and `HexWriter`: the refinements | proofs |
| `LocalLabelsProofs`, `MacroProofs`, `ObjectProofs` | theorems about `LocalLabels`, `Macro` and `ObjectFile` | proofs |
| `LoadersProofs` | theorems about `ObjectLoaders` with the COFF and ELF writers (parts, bytes, words), over those of `ObjectFile` | proofs |

How they meet. `Assemble` extends `Layout`: the generation walks what the layout
left. `Macro` and `Conditional` are two halves of one lexer loop: `Macro` sees
live lines only, `Conditional` no macros. `ObjectFile` begins where generation
hands over words and bytes; it is not joined to `Assemble`, whose programs have
places but no values, so that the two are checked at their common border: the
calls of `output_byte`, `output_word_type`, `output_set_location` and
`output_skip`. The encoders are the other side of the two lengths that `Layout`
takes as data: `OnlyLengthens` is what `Layout` assumes of a target
(`ConstantsAssumption`: short is no longer than long), and `LengthIsEmitted` is
why generation may trust the length that was laid out.

### Layout

One action per instruction visited by a loop; `phase` says which loop of `main`
is running and `pc` where it is. An instruction is named by its index in the
stream, `0` is the NULL pointer, and `EndOf(s)` is the empty instruction that
`precompile_instruction_stream` appends to section s. The variables are the
fields of `instruction_t` (`off` is `code_offset`, `size` is `code_size`,
`sec` is `containing_section`, `term` is `termination`, `count` is
`repetition.count` or `fill.count`), of the sections (`first`, `last`), and the
globals `current_section` (`cur`) and `globals` (`sym`).

| Action | Code |
|---|---|
| `Parse`, `EndParse` | one line of the parser with `preprocessor_define` |
| `Group`, `EndGroup` | one step of `make_instruction_groups`; its recursion is the stack `open` |
| `Precompile`, `EndPrecompile` | one iteration of `precompile_instruction_stream`; the loop that closes the chains |
| `Update`, `UpdateUnchained`, `Wrap`, `EndUpdate` | one iteration of `update_code_offsets`; the loop condition of `main` |
| `Compile`, `EndCompile` | one iteration of `compile_instruction_stream` |
| `Stop` | the places that end the process: `assert_scalar`, a difference of labels while preprocessing, a NULL `termination` or `following` |

The program is chosen in the initial state from `CONSTANT Programs`. An
instruction has a *short* and a *long* length; the operand decides which one
fits. Operands are `pos - neg + add` over symbols, `$` and `$$`, and the padding
expression that the parser builds for `.align`. A difference is a scalar if both
sides belong to sections; if only the left one does, so does the difference
(symbolic.c:421-457), which matters where the right side is a symbol never
defined, and then `.skip` and `.org` refuse it. Both matchers are kept apart by
`CONSTANT Target`: x86 refuses a form shorter than that of the pass before
(x86/gen.c:1715), the 65xx family does not. `Reach` stands for the 128 of a
signed byte, and `MaxOffset` for the greatest value of a `long`. `code_offset` is
unsigned; an offset below 0 would be a huge one, and the model ends there, as it
does behind `MaxOffset` (`Wrap`).

### Assemble

Adds `generate_instruction_stream`: a walk along the chain of each section that
jumps back at `.endtimes` and `.endfill`. `image` records each byte that is put
out with its address and the instruction it comes from, not its value;
`loc` is where the output stands. `format` is chosen in the initial state from
`CONSTANT Formats`: formats can move the location (`hex`, `rel`) or not (`bin`,
`elf`), and all the sections of a flat file (`bin`, `hex`) share one stream. A
program for an object format begins with a section directive (`Suits`), since
such a format opens no section by itself. `bits` says whether a section has
contents (`progbits`), is zeroed (`nobits`), or neither was said of it, and is
chosen from `CONSTANT Attributes`: a zeroed section refuses the bytes of an
instruction, after they were charged to the limit (asm.c:421), and counts a
`.skip`; one of which neither was said takes the bytes and ignores a `.skip` in
an ELF file (asm.c:625-645). Block lists, relocations and byte values are in
`ObjectFile`.

### Conditional

One action per token: `DropToken` is an iteration of `yylex` that ends in
`continue`, `PassToken` one that returns, together with the parser's reduction
at the end of the line. The source is written by `BeginLine`, nondeterministically.
`nest` and `passed` are history variables, the state of `IfStack`.
The sources are those whose conditionals belong together (`Fitting`); whether an
`.if` may stand in a clause after the active one is `CONSTANT NestInPast`,
because there the code does not keep the promise.

### HexWriter

`data`, `address` and `high_address` are the fields of `intel_hex`; the four
operations are the four functions of hex.c, and `format` is chosen from
`Formats`. `Span` stands for 256, the values of a `uint8_t` and the size of the
buffer; `Paragraph` for 16, the unit of the base in hex16; `Bank` for 65536, the
values of a `uint16_t` and the unit of the base in hex32. `high_address` keeps
16 bits, but `BaseMoves` compares it with the whole quotient, as the code does.
The loader (`Load`, `Read`) is not part of the program: it is the reader of the
file that the properties speak of. It takes a base in paragraphs, as the type of
the record says, and counts the bytes it reads. hex16 has no record for
locations from 1M (a TODO in the code, hex.c:27), and base records of hex32 set
another base than was meant (section 6): `InReach` in `HexProofs` says which
locations are left, and the run stays below them.

### LocalLabels

One action per label and per reference that `precompile_instruction_stream`
meets; instructions without either change nothing here and are left out, and
several references of one instruction stand in a row, in the order
`local_label_bind_all` visits them. `bound[i]` is `value.l` of reference i once
its type is `EXP_LABEL`, `Pending` before. The sorted list of definitions is a
function of the number; `located` says for which numbers there is an entry, and
`backwards` and `forwards` are the fields of the entries. A reference for which
there is no label may stay as it is, or become NULL: `NearestLabel` allows both
(section 6).

### Macro

A token is the *position* in the source at which the lexer made it, since a
stored body and the arguments of a call copy the pointer to a name and never the
name. `heap` holds every replacement ever pushed, `current` the one being read
(`0` is the file), `freed` and `names_freed` what has been freed.

| Action | Code |
|---|---|
| `Pop` | `fetch_next_token` at the end of a replacement |
| `PushParameter` | `fetch_next_token` at a parameter |
| `Words`, `Call`, `SyntaxError` | the parser at a line that calls no macro, at one that calls one, and where the grammar stops |
| `Argument`, `Invoke` | `invoke_macro`, which the parser calls |
| `DefinitionKeyword`, `Begin`, `Parameter`, `HeadEnd`, `Body` | `.macro` and `parse_macro_definition` |
| `ReadFreed` | any of them where what is read has been freed: the run ends, as what follows is undefined |

`passed` is the sequence of tokens the parser was given, for the properties;
`Promised`, in `MacroExpansion`, is the recursive `Expansion` of each source.
Sources are sequences of tokens that end a line, and need not be programs: where
the grammar has no rule for a definition or for a macro's name, `SyntaxError`
ends the run. `captured` records that an argument was read in the context of a
macro that has a parameter of the same name. Dead lines and the radix of numbers
do not appear.

### ObjectFile and its writers

`section` is `output.section`, with flags, blocks and relocations; `queue` holds
the bytes of the word or fill being put out, so that a word is one step that
adds its relocation (`OutputWord`: `output_word_type` with the bias of every
format) and each byte another (`OutputByte`: `section_append`). `Declare` is a
`.section` directive in precompile, `SetLocation` and `OutputSkip` are the
functions of those names, and `NextSection` the outer loop of generation.
`fresh` says that the byte before stands where the section is: a pc-relative
word always follows the opcode of its instruction. `memory` is a history
variable: what was put where. The symbol table is fixed by then and chosen in the
initial state (`Tables`), and so are target, format and segments (`Builds`).

A writer runs once over a finished object, so it is a function: `RelItems` and
the bits it becomes, `Omf80Records` and `Omf86Records` with the fields of their
records, `CoffFile` and `ElfFile` with headers and regions at the offsets the
code computes. The marks of register widths that an ELF file for the 65xx has
before its sections' symbols are made from `Stream`, the instructions of the
source with their widths and offsets, by the walk of elf.c:156-202. `WriteFile` (in `ObjectLoaders`) puts the result into `file`. The
loaders are not part of the program: they follow the formats, as a linker does.
Not in the writers: the bytes of an OMF record and its checksum, time stamps, and
the names' way into fixed-width fields.

### The targets and Encoding

A pattern table is a function from mnemonics to sequences of patterns, row by
row in the order of the source, since the first that matches is taken. An encoder
has the operators of its gen.c: matching with the marks `perfect`, `TRUNCATED`
and `FAILED`, `find_pattern`, `compute_length` and `generate_instruction`.
`Encoding` takes all the instructions of a group of mnemonics (`Subjects`) at
once through `Measure` (forgiving, as in the first pass), `Measure` (strict) and
`Generate`. An x80 pattern is a sequence of actions; the model follows the
8080, 8085, Z80, R800 and Game Boy encodings and the conditions of the 8008.

## 3. The runs

| Run | Question | States |
|---|---|---|
| `LayoutX86` | the layout passes: x86 branches that grow, blocks well and badly nested, two interleaved sections, paddings, operands of every kind, those that end the process included. Room, holes, labels, forms, chains, pairs | 1.4M |
| `AssembleX65` | the whole run with 65xx forms, which may shrink again, with operands that end it, and with skips that ask for more in every pass: does it end? | 340k |
| `AssembleOut` | generation, for a flat file, for REL and for ELF, with sections with and without contents: is the file the expansion of its blocks, does the output stand where the layout said, do branches land? | 2.2M |
| `LocalLabels` | does every reference become the nearest label? | 54k |
| `ConditionalFlat` | do two variables do for a stack? | 11k |
| `Macros` | do the lines that reach the parser come out as the expansion, are lines counted once, when is freed memory read? | 95k |
| `Hex` | does a loader find what was written, in both formats, wherever the location was moved? | 16k |
| `Objects` | whatever a program puts into sections, does a linker find the bytes, symbols and relocations in each format? | 324k |
| `Encodings` | for every pattern of three targets: is what is measured emitted, and can it be decoded? | 2.2k, each with some thousand instructions |
| `HexLong`, `ConditionalNested`, `Encodings8008` | violations: section 6 | |

Bounds and why they are enough. The programs of the layout runs are *all*
sequences over an alphabet up to 3 to 5 instructions (6 for the blocks of
`AssembleOut`, which are balanced); a run takes the union of several such sets
(`MCLayout`, `MCAssemble`), each with the directives that have something to do
with each other. In `LayoutX86` the programs are those of an object format,
prefixed by a section directive where they need a section, and nothing is
chained before the first one; the section that a flat format opens by itself is
in `AssembleX65` and `AssembleOut`. `Reach = 4` with lengths 2 and 3
makes two instructions between a branch and its label enough for the long form,
and a second branch between them enough for one growth to cause another, which
takes three passes; five instructions hold two branches over each other with
two labels. `MaxOffset` is 60, above what any program without a skip by a symbol
reaches (the runs with `Halts` would show it otherwise: a tame program that is
cut off there is an error), and 40 in `AssembleX65`, where the skips that ask for
more in every pass (`SkipPrograms`) run up to it. Those skips are by the distance
from a label to a later one: the other way round the distance is below 0, which
is a skip of almost 2^64 bytes. `MaxSection = 2` is what interleaving needs. Two programs of
`LayoutX86` begin a block in one section and end it in another, behind a branch
that grows (`CrossPrograms`), since what holds of blocks does not hold there
(section 6). Two nested blocks of
two copies with something around them is the smallest case where a counter or a
limit that is not restored shows. The two sections of `AssembleOut` have each
kind of contents beside another kind (`TwoSections`). For the HEX writer three bytes with a buffer
of three and two paragraphs of two cross their border in both directions; for
`hex32` the four locations are its first bank (section 6), and no run of bytes
fills the 8-bit length (`HexLong`).
`MaxDepth = 3` and `MaxLines = 7` let an inner conditional stand in each clause
of an outer one. Five labels and references with two numbers hold a label, a
reference to it from each side, and a label or reference of the other number
between them.

The sources of `Macros` define a macro with one parameter, a macro with one or
two that has up to two lines, and have one or two calls: a body that calls the
other macro, an argument that is its name or the name of a parameter, missing
arguments, parentheses around a comma, and a second call, which is where a freed
name is met again. `MaxReplacements = 14` is above what the longest of them
push, but for those that replace each other without end. In `Objects`, three
items (`MaxItems`) are a byte, a move and a word, or two words on both sides of
a record's border, which `ChunkSize = 4` draws in place of 1024; `Moves = {2}`
leaves a gap between blocks, and only forward, as the layout never moves back but
for an `.org`. Two symbol tables and two sequences of sections hold each kind of
symbol (absolute, local, global, external, common, start) and of section (with
bits, without, declared twice), and eleven builds each format and both kinds of ELF
relocation; the four instructions of `SmallStream` change both register widths,
together and apart, and return to their first section. The operands of `Encodings` stand on each side of every limit the
constraints draw (signed and unsigned 8, 16 and 20 bits, 3-bit counts, page
addresses) and are put in every operand position; `Following = 100` is the place
of the instruction.

Fairness. `main` is one thread whose loops run until they are done, so an
enabled pass is eventually taken: `WF_vars(Pass)` in `Layout` and
`WF_allVars(Step)` in `Assemble`. No fairness is assumed of any single action,
and no choice between actions depends on it: in every state at most one pass
action is enabled. The other modules have safety properties only and no
fairness, since their environment may stop at any time.

Preconditions of properties. `BranchesLand`, `InStep` and their like speak of
`Steady` programs: regular ones (no instruction that may leave a hole, section
6; each block within one section, its count a constant that is not negative; an
`.org` outside the blocks), no `.org` for a format that ignores it (doc.md:40),
no second section in a flat file (each section counts from 0 there though they
are concatenated), no `.skip` inside a `.fill` for a format that moves over it
or in a zeroed section (such a move is not charged to the limit, asm.c:1193), no
bytes in a zeroed section, no `.skip` in an ELF section of which neither kind of
contents was said, and no form that depends on `$`, or on an `.equ` that is
neither a label nor a number, which may be another in generation. `BlocksExact` needs
the regular part alone, and `FillsBounded` only that each block is in one
section and each `.fill` has an end. A negative length of a `.fill` is not
followed into generation. All of them leave out a `.fill` within a `.fill`,
whose inner block is not charged to the outer one (asm.c:1188), and what speaks
of finished output leaves out a `.times 0`, which repeats its block 2^64 times
(asm.c:1176). `FormsSettled` speaks of operands over labels, numbers and names
never defined, for which nothing lags a pass behind. `Halts` and `Generates` let a
program run out of offsets unless it is `Tame`: its `.skip`, `.org`, `.fill` and
`.times` are by numbers, and each block is in one section. Without that exception
both are violated in `AssembleX65` (section 6). Of a word that the border of two OMF data
records cuts, `RelocationsFound` asks that its first byte is in the record before
its fixup; of any other, that it is there as a whole. `ExpandsInPlace` leaves out runs that end
in freed memory, and arguments that name a parameter of the macro they are given
to; `PlainMacrosSafe` says which sources the first can be. It and `LinesOfFile` leave
out sources with anything behind an `.endmacro` in its line, which is not read
(preprocess.c:88), and `LinesOfFile` definitions that come out of a macro. The
properties of
`Objects` leave out, each in its comment, what a format does not carry: REL
relocations, moved blocks of the 8080's OMF, sections that share an area, 32-bit
words in 32-bit ELF. `OneMeaning` and `Decodable` speak of matches without a
mark (`Unmarked`) and leave out the 65xx instructions whose opcodes collide
(`Clashing`). All runs contain programs that satisfy them and reach the states
they speak of: the mutants of the runs are found there.

## 4. What is proved

For *every* set of programs, names, sections, target, reach and greatest offset that satisfies
`ConstantsAssumption` (each program is a sequence of instructions whose short
form is no longer than the long one, with at most one definition per symbol):

| Theorem | States |
|---|---|
| `TypeCorrect` | `Spec => []TypeOK` |
| `OffsetsOnlyGrow` | `Spec => OffsetsGrow`: no step lowers an offset |
| `RoomForAll` | `Spec => []NoOverlap`: everything has room when the passes end |
| `ChainsApart` | `Spec => []ChainInv`: links run forward, and none is shared |
| `NoGapForAll` | `Spec => []NoGap`: no hole behind what cannot shrink |
| `LabelsForAll` | `Spec => []LabelsExact`: labels are exact when the passes end |
| `FormsForAll` | `Spec => []FormsSettled`: the form laid out is the one generated, for operands over labels, numbers and names never defined |
| `NestForAll` | `Spec => []BlocksNest`: paired directives are of one kind, and blocks nest |
| `ChainsForAll` | `Spec => []ChainsFollowStream`: a chain is the stream restricted to its section |
| `BlocksForAll` | `Spec => []BlocksExact`: a block of a regular program gets the room of its copies, or of its mark |

and, for every choice of formats, and of contents of the sections, besides
(`FormatAssumption`):

| Theorem | States |
|---|---|
| `FillsBoundedForAll` | `AssembleSpec => []FillsBounded`: the limit is in force inside a `.fill`, and only there |
| `InStepForAll` | `AssembleSpec => []InStep`: the output stands where the layout put the instruction, or its copy |
| `BranchesLandForAll` | `AssembleSpec => []BranchesLand`: a branch lands on the instruction behind its label |

For *every* bound on the depth and the lines of a source (`BoundsAssumption`):

| Theorem | States |
|---|---|
| `LinesCountedForAll` | `Spec => []LinesCounted`: every line is counted once, live or dead |
| `OpenWhenLiveForAll` | `~NestInPast` implies `Spec => []OpenWhenLive`: the filter is open where the stack is live |
| `LevelCountsNestForAll` | `~NestInPast` implies `Spec => []LevelCountsNest`: the level counts the `.endif` lines to come |
| `FiltersByStackForAll` | `~NestInPast` implies `Spec => FiltersByStack`: the refinement of `IfStack` |

`~NestInPast` is the condition of section 6 and no weaker one would do: with an
`.if` in a clause after the active one the code breaks the promise
(`ConditionalNested`). The first theorem does not need it.

For *every* width of the fields of `intel_hex` and every bound on locations and
bytes (`HexAssumption`):

| Theorem | States |
|---|---|
| `BytesWrittenForAll` | `~LongRuns` implies `Spec => []BytesWritten`: no byte is lost |
| `WritesImageForAll` | `~LongRuns` and `InReach` imply `Spec => WritesImage`: the refinement of `MemoryImage` |

`~LongRuns` says that fewer bytes are put out in a row than the length counts,
which is less than 256 in the code (`HexLong` shows what happens else). `InReach`
is a megabyte in hex16 and 64K in hex32, the locations whose base a loader
understands.

For *every* set of streams of labels and references (`StreamsAssumption`):

| Theorem | States |
|---|---|
| `LocalTypeCorrect` | `Spec => []TypeOK` |
| `ListsAlwaysExact` | `Spec => []ListsExact`: who waits for a number is who came after its last label |
| `LatestAlwaysExact` | `Spec => []LatestExact`: the entry of a number is its last label |
| `BindsNearestForAll` | `Spec => NearestLabel!Spec`: the refinement |

For *every* set of sequences of tokens that end a line, and every bound on
replacements (`MacroAssumption`):

| Theorem | States |
|---|---|
| `LinesOfFileForAll` | `Spec => []LinesOfFile`: the lines counted are those read from the file, unless a macro begins a definition |
| `PlainMacrosSafeForAll` | `Spec => []PlainMacrosSafe`: freed memory is read only where a macro calls another, is given the name of one, or is given too few arguments |

Neither bounds the number of replacements or the depth of parameters within
parameters, and the sources need not be programs.

For *every* set of builds, directives, symbol tables, bytes, references, words,
moves and skips that satisfies `ObjectAssumption` (bytes are bytes, moves go
forward, a word is some bits of an integer in one of the byte orders):

| Theorem | States |
|---|---|
| `TypeCorrect` (of `ObjectProofs`) | `Spec => []TypeOK`: typed blocks, and only bytes are queued |
| `SectionsSound` | `Spec => []BlocksSound`: the blocks hold what was put into the section, where it was meant to be, and nothing else; they lie apart; `full_size` spans them |

and if, besides, every name has characters (`LettersAssumption`) and the
instructions of a 65xx program have widths and offsets (`StreamAssumption`):

| Theorem | States |
|---|---|
| `RegionsApartForAll` | `ObjectSpec => []RegionsApart`: no two parts of a COFF or ELF file share a byte |
| `HeadersFindBytesForAll` | `ObjectSpec => []HeadersFindBytes`: where the header of a section points are all the bytes put into it |
| `WordsResolveForAll` | `ObjectSpec => []WordsResolve`: what a linker makes of a word of an ELF file is what the instruction needs |

The first two speak of a COFF file only if each of its sections is said to have
bits or not to (`CoffHasRoom`); without it the code overwrites one (section 6).
The third leaves out targets whose words are not in their own byte order
(`WordsInOrder`), as those of `.word16be` on an x86: no number of a relocation
says so, and no linker could know.

The argument. None of the properties is inductive: each speaks of the end, and
holds because of what every step of the passes before it maintained.

- *Room* (`RoomInv`): in an update pass in which nothing has changed yet, every
  instruction already visited has room after it. A change sets `changed`, and
  then another pass follows; so at the end the claim covers all instructions. It
  needs that an offset visited earlier in the same pass is not raised behind the
  loop: links run forward.
- *Holes* (`GapInv`): the offset of an instruction was set by the instruction
  before it in the chain and by no other (`LinksApart`), at most at that
  instruction's end with the size it has now (`Bounded`), because a rigid
  instruction's size never goes down and its own offset never goes down; and
  where nothing has been set it is still 0 (`Unmoved`).
- *Labels* (`PlaceInv`): in an update pass, the symbol of a label already
  visited has the offset of the label, because the offset of an instruction is
  only raised by one before it in the stream.
- *Forms* (`FormInv`): in the last pass, when nothing has moved since the
  compile pass, offsets and the values of labels are those the matcher saw, a
  symbol set to a number has it since the parser (`NumberValue`), and one never
  defined keeps its 0; the x86
  memory gives the same answer a second time since the form chosen has exactly
  the size it is compared with.

- *Blocks* (`GroupInv`, `StreamInv`, `BlockInv`): no block that is still open
  lies within a pair, so the one that ends contains every pair it meets; every
  link made so far leads to the next instruction of the section, and the last one
  to nothing of it; and in an update pass an offset already passed is at most
  what the instruction before it asks for now, and any other at most what that
  asked for when the pass began (`Sweep`). What follows a block is then at least
  at the end of its copies by `RoomInv` and at most there by `BlockInv`.
- *Generation* (`Passage`, `StepInv`): `HandOver` carries what the layout
  guarantees (`LayInv`) to the point where generation begins; from there on it
  is a fact about constants (`Laid`), since the walk changes none of it. The walk
  is in the section it began in (`WalkInv`), and the limit is that of the block
  it is in (`LimitInv`). Then counters, limit and location add up (`Even`):
  outside a `.fill` the location is the offset plus what the counters of the
  blocks around say (`PlaceAt`), inside one it is as far from the mark as the
  limit says (`MarkAt`), and a counter is at 0 outside its block, which is what a
  nested block needs when it is entered again (`CountsAt`). At the end of a block
  the location is that of the copies by `BlocksExact`. The sum over the blocks
  around is one over a function of the stream (`SumUpTo`), so its lemmas
  (`SumIs`, `SumChange`, `SumZero`) are proved by induction over its length.
- *Branches* (`PrintInv`): what has been put out stays where it is, so the first
  byte of an instruction is where the walk was when it came to it first; as long
  as it has none, no block around it has been repeated, and `InStep` then says
  the place is the offset. The displacement is the one the layout computed from
  exact labels (`LabelsExact`), and a label has the offset of what follows it
  (`BlockInv` leaves no hole between).
- *Conditionals* (`Stands`): the two variables stand for a stack in one of three
  ways: all of it is live; or the first dead conditional from outside waits, and
  the level is its distance from the top; or the innermost one is past its active
  clause and all others are live. A conditional that waits cannot have one past
  its active clause within it, so three are enough, as long as `~NestInPast`.
- *HEX* (`CountInv`, `PlaceInv`, `WholeInv`): the loader is a recursive function
  of the file; that it reads a longer file as it would read the shorter one and
  then the new records (`IsReading`) is what makes the file grow with the memory.
  The bytes of the buffer go to `address`, the loader's base is the one
  `intel_hex` holds, and what is loaded with the buffer flushed is the memory.
- *Local labels* (`Inv`): both invariants are inductive together with one that
  ties the lists to the references, `PendingExact`. A label replaces exactly
  those on its list; none of them has a label of that number in between, so the
  label is the nearest. When the loop has ended, a forward reference that is
  still pending is on its list, and then has no label behind it.

- *Macros* (`RefInv`, `LineInv`, `PlainInv`): what a replacement refers to is made
  before it, and its macro is not the one being defined; both macros and
  arguments only grow (`MacrosGrow`, `HeapGrows`), so what a stored token says
  does not change. A definition begins in the file unless its `.macro` is itself
  stored, so its lines are read with `is_replacement` off. In a plain source a
  call stands in the file (`NameInFile`), so it is made with an empty stack and
  its arguments free nothing; the replacements not yet freed are those of the
  stack, and their contexts are on it (`ChainInv`); a freed name lies behind the
  file's position and in no body or argument (`PlaceInv`); and a call has the
  arguments of its line, counted comma by comma (`GivenInv`, `CountNext`), which
  is at least one for each parameter that can be pushed.
- *Sections* (`ObjInv`): that a new block does not touch the last one does not
  follow from the blocks alone; the location must lie behind all of them
  (`InOrder`), which is where moves that only go forward come in. A section
  without bytes has no blocks, and a `fresh` one has, which is what makes the
  bias of a pc-relative word a number, and its bytes bytes (`FieldIsBytes`).

- *Files* (`Kept`, then slots): a format that has no addresses never moves its
  sections, so each has one block, from address 0 and as long as `full_size`
  (`OneBlock`); with the names and attributes of the directives (`Attributes`)
  that is all a writer takes from the object (`Fits`). The offsets of a file are
  those of a loop that only goes forward (`RunExists`, `Monotone`), and a file is
  a row of slots between them: for COFF the headers, then data and relocations of
  each section, then the symbols; for ELF the two loops of `elf_generate`. Each
  part lies in a slot of its own, so no two share a byte (`SlotsApart`); and then
  the place and the size of a part are enough to find it again (`RegionFound`).
- *Words* (`ResolvedInv`): the addend of a word is in its relocation, or its bytes
  are in the section, or those not yet put out are the next in the queue
  (`WordsHeld`; nothing else is put into the section while they wait). What is
  added to a pc-relative value is the end of the block before the word, which is
  its place, since there is one block from address 0 (`OneBlock`,
  `ValueIsAddend`). A linker finds the relocations of a section by the number in
  their header; they are the only ones with it and follow the section directly
  (`Arranged`), so that `elf_generate` and the linker mean the same entries
  (`ElfEntriesFound`).

TLC checks the strengthenings as invariants of the same instances, all but
`BlockInv` and what names it (`LayInv`): it says that there were offsets when the
pass began, of which there are too many to try.

Induction. The library states induction for a predicate, which the installed
provers cannot instantiate; `SetInduction` (in `AssembleProofs`, `HexProofs`,
`LoadersProofs` and `MacroProofs`) states it for a set of numbers, from the least
element of a set that well-founded orders have, and that is enough for the sums,
the loader, the loops of the writers and the depth of parentheses.

Not proved, and left to TLC:

- `Halts` and `Generates`: liveness under fairness is out of the prover's reach.
- `FileIsExpansion` and `ExpandsInPlace`: their references are RECURSIVE
  operators, as expansion within expansion is.
- `RelStreamReads`, `RecordsHoldBytes`, `SymbolsFound` and `RelocationsFound` of
  `ObjectLoaders`: the readers of REL and OMF fold over bits and
  records with an operator as a parameter, which the provers cannot instantiate.
  What ends up in the sections all formats are written from is proved
  (`SectionsSound`).
- The four properties of `Encoding`: they are about the rows of the pattern
  tables, which TLC goes through one by one, and `X89Encoder` uses `Bitwise`.

## 5. Mutants

Every property of every passing run is paired, in `PROJECT.json`, with a change
of one definition that a plausible slip in the code would be: an offset that is
raised only once, a matcher without memory, two passes instead of as many as it
takes, a counter or a limit that is not restored, a base that is counted twice, a list
that is not emptied, a symbol numbered in another order, a byte left out of a
length. They stand before the definition they would replace, with a comment that
begins with "Slip", "A slip" or "Mutant".

## 6. Where code and documentation disagree

Three of these are runs:

| Run | What it shows |
|---|---|
| `HexLong` | 256 bytes in a row are lost: the length has 8 bits |
| `ConditionalNested` | an `.if` inside a clause after the active one: its `.endif` brings the dead clause to life |
| `Encodings8008` | the conditions of the 8008 are renumbered wrongly: jumps on different conditions are the same bytes |

Others were met while the modules were written. The modules follow the code in
them, and the properties leave them out, each in its comment:

- *Layout.* `.align` behind code that grows asked for more padding in an earlier
  pass; offsets are never lowered, and the labels behind it are past the bytes
  put out (asm.c:845). A branch to `$ + n` is sized with the section another loop
  left in `current_section` (asm.c:1127), and a symbol equated to a later label
  lags a pass behind, whose move does not count as a change (asm.c:823): with
  `c equ b`, a branch to c and code that grows before `b:`, the passes end while
  the branch has a form that does not reach, though README.md:58 says that the
  generator iterates "as long as any of the references need truncation". README.md:59
  says that targets assure "that this iteration halts eventually": `a:`, some data,
  `.skip b-a`, `b:` asks for more in each pass, and no target is asked; the passes
  go on until the offsets are used up, in the code and in `AssembleX65` alike.
  A `.skip` by a distance below 0 asks for almost 2^64 bytes. A block that begins
  in one section and ends in another is accepted (a TODO says so, asm.c:1130): the offset after
  `.endtimes` is computed from that of `.times` (asm.c:832), so that a section
  that grows beneath the `.times` makes it less than it was in the pass before,
  and offsets are never lowered. Generation takes the rest of the other section
  for part of the block.
- *Generation.* A zeroed section refuses the bytes of instructions and data with a
  message and goes on, but they have been charged to the limit of a `.fill`, and
  what follows is before the place the layout gave it (asm.c:421). A `.skip` in an
  ELF or COFF section without PROGBITS that is not zeroed puts out nothing, though
  the layout counted it (asm.c:632).
- *Local labels.* `1f` followed by `1b` with no label 1 before them: the entry
  made for the first hides that there is no label, and the second becomes NULL
  (symbolic.c:851).
- *Macros.* The name of a call is freed though a stored body holds it
  (preprocess.c:338); the replacement to return to is taken before the arguments
  are read, which may free it (337); an argument that names a parameter of its
  macro is replaced once more (150). What follows `.endmacro` is taken for the end
  of its line whatever it is (88-92), and a definition that comes out of a macro
  takes its body from the file, whose lines are then not counted (93).
- *HEX.* hex32 beyond 64K: the base is written in a record whose unit is 16 bytes
  (hex.c:42).
- *Objects.* REL writes no relocation, since a size in bits is compared with 2
  (rel.c:304); OMF for the 8080 writes each block at offset 0 (omf.c:248); the
  32-bit case of the x86 ELF relocations tests for 64 (x86/isa.h:959); the walk
  that marks the register widths of a 65xx section goes on along the source
  instead of the section, and marks the instructions of other sections in this one
  (elf.c:168); the data records of OMF for the 8086 end each 1024 bytes, and cut a
  word in two that lies there, whose fixup then reaches past the end of its
  record, though a TODO says to make sure that this does not happen (omf.c:609); a
  COFF offset moves on only behind a section with bits, and the writers of COFF
  and ELF take the first block alone.
- *65xx.* PEA has MVN's opcode (x65/gen.h:536); the 65CE02 has two opcodes twice;
  the 65C816 inherits BBR, BBS, RMB and SMB; the bit number of these four never
  reaches the opcode, and their distance is not checked (x65/gen.c:277).
- *8080/Z80.* `register_prefix` has no entry for SP (x80/gen.c:204);
  `jp (ix+d)` drops d; a pattern without actions for the 8008 puts out zeros.
- *8089.* An 8-bit immediate is cut without a check, and a 16-bit distance to a
  label is always reported as truncated.

## 7. The plan

In this order; what is written has a tick.

1. [x] `Layout`, its runs and its first theorems.
2. [x] `Assemble` over `Layout`, and `Expansion` as the reference of its output.
3. [x] `Conditional` refines `IfStack`; `HexWriter` refines `MemoryImage`.
4. [x] `LocalLabels` refines `NearestLabel`, with proof.
5. [x] `Macro` against substitution as a recursive definition, with proof of what
   does not speak of it.
6. [x] `ObjectFile`: blocks, relocations and words, with proof; `RelWriter`,
   `OmfWriter`, `CoffWriter`, `ElfWriter` and their loaders.
7. [x] The 8080/Z80, 65xx and 8089 targets and `Encoding`.
8. [ ] `Definitions` (symbolic.c:77-172, asm.c:997-1053): externals, commons,
   globals, and what a later definition leaves of an earlier one.
9. [ ] `Expressions` (symbolic.c:174-757, integer.h), with TLC only, against the
   integers.
10. [ ] The matcher of x86/gen.c and its tables in the manner of the other
    targets; 6800/6809 and 4004/4040.
11. [ ] `ObjectFile` in place of `loc` and `image` in `Assemble`.

Theorems to come: `SymbolsFound` and `RelocationsFound` for COFF and ELF, from
the place of each symbol in the order of `Symbols`.

## 8. What is not modelled, and why

- *x86 pattern tables and encodings* (9000 lines of gen.c): planned (10). What
  layout needs of them is which of two lengths is taken, and that is in `Layout`.
- *6800/6809 and 4004/4040 tables*: the first is generated by 6809.py, the second
  a hundred lines of fixed lengths. Their relocations are in `RelocationTypes`.
- *The arithmetic of expressions* beyond sums and differences: pure functions
  over GMP, planned (9).
- *Symbol directives* (.extern, .global, .common, .import, .export): planned (8).
  A finished table is an input of `ObjectFile`.
- *Lexing, error texts, debug output, command line, file handling*: no property
  is about them. In `Macro` a token is a name or a mark; its text is not taken
  apart.
- *Memory*: allocation is taken to succeed; a model with unbounded sequences
  cannot see the growth of arrays (asm.c:501, which multiplies by the size of
  another member of the union).
- *Build scripts* (`ypp.py`, Makefiles), the generator `6809.py`, and the dummy
  target, which has no instructions.
