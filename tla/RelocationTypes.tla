-------------------------- MODULE RelocationTypes --------------------------
(***************************************************************************)
(* The hooks of the targets that choose the number of a relocation, and    *)
(* what the numbers mean to a linker.  -1 is a relocation the target has   *)
(* no number for.  r has the fields of relocation_t that the hooks read.   *)
(***************************************************************************)
EXTENDS Integers

Pick(table, key) == IF key \in DOMAIN table THEN table[key] ELSE -1

Key(r) == << r.size, r.pc_relative >>

Elf386 == (* R_386_... *)
  [k \in {8, 16, 32} \X BOOLEAN |->
     CASE k = <<8, FALSE>> -> 22 [] k = <<8, TRUE>> -> 23
       [] k = <<16, FALSE>> -> 20 [] k = <<16, TRUE>> -> 21
       [] k = <<32, FALSE>> -> 1 [] k = <<32, TRUE>> -> 2]

ElfX64 == (* R_X86_64_... *)
  [k \in {8, 16, 32, 64} \X BOOLEAN |->
     CASE k = <<8, FALSE>> -> 14 [] k = <<8, TRUE>> -> 15
       [] k = <<16, FALSE>> -> 12 [] k = <<16, TRUE>> -> 13
       [] k = <<32, FALSE>> -> 10 [] k = <<32, TRUE>> -> 2
       [] k = <<64, FALSE>> -> 1 [] k = <<64, TRUE>> -> 24]

(* The case for words of 32 bits has the label for 64 bits.                *)
Elf32X86(segments, r) ==
  CASE r.size = 16 /\ r.segment ->
         (CASE segments = "vma" -> 80 [] segments = "segelf" -> 45
            [] OTHER -> Elf386[16, FALSE])
    [] r.size \in {8, 16} /\ ~(r.size = 16 /\ r.segment) -> Elf386[Key(r)]
    [] r.size = 64 -> Elf386[32, r.pc_relative]
    [] r.size \notin {8, 16, 64} -> -1

(* Z80, MOS and M68HC11; a hint is a number the target already chose.      *)
ElfX80(r) ==
  CASE r.size = 8 /\ r.pc_relative -> 3
    [] r.size = 8 /\ ~r.pc_relative -> IF r.hint # 0 THEN r.hint ELSE 1
    [] r.size = 16 -> 4 [] r.size = 24 -> 5 [] r.size = 32 -> 6
    [] OTHER -> -1

ElfX65(r) ==
  CASE r.hint # 0 -> r.hint
    [] r.hint = 0 /\ r.size = 8 -> IF r.pc_relative THEN 6 ELSE 1
    [] r.hint = 0 /\ r.size = 16 -> IF r.pc_relative THEN 12 ELSE 16
    [] r.hint = 0 /\ r.size = 24 -> 7
    [] OTHER -> -1

Elf680x(r) ==
  CASE r.size = 8 -> IF r.pc_relative THEN 4 ELSE IF r.hint # 0 THEN r.hint ELSE 1
    [] r.size = 16 -> IF r.pc_relative THEN 8 ELSE 5
    [] r.size = 24 -> 11 [] r.size = 32 -> 6
    [] OTHER -> -1

ElfType(t, f, segments, r) ==
  CASE t = "x86" /\ f = "elf32" -> Elf32X86(segments, r)
    [] t = "x86" /\ f = "elf64" -> Pick(ElfX64, Key(r))
    [] t = "x80" -> ElfX80(r)
    [] t = "x65" -> ElfX65(r)
    [] t = "680x" -> Elf680x(r)
    [] OTHER -> 0

Coff386(r) ==
  CASE r.size = 16 -> IF r.segment THEN 9 ELSE IF r.pc_relative THEN 2 ELSE 1
    [] r.size = 32 -> IF r.pc_relative THEN 20 ELSE 6
    [] OTHER -> -1

CoffX64(r) ==
  CASE r.size = 32 -> IF r.pc_relative THEN 4 ELSE 2
    [] r.size = 64 -> 1
    [] OTHER -> -1

CoffX80(r) ==
  CASE r.size = 8 -> IF r.pc_relative THEN 2 ELSE IF r.hint = 2 THEN 50 ELSE 34
    [] r.size = 16 -> 1 [] r.size = 24 -> 51 [] r.size = 32 -> 17
    [] OTHER -> -1

CoffX65(r) ==
  CASE r.hint = 5 -> 4 [] r.hint = 8 -> 5
    [] r.hint \notin {5, 8} /\ r.size = 8 -> IF r.pc_relative THEN 8 ELSE 1
    [] r.hint \notin {5, 8} /\ r.size = 16 -> IF r.pc_relative THEN 9 ELSE 2
    [] r.hint \notin {5, 8} /\ r.size = 24 -> 3
    [] OTHER -> -1

CoffType(t, f, r) ==
  CASE t = "x86" /\ f = "win64" -> CoffX64(r)
    [] t = "x86" /\ f # "win64" -> Coff386(r)
    [] t = "x80" -> CoffX80(r)
    [] t = "x65" -> CoffX65(r)
    [] OTHER -> 0
=============================================================================
