---------------------------- MODULE ObjectProofs ----------------------------
(***************************************************************************)
(* Theorems about ObjectFile: for every program and every format, the      *)
(* blocks of a section hold what was put into it, in order and apart.      *)
(***************************************************************************)
EXTENDS ObjectFile, TLAPS

(* A sequence, of whatever elements.                                       *)
IsSeq(s) == \E S : s \in Seq(S)

(* A sequence is a function on 1 .. Len.                                   *)
LEMMA SeqIsFunction ==
  ASSUME NEW s, IsSeq(s)
  PROVE  Len(s) \in Nat /\ DOMAIN s = 1 .. Len(s)
  BY DEF IsSeq

(* A function on 1 .. n into S is a sequence over S.                       *)
LEMMA FunctionIsSeq ==
  ASSUME NEW n \in Nat, NEW f, f = [i \in 1 .. n |-> f[i]], NEW S, \A i \in 1 .. n : f[i] \in S
  PROVE  f \in Seq(S)
  OBVIOUS

(* The head and the tail of a sequence over S.                             *)
LEMMA HeadAndTail ==
  ASSUME NEW S, NEW s \in Seq(S), s # <<>>
  PROVE  Head(s) \in S /\ Tail(s) \in Seq(S)
  OBVIOUS

(* Append adds one element and keeps the others.                           *)
LEMMA SeqAppend ==
  ASSUME NEW s, IsSeq(s), NEW x
  PROVE  /\ IsSeq(Append(s, x)) /\ Len(Append(s, x)) = Len(s) + 1
         /\ DOMAIN Append(s, x) = DOMAIN s \cup {Len(s) + 1}
         /\ \A i \in DOMAIN s : Append(s, x)[i] = s[i]
         /\ Append(s, x)[Len(s) + 1] = x
<1>1. PICK S : s \in Seq(S)
  BY DEF IsSeq
<1>2. Append(s, x) \in Seq(S \cup {x})
  BY <1>1
<1> QED
  BY <1>1, <1>2 DEF IsSeq

(* An element is changed, and nothing else.                                *)
LEMMA SeqExcept ==
  ASSUME NEW s, IsSeq(s), NEW i \in DOMAIN s, NEW x
  PROVE  /\ IsSeq([s EXCEPT ![i] = x]) /\ Len([s EXCEPT ![i] = x]) = Len(s)
         /\ DOMAIN [s EXCEPT ![i] = x] = DOMAIN s
         /\ \A j \in DOMAIN s : [s EXCEPT ![i] = x][j] = IF j = i THEN x ELSE s[j]
<1>1. PICK S : s \in Seq(S)
  BY DEF IsSeq
<1>2. [s EXCEPT ![i] = x] \in Seq(S \cup {x})
  BY <1>1
<1> QED
  BY <1>1, <1>2 DEF IsSeq
-----------------------------------------------------------------------------
(* What a block is, and a section.                                         *)
Block == [address : Nat, bytes : Seq(0 .. 255)]

SectionType(sec) ==
  \E N, F, A, R :
    sec \in [name : N, flags : F, align : A, zero : BOOLEAN, full_size : Nat,
             current_address : Nat, blocks : Seq(Block), relocations : R]

(* Blocks are not empty and come in order, and a byte yet to come lies     *)
(* behind them: locations are never moved back.                            *)
InOrder(blocks, next) ==
  /\ \A i \in DOMAIN blocks : Len(blocks[i].bytes) > 0 /\ BlockEnd(blocks[i]) <= next
  /\ \A i, j \in DOMAIN blocks : i < j => BlockEnd(blocks[i]) < blocks[j].address

(* The span of the blocks, which full_size is.                             *)
Span(blocks) ==
  IF blocks = <<>> THEN 0 ELSE BlockEnd(blocks[Len(blocks)]) - blocks[1].address

(* The bytes of a block are in the memory m.                               *)
HoldsBlock(m, b) ==
  \A k \in DOMAIN b.bytes :
    LET a == b.address + k - 1 IN a \in DOMAIN m /\ m[a] = b.bytes[k]

(* The blocks hold the memory m, and nothing else.                         *)
Hold(blocks, m) ==
  /\ \A i \in DOMAIN blocks : HoldsBlock(m, blocks[i])
  /\ \A a \in DOMAIN m : \E i \in DOMAIN blocks : Covers(blocks[i], a)

(* A section whose blocks are its memory.                                  *)
SectionSound(sec, m) ==
  /\ SectionType(sec)
  /\ sec.zero => sec.blocks = <<>>
  /\ InOrder(sec.blocks, sec.current_address)
  /\ ~sec.zero => sec.full_size = Span(sec.blocks)
  /\ Hold(sec.blocks, m)

(* What a byte at a does to the blocks: one more block.                    *)
Opened(more, blocks, a, byte) ==
  /\ more \in Seq(Block) /\ Len(more) = Len(blocks) + 1
  /\ more[Len(blocks) + 1] = [address |-> a, bytes |-> <<byte>>]
  /\ \A i \in DOMAIN blocks : more[i] = blocks[i]

(* The memory with a byte more.                                            *)
MemoryWith(m, a, byte) == [b \in DOMAIN m \cup {a} |-> IF b = a THEN byte ELSE m[b]]

(* The blocks that come of it.                                             *)
Grown(more, blocks, a, byte, m) ==
  /\ more \in Seq(Block) /\ Len(more) > 0
  /\ InOrder(more, a + 1) /\ Hold(more, MemoryWith(m, a, byte))
  /\ BlockEnd(more[Len(more)]) = a + 1
  /\ blocks # <<>> => more[1].address = blocks[1].address
  /\ blocks = <<>> => more[1].address = a

(* No block ends where the byte goes.                                      *)
NoneEnds(blocks, a) == \A i \in DOMAIN blocks : BlockEnd(blocks[i]) # a

(* What is known of a block.                                               *)
LEMMA BlockFacts ==
  ASSUME NEW b \in Block
  PROVE  /\ b.address \in Nat /\ b.bytes \in Seq(0 .. 255) /\ Len(b.bytes) \in Nat
         /\ DOMAIN b.bytes = 1 .. Len(b.bytes)
         /\ BlockEnd(b) = b.address + Len(b.bytes) /\ BlockEnd(b) \in Nat
<1>1. b.address \in Nat /\ b.bytes \in Seq(0 .. 255)
  BY DEF Block
<1>2. Len(b.bytes) \in Nat /\ DOMAIN b.bytes = 1 .. Len(b.bytes)
  BY <1>1
<1> QED
  BY <1>1, <1>2 DEF BlockEnd

(* A byte behind a block leaves what the block holds.                      *)
LEMMA StillHolds ==
  ASSUME NEW b \in Block, NEW byte \in 0 .. 255, NEW a \in Nat, NEW m,
         HoldsBlock(m, b), BlockEnd(b) <= a
  PROVE  HoldsBlock(MemoryWith(m, a, byte), b)
<1>1. /\ DOMAIN b.bytes = 1 .. Len(b.bytes) /\ Len(b.bytes) \in Nat /\ b.address \in Nat
      /\ b.address + Len(b.bytes) <= a
  BY BlockFacts
<1> SUFFICES ASSUME NEW k \in DOMAIN b.bytes
             PROVE  LET c == b.address + k - 1
                    IN  c \in DOMAIN MemoryWith(m, a, byte)
                        /\ MemoryWith(m, a, byte)[c] = b.bytes[k]
  BY DEF HoldsBlock
<1>2. b.address + k - 1 # a
  BY <1>1
<1>3. b.address + k - 1 \in DOMAIN m /\ m[b.address + k - 1] = b.bytes[k]
  BY DEF HoldsBlock
<1> QED
  BY <1>2, <1>3 DEF MemoryWith

(* A block that gets one byte more ...                                     *)
Longer(b, old, byte) == b.address = old.address /\ b.bytes = Append(old.bytes, byte)

(* ... and what that makes of it.                                          *)
OneMore(b, old, byte) ==
  /\ BlockEnd(b) = BlockEnd(old) + 1
  /\ Len(b.bytes) = Len(old.bytes) + 1
  /\ b.bytes[Len(b.bytes)] = byte
  /\ b.address = old.address
  /\ \A k \in DOMAIN old.bytes : b.bytes[k] = old.bytes[k]

LEMMA Grows ==
  ASSUME NEW old \in Block, NEW b \in Block, NEW byte \in 0 .. 255, Longer(b, old, byte)
  PROVE  OneMore(b, old, byte)
<1> DEFINE s == old.bytes
           t == b.bytes
<1>1. IsSeq(s) /\ Len(s) \in Nat
  BY BlockFacts DEF IsSeq
<1>2. t = Append(s, byte) /\ b.address = old.address
  BY DEF Longer
<1>3. /\ BlockEnd(b) = b.address + Len(t) /\ BlockEnd(old) = old.address + Len(s)
      /\ old.address \in Nat
  BY BlockFacts
<1> HIDE DEF s, t
<1>4. /\ Len(t) = Len(s) + 1 /\ t[Len(s) + 1] = byte
      /\ \A k \in DOMAIN s : t[k] = s[k]
  BY <1>1, <1>2, SeqAppend
<1>5. BlockEnd(b) = BlockEnd(old) + 1
  <2>1. BlockEnd(b) = old.address + (Len(s) + 1)
    BY <1>2, <1>3, <1>4
  <2> QED
    BY <1>1, <1>3, <2>1
<1>6. t[Len(t)] = byte
  BY <1>4
<1> QED
  BY <1>2, <1>4, <1>5, <1>6 DEF OneMore, s, t

(* It holds the byte at the address behind the old one.                    *)
LEMMA GrownHolds ==
  ASSUME NEW old \in Block, NEW b \in Block, NEW byte \in 0 .. 255, NEW a \in Nat, NEW m,
         Longer(b, old, byte), BlockEnd(old) = a, HoldsBlock(m, old)
  PROVE  HoldsBlock(MemoryWith(m, a, byte), b)
<1>1. /\ Len(b.bytes) = Len(old.bytes) + 1 /\ b.bytes[Len(b.bytes)] = byte
      /\ b.address = old.address
      /\ \A j \in DOMAIN old.bytes : b.bytes[j] = old.bytes[j]
  <2>1. OneMore(b, old, byte)
    BY Grows
  <2> QED
    BY <2>1 DEF OneMore
<1>2. /\ DOMAIN b.bytes = 1 .. Len(b.bytes) /\ DOMAIN old.bytes = 1 .. Len(old.bytes)
      /\ Len(old.bytes) \in Nat /\ old.address \in Nat
      /\ old.address + Len(old.bytes) = a
  BY BlockFacts
<1> SUFFICES ASSUME NEW k \in DOMAIN b.bytes
             PROVE  LET c == b.address + k - 1
                    IN  c \in DOMAIN MemoryWith(m, a, byte)
                        /\ MemoryWith(m, a, byte)[c] = b.bytes[k]
  BY DEF HoldsBlock
<1>3. CASE k = Len(b.bytes)
  <2>1. b.address + k - 1 = a
    BY <1>1, <1>2, <1>3
  <2>2. b.bytes[k] = byte
    BY <1>1, <1>3
  <2> QED
    BY <2>1, <2>2 DEF MemoryWith
<1>4. CASE k # Len(b.bytes)
  <2>1. k \in DOMAIN old.bytes
    BY <1>1, <1>2, <1>4
  <2>2. b.address + k - 1 \in DOMAIN m /\ m[b.address + k - 1] = b.bytes[k]
    BY <1>1, <2>1 DEF HoldsBlock
  <2>3. b.address + k - 1 # a
    BY <1>1, <1>2, <2>1
  <2> QED
    BY <2>2, <2>3 DEF MemoryWith
<1> QED
  BY <1>3, <1>4

(* A byte where no block ends opens one ...                                *)
LEMMA Opens ==
  ASSUME NEW blocks \in Seq(Block), NEW a \in Nat, NEW byte \in 0 .. 255, NEW m,
         InOrder(blocks, a), Hold(blocks, m),
         NoneEnds(blocks, a), NEW more \in Seq(Block), Opened(more, blocks, a, byte)
  PROVE  Grown(more, blocks, a, byte, m)
<1> DEFINE n == Len(blocks)
           b == [address |-> a, bytes |-> <<byte>>]
<1>1. /\ b \in Block /\ Len(b.bytes) = 1 /\ b.bytes[1] = byte /\ BlockEnd(b) = a + 1
      /\ b.address = a /\ b.bytes \in Seq(0 .. 255) /\ DOMAIN b.bytes = 1 .. 1
  <2>1. <<byte>> \in Seq(0 .. 255) /\ Len(<<byte>>) = 1 /\ <<byte>>[1] = byte
    OBVIOUS
  <2> QED
    BY <2>1 DEF Block, BlockEnd
<1>2. /\ more \in Seq(Block) /\ Len(more) = n + 1 /\ n \in Nat /\ DOMAIN blocks = 1 .. n
      /\ DOMAIN more = 1 .. n + 1 /\ more[n + 1] = b
      /\ \A i \in 1 .. n : more[i] = blocks[i]
  <2>1. n \in Nat /\ DOMAIN blocks = 1 .. n
    OBVIOUS
  <2>2. /\ Len(more) = n + 1 /\ more[n + 1] = b
        /\ \A i \in DOMAIN blocks : more[i] = blocks[i]
    BY DEF Opened
  <2>3. DOMAIN more = 1 .. Len(more)
    OBVIOUS
  <2> QED
    BY <2>1, <2>2, <2>3
<1> HIDE DEF b
<1>3. \A i \in 1 .. n : /\ blocks[i].address \in Nat /\ blocks[i].bytes \in Seq(0 .. 255)
                        /\ BlockEnd(blocks[i]) \in Nat /\ BlockEnd(blocks[i]) < a
  <2> TAKE i \in 1 .. n
  <2>0. blocks[i] \in Block
    BY <1>2
  <2>1. blocks[i].address \in Nat /\ blocks[i].bytes \in Seq(0 .. 255)
    BY <2>0 DEF Block
  <2>2. BlockEnd(blocks[i]) \in Nat
    BY <2>1 DEF BlockEnd
  <2>3. BlockEnd(blocks[i]) <= a /\ BlockEnd(blocks[i]) # a
    BY <1>2 DEF InOrder, NoneEnds
  <2> QED
    BY <2>1, <2>2, <2>3
<1>4. InOrder(more, a + 1)
  <2>1. ASSUME NEW i \in 1 .. n + 1
        PROVE  Len(more[i].bytes) > 0 /\ BlockEnd(more[i]) <= a + 1
    <3>1. CASE i = n + 1
      BY <1>1, <1>2, <3>1
    <3>2. CASE i \in 1 .. n
      <4>1. Len(blocks[i].bytes) > 0
        BY <1>2, <3>2 DEF InOrder
      <4> QED
        BY <1>2, <1>3, <3>2, <4>1
    <3> QED
      BY <1>2, <3>1, <3>2
  <2>2. ASSUME NEW i \in 1 .. n + 1, NEW j \in 1 .. n + 1, i < j
        PROVE  BlockEnd(more[i]) < more[j].address
    <3>1. i \in 1 .. n /\ more[i] = blocks[i]
      BY <1>2, <2>2
    <3>2. CASE j = n + 1
      BY <1>1, <1>2, <1>3, <3>1, <3>2
    <3>3. CASE j \in 1 .. n
      BY <1>2, <2>2, <3>1, <3>3 DEF InOrder
    <3> QED
      BY <1>2, <3>2, <3>3
  <2> QED
    BY <1>2, <2>1, <2>2 DEF InOrder
<1>5. Hold(more, MemoryWith(m, a, byte))
  <2>1. ASSUME NEW i \in DOMAIN more
        PROVE  HoldsBlock(MemoryWith(m, a, byte), more[i])
    <3>1. CASE i = n + 1
      BY <1>1, <1>2, <2>1, <3>1 DEF MemoryWith, HoldsBlock
    <3>2. CASE i \in 1 .. n
      <4>0. HoldsBlock(m, blocks[i]) /\ blocks[i] \in Block /\ BlockEnd(blocks[i]) < a
        BY <1>2, <1>3, <3>2 DEF Hold
      <4>1. \A x \in Block : HoldsBlock(m, x) /\ BlockEnd(x) <= a
                             => HoldsBlock(MemoryWith(m, a, byte), x)
        BY StillHolds
      <4>2. BlockEnd(blocks[i]) <= a
        BY <1>2, <1>3, <3>2
      <4>3. HoldsBlock(MemoryWith(m, a, byte), blocks[i])
        BY <4>0, <4>1, <4>2
      <4> QED
        BY <1>2, <3>2, <4>3
    <3> QED
      BY <1>2, <2>1, <3>1, <3>2
  <2>2. ASSUME NEW c \in DOMAIN MemoryWith(m, a, byte)
        PROVE  \E i \in DOMAIN more : Covers(more[i], c)
    <3>1. CASE c = a
      BY <1>1, <1>2, <3>1 DEF Covers
    <3>2. CASE c \in DOMAIN m
      BY <1>2, <3>2 DEF Hold
    <3> QED
      BY <2>2, <3>1, <3>2 DEF MemoryWith
  <2> QED
    BY <2>1, <2>2 DEF Hold
<1> QED
  BY <1>1, <1>2, <1>4, <1>5 DEF Grown

(* A block is put in the place of another.                                 *)
Replaced(more, blocks, n, b) ==
  /\ more \in Seq(Block) /\ Len(more) = n
  /\ \A i \in 1 .. n : more[i] = IF i = n THEN b ELSE blocks[i]

(* ... and one where it ends makes it longer.                              *)
LEMMA Extends ==
  ASSUME NEW blocks \in Seq(Block), NEW a \in Nat, NEW byte \in 0 .. 255, NEW m,
         InOrder(blocks, a), Hold(blocks, m), NEW n \in Nat \ {0}, n = Len(blocks),
         BlockEnd(blocks[n]) = a, NEW b \in Block, Longer(b, blocks[n], byte),
         NEW more \in Seq(Block), Replaced(more, blocks, n, b)
  PROVE  Grown(more, blocks, a, byte, m)
<1>a. DOMAIN blocks = 1 .. n /\ \A i \in 1 .. n : blocks[i] \in Block
  OBVIOUS
<1>0. /\ DOMAIN blocks = 1 .. n /\ DOMAIN more = 1 .. n /\ Len(more) = n
      /\ \A i \in 1 .. n : /\ blocks[i] \in Block /\ more[i] \in Block
                            /\ more[i] = IF i = n THEN b ELSE blocks[i]
  BY <1>a DEF Replaced
<1>1. /\ BlockEnd(b) = a + 1 /\ Len(b.bytes) = Len(blocks[n].bytes) + 1
      /\ b.address = blocks[n].address
      /\ \A k \in DOMAIN blocks[n].bytes : b.bytes[k] = blocks[n].bytes[k]
  <2>1. blocks[n] \in Block
    BY <1>a
  <2>2. OneMore(b, blocks[n], byte)
    BY <2>1, Grows
  <2> QED
    BY <2>2 DEF OneMore
<1>2. \A i \in 1 .. n : /\ more[i].address = blocks[i].address
                        /\ more[i].address \in Nat /\ BlockEnd(more[i]) \in Nat
  <2>1. \A x \in Block : x.address \in Nat /\ BlockEnd(x) \in Nat
    BY BlockFacts
  <2> QED
    BY <1>0, <1>1, <2>1
<1>3. ASSUME NEW i \in 1 .. n
      PROVE  Len(more[i].bytes) > 0 /\ BlockEnd(more[i]) <= a + 1
  <2>1. Len(blocks[i].bytes) > 0 /\ BlockEnd(blocks[i]) <= a
    BY <1>0 DEF InOrder
  <2>2. CASE i = n
    <3>1. more[i] = b /\ Len(b.bytes) > 0
      BY <1>0, <1>1, <2>1, <2>2, BlockFacts
    <3> QED
      BY <1>1, <3>1
  <2>3. CASE i # n
    <3>1. more[i] = blocks[i] /\ BlockEnd(blocks[i]) \in Nat
      BY <1>0, <2>3, BlockFacts
    <3> QED
      BY <2>1, <3>1
  <2> QED
    BY <2>2, <2>3
<1>4. ASSUME NEW i \in 1 .. n, NEW j \in 1 .. n, i < j
      PROVE  BlockEnd(more[i]) < more[j].address
  <2>1. BlockEnd(blocks[i]) < blocks[j].address
    BY <1>0, <1>4 DEF InOrder
  <2>2. more[i] = blocks[i] /\ more[j].address = blocks[j].address
    BY <1>0, <1>2, <1>4
  <2> QED
    BY <2>1, <2>2
<1>5. InOrder(more, a + 1)
  BY <1>0, <1>3, <1>4 DEF InOrder
<1>6. ASSUME NEW i \in 1 .. n
      PROVE  HoldsBlock(MemoryWith(m, a, byte), more[i])
  <2>1. HoldsBlock(m, blocks[i]) /\ blocks[i] \in Block
    BY <1>0 DEF Hold
  <2>2. CASE i = n
    <3>1. more[i] = b
      BY <1>0, <2>2
    <3> QED
      <4>1. \A x \in Block : Longer(b, x, byte) /\ BlockEnd(x) = a /\ HoldsBlock(m, x)
                             => HoldsBlock(MemoryWith(m, a, byte), b)
        BY GrownHolds
      <4> QED
        BY <2>1, <2>2, <3>1, <4>1
  <2>3. CASE i # n
    <3>1. more[i] = blocks[i] /\ BlockEnd(blocks[i]) <= a
      BY <1>0, <2>3 DEF InOrder
    <3> QED
      <4>1. \A x \in Block : HoldsBlock(m, x) /\ BlockEnd(x) <= a
                             => HoldsBlock(MemoryWith(m, a, byte), x)
        BY StillHolds
      <4> QED
        BY <2>1, <3>1, <4>1
  <2> QED
    BY <2>2, <2>3
<1>7. ASSUME NEW c \in DOMAIN MemoryWith(m, a, byte)
      PROVE  \E i \in 1 .. n : Covers(more[i], c)
  <2>0. /\ blocks[n] \in Block /\ b.address \in Nat /\ b.address <= a
    <3>1. \A x \in Block : x.address \in Nat /\ BlockEnd(x) = x.address + Len(x.bytes)
                           /\ Len(x.bytes) \in Nat
      BY BlockFacts
    <3>2. blocks[n] \in Block
      BY <1>0
    <3>3. \A x, l \in Nat : x <= x + l
      OBVIOUS
    <3>4. blocks[n].address <= BlockEnd(blocks[n])
      BY <3>1, <3>2, <3>3
    <3> QED
      BY <1>1, <3>1, <3>2, <3>4
  <2>1. CASE c = a
    <3>1. Covers(b, a)
      BY <1>1, <2>0 DEF Covers
    <3> QED
      BY <1>0, <2>1, <3>1
  <2>2. CASE c \in DOMAIN m
    <3>1. PICK i \in 1 .. n : Covers(blocks[i], c)
      BY <1>0, <2>2 DEF Hold
    <3>2. CASE i = n
      <4>1. Covers(b, c)
        BY <1>1, <2>0, <3>1, <3>2 DEF Covers
      <4> QED
        BY <1>0, <3>2, <4>1
    <3>3. CASE i # n
      BY <1>0, <3>1, <3>3
    <3> QED
      BY <3>2, <3>3
  <2> QED
    BY <1>7, <2>1, <2>2 DEF MemoryWith
<1>8. Hold(more, MemoryWith(m, a, byte))
  BY <1>0, <1>6, <1>7 DEF Hold
<1>9. BlockEnd(more[n]) = a + 1 /\ more[1].address = blocks[1].address
  BY <1>0, <1>1, <1>2
<1> QED
  BY <1>0, <1>5, <1>8, <1>9 DEF Grown

(* The blocks of AppendByte.                                               *)
NewBlocks(blocks, a, byte) ==
  IF Len(blocks) = 0 \/ BlockEnd(blocks[Len(blocks)]) # a
  THEN Append(blocks, [address |-> a, bytes |-> <<byte>>])
  ELSE [blocks EXCEPT ![Len(blocks)].bytes = Append(@, byte)]

(* The full_size of AppendByte.                                            *)
NewSize(more, size) ==
  IF BlockEnd(more[Len(more)]) > more[1].address + size
  THEN BlockEnd(more[Len(more)]) - more[1].address ELSE size

(* The last block ends behind all others.                                  *)
LEMMA LastEnds ==
  ASSUME NEW blocks \in Seq(Block), NEW a \in Nat, InOrder(blocks, a),
         Len(blocks) = 0 \/ BlockEnd(blocks[Len(blocks)]) # a
  PROVE  NoneEnds(blocks, a)
<1> SUFFICES ASSUME NEW i \in DOMAIN blocks
             PROVE  BlockEnd(blocks[i]) # a
  BY DEF NoneEnds
<1> DEFINE n == Len(blocks)
<1>1. n \in Nat \ {0} /\ DOMAIN blocks = 1 .. n /\ \A j \in 1 .. n : blocks[j] \in Block
  OBVIOUS
<1>2. BlockEnd(blocks[n]) # a /\ BlockEnd(blocks[n]) <= a
  BY <1>1 DEF InOrder
<1>3. CASE i = n
  BY <1>2, <1>3
<1>4. CASE i # n
  <2>1. BlockEnd(blocks[i]) < blocks[n].address
    BY <1>1, <1>4 DEF InOrder
  <2>2. \A x \in Block : x.address \in Nat /\ BlockEnd(x) = x.address + Len(x.bytes)
                         /\ Len(x.bytes) \in Nat /\ BlockEnd(x) \in Nat
    BY BlockFacts
  <2>3. blocks[i] \in Block /\ blocks[n] \in Block
    BY <1>1
  <2> QED
    BY <1>2, <2>1, <2>2, <2>3
<1> QED
  BY <1>3, <1>4

(* What section_append does to the blocks.                                 *)
LEMMA BlocksGrow ==
  ASSUME NEW blocks \in Seq(Block), NEW a \in Nat, NEW byte \in 0 .. 255, NEW m,
         InOrder(blocks, a), Hold(blocks, m)
  PROVE  Grown(NewBlocks(blocks, a, byte), blocks, a, byte, m)
<1> DEFINE n == Len(blocks)
           opened == Append(blocks, [address |-> a, bytes |-> <<byte>>])
           b == [blocks[n] EXCEPT !.bytes = Append(@, byte)]
           longer == [blocks EXCEPT ![n] = b]
<1>1. CASE n = 0 \/ BlockEnd(blocks[n]) # a
  <2>1. NewBlocks(blocks, a, byte) = opened
    BY <1>1 DEF NewBlocks
  <2>2. [address |-> a, bytes |-> <<byte>>] \in Block
    <3>1. <<byte>> \in Seq(0 .. 255)
      OBVIOUS
    <3> QED
      BY <3>1 DEF Block
  <2>3. opened \in Seq(Block) /\ Opened(opened, blocks, a, byte)
    BY <2>2 DEF Opened
  <2> HIDE DEF opened
  <2>4. NoneEnds(blocks, a)
    BY <1>1, LastEnds
  <2> QED
    BY <2>1, <2>3, <2>4, Opens
<1>2. CASE ~(n = 0 \/ BlockEnd(blocks[n]) # a)
  <2>1. NewBlocks(blocks, a, byte) = longer
    BY <1>2 DEF NewBlocks
  <2>2. n \in Nat \ {0} /\ blocks[n] \in Block /\ BlockEnd(blocks[n]) = a
    BY <1>2
  <2>3. b \in Block /\ Longer(b, blocks[n], byte)
    <3>1. Append(blocks[n].bytes, byte) \in Seq(0 .. 255)
      BY <2>2 DEF Block
    <3> QED
      BY <2>2, <3>1 DEF Block, Longer
  <2> HIDE DEF b
  <2>4. longer \in Seq(Block) /\ Replaced(longer, blocks, n, b)
    BY <2>2, <2>3 DEF Replaced
  <2> HIDE DEF longer
  <2> QED
    BY <2>1, <2>2, <2>3, <2>4, Extends
<1> QED
  BY <1>1, <1>2

(* full_size grows with the span.                                          *)
LEMMA SizeGrows ==
  ASSUME NEW blocks \in Seq(Block), NEW a \in Nat, InOrder(blocks, a), NEW byte, NEW m,
         NEW more, Grown(more, blocks, a, byte, m)
  PROVE  NewSize(more, Span(blocks)) = Span(more) /\ Span(more) \in Nat
<1>g. /\ more \in Seq(Block) /\ Len(more) > 0 /\ more # <<>>
      /\ BlockEnd(more[Len(more)]) = a + 1
      /\ blocks # <<>> => more[1].address = blocks[1].address
      /\ blocks = <<>> => more[1].address = a
  BY DEF Grown
<1> DEFINE n == Len(blocks)
<1>1. \A x \in Block : x.address \in Nat /\ BlockEnd(x) \in Nat /\ x.address <= BlockEnd(x)
  <2>1. \A x \in Block : /\ x.address \in Nat /\ BlockEnd(x) = x.address + Len(x.bytes)
                         /\ Len(x.bytes) \in Nat
    BY BlockFacts
  <2> QED
    BY <2>1
<1>2. more[1] \in Block /\ more[1].address \in Nat
  <2>1. more[1] \in Block
    BY <1>g
  <2> QED
    BY <1>1, <2>1
<1>3. Span(more) = a + 1 - more[1].address
  BY <1>2, <1>g DEF Span
<1>4. CASE blocks = <<>>
  <2>1. Span(blocks) = 0 /\ more[1].address = a
    BY <1>4, <1>g DEF Span
  <2> QED
    BY <1>3, <1>g, <2>1 DEF NewSize
<1>5. CASE blocks # <<>>
  <2>1. blocks[1] \in Block /\ blocks[n] \in Block /\ n \in DOMAIN blocks
    BY <1>5
  <2>2. Span(blocks) = BlockEnd(blocks[n]) - more[1].address
    BY <1>5, <1>g DEF Span
  <2>3. BlockEnd(blocks[n]) <= a /\ BlockEnd(blocks[n]) \in Nat
    BY <1>1, <2>1 DEF InOrder
  <2>5. blocks[1].address <= BlockEnd(blocks[n])
    <3>1. CASE n = 1
      BY <1>1, <1>5, <1>g, <2>1, <2>3, <3>1
    <3>2. CASE n # 1
      <4>1. BlockEnd(blocks[1]) < blocks[n].address
        <5>1. n \in Nat /\ 1 < n /\ 1 \in DOMAIN blocks
          BY <2>1, <3>2
        <5> QED
          BY <2>1, <5>1 DEF InOrder
      <4> QED
        BY <1>1, <1>5, <1>g, <2>1, <2>3, <4>1
    <3> QED
      BY <3>1, <3>2
  <2>4. more[1].address <= a
    BY <1>2, <1>5, <1>g, <2>3, <2>5
  <2> QED
    <3>1. /\ Span(blocks) \in Nat /\ Span(more) \in Nat
          /\ BlockEnd(more[Len(more)]) > more[1].address + Span(blocks)
          /\ Span(more) = BlockEnd(more[Len(more)]) - more[1].address
      <4> DEFINE x == more[1].address
                 y == BlockEnd(blocks[n])
                 e == BlockEnd(more[Len(more)])
                 s == Span(blocks)
                 t == Span(more)
      <4>1. x \in Nat /\ y \in Nat /\ x <= a /\ y <= a /\ s = y - x
        BY <1>2, <2>2, <2>3, <2>4
      <4>2. x <= y
        BY <1>1, <1>2, <1>5, <1>g, <2>1, <2>5
      <4>3. e = a + 1 /\ t = a + 1 - x
        BY <1>3, <1>g
      <4> HIDE DEF x, y, e, s, t
      <4>4. s \in Nat /\ t \in Nat /\ e > x + s /\ t = e - x
        BY <4>1, <4>2, <4>3
      <4> QED
        BY <4>4 DEF x, e, s, t
    <3> QED
      BY <3>1 DEF NewSize
<1> QED
  BY <1>4, <1>5

(* The fields section_append sets.                                         *)
LEMMA AppendByteFields ==
  ASSUME NEW sec, SectionType(sec), sec.zero = FALSE, NEW byte,
         NewBlocks(sec.blocks, sec.current_address, byte) \in Seq(Block),
         NewSize(NewBlocks(sec.blocks, sec.current_address, byte), sec.full_size) \in Nat
  PROVE  LET after == AppendByte(sec, byte)
             more == NewBlocks(sec.blocks, sec.current_address, byte)
         IN  /\ SectionType(after) /\ after.blocks = more /\ after.zero = FALSE
             /\ after.current_address = sec.current_address + 1
             /\ after.full_size = NewSize(more, sec.full_size)
<1> DEFINE more == NewBlocks(sec.blocks, sec.current_address, byte)
           size == NewSize(more, sec.full_size)
<1>1. AppendByte(sec, byte) =
        [sec EXCEPT !.blocks = more, !.current_address = @ + 1, !.full_size = size]
  BY Zenon DEF AppendByte, NewBlocks, NewSize
<1> HIDE DEF more, size
<1>2. more \in Seq(Block) /\ size \in Nat
  BY DEF more, size
<1>3. LET after == [sec EXCEPT !.blocks = more, !.current_address = @ + 1, !.full_size = size]
      IN  /\ SectionType(after) /\ after.blocks = more /\ after.zero = FALSE
          /\ after.current_address = sec.current_address + 1 /\ after.full_size = size
  <2>1. PICK N, F, A, R :
          sec \in [name : N, flags : F, align : A, zero : BOOLEAN, full_size : Nat,
                   current_address : Nat, blocks : Seq(Block), relocations : R]
    BY DEF SectionType
  <2> DEFINE after == [sec EXCEPT !.blocks = more, !.current_address = @ + 1,
                                  !.full_size = size]
  <2>2. /\ after \in [name : N, flags : F, align : A, zero : BOOLEAN, full_size : Nat,
                      current_address : Nat, blocks : Seq(Block), relocations : R]
        /\ after.blocks = more /\ after.zero = FALSE
        /\ after.current_address = sec.current_address + 1 /\ after.full_size = size
    <3>1. /\ DOMAIN sec = {"name", "flags", "align", "zero", "full_size",
                           "current_address", "blocks", "relocations"}
          /\ sec.name \in N /\ sec.flags \in F /\ sec.align \in A /\ sec.zero \in BOOLEAN
          /\ sec.full_size \in Nat /\ sec.current_address \in Nat
          /\ sec.relocations \in R
      BY <2>1
    <3>2. /\ after.blocks = more /\ after.full_size = size /\ after.name = sec.name
          /\ after.flags = sec.flags /\ after.align = sec.align /\ after.zero = sec.zero
          /\ after.current_address = sec.current_address + 1
          /\ after.relocations = sec.relocations /\ DOMAIN after = DOMAIN sec
      BY <2>1, <3>1
    <3>3. after \in [name : N, flags : F, align : A, zero : BOOLEAN, full_size : Nat,
                      current_address : Nat, blocks : Seq(Block), relocations : R]
      <4> DEFINE T == [name : N, flags : F, align : A, zero : BOOLEAN, full_size : Nat,
                       current_address : Nat, blocks : Seq(Block), relocations : R]
                 next == sec.current_address + 1
                 one == [sec EXCEPT !.blocks = more]
                 two == [one EXCEPT !.current_address = next]
      <4>1. next \in Nat
        BY <3>1
      <4> HIDE DEF next
      <4>2. one \in T
        BY <1>2, <2>1
      <4> HIDE DEF one
      <4>3. two \in T
        BY <4>1, <4>2
      <4> HIDE DEF two
      <4>4. [two EXCEPT !.full_size = size] \in T
        BY <1>2, <4>3
      <4>5. after = [two EXCEPT !.full_size = size]
        BY <2>1 DEF one, two, next
      <4> QED
        BY <4>4, <4>5
    <3> QED
      BY <3>2, <3>3
  <2> HIDE DEF after
  <2>3. SectionType(after)
    BY <2>2 DEF SectionType
  <2> QED
    BY <2>2, <2>3 DEF after
<1> QED
  BY <1>1, <1>3 DEF more, size

(* section_append keeps a section sound.                                   *)
LEMMA AppendByteSound ==
  ASSUME NEW sec, NEW m, NEW byte \in 0 .. 255, SectionSound(sec, m), sec.zero = FALSE
  PROVE  /\ SectionSound(AppendByte(sec, byte), MemoryWith(m, sec.current_address, byte))
         /\ AppendByte(sec, byte).blocks # <<>>
         /\ AppendByte(sec, byte).zero = FALSE
<1> DEFINE a == sec.current_address
           more == NewBlocks(sec.blocks, a, byte)
           after == AppendByte(sec, byte)
<1>1. /\ SectionType(sec) /\ InOrder(sec.blocks, a) /\ Hold(sec.blocks, m)
      /\ sec.full_size = Span(sec.blocks)
  BY DEF SectionSound
<1>2. sec.blocks \in Seq(Block) /\ a \in Nat /\ sec.full_size \in Nat
  BY <1>1 DEF SectionType
<1>3. Grown(more, sec.blocks, a, byte, m)
  BY <1>1, <1>2, BlocksGrow
<1>4. NewSize(more, sec.full_size) = Span(more) /\ Span(more) \in Nat
  BY <1>1, <1>2, <1>3, SizeGrows
<1>5. more \in Seq(Block)
  BY <1>3 DEF Grown
<1>6. /\ SectionType(after) /\ after.blocks = more /\ after.zero = FALSE
      /\ after.current_address = a + 1 /\ after.full_size = Span(more)
  BY <1>1, <1>4, <1>5, AppendByteFields
<1> HIDE DEF more, after
<1>7. /\ InOrder(more, a + 1) /\ Hold(more, MemoryWith(m, a, byte)) /\ more # <<>>
  BY <1>3 DEF Grown
<1> QED
  BY <1>6, <1>7 DEF SectionSound, after
-----------------------------------------------------------------------------
(* The sections and what was put into them.                                *)
Sound(sections, memories) ==
  /\ IsSeq(sections) /\ IsSeq(memories) /\ Len(memories) = Len(sections)
  /\ \A s \in DOMAIN sections : SectionSound(sections[s], memories[s])

(* A section and its memory replaced by sound ones.                        *)
LEMMA SoundReplace ==
  ASSUME NEW sections, NEW memories, Sound(sections, memories),
         NEW c \in DOMAIN sections, NEW x, NEW y, SectionSound(x, y)
  PROVE  Sound([sections EXCEPT ![c] = x], [memories EXCEPT ![c] = y])
<1> DEFINE ss == [sections EXCEPT ![c] = x]
           ms == [memories EXCEPT ![c] = y]
<1>1. IsSeq(sections) /\ IsSeq(memories) /\ Len(memories) = Len(sections)
  BY DEF Sound
<1>2. DOMAIN memories = DOMAIN sections
  BY <1>1, SeqIsFunction
<1>3. /\ IsSeq(ss) /\ Len(ss) = Len(sections) /\ DOMAIN ss = DOMAIN sections
      /\ \A s \in DOMAIN sections : ss[s] = IF s = c THEN x ELSE sections[s]
  BY <1>1, SeqExcept
<1>4. /\ IsSeq(ms) /\ Len(ms) = Len(memories)
      /\ \A s \in DOMAIN sections : ms[s] = IF s = c THEN y ELSE memories[s]
  BY <1>1, <1>2, SeqExcept
<1> HIDE DEF ss, ms
<1>5. \A s \in DOMAIN ss : SectionSound(ss[s], ms[s])
  BY <1>3, <1>4 DEF Sound
<1> QED
  BY <1>1, <1>3, <1>4, <1>5 DEF Sound, ss, ms

(* A section replaced by one that is sound for the same memory.            *)
LEMMA SoundTouch ==
  ASSUME NEW sections, NEW memories, Sound(sections, memories),
         NEW c \in DOMAIN sections, NEW x, SectionSound(x, memories[c])
  PROVE  Sound([sections EXCEPT ![c] = x], memories)
<1> DEFINE ss == [sections EXCEPT ![c] = x]
<1>1. IsSeq(sections)
  BY DEF Sound
<1>2. /\ IsSeq(ss) /\ Len(ss) = Len(sections) /\ DOMAIN ss = DOMAIN sections
      /\ \A s \in DOMAIN sections : ss[s] = IF s = c THEN x ELSE sections[s]
  BY <1>1, SeqExcept
<1> HIDE DEF ss
<1>3. \A s \in DOMAIN ss : SectionSound(ss[s], memories[s])
  BY <1>2 DEF Sound
<1> QED
  BY <1>2, <1>3 DEF Sound, ss

(* One more section.                                                       *)
LEMMA SoundAppend ==
  ASSUME NEW sections, NEW memories, Sound(sections, memories),
         NEW x, NEW y, SectionSound(x, y)
  PROVE  Sound(Append(sections, x), Append(memories, y))
<1> DEFINE ss == Append(sections, x)
           ms == Append(memories, y)
           n == Len(sections)
<1>1. IsSeq(sections) /\ IsSeq(memories) /\ Len(memories) = n
  BY DEF Sound
<1>2. DOMAIN memories = DOMAIN sections
  BY <1>1, SeqIsFunction
<1>3. /\ IsSeq(ss) /\ Len(ss) = n + 1 /\ DOMAIN ss = DOMAIN sections \cup {n + 1}
      /\ \A s \in DOMAIN sections : ss[s] = sections[s]
      /\ ss[n + 1] = x
  BY <1>1, SeqAppend
<1>4. /\ IsSeq(ms) /\ Len(ms) = n + 1
      /\ \A s \in DOMAIN sections : ms[s] = memories[s]
      /\ ms[n + 1] = y
  BY <1>1, <1>2, SeqAppend
<1> HIDE DEF ss, ms
<1>5. \A s \in DOMAIN ss : SectionSound(ss[s], ms[s])
  BY <1>3, <1>4 DEF Sound
<1> QED
  BY <1>3, <1>4, <1>5 DEF Sound, ss, ms

(* A section that is moved forward, or gets a relocation, stays sound.     *)
LEMMA TouchSound ==
  ASSUME NEW sec, NEW m, SectionSound(sec, m), NEW x, SectionType(x),
         x.blocks = sec.blocks, x.zero = sec.zero,
         sec.zero = FALSE => x.full_size = sec.full_size,
         sec.current_address <= x.current_address
  PROVE  SectionSound(x, m)
<1>1. /\ sec.blocks \in Seq(Block) /\ sec.zero \in BOOLEAN
      /\ sec.current_address \in Nat /\ x.current_address \in Nat
  BY DEF SectionSound, SectionType
<1>2. InOrder(sec.blocks, x.current_address)
  <2>1. InOrder(sec.blocks, sec.current_address)
    BY DEF SectionSound
  <2>2. ASSUME NEW i \in DOMAIN sec.blocks
        PROVE  BlockEnd(sec.blocks[i]) <= x.current_address
    <3>1. sec.blocks[i] \in Block
      BY <1>1
    <3>2. \A b \in Block : BlockEnd(b) \in Nat
      BY BlockFacts
    <3>3. BlockEnd(sec.blocks[i]) <= sec.current_address
      BY <2>1 DEF InOrder
    <3> QED
      BY <1>1, <3>1, <3>2, <3>3
  <2> QED
    BY <2>1, <2>2 DEF InOrder
<1> QED
  BY <1>1, <1>2 DEF SectionSound

(* A new section is empty.                                                 *)
LEMMA NewSectionSound ==
  ASSUME NEW d PROVE SectionSound(NewSection(d), <<>>)
<1> DEFINE x == NewSection(d)
<1>1. /\ x.blocks = <<>> /\ x.full_size = 0 /\ x.current_address = 0
      /\ SectionType(x)
  <2>1. x \in [name : {x.name}, flags : {x.flags}, align : {x.align}, zero : BOOLEAN,
               full_size : Nat, current_address : Nat, blocks : Seq(Block),
               relocations : {<<>>}]
    BY DEF NewSection
  <2>2. SectionType(x)
    BY <2>1 DEF SectionType
  <2> QED
    BY <2>2 DEF NewSection
<1> HIDE DEF x
<1>2. InOrder(<<>>, 0) /\ Span(<<>>) = 0 /\ Hold(<<>>, <<>>)
  BY DEF InOrder, Span, Hold
<1> QED
  BY <1>1, <1>2 DEF SectionSound, x
-----------------------------------------------------------------------------
(* The inductive invariant.  A word may only follow a byte of its section  *)
(* (fresh), so the last block that Bias looks at exists.                   *)
ObjInv ==
  /\ Sound(section, memory)
  /\ queue \in Seq(0 .. 255)
  /\ current_section \in Nat \ {0}
  /\ queue # <<>> => current_section \in DOMAIN section
  /\ fresh => /\ current_section \in DOMAIN section
              /\ section[current_section].zero = FALSE
              /\ section[current_section].blocks # <<>>
  /\ \E b \in Builds : target = b[1]

(* A word is cut into bytes, whatever its value.                           *)
LEMMA BitsAtNat ==
  ASSUME NEW size \in Nat, NEW order \in {"LE", "BE", "PE"}, NEW i \in 1 .. size \div 8
  PROVE  BitsAt(8 * (i - 1), size, order) \in Nat
<1> DEFINE offset == 8 * (i - 1)
<1>1. offset \in Nat /\ offset + 8 <= size
  OBVIOUS
<1>2. CASE order \in {"LE", "BE"}
  BY <1>1, <1>2 DEF BitsAt
<1>3. CASE order = "PE"
  <2>1. CASE size % 16 # 0
    BY <1>1, <1>3, <2>1 DEF BitsAt
  <2>2. CASE size % 16 = 0 /\ offset % 16 = 0
    <3>1. offset + 16 <= size
      BY <1>1, <2>2
    <3> QED
      BY <1>1, <1>3, <2>2, <3>1 DEF BitsAt
  <2>3. CASE size % 16 = 0 /\ offset % 16 # 0
    BY <1>1, <1>3, <2>3 DEF BitsAt
  <2> QED
    BY <2>1, <2>2, <2>3
<1> QED
  BY <1>2, <1>3

(* Field yields bytes.                                                     *)
LEMMA FieldIsBytes ==
  ASSUME NEW value \in Int, NEW size \in Nat, NEW order \in {"LE", "BE", "PE", "none"}
  PROVE  Field(value, size, order) \in Seq(0 .. 255)
<1> DEFINE n == size \div 8
<1>1. n \in Nat
  OBVIOUS
<1>2. ASSUME NEW i \in 1 .. n
      PROVE  Field(value, size, order)[i] \in 0 .. 255
  <2>1. CASE order = "none"
    BY <2>1 DEF Field
  <2>2. CASE order # "none"
    <3> DEFINE k == BitsAt(8 * (i - 1), size, order)
    <3>1. k \in Nat
      BY <2>2, BitsAtNat
    <3>2. Field(value, size, order)[i] = (value \div 2 ^ k) % 256
      BY <2>2 DEF Field
    <3> HIDE DEF k
    <3>3. (value \div 2 ^ k) % 256 \in 0 .. 255
      BY <3>1
    <3> QED
      BY <3>2, <3>3
  <2> QED
    BY <2>1, <2>2
<1> DEFINE f == Field(value, size, order)
<1>3. f = [i \in 1 .. n |-> f[i]]
  BY DEF Field
<1> HIDE DEF f, n
<1>4. \A i \in 1 .. n : f[i] \in 0 .. 255
  BY <1>2 DEF f
<1>5. f \in Seq(0 .. 255)
  BY <1>1, <1>3, <1>4, FunctionIsSeq
<1> QED
  BY <1>5 DEF f

(* The bias of a fresh section is a number.                                *)
LEMMA BiasIsInt ==
  ASSUME NEW sec, NEW m, SectionSound(sec, m), sec.zero = FALSE, sec.blocks # <<>>,
         NEW ref, NEW size \in Nat
  PROVE  Bias(sec, ref, size) \in Int
<1>1. sec.blocks \in Seq(Block)
  BY DEF SectionSound, SectionType
<1>2. sec.blocks[Len(sec.blocks)] \in Block
  BY <1>1
<1>3. CurrentOffset(sec) \in Nat
  BY <1>2, BlockFacts DEF CurrentOffset
<1> QED
  BY <1>3 DEF Bias

(* Nothing is declared yet.                                                *)
LEMMA InitInv == Init => ObjInv
<1> SUFFICES ASSUME Init PROVE ObjInv
  OBVIOUS
<1>1. Sound(<<>>, <<>>)
  <2>1. <<>> \in Seq({})
    OBVIOUS
  <2>2. IsSeq(<<>>)
    BY <2>1 DEF IsSeq
  <2> QED
    BY <2>2 DEF Sound
<1> QED
  BY <1>1 DEF Init, ObjInv

(* A .section directive adds an empty section, or none.                    *)
LEMMA DeclareInv == ObjInv /\ Declare => ObjInv'
<1> SUFFICES ASSUME ObjInv, Declare PROVE ObjInv'
  OBVIOUS
<1> DEFINE d == Head(directives)
           x == NewSection(d)
<1>1. Sound(section, memory) /\ IsSeq(section)
  BY DEF ObjInv, Sound
<1>2. CASE \E i \in DOMAIN section : section[i].name = d.name
  <2>1. section' = section /\ memory' = memory
    BY <1>2 DEF Declare, LocateSection
  <2> QED
    BY <2>1 DEF ObjInv, Declare
<1>3. CASE ~\E i \in DOMAIN section : section[i].name = d.name
  <2>1. section' = Append(section, x)
    BY <1>3 DEF Declare, LocateSection
  <2>2. /\ Len(section') = Len(section) + 1 /\ Len(section) \in Nat
        /\ DOMAIN section' = DOMAIN section \cup {Len(section) + 1}
        /\ \A i \in DOMAIN section : section'[i] = section[i]
    BY <1>1, <2>1, SeqAppend, SeqIsFunction
  <2>3. memory' = Append(memory, <<>>)
    BY <2>2 DEF Declare
  <2>4. Sound(section', memory')
    <3>1. SectionSound(x, <<>>)
      BY NewSectionSound
    <3> HIDE DEF x
    <3> QED
      BY <1>1, <2>1, <2>3, <3>1, SoundAppend
  <2> QED
    BY <2>2, <2>4 DEF ObjInv, Declare
<1> QED
  BY <1>2, <1>3

(* The byte of an opcode is queued.                                        *)
LEMMA ByteInv == ASSUME NEW b \in Bytes, ObjInv, Byte(b) PROVE ObjInv'
<1>1. b \in 0 .. 255
  BY ObjectAssumption
<1> QED
  BY <1>1 DEF ObjInv, Byte, StartsItem, Keep

(* The queued byte goes to the end of its section.                         *)
LEMMA OutputByteInv == ObjInv /\ OutputByte => ObjInv'
<1> SUFFICES ASSUME ObjInv, OutputByte PROVE ObjInv'
  OBVIOUS
<1> DEFINE c == current_section
           byte == Head(queue)
<1>1. /\ c \in DOMAIN section /\ byte \in 0 .. 255 /\ queue' \in Seq(0 .. 255)
      /\ c' = c /\ target' = target /\ Sound(section, memory) /\ Here = section[c]
      /\ section' = [section EXCEPT ![c] = AppendByte(section[c], byte)]
  <2>1. queue # <<>> /\ queue \in Seq(0 .. 255)
    BY DEF ObjInv, OutputByte
  <2>2. byte \in 0 .. 255 /\ Tail(queue) \in Seq(0 .. 255)
    BY <2>1, HeadAndTail
  <2>3. c \in DOMAIN section /\ Sound(section, memory)
    BY <2>1 DEF ObjInv
  <2>4. section' = [section EXCEPT ![c] = AppendByte(section[c], byte)]
    BY DEF OutputByte
  <2>5. queue' = Tail(queue) /\ c' = c /\ target' = target
    BY DEF OutputByte, Keep
  <2> QED
    BY <2>2, <2>3, <2>4, <2>5 DEF Here
<1>2. /\ SectionSound(section[c], memory[c]) /\ IsSeq(section) /\ section[c].zero \in BOOLEAN
  BY <1>1 DEF Sound, SectionSound, SectionType
<1>3. /\ DOMAIN section' = DOMAIN section /\ section'[c] = AppendByte(section[c], byte)
  BY <1>1, <1>2, SeqExcept
<1>4. CASE section[c].zero = FALSE
  <2>1. memory' = [memory EXCEPT ![c] =
                     MemoryWith(memory[c], section[c].current_address, byte)]
    BY <1>1, <1>4 DEF OutputByte, MemoryWith
  <2>2. /\ SectionSound(AppendByte(section[c], byte),
                        MemoryWith(memory[c], section[c].current_address, byte))
        /\ AppendByte(section[c], byte).blocks # <<>>
        /\ AppendByte(section[c], byte).zero = FALSE
    BY <1>1, <1>2, <1>4, AppendByteSound
  <2>3. Sound(section', memory')
    BY <1>1, <2>1, <2>2, SoundReplace
  <2> QED
    BY <1>1, <1>3, <2>2, <2>3 DEF ObjInv
<1>5. CASE section[c].zero = TRUE
  <2>1. memory' = memory /\ fresh' = FALSE
    BY <1>1, <1>5 DEF OutputByte
  <2>2. AppendByte(section[c], byte) = section[c]
    BY <1>5 DEF AppendByte
  <2>3. Sound(section', memory')
    BY <1>1, <1>2, <2>1, <2>2, SoundTouch
  <2> QED
    BY <1>1, <1>3, <2>1, <2>3 DEF ObjInv
<1> QED
  BY <1>2, <1>4, <1>5

(* A word adds its relocation and queues its bytes.                        *)
LEMMA OutputWordInv ==
  ASSUME ObjInv, NEW ref \in References[target], NEW w \in Words[target],
         OutputWord(ref, w[1], w[2], w[3])
  PROVE  ObjInv'
<1> DEFINE c == current_section
           size == w[1]
           pcrel == w[2]
           order == w[3]
           next == section[c].current_address + size \div 8
           relocated == NeedsRelocation(ref, pcrel)
           value == (IF pcrel THEN ref.value - next ELSE ref.value)
                    + (IF pcrel /\ relocated THEN Bias(section[c], ref, size) ELSE 0)
           left == IF relocated THEN Residue(value) ELSE value
           relocation == [offset |-> section[c].current_address, size |-> size,
                          pc_relative |-> pcrel, var |-> ref, addend |-> value,
                          segment |-> ref.segment, wrt_section |-> ref.wrt,
                          hint |-> ref.hint]
           touched == [section[c] EXCEPT !.relocations = Append(@, relocation)]
<1>1. ref.value \in Int /\ size \in Nat /\ order \in {"LE", "BE", "PE", "none"}
  BY ObjectAssumption DEF ObjInv
<1>2. /\ c \in DOMAIN section /\ Sound(section, memory) /\ IsSeq(section)
      /\ c' = c /\ target' = target /\ fresh' = fresh /\ memory' = memory
      /\ pcrel => fresh
  BY DEF ObjInv, Sound, OutputWord, StartsItem, Keep
<1>3. /\ SectionSound(section[c], memory[c]) /\ SectionType(section[c])
      /\ section[c].current_address \in Nat
  <2>1. SectionSound(section[c], memory[c])
    BY <1>2 DEF Sound
  <2>2. SectionType(section[c])
    BY <2>1 DEF SectionSound
  <2> QED
    BY <2>1, <2>2 DEF SectionType
<1>4. value \in Int
  <2>1. CASE pcrel
    <3>1. Bias(section[c], ref, size) \in Int
      BY <1>1, <1>2, <1>3, <2>1, BiasIsInt DEF ObjInv
    <3>2. next \in Int
      BY <1>1, <1>3
    <3> HIDE DEF next, relocated
    <3> QED
      BY <1>1, <2>1, <3>1, <3>2
  <2>2. CASE ~pcrel
    BY <1>1, <2>2
  <2> QED
    BY <2>1, <2>2
<1>5. /\ section' = IF relocated THEN [section EXCEPT ![c] = touched] ELSE section
      /\ queue' = Field(left, size, order)
  BY DEF OutputWord, Here
<1> HIDE DEF value, relocation, relocated, size, order
<1>6. queue' \in Seq(0 .. 255)
  <2>1. left \in Int
    BY <1>4 DEF Residue
  <2> HIDE DEF left
  <2> QED
    BY <1>1, <1>5, <2>1, FieldIsBytes
<1>7. /\ SectionType(touched) /\ touched.blocks = section[c].blocks
      /\ touched.zero = section[c].zero /\ touched.full_size = section[c].full_size
      /\ touched.current_address = section[c].current_address
  <2>1. PICK N, F, A, R :
          section[c] \in [name : N, flags : F, align : A, zero : BOOLEAN, full_size : Nat,
                          current_address : Nat, blocks : Seq(Block), relocations : R]
    BY <1>3 DEF SectionType
  <2> DEFINE list == Append(section[c].relocations, relocation)
  <2>2. touched = [section[c] EXCEPT !.relocations = list]
    OBVIOUS
  <2> HIDE DEF list
  <2>3. /\ touched \in [name : N, flags : F, align : A, zero : BOOLEAN, full_size : Nat,
                        current_address : Nat, blocks : Seq(Block), relocations : {list}]
        /\ touched.blocks = section[c].blocks
        /\ touched.zero = section[c].zero /\ touched.full_size = section[c].full_size
        /\ touched.current_address = section[c].current_address
    BY <2>1, <2>2
  <2> HIDE DEF touched
  <2>4. SectionType(touched)
    BY <2>3 DEF SectionType
  <2> QED
    BY <2>3, <2>4
<1> HIDE DEF touched
<1>8. SectionSound(touched, memory[c])
  <2>1. section[c].current_address <= touched.current_address
    BY <1>3, <1>7
  <2> QED
    BY <1>3, <1>7, <2>1, TouchSound
<1>9. Sound([section EXCEPT ![c] = touched], memory)
  BY <1>2, <1>8, SoundTouch
<1>10. /\ DOMAIN [section EXCEPT ![c] = touched] = DOMAIN section
       /\ [section EXCEPT ![c] = touched][c] = touched
  BY <1>2, SeqExcept
<1>11. Sound(section', memory') /\ DOMAIN section' = DOMAIN section
  BY <1>2, <1>5, <1>9, <1>10
<1>12. section'[c].zero = section[c].zero /\ section'[c].blocks = section[c].blocks
  BY <1>5, <1>7, <1>10
<1> QED
  BY <1>2, <1>6, <1>11, <1>12 DEF ObjInv

(* Another address or size leaves a section typed.                         *)
LEMMA MovedType ==
  ASSUME NEW sec, SectionType(sec), NEW a \in Nat, NEW size \in Nat
  PROVE  /\ SectionType([sec EXCEPT !.current_address = a])
         /\ SectionType([sec EXCEPT !.full_size = size])
         /\ [sec EXCEPT !.current_address = a].current_address = a
         /\ [sec EXCEPT !.current_address = a].full_size = sec.full_size
         /\ [sec EXCEPT !.current_address = a].zero = sec.zero
         /\ [sec EXCEPT !.current_address = a].blocks = sec.blocks
         /\ [sec EXCEPT !.full_size = size].current_address = sec.current_address
         /\ [sec EXCEPT !.full_size = size].zero = sec.zero
         /\ [sec EXCEPT !.full_size = size].blocks = sec.blocks
<1>1. PICK N, F, A, R :
        sec \in [name : N, flags : F, align : A, zero : BOOLEAN, full_size : Nat,
                 current_address : Nat, blocks : Seq(Block), relocations : R]
  BY DEF SectionType
<1> DEFINE T == [name : N, flags : F, align : A, zero : BOOLEAN, full_size : Nat,
                 current_address : Nat, blocks : Seq(Block), relocations : R]
           moved == [sec EXCEPT !.current_address = a]
           sized == [sec EXCEPT !.full_size = size]
<1>2. moved \in T /\ sized \in T
  BY <1>1
<1>3. SectionType(moved) /\ SectionType(sized)
  <2> HIDE DEF moved, sized
  <2> QED
    BY <1>2 DEF SectionType
<1>4. /\ moved.current_address = a /\ moved.full_size = sec.full_size
      /\ moved.zero = sec.zero /\ moved.blocks = sec.blocks
      /\ sized.current_address = sec.current_address
      /\ sized.zero = sec.zero /\ sized.blocks = sec.blocks
  BY <1>1
<1> QED
  BY <1>3, <1>4

(* The current section moved forward, or grown when it holds no bytes.     *)
LEMMA MovedSound ==
  ASSUME Sound(section, memory), NEW c \in DOMAIN section, NEW count \in Nat
  PROVE  /\ Sound([section EXCEPT ![c].current_address = @ + count], memory)
         /\ section[c].zero => Sound([section EXCEPT ![c].full_size = @ + count], memory)
<1> DEFINE sec == section[c]
           moved == [sec EXCEPT !.current_address = @ + count]
           sized == [sec EXCEPT !.full_size = @ + count]
<1>1. SectionSound(sec, memory[c]) /\ SectionType(sec)
  BY DEF Sound, SectionSound
<1>2. sec.current_address \in Nat /\ sec.full_size \in Nat /\ sec.zero \in BOOLEAN
  BY <1>1 DEF SectionType
<1> HIDE DEF sec
<1>3. /\ SectionType(moved) /\ moved.blocks = sec.blocks /\ moved.zero = sec.zero
      /\ moved.full_size = sec.full_size /\ sec.current_address <= moved.current_address
  <2> DEFINE x == sec.current_address + count
  <2>1. x \in Nat /\ sec.current_address <= x
    BY <1>2
  <2>2. moved = [sec EXCEPT !.current_address = x]
    OBVIOUS
  <2> HIDE DEF x, moved
  <2>3. /\ SectionType([sec EXCEPT !.current_address = x])
        /\ [sec EXCEPT !.current_address = x].blocks = sec.blocks
        /\ [sec EXCEPT !.current_address = x].zero = sec.zero
        /\ [sec EXCEPT !.current_address = x].full_size = sec.full_size
        /\ [sec EXCEPT !.current_address = x].current_address = x
    BY <1>1, <2>1, MovedType
  <2> QED
    BY <2>1, <2>2, <2>3
<1>4. /\ SectionType(sized) /\ sized.blocks = sec.blocks /\ sized.zero = sec.zero
      /\ sec.current_address <= sized.current_address
  <2> DEFINE x == sec.full_size + count
  <2>1. x \in Nat
    BY <1>2
  <2>2. sized = [sec EXCEPT !.full_size = x]
    OBVIOUS
  <2> HIDE DEF x, sized
  <2>3. /\ SectionType([sec EXCEPT !.full_size = x])
        /\ [sec EXCEPT !.full_size = x].blocks = sec.blocks
        /\ [sec EXCEPT !.full_size = x].zero = sec.zero
        /\ [sec EXCEPT !.full_size = x].current_address = sec.current_address
    BY <1>1, <2>1, MovedType
  <2> QED
    BY <1>2, <2>2, <2>3
<1> HIDE DEF moved, sized
<1>5. SectionSound(moved, memory[c])
  BY <1>1, <1>3, TouchSound
<1>6. sec.zero => SectionSound(sized, memory[c])
  BY <1>1, <1>4, TouchSound
<1>7. /\ Sound([section EXCEPT ![c] = moved], memory)
      /\ sec.zero => Sound([section EXCEPT ![c] = sized], memory)
  BY <1>5, <1>6, SoundTouch
<1> QED
  BY <1>7 DEF moved, sized, sec

(* Neither does it change which sections there are.                        *)
LEMMA MovedDomain ==
  ASSUME Sound(section, memory), NEW c \in DOMAIN section, NEW count
  PROVE  /\ DOMAIN [section EXCEPT ![c].current_address = @ + count] = DOMAIN section
         /\ DOMAIN [section EXCEPT ![c].full_size = @ + count] = DOMAIN section
  BY DEF Sound, IsSeq

(* .org moves the section forward, or does nothing.                        *)
LEMMA SetLocationInv == ASSUME NEW by \in Moves, ObjInv, SetLocation(by) PROVE ObjInv'
<1>1. by \in Nat
  BY ObjectAssumption
<1>2. /\ current_section \in DOMAIN section /\ Sound(section, memory)
      /\ fresh' = FALSE /\ queue' = queue /\ memory' = memory /\ target' = target
      /\ current_section' = current_section
  BY DEF ObjInv, SetLocation, StartsItem, Keep
<1>3. Sound(section', memory')
  BY <1>1, <1>2, MovedSound DEF SetLocation
<1>4. DOMAIN section' = DOMAIN section
  BY <1>1, <1>2, MovedDomain DEF SetLocation
<1> QED
  BY <1>2, <1>3, <1>4 DEF ObjInv

(* .skip moves the section, grows an empty one, or queues a fill.          *)
LEMMA OutputSkipInv == ASSUME NEW count \in Skips, ObjInv, OutputSkip(count) PROVE ObjInv'
<1>1. count \in Nat
  BY ObjectAssumption
<1>2. /\ current_section \in DOMAIN section /\ Sound(section, memory)
      /\ fresh' = FALSE /\ memory' = memory /\ target' = target
      /\ current_section' = current_section
  BY DEF ObjInv, OutputSkip, StartsItem, Keep
<1>3. Sound(section', memory')
  BY <1>1, <1>2, MovedSound DEF OutputSkip, Here
<1>4. DOMAIN section' = DOMAIN section
  BY <1>1, <1>2, MovedDomain DEF OutputSkip, Here
<1>5. queue' \in Seq(0 .. 255)
  <2>1. NopByte \in 0 .. 255 /\ 0 \in 0 .. 255
    BY DEF NopByte
  <2> DEFINE fill == IF "exec" \in Here.flags THEN NopByte ELSE 0
  <2>2. fill \in 0 .. 255
    BY <2>1
  <2>3. queue' = [i \in 1 .. count |-> fill] \/ queue' = <<>>
    BY DEF OutputSkip
  <2> HIDE DEF fill
  <2>4. [i \in 1 .. count |-> fill] \in Seq(0 .. 255) /\ <<>> \in Seq(0 .. 255)
    BY <1>1, <2>2
  <2> QED
    BY <2>3, <2>4
<1> QED
  BY <1>2, <1>3, <1>4, <1>5 DEF ObjInv

(* Every step keeps the invariant, one case per action.                    *)
LEMMA StepInv == ObjInv /\ [Next]_vars => ObjInv'
<1> SUFFICES ASSUME ObjInv, [Next]_vars PROVE ObjInv'
  OBVIOUS
<1>1. CASE Declare
  BY <1>1, DeclareInv
<1>2. CASE Generate
  BY <1>2 DEF ObjInv, Generate
<1>3. ASSUME NEW b \in Bytes, Byte(b) PROVE ObjInv'
  BY <1>3, ByteInv
<1>4. CASE OutputByte
  BY <1>4, OutputByteInv
<1>5. ASSUME NEW r \in References[target], NEW w \in Words[target],
             OutputWord(r, w[1], w[2], w[3])
      PROVE  ObjInv'
  BY <1>5, OutputWordInv
<1>6. ASSUME NEW n \in Moves, SetLocation(n) PROVE ObjInv'
  BY <1>6, SetLocationInv
<1>7. ASSUME NEW n \in Skips, OutputSkip(n) PROVE ObjInv'
  BY <1>7, OutputSkipInv
<1>8. CASE NextSection
  BY <1>8 DEF ObjInv, NextSection, Keep
<1>9. CASE Write
  BY <1>9 DEF ObjInv, Write
<1>10. CASE UNCHANGED vars
  BY <1>10 DEF ObjInv, vars
<1> QED
  BY <1>1, <1>2, <1>3, <1>4, <1>5, <1>6, <1>7, <1>8, <1>9, <1>10
     DEF Next, Fill, Done

(* The invariant says what the two properties say.                         *)
LEMMA InvSound == ObjInv => TypeOK /\ BlocksSound
<1> SUFFICES ASSUME ObjInv PROVE TypeOK /\ BlocksSound
  OBVIOUS
<1>1. ASSUME NEW s \in DOMAIN section
      PROVE  /\ SectionType(section[s]) /\ SectionSound(section[s], memory[s])
  BY DEF ObjInv, Sound, SectionSound
<1>2. TypeOK
  <2>1. ASSUME NEW s \in DOMAIN section
        PROVE  /\ section[s].full_size \in Nat /\ section[s].current_address \in Nat
               /\ section[s].blocks \in Seq([address : Nat, bytes : Seq(0 .. 255)])
    BY <1>1 DEF SectionType, Block
  <2> QED
    BY <2>1 DEF ObjInv, TypeOK
<1>3. BlocksHoldMemory
  BY <1>1 DEF BlocksHoldMemory, SectionSound, Hold, HoldsBlock
<1>4. BlocksApart
  BY <1>1 DEF BlocksApart, SectionSound, InOrder
<1>5. SizeSpansBlocks
  BY <1>1 DEF SizeSpansBlocks, SectionSound, Span
<1> QED
  BY <1>2, <1>3, <1>4, <1>5 DEF BlocksSound

(* Every section holds typed blocks and the byte queue holds bytes, for    *)
(* every program and build (SectionData, section_append).                  *)
THEOREM TypeCorrect == Spec => []TypeOK
<1>1. ObjInv => TypeOK
  BY InvSound
<1> QED
  BY <1>1, InitInv, StepInv, PTL DEF Spec

(* Every byte put into a section is in its blocks, at the address it was   *)
(* meant for, nothing else is, the blocks lie apart and full_size spans    *)
(* them (section_append, section_move_address).                            *)
THEOREM SectionsSound == Spec => []BlocksSound
<1>1. ObjInv => BlocksSound
  BY InvSound
<1> QED
  BY <1>1, InitInv, StepInv, PTL DEF Spec
=============================================================================
