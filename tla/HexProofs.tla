----------------------------- MODULE HexProofs ------------------------------
(***************************************************************************)
(* For every width of the fields and every bound on bytes and locations:   *)
(* as long as fewer bytes are put out in a row than the length can count,  *)
(* the HEX writer loses none, and where its base records reach, a loader   *)
(* finds each where it was put.  HexWriter implements MemoryImage.         *)
(***************************************************************************)
EXTENDS HexWriter, WellFoundedInduction, TLAPS

(* Induction, for a set of numbers in place of a predicate.                *)
LEMMA SetInduction ==
  ASSUME NEW S, 0 \in S, \A n \in Nat : n \in S => n + 1 \in S
  PROVE  Nat \subseteq S
<1> DEFINE T == Nat \ S
<1> SUFFICES ASSUME T # {} PROVE FALSE
  OBVIOUS
<1>1. IsWellFoundedOn(OpToRel(<, Nat), Nat)
  BY NatLessThanWellFounded
<1> DEFINE R == OpToRel(<, Nat)
<1>2. \A x, y \in Nat : x < y => <<x, y>> \in R
  BY DEF OpToRel
<1> HIDE DEF R
<1>3. PICK x \in T : \A y \in T : <<y, x>> \notin R
  <2>1. IsWellFoundedOn(R, Nat)
    BY <1>1 DEF R
  <2>2. T \subseteq Nat
    OBVIOUS
  <2> HIDE DEF T
  <2> QED
    BY <2>1, <2>2, WFMin
<1>4. x # 0 /\ x \in Nat
  BY <1>3
<1>5. x - 1 \in Nat /\ x - 1 < x
  BY <1>4
<1>6. x - 1 \in S
  BY <1>2, <1>3, <1>4, <1>5
<1>7. x = (x - 1) + 1
  BY <1>4
<1> QED
  BY <1>3, <1>5, <1>6, <1>7
-----------------------------------------------------------------------------
(* The states g of a loader that reads the first n records of rs.          *)
IsReading(g, rs, n) ==
  g = [k \in 0 .. n |-> IF k = 0 THEN Unread ELSE Load(g[k - 1], rs[k])]

LEMMA ReadingMeans ==
  ASSUME NEW g, NEW rs, NEW n \in Nat, IsReading(g, rs, n)
  PROVE  /\ g[0] = Unread
         /\ \A k \in 1 .. n : g[k] = Load(g[k - 1], rs[k])
<1>1. 0 \in 0 .. n /\ \A k \in 1 .. n : k \in 0 .. n /\ k # 0
  OBVIOUS
<1> QED
  BY <1>1 DEF IsReading

LEMMA ReadingExists ==
  ASSUME NEW rs, NEW n \in Nat
  PROVE  \E g : IsReading(g, rs, n)
<1> DEFINE S == {k \in Nat : \E g : IsReading(g, rs, k)}
<1>1. 0 \in S
  <2> DEFINE g == [k \in 0 .. 0 |-> Unread]
  <2>1. g = [k \in 0 .. 0 |-> IF k = 0 THEN Unread ELSE Load(g[k - 1], rs[k])]
    OBVIOUS
  <2>2. IsReading(g, rs, 0)
    BY <2>1 DEF IsReading
  <2> QED
    BY <2>2
<1>2. \A m \in Nat : m \in S => m + 1 \in S
  <2> SUFFICES ASSUME NEW m \in Nat, NEW g, IsReading(g, rs, m)
               PROVE  \E h : IsReading(h, rs, m + 1)
    OBVIOUS
  <2> DEFINE h == [k \in 0 .. m + 1 |-> IF k = m + 1 THEN Load(g[m], rs[m + 1]) ELSE g[k]]
  <2>1. g[0] = Unread /\ \A k \in 1 .. m : g[k] = Load(g[k - 1], rs[k])
    BY ReadingMeans
  <2>2. \A k \in 0 .. m : h[k] = g[k]
    OBVIOUS
  <2>3. h[m + 1] = Load(g[m], rs[m + 1])
    OBVIOUS
  <2>4. h = [k \in 0 .. m + 1 |-> h[k]]
    OBVIOUS
  <2> HIDE DEF h
  <2>5. \A k \in 0 .. m + 1 :
          h[k] = IF k = 0 THEN Unread ELSE Load(h[k - 1], rs[k])
    <3> TAKE k \in 0 .. m + 1
    <3>1. CASE k = 0
      BY <2>1, <2>2, <3>1
    <3>2. CASE k \in 1 .. m
      <4>1. k \in 0 .. m /\ k - 1 \in 0 .. m /\ k # 0
        BY <3>2
      <4>2. h[k] = g[k] /\ h[k - 1] = g[k - 1] /\ g[k] = Load(g[k - 1], rs[k])
        BY <2>1, <2>2, <3>2, <4>1
      <4> QED
        BY <4>1, <4>2
    <3>3. CASE k = m + 1
      <4>1. k - 1 = m /\ m \in 0 .. m /\ k # 0
        BY <3>3
      <4> QED
        BY <2>2, <2>3, <3>3, <4>1
    <3> QED
      BY <3>1, <3>2, <3>3
  <2>6. h = [k \in 0 .. m + 1 |-> IF k = 0 THEN Unread ELSE Load(h[k - 1], rs[k])]
    BY <2>4, <2>5
  <2> QED
    BY <2>6 DEF IsReading
<1> HIDE DEF S
<1>3. n \in S
  BY <1>1, <1>2, SetInduction
<1> QED
  BY <1>3 DEF S

StartAlike(rs, ss, m) == \A k \in 1 .. m : rs[k] = ss[k]

(* Two readings that begin alike go on alike.                              *)
LEMMA ReadingUnique ==
  ASSUME NEW rs, NEW ss, NEW n \in Nat, NEW g, NEW h, NEW m \in 0 .. n,
         IsReading(g, rs, n), IsReading(h, ss, m),
         StartAlike(rs, ss, m)
  PROVE  g[m] = h[m]
<1>1. g[0] = Unread /\ \A k \in 1 .. n : g[k] = Load(g[k - 1], rs[k])
  BY ReadingMeans
<1>2. h[0] = Unread /\ \A k \in 1 .. m : h[k] = Load(h[k - 1], ss[k])
  BY ReadingMeans
<1> DEFINE S == {k \in Nat : k <= m => g[k] = h[k]}
<1>3. 0 \in S
  BY <1>1, <1>2
<1>4. \A k \in Nat : k \in S => k + 1 \in S
  <2> SUFFICES ASSUME NEW k \in Nat, k <= m => g[k] = h[k], k + 1 <= m
               PROVE  g[k + 1] = h[k + 1]
    OBVIOUS
  <2>1. k + 1 \in 1 .. m /\ k + 1 \in 1 .. n /\ (k + 1) - 1 = k /\ k <= m
    OBVIOUS
  <2> QED
    BY <1>1, <1>2, <2>1 DEF StartAlike
<1> HIDE DEF S
<1>5. m \in Nat /\ m <= m
  OBVIOUS
<1>6. m \in S
  BY <1>3, <1>4, <1>5, SetInduction
<1> QED
  BY <1>5, <1>6 DEF S

LEMMA ReadMeans ==
  ASSUME NEW rs, Len(rs) \in Nat, NEW g, IsReading(g, rs, Len(rs))
  PROVE  Read(rs) = g[Len(rs)]
<1> DEFINE n == Len(rs)
           after == CHOOSE f : IsReading(f, rs, n)
<1>1. IsReading(after, rs, n)
  OBVIOUS
<1>2. Read(rs) = after[n]
  BY DEF Read, IsReading
<1> HIDE DEF after
<1>3. n \in 0 .. n /\ StartAlike(rs, rs, n)
  BY DEF StartAlike
<1>4. after[n] = g[n]
  BY <1>1, <1>3, ReadingUnique
<1> QED
  BY <1>2, <1>4

LEMMA ReadNothing == Read(<<>>) = Unread
<1>1. PICK g : IsReading(g, <<>>, 0)
  BY ReadingExists
<1>2. Len(<<>>) = 0
  OBVIOUS
<1>3. g[0] = Unread
  BY <1>1, ReadingMeans
<1> QED
  BY <1>1, <1>2, <1>3, ReadMeans

(* The last record is read in the state that the others leave.             *)
LEMMA ReadOneMore ==
  ASSUME NEW R, NEW rs \in Seq(R), NEW r \in R
  PROVE  Read(Append(rs, r)) = Load(Read(rs), r)
<1> DEFINE n == Len(rs)
           ss == Append(rs, r)
<1>1. n \in Nat /\ Len(ss) = n + 1 /\ ss[n + 1] = r /\ \A k \in 1 .. n : ss[k] = rs[k]
  OBVIOUS
<1>2. n + 1 \in Nat /\ n \in 0 .. n + 1 /\ n + 1 \in 1 .. n + 1 /\ (n + 1) - 1 = n
  BY <1>1
<1> HIDE DEF ss, n
<1>3. PICK g : IsReading(g, ss, n + 1)
  BY <1>2, ReadingExists
<1>4. PICK h : IsReading(h, rs, n)
  BY <1>1, ReadingExists
<1>5. Read(ss) = g[n + 1] /\ Read(rs) = h[n]
  BY <1>1, <1>2, <1>3, <1>4, ReadMeans DEF n
<1>6. StartAlike(ss, rs, n)
  BY <1>1 DEF StartAlike
<1>7. g[n] = h[n]
  BY <1>1, <1>2, <1>3, <1>4, <1>6, ReadingUnique
<1>8. g[n + 1] = Load(g[n], ss[n + 1])
  BY <1>2, <1>3, ReadingMeans
<1> QED
  BY <1>1, <1>5, <1>7, <1>8 DEF ss
-----------------------------------------------------------------------------
FileRecords ==
  [type : {"base"}, count : {2, 4}, value : Nat]
    \cup [type : {"data"}, count : Nat, at : Nat, bytes : Seq(Values)]

IsLoader(m) == m = [base |-> m.base, memory |-> m.memory, bytes |-> m.bytes]

LEMMA LoadBase ==
  ASSUME NEW m, IsLoader(m), NEW r, r.type = "base"
  PROVE  /\ IsLoader(Load(m, r)) /\ Load(m, r).base = r.value * Paragraph
         /\ Load(m, r).memory = m.memory /\ Load(m, r).bytes = m.bytes
<1>1. Load(m, r) = [base |-> r.value * Paragraph, memory |-> m.memory, bytes |-> m.bytes]
  BY DEF Load, IsLoader
<1> QED
  BY <1>1 DEF IsLoader

LEMMA LoadData ==
  ASSUME NEW m, IsLoader(m), NEW r, r.type = "data"
  PROVE  /\ IsLoader(Load(m, r)) /\ Load(m, r).base = m.base
         /\ Load(m, r).memory = Placed(r.bytes, m.base + r.at, m.memory)
         /\ Load(m, r).bytes = m.bytes + Len(r.bytes)
<1> DEFINE mem == Placed(r.bytes, m.base + r.at, m.memory)
<1>1. Load(m, r) = [m EXCEPT !.memory = mem, !.bytes = m.bytes + Len(r.bytes)]
  BY DEF Load, IsLoader
<1> HIDE DEF mem
<1>2. Load(m, r) = [base |-> m.base, memory |-> mem, bytes |-> m.bytes + Len(r.bytes)]
  BY <1>1 DEF IsLoader
<1> QED
  BY <1>2 DEF IsLoader, mem
-----------------------------------------------------------------------------
Types ==
  /\ format \in Formats /\ closed \in BOOLEAN
  /\ data \in Seq(Values) /\ length < Span
  /\ address \in Nat /\ high_address \in Nat /\ count \in Nat /\ wanted \in Nat
  /\ records \in Seq(FileRecords)

(* What has been put out is in the file or in the buffer.                  *)
CountInv ==
  /\ IsLoader(Read(records))
  /\ Read(records).bytes \in Nat /\ Read(records).bytes + length = count
  /\ closed => data = <<>>

LEMMA LengthFacts ==
  ASSUME Types
  PROVE  /\ length \in Nat /\ (length = 0 <=> data = <<>>)
         /\ \A i \in 1 .. length : data[i] \in Values
<1>1. ASSUME NEW S, NEW s \in Seq(S)
      PROVE  Len(s) \in Nat /\ (Len(s) = 0 <=> s = <<>>) /\ \A i \in 1 .. Len(s) : s[i] \in S
  OBVIOUS
<1> QED
  BY <1>1 DEF Types, length

LEMMA RecordTypes ==
  ASSUME Types
  PROVE  /\ BaseRecord(HighAfter) \in FileRecords /\ DataRecord(Within) \in FileRecords
         /\ HighAfter \in Nat /\ Within \in Nat
<1>1. Paragraph \in Nat \ {0} /\ Bank \in Nat \ {0} /\ address \in Nat
  BY HexAssumption DEF Types
<1>2. \A i \in Int : i % Bank \in Nat
  BY <1>1
<1>3. \A p \in Nat \ {0} : address \div p \in Nat
  BY <1>1
<1>4. HighAfter \in Nat
  BY <1>1, <1>2, <1>3 DEF HighAfter, BaseUnit
<1>5. Within \in Nat
  <2>1. HighAfter * Paragraph \in Int
    BY <1>1, <1>4
  <2> QED
    BY <1>1, <1>2, <2>1 DEF Within
<1>6. length \in Nat /\ data \in Seq(Values)
  BY LengthFacts DEF Types
<1> QED
  BY <1>4, <1>5, <1>6 DEF BaseRecord, DataRecord, FileRecords

(* What a loader makes of the records of one flush.                        *)
LEMMA FlushedRead ==
  ASSUME Types, IsLoader(Read(records)), length > 0
  PROVE  LET m == Read(records \o Flushed)
         IN  /\ records \o Flushed \in Seq(FileRecords)
             /\ IsLoader(m) /\ m.bytes = Read(records).bytes + length
             /\ m.base = IF BaseMoves THEN HighAfter * Paragraph ELSE Read(records).base
             /\ m.memory = Placed(data, m.base + Within, Read(records).memory)
<1> DEFINE b == BaseRecord(HighAfter)
           d == DataRecord(Within)
           S == FileRecords
<1>1. b \in S /\ d \in S /\ records \in Seq(S)
  BY RecordTypes DEF Types
<1>2. /\ b.type = "base" /\ b.value = HighAfter
      /\ d.type = "data" /\ d.at = Within /\ d.bytes = data /\ Len(d.bytes) = length
  BY DEF BaseRecord, DataRecord, length
<1>3. Flushed = (IF BaseMoves THEN <<b>> ELSE <<>>) \o <<d>>
  BY LengthFacts DEF Flushed
<1> HIDE DEF b, d, S
<1>4. ASSUME NEW T, NEW rs \in Seq(T), NEW x \in T, NEW y \in T
      PROVE  /\ rs \o (<<x>> \o <<y>>) = Append(Append(rs, x), y)
             /\ rs \o (<<>> \o <<y>>) = Append(rs, y)
             /\ Append(rs, x) \in Seq(T) /\ Append(Append(rs, x), y) \in Seq(T)
  OBVIOUS
<1>5. CASE BaseMoves
  <2> DEFINE n == Load(Read(records), b)
  <2>2. /\ records \o (<<b>> \o <<d>>) = Append(Append(records, b), d)
        /\ Append(records, b) \in Seq(S) /\ Append(Append(records, b), d) \in Seq(S)
    BY <1>1, <1>4
  <2>1. records \o Flushed = Append(Append(records, b), d)
    BY <1>3, <1>5, <2>2
  <2>3. Read(Append(records, b)) = n
    BY <1>1, ReadOneMore
  <2>4. Read(Append(Append(records, b), d)) = Load(n, d)
    BY <1>1, <2>2, <2>3, ReadOneMore
  <2>5. /\ IsLoader(n) /\ n.base = HighAfter * Paragraph
        /\ n.memory = Read(records).memory /\ n.bytes = Read(records).bytes
    BY <1>2, LoadBase
  <2> HIDE DEF n
  <2>6. /\ IsLoader(Load(n, d)) /\ Load(n, d).base = n.base
        /\ Load(n, d).memory = Placed(data, n.base + Within, n.memory)
        /\ Load(n, d).bytes = n.bytes + length
    BY <1>2, <2>5, LoadData
  <2> QED
    BY <1>5, <2>1, <2>2, <2>4, <2>5, <2>6 DEF S
<1>6. CASE ~BaseMoves
  <2> DEFINE n == Read(records)
  <2>1. records \o Flushed = Append(records, d)
    BY <1>1, <1>3, <1>4, <1>6
  <2>2. Append(records, d) \in Seq(S)
    BY <1>1, <1>4
  <2>3. Read(Append(records, d)) = Load(n, d)
    BY <1>1, ReadOneMore
  <2> HIDE DEF n
  <2>4. IsLoader(n)
    BY DEF n
  <2>5. /\ IsLoader(Load(n, d)) /\ Load(n, d).base = n.base
        /\ Load(n, d).memory = Placed(data, n.base + Within, n.memory)
        /\ Load(n, d).bytes = n.bytes + length
    BY <1>2, <2>4, LoadData
  <2> QED
    BY <1>6, <2>1, <2>2, <2>3, <2>5 DEF S, n
<1> QED
  BY <1>5, <1>6

LEMMA NothingFlushed ==
  ASSUME Types, length = 0
  PROVE  Flushed = <<>> /\ records \o Flushed = records
<1>1. ASSUME NEW S, NEW s \in Seq(S) PROVE s \o <<>> = s
  OBVIOUS
<1> QED
  BY <1>1 DEF Types, Flushed
-----------------------------------------------------------------------------
LEMMA InitCount == Init => Types /\ CountInv
<1> SUFFICES ASSUME Init PROVE Types /\ CountInv
  OBVIOUS
<1>1. <<>> \in Seq(Values) /\ <<>> \in Seq(FileRecords)
  OBVIOUS
<1>2. Len(<<>>) = 0
  OBVIOUS
<1>5. length < Span
  BY <1>2, HexAssumption DEF Init, length
<1>3. Types
  BY <1>1, <1>5 DEF Init, Types
<1>4. CountInv
  BY <1>2, ReadNothing DEF Init, CountInv, length, Unread, IsLoader
<1> QED
  BY <1>3, <1>4

(* What a flush leaves.                                                    *)
LEMMA FlushCount ==
  ASSUME Types, CountInv, Flush
  PROVE  /\ records' \in Seq(FileRecords) /\ data' = <<>> /\ length' = 0
         /\ IsLoader(Read(records'))
         /\ Read(records').bytes \in Nat /\ Read(records').bytes = count
         /\ high_address' \in Nat
<1>1. records' = records \o Flushed /\ data' = <<>>
      /\ high_address' = IF length > 0 THEN HighAfter ELSE high_address
  BY DEF Flush
<1>2. Len(<<>>) = 0 /\ length \in Nat
  BY LengthFacts
<1>3. high_address' \in Nat
  BY <1>1, RecordTypes DEF Types
<1>4. CASE length > 0
  BY <1>1, <1>2, <1>3, <1>4, FlushedRead DEF CountInv, length
<1>5. CASE length = 0
  <2>1. records' = records
    BY <1>1, <1>5, NothingFlushed
  <2>2. Read(records).bytes = count
    <3>1. data = <<>>
      BY <1>5, LengthFacts
    <3> QED
      BY <1>5 DEF CountInv
  <2> QED
    BY <1>1, <1>2, <1>3, <2>1, <2>2 DEF CountInv, Types, length
<1> QED
  BY <1>2, <1>4, <1>5

LEMMA SetLocationCount ==
  ASSUME Types, CountInv, ~closed, NEW a \in Nat, SetLocation(a)
  PROVE  (Types /\ CountInv)'
<1>1. wanted' = a /\ UNCHANGED <<format, closed, count>>
  BY DEF SetLocation
<1>2. CASE Moves(a)
  <2>1. Flush /\ address' = a
    BY <1>2 DEF SetLocation
  <2>2. /\ records' \in Seq(FileRecords) /\ data' = <<>> /\ length' = 0
        /\ IsLoader(Read(records'))
        /\ Read(records').bytes \in Nat /\ Read(records').bytes = count
        /\ high_address' \in Nat
    BY <2>1, FlushCount
  <2>3. <<>> \in Seq(Values) /\ 0 < Span
    BY HexAssumption
  <2>4. Types'
    BY <1>1, <2>1, <2>2, <2>3 DEF Types
  <2>5. CountInv'
    BY <1>1, <2>2, <2>4 DEF CountInv, Types
  <2> QED
    BY <2>4, <2>5
<1>3. CASE ~Moves(a)
  <2>1. UNCHANGED <<records, high_address, data, address>>
    BY <1>3 DEF SetLocation
  <2> QED
    BY <1>1, <2>1 DEF Types, CountInv, length
<1> QED
  BY <1>2, <1>3

(* The buffer after a byte, while the length can count it.                 *)
LEMMA BufferedMeans ==
  ASSUME Types, length + 1 < Span, NEW v \in Values
  PROVE  Buffered(v) = Append(data, v)
<1>1. length \in Nat /\ Span \in Nat
  BY LengthFacts, HexAssumption
<1>2. LengthAfter = length + 1
  BY <1>1 DEF LengthAfter
<1>3. ASSUME NEW S, NEW s \in Seq(S), NEW x \in S
      PROVE  SubSeq(Append(s, x), 1, Len(s) + 1) = Append(s, x)
  OBVIOUS
<1> QED
  BY <1>2, <1>3 DEF Types, Buffered, length

LEMMA OutputByteCount ==
  ASSUME Types, CountInv, ~LongRuns, OutputByte
  PROVE  (Types /\ CountInv)'
<1>1. length + 1 < Span
  BY LengthFacts, HexAssumption DEF OutputByte
<1>2. PICK v \in Values : data' = Buffered(v)
  BY DEF OutputByte
<1>3. data' = Append(data, v)
  BY <1>1, <1>2, BufferedMeans
<1>4. data' \in Seq(Values) /\ length' = length + 1
  <2>1. ASSUME NEW S, NEW s \in Seq(S), NEW x \in S
        PROVE  Append(s, x) \in Seq(S) /\ Len(Append(s, x)) = Len(s) + 1
    OBVIOUS
  <2> QED
    BY <1>3, <2>1 DEF Types, length
<1>5. /\ count' = count + 1 /\ wanted' = wanted + 1 /\ ~closed
      /\ UNCHANGED <<format, address, high_address, records, closed>>
  BY DEF OutputByte
<1>6. Types'
  BY <1>1, <1>4, <1>5 DEF Types
<1>7. CountInv'
  BY <1>4, <1>5, LengthFacts DEF CountInv
<1> QED
  BY <1>6, <1>7

LEMMA CloseCount ==
  ASSUME Types, CountInv, Close
  PROVE  (Types /\ CountInv)'
<1>1. closed' = TRUE /\ Flush /\ UNCHANGED <<format, address, count, wanted>>
  BY DEF Close
<1>2. /\ records' \in Seq(FileRecords) /\ data' = <<>> /\ length' = 0
      /\ IsLoader(Read(records'))
      /\ Read(records').bytes \in Nat /\ Read(records').bytes = count
      /\ high_address' \in Nat
  BY <1>1, FlushCount
<1>3. <<>> \in Seq(Values) /\ 0 < Span
  BY HexAssumption
<1>4. Types'
  BY <1>1, <1>2, <1>3 DEF Types
<1> QED
  BY <1>1, <1>2, <1>4 DEF CountInv, Types

(* Where a step moves the location to.                                     *)
LEMMA MoveMeans ==
  ASSUME Types, Org \/ Skip
  PROVE  ~closed /\ \E a \in 0 .. MaxAddress : SetLocation(a)
<1>1. CASE Org
  BY <1>1 DEF Org
<1>2. CASE Skip
  <2>1. PICK n \in 1 .. MaxAddress : /\ address + length + n <= MaxAddress
                                     /\ SetLocation(address + length + n)
    BY <1>2 DEF Skip
  <2>2. address + length + n \in 0 .. MaxAddress
    BY <2>1, LengthFacts, HexAssumption DEF Types
  <2> QED
    BY <1>2, <2>1, <2>2 DEF Skip
<1> QED
  BY <1>1, <1>2

LEMMA NextCount == ~LongRuns /\ Types /\ CountInv /\ [Next]_vars => (Types /\ CountInv)'
<1> SUFFICES ASSUME ~LongRuns, Types, CountInv, [Next]_vars PROVE (Types /\ CountInv)'
  OBVIOUS
<1>1. CASE Org \/ Skip
  <2>1. PICK a \in 0 .. MaxAddress : SetLocation(a) /\ ~closed
    BY <1>1, MoveMeans
  <2>2. a \in Nat
    BY <2>1, HexAssumption
  <2> QED
    BY <2>1, <2>2, SetLocationCount
<1>2. CASE OutputByte
  BY <1>2, OutputByteCount
<1>3. CASE Close
  BY <1>3, CloseCount
<1>4. CASE UNCHANGED vars
  BY <1>4 DEF vars, Types, CountInv, length
<1> QED
  BY <1>1, <1>2, <1>3, <1>4 DEF Next

LEMMA CountHolds == ~LongRuns /\ Spec => [](Types /\ CountInv)
<1> SUFFICES ASSUME ~LongRuns PROVE Spec => [](Types /\ CountInv)
  OBVIOUS
<1> QED
  BY InitCount, NextCount, PTL DEF Spec

(* As long as fewer bytes than a uint8_t counts are put out in a row,      *)
(* every byte is in the file once it is closed, in both formats and        *)
(* wherever the location goes (hex.c:19-62 and 73-78).                     *)
THEOREM BytesWrittenForAll ==
  ASSUME ~LongRuns
  PROVE  Spec => []BytesWritten
<1>1. Types /\ CountInv => BytesWritten
  <2> SUFFICES ASSUME Types, CountInv, closed PROVE Read(records).bytes = count
    BY DEF BytesWritten
  <2>1. length = 0
    BY LengthFacts DEF CountInv
  <2> QED
    BY <2>1 DEF CountInv
<1> QED
  BY <1>1, CountHolds, PTL
-----------------------------------------------------------------------------
(* The locations that base records reach: a megabyte in hex16; in hex32    *)
(* what needs none, as the loader takes its base records for hex16's.      *)
InReach ==
  MaxAddress < Bank * Paragraph /\ ("hex32" \in Formats => MaxAddress < Bank)

(* The bytes of the buffer go to address, the next one goes behind them,   *)
(* and the loader has the base that intel_hex holds.                       *)
PlaceInv ==
  /\ length > 0 => address <= MaxAddress
  /\ ~closed => wanted = address + length
  /\ format = "hex32" => high_address = 0
  /\ Read(records).base = IF format = "hex16" THEN high_address * Paragraph ELSE 0

LEMMA Division ==
  ASSUME NEW n \in Nat, NEW d \in Nat \ {0}
  PROVE  /\ n \div d \in Nat /\ n % d \in 0 .. d - 1
         /\ n - (n \div d) * d = n % d
OBVIOUS

LEMMA SmallQuotient ==
  ASSUME NEW n \in Nat, NEW d \in Nat \ {0}, NEW e \in Nat, n < e * d
  PROVE  n \div d < e
<1>1. n \div d \in Nat /\ n % d \in Nat /\ n = ((n \div d) * d) + (n % d)
  BY Division
<1> DEFINE q == n \div d
<1>2. ASSUME NEW a \in Nat, e <= a PROVE e * d <= a * d
  BY <1>2
<1> HIDE DEF q
<1>3. q \in Nat /\ q * d <= n
  BY <1>1 DEF q
<1>4. ~(e <= q)
  BY <1>2, <1>3
<1> QED
  BY <1>3, <1>4 DEF q

LEMMA SmallRemainder ==
  ASSUME NEW n \in Nat, NEW d \in Nat \ {0}, n < d
  PROVE  n % d = n /\ n \div d = 0
OBVIOUS

(* In reach, a data record behind its base record goes to address.         *)
LEMMA RecordInPlace ==
  ASSUME InReach, Types, PlaceInv, length > 0
  PROVE  /\ format = "hex16" => /\ HighAfter = address \div Paragraph
                                /\ HighAfter * Paragraph + Within = address
         /\ format # "hex16" => ~BaseMoves /\ Within = address /\ HighAfter = 0
<1>1. /\ address \in Nat /\ address <= MaxAddress /\ MaxAddress \in Nat
      /\ Paragraph \in Nat \ {0} /\ Bank \in Nat \ {0} /\ Paragraph <= Bank
      /\ format = "hex16" \/ (format = "hex32" /\ "hex32" \in Formats)
  BY HexAssumption DEF Types, PlaceInv
<1>2. CASE format = "hex16"
  <2> DEFINE q == address \div Paragraph
             r == address % Paragraph
  <2>1. q \in Nat /\ r \in 0 .. Paragraph - 1 /\ address - q * Paragraph = r
    BY <1>1, Division
  <2>2. q < Bank
    <3>1. Bank * Paragraph \in Nat
      BY <1>1
    <3>2. address < Bank * Paragraph
      BY <1>1, <3>1 DEF InReach
    <3> QED
      BY <1>1, <3>2, SmallQuotient
  <2>3. HighAfter = q % Bank
    BY <1>2 DEF HighAfter, BaseUnit
  <2>4. Within = (address - HighAfter * Paragraph) % Bank
    BY <1>2 DEF Within
  <2> HIDE DEF q, r
  <2>5. HighAfter = q
    BY <1>1, <2>1, <2>2, <2>3, SmallRemainder
  <2>6. r \in Nat /\ r < Bank
    BY <1>1, <2>1
  <2>7. Within = r
    BY <1>1, <2>1, <2>4, <2>5, <2>6, SmallRemainder
  <2>8. q * Paragraph \in Int
    BY <1>1, <2>1
  <2>9. HighAfter * Paragraph + Within = address
    BY <1>1, <2>1, <2>5, <2>6, <2>7, <2>8
  <2> QED
    BY <1>2, <2>5, <2>9 DEF q
<1>3. CASE format = "hex32" /\ "hex32" \in Formats
  <2>1. address < Bank
    BY <1>1, <1>3 DEF InReach
  <2>2. address % Bank = address /\ address \div Bank = 0 /\ 0 % Bank = 0
    BY <1>1, <2>1, SmallRemainder
  <2> QED
    BY <1>3, <2>2 DEF BaseMoves, Within, HighAfter, BaseUnit, PlaceInv
<1> QED
  BY <1>1, <1>2, <1>3

LEMMA FlushedInPlace ==
  ASSUME InReach, Types, CountInv, PlaceInv, length > 0
  PROVE  LET m == Read(records \o Flushed)
         IN  /\ m.memory = Placed(data, address, Read(records).memory)
             /\ m.base = IF format = "hex16" THEN HighAfter * Paragraph ELSE 0
             /\ format = "hex32" => HighAfter = 0
<1> DEFINE m == Read(records \o Flushed)
<1>1. /\ m.base = IF BaseMoves THEN HighAfter * Paragraph ELSE Read(records).base
      /\ m.memory = Placed(data, m.base + Within, Read(records).memory)
  BY FlushedRead DEF CountInv
<1> HIDE DEF m
<1>2. CASE format = "hex16"
  <2>1. HighAfter = address \div Paragraph /\ HighAfter * Paragraph + Within = address
    BY <1>2, RecordInPlace
  <2>2. Read(records).base = high_address * Paragraph
    BY <1>2 DEF PlaceInv
  <2>3. ~BaseMoves => high_address = HighAfter
    BY <1>2, <2>1 DEF BaseMoves, BaseUnit
  <2>4. m.base = HighAfter * Paragraph
    BY <1>1, <2>2, <2>3
  <2> QED
    BY <1>1, <1>2, <2>1, <2>4 DEF m
<1>3. CASE format # "hex16"
  <2>1. ~BaseMoves /\ Within = address /\ HighAfter = 0
    BY <1>3, RecordInPlace
  <2>2. Read(records).base = 0 /\ address \in Nat
    BY <1>3 DEF PlaceInv, Types
  <2>3. m.base = 0 /\ m.base + Within = address
    BY <1>1, <2>1, <2>2
  <2> QED
    BY <1>1, <1>3, <2>1, <2>3 DEF m
<1> QED
  BY <1>2, <1>3

(* What the file and the buffer together are to a loader.                  *)
Whole == Read(records \o Flushed).memory

WholeInv ==
  /\ length > 0 => Whole = Placed(data, address, Read(records).memory)
  /\ length = 0 => Whole = Read(records).memory

(* The memory o is m with the bytes d from a on.                           *)
Shows(o, d, a, m) ==
  /\ DOMAIN o = DOMAIN m \cup (a .. a + Len(d) - 1)
  /\ \A x \in DOMAIN o :
       o[x] = IF x \in a .. a + Len(d) - 1 THEN d[x - a + 1] ELSE m[x]

LEMMA WholeMeans == InReach /\ Types /\ CountInv /\ PlaceInv => WholeInv
BY FlushedInPlace, NothingFlushed DEF Whole, WholeInv

LEMMA FlushPlace ==
  ASSUME InReach, Types, CountInv, PlaceInv, Flush, format' = format
  PROVE  /\ data' = <<>> /\ length' = 0
         /\ records' = records \o Flushed
         /\ (format = "hex32" => high_address = 0)'
         /\ (Read(records).base = IF format = "hex16" THEN high_address * Paragraph ELSE 0)'
<1>1. records' = records \o Flushed /\ data' = <<>>
      /\ high_address' = IF length > 0 THEN HighAfter ELSE high_address
  BY DEF Flush
<1>2. length' = 0
  BY <1>1 DEF length
<1>3. CASE length > 0
  <2>1. /\ format = "hex32" => HighAfter = 0
        /\ Read(records \o Flushed).base =
             IF format = "hex16" THEN HighAfter * Paragraph ELSE 0
    BY <1>3, FlushedInPlace
  <2> QED
    BY <1>1, <1>2, <1>3, <2>1
<1>4. CASE length = 0
  BY <1>1, <1>2, <1>4, NothingFlushed DEF PlaceInv
<1> QED
  BY <1>3, <1>4, LengthFacts

LEMMA NextPlace ==
  InReach /\ ~LongRuns /\ Types /\ CountInv /\ PlaceInv /\ [Next]_vars => PlaceInv'
<1> SUFFICES ASSUME InReach, ~LongRuns, Types, CountInv, PlaceInv, [Next]_vars
             PROVE  PlaceInv'
  OBVIOUS
<1>1. CASE Org \/ Skip
  <2>1. PICK a \in 0 .. MaxAddress : SetLocation(a) /\ ~closed
    BY <1>1, MoveMeans
  <2>2. wanted' = a /\ UNCHANGED <<format, closed, count>> /\ a \in Nat
    BY <2>1, HexAssumption DEF SetLocation
  <2>3. CASE Moves(a)
    <3>1. Flush /\ address' = a
      BY <2>1, <2>3 DEF SetLocation
    <3>2. /\ length' = 0
          /\ (format = "hex32" => high_address = 0)'
          /\ (Read(records).base = IF format = "hex16" THEN high_address * Paragraph ELSE 0)'
      BY <2>2, <3>1, FlushPlace
    <3>3. wanted' = address' + length'
      BY <2>2, <3>1, <3>2
    <3> QED
      BY <3>2, <3>3 DEF PlaceInv
  <2>4. CASE ~Moves(a)
    <3>1. UNCHANGED <<records, high_address, data, address>> /\ address + length = a
      BY <2>1, <2>4 DEF SetLocation, Moves
    <3> QED
      BY <2>2, <3>1 DEF PlaceInv, length
  <2> QED
    BY <2>3, <2>4
<1>2. CASE OutputByte
  <2>1. PICK v \in Values : data' = Buffered(v)
    BY <1>2 DEF OutputByte
  <2>2. length + 1 < Span
    BY <1>2, LengthFacts, HexAssumption DEF OutputByte
  <2>3. length' = length + 1
    <3>1. ASSUME NEW S, NEW s \in Seq(S), NEW x \in S PROVE Len(Append(s, x)) = Len(s) + 1
      OBVIOUS
    <3> QED
      BY <2>1, <2>2, <3>1, BufferedMeans DEF Types, length
  <2>4. /\ wanted' = wanted + 1 /\ ~closed /\ address + length <= MaxAddress
        /\ UNCHANGED <<format, address, high_address, records, closed>>
    BY <1>2 DEF OutputByte
  <2>5. address <= MaxAddress
    BY <2>4, LengthFacts, HexAssumption DEF Types
  <2>6. wanted' = address' + length'
    BY <2>3, <2>4, LengthFacts DEF PlaceInv, Types
  <2> QED
    BY <2>4, <2>5, <2>6 DEF PlaceInv
<1>3. CASE Close
  <2>1. closed' = TRUE /\ Flush /\ UNCHANGED <<format, address, count, wanted>>
    BY <1>3 DEF Close
  <2>2. /\ length' = 0
        /\ (format = "hex32" => high_address = 0)'
        /\ (Read(records).base = IF format = "hex16" THEN high_address * Paragraph ELSE 0)'
    BY <2>1, FlushPlace
  <2> QED
    BY <2>1, <2>2 DEF PlaceInv
<1>4. CASE UNCHANGED vars
  BY <1>4 DEF vars, PlaceInv, length
<1> QED
  BY <1>1, <1>2, <1>3, <1>4 DEF Next

LEMMA InitPlace == Init => PlaceInv
<1> SUFFICES ASSUME Init PROVE PlaceInv
  OBVIOUS
<1>1. Read(records).base = 0
  BY ReadNothing DEF Init, Unread
<1>2. length = 0
  BY DEF Init, length
<1>3. 0 * Paragraph = 0
  BY HexAssumption
<1> QED
  BY <1>1, <1>2, <1>3 DEF Init, PlaceInv

(* A flush only moves bytes from the buffer to the file.                   *)
LEMMA FlushKeeps ==
  ASSUME Types, CountInv, Flush, WholeInv'
  PROVE  Whole' = Whole
<1>1. records' = records \o Flushed /\ data' = <<>>
  BY DEF Flush
<1>2. length' = 0
  BY <1>1 DEF length
<1> QED
  BY <1>1, <1>2 DEF WholeInv, Whole

(* A byte goes behind those of the buffer.                                 *)
WithByte(o, at, v) == [x \in DOMAIN o \cup {at} |-> IF x = at THEN v ELSE o[x]]

LEMMA PlacedOneMore ==
  ASSUME NEW S, NEW d \in Seq(S), NEW v \in S, NEW a \in Nat, NEW m, NEW o,
         Shows(o, d, a, m)
  PROVE  Placed(Append(d, v), a, m) = WithByte(o, a + Len(d), v)
<1> DEFINE e == Append(d, v)
           n == Len(d)
           there == a .. a + Len(e) - 1
<1>1. n \in Nat /\ Len(e) = n + 1 /\ e[n + 1] = v /\ \A i \in 1 .. n : e[i] = d[i]
  OBVIOUS
<1>2. Placed(e, a, m) =
        [x \in DOMAIN m \cup there |-> IF x \in there THEN e[x - a + 1] ELSE m[x]]
  BY DEF Placed
<1> HIDE DEF e
<1>3. there = (a .. a + n - 1) \cup {a + n}
  BY <1>1
<1>4. DOMAIN m \cup there = DOMAIN o \cup {a + n}
  BY <1>3 DEF Shows
<1>5. \A x \in DOMAIN m \cup there :
        (IF x \in there THEN e[x - a + 1] ELSE m[x]) = IF x = a + n THEN v ELSE o[x]
  <2> SUFFICES ASSUME NEW x \in DOMAIN m \cup there
               PROVE  (IF x \in there THEN e[x - a + 1] ELSE m[x])
                        = IF x = a + n THEN v ELSE o[x]
    OBVIOUS
  <2>1. CASE x = a + n
    <3>1. x \in there /\ x - a + 1 = n + 1
      BY <1>1, <1>3, <2>1
    <3> QED
      BY <1>1, <2>1, <3>1
  <2>2. CASE x \in a .. a + n - 1
    <3>1. x \in there /\ x - a + 1 \in 1 .. n /\ x # a + n /\ x \in DOMAIN o
      BY <1>1, <1>3, <2>2 DEF Shows
    <3>2. o[x] = d[x - a + 1]
      BY <2>2, <3>1 DEF Shows
    <3> QED
      BY <1>1, <3>1, <3>2
  <2>3. CASE x \notin there
    <3>1. x # a + n /\ x \notin a .. a + n - 1 /\ x \in DOMAIN o
      BY <1>3, <2>3 DEF Shows
    <3>2. o[x] = m[x]
      BY <3>1 DEF Shows
    <3> QED
      BY <2>3, <3>1, <3>2
  <2> QED
    BY <1>3, <2>1, <2>2, <2>3
<1> HIDE DEF there
<1> QED
  BY <1>2, <1>4, <1>5 DEF e, WithByte

LEMMA WholeShows ==
  ASSUME Types, WholeInv
  PROVE  Shows(Whole, data, address, Read(records).memory)
<1> DEFINE m == Read(records).memory
           there == address .. address + length - 1
<1>1. CASE length > 0
  <2>1. Whole = [x \in DOMAIN m \cup there |->
                   IF x \in there THEN data[x - address + 1] ELSE m[x]]
    BY <1>1 DEF WholeInv, Placed, length
  <2> HIDE DEF m
  <2> QED
    BY <2>1 DEF Shows, length, m
<1>2. CASE length = 0
  <2>1. there = {} /\ Whole = m
    BY <1>2 DEF Types, WholeInv
  <2> QED
    BY <2>1 DEF Shows, length
<1> QED
  BY <1>1, <1>2, LengthFacts

LEMMA StepWrites ==
  ASSUME ~LongRuns, Types, CountInv, PlaceInv, WholeInv, WholeInv', [Next]_vars
  PROVE  Image!Next \/ UNCHANGED <<Whole, wanted>>
<1>1. CASE Org \/ Skip
  <2>1. PICK a \in 0 .. MaxAddress : SetLocation(a)
    BY <1>1, MoveMeans
  <2>2. wanted' = a /\ a \in Nat /\ format' = format
    BY <2>1, HexAssumption DEF SetLocation
  <2>3. CASE Moves(a)
    <3>1. Whole' = Whole
      BY <2>1, <2>3, FlushKeeps DEF SetLocation
    <3> QED
      BY <2>2, <3>1 DEF Image!Next, Image!Move, Whole
  <2>4. CASE ~Moves(a)
    <3>1. UNCHANGED <<format, records, high_address, data, address>>
      BY <2>1, <2>2, <2>4 DEF SetLocation
    <3>2. Whole' = Whole
      BY <3>1 DEF Whole, Flushed, BaseMoves, BaseUnit, HighAfter, Within, BaseRecord,
                  DataRecord, length
    <3> QED
      BY <2>2, <3>2 DEF Image!Next, Image!Move, Whole
  <2> QED
    BY <2>3, <2>4
<1>2. CASE OutputByte
  <2>1. PICK v \in Values : data' = Buffered(v)
    BY <1>2 DEF OutputByte
  <2>2. length + 1 < Span
    BY <1>2, LengthFacts, HexAssumption DEF OutputByte
  <2>3. data' = Append(data, v) /\ data \in Seq(Values) /\ address \in Nat
    BY <2>1, <2>2, BufferedMeans DEF Types
  <2>4. wanted' = wanted + 1 /\ ~closed /\ UNCHANGED <<address, records>>
    BY <1>2 DEF OutputByte
  <2>5. wanted = address + length
    BY <2>4 DEF PlaceInv
  <2> DEFINE m == Read(records).memory
  <2>6. m' = m
    BY <2>4
  <2>7. length' > 0
    <3>1. ASSUME NEW S, NEW s \in Seq(S), NEW x \in S PROVE Len(Append(s, x)) = Len(s) + 1
      OBVIOUS
    <3> QED
      BY <2>3, <3>1, LengthFacts DEF length
  <2>8. Whole' = Placed(Append(data, v), address, m)
    BY <2>3, <2>4, <2>6, <2>7 DEF WholeInv
  <2>9. Shows(Whole, data, address, m)
    BY WholeShows
  <2> HIDE DEF m
  <2>10. Whole' = WithByte(Whole, wanted, v)
    BY <2>1, <2>3, <2>5, <2>8, <2>9, PlacedOneMore DEF length
  <2> QED
    BY <2>1, <2>4, <2>10 DEF WithByte, Image!Next, Image!Put, Whole
<1>3. CASE Close
  BY <1>3, FlushKeeps DEF Close
<1>4. CASE UNCHANGED vars
  BY <1>4 DEF vars, Whole, Flushed, BaseMoves, BaseUnit, HighAfter, Within, BaseRecord,
              DataRecord, length
<1> QED
  BY <1>1, <1>2, <1>3, <1>4 DEF Next

(* As long as fewer bytes than a uint8_t counts are put out in a row, and  *)
(* no location is beyond the reach of base records, a loader of the file   *)
(* finds every byte where the location was when it was put out, whatever   *)
(* locations were moved to, in both formats (hex.c:19-83).                 *)
THEOREM WritesImageForAll ==
  ASSUME ~LongRuns, InReach
  PROVE  Spec => WritesImage
<1> DEFINE Inv == Types /\ CountInv /\ PlaceInv /\ WholeInv
<1>1. Init => Inv
  BY InitCount, InitPlace, WholeMeans
<1>2. Init => Image!Init
  <2> SUFFICES ASSUME Init PROVE Image!Init
    OBVIOUS
  <2>1. Whole = <<>>
    <3>1. WholeInv
      BY <1>1
    <3>2. length = 0 /\ Read(records).memory = <<>>
      BY ReadNothing DEF Init, length, Unread
    <3> QED
      BY <3>1, <3>2 DEF WholeInv
  <2> QED
    BY <2>1 DEF Init, Image!Init, Whole
<1>3. Types /\ CountInv /\ PlaceInv => WholeInv
  BY WholeMeans
<1>4. Types /\ CountInv /\ PlaceInv /\ [Next]_vars => (Types /\ CountInv /\ PlaceInv)'
  BY NextCount, NextPlace
<1>5. Inv /\ WholeInv' /\ [Next]_vars => [Image!Next]_<<Whole, wanted>>
  BY StepWrites
<1> QED
  BY <1>1, <1>2, <1>3, <1>4, <1>5, PTL DEF Spec, WritesImage, Image!Spec, Whole
=============================================================================
