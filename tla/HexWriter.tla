----------------------------- MODULE HexWriter ------------------------------
(***************************************************************************)
(* The Intel HEX writer (src/hex.c).  Bytes gather in intel_hex.data, and  *)
(* intel_hex_flush writes them as one record when the location moves.  The *)
(* address of a record has 16 bits, so a record that sets the base comes   *)
(* before it when the base has changed.                                    *)
(*                                                                         *)
(* A program that loads the file must find in memory what was put out:     *)
(* MemoryImage, through the loader below.                                  *)
(***************************************************************************)
EXTENDS Integers, Sequences

CONSTANTS Formats,      \* the formats to choose from: "hex16" and "hex32"
          Span,         \* the values of a uint8_t, and the size of data: 256
          Paragraph,    \* the unit of the base in hex16: 16
          Bank,         \* the values of a uint16_t, which is also the unit of
                        \* the base in hex32: 65536
          Values,       \* the bytes
          MaxAddress,   \* bound on the locations
          MaxBytes,     \* bound on the bytes put out
          LongRuns      \* may Span bytes or more be put out in a row?

ASSUME HexAssumption ==
  /\ Formats \subseteq {"hex16", "hex32"}
  /\ Span \in Nat \ {0, 1} /\ Bank \in Nat \ {0} /\ Paragraph \in 1 .. Bank
  /\ MaxAddress \in Nat /\ MaxBytes \in Nat /\ LongRuns \in BOOLEAN

VARIABLES
  format,     \* output.format
  data,       \* the first intel_hex.length bytes of intel_hex.data
  address, high_address,        \* the other fields of intel_hex
  records,    \* the file
  closed,     \* has intel_hex_close been called?
  count,      \* history: the number of bytes put out
  wanted      \* history: where the caller means the next byte to go

vars == <<format, data, address, high_address, records, closed, count, wanted>>

length == Len(data)

BaseUnit == IF format = "hex16" THEN Paragraph ELSE Bank

(* Both formats write a record of type 02 with two bytes of data, of which *)
(* hex32 announces four.                                                   *)
BaseRecord(high) ==
  [type |-> "base", count |-> IF format = "hex16" THEN 2 ELSE 4, value |-> high]

DataRecord(at) ==
  [type |-> "data", count |-> length, at |-> at, bytes |-> data]

HighAfter == (address \div BaseUnit) % Bank

(* The 32-bit quotient is compared with the 16 bits kept of the last one.  *)
BaseMoves == high_address # address \div BaseUnit

(* Slip: the base is counted twice.                                        *)
WithinWhole == address % Bank

(* The address in a data record.                                           *)
Within == IF format = "hex16" THEN (address - HighAfter * Paragraph) % Bank
                              ELSE address % Bank

(* Slip: a base record in place of the data.                               *)
FlushedEither ==
  IF length = 0 THEN <<>>
  ELSE IF BaseMoves THEN <<BaseRecord(HighAfter)>> ELSE <<DataRecord(Within)>>

(* intel_hex_flush: what is added to the file.                             *)
Flushed ==
  IF length = 0 THEN <<>>
  ELSE (IF BaseMoves THEN <<BaseRecord(HighAfter)>> ELSE <<>>)
       \o <<DataRecord(Within)>>

Flush ==
  /\ records' = records \o Flushed
  /\ high_address' = IF length > 0 THEN HighAfter ELSE high_address
  /\ data' = <<>>

Moves(a) == address + length # a

(* intel_hex_set_location.                                                 *)
SetLocation(a) ==
  /\ IF Moves(a)
     THEN Flush /\ address' = a
     ELSE UNCHANGED <<records, high_address, data, address>>
  /\ wanted' = a
  /\ UNCHANGED <<format, closed, count>>

Org  == ~closed /\ \E a \in 0 .. MaxAddress : SetLocation(a)

(* intel_hex_skip.                                                         *)
Skip ==
  /\ ~closed
  /\ \E n \in 1 .. MaxAddress :
       /\ address + length + n <= MaxAddress
       /\ SetLocation(address + length + n)

(* length++ in eight bits: it never is 256, and the test for that, after   *)
(* which the buffer would be flushed, never holds.                         *)
LengthAfter == (length + 1) % Span

Buffered(v) == SubSeq(Append(data, v), 1, LengthAfter)

(* intel_hex_output_byte.                                                  *)
OutputByte ==
  /\ ~closed /\ count < MaxBytes /\ address + length <= MaxAddress
  /\ LongRuns \/ length < Span - 1
  /\ \E v \in Values : data' = Buffered(v)
  /\ count' = count + 1 /\ wanted' = wanted + 1
  /\ UNCHANGED <<format, address, high_address, records, closed>>

(* intel_hex_close.                                                        *)
Close ==
  /\ ~closed /\ closed' = TRUE
  /\ Flush
  /\ UNCHANGED <<format, address, count, wanted>>

Init ==
  /\ format \in Formats
  /\ data = <<>> /\ address = 0 /\ high_address = 0
  /\ records = <<>> /\ closed = FALSE /\ count = 0 /\ wanted = 0

Next == Org \/ Skip \/ OutputByte \/ Close \/ (closed /\ UNCHANGED vars)

Spec == Init /\ [][Next]_vars
-----------------------------------------------------------------------------
(***************************************************************************)
(* A loader: a record of type 02 sets the base, in paragraphs whatever the *)
(* format, and a data record goes to its address above the base last set,  *)
(* over what earlier records have put there.                               *)
(***************************************************************************)
Placed(bytes, first, memory) ==
  LET there == first .. first + Len(bytes) - 1
  IN  [a \in DOMAIN memory \cup there |->
         IF a \in there THEN bytes[a - first + 1] ELSE memory[a]]

Load(m, r) ==
  IF r.type = "base" THEN [m EXCEPT !.base = r.value * Paragraph]
  ELSE [m EXCEPT !.memory = Placed(r.bytes, m.base + r.at, @),
                 !.bytes = @ + Len(r.bytes)]

Unread == [base |-> 0, memory |-> <<>>, bytes |-> 0]

(* Its state when it has read a file.                                      *)
Read(rs) ==
  LET after[k \in 0 .. Len(rs)] ==
        IF k = 0 THEN Unread ELSE Load(after[k - 1], rs[k])
  IN  after[Len(rs)]

Image == INSTANCE MemoryImage
           WITH memory <- Read(records \o Flushed).memory, location <- wanted

(* The loaded file, with what the buffer still holds, is at all times the  *)
(* memory the bytes were put into, wherever the location was moved between *)
(* them (hex.c:64-83).                                                     *)
WritesImage == Image!Spec

(* Every byte put out is in the file once it is closed.                    *)
BytesWritten == closed => Read(records).bytes = count
=============================================================================
