----------------------------- MODULE DataProofs -----------------------------
(***************************************************************************)
(* Proofs about two of the ways data come in.                              *)
(*                                                                         *)
(* The reader of raw files writes every field of the line once and in      *)
(* order, in a line of any length and for any bytes, when one chunk is     *)
(* mapped.  The invariant says how far the reader has come: what it wrote  *)
(* are the fields that end before that position.                           *)
(*                                                                         *)
(* A compressed column gets codes that fit their width, and what a filter  *)
(* unit compares, codes with codes, is what the query compares, whatever   *)
(* the values.  The codes are counts of smaller values, so the argument is *)
(* one about cardinalities.                                               *)
(***************************************************************************)
EXTENDS RawReader, ScanPredicate, FiniteSetTheorems, TLAPS

OneChunk == Chunks = 1

\* The bytes of the line before this one have been looked at for attributes.
Position ==
  CASE at = "tuple" -> tuple_start
    [] at = "attribute" -> att_id
    [] OTHER -> CLBytes

FieldsBefore(p) == {f \in Fields : f[2] < p}

\* The attributes these fields of chunk 1 are written as.
FieldsWritten(F) == {<<1, f[1], f[2]>> : f \in F}

\* Which values the variables take.
RawTypeInv ==
  /\ at \in {"open", "loop", "tuple", "attribute", "done", "crash"}
  /\ text \in UNION {[0 .. n - 1 -> {Bar, Newline, Other}] : n \in 0 .. CLBytes}
  /\ \/ raw_buffers = <<>> /\ total_chunks = -1
     \/ raw_buffers \in [1 .. 1 -> BOOLEAN] /\ total_chunks = 0
  /\ next_chunk \in {0, 1}
  /\ byte_id \in Nat /\ tuple_start \in Nat /\ att_id \in Nat /\ att_start \in Nat
  /\ atts \in Seq(Nat \X Nat \X Nat)

\* Precedes the chunk is mapped.
UnreadInv ==
  next_chunk = 0 =>
    /\ at \in {"open", "loop", "done"}
    /\ atts = <<>> /\ released = {}
    /\ at = "open" => total_chunks = -1
    /\ at = "done" => total_chunks = -1

\* Once it is, until it is unmapped.
MappedInv ==
  next_chunk = 1 =>
    /\ at # "open"
    /\ total_chunks = 0
    /\ released = IF at \in {"loop", "done"} THEN {1} ELSE {}

\* A tuple is being looked for: it began at the line's start or after a newline.
TupleInv ==
  at = "tuple" =>
    /\ tuple_start <= byte_id /\ byte_id <= CLBytes
    /\ byte_id = CLBytes => tuple_start = CLBytes
    /\ \A i \in tuple_start .. byte_id - 1 : Byte(i) # Newline
    /\ tuple_start \in {0, CLBytes} \/ Byte(tuple_start - 1) = Newline

\* A tuple is being split: the attribute at hand began at the line's start, after
\* a newline or after a bar, and has only other bytes so far.
AttributeInv ==
  at = "attribute" =>
    /\ byte_id < CLBytes /\ TupleEnds(byte_id)
    /\ tuple_start <= att_start /\ att_start <= att_id /\ att_id <= byte_id
    /\ \A i \in tuple_start .. byte_id - 1 : Byte(i) # Newline
    /\ \A i \in att_start .. att_id - 1 : Byte(i) = Other
    /\ att_start = 0 \/ Byte(att_start - 1) # Other

\* What was written: the fields up to the position, each once.
WrittenInv ==
  next_chunk = 1 /\ at # "crash" =>
    /\ Range(atts) = FieldsWritten(FieldsBefore(Position))
    /\ \A i, j \in DOMAIN atts : i < j => atts[i][3] < atts[j][3]

\* A fault has a cause in the file.
FaultInv == at = "crash" => DOMAIN text = {} \/ FALSE \in Range(raw_buffers)

RawInv ==
  /\ RawTypeInv /\ UnreadInv /\ MappedInv
  /\ TupleInv /\ AttributeInv /\ WrittenInv /\ FaultInv
-----------------------------------------------------------------------------
\* Every byte of the line is one of three.
LEMMA ByteKinds == ASSUME RawTypeInv, NEW i \in Int PROVE Byte(i) \in {Bar, Newline, Other}
<1>1. PICK n \in 0 .. CLBytes : text \in [0 .. n - 1 -> {Bar, Newline, Other}]
  BY DEF RawTypeInv
<1> QED BY <1>1 DEF Byte

\* The length of a line is a number.
LEMMA LineLength == CLBytes \in Nat \ {0}
BY RawReaderAssumption

\* A position that no field ends at adds none to the fields before it.
LEMMA NoFieldEnds ==
  ASSUME NEW p \in Nat, Byte(p) # Bar \/ p = CLBytes - 1 \/ p >= CLBytes
  PROVE  FieldsBefore(p + 1) = FieldsBefore(p)
<1>1. \A f \in Fields : f[2] \in 0 .. CLBytes - 2 /\ Byte(f[2]) = Bar
  BY LineLength DEF Fields
<1>2. \A f \in Fields : f[2] # p
  BY <1>1, LineLength
<1>3. \A f \in Fields : f[2] < p + 1 <=> f[2] < p
  BY <1>1, <1>2, LineLength
<1> QED BY <1>3 DEF FieldsBefore

\* A bar adds the one field that ends there: it begins where other bytes began.
LEMMA OneFieldEnds ==
  ASSUME NEW p \in 0 .. CLBytes - 2, NEW s \in 0 .. p, Byte(p) = Bar,
         \A i \in s .. p - 1 : Byte(i) = Other,
         s = 0 \/ Byte(s - 1) # Other
  PROVE  FieldsBefore(p + 1) = FieldsBefore(p) \cup {<<s, p>>}
<1> USE LineLength
<1>1. <<s, p>> \in Fields
  <2>1. <<s, p>> \in (0 .. CLBytes - 1) \X (0 .. CLBytes - 2)
    OBVIOUS
  <2> QED BY <2>1 DEF Fields
<1>2. ASSUME NEW f \in Fields, f[2] = p
      PROVE  f = <<s, p>>
  <2>1. f = <<f[1], f[2]>> /\ f[1] \in 0 .. p
    BY <1>2 DEF Fields
  <2>2. /\ \A i \in f[1] .. p - 1 : Byte(i) = Other
        /\ f[1] = 0 \/ Byte(f[1] - 1) # Other
    BY <1>2 DEF Fields
  <2>3. ~ f[1] < s
    <3>1. SUFFICES ASSUME f[1] < s PROVE FALSE
      OBVIOUS
    <3>2. s - 1 \in f[1] .. p - 1
      BY <2>1, <3>1
    <3> QED BY <2>1, <2>2, <3>1, <3>2
  <2>4. ~ s < f[1]
    <3>1. SUFFICES ASSUME s < f[1] PROVE FALSE
      OBVIOUS
    <3>2. f[1] - 1 \in s .. p - 1
      BY <2>1, <3>1
    <3> QED BY <2>1, <2>2, <3>1, <3>2
  <2> QED BY <1>2, <2>1, <2>3, <2>4
<1>3. \A f \in Fields : f[2] \in 0 .. CLBytes - 2
  BY DEF Fields
<1>4. \A f \in Fields : f[2] < p + 1 <=> (f[2] < p \/ f = <<s, p>>)
  BY <1>2, <1>3
<1> QED BY <1>1, <1>4 DEF FieldsBefore

\* What a sequence and its range gain by an element at the end.
LEMMA AppendedElements ==
  ASSUME NEW S, NEW q \in Seq(S), NEW x \in S
  PROVE  /\ DOMAIN q = 1 .. Len(q) /\ DOMAIN Append(q, x) = 1 .. Len(q) + 1
         /\ Len(q) \in Nat
         /\ \A i \in DOMAIN q : Append(q, x)[i] = q[i]
         /\ Append(q, x)[Len(q) + 1] = x
OBVIOUS

LEMMA RangeOfAppend ==
  ASSUME NEW S, NEW q \in Seq(S), NEW x \in S
  PROVE  Range(Append(q, x)) = Range(q) \cup {x}
<1>1. DOMAIN Append(q, x) = (DOMAIN q) \cup {Len(q) + 1}
  BY AppendedElements
<1> QED BY <1>1, AppendedElements DEF Range

\* One more field is one more attribute.
LEMMA WrittenUnion ==
  ASSUME NEW F, NEW g
  PROVE  FieldsWritten(F \cup {g}) = FieldsWritten(F) \cup {<<1, g[1], g[2]>>}
BY DEF FieldsWritten
-----------------------------------------------------------------------------
LEMMA RawInit == ASSUME OneChunk, ReaderInit PROVE RawInv
<1> USE DEF ReaderInit
<1>1. RawTypeInv
  <2>1. atts \in Seq(Nat \X Nat \X Nat)
    OBVIOUS
  <2> QED BY <2>1 DEF RawTypeInv
<1>2. UnreadInv
  BY DEF UnreadInv
<1>3. next_chunk # 1 /\ at \notin {"tuple", "attribute", "crash"}
  OBVIOUS
<1> QED BY <1>1, <1>2, <1>3 DEF RawInv, MappedInv, TupleInv, AttributeInv, WrittenInv, FaultInv

\* The file is opened and mapped or not.
LEMMA RawOpen == ASSUME OneChunk, RawInv, InitializeTable PROVE RawInv'
<1> USE DEF InitializeTable
<1>1. next_chunk = 0 /\ raw_buffers = <<>> /\ total_chunks = -1
  BY DEF RawInv, RawTypeInv, UnreadInv, MappedInv
<1>2. RawTypeInv'
  <2>1. at' = "loop" /\ text' = text /\ next_chunk' = next_chunk /\ byte_id' = byte_id
          /\ tuple_start' = tuple_start /\ att_id' = att_id /\ att_start' = att_start
          /\ atts' = atts
    BY DEF tuples, attributes
  <2>2. \/ raw_buffers' = <<>> /\ total_chunks' = -1
        \/ raw_buffers' \in [1 .. 1 -> BOOLEAN] /\ total_chunks' = 0
    BY <1>1 DEF OneChunk
  <2> QED BY <2>1, <2>2 DEF RawInv, RawTypeInv
<1>3. UnreadInv'
  BY <1>1 DEF RawInv, UnreadInv
<1>4. next_chunk' # 1 /\ at' = "loop"
  BY <1>1
<1> QED BY <1>2, <1>3, <1>4 DEF RawInv, MappedInv, TupleInv, AttributeInv, WrittenInv, FaultInv

\* No field ends before the line's first byte.
LEMMA NoFieldBeforeZero == FieldsBefore(0) = {}
BY LineLength DEF FieldsBefore, Fields

\* The chunk is looked at, or the look faults.
LEMMA RawMap == ASSUME OneChunk, RawInv, MapNextChunk PROVE RawInv'
<1> USE DEF MapNextChunk
<1>1. /\ next_chunk = 0 /\ total_chunks = 0 /\ raw_buffers \in [1 .. 1 -> BOOLEAN]
      /\ atts = <<>> /\ released = {}
  BY DEF RawInv, RawTypeInv, UnreadInv, MappedInv, moreChunks
<1>2. /\ next_chunk' = 1 /\ total_chunks' = 0 /\ raw_buffers' = raw_buffers
      /\ text' = text /\ atts' = <<>> /\ released' = {}
      /\ byte_id' = 0 /\ tuple_start' = 0 /\ at' \in {"tuple", "crash"}
  BY <1>1 DEF table
<1>3. RawTypeInv'
  <2>1. att_id' = att_id /\ att_start' = att_start
    BY DEF attributes
  <2> QED BY <1>1, <1>2, <2>1 DEF RawInv, RawTypeInv
<1>4. UnreadInv' /\ MappedInv'
  BY <1>2 DEF UnreadInv, MappedInv
<1>5. TupleInv' /\ AttributeInv'
  BY <1>2, LineLength DEF TupleInv, AttributeInv
<1>6. WrittenInv'
  <2>1. CASE at' = "tuple"
    <3>1. Position' = 0 /\ Range(atts') = {} /\ DOMAIN atts' = {}
      BY <1>2, <2>1 DEF Position, Range
    <3>2. FieldsBefore(0)' = {}
      BY <1>2, NoFieldBeforeZero DEF FieldsBefore, Fields, Byte
    <3>3. FieldsBefore(Position)' = {}
      BY <3>1, <3>2 DEF FieldsBefore
    <3> QED BY <3>1, <3>3 DEF WrittenInv, FieldsWritten
  <2>2. CASE at' = "crash"
    BY <2>2 DEF WrittenInv
  <2> QED BY <1>2, <2>1, <2>2
<1>7. FaultInv'
  <2>1. SUFFICES ASSUME at' = "crash" PROVE DOMAIN text = {} \/ FALSE \in Range(raw_buffers)
    BY <1>2 DEF FaultInv
  <2>2. ~raw_buffers[1] \/ DOMAIN text = {}
    BY <1>1, <2>1
  <2>3. raw_buffers[1] \in BOOLEAN /\ 1 \in DOMAIN raw_buffers
    BY <1>1
  <2>4. CASE ~raw_buffers[1]
    <3>1. raw_buffers[1] = FALSE
      BY <2>3, <2>4
    <3> QED BY <2>3, <3>1, Zenon DEF Range
  <2> QED BY <2>2, <2>4
<1> QED BY <1>3, <1>4, <1>5, <1>6, <1>7 DEF RawInv

\* The loop ends.
LEMMA RawEnd == ASSUME OneChunk, RawInv, NoMoreChunks PROVE RawInv'
<1> USE DEF NoMoreChunks
<1>1. /\ at = "loop" /\ at' = "done" /\ text' = text /\ raw_buffers' = raw_buffers
      /\ total_chunks' = total_chunks /\ next_chunk' = next_chunk /\ atts' = atts
      /\ released' = released /\ byte_id' = byte_id /\ tuple_start' = tuple_start
      /\ att_id' = att_id /\ att_start' = att_start
  BY DEF table, tuples, attributes
<1>2. RawTypeInv'
  BY <1>1 DEF RawInv, RawTypeInv
<1>3. UnreadInv'
  BY <1>1 DEF RawInv, RawTypeInv, UnreadInv, moreChunks
<1>4. MappedInv'
  BY <1>1 DEF RawInv, MappedInv
<1>5. WrittenInv'
  <2>1. Position' = Position
    BY <1>1 DEF Position
  <2>2. FieldsBefore(Position)' = FieldsBefore(Position)
    BY <1>1, <2>1 DEF FieldsBefore, Fields, Byte
  <2> QED BY <1>1, <2>2 DEF RawInv, WrittenInv
<1> QED BY <1>1, <1>2, <1>3, <1>4, <1>5 DEF RawInv, TupleInv, AttributeInv, FaultInv

\* While a tuple is looked for or split, the chunk is the first.
LEMMA RawReading ==
  ASSUME RawInv, at \in {"tuple", "attribute"}
  PROVE  next_chunk = 1 /\ total_chunks = 0 /\ raw_buffers \in [1 .. 1 -> BOOLEAN] /\ released = {}
BY DEF RawInv, RawTypeInv, UnreadInv, MappedInv

\* One byte of the search for a tuple's end.
LEMMA RawByte == ASSUME OneChunk, RawInv, NextByte PROVE RawInv'
<1> USE DEF NextByte
<1>1. /\ at = "tuple" /\ byte_id < CLBytes /\ text' = text /\ raw_buffers' = raw_buffers
      /\ total_chunks' = total_chunks /\ next_chunk' = next_chunk /\ atts' = atts
      /\ released' = released /\ tuple_start' = tuple_start
  BY DEF table
<1>2. /\ next_chunk = 1 /\ total_chunks = 0 /\ released = {}
      /\ byte_id \in Nat /\ tuple_start \in Nat /\ att_id \in Nat /\ att_start \in Nat
      /\ tuple_start <= byte_id
      /\ \A i \in tuple_start .. byte_id - 1 : Byte(i) # Newline
      /\ tuple_start \in {0, CLBytes} \/ Byte(tuple_start - 1) = Newline
  BY <1>1, RawReading DEF RawInv, RawTypeInv, TupleInv
<1>3. \A i : Byte(i)' = Byte(i)
  BY <1>1 DEF Byte
<1>4. CASE TupleEnds(byte_id)
  <2>1. at' = "attribute" /\ att_id' = tuple_start /\ att_start' = tuple_start
          /\ byte_id' = byte_id
    BY <1>1, <1>4
  <2>2. RawTypeInv'
    BY <1>1, <1>2, <2>1 DEF RawInv, RawTypeInv
  <2>3. UnreadInv' /\ MappedInv'
    BY <1>1, <1>2, <2>1 DEF UnreadInv, MappedInv
  <2>4. AttributeInv'
    <3>1. tuple_start = 0 \/ Byte(tuple_start - 1) # Other
      BY <1>1, <1>2, RawReaderAssumption
    <3>2. TupleEnds(byte_id)'
      BY <1>3, <1>4, <2>1 DEF TupleEnds
    <3>3. \A i \in tuple_start .. tuple_start - 1 : FALSE
      BY <1>2
    <3> QED BY <1>1, <1>2, <1>3, <2>1, <3>1, <3>2, <3>3 DEF AttributeInv
  <2>5. WrittenInv'
    <3>1. Position' = Position
      BY <1>1, <2>1 DEF Position
    <3>2. FieldsBefore(Position)' = FieldsBefore(Position)
      BY <1>1, <3>1 DEF FieldsBefore, Fields, Byte
    <3> QED BY <1>1, <2>1, <3>2 DEF RawInv, WrittenInv
  <2> QED BY <2>1, <2>2, <2>3, <2>4, <2>5 DEF RawInv, TupleInv, FaultInv
<1>5. CASE ~TupleEnds(byte_id)
  <2>1. at' = "tuple" /\ byte_id' = byte_id + 1 /\ att_id' = att_id /\ att_start' = att_start
    BY <1>1, <1>5 DEF attributes
  <2>2. RawTypeInv'
    BY <1>1, <1>2, <2>1 DEF RawInv, RawTypeInv
  <2>3. UnreadInv' /\ MappedInv'
    BY <1>1, <1>2, <2>1 DEF UnreadInv, MappedInv
  <2>4. TupleInv'
    <3>1. Byte(byte_id) # Newline /\ byte_id # CLBytes - 1
      BY <1>5 DEF TupleEnds
    <3>2. byte_id + 1 < CLBytes
      BY <1>1, <1>2, <3>1, LineLength
    <3>3. \A i \in tuple_start .. byte_id : Byte(i) # Newline
      BY <1>2, <3>1
    <3>4. \A i \in tuple_start .. byte_id : Byte(i)' # Newline
      BY <1>3, <3>3
    <3>5. \A i \in (tuple_start .. byte_id - 1)' : Byte(i)' # Newline
      BY <1>1, <1>2, <2>1, <3>4
    <3>6. tuple_start' \in {0, CLBytes} \/ Byte(tuple_start - 1)' = Newline
      BY <1>1, <1>2, <1>3
    <3>7. /\ tuple_start' <= byte_id' /\ byte_id' <= CLBytes
          /\ byte_id' = CLBytes => tuple_start' = CLBytes
      BY <1>1, <1>2, <2>1, <3>2, LineLength
    <3> QED BY <3>5, <3>6, <3>7 DEF TupleInv
  <2>5. WrittenInv'
    <3>1. Position' = Position
      BY <1>1, <2>1 DEF Position
    <3>2. FieldsBefore(Position)' = FieldsBefore(Position)
      BY <1>1, <3>1 DEF FieldsBefore, Fields, Byte
    <3> QED BY <1>1, <2>1, <3>2 DEF RawInv, WrittenInv
  <2> QED BY <2>1, <2>2, <2>3, <2>4, <2>5 DEF RawInv, AttributeInv, FaultInv
<1> QED BY <1>4, <1>5

\* One byte of a tuple: a bar ends the attribute at hand.
LEMMA RawAttribute == ASSUME OneChunk, RawInv, NextAttributeByte PROVE RawInv'
<1> USE DEF NextAttributeByte
<1>1. /\ at = "attribute" /\ at' = at /\ att_id < byte_id /\ att_id' = att_id + 1
      /\ text' = text /\ raw_buffers' = raw_buffers
      /\ total_chunks' = total_chunks /\ next_chunk' = next_chunk
      /\ released' = released /\ byte_id' = byte_id /\ tuple_start' = tuple_start
  BY DEF table, tuples
<1>2. /\ next_chunk = 1 /\ total_chunks = 0 /\ released = {}
      /\ byte_id \in Nat /\ tuple_start \in Nat /\ att_id \in Nat /\ att_start \in Nat
      /\ atts \in Seq(Nat \X Nat \X Nat)
  BY <1>1, RawReading DEF RawInv, RawTypeInv
<1>3. /\ byte_id < CLBytes /\ TupleEnds(byte_id)
      /\ tuple_start <= att_start /\ att_start <= att_id /\ att_id <= byte_id
      /\ \A i \in tuple_start .. byte_id - 1 : Byte(i) # Newline
      /\ \A i \in att_start .. att_id - 1 : Byte(i) = Other
      /\ att_start = 0 \/ Byte(att_start - 1) # Other
  BY <1>1 DEF RawInv, AttributeInv
<1>4. \A i : Byte(i)' = Byte(i)
  BY <1>1 DEF Byte
<1>5. Position = att_id /\ Position' = att_id + 1
  BY <1>1 DEF Position
<1>6. FieldsBefore(Position)' = FieldsBefore(att_id + 1)
  <2>1. Fields' = Fields
    BY <1>1 DEF Fields, Byte
  <2> QED BY <1>5, <2>1 DEF FieldsBefore
<1>7. /\ Range(atts) = FieldsWritten(FieldsBefore(att_id))
      /\ \A i, j \in DOMAIN atts : i < j => atts[i][3] < atts[j][3]
  BY <1>1, <1>2, <1>5 DEF RawInv, WrittenInv, FieldsWritten
<1>8. UnreadInv' /\ MappedInv'
  BY <1>1, <1>2 DEF UnreadInv, MappedInv
<1>9. TupleEnds(byte_id)'
  BY <1>1, <1>3, <1>4 DEF TupleEnds
<1>10. CASE Byte(att_id) = Bar
  <2>1. atts' = Append(atts, <<1, att_start, att_id>>) /\ att_start' = att_id + 1
    BY <1>1, <1>2, <1>10
  <2>2. RawTypeInv'
    <3>1. <<1, att_start, att_id>> \in Nat \X Nat \X Nat
      BY <1>2
    <3>2. atts' \in Seq(Nat \X Nat \X Nat)
      BY <1>2, <2>1, <3>1
    <3> QED BY <1>1, <1>2, <2>1, <3>2 DEF RawInv, RawTypeInv
  <2>3. AttributeInv'
    <3>1. \A i \in att_id + 1 .. att_id : FALSE
      BY <1>2
    <3>2. (att_id + 1) - 1 = att_id
      BY <1>2
    <3>3. Byte(att_id) # Other
      BY <1>10, RawReaderAssumption
    <3>4. \A i \in (tuple_start .. byte_id - 1)' : Byte(i)' # Newline
      BY <1>1, <1>3, <1>4
    <3>5. \A i \in (att_start .. att_id - 1)' : Byte(i)' = Other
      BY <1>1, <2>1, <3>1, <3>2
    <3>6. Byte(att_start - 1)' # Other
      BY <1>1, <2>1, <3>2, <3>3 DEF Byte
    <3>7. /\ byte_id' < CLBytes /\ TupleEnds(byte_id)'
          /\ tuple_start' <= att_start' /\ att_start' <= att_id' /\ att_id' <= byte_id'
      BY <1>1, <1>2, <1>3, <1>9, <2>1
    <3> QED BY <3>4, <3>5, <3>6, <3>7 DEF AttributeInv
  <2>4. WrittenInv'
    <3>1. FieldsBefore(att_id + 1) = FieldsBefore(att_id) \cup {<<att_start, att_id>>}
      <4>1. att_id \in 0 .. CLBytes - 2 /\ att_start \in 0 .. att_id
        BY <1>1, <1>2, <1>3, LineLength
      <4> QED BY <1>3, <1>10, <4>1, OneFieldEnds
    <3> DEFINE x == <<1, att_start, att_id>>
               T == Nat \X Nat \X Nat
    <3>2. x \in T /\ atts \in Seq(T) /\ atts' = Append(atts, x) /\ x[3] = att_id
      BY <1>2, <2>1
    <3>3. Range(atts') = Range(atts) \cup {x}
      <4> HIDE DEF x, T
      <4> QED BY <3>2, RangeOfAppend
    <3>4. FieldsWritten(FieldsBefore(att_id + 1)) = FieldsWritten(FieldsBefore(att_id)) \cup {x}
      <4> DEFINE F == FieldsBefore(att_id)
                 g == <<att_start, att_id>>
      <4>1. x = <<1, g[1], g[2]>>
        OBVIOUS
      <4>2. FieldsWritten(F \cup {g}) = FieldsWritten(F) \cup {<<1, g[1], g[2]>>}
        <5> HIDE DEF F, g
        <5> QED BY WrittenUnion
      <4>3. FieldsBefore(att_id + 1) = F \cup {g}
        BY <3>1
      <4> HIDE DEF F, g, x
      <4> QED BY <4>1, <4>2, <4>3 DEF F
    <3>5. Range(atts') = FieldsWritten(FieldsBefore(Position)')
      BY <1>6, <1>7, <3>3, <3>4
    <3>6. \A i \in DOMAIN atts : atts[i][3] < att_id
      <4>1. SUFFICES ASSUME NEW i \in DOMAIN atts PROVE atts[i][3] < att_id
        OBVIOUS
      <4>2. atts[i] \in Range(atts)
        BY DEF Range
      <4>3. PICK f \in FieldsBefore(att_id) : atts[i] = <<1, f[1], f[2]>>
        BY <1>7, <4>2 DEF FieldsWritten
      <4> QED BY <4>3 DEF FieldsBefore
    <3>7. \A i, j \in DOMAIN atts' : i < j => atts'[i][3] < atts'[j][3]
      <4>1. SUFFICES ASSUME NEW i \in DOMAIN atts', NEW j \in DOMAIN atts', i < j
                     PROVE  atts'[i][3] < atts'[j][3]
        OBVIOUS
      <4>2. /\ DOMAIN atts = 1 .. Len(atts) /\ DOMAIN atts' = 1 .. Len(atts) + 1
            /\ Len(atts) \in Nat
            /\ \A k \in DOMAIN atts : atts'[k] = atts[k]
            /\ atts'[Len(atts) + 1] = x
        <5> HIDE DEF x, T
        <5> QED BY <3>2, AppendedElements
      <4>3. i \in DOMAIN atts /\ atts'[i] = atts[i]
        BY <4>1, <4>2
      <4>4. CASE j \in DOMAIN atts
        BY <1>7, <4>1, <4>2, <4>3, <4>4
      <4>5. CASE j \notin DOMAIN atts
        <5>1. j = Len(atts) + 1
          BY <4>2, <4>5
        <5>2. atts'[j][3] = att_id
          BY <3>2, <4>2, <5>1
        <5> QED BY <3>6, <4>3, <5>2
      <4> QED BY <4>4, <4>5
    <3> QED BY <3>5, <3>7 DEF WrittenInv
  <2> QED BY <1>1, <1>8, <2>2, <2>3, <2>4 DEF RawInv, TupleInv, FaultInv
<1>11. CASE Byte(att_id) # Bar
  <2>1. atts' = atts /\ att_start' = att_start
    BY <1>1, <1>11
  <2>2. RawTypeInv'
    BY <1>1, <1>2, <2>1 DEF RawInv, RawTypeInv
  <2>3. AttributeInv'
    <3>1. Byte(att_id) = Other
      <4>1. Byte(att_id) \in {Bar, Newline, Other}
        BY <1>2, ByteKinds DEF RawInv
      <4>2. att_id \in tuple_start .. byte_id - 1
        BY <1>1, <1>2, <1>3
      <4> QED BY <1>3, <1>11, <4>1, <4>2
    <3>2. \A i \in att_start .. att_id : Byte(i)' = Other
      BY <1>2, <1>3, <1>4, <3>1
    <3>3. \A i \in (att_start .. att_id - 1)' : Byte(i)' = Other
      BY <1>1, <1>2, <2>1, <3>2
    <3>4. \A i \in (tuple_start .. byte_id - 1)' : Byte(i)' # Newline
      BY <1>1, <1>3, <1>4
    <3>5. att_start' = 0 \/ Byte(att_start - 1)' # Other
      BY <1>3, <1>4, <2>1 DEF Byte
    <3>6. /\ byte_id' < CLBytes /\ TupleEnds(byte_id)'
          /\ tuple_start' <= att_start' /\ att_start' <= att_id' /\ att_id' <= byte_id'
      BY <1>1, <1>2, <1>3, <1>9, <2>1
    <3> QED BY <3>3, <3>4, <3>5, <3>6 DEF AttributeInv
  <2>4. WrittenInv'
    <3>1. FieldsBefore(att_id + 1) = FieldsBefore(att_id)
      BY <1>2, <1>11, NoFieldEnds
    <3>2. FieldsBefore(Position)' = FieldsBefore(att_id)
      BY <1>6, <3>1
    <3> QED BY <1>7, <2>1, <3>2 DEF WrittenInv
  <2> QED BY <1>1, <1>8, <2>2, <2>3, <2>4 DEF RawInv, TupleInv, FaultInv
<1> QED BY <1>10, <1>11

\* A tuple is done: the next begins after its end.
LEMMA RawTuple == ASSUME OneChunk, RawInv, EndTuple PROVE RawInv'
<1> USE DEF EndTuple
<1>1. /\ at = "attribute" /\ at' = "tuple" /\ att_id = byte_id
      /\ tuple_start' = byte_id + 1 /\ byte_id' = byte_id + 1
      /\ text' = text /\ raw_buffers' = raw_buffers
      /\ total_chunks' = total_chunks /\ next_chunk' = next_chunk
      /\ released' = released /\ atts' = atts /\ att_id' = att_id /\ att_start' = att_start
  BY DEF table, attributes
<1>2. /\ next_chunk = 1 /\ total_chunks = 0 /\ released = {}
      /\ byte_id \in Nat /\ tuple_start \in Nat /\ att_id \in Nat /\ att_start \in Nat
      /\ byte_id < CLBytes /\ TupleEnds(byte_id)
  BY <1>1, RawReading DEF RawInv, RawTypeInv, AttributeInv
<1>3. RawTypeInv'
  BY <1>1, <1>2 DEF RawInv, RawTypeInv
<1>4. UnreadInv' /\ MappedInv'
  BY <1>1, <1>2 DEF UnreadInv, MappedInv
<1>5. TupleInv'
  <2>1. byte_id + 1 = CLBytes \/ Byte(byte_id) = Newline
    BY <1>1, <1>2, LineLength DEF TupleEnds
  <2>2. (byte_id + 1) - 1 = byte_id
    BY <1>2
  <2>3. tuple_start' \in {0, CLBytes} \/ Byte(tuple_start - 1)' = Newline
    BY <1>1, <2>1, <2>2 DEF Byte
  <2>4. \A i \in (tuple_start .. byte_id - 1)' : FALSE
    BY <1>1, <1>2
  <2>5. tuple_start' <= byte_id' /\ byte_id' <= CLBytes
          /\ (byte_id' = CLBytes => tuple_start' = CLBytes)
    BY <1>1, <1>2, LineLength
  <2> QED BY <2>3, <2>4, <2>5 DEF TupleInv
<1>6. WrittenInv'
  <2>1. Position = byte_id /\ Position' = byte_id + 1
    BY <1>1 DEF Position
  <2>2. FieldsBefore(byte_id + 1) = FieldsBefore(byte_id)
    BY <1>2, NoFieldEnds, RawReaderAssumption DEF TupleEnds
  <2>3. FieldsBefore(Position)' = FieldsBefore(byte_id + 1)
    BY <1>1, <2>1 DEF FieldsBefore, Fields, Byte
  <2> QED BY <1>1, <1>2, <2>1, <2>2, <2>3 DEF RawInv, WrittenInv
<1> QED BY <1>1, <1>3, <1>4, <1>5, <1>6 DEF RawInv, AttributeInv, FaultInv

\* The chunk is unmapped at the line's end.
LEMMA RawRelease == ASSUME OneChunk, RawInv, ReleaseMappedChunk PROVE RawInv'
<1> USE DEF ReleaseMappedChunk
<1>1. /\ at = "tuple" /\ at' = "loop" /\ byte_id = CLBytes /\ released' = released \cup {next_chunk}
      /\ text' = text /\ raw_buffers' = raw_buffers
      /\ total_chunks' = total_chunks /\ next_chunk' = next_chunk /\ atts' = atts
      /\ byte_id' = byte_id /\ tuple_start' = tuple_start
      /\ att_id' = att_id /\ att_start' = att_start
  BY DEF table, tuples, attributes
<1>2. next_chunk = 1 /\ total_chunks = 0 /\ released = {} /\ tuple_start = CLBytes
  BY <1>1, RawReading DEF RawInv, TupleInv
<1>3. RawTypeInv'
  BY <1>1 DEF RawInv, RawTypeInv
<1>4. UnreadInv' /\ MappedInv'
  BY <1>1, <1>2 DEF UnreadInv, MappedInv
<1>5. WrittenInv'
  <2>1. Position' = Position
    BY <1>1, <1>2 DEF Position
  <2>2. FieldsBefore(Position)' = FieldsBefore(Position)
    BY <1>1, <2>1 DEF FieldsBefore, Fields, Byte
  <2> QED BY <1>1, <2>2 DEF RawInv, WrittenInv
<1> QED BY <1>1, <1>3, <1>4, <1>5 DEF RawInv, TupleInv, AttributeInv, FaultInv

\* Nothing changes.
LEMMA RawStutter == ASSUME RawInv, UNCHANGED readerVars PROVE RawInv'
<1>1. /\ at' = at /\ text' = text /\ raw_buffers' = raw_buffers
      /\ total_chunks' = total_chunks /\ next_chunk' = next_chunk /\ atts' = atts
      /\ byte_id' = byte_id /\ tuple_start' = tuple_start
      /\ att_id' = att_id /\ att_start' = att_start /\ released' = released
  BY DEF readerVars, table, tuples, attributes
<1>2. RawTypeInv' /\ UnreadInv' /\ MappedInv'
  BY <1>1 DEF RawInv, RawTypeInv, UnreadInv, MappedInv
<1>3. TupleInv' /\ AttributeInv' /\ FaultInv'
  BY <1>1 DEF RawInv, TupleInv, AttributeInv, FaultInv, TupleEnds, Byte
<1>4. WrittenInv'
  BY <1>1 DEF RawInv, WrittenInv, Position, FieldsBefore, Fields, Byte
<1> QED BY <1>2, <1>3, <1>4 DEF RawInv

LEMMA RawStep == ASSUME OneChunk, RawInv, [ReaderNext]_readerVars PROVE RawInv'
<1>1. CASE InitializeTable
  BY <1>1, RawOpen
<1>2. CASE MapNextChunk
  BY <1>2, RawMap
<1>3. CASE NoMoreChunks
  BY <1>3, RawEnd
<1>4. CASE NextByte
  BY <1>4, RawByte
<1>5. CASE NextAttributeByte
  BY <1>5, RawAttribute
<1>6. CASE EndTuple
  BY <1>6, RawTuple
<1>7. CASE ReleaseMappedChunk
  BY <1>7, RawRelease
<1>8. CASE Ended \/ UNCHANGED readerVars
  BY <1>8, RawStutter DEF Ended
<1> QED BY <1>1, <1>2, <1>3, <1>4, <1>5, <1>6, <1>7, <1>8 DEF ReaderNext

\* What the invariant says of the loop's end is what is asked of the reader.
LEMMA RawInvImplies == ASSUME RawInv PROVE ExtractsFields
<1>1. ASSUME at = "done"
      PROVE  /\ released = DOMAIN raw_buffers
             /\ Range(atts) = AllFields
             /\ \A i, j \in DOMAIN atts : i < j => Precedes(atts[i], atts[j])
  <2>1. CASE next_chunk = 0
    <3>1. DOMAIN raw_buffers = {} /\ atts = <<>> /\ released = {}
      BY <1>1, <2>1 DEF RawInv, RawTypeInv, UnreadInv
    <3>2. DOMAIN atts = {} /\ Range(atts) = {}
      BY <3>1 DEF Range
    <3> QED BY <3>1, <3>2 DEF AllFields
  <2>2. CASE next_chunk = 1
    <3>1. DOMAIN raw_buffers = {1} /\ released = {1}
      BY <1>1, <2>2 DEF RawInv, RawTypeInv, MappedInv
    <3>2. FieldsBefore(Position) = Fields
      BY <1>1, LineLength DEF FieldsBefore, Fields, Position
    <3>3. /\ Range(atts) = {<<1, f[1], f[2]>> : f \in Fields}
          /\ \A i, j \in DOMAIN atts : i < j => atts[i][3] < atts[j][3]
      BY <1>1, <2>2, <3>2 DEF RawInv, WrittenInv, FieldsWritten
    <3>4. \A i \in DOMAIN atts : atts[i][1] = 1
      <4>1. SUFFICES ASSUME NEW i \in DOMAIN atts PROVE atts[i][1] = 1
        OBVIOUS
      <4>2. atts[i] \in Range(atts)
        BY DEF Range
      <4>3. PICK f \in Fields : atts[i] = <<1, f[1], f[2]>>
        BY <3>3, <4>2
      <4> QED BY <4>3
    <3> QED BY <3>1, <3>3, <3>4 DEF Precedes, AllFields
  <2> QED BY <2>1, <2>2 DEF RawInv, RawTypeInv
<1>2. at = "crash" => DOMAIN text = {} \/ FALSE \in Range(raw_buffers)
  BY DEF RawInv, FaultInv
<1>3. at = "done" =>
        /\ released = DOMAIN raw_buffers
        /\ Range(atts) = AllFields
        /\ \A i, j \in DOMAIN atts : i < j => Precedes(atts[i], atts[j])
  BY <1>1
<1> QED BY <1>2, <1>3 DEF ExtractsFields

\* The invariant holds in every reachable state: what has been written is each
\* field that ends before the position the reader has come to, once, in order.
THEOREM ReaderInvariant == ASSUME OneChunk PROVE ReaderSpec => []RawInv
<1>1. ReaderInit => RawInv
  BY RawInit
<1>2. RawInv /\ [ReaderNext]_readerVars => RawInv'
  BY RawStep
<1> QED BY <1>1, <1>2, PTL DEF ReaderSpec

\* With the one chunk initializeTable maps, the attributes written are the fields
\* of its first line, each once and in order, the chunk is released, and only an
\* empty or unmapped file faults, whatever the length of a line and its bytes.
THEOREM FieldsExtracted == ASSUME OneChunk PROVE ReaderSpec => []ExtractsFields
<1>1. ReaderSpec => []RawInv
  BY ReaderInvariant
<1>2. RawInv => ExtractsFields
  BY RawInvImplies
<1> QED BY <1>1, <1>2, PTL
-----------------------------------------------------------------------------
(* ScanPredicate *)

\* What ScanPredicate assumes of its columns.
RawColumns ==
  \A c \in Columns : /\ c.job \in Job /\ c.data_type \in {"INT", "STRING"}
                     /\ c.base \subseteq Raw /\ c.base # {}

LEMMA RawIsNat == Raw \subseteq Nat
<1>1. MaxRaw \in Nat
  BY DEF MaxRaw
<1> QED BY <1>1 DEF Raw

\* A set of numbers up to n is finite and has at most n + 1 of them.
LEMMA NumbersUpTo ==
  ASSUME NEW n \in Nat, NEW S, S \subseteq 0 .. n
  PROVE  IsFiniteSet(S) /\ Cardinality(S) \in Nat /\ Cardinality(S) <= n + 1
<1> DEFINE T == 0 .. n
<1>1. IsFiniteSet(T)
  BY FS_Interval
<1>2. Cardinality(T) = n + 1
  BY FS_Interval
<1>3. S \in SUBSET T
  OBVIOUS
<1> HIDE DEF T
<1>4. IsFiniteSet(S)
  BY <1>1, <1>3, FS_Subset
<1>5. Cardinality(S) <= Cardinality(T)
  BY <1>1, <1>3, FS_Subset
<1>6. Cardinality(S) \in Nat
  BY <1>4, FS_CardinalityType
<1>7. Cardinality(S) <= n + 1
  BY <1>2, <1>5
<1> QED BY <1>4, <1>6, <1>7

\* A column has finitely many distinct values: at most as many as there are.
LEMMA BaseIsFinite ==
  ASSUME RawColumns, NEW c \in Columns
  PROVE  /\ IsFiniteSet(c.base)
         /\ Cardinality(c.base) \in Nat \ {0} /\ Cardinality(c.base) <= 10000
<1> DEFINE S == c.base
<1>1. MaxRaw \in Nat
  BY DEF MaxRaw
<1>2. S \subseteq 0 .. MaxRaw /\ S # {}
  BY DEF RawColumns, Raw
<1> HIDE DEF S
<1>3. IsFiniteSet(S)
  BY <1>1, <1>2, NumbersUpTo
<1>4. Cardinality(S) \in Nat /\ Cardinality(S) <= MaxRaw + 1
  BY <1>1, <1>2, NumbersUpTo
<1>5. Cardinality(S) <= 10000
  BY <1>4 DEF MaxRaw
<1>6. Cardinality(S) # 0
  BY <1>2, <1>3, FS_EmptySet
<1> QED BY <1>3, <1>4, <1>5, <1>6 DEF S
-----------------------------------------------------------------------------
(* The codes. *)

\* The digits of a number as std::string compares them.
Aligned(n) ==
  CASE n < 10 -> n * 1000 [] n < 100 -> n * 100 [] n < 1000 -> n * 10 [] OTHER -> n

LEMMA AlignedIsNat == \A n \in Nat : Aligned(n) \in Nat
BY DEF Aligned

LEMMA BeforeIs ==
  ASSUME NEW u, NEW v
  PROVE  Before(u, v) <=>
           IF column.data_type = "INT" THEN u < v
           ELSE Aligned(u) < Aligned(v) \/ (Aligned(u) = Aligned(v) /\ u < v)
BY DEF Before, Aligned

\* Both orders are strict and total.
LEMMA OrderIsTotal ==
  ASSUME NEW u \in Raw, NEW v \in Raw
  PROVE  /\ ~ Before(u, u)
         /\ u = v \/ Before(u, v) \/ Before(v, u)
<1>1. u \in Nat /\ v \in Nat
  BY RawIsNat
<1>2. Aligned(u) \in Nat /\ Aligned(v) \in Nat
  BY <1>1, AlignedIsNat
<1>3. CASE column.data_type = "INT"
  <2>1. /\ Before(u, u) <=> u < u
        /\ Before(u, v) <=> u < v
        /\ Before(v, u) <=> v < u
    BY <1>3, BeforeIs
  <2> QED BY <1>1, <2>1
<1>4. CASE column.data_type # "INT"
  <2>1. /\ Before(u, u) <=> Aligned(u) < Aligned(u) \/ (Aligned(u) = Aligned(u) /\ u < u)
        /\ Before(u, v) <=> Aligned(u) < Aligned(v) \/ (Aligned(u) = Aligned(v) /\ u < v)
        /\ Before(v, u) <=> Aligned(v) < Aligned(u) \/ (Aligned(v) = Aligned(u) /\ v < u)
    BY <1>4, BeforeIs
  <2> QED BY <1>1, <1>2, <2>1
<1> QED BY <1>3, <1>4

LEMMA OrderIsTransitive ==
  ASSUME NEW u \in Raw, NEW v \in Raw, NEW w \in Raw,
         Before(u, v), Before(v, w)
  PROVE  Before(u, w)
<1>1. u \in Nat /\ v \in Nat /\ w \in Nat
  BY RawIsNat
<1>2. Aligned(u) \in Nat /\ Aligned(v) \in Nat /\ Aligned(w) \in Nat
  BY <1>1, AlignedIsNat
<1>3. CASE column.data_type = "INT"
  <2>1. u < v /\ v < w /\ (u < w => Before(u, w))
    BY <1>3, BeforeIs
  <2> QED BY <1>1, <2>1
<1>4. CASE column.data_type # "INT"
  <2>1. /\ Aligned(u) < Aligned(v) \/ (Aligned(u) = Aligned(v) /\ u < v)
        /\ Aligned(v) < Aligned(w) \/ (Aligned(v) = Aligned(w) /\ v < w)
    BY <1>4, BeforeIs
  <2>2. Aligned(u) < Aligned(w) \/ (Aligned(u) = Aligned(w) /\ u < w)
    BY <1>1, <1>2, <2>1
  <2> QED BY <1>4, <2>2, BeforeIs
<1> QED BY <1>3, <1>4

\* The values before one.
Lower(v) == {u \in Base : Before(u, v)}

\* A code is below the number of values.
LEMMA CodeIsSmall ==
  ASSUME RawColumns, column \in Columns, NEW v \in Base
  PROVE  Encode[v] \in 0 .. Cardinality(Base) - 1
<1>1. IsFiniteSet(Base) /\ Base \subseteq Raw
  BY BaseIsFinite DEF Base, RawColumns
<1>2. Encode[v] = Cardinality(Lower(v))
  BY DEF Encode, Lower
<1>3. Lower(v) \subseteq Base \ {v}
  BY <1>1, OrderIsTotal DEF Lower
<1>4. IsFiniteSet(Base \ {v}) /\ Cardinality(Base \ {v}) = Cardinality(Base) - 1
  BY <1>1, FS_RemoveElement
<1>5. IsFiniteSet(Lower(v)) /\ Cardinality(Lower(v)) <= Cardinality(Base) - 1
  BY <1>3, <1>4, FS_Subset
<1>6. Cardinality(Lower(v)) \in Nat /\ Cardinality(Base) \in Nat
  BY <1>1, <1>5, FS_CardinalityType
<1> QED BY <1>2, <1>5, <1>6

\* Codes keep the order.
LEMMA CodesAscend ==
  ASSUME RawColumns, column \in Columns, NEW u \in Base, NEW v \in Base, Before(u, v)
  PROVE  Encode[u] < Encode[v]
<1>1. IsFiniteSet(Base) /\ Base \subseteq Raw
  BY BaseIsFinite DEF Base, RawColumns
<1>2. Encode[u] = Cardinality(Lower(u)) /\ Encode[v] = Cardinality(Lower(v))
  BY DEF Encode, Lower
<1>3. Lower(u) \subseteq Lower(v) \ {u} /\ u \in Lower(v)
  BY <1>1, OrderIsTotal, OrderIsTransitive DEF Lower
<1>4. IsFiniteSet(Lower(v)) /\ Cardinality(Lower(v)) \in Nat
  BY <1>1, FS_Subset, FS_CardinalityType DEF Lower
<1>5. /\ IsFiniteSet(Lower(v) \ {u})
      /\ Cardinality(Lower(v) \ {u}) = Cardinality(Lower(v)) - 1
  BY <1>3, <1>4, FS_RemoveElement
<1>6. IsFiniteSet(Lower(u)) /\ Cardinality(Lower(u)) <= Cardinality(Lower(v)) - 1
  BY <1>3, <1>5, FS_Subset
<1>7. Cardinality(Lower(u)) \in Nat
  BY <1>6, FS_CardinalityType
<1> QED BY <1>2, <1>4, <1>6, <1>7

\* So equal codes are codes of one value, and numbers compare as their codes do.
LEMMA CodesCompare ==
  ASSUME RawColumns, column \in Columns, NEW u \in Base, NEW v \in Base
  PROVE  /\ Encode[u] = Encode[v] <=> u = v
         /\ column.data_type = "INT" => (Encode[u] <= Encode[v] <=> u <= v)
<1>1. u \in Raw /\ v \in Raw
  BY DEF Base, RawColumns
<1>2. Encode[u] \in Nat /\ Encode[v] \in Nat
  BY BaseIsFinite, CodeIsSmall DEF Base
<1>3. Before(u, v) => Encode[u] < Encode[v]
  BY CodesAscend
<1>4. Before(v, u) => Encode[v] < Encode[u]
  BY CodesAscend
<1>5. u = v \/ Before(u, v) \/ Before(v, u)
  BY <1>1, OrderIsTotal
<1>6. column.data_type = "INT" => (Before(u, v) <=> u < v) /\ (Before(v, u) <=> v < u)
  BY DEF Before
<1>7. Encode[u] = Encode[v] <=> u = v
  BY <1>2, <1>3, <1>4, <1>5
<1>8. ASSUME column.data_type = "INT" PROVE Encode[u] <= Encode[v] <=> u <= v
  <2>1. u \in Nat /\ v \in Nat
    BY <1>1, RawIsNat
  <2> QED BY <1>2, <1>3, <1>4, <1>6, <1>8, <2>1
<1> QED BY <1>7, <1>8
-----------------------------------------------------------------------------
(* The widths. *)

Pow(k) == 2^k

\* The powers of two the logarithms can meet.
LEMMA Powers ==
  /\ Pow(0) = 1 /\ Pow(1) = 2 /\ Pow(2) = 4 /\ Pow(3) = 8 /\ Pow(4) = 16
  /\ Pow(5) = 32 /\ Pow(6) = 64 /\ Pow(7) = 128 /\ Pow(8) = 256 /\ Pow(9) = 512
  /\ Pow(10) = 1024 /\ Pow(11) = 2048 /\ Pow(12) = 4096 /\ Pow(13) = 8192
  /\ Pow(14) = 16384 /\ Pow(15) = 32768 /\ Pow(16) = 65536 /\ Pow(17) = 131072
BY DEF Pow

\* Small powers are powers of small numbers.
LEMMA SmallPowers ==
  ASSUME NEW k \in 0 .. 17
  PROVE  /\ Pow(k) \in Nat
         /\ Pow(k) <= 8 => k <= 3
         /\ k <= 3 => Pow(k) <= 8 /\ (Pow(k) = 8 => k = 3)
         /\ k <= 7 => Pow(k) <= 128
<1>1. \/ k = 0 \/ k = 1 \/ k = 2 \/ k = 3 \/ k = 4 \/ k = 5 \/ k = 6
      \/ k = 7 \/ k = 8 \/ k = 9 \/ k = 10 \/ k = 11 \/ k = 12
      \/ k = 13 \/ k = 14 \/ k = 15 \/ k = 16 \/ k = 17
  OBVIOUS
<1> QED BY <1>1, Powers

\* The logarithm is there, and is an upper bound.
LEMMA LogIsBound ==
  ASSUME NEW n \in Nat \ {0}, n <= Pow(16)
  PROVE  CeilLog2(n) \in 0 .. 16 /\ n <= Pow(CeilLog2(n))
<1> DEFINE Log(k) == Pow(k) >= n /\ (k = 0 \/ Pow(k - 1) < n)
<1>1. \E k \in 0 .. 16 : Log(k)
  <2>1. \/ n <= 1
        \/ (1 < n /\ n <= 2) \/ (2 < n /\ n <= 4) \/ (4 < n /\ n <= 8)
        \/ (8 < n /\ n <= 16) \/ (16 < n /\ n <= 32) \/ (32 < n /\ n <= 64)
        \/ (64 < n /\ n <= 128) \/ (128 < n /\ n <= 256) \/ (256 < n /\ n <= 512)
        \/ (512 < n /\ n <= 1024) \/ (1024 < n /\ n <= 2048) \/ (2048 < n /\ n <= 4096)
        \/ (4096 < n /\ n <= 8192) \/ (8192 < n /\ n <= 16384) \/ (16384 < n /\ n <= 32768)
        \/ (32768 < n /\ n <= 65536)
    BY Powers
  <2>2. ASSUME NEW j \in 0 .. 15, NEW k \in 1 .. 16, k = j + 1, Pow(j) < n, n <= Pow(k)
        PROVE  Log(k)
    <3>1. k - 1 = j /\ Pow(k) \in Nat
      BY <2>2, SmallPowers
    <3> QED BY <2>2, <3>1
  <2>3. n <= 1 => Log(0)
    BY Powers
  <2> HIDE DEF Log
  <2>4. /\ 1 < n /\ n <= 2 => Log(1)
        /\ 2 < n /\ n <= 4 => Log(2)
        /\ 4 < n /\ n <= 8 => Log(3)
        /\ 8 < n /\ n <= 16 => Log(4)
        /\ 16 < n /\ n <= 32 => Log(5)
        /\ 32 < n /\ n <= 64 => Log(6)
        /\ 64 < n /\ n <= 128 => Log(7)
        /\ 128 < n /\ n <= 256 => Log(8)
    BY <2>2, Powers
  <2>5. /\ 256 < n /\ n <= 512 => Log(9)
        /\ 512 < n /\ n <= 1024 => Log(10)
        /\ 1024 < n /\ n <= 2048 => Log(11)
        /\ 2048 < n /\ n <= 4096 => Log(12)
        /\ 4096 < n /\ n <= 8192 => Log(13)
        /\ 8192 < n /\ n <= 16384 => Log(14)
        /\ 16384 < n /\ n <= 32768 => Log(15)
        /\ 32768 < n /\ n <= 65536 => Log(16)
    BY <2>2, Powers
  <2> QED BY <2>1, <2>3, <2>4, <2>5
<1> DEFINE l == CHOOSE k \in 0 .. 16 : Log(k)
<1>2. l \in 0 .. 16 /\ Log(l)
  <2> HIDE DEF Log
  <2> QED BY <1>1
<1>3. CeilLog2(n) = l
  BY DEF CeilLog2, Pow
<1>4. Pow(l) >= n
  BY <1>2
<1> HIDE DEF l
<1>5. l \in 0 .. 16 /\ Pow(l) \in Nat
  BY <1>2, SmallPowers
<1> QED BY <1>3, <1>4, <1>5

\* A width below 8 is enough for the codes: there are 129 of them at most.
LEMMA WidthSuffices ==
  ASSUME NEW keys \in Nat, keys <= 9999, Bits(keys) < 8
  PROVE  keys <= 128
<1>1. CASE keys \in {0, 1}
  BY <1>1
<1>2. CASE keys \notin {0, 1}
  <2> DEFINE round == CeilLog2(keys)
             k == CeilLog2(round)
  <2>1. round \in 0 .. 16 /\ keys <= Pow(round)
    <3>1. keys \in Nat \ {0} /\ keys <= Pow(16)
      BY <1>2, Powers
    <3> QED BY <3>1, LogIsBound
  <2>2. round # 0
    BY <1>2, <2>1, Powers
  <2>3. k \in 0 .. 16 /\ round <= Pow(k)
    <3> HIDE DEF round
    <3>1. round \in Nat \ {0} /\ round <= Pow(16)
      BY <2>1, <2>2, Powers
    <3> QED BY <3>1, LogIsBound
  <2>4. Bits(keys) = Pow(IF Pow(k) = round THEN k + 1 ELSE k) - 1
    BY <1>2 DEF Bits, Pow
  <2> HIDE DEF round, k
  <2>5. round <= 7
    <3>1. CASE Pow(k) = round
      <4>1. k + 1 \in 0 .. 17 /\ Pow(k + 1) - 1 < 8
        BY <2>3, <2>4, <3>1
      <4>2. k + 1 <= 3
        BY <4>1, SmallPowers
      <4>3. k \in 0 .. 17 /\ k <= 3 /\ k # 3
        BY <2>3, <4>2
      <4>4. Pow(k) <= 8 /\ Pow(k) # 8 /\ Pow(k) \in Nat
        BY <4>3, SmallPowers
      <4> QED BY <3>1, <4>4
    <3>2. CASE Pow(k) # round
      <4>1. k \in 0 .. 17 /\ Pow(k) - 1 < 8
        BY <2>3, <2>4, <3>2
      <4>2. Pow(k) <= 8
        BY <4>1, SmallPowers
      <4> QED BY <2>1, <2>3, <3>2, <4>1, <4>2, SmallPowers
    <3> QED BY <3>1, <3>2
  <2>6. Pow(round) <= 128 /\ Pow(round) \in Nat
    BY <2>1, <2>5, SmallPowers
  <2> QED BY <2>1, <2>6
<1> QED BY <1>1, <1>2
-----------------------------------------------------------------------------
(* What a column holds while it is loaded. *)

\* Compressor and Column, up to the query.
LoadInv ==
  /\ column \in Columns
  /\ pc \in {"parse", "meta", "load", "create", "write", "scan", "done"}
  /\ pc = "parse" => distinct_keys = -1
  /\ pc # "parse" => /\ bit_mapping = Encode
                     /\ distinct_keys = Cardinality(Base) - 1
  /\ pc \notin {"parse", "meta"} =>
       bit_size \in {7, 15, 31} /\ (bit_size = 7 => distinct_keys <= 128)
  /\ pc = "create" => dictionary = Encode /\ num_of_bits = bit_size + 1

LEMMA LoadInit == ASSUME RawColumns, Init PROVE LoadInv
BY DEF Init, LoadInv

\* Nothing but the column decides on the codes.
LEMMA EncodeStays ==
  ASSUME column' = column
  PROVE  Encode' = Encode /\ Base' = Base
BY DEF Encode, Base, Before

LEMMA LoadStep == ASSUME RawColumns, LoadInv, [Next]_vars PROVE LoadInv'
<1> USE DEF LoadInv
<1>1. CASE ParseColumn
  <2>1. /\ column' = column /\ pc' = "meta"
        /\ bit_mapping' = Encode
        /\ distinct_keys' = -1 + Cardinality(Base)
    BY <1>1 DEF ParseColumn
  <2>2. Cardinality(Base) \in Nat
    BY BaseIsFinite DEF Base
  <2>3. distinct_keys' = Cardinality(Base) - 1
    BY <2>1, <2>2
  <2> QED BY <2>1, <2>3, EncodeStays
<1>2. CASE WriteMetaData
  <2> USE DEF WriteMetaData
  <2>1. /\ column' = column /\ pc = "meta" /\ pc' = "load"
        /\ bit_mapping' = bit_mapping /\ distinct_keys' = distinct_keys
        /\ distinct_keys = Cardinality(Base) - 1
    BY <1>2
  <2>2. Cardinality(Base) \in Nat \ {0} /\ Cardinality(Base) <= 10000
    BY BaseIsFinite DEF Base
  <2>3. distinct_keys \in Nat /\ distinct_keys <= 9999
    BY <2>1, <2>2
  <2>4. bit_size' \in {7, 15, 31}
    BY <1>2
  <2>5. bit_size' = 7 => Bits(distinct_keys) < 8
    BY <1>2
  <2>6. bit_size' = 7 => distinct_keys <= 128
    BY <2>3, <2>5, WidthSuffices
  <2> QED BY <2>1, <2>4, <2>6, EncodeStays
<1>3. CASE InitializeColumn
  <2>1. /\ column' = column /\ pc = "load" /\ pc' = "create"
        /\ bit_mapping' = bit_mapping /\ distinct_keys' = distinct_keys /\ bit_size' = bit_size
        /\ dictionary' = bit_mapping /\ num_of_bits' = bit_size + 1
    BY <1>3 DEF InitializeColumn, NumOfBits, compressor
  <2> QED BY <2>1, EncodeStays
<1>4. CASE \/ CreateColumnScan \/ WriteFilterPredicate
           \/ Compare
  <2>1. /\ column' = column /\ pc \in {"create", "write", "scan"} /\ pc' \in {"write", "scan", "done"}
        /\ bit_mapping' = bit_mapping /\ distinct_keys' = distinct_keys /\ bit_size' = bit_size
    BY <1>4 DEF CreateColumnScan, WriteFilterPredicate,
                Compare, compressor
  <2> QED BY <2>1, EncodeStays
<1>5. CASE Done \/ UNCHANGED vars
  <2>1. /\ column' = column /\ pc' = pc /\ bit_mapping' = bit_mapping
        /\ distinct_keys' = distinct_keys /\ bit_size' = bit_size
        /\ dictionary' = dictionary /\ num_of_bits' = num_of_bits
    BY <1>5 DEF Done, vars, compressor, encoder
  <2> QED BY <2>1, EncodeStays
<1> QED BY <1>1, <1>2, <1>3, <1>4, <1>5 DEF Next

LEMMA LoadedCodesFit == ASSUME RawColumns, LoadInv PROVE CodesFit
<1>1. SUFFICES ASSUME pc = "create"
               PROVE  /\ \A v \in Base :
                           dictionary[v] < (IF num_of_bits = 8 THEN 256 ELSE 65536)
                      /\ 64 % num_of_bits = 0
  BY DEF CodesFit
<1>2. /\ column \in Columns /\ dictionary = Encode
      /\ distinct_keys = Cardinality(Base) - 1
      /\ bit_size \in {7, 15, 31} /\ num_of_bits = bit_size + 1
      /\ bit_size = 7 => distinct_keys <= 128
  BY <1>1 DEF LoadInv
<1>3. num_of_bits \in {8, 16, 32} /\ (num_of_bits = 8 => bit_size = 7)
  BY <1>2
<1>4. ASSUME NEW v \in Base
      PROVE  dictionary[v] < (IF num_of_bits = 8 THEN 256 ELSE 65536)
  <2>1. Cardinality(Base) \in Nat \ {0} /\ Cardinality(Base) <= 10000
    BY <1>2, BaseIsFinite DEF Base
  <2>2. dictionary[v] \in 0 .. Cardinality(Base) - 1
    BY <1>2, CodeIsSmall
  <2> QED BY <1>2, <1>3, <2>1, <2>2
<1>5. 64 % num_of_bits = 0
  <2>1. 64 % 8 = 0 /\ 64 % 16 = 0 /\ 64 % 32 = 0
    OBVIOUS
  <2> QED BY <1>3, <2>1
<1> QED BY <1>4, <1>5

\* Whatever values a column has, the width chosen for it is enough for its codes
\* and divides a word.
THEOREM CodesFitCorrect == ASSUME RawColumns PROVE Spec => []CodesFit
<1>1. Init => LoadInv
  BY LoadInit
<1>2. LoadInv /\ [Next]_vars => LoadInv'
  BY LoadStep
<1>3. LoadInv => CodesFit
  BY LoadedCodesFit
<1> QED BY <1>1, <1>2, <1>3, PTL DEF Spec
-----------------------------------------------------------------------------
(* What a unit compares. *)

\* The columns a query is about hold its constants and no more values than the
\* unit's codes can tell apart; those compared by order are of numbers.
QueryColumns ==
  \A c \in Columns :
    /\ c.job = "D_YEAR_SCAN" => 1993 \in c.base /\ Cardinality(c.base) <= 16
    /\ c.job = "LO_DISC_SCAN" => /\ {1, 3} \subseteq c.base /\ Cardinality(c.base) <= 16
                                 /\ c.data_type = "INT"
    /\ c.job = "LO_QUANTITY_SCAN" => /\ 24 \in c.base /\ Cardinality(c.base) <= 256
                                     /\ c.data_type = "INT"

\* The constant of a predicate with one, and the lower of two.
Low == IF column.job = "D_YEAR_SCAN" THEN 1993
       ELSE IF column.job = "LO_DISC_SCAN" THEN 1 ELSE 24

\* The constants as the unit has them, and the values as it finds them.
CompareInv ==
  /\ pc \in {"write", "scan"} =>
       /\ column.job # "LO_DATE_JOIN"
       /\ \A v \in Base : dictionary[v] = Encode[v]
  /\ pc = "write" =>
       /\ scan.lower = Encode[Low]
       /\ column.job = "LO_DISC_SCAN" => scan.upper = Encode[3]
  /\ pc = "scan" =>
       filter_pred = IF column.job = "LO_DISC_SCAN"
                     THEN Encode[3] * 16 + Encode[1]
                     ELSE Encode[Low]
  /\ pc # "done" => bit_result = Unknown
  /\ MatchesQuery

\* Two halves of four bits do not disturb each other.
LEMMA OrOfHalves ==
  ASSUME NEW m \in 0 .. 15, NEW n \in 0 .. 15
  PROVE  Or(m * 16, n) = m * 16 + n
<1>1. /\ 2^0 = 1 /\ 2^1 = 2 /\ 2^2 = 4 /\ 2^3 = 8
      /\ 2^4 = 16 /\ 2^5 = 32 /\ 2^6 = 64 /\ 2^7 = 128
  OBVIOUS
<1>2. \A x \in 0 .. 15 : x = 8 * ((x \div 8) % 2) + 4 * ((x \div 4) % 2)
                              + 2 * ((x \div 2) % 2) + (x % 2)
  OBVIOUS
<1>3. /\ (m * 16) \div 16 = m /\ (m * 16) \div 32 = m \div 2
      /\ (m * 16) \div 64 = m \div 4 /\ (m * 16) \div 128 = m \div 8
      /\ ((m * 16) \div 1) % 2 = 0 /\ ((m * 16) \div 2) % 2 = 0
      /\ ((m * 16) \div 4) % 2 = 0 /\ ((m * 16) \div 8) % 2 = 0
  OBVIOUS
<1>4. /\ n \div 1 = n /\ (n \div 16) % 2 = 0 /\ (n \div 32) % 2 = 0
      /\ (n \div 64) % 2 = 0 /\ (n \div 128) % 2 = 0
  OBVIOUS
<1> QED BY <1>1, <1>2, <1>3, <1>4 DEF Or

\* Where the query's constants and the codes of its column lie.
LEMMA QueryCodes ==
  ASSUME RawColumns, QueryColumns, column \in Columns, column.job # "LO_DATE_JOIN"
  PROVE  /\ column.job \in {"D_YEAR_SCAN", "LO_DISC_SCAN", "LO_QUANTITY_SCAN"}
         /\ Low \in Base
         /\ column.job # "LO_QUANTITY_SCAN" =>
              \A v \in Base : Encode[v] \in 0 .. 15
         /\ column.job = "LO_QUANTITY_SCAN" =>
              \A v \in Base : Encode[v] \in 0 .. 255
<1>1. column.job \in {"D_YEAR_SCAN", "LO_DISC_SCAN", "LO_QUANTITY_SCAN"}
  BY DEF RawColumns, Job
<1>2. Low \in Base
  BY <1>1 DEF QueryColumns, Low, Base
<1>3. Cardinality(Base) \in Nat
  BY BaseIsFinite DEF Base
<1>4. /\ column.job # "LO_QUANTITY_SCAN" => Cardinality(Base) <= 16
      /\ column.job = "LO_QUANTITY_SCAN" => Cardinality(Base) <= 256
  BY <1>1 DEF QueryColumns, Base
<1>5. \A v \in Base : Encode[v] \in 0 .. Cardinality(Base) - 1
  BY CodeIsSmall
<1>6. column.job # "LO_QUANTITY_SCAN" =>
        \A v \in Base : Encode[v] \in 0 .. 15
  BY <1>3, <1>4, <1>5
<1>7. column.job = "LO_QUANTITY_SCAN" =>
        \A v \in Base : Encode[v] \in 0 .. 255
  BY <1>3, <1>4, <1>5
<1> QED BY <1>1, <1>2, <1>6, <1>7

\* The unit's comparison is the query's.
LEMMA CompareMatches ==
  ASSUME RawColumns, QueryColumns, LoadInv, CompareInv, Compare
  PROVE  MatchesQuery'
<1>1. /\ column \in Columns /\ column' = column /\ pc = "scan"
      /\ column.job # "LO_DATE_JOIN"
      /\ \A v \in Base : dictionary[v] = Encode[v]
  BY DEF LoadInv, CompareInv, Compare
<1>2. filter_pred = IF column.job = "LO_DISC_SCAN"
                    THEN Encode[3] * 16 + Encode[1]
                    ELSE Encode[Low]
  BY <1>1 DEF CompareInv
<1>3. /\ column.job \in {"D_YEAR_SCAN", "LO_DISC_SCAN", "LO_QUANTITY_SCAN"}
      /\ Low \in Base
      /\ column.job # "LO_QUANTITY_SCAN" =>
           \A v \in Base : Encode[v] \in 0 .. 15
      /\ column.job = "LO_QUANTITY_SCAN" =>
           \A v \in Base : Encode[v] \in 0 .. 255
  BY <1>1, QueryCodes
<1>4. SUFFICES ASSUME NEW v \in Base
               PROVE  bit_result'[v] <=>
                        CASE column.job = "D_YEAR_SCAN" -> v = 1993
                          [] column.job = "LO_DISC_SCAN" -> 1 <= v /\ v <= 3
                          [] OTHER -> v <= 24
  BY <1>1, EncodeStays DEF MatchesQuery
<1> DEFINE code == dictionary[v] % 2^UnitWidth
<1>5. bit_result'[v] = CASE column.job = "D_YEAR_SCAN" -> DYear(code)
                         [] column.job = "LO_DISC_SCAN" -> LoDiscount(code)
                         [] OTHER -> LoQuantity(code)
  BY <1>4 DEF Compare
<1>6. dictionary[v] = Encode[v] /\ v \in Nat /\ 2^4 = 16 /\ 2^8 = 256
  <2>1. v \in Raw
    BY <1>1, <1>4 DEF RawColumns, Base
  <2>2. v \in Nat
    BY <2>1, RawIsNat
  <2>3. 2^4 = 16 /\ 2^8 = 256
    BY Powers DEF Pow
  <2> QED BY <1>1, <1>4, <2>2, <2>3
<1>7. CASE column.job = "D_YEAR_SCAN"
  <2>1. code = Encode[v]
    BY <1>3, <1>6, <1>7 DEF UnitWidth
  <2>2. Low = 1993 /\ filter_pred = Encode[1993]
    BY <1>2, <1>7 DEF Low
  <2>3. filter_pred % 16 = Encode[1993]
    BY <1>3, <1>7, <2>2
  <2>4. Encode[v] = Encode[1993] <=> v = 1993
    BY <1>1, <1>3, <2>2, CodesCompare
  <2>5. DYear(code) <=> v = 1993
    BY <2>1, <2>3, <2>4 DEF DYear
  <2>6. bit_result'[v] = DYear(code)
    BY <1>5, <1>7
  <2> QED BY <1>7, <2>5, <2>6
<1>8. CASE column.job = "LO_DISC_SCAN"
  <2>1. code = Encode[v]
    BY <1>3, <1>6, <1>8 DEF UnitWidth
  <2>2. 1 \in Base /\ 3 \in Base /\ column.data_type = "INT"
    BY <1>1, <1>8 DEF QueryColumns, Base
  <2>3. Encode[1] \in 0 .. 15 /\ Encode[3] \in 0 .. 15
    BY <1>3, <1>8, <2>2
  <2>4. filter_pred % 16 = Encode[1] /\ filter_pred \div 16 = Encode[3]
    BY <1>2, <1>8, <2>3
  <2>5. /\ Encode[1] <= Encode[v] <=> 1 <= v
        /\ Encode[v] <= Encode[3] <=> v <= 3
    BY <1>1, <2>2, CodesCompare
  <2>6. LoDiscount(code) <=> 1 <= v /\ v <= 3
    BY <2>1, <2>4, <2>5 DEF LoDiscount
  <2>7. column.job # "D_YEAR_SCAN"
    BY <1>8
  <2>8. bit_result'[v] = LoDiscount(code)
    BY <1>5, <1>8, <2>7
  <2> QED BY <1>8, <2>6, <2>7, <2>8
<1>9. CASE column.job = "LO_QUANTITY_SCAN"
  <2>1. code = Encode[v]
    BY <1>3, <1>6, <1>9 DEF UnitWidth
  <2>2. Low = 24 /\ filter_pred = Encode[24] /\ column.data_type = "INT"
    BY <1>1, <1>2, <1>9 DEF Low, QueryColumns
  <2>3. Encode[v] <= Encode[24] <=> v <= 24
    BY <1>1, <1>3, <2>2, CodesCompare
  <2>4. LoQuantity(code) <=> v <= 24
    BY <2>1, <2>2, <2>3 DEF LoQuantity
  <2>5. column.job # "D_YEAR_SCAN" /\ column.job # "LO_DISC_SCAN"
    BY <1>9
  <2>6. bit_result'[v] = LoQuantity(code)
    BY <1>5, <2>5
  <2> QED BY <2>4, <2>5, <2>6
<1> QED BY <1>3, <1>7, <1>8, <1>9

LEMMA CompareStep ==
  ASSUME RawColumns, QueryColumns, LoadInv, CompareInv, [Next]_vars
  PROVE  CompareInv'
<1>1. CASE ParseColumn \/ WriteMetaData \/ InitializeColumn
  <2>1. pc # "done" /\ pc' \in {"meta", "load", "create"} /\ bit_result' = bit_result
    BY <1>1 DEF ParseColumn, WriteMetaData, InitializeColumn
  <2> QED BY <2>1 DEF CompareInv, MatchesQuery
<1>2. CASE CreateColumnScan
  <2> USE DEF CreateColumnScan
  <2>1. /\ pc = "create" /\ column' = column /\ bit_result' = bit_result
        /\ pc' = IF column.job = "LO_DATE_JOIN" THEN "done" ELSE "write"
        /\ column \in Columns /\ dictionary = Encode
        /\ dictionary' = [v \in DOMAIN dictionary \cup QueryConstants |->
                            CompressValue(v)]
    BY <1>2 DEF LoadInv
  <2>2. bit_result' = Unknown /\ MatchesQuery'
    BY <2>1 DEF CompareInv, MatchesQuery
  <2>3. CASE column.job = "LO_DATE_JOIN"
    BY <2>1, <2>2, <2>3 DEF CompareInv
  <2>4. CASE column.job # "LO_DATE_JOIN"
    <3>1. /\ column.job \in {"D_YEAR_SCAN", "LO_DISC_SCAN", "LO_QUANTITY_SCAN"}
          /\ Low \in Base
      BY <2>1, <2>4, QueryCodes
    <3>2. DOMAIN dictionary = Base
      BY <2>1 DEF Encode
    <3>3. \A v \in Base : CompressValue(v) = Encode[v]
      BY <2>1, <3>2 DEF CompressValue
    <3>4. \A v \in Base : dictionary'[v] = Encode[v]
      BY <2>1, <3>2, <3>3
    <3>5. CASE column.job = "D_YEAR_SCAN"
      <4>1. scan' = [lower |-> CompressValue(1993), upper |-> -1]
        BY <1>2, <3>5
      <4>2. Low = 1993
        BY <3>5 DEF Low
      <4>3. scan.lower' = Encode[Low] /\ column.job # "LO_DISC_SCAN"
        BY <3>1, <3>3, <3>5, <4>1, <4>2
      <4> QED BY <2>1, <2>2, <2>4, <3>4, <4>3, EncodeStays DEF CompareInv, Low
    <3>6. CASE column.job = "LO_DISC_SCAN"
      <4>1. scan' = [lower |-> CompressValue(1), upper |-> CompressValue(3)]
        BY <1>2, <3>6
      <4>2. Low = 1 /\ 3 \in Base
        BY <2>1, <3>6 DEF Low, QueryColumns, Base
      <4>3. scan.lower' = Encode[Low] /\ scan.upper' = Encode[3]
        BY <3>1, <3>3, <4>1, <4>2
      <4> QED BY <2>1, <2>2, <2>4, <3>4, <4>3, EncodeStays DEF CompareInv, Low
    <3>7. CASE column.job = "LO_QUANTITY_SCAN"
      <4>1. scan' = [lower |-> CompressValue(24), upper |-> -1]
        BY <1>2, <3>7
      <4>2. Low = 24
        BY <3>7 DEF Low
      <4>3. scan.lower' = Encode[Low] /\ column.job # "LO_DISC_SCAN"
        BY <3>1, <3>3, <3>7, <4>1, <4>2
      <4> QED BY <2>1, <2>2, <2>4, <3>4, <4>3, EncodeStays DEF CompareInv, Low
    <3> QED BY <3>1, <3>5, <3>6, <3>7
  <2> QED BY <2>3, <2>4
<1>3. CASE WriteFilterPredicate
  <2> USE DEF WriteFilterPredicate
  <2>1. /\ pc = "write" /\ pc' = "scan" /\ column' = column /\ dictionary' = dictionary
        /\ bit_result' = bit_result /\ column \in Columns
    BY <1>3 DEF LoadInv, encoder
  <2>2. /\ column.job # "LO_DATE_JOIN"
        /\ \A v \in Base : dictionary[v] = Encode[v]
        /\ scan.lower = Encode[Low]
        /\ column.job = "LO_DISC_SCAN" => scan.upper = Encode[3]
        /\ bit_result = Unknown
    BY <2>1 DEF CompareInv
  <2>3. /\ column.job \in {"D_YEAR_SCAN", "LO_DISC_SCAN", "LO_QUANTITY_SCAN"}
        /\ Low \in Base
        /\ column.job # "LO_QUANTITY_SCAN" =>
             \A v \in Base : Encode[v] \in 0 .. 15
        /\ column.job = "LO_QUANTITY_SCAN" =>
             \A v \in Base : Encode[v] \in 0 .. 255
    BY <2>1, <2>2, QueryCodes
  <2>4. filter_pred' = IF column.job = "LO_DISC_SCAN"
                       THEN Encode[3] * 16 + Encode[1]
                       ELSE Encode[Low]
    <3>1. CASE column.job = "LO_DISC_SCAN"
      <4>1. Low = 1 /\ 1 \in Base /\ 3 \in Base
        BY <2>1, <3>1 DEF Low, QueryColumns, Base
      <4>2. Encode[1] \in 0 .. 15 /\ Encode[3] \in 0 .. 15
        BY <2>3, <3>1, <4>1
      <4>3. filter_pred' = Or(Encode[3] * 16, Encode[1]) % 256
        BY <1>3, <2>2, <3>1, <4>1 DEF RangePredicate
      <4>4. Or(Encode[3] * 16, Encode[1])
              = Encode[3] * 16 + Encode[1]
        BY <4>2, OrOfHalves
      <4> QED BY <3>1, <4>2, <4>3, <4>4
    <3>2. CASE column.job # "LO_DISC_SCAN"
      <4>1. Encode[Low] \in 0 .. 255
        BY <2>3
      <4>2. filter_pred' = Encode[Low] % 256
        BY <1>3, <2>2, <3>2
      <4> QED BY <3>2, <4>1, <4>2
    <3> QED BY <3>1, <3>2
  <2> QED BY <2>1, <2>2, <2>4, EncodeStays DEF CompareInv, Low, MatchesQuery
<1>4. CASE Compare
  <2>1. pc' = "done"
    BY <1>4 DEF Compare
  <2> QED BY <1>4, <2>1, CompareMatches DEF CompareInv
<1>5. CASE Done \/ UNCHANGED vars
  <2>1. /\ column' = column /\ pc' = pc /\ dictionary' = dictionary
        /\ scan' = scan /\ filter_pred' = filter_pred /\ bit_result' = bit_result
    BY <1>5 DEF Done, vars, encoder
  <2>2. MatchesQuery'
    BY <2>1, EncodeStays DEF CompareInv, MatchesQuery
  <2> QED BY <2>1, <2>2, EncodeStays DEF CompareInv, Low
<1> QED BY <1>1, <1>2, <1>3, <1>4, <1>5 DEF Next

\* If a column holds the query's constants and has no more values than the unit's
\* codes can tell apart, the unit's bit for each value is the query's answer:
\* through ordering, encoding, padding, truncation and comparison.
THEOREM MatchesQueryCorrect ==
  ASSUME RawColumns, QueryColumns PROVE Spec => []MatchesQuery
<1>1. Init => LoadInv
  BY LoadInit
<1>2. LoadInv /\ [Next]_vars => LoadInv'
  BY LoadStep
<1>3. Init => CompareInv
  BY DEF Init, CompareInv, MatchesQuery
<1>4. LoadInv /\ CompareInv /\ [Next]_vars => CompareInv'
  BY CompareStep
<1>5. CompareInv => MatchesQuery
  BY DEF CompareInv
<1> QED BY <1>1, <1>2, <1>3, <1>4, <1>5, PTL DEF Spec
=============================================================================
