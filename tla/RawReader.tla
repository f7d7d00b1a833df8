------------------------------ MODULE RawReader ------------------------------
(***************************************************************************)
(* Raw-data mode: core 0 maps the chunks of a .tbl file (RawTable.h) and   *)
(* splits the first line of each into tuples and attributes (RawScan.h,    *)
(* CoreHandler::processRawData).  Rows end in a newline and attributes in  *)
(* a bar; only where they are matters, so any other character is Other.    *)
(* Every chunk shows the same bytes: at this commit there is one.          *)
(***************************************************************************)
EXTENDS Integers, Sequences, SequencesExt

CONSTANTS
  CLBytes,    \* bytes in a cache line (64)
  Chunks,     \* chunks initializeTable maps (1)
  Bar, Newline, Other

ASSUME RawReaderAssumption ==
  /\ {CLBytes, Chunks} \subseteq Nat \ {0}
  /\ Bar # Newline /\ Bar # Other /\ Newline # Other

VARIABLES
  at,                       \* where processRawData is
  text,                     \* the file, as far as it reaches into the first line
  raw_buffers,              \* initializeTable: did mmap succeed, chunk by chunk
  total_chunks, next_chunk,
  byte_id, tuple_start,     \* extractTuples
  att_id, att_start,        \* extractAttributes: its byte_id and att_start
  atts,                     \* <<chunk, first, end>> of each attribute written
  released                  \* chunks unmapped

table == <<text, raw_buffers, total_chunks>>
tuples == <<byte_id, tuple_start>>
attributes == <<att_id, att_start>>
readerVars == <<at, table, next_chunk, tuples, attributes, atts, released>>

ReaderInit ==
  /\ at = "open"
  /\ text \in UNION {[0 .. n - 1 -> {Bar, Newline, Other}] : n \in 0 .. CLBytes}
  /\ raw_buffers = <<>> /\ total_chunks = -1 /\ next_chunk = 0
  /\ byte_id = 0 /\ tuple_start = 0 /\ att_id = 0 /\ att_start = 0
  /\ atts = <<>> /\ released = {}

\* What a read of the mapped line finds: past the end of the file the page is 0.
Byte(i) == IF i \in DOMAIN text THEN text[i] ELSE Other

-----------------------------------------------------------------------------
(* RawTable *)

\* A file that cannot be opened maps nothing; a mapping that fails counts.
InitializeTable ==
  /\ at = "open"
  /\ \/ UNCHANGED <<raw_buffers, total_chunks>>
     \/ /\ raw_buffers' \in [1 .. Chunks -> BOOLEAN]
        /\ total_chunks' = total_chunks + Chunks
  /\ at' = "loop"
  /\ UNCHANGED <<text, next_chunk, tuples, attributes, atts, released>>

\* Mutant: the end is looked for as if total_chunks counted from one.
MoreChunksFromOne == next_chunk < total_chunks

moreChunks == next_chunk = total_chunks

\* mapNextChunk, and the first byte of readNextCL(0): a chunk that is not there,
\* was not mapped, or lies behind an empty file's end faults.
MapNextChunk ==
  /\ at = "loop" /\ moreChunks
  /\ next_chunk' = next_chunk + 1
  /\ at' = IF /\ next_chunk + 1 \in DOMAIN raw_buffers
              /\ raw_buffers[next_chunk + 1]
              /\ DOMAIN text # {}
           THEN "tuple" ELSE "crash"
  /\ byte_id' = 0 /\ tuple_start' = 0
  /\ UNCHANGED <<table, attributes, atts, released>>

NoMoreChunks ==
  /\ at = "loop" /\ ~moreChunks
  /\ at' = "done"
  /\ UNCHANGED <<table, next_chunk, tuples, attributes, atts, released>>

-----------------------------------------------------------------------------
(* RawScan *)

\* A tuple ends at a newline, and where the line does.
TupleEnds(i) == Byte(i) = Newline \/ i = CLBytes - 1

\* extractTuples: one byte.
NextByte ==
  /\ at = "tuple" /\ byte_id < CLBytes
  /\ IF TupleEnds(byte_id)
     THEN at' = "attribute" /\ att_id' = tuple_start /\ att_start' = tuple_start
          /\ UNCHANGED byte_id
     ELSE byte_id' = byte_id + 1 /\ UNCHANGED <<at, attributes>>
  /\ UNCHANGED <<table, next_chunk, tuple_start, atts, released>>

\* extractAttributes: one byte of the tuple, its end excluded.
NextAttributeByte ==
  /\ at = "attribute" /\ att_id < byte_id
  /\ att_id' = att_id + 1
  /\ IF Byte(att_id) = Bar
     THEN /\ atts' = Append(atts, <<next_chunk, att_start, att_id>>)
          /\ att_start' = att_id + 1
     ELSE UNCHANGED <<atts, att_start>>
  /\ UNCHANGED <<at, table, next_chunk, tuples, released>>

EndTuple ==
  /\ at = "attribute" /\ att_id = byte_id
  /\ at' = "tuple"
  /\ tuple_start' = byte_id + 1 /\ byte_id' = byte_id + 1
  /\ UNCHANGED <<table, next_chunk, attributes, atts, released>>

\* releaseMappedChunk
ReleaseMappedChunk ==
  /\ at = "tuple" /\ byte_id = CLBytes
  /\ released' = released \cup {next_chunk}
  /\ at' = "loop"
  /\ UNCHANGED <<table, next_chunk, tuples, attributes, atts>>

Ended == at \in {"done", "crash"} /\ UNCHANGED readerVars

ReaderNext == InitializeTable \/ MapNextChunk \/ NoMoreChunks \/ NextByte
          \/ NextAttributeByte \/ EndTuple \/ ReleaseMappedChunk \/ Ended

ReaderSpec == ReaderInit /\ [][ReaderNext]_readerVars
-----------------------------------------------------------------------------
\* The attributes of a line: from the start of a tuple or the bar before to a bar,
\* with neither between.  The line's last byte ends a tuple and is not looked at.
Fields ==
  {f \in (0 .. CLBytes - 1) \X (0 .. CLBytes - 2) :
     /\ f[1] <= f[2] /\ Byte(f[2]) = Bar
     /\ \A i \in f[1] .. f[2] - 1 : Byte(i) = Other
     /\ f[1] = 0 \/ Byte(f[1] - 1) # Other}

\* The attributes of every mapped chunk.
AllFields == {<<c, f[1], f[2]>> : c \in DOMAIN raw_buffers, f \in Fields}

\* The order of the bars, chunk by chunk.
Precedes(a, b) == a[1] < b[1] \/ (a[1] = b[1] /\ a[3] < b[3])

\* The loop over chunks ends when every mapped chunk has been read once and
\* released, and what was written is each field of the line, in order, once;
\* only a file that is empty or could not be mapped makes it fault.
ExtractsFields ==
  /\ at = "done" =>
       /\ released = DOMAIN raw_buffers
       /\ Range(atts) = AllFields
       /\ \A i, j \in DOMAIN atts : i < j => Precedes(atts[i], atts[j])
  /\ at = "crash" => DOMAIN text = {} \/ FALSE \in Range(raw_buffers)
=============================================================================
