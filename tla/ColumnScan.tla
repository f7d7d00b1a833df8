------------------------------ MODULE ColumnScan ------------------------------
(***************************************************************************)
(* The way of a column's values through a filter scan or a semi-join:      *)
(* packed into words and pages when the table is loaded (Column.h,         *)
(* Partition.h), compared or looked up line by line by a unit of the FPGA  *)
(* (operators/ssb), and the match bits gathered into the operator's bit    *)
(* vector and counted (JobWrapper.h).                                      *)
(*                                                                         *)
(* The question is where things end up, so values are symbolic: bit k of   *)
(* the value in row i is <<i, k>>, a stored bit is the set of what was     *)
(* ORed into it, and a result bit is named by the row it answers for.      *)
(* That every line of a queued page is processed, once, is the subject of  *)
(* FpgaScan and FpgaJoin; here all lines of a page are one step.           *)
(***************************************************************************)
EXTENDS Integers, FiniteSets

CONSTANTS
  WORD_SIZE,    \* bits in a word (64)
  CL_SIZE,      \* bits in a cache line (512)
  PAGE_SIZE,    \* bytes in a page (4096)
  ColSizes,     \* the columns' lengths
  BitEncodings  \* and the bits of their values, each with a unit of that width

ASSUME ColumnScanAssumption ==
  /\ {WORD_SIZE, CL_SIZE, PAGE_SIZE} \cup ColSizes \cup BitEncodings
       \subseteq Nat \ {0}
  /\ CL_SIZE % 8 = 0 /\ CL_SIZE % WORD_SIZE = 0
  /\ PAGE_SIZE % (2 * (CL_SIZE \div 8)) = 0    \* result lines come in pairs
  /\ \A b \in BitEncodings : /\ WORD_SIZE % b = 0
                             /\ \/ (CL_SIZE \div b) % WORD_SIZE = 0
                                \/ 2 * (CL_SIZE \div b) = WORD_SIZE

VARIABLES
  colSize, bit_encoding,    \* of the column at hand
  pc, part_id,
  rows,                     \* rows taken from compressed.dat so far
  items_read, curIndex, writtenVal, bits_remaining, shift_amount,
  compressed,               \* Partition::compressed of each partition
  write_buff,               \* the result lines of each page
  bit_result,               \* JobWrapper::bit_result
  overrun,                  \* something was written past bit_result's end
  counted                   \* countBitResults: how often each answer is counted

column == <<colSize, bit_encoding>>
packing == <<rows, items_read, curIndex, writtenVal, bits_remaining, shift_amount>>
vars == <<column, pc, part_id, packing, compressed, write_buff, bit_result, overrun,
          counted>>

-----------------------------------------------------------------------------
(* Sizes. *)

\* Column::NumOfPagesRequired: in whole bytes.
NumOfPages ==
  LET totalSize == (bit_encoding * colSize) \div 8 IN
    totalSize \div PAGE_SIZE + (IF totalSize % PAGE_SIZE > 0 THEN 1 ELSE 0)

PartSize == (PAGE_SIZE * 8) \div bit_encoding

\* Partition::initializePageAlignedPartition
ArraySize ==
  LET vals_per_word == WORD_SIZE \div bit_encoding IN
    PartSize \div vals_per_word + (IF PartSize % vals_per_word > 0 THEN 1 ELSE 0)

\* JobWrapper::reserveResultBuffer: result words of a partition.
ResBuffLen == IF colSize < PartSize THEN colSize \div WORD_SIZE + 1
                                    ELSE PartSize \div WORD_SIZE

ItemsPerCl == CL_SIZE \div bit_encoding
WordsPerCl == CL_SIZE \div WORD_SIZE

\* Half a word of results per line: the foreign keys of the semi-join (16 bits).
IsJoin == 2 * ItemsPerCl = WORD_SIZE

\* scanAtATime, and joinAtATime: a join takes every line of the page.
TotalCls ==
  LET needed == (colSize + ItemsPerCl - 1) \div ItemsPerCl
      in_page == PAGE_SIZE \div (CL_SIZE \div 8) IN
    IF needed < in_page /\ ~IsJoin THEN needed ELSE in_page

PartId == 0 .. NumOfPages - 1
BitOf == 0 .. WORD_SIZE - 1
ResultWord == 0 .. ResBuffLen * NumOfPages - 1

-----------------------------------------------------------------------------
(* Bits. *)

Clean == [k \in BitOf |-> {}]
Unset == [k \in BitOf |-> {<<-1, 0>>}]    \* new uint64_t[...]: never written

Row == 0 .. colSize - 1
Word == [BitOf -> SUBSET ((Row \X (0 .. bit_encoding - 1)) \cup {<<-1, 0>>})]

\* What a result bit answers for, when it is not a row.
Padding == -1    \* a value nobody put there: all bits 0
Mixed == -2      \* bits that are not one value
Off == -3        \* bits of a result line the unit never sets

Answer == Row \cup {Padding, Mixed, Off}
AnswerWord == [BitOf -> Answer]

TypeOK ==
  /\ colSize \in ColSizes /\ bit_encoding \in BitEncodings
  /\ pc \in {"allocate", "read", "scan", "copy", "count", "done"}
  /\ part_id \in 0 .. NumOfPages
  /\ rows \in 0 .. colSize
  /\ items_read \in 0 .. PartSize
  /\ curIndex \in 0 .. ArraySize - 1
  /\ writtenVal \in Word
  /\ bits_remaining \in 0 .. WORD_SIZE
  /\ shift_amount = WORD_SIZE - bits_remaining
  /\ \A p \in PartId : \A w \in 0 .. ArraySize - 1 : compressed[p][w] \in Word
  /\ \A p \in PartId : \A w \in DOMAIN write_buff[p] : write_buff[p][w] \in AnswerWord
  /\ \A w \in ResultWord : bit_result[w] \in AnswerWord
  /\ overrun \in BOOLEAN
  /\ pc = "done" => counted \in [Answer -> Nat]

Init ==
  /\ colSize \in ColSizes /\ bit_encoding \in BitEncodings
  /\ pc = "allocate" /\ part_id = 0
  /\ rows = 0 /\ items_read = 0
  /\ curIndex = 0 /\ writtenVal = Clean
  /\ bits_remaining = WORD_SIZE /\ shift_amount = 0
  /\ compressed = [p \in PartId |-> [w \in 0 .. ArraySize - 1 |-> Unset]]
  /\ write_buff = [p \in PartId |-> << >>]
  /\ bit_result = [w \in ResultWord |-> [k \in BitOf |-> Mixed]]
  /\ overrun = FALSE /\ counted = << >>

-----------------------------------------------------------------------------
(* Column::compressColumn *)

\* The next partition, if there is one.
Allocate ==
  /\ pc = "allocate"
  /\ IF part_id < NumOfPages
     THEN /\ pc' = "read"
          /\ items_read' = 0 /\ curIndex' = 0 /\ writtenVal' = Clean
          /\ bits_remaining' = WORD_SIZE /\ shift_amount' = 0
          /\ UNCHANGED <<part_id, rows>>
     ELSE /\ pc' = "scan" /\ part_id' = 0
          /\ UNCHANGED packing
  /\ UNCHANGED <<column, compressed, write_buff, bit_result, overrun,
                 counted>>

\* newVal << shift_amount, ORed into the word.
Or(word, row, shift) ==
  [k \in BitOf |-> word[k] \cup IF k \in shift .. shift + bit_encoding - 1
                                THEN {<<row, k - shift>>} ELSE {}]

\* Mutant: the word is flushed one value late.
FlushLate == bits_remaining < 0

\* Is the word full?
Flush == bits_remaining = 0

\* The loop of Partition::compress: one line of the file, one value.
ReadItem ==
  /\ pc = "read" /\ items_read < PartSize /\ rows < colSize
  /\ LET shift == IF Flush THEN 0 ELSE shift_amount IN
       /\ compressed' = IF Flush
                        THEN [compressed EXCEPT ![part_id][curIndex] = writtenVal]
                        ELSE compressed
       /\ curIndex' = IF Flush THEN curIndex + 1 ELSE curIndex
       /\ writtenVal' = Or(IF Flush THEN Clean ELSE writtenVal, rows, shift)
       /\ shift_amount' = shift + bit_encoding
       /\ bits_remaining' = (IF Flush THEN WORD_SIZE ELSE bits_remaining) - bit_encoding
  /\ rows' = rows + 1 /\ items_read' = items_read + 1
  /\ UNCHANGED <<column, pc, part_id, write_buff, bit_result, overrun,
                 counted>>

\* The partition is full or the file ends; the last word is written.
EndPartition ==
  /\ pc = "read" /\ (items_read = PartSize \/ rows = colSize)
  /\ compressed' = [compressed EXCEPT ![part_id][curIndex] = writtenVal]
  /\ pc' = "allocate" /\ part_id' = part_id + 1
  /\ UNCHANGED <<column, packing, write_buff, bit_result, overrun,
          counted>>

-----------------------------------------------------------------------------
(* The scan or join. *)

\* Bit n of cache line cl of a page.
LineBit(page, cl, n) ==
  page[cl * WordsPerCl + n \div WORD_SIZE][n % WORD_SIZE]

\* What the comparison of slot j of a line is about.
Slot(page, cl, j) ==
  LET bit(k) == LineBit(page, cl, j * bit_encoding + k)
      first == bit(0) IN
    IF \A k \in 0 .. bit_encoding - 1 : bit(k) = {} THEN Padding
    ELSE IF \E i \in Row : \A k \in 0 .. bit_encoding - 1 : bit(k) = {<<i, k>>}
    THEN (CHOOSE c \in first : TRUE)[1]
    ELSE Mixed

\* d_year, lo_discount, lo_quantity, lineorder_date: bit j of the result line is
\* about slot j.
FilterUnit(page, cl, n) == IF n < ItemsPerCl THEN Slot(page, cl, n) ELSE Off

\* The TotalCls result lines of one page, as the words the host sees.
ScanPartition ==
  /\ pc = "scan"
  /\ IF part_id < NumOfPages
     THEN /\ write_buff' = [write_buff EXCEPT ![part_id] =
               [w \in 0 .. TotalCls * WordsPerCl - 1 |->
                  [k \in BitOf |-> FilterUnit(compressed[part_id], w \div WordsPerCl,
                                              (w % WordsPerCl) * WORD_SIZE + k)]]]
          /\ part_id' = part_id + 1
          /\ UNCHANGED pc
     ELSE pc' = "copy" /\ part_id' = 0 /\ UNCHANGED write_buff
  /\ UNCHANGED <<column, packing, compressed, bit_result, overrun, counted>>

\* The words of a result line that hold results.
ResWordsPerCl == ItemsPerCl \div WORD_SIZE

\* copyFPGAWriteBuffer(uint64_t*, part_id, total_cls): the words of the results
\* a partition's copy writes, and the word of write_buff each is taken from.
CopiedWords ==
  [n \in 0 .. TotalCls * ResWordsPerCl - 1 |->
     write_buff[part_id][(n \div ResWordsPerCl) * WordsPerCl + (n % ResWordsPerCl)]]

\* Mutant: the upper half is taken a word further, not a line further.
CopiedHalvesNextWord ==
  LET half == WORD_SIZE \div 2 IN
    [n \in 0 .. ResBuffLen - 1 |->
       [k \in BitOf |-> IF k < half
                        THEN write_buff[part_id][2 * n * WordsPerCl][k]
                        ELSE write_buff[part_id][2 * n * WordsPerCl + 1][k - half]]]

\* copyFPGAWriteBuffer(uint32_t*, part_id): each word is the first half word of
\* one line and that of the next.
CopiedHalves ==
  LET half == WORD_SIZE \div 2 IN
    [n \in 0 .. ResBuffLen - 1 |->
       [k \in BitOf |-> IF k < half
                        THEN write_buff[part_id][2 * n * WordsPerCl][k]
                        ELSE write_buff[part_id][(2 * n + 1) * WordsPerCl][k - half]]]

CopyPartition ==
  /\ pc = "copy"
  /\ IF part_id < NumOfPages
     THEN LET words == IF IsJoin THEN CopiedHalves ELSE CopiedWords
              offset == part_id * ResBuffLen IN
          /\ bit_result' = [w \in ResultWord |->
               IF w - offset \in DOMAIN words THEN words[w - offset] ELSE bit_result[w]]
          /\ overrun' = (overrun \/ \E n \in DOMAIN words : offset + n \notin ResultWord)
          /\ part_id' = part_id + 1
          /\ UNCHANGED pc
     ELSE pc' = "count" /\ UNCHANGED <<part_id, bit_result, overrun>>
  /\ UNCHANGED <<column, packing, compressed, write_buff, counted>>

\* Mutant: the loop over a partition's words stops one short.
CountedBitsShort ==
  {b \in ResultWord \X BitOf : b[1] % ResBuffLen < ResBuffLen - 1}

\* countBitResults: every bit of the words reserved for every partition.
CountedBits == ResultWord \X BitOf

CountBitResults ==
  /\ pc = "count"
  /\ counted' = [a \in Answer |->
       Cardinality({b \in CountedBits : bit_result[b[1]][b[2]] = a})]
  /\ pc' = "done"
  /\ UNCHANGED <<column, part_id, packing, compressed, write_buff, bit_result, overrun>>

Done == pc = "done" /\ UNCHANGED vars

Next == Allocate \/ ReadItem \/ EndPartition \/ ScanPartition \/ CopyPartition
          \/ CountBitResults \/ Done

Spec == Init /\ [][Next]_vars
-----------------------------------------------------------------------------
\* Where the bit vector keeps the answer for a row: the partitions follow each
\* other, and within one the rows do.
Place(i) == (i \div PartSize) * ResBuffLen * WORD_SIZE + (i % PartSize)

\* Whatever the widths and lengths, each row taken from the file is answered
\* for by exactly one result bit, the one at its place: no value straddles or
\* overwrites another, no partition's results run into the next one's.
RowsInPlace ==
  pc = "done" =>
    \A w \in ResultWord, k \in BitOf, i \in 0 .. rows - 1 :
      bit_result[w][k] = i <=> w * WORD_SIZE + k = Place(i)

\* The count a query reports adds up each stored row once, and nothing else if
\* the rows fill their pages; else it adds padding and words no line filled.
CountedOnce ==
  pc = "done" =>
    /\ \A i \in 0 .. rows - 1 : counted[i] = 1
    /\ rows = PartSize * NumOfPages =>
         \A a \in {Padding, Mixed, Off} : counted[a] = 0

\* Column.h:44 "number of memory pages required": the pages hold the column.
EveryRowStored == pc = "done" => rows = colSize

\* JobWrapper.h:51 "Reserve memory to keep the filter result": the results fit.
ResultsFit == ~overrun
=============================================================================
