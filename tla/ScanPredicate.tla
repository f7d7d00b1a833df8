---------------------------- MODULE ScanPredicate ----------------------------
(***************************************************************************)
(* How a query's predicate on raw values becomes a comparison of codes in  *)
(* the accelerator: the compressor orders a column's distinct values and   *)
(* picks a width (Compressor.cpp), the server reads the dictionary back    *)
(* (Column.h), encodes the query's constants with it (ProcessingUnit.h),   *)
(* pads two of them into one register (ScanApi.h, scan_afu.sv), and a      *)
(* filter unit compares (operators/ssb/filter_scan).                       *)
(*                                                                         *)
(* A filter looks at each value by itself, so a column is the set of the   *)
(* raw values in it. Where values lie in a page is ColumnScan's subject.   *)
(***************************************************************************)
EXTENDS Integers, FiniteSets

CONSTANTS
  Columns,   \* the columns that may be loaded: [job, data_type, base]
  Unknown    \* a value not computed yet

Job == {"D_YEAR_SCAN", "LO_DISC_SCAN", "LO_QUANTITY_SCAN", "LO_DATE_JOIN"}

\* The largest raw value: a date is a year, a quantity has two digits.
MaxRaw == 9999
Raw == 0 .. MaxRaw

ASSUME ScanPredicateAssumption ==
  \A c \in Columns : /\ c.job \in Job /\ c.data_type \in {"INT", "STRING"}
                     /\ c.base \subseteq Raw /\ c.base # {} /\ IsFiniteSet(c.base)

VARIABLES
  column,
  pc,
  bit_mapping, distinct_keys, bit_size,    \* Compressor
  dictionary, num_of_bits,                 \* Column::c_encoder
  scan,                                    \* ScanApi: lower_param, upper_param
  filter_pred,                             \* the accelerator's register
  bit_result                               \* the filter unit's bit for a value

compressor == <<bit_mapping, distinct_keys, bit_size>>
encoder == <<dictionary, num_of_bits>>
vars == <<column, pc, compressor, encoder, scan, filter_pred, bit_result>>

Base == column.base

TypeOK ==
  /\ column \in Columns
  /\ pc \in {"parse", "meta", "load", "create", "write", "scan", "done"}
  /\ bit_mapping \in {Unknown} \cup [Base -> 0 .. Cardinality(Base) - 1]
  /\ distinct_keys \in -1 .. Cardinality(Base)
  /\ bit_size \in {Unknown, 7, 15, 31}
  /\ dictionary = Unknown \/ DOMAIN dictionary \subseteq Raw
  /\ num_of_bits \in {Unknown, 8, 16, 32}
  /\ filter_pred \in {Unknown} \cup 0 .. 255
  /\ bit_result \in {Unknown} \cup [Base -> BOOLEAN]

Init ==
  /\ column \in Columns
  /\ pc = "parse"
  /\ bit_mapping = Unknown /\ distinct_keys = -1 /\ bit_size = Unknown
  /\ dictionary = Unknown /\ num_of_bits = Unknown
  /\ scan = Unknown /\ filter_pred = Unknown /\ bit_result = Unknown

-----------------------------------------------------------------------------
(* The compressor. *)

\* std::map's order of the keys: of numbers, or of their decimal digits, read
\* from the left ("1" < "10" < "2").
Before(u, v) ==
  LET aligned(n) == CASE n < 10 -> n * 1000 [] n < 100 -> n * 100
                      [] n < 1000 -> n * 10 [] OTHER -> n
  IN IF column.data_type = "INT" THEN u < v
     ELSE aligned(u) < aligned(v) \/ (aligned(u) = aligned(v) /\ u < v)

\* Mutant: codes are given out in the reverse order.
EncodeReversed == [v \in Base |-> Cardinality({u \in Base : Before(v, u)})]

\* The place of each value in the order.
Encode == [v \in Base |-> Cardinality({u \in Base : Before(u, v)})]

\* Compressor::parseColumn; distinct_keys starts from -1.
ParseColumn ==
  /\ pc = "parse" /\ pc' = "meta"
  /\ bit_mapping' = Encode
  /\ distinct_keys' = distinct_keys + Cardinality(Base)
  /\ UNCHANGED <<column, bit_size, encoder, scan, filter_pred, bit_result>>

\* ceil(log2(n)), n > 0
CeilLog2(n) == CHOOSE k \in 0 .. 16 : 2^k >= n /\ (k = 0 \/ 2^(k - 1) < n)

\* Mutant: no special case for powers of two.
BitsNoSpecialCase(keys) ==
  IF keys \in {0, 1} THEN 1 ELSE 2^CeilLog2(CeilLog2(keys)) - 1

\* Before it is rounded up. For one distinct value, keys = 0, the logarithm is
\* -infinity and its conversion to int is undefined: any number below 8, for
\* the instructions the compilers use give INT_MIN, and in the end -1.
Bits(keys) ==
  IF keys \in {0, 1} THEN 1
  ELSE LET round == CeilLog2(keys)
           k == CeilLog2(round)
       IN 2^(IF 2^k = round THEN k + 1 ELSE k) - 1

\* Compressor::writeMetaData
WriteMetaData ==
  /\ pc = "meta" /\ pc' = "load"
  /\ bit_size' = LET bits == Bits(distinct_keys) IN
                   IF bits < 8 THEN 7 ELSE IF bits < 16 THEN 15 ELSE 31
  /\ UNCHANGED <<column, bit_mapping, distinct_keys, encoder, scan, filter_pred, bit_result>>

-----------------------------------------------------------------------------
(* The server. *)

NumOfBits == bit_size + 1

\* Column::initializeColumn, from meta.dat, base.dat and compressed.dat.
InitializeColumn ==
  /\ pc = "load" /\ pc' = "create"
  /\ num_of_bits' = NumOfBits
  /\ dictionary' = bit_mapping
  /\ UNCHANGED <<column, compressor, scan, filter_pred, bit_result>>

\* Column::CompressValue: operator[] makes an entry 0 for a key it lacks.
CompressValue(v) == IF v \in DOMAIN dictionary THEN dictionary[v] ELSE 0

\* The raw constants of the query.
QueryConstants == CASE column.job = "D_YEAR_SCAN" -> {1993}
                    [] column.job = "LO_DISC_SCAN" -> {1, 3}
                    [] column.job = "LO_QUANTITY_SCAN" -> {24}
                    [] OTHER -> {}

\* ProcessingUnit::createColumnScan; the join's column has no scan.
CreateColumnScan ==
  /\ pc = "create"
  /\ dictionary' = [v \in DOMAIN dictionary \cup QueryConstants |-> CompressValue(v)]
  /\ CASE column.job = "D_YEAR_SCAN" ->
            scan' = [lower |-> CompressValue(1993), upper |-> -1]
       [] column.job = "LO_DISC_SCAN" ->
            scan' = [lower |-> CompressValue(1), upper |-> CompressValue(3)]
       [] column.job = "LO_QUANTITY_SCAN" ->
            scan' = [lower |-> CompressValue(24), upper |-> -1]
       [] OTHER -> UNCHANGED scan
  /\ pc' = IF column.job = "LO_DATE_JOIN" THEN "done" ELSE "write"
  /\ UNCHANGED <<column, compressor, num_of_bits, filter_pred, bit_result>>

\* The eight bits of m | n that scan_afu keeps.
Or(m, n) ==
  LET bit(i) == IF 1 \in {(m \div 2^i) % 2, (n \div 2^i) % 2} THEN 2^i ELSE 0 IN
    bit(0) + bit(1) + bit(2) + bit(3) + bit(4) + bit(5) + bit(6) + bit(7)

\* ScanApi::RangePredicate
RangePredicate == Or(scan.upper * 16, scan.lower)

\* FPGAHandler::scanAtATime writes the predicate; scan_afu keeps eight bits.
WriteFilterPredicate ==
  /\ pc = "write" /\ pc' = "scan"
  /\ filter_pred' =
       (IF column.job = "LO_DISC_SCAN" THEN RangePredicate ELSE scan.lower) % 256
  /\ UNCHANGED <<column, compressor, encoder, scan, bit_result>>

-----------------------------------------------------------------------------
(* The accelerator. *)

\* Bits of a value in the unit.
UnitWidth == IF column.job = "LO_QUANTITY_SCAN" THEN 8 ELSE 4

\* d_year
DYear(code) == code = filter_pred % 16

\* lo_discount: lower_pred is the low half of filter_pred, higher_pred the high.
LoDiscount(code) == filter_pred % 16 <= code /\ code <= filter_pred \div 16

\* lo_quantity
LoQuantity(code) == code <= filter_pred

\* One value of a line, as wide as the unit takes it.
\* Nothing tells the unit num_of_bits: that the column is packed in the unit's
\* width is assumed here, and is what UnitReadsEncoding asks.
Compare ==
  /\ pc = "scan" /\ pc' = "done"
  /\ bit_result' = [v \in Base |->
       LET code == dictionary[v] % 2^UnitWidth IN
         CASE column.job = "D_YEAR_SCAN" -> DYear(code)
           [] column.job = "LO_DISC_SCAN" -> LoDiscount(code)
           [] OTHER -> LoQuantity(code)]
  /\ UNCHANGED <<column, compressor, encoder, scan, filter_pred>>

Done == pc = "done" /\ UNCHANGED vars

Next ==
  \/ ParseColumn \/ WriteMetaData
  \/ InitializeColumn \/ CreateColumnScan \/ WriteFilterPredicate
  \/ Compare \/ Done

Spec == Init /\ [][Next]_vars
-----------------------------------------------------------------------------
\* Whatever values a column has, the width that comes out of the logarithms is
\* enough for its codes, and is one that fills words without a remainder.
CodesFit ==
  pc = "create" =>
    /\ \A v \in Base : dictionary[v] < (IF num_of_bits = 8 THEN 256 ELSE 65536)
    /\ 64 % num_of_bits = 0

\* FPGAHandler.h:31 "1 <= value <= 3", FPGAHandler.h:34 "d_year: value == 1993;
\* lo_quantity <= 24": the bit for a value says whether the raw value satisfies
\* the query, through ordering, padding, truncation and comparison.
MatchesQuery ==
  bit_result # Unknown =>
    \A v \in Base : bit_result[v] <=>
      CASE column.job = "D_YEAR_SCAN" -> v = 1993
        [] column.job = "LO_DISC_SCAN" -> 1 <= v /\ v <= 3
        [] OTHER -> v <= 24

\* d_year.sv:1, lo_discount.sv:1 "4-bit encoding", lo_quantity.sv:1 "8-bit
\* encoding": the column is packed with the width its unit unpacks.
UnitReadsEncoding == pc = "scan" => num_of_bits = UnitWidth
=============================================================================
