--------------------------- MODULE MCScanPredicate ---------------------------
(* Instances of ScanPredicate for TLC. *)
EXTENDS ScanPredicate

Column(job, types, bases) ==
  [job : {job}, data_type : types, base : bases \ {{}}]

Years == 1992 .. 1998
Discounts == 0 .. 10
Quantities == {1, 9, 10, 23, 24, 25, 26, 50}

\* Columns in which the query's constants occur.
Holding(values, constants) == {b \cup constants : b \in SUBSET values}

\* Columns with as many values as it takes to come to each side of a rounding:
\* of the logarithms, and from 8 to 16 bits.
Orderdates == {0 .. n - 1 : n \in 1 .. 40 \cup {64, 65, 66, 128, 129, 130, 256, 257, 258}}

ColumnsWithConstants ==
  UNION {Column("D_YEAR_SCAN", {"INT", "STRING"}, Holding(Years, {1993})),
         Column("LO_DISC_SCAN", {"INT"}, Holding(Discounts, {1, 3})),
         Column("LO_QUANTITY_SCAN", {"INT"}, Holding(Quantities, {24})),
         Column("LO_DATE_JOIN", {"INT"}, Orderdates)}

ColumnsOfYears == Column("D_YEAR_SCAN", {"INT"}, SUBSET Years)
=============================================================================
