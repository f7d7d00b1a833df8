--------------------------- MODULE ColumnScanProofs ---------------------------
(***************************************************************************)
(* Proofs about ColumnScan, for any column length and any widths of words, *)
(* lines and pages that divide each other as the constants' assumption     *)
(* says: the answer for every stored row lies at that row's place in the   *)
(* bit vector and nowhere else, and is counted once.                       *)
(*                                                                         *)
(* The invariant follows a value on its way.  A value is named by its page *)
(* p and its slot q there, and then by its line and its place in the line, *)
(* and then by its result word and its bit: each phase of the program is a *)
(* change from one of these coordinates to the next, and the arithmetic of *)
(* those changes is in the lemmas before the invariant.                    *)
(***************************************************************************)
EXTENDS ColumnScan, FiniteSetTheorems, TLAPS

-----------------------------------------------------------------------------
(* Division. *)

LEMMA DivMod ==
  ASSUME NEW n \in Int, NEW d \in Nat \ {0}
  PROVE  /\ n \div d \in Int /\ n % d \in 0 .. d - 1 /\ n = (n \div d) * d + (n % d)
         /\ n >= 0 => n \div d >= 0
OBVIOUS

\* Multiples keep the order.
LEMMA Mono ==
  ASSUME NEW x \in Int, NEW y \in Int, NEW d \in Nat
  PROVE  /\ x <= y => x * d <= y * d
         /\ x < y => x * d + d <= y * d
         /\ x * d \in Int
OBVIOUS

\* A number is one multiple of d and one remainder.
LEMMA Unique ==
  ASSUME NEW d \in Nat \ {0}, NEW x \in Int, NEW y \in Int,
         NEW r \in 0 .. d - 1, NEW s \in 0 .. d - 1, x * d + r = y * d + s
  PROVE  x = y /\ r = s
<1>1. ~ (x < y)
  OBVIOUS
<1>2. ~ (y < x)
  OBVIOUS
<1> QED
  BY <1>1, <1>2

LEMMA DivIs ==
  ASSUME NEW d \in Nat \ {0}, NEW x \in Int, NEW r \in 0 .. d - 1
  PROVE  (x * d + r) \div d = x /\ (x * d + r) % d = r
<1> DEFINE n == x * d + r
<1>1. n \in Int
  OBVIOUS
<1>2. n \div d \in Int /\ n % d \in 0 .. d - 1 /\ n = (n \div d) * d + (n % d)
  BY <1>1, DivMod
<1> HIDE DEF n
<1>3. (n \div d) * d + (n % d) = x * d + r
  BY <1>2 DEF n
<1>4. n \div d = x /\ n % d = r
  BY <1>2, <1>3, Unique
<1> QED
  BY <1>4 DEF n

LEMMA DivExact ==
  ASSUME NEW d \in Nat \ {0}, NEW x \in Int
  PROVE  (x * d) \div d = x /\ (x * d) % d = 0
<1>1. x * d = x * d + 0 /\ 0 \in 0 .. d - 1
  OBVIOUS
<1> QED
  BY <1>1, DivIs

\* A multiple of d below another is below it by d.
LEMMA Below ==
  ASSUME NEW d \in Nat \ {0}, NEW x \in Int, NEW y \in Int
  PROVE  (x * d < y * d <=> x < y) /\ (x * d <= y * d <=> x <= y)
<1>1. x < y => x * d + d <= y * d
  BY Mono
<1>2. x <= y => x * d <= y * d
  BY Mono
<1>3. y < x => y * d + d <= x * d
  BY Mono
<1>4. y <= x => y * d <= x * d
  BY Mono
<1> QED
  BY <1>1, <1>2, <1>3, <1>4

LEMMA Positive ==
  ASSUME NEW x \in Nat, NEW y \in Nat
  PROVE  x * y \in Nat /\ (x > 0 /\ y > 0 => x * y > 0) /\ (x * y > 0 => x > 0 /\ y > 0)
<1>1. x * y \in Nat
  OBVIOUS
<1>2. x > 0 /\ y > 0 => x * y > 0
  BY Mono
<1>3. x = 0 \/ y = 0 => x * y = 0
  OBVIOUS
<1> QED
  BY <1>1, <1>2, <1>3

\* Place q of a block of c * d is its place in a row of d, and its row.
LEMMA Split ==
  ASSUME NEW c \in Nat, NEW d \in Nat \ {0}, NEW q \in 0 .. c * d - 1
  PROVE  q \div d \in 0 .. c - 1 /\ q % d \in 0 .. d - 1 /\ q = (q \div d) * d + (q % d)
<1>1. c * d \in Nat /\ q \in Int /\ q >= 0 /\ q < c * d
  BY Positive
<1>2. q \div d \in Int /\ q \div d >= 0 /\ q % d \in 0 .. d - 1 /\ q = (q \div d) * d + (q % d)
  BY <1>1, DivMod
<1>3. (q \div d) * d \in Int /\ (q \div d) * d <= q
  BY <1>2, Mono
<1>4. (q \div d) * d < c * d
  BY <1>1, <1>3
<1>5. q \div d < c
  BY <1>2, <1>4, Below
<1> QED
  BY <1>2, <1>5

LEMMA Join ==
  ASSUME NEW c \in Nat, NEW d \in Nat \ {0}, NEW x \in 0 .. c - 1, NEW r \in 0 .. d - 1
  PROVE  x * d + r \in 0 .. c * d - 1
<1>1. x * d + d <= c * d /\ x * d \in Nat
  BY Mono, Positive
<1> QED
  BY <1>1

-----------------------------------------------------------------------------
(* The geometry of a column. *)

Vpw == WORD_SIZE \div bit_encoding            \* values in a word
Lines == PAGE_SIZE \div (CL_SIZE \div 8)      \* lines in a page
Wpp == PartSize \div WORD_SIZE                \* result words of a whole page

Widths == colSize \in ColSizes /\ bit_encoding \in BitEncodings

LEMMA ColumnIs ==
  ASSUME Widths
  PROVE  /\ colSize \in Nat \ {0} /\ bit_encoding \in Nat \ {0} /\ WORD_SIZE \in Nat \ {0}
         /\ CL_SIZE \in Nat \ {0} /\ PAGE_SIZE \in Nat \ {0}
         /\ CL_SIZE % 8 = 0 /\ CL_SIZE % WORD_SIZE = 0 /\ WORD_SIZE % bit_encoding = 0
         /\ PAGE_SIZE % (2 * (CL_SIZE \div 8)) = 0
         /\ ItemsPerCl % WORD_SIZE = 0 \/ 2 * ItemsPerCl = WORD_SIZE
BY ColumnScanAssumption DEF Widths, ItemsPerCl

\* A word holds Vpw values, a line WordsPerCl words, a page Lines lines.
LEMMA WordsAre ==
  ASSUME Widths
  PROVE  /\ Vpw \in Nat \ {0} /\ WORD_SIZE = Vpw * bit_encoding
         /\ WordsPerCl \in Nat \ {0} /\ CL_SIZE = WordsPerCl * WORD_SIZE
         /\ Lines \in Nat \ {0} /\ PAGE_SIZE * 8 = Lines * CL_SIZE
         /\ \E h \in Nat \ {0} : Lines = 2 * h
<1>1. /\ bit_encoding \in Nat \ {0} /\ WORD_SIZE \in Nat \ {0}
      /\ CL_SIZE \in Nat \ {0} /\ PAGE_SIZE \in Nat \ {0}
      /\ CL_SIZE % 8 = 0 /\ CL_SIZE % WORD_SIZE = 0 /\ WORD_SIZE % bit_encoding = 0
      /\ PAGE_SIZE % (2 * (CL_SIZE \div 8)) = 0
  BY ColumnIs
<1>2. ASSUME NEW n \in Nat \ {0}, NEW d \in Nat \ {0}, n % d = 0
      PROVE  n \div d \in Nat \ {0} /\ n = (n \div d) * d
  <2>1. n \div d \in Int /\ n \div d >= 0 /\ n = (n \div d) * d + 0
    BY <1>2, DivMod
  <2>2. n \div d # 0
    BY <2>1
  <2> QED
    BY <2>1, <2>2
<1>3. Vpw \in Nat \ {0} /\ WORD_SIZE = Vpw * bit_encoding
  BY <1>1, <1>2 DEF Vpw
<1>4. WordsPerCl \in Nat \ {0} /\ CL_SIZE = WordsPerCl * WORD_SIZE
  BY <1>1, <1>2 DEF WordsPerCl
<1> DEFINE c == CL_SIZE \div 8
           h == PAGE_SIZE \div (2 * c)
<1>5. c \in Nat \ {0} /\ CL_SIZE = c * 8
  BY <1>1, <1>2
<1>6. h \in Nat \ {0} /\ PAGE_SIZE = h * (2 * c)
  <2>1. 2 * c \in Nat \ {0} /\ PAGE_SIZE % (2 * c) = 0
    BY <1>1, <1>5
  <2> HIDE DEF c
  <2> QED
    BY <1>1, <1>2, <2>1
<1>7. Lines = 2 * h
  <2> HIDE DEF c, h
  <2>1. PAGE_SIZE = (2 * h) * c /\ 2 * h \in Int
    BY <1>5, <1>6
  <2>2. Lines = PAGE_SIZE \div c
    BY DEF Lines, c
  <2> QED
    BY <1>5, <2>1, <2>2, DivExact
<1>8. Lines \in Nat \ {0} /\ PAGE_SIZE * 8 = Lines * CL_SIZE
  <2> HIDE DEF c, h
  <2>1. PAGE_SIZE * 8 = (2 * h) * (c * 8)
    BY <1>5, <1>6
  <2> QED
    BY <1>5, <1>6, <1>7, <2>1
<1> QED
  BY <1>3, <1>4, <1>6, <1>7, <1>8

LEMMA SizesAre ==
  ASSUME Widths
  PROVE  /\ ItemsPerCl \in Nat \ {0} /\ ItemsPerCl = WordsPerCl * Vpw
         /\ PartSize \in Nat \ {0} /\ PartSize = Lines * ItemsPerCl
         /\ PAGE_SIZE * 8 = PartSize * bit_encoding
         /\ ArraySize \in Nat \ {0} /\ ArraySize = Lines * WordsPerCl
         /\ PartSize = ArraySize * Vpw
<1>1. /\ Vpw \in Nat \ {0} /\ WORD_SIZE = Vpw * bit_encoding
      /\ WordsPerCl \in Nat \ {0} /\ CL_SIZE = WordsPerCl * WORD_SIZE
      /\ Lines \in Nat \ {0} /\ PAGE_SIZE * 8 = Lines * CL_SIZE
      /\ bit_encoding \in Nat \ {0} /\ WORD_SIZE \in Nat \ {0}
  BY WordsAre, ColumnIs
<1>2. WordsPerCl * Vpw \in Nat \ {0} /\ Lines * WordsPerCl \in Nat \ {0}
  BY <1>1, Positive
<1>3. ItemsPerCl = WordsPerCl * Vpw
  <2>1. CL_SIZE = (WordsPerCl * Vpw) * bit_encoding
    BY <1>1
  <2> QED
    BY <1>1, <1>2, <2>1, DivExact DEF ItemsPerCl
<1>4. ItemsPerCl \in Nat \ {0} /\ CL_SIZE = ItemsPerCl * bit_encoding
  BY <1>1, <1>2, <1>3
<1>5. Lines * ItemsPerCl \in Nat \ {0}
  BY <1>1, <1>4, Positive
<1>6. PAGE_SIZE * 8 = (Lines * ItemsPerCl) * bit_encoding
  BY <1>1, <1>4
<1>7. PartSize = Lines * ItemsPerCl
  <2>1. ((Lines * ItemsPerCl) * bit_encoding) \div bit_encoding = Lines * ItemsPerCl
    <3>1. bit_encoding \in Nat \ {0} /\ Lines * ItemsPerCl \in Int
      BY <1>1, <1>5
    <3> QED
      BY <3>1, DivExact, Zenon
  <2> QED
    BY <1>6, <2>1 DEF PartSize
<1>8. PartSize = (Lines * WordsPerCl) * Vpw
  BY <1>1, <1>3, <1>7
<1>9. ArraySize = Lines * WordsPerCl
  <2>1. PartSize \div Vpw = Lines * WordsPerCl /\ PartSize % Vpw = 0
    BY <1>1, <1>2, <1>8, DivExact
  <2>2. ArraySize = PartSize \div Vpw + 0
    BY <2>1 DEF ArraySize, Vpw
  <2> QED
    BY <1>2, <2>1, <2>2
<1> QED
  BY <1>2, <1>3, <1>4, <1>5, <1>6, <1>7, <1>8, <1>9

\* The results of a page fill whole words: with half a word of them per line
\* because the lines of a page are pairs.
LEMMA ResultsAre ==
  ASSUME Widths
  PROVE  /\ Wpp \in Nat \ {0} /\ PartSize = Wpp * WORD_SIZE
         /\ ~IsJoin => /\ ResWordsPerCl \in Nat \ {0} /\ ItemsPerCl = ResWordsPerCl * WORD_SIZE
                       /\ Wpp = Lines * ResWordsPerCl
         /\ IsJoin => ItemsPerCl + ItemsPerCl = WORD_SIZE /\ Lines = 2 * Wpp
<1>1. /\ WORD_SIZE \in Nat \ {0} /\ ItemsPerCl \in Nat \ {0}
      /\ PartSize = Lines * ItemsPerCl /\ Lines \in Nat \ {0}
      /\ ItemsPerCl % WORD_SIZE = 0 \/ 2 * ItemsPerCl = WORD_SIZE
  BY ColumnIs, WordsAre, SizesAre
<1>2. CASE IsJoin
  <2>1. PICK h \in Nat \ {0} : Lines = 2 * h
    BY WordsAre
  <2>2. ItemsPerCl + ItemsPerCl = WORD_SIZE
    BY <1>1, <1>2 DEF IsJoin
  <2>3. PartSize = h * WORD_SIZE
    BY <1>1, <2>1, <2>2
  <2>4. Wpp = h
    BY <1>1, <2>3, DivExact DEF Wpp
  <2> QED
    BY <1>2, <2>1, <2>2, <2>3, <2>4
<1>3. CASE ~IsJoin
  <2>1. /\ ResWordsPerCl \in Int /\ ResWordsPerCl >= 0
        /\ ItemsPerCl = ResWordsPerCl * WORD_SIZE
    <3>1. ItemsPerCl % WORD_SIZE = 0
      BY <1>1, <1>3 DEF IsJoin
    <3>2. /\ ItemsPerCl \div WORD_SIZE \in Int /\ ItemsPerCl \div WORD_SIZE >= 0
          /\ ItemsPerCl = (ItemsPerCl \div WORD_SIZE) * WORD_SIZE + 0
      BY <1>1, <3>1, DivMod
    <3>3. (ItemsPerCl \div WORD_SIZE) * WORD_SIZE \in Int
      BY <1>1, <3>2
    <3> QED
      BY <3>2, <3>3 DEF ResWordsPerCl
  <2>2. ResWordsPerCl \in Nat \ {0}
    BY <1>1, <2>1
  <2>3. PartSize = (Lines * ResWordsPerCl) * WORD_SIZE
    BY <1>1, <2>1, <2>2
  <2>4. Lines * ResWordsPerCl \in Nat \ {0}
    BY <1>1, <2>2, Positive
  <2>5. Wpp = Lines * ResWordsPerCl
    BY <1>1, <2>3, <2>4, DivExact DEF Wpp
  <2> QED
    BY <1>3, <2>1, <2>2, <2>3, <2>4, <2>5
<1> QED
  BY <1>2, <1>3

\* Each page has a row: the column's bytes do not end before it.
LEMMA PagesAre ==
  ASSUME Widths
  PROVE  /\ NumOfPages \in Nat
         /\ \A p \in PartId : p \in Nat /\ p * PartSize \in Nat /\ p * PartSize < colSize
         /\ colSize <= PartSize => NumOfPages <= 1
<1> DEFINE T == (bit_encoding * colSize) \div 8
           full == T \div PAGE_SIZE
           rest == T % PAGE_SIZE
<1>1. /\ colSize \in Nat \ {0} /\ bit_encoding \in Nat \ {0} /\ PAGE_SIZE \in Nat \ {0}
      /\ PartSize \in Nat \ {0} /\ PAGE_SIZE * 8 = PartSize * bit_encoding
  BY ColumnIs, SizesAre
<1>2. T \in Nat /\ T * 8 <= bit_encoding * colSize
  <2> DEFINE bits == bit_encoding * colSize
  <2>1. bits \in Nat
    BY <1>1, Positive
  <2> HIDE DEF bits
  <2>2. bits \div 8 \in Nat /\ (bits \div 8) * 8 <= bits
    BY <2>1
  <2> QED
    BY <2>2 DEF bits
<1>3. NumOfPages = full + (IF rest > 0 THEN 1 ELSE 0)
  BY DEF NumOfPages
<1>4. full \in Nat /\ rest \in 0 .. PAGE_SIZE - 1 /\ T = full * PAGE_SIZE + rest
  <2> HIDE DEF T
  <2>1. T \in Int /\ T >= 0 /\ PAGE_SIZE \in Nat \ {0}
    BY <1>1, <1>2
  <2>2. T \div PAGE_SIZE \in Int /\ T \div PAGE_SIZE >= 0 /\ T % PAGE_SIZE \in 0 .. PAGE_SIZE - 1
        /\ T = (T \div PAGE_SIZE) * PAGE_SIZE + (T % PAGE_SIZE)
    BY <2>1, DivMod, Zenon
  <2> QED
    BY <2>2
<1> HIDE DEF T, full, rest
<1>5. NumOfPages \in Nat
  BY <1>3, <1>4
<1>6. ASSUME NEW p \in Nat, p < NumOfPages
      PROVE  p * PartSize \in Nat /\ p * PartSize < colSize
  <2>1. p * PAGE_SIZE < T
    <3>1. full * PAGE_SIZE \in Nat
      BY <1>1, <1>4, Positive
    <3>2. CASE rest > 0
      <4>1. p <= full
        BY <1>3, <1>4, <1>6, <3>2
      <4>2. p * PAGE_SIZE <= full * PAGE_SIZE
        BY <1>1, <1>4, <4>1, Mono
      <4> QED
        BY <1>1, <1>4, <3>1, <3>2, <4>2, Mono
    <3>3. CASE rest = 0
      <4>1. p < full
        BY <1>3, <1>4, <1>6, <3>3
      <4>2. p * PAGE_SIZE + PAGE_SIZE <= full * PAGE_SIZE
        BY <1>1, <1>4, <4>1, Mono
      <4>3. p * PAGE_SIZE \in Int
        BY <1>1, Mono
      <4> QED
        BY <1>1, <1>4, <3>1, <3>3, <4>2, <4>3
    <3> QED
      BY <1>4, <3>2, <3>3
  <2>2. p * PAGE_SIZE \in Nat /\ p * PartSize \in Nat
    BY <1>1, Positive
  <2>3. (p * PAGE_SIZE) * 8 < bit_encoding * colSize
    <3> DEFINE x == p * PAGE_SIZE
               bits == bit_encoding * colSize
    <3>1. x \in Nat /\ x < T /\ T * 8 <= bits /\ bits \in Nat /\ T \in Nat
      BY <1>1, <1>2, <2>1, <2>2, Positive
    <3> HIDE DEF x, bits
    <3>2. x * 8 < bits
      BY <3>1
    <3> QED
      BY <3>2 DEF x, bits
  <2>4. (p * PAGE_SIZE) * 8 = (p * PartSize) * bit_encoding
    BY <1>1
  <2>5. (p * PartSize) * bit_encoding < colSize * bit_encoding
    BY <1>1, <2>3, <2>4
  <2> QED
    BY <1>1, <2>2, <2>5, Below
<1>7. colSize <= PartSize => NumOfPages <= 1
  <2> SUFFICES ASSUME NumOfPages > 1 PROVE PartSize < colSize
    BY <1>1, <1>5
  <2>1. 1 * PartSize < colSize
    BY <1>6
  <2> QED
    BY <1>1, <2>1
<1> QED
  BY <1>5, <1>6, <1>7 DEF PartId

\* The result words reserved for a page have a bit for each of its rows.
LEMMA ReservedAre ==
  ASSUME Widths
  PROVE  /\ ResBuffLen \in Nat \ {0} /\ ResBuffLen <= Wpp
         /\ colSize < PartSize => /\ colSize < ResBuffLen * WORD_SIZE
                                  /\ ResBuffLen = colSize \div WORD_SIZE + 1
         /\ ~ (colSize < PartSize) => ResBuffLen = Wpp
<1>1. /\ colSize \in Nat \ {0} /\ WORD_SIZE \in Nat \ {0} /\ PartSize \in Nat \ {0}
      /\ Wpp \in Nat \ {0} /\ PartSize = Wpp * WORD_SIZE
  BY ColumnIs, SizesAre, ResultsAre
<1>2. CASE colSize < PartSize
  <2> DEFINE c == colSize \div WORD_SIZE
  <2>1. c \in Int /\ c >= 0 /\ colSize % WORD_SIZE \in 0 .. WORD_SIZE - 1
        /\ colSize = c * WORD_SIZE + (colSize % WORD_SIZE)
    <3>1. colSize \in Int /\ colSize >= 0 /\ WORD_SIZE \in Nat \ {0}
      BY <1>1
    <3> QED
      BY <3>1, DivMod, Zenon
  <2>2. ResBuffLen = c + 1
    BY <1>2 DEF ResBuffLen
  <2> HIDE DEF c
  <2>3. c * WORD_SIZE \in Int /\ (c + 1) * WORD_SIZE = c * WORD_SIZE + WORD_SIZE
    BY <1>1, <2>1
  <2>4. c * WORD_SIZE < Wpp * WORD_SIZE
    BY <1>1, <1>2, <2>1, <2>3
  <2>5. c < Wpp
    BY <1>1, <2>1, <2>4, Below
  <2>6. colSize < (c + 1) * WORD_SIZE
    BY <1>1, <2>1, <2>3
  <2> QED
    BY <1>1, <1>2, <2>1, <2>2, <2>5, <2>6 DEF c
<1>3. CASE ~ (colSize < PartSize)
  <2>1. ResBuffLen = Wpp
    BY <1>3 DEF ResBuffLen, Wpp
  <2> QED
    BY <1>1, <1>3, <2>1
<1> QED
  BY <1>2, <1>3

\* A unit is given no line that is not in the page, and all that hold rows.
LEMMA LinesTaken ==
  ASSUME Widths
  PROVE  /\ TotalCls \in Nat \ {0} /\ TotalCls <= Lines
         /\ IsJoin => TotalCls = Lines
         /\ TotalCls = Lines \/ colSize <= TotalCls * ItemsPerCl
         /\ ~ (colSize < PartSize) => TotalCls = Lines
<1> DEFINE needed == (colSize + ItemsPerCl - 1) \div ItemsPerCl
<1>1. /\ colSize \in Nat \ {0} /\ ItemsPerCl \in Nat \ {0} /\ Lines \in Nat \ {0}
      /\ PartSize = Lines * ItemsPerCl
  BY ColumnIs, SizesAre, WordsAre
<1>2. /\ needed \in Int
      /\ (colSize + ItemsPerCl - 1) % ItemsPerCl \in 0 .. ItemsPerCl - 1
      /\ colSize + ItemsPerCl - 1
           = needed * ItemsPerCl + ((colSize + ItemsPerCl - 1) % ItemsPerCl)
  <2>1. colSize + ItemsPerCl - 1 \in Int
    BY <1>1
  <2> QED
    BY <1>1, <2>1, DivMod
<1>3. TotalCls = IF needed < Lines /\ ~IsJoin THEN needed ELSE Lines
  BY DEF TotalCls, Lines
<1> HIDE DEF needed
<1>4. needed * ItemsPerCl \in Int /\ colSize <= needed * ItemsPerCl
  BY <1>1, <1>2, Mono
<1>5. needed >= 1
  <2>1. 0 * ItemsPerCl < needed * ItemsPerCl
    BY <1>1, <1>4
  <2>2. 0 < needed
    BY <1>1, <1>2, <2>1, Below
  <2> QED
    BY <1>2, <2>2
<1>6. ~ (colSize < PartSize) => needed >= Lines
  <2>1. needed < Lines => needed * ItemsPerCl + ItemsPerCl <= Lines * ItemsPerCl
    BY <1>1, <1>2, Mono
  <2>2. Lines * ItemsPerCl \in Int
    BY <1>1
  <2>3. ~ (colSize < PartSize) => Lines * ItemsPerCl <= needed * ItemsPerCl
    BY <1>1, <1>4, <2>2
  <2> QED
    BY <1>1, <1>2, <1>4, <2>1, <2>2, <2>3
<1> QED
  BY <1>1, <1>2, <1>3, <1>4, <1>5, <1>6

-----------------------------------------------------------------------------
(* The invariant. *)

\* The row of slot q of page p, and bit k of what is stored there.
RowOf(p, q) == p * PartSize + q
Stored(p, q, k) == compressed[p][q \div Vpw][(q % Vpw) * bit_encoding + k]

\* What a result bit has to say about slot i of the pages put end to end.
IsAnswer(a, i) == IF i < colSize THEN a = i ELSE a \in {Padding, Mixed}

\* A page that has been written: a row in each slot as far as the column goes,
\* nothing a row could be taken for after that.
Packed(p) ==
  \A q \in 0 .. PartSize - 1, k \in 0 .. bit_encoding - 1 :
    IF RowOf(p, q) < colSize THEN Stored(p, q, k) = {<<RowOf(p, q), k>>}
                             ELSE Stored(p, q, k) \in {{}, {<<-1, 0>>}}

\* Its result lines.
Scanned(p) ==
  /\ DOMAIN write_buff[p] = 0 .. TotalCls * WordsPerCl - 1
  /\ \A cl \in 0 .. TotalCls - 1, j \in 0 .. ItemsPerCl - 1 :
       IsAnswer(write_buff[p][cl * WordsPerCl + j \div WORD_SIZE][j % WORD_SIZE],
                RowOf(p, cl * ItemsPerCl + j))

\* The slot bit k of result word w is about.
ResultOf(w, k) == RowOf(w \div ResBuffLen, (w % ResBuffLen) * WORD_SIZE + k)

ShapeInv ==
  /\ Widths
  /\ pc \in {"allocate", "read", "scan", "copy", "count", "done"}
  /\ part_id \in 0 .. NumOfPages
  /\ compressed \in [PartId -> [0 .. ArraySize - 1 -> Word]]
  /\ DOMAIN write_buff = PartId
  /\ \A p \in PartId : \A w \in DOMAIN write_buff[p] : write_buff[p][w] \in AnswerWord
  /\ bit_result \in [ResultWord -> AnswerWord]
  /\ overrun \in BOOLEAN
  /\ pc = "done" => counted \in [Answer -> Nat]

WordInv ==
  /\ items_read \in 0 .. PartSize
  /\ curIndex \in 0 .. ArraySize - 1
  /\ writtenVal \in Word
  /\ bits_remaining \in 0 .. WORD_SIZE
  /\ shift_amount = WORD_SIZE - bits_remaining

\* The values in the word being filled.
Filled == items_read - curIndex * Vpw

\* The page being read: words already written, the word being filled, the rest.
ReadInv ==
  pc = "read" =>
    /\ part_id \in PartId
    /\ rows = RowOf(part_id, items_read)
    /\ Filled \in 0 .. Vpw /\ (Filled = 0 => items_read = 0)
    /\ shift_amount = Filled * bit_encoding
    /\ \A v \in 0 .. Vpw - 1, k \in 0 .. bit_encoding - 1 :
         writtenVal[v * bit_encoding + k]
           = IF v < Filled THEN {<<RowOf(part_id, curIndex * Vpw + v), k>>} ELSE {}
    /\ \A q \in 0 .. curIndex * Vpw - 1, k \in 0 .. bit_encoding - 1 :
         Stored(part_id, q, k) = {<<RowOf(part_id, q), k>>}
    /\ \A w \in curIndex .. ArraySize - 1 : compressed[part_id][w] = Unset

\* The pages before it and after it.
PagesInv ==
  /\ rows \in 0 .. colSize /\ rows <= NumOfPages * PartSize
  /\ pc = "allocate" => /\ part_id < NumOfPages => rows = part_id * PartSize
                        /\ \A p \in 0 .. part_id - 1 : Packed(p)
                        /\ \A p \in part_id .. NumOfPages - 1 :
                             \A w \in 0 .. ArraySize - 1 : compressed[p][w] = Unset
  /\ pc = "read" => /\ \A p \in 0 .. part_id - 1 : Packed(p)
                    /\ \A p \in part_id + 1 .. NumOfPages - 1 :
                         \A w \in 0 .. ArraySize - 1 : compressed[p][w] = Unset
  /\ pc \in {"scan", "copy", "count", "done"} => \A p \in PartId : Packed(p)

ScanInv ==
  /\ pc = "scan" => \A p \in 0 .. part_id - 1 : Scanned(p)
  /\ pc \in {"copy", "count", "done"} => \A p \in PartId : Scanned(p)

\* The pages whose results have been copied.
Reached == IF pc = "copy" THEN part_id
           ELSE IF pc \in {"count", "done"} THEN NumOfPages ELSE 0

CopyInv ==
  \A w \in ResultWord, k \in BitOf :
    IF w \div ResBuffLen < Reached THEN IsAnswer(bit_result[w][k], ResultOf(w, k))
                                   ELSE bit_result[w][k] = Mixed

CountInv ==
  pc = "done" =>
    counted = [a \in Answer |->
                 Cardinality({b \in ResultWord \X BitOf : bit_result[b[1]][b[2]] = a})]

IInv == ShapeInv /\ WordInv /\ ReadInv /\ PagesInv /\ ScanInv /\ CopyInv /\ CountInv

-----------------------------------------------------------------------------
(* Slots, lines and words. *)

\* Value j of line cl is slot cl * ItemsPerCl + j of its page.
LEMMA SlotIs ==
  ASSUME Widths, NEW cl \in 0 .. Lines - 1, NEW j \in 0 .. ItemsPerCl - 1
  PROVE  cl * ItemsPerCl + j \in 0 .. PartSize - 1
<1>1. Lines \in Nat /\ ItemsPerCl \in Nat \ {0} /\ PartSize = Lines * ItemsPerCl
  BY WordsAre, SizesAre
<1>2. cl * ItemsPerCl + j \in 0 .. Lines * ItemsPerCl - 1
  BY <1>1, Join
<1> QED
  BY <1>1, <1>2

\* Its bits, as the unit finds them in the line, are those the host packed.
LEMMA SlotBits ==
  ASSUME Widths, NEW p, NEW cl \in 0 .. Lines - 1, NEW j \in 0 .. ItemsPerCl - 1,
         NEW k \in 0 .. bit_encoding - 1
  PROVE  LineBit(compressed[p], cl, j * bit_encoding + k) = Stored(p, cl * ItemsPerCl + j, k)
<1> DEFINE j1 == j \div Vpw
           j2 == j % Vpw
<1>1. /\ bit_encoding \in Nat \ {0} /\ Vpw \in Nat \ {0} /\ WORD_SIZE \in Nat \ {0}
      /\ WordsPerCl \in Nat \ {0} /\ ItemsPerCl = WordsPerCl * Vpw
      /\ WORD_SIZE = Vpw * bit_encoding /\ cl \in Int
  BY ColumnIs, WordsAre, SizesAre
<1>2. j1 \in Int /\ j2 \in 0 .. Vpw - 1 /\ j = j1 * Vpw + j2
  <2>1. j \in 0 .. WordsPerCl * Vpw - 1 /\ WordsPerCl \in Nat
    BY <1>1
  <2>2. j \div Vpw \in 0 .. WordsPerCl - 1 /\ j % Vpw \in 0 .. Vpw - 1
        /\ j = (j \div Vpw) * Vpw + (j % Vpw)
    BY <1>1, <2>1, Split, Zenon
  <2> QED
    BY <2>2
<1> HIDE DEF j1, j2
<1>3. j2 * bit_encoding + k \in 0 .. WORD_SIZE - 1
  <2>1. j2 * bit_encoding + k \in 0 .. Vpw * bit_encoding - 1
    BY <1>1, <1>2, Join
  <2> QED
    BY <1>1, <2>1
<1>4. j * bit_encoding + k = j1 * WORD_SIZE + (j2 * bit_encoding + k)
  BY <1>1, <1>2
<1>5. (j * bit_encoding + k) \div WORD_SIZE = j1
      /\ (j * bit_encoding + k) % WORD_SIZE = j2 * bit_encoding + k
  <2> DEFINE r == j2 * bit_encoding + k
  <2>1. r \in 0 .. WORD_SIZE - 1 /\ j * bit_encoding + k = j1 * WORD_SIZE + r
    BY <1>3, <1>4
  <2> HIDE DEF r
  <2>2. (j1 * WORD_SIZE + r) \div WORD_SIZE = j1 /\ (j1 * WORD_SIZE + r) % WORD_SIZE = r
    BY <1>1, <1>2, <2>1, DivIs, Zenon
  <2> QED
    BY <2>1, <2>2 DEF r
<1>6. cl * ItemsPerCl + j = (cl * WordsPerCl + j1) * Vpw + j2
  BY <1>1, <1>2
<1>7. (cl * ItemsPerCl + j) \div Vpw = cl * WordsPerCl + j1 /\ (cl * ItemsPerCl + j) % Vpw = j2
  <2> DEFINE w == cl * WordsPerCl + j1
  <2>1. w \in Int /\ cl * ItemsPerCl + j = w * Vpw + j2
    BY <1>1, <1>2, <1>6
  <2> HIDE DEF w
  <2>2. (w * Vpw + j2) \div Vpw = w /\ (w * Vpw + j2) % Vpw = j2
    BY <1>1, <1>2, <2>1, DivIs, Zenon
  <2> QED
    BY <2>1, <2>2 DEF w
<1> QED
  BY <1>5, <1>7, Zenon DEF LineBit, Stored

\* So a unit compares the value of the slot's row, and no other.
LEMMA SlotAnswer ==
  ASSUME Widths, NEW p \in PartId, Packed(p),
         NEW cl \in 0 .. Lines - 1, NEW j \in 0 .. ItemsPerCl - 1
  PROVE  /\ IsAnswer(Slot(compressed[p], cl, j), RowOf(p, cl * ItemsPerCl + j))
         /\ Slot(compressed[p], cl, j) \in Answer
<1> DEFINE q == cl * ItemsPerCl + j
           i == RowOf(p, q)
           bit(k) == LineBit(compressed[p], cl, j * bit_encoding + k)
<1>1. bit_encoding \in Nat \ {0} /\ colSize \in Nat \ {0} /\ 0 \in 0 .. bit_encoding - 1
  BY ColumnIs
<1>2. q \in 0 .. PartSize - 1
  BY SlotIs
<1>3. i \in Nat
  <2>1. p * PartSize \in Nat
    BY PagesAre
  <2> QED
    BY <1>2, <2>1 DEF RowOf
<1>4. \A k \in 0 .. bit_encoding - 1 :
        IF i < colSize THEN bit(k) = {<<i, k>>} ELSE bit(k) \in {{}, {<<-1, 0>>}}
  BY <1>2, SlotBits DEF Packed
<1>5. Slot(compressed[p], cl, j)
        = IF \A k \in 0 .. bit_encoding - 1 : bit(k) = {} THEN Padding
          ELSE IF \E n \in Row : \A k \in 0 .. bit_encoding - 1 : bit(k) = {<<n, k>>}
          THEN (CHOOSE c \in bit(0) : TRUE)[1]
          ELSE Mixed
  BY DEF Slot
<1> HIDE DEF bit, q, i
<1>6. CASE i < colSize
  <2>1. i \in Row
    BY <1>1, <1>3, <1>6 DEF Row
  <2>2. \A k \in 0 .. bit_encoding - 1 : bit(k) = {<<i, k>>}
    BY <1>4, <1>6
  <2>3. bit(0) = {<<i, 0>>}
    BY <1>1, <2>2
  <2>4. ~ (\A k \in 0 .. bit_encoding - 1 : bit(k) = {})
    BY <1>1, <2>3
  <2>5. \E n \in Row : \A k \in 0 .. bit_encoding - 1 : bit(k) = {<<n, k>>}
    BY <2>1, <2>2
  <2>6. Slot(compressed[p], cl, j) = (CHOOSE c \in bit(0) : TRUE)[1]
    BY <1>5, <2>4, <2>5, Zenon
  <2>7. (CHOOSE c \in {<<i, 0>>} : TRUE) = <<i, 0>>
    OBVIOUS
  <2>8. Slot(compressed[p], cl, j) = i
    BY <2>3, <2>6, <2>7
  <2> QED
    BY <1>6, <2>1, <2>8 DEF IsAnswer, Answer, i, q
<1>7. CASE ~ (i < colSize)
  <2>1. bit(0) \in {{}, {<<-1, 0>>}}
    BY <1>1, <1>4, <1>7
  <2>2. \A n \in Row : bit(0) # {<<n, 0>>}
    <3>1. \A n \in Row : n # -1
      BY <1>1 DEF Row
    <3>2. ASSUME NEW n \in Row, bit(0) = {<<n, 0>>} PROVE FALSE
      <4>1. {<<n, 0>>} = {<<-1, 0>>}
        BY <2>1, <3>2
      <4>2. <<n, 0>> = <<-1, 0>>
        BY <4>1
      <4> QED
        BY <3>1, <4>2
    <3> QED
      BY <3>2
  <2>3. ~ (\E n \in Row : \A k \in 0 .. bit_encoding - 1 : bit(k) = {<<n, k>>})
    BY <1>1, <2>2
  <2>4. Slot(compressed[p], cl, j) \in {Padding, Mixed}
    BY <1>5, <2>3, Zenon
  <2> QED
    BY <1>7, <2>4 DEF IsAnswer, Answer, i, q
<1> QED
  BY <1>6, <1>7

-----------------------------------------------------------------------------
(* Packing. *)

LEMMA SameColumn ==
  ASSUME UNCHANGED column
  PROVE  /\ colSize' = colSize /\ bit_encoding' = bit_encoding
         /\ NumOfPages' = NumOfPages /\ PartSize' = PartSize /\ ArraySize' = ArraySize
         /\ ItemsPerCl' = ItemsPerCl /\ TotalCls' = TotalCls /\ ResBuffLen' = ResBuffLen
         /\ Vpw' = Vpw /\ PartId' = PartId /\ Row' = Row /\ Word' = Word
         /\ Answer' = Answer /\ AnswerWord' = AnswerWord /\ ResultWord' = ResultWord
         /\ \A p, q : RowOf(p, q)' = RowOf(p, q)
         /\ \A w, k : ResultOf(w, k)' = ResultOf(w, k)
         /\ Widths' <=> Widths
<1>1. colSize' = colSize /\ bit_encoding' = bit_encoding
  BY DEF column
<1>2. PartSize' = PartSize /\ ItemsPerCl' = ItemsPerCl /\ NumOfPages' = NumOfPages /\ Vpw' = Vpw
      /\ Row' = Row /\ Word' = Word
  BY <1>1 DEF PartSize, ItemsPerCl, NumOfPages, Vpw, Row, Word
<1>3. ArraySize' = ArraySize /\ TotalCls' = TotalCls /\ ResBuffLen' = ResBuffLen
      /\ PartId' = PartId /\ Answer' = Answer /\ AnswerWord' = AnswerWord
  BY <1>1, <1>2 DEF ArraySize, TotalCls, IsJoin, ResBuffLen, PartId, Answer, AnswerWord
<1>4. ResultWord' = ResultWord /\ \A p, q : RowOf(p, q)' = RowOf(p, q)
  BY <1>2, <1>3 DEF ResultWord, RowOf
<1>5. \A w, k : ResultOf(w, k)' = ResultOf(w, k)
  BY <1>2, <1>3 DEF ResultOf, RowOf
<1>6. Widths' <=> Widths
  BY <1>1 DEF Widths
<1> QED
  BY <1>1, <1>2, <1>3, <1>4, <1>5, <1>6

\* A page that is not written to stays as it is.
LEMMA PackedStays ==
  ASSUME UNCHANGED column, NEW p, compressed'[p] = compressed[p], Packed(p)
  PROVE  Packed(p)'
BY SameColumn, Zenon DEF Packed, Stored

LEMMA ScannedStays ==
  ASSUME UNCHANGED column, NEW p, write_buff'[p] = write_buff[p], Scanned(p)
  PROVE  Scanned(p)'
BY SameColumn, Zenon DEF Scanned, IsAnswer

LEMMA PlaceInWord ==
  ASSUME Widths, NEW v \in 0 .. Vpw - 1, NEW k \in 0 .. bit_encoding - 1
  PROVE  v * bit_encoding + k \in BitOf
<1>1. Vpw \in Nat /\ bit_encoding \in Nat \ {0} /\ WORD_SIZE = Vpw * bit_encoding
  BY WordsAre, ColumnIs
<1>2. v * bit_encoding + k \in 0 .. Vpw * bit_encoding - 1
  BY <1>1, Join
<1> QED
  BY <1>1, <1>2 DEF BitOf

LEMMA WordsClean ==
  ASSUME Widths
  PROVE  Clean \in Word /\ Unset \in Word /\ [k \in BitOf |-> Mixed] \in AnswerWord
BY DEF Clean, Unset, Word, AnswerWord, Answer

LEMMA NoneReached ==
  ASSUME Widths, Reached = 0, \A w \in ResultWord : bit_result[w] = [k \in BitOf |-> Mixed]
  PROVE  CopyInv
<1>1. ResBuffLen \in Nat \ {0} /\ ResultWord \subseteq Nat
  BY ReservedAre DEF ResultWord
<1>2. \A w \in ResultWord : ~ (w \div ResBuffLen < 0)
  <2> SUFFICES ASSUME NEW w \in ResultWord PROVE ~ (w \div ResBuffLen < 0)
    OBVIOUS
  <2>1. w \in Int /\ w >= 0
    BY <1>1
  <2>2. w \div ResBuffLen \in Int /\ (w >= 0 => w \div ResBuffLen >= 0)
    BY <1>1, <2>1, DivMod, Zenon
  <2> QED
    BY <2>1, <2>2
<1> QED
  BY <1>2 DEF CopyInv

LEMMA InitInv ==
  ASSUME Init
  PROVE  IInv
<1>1. Widths
  BY DEF Init, Widths
<1>2. /\ colSize \in Nat \ {0} /\ WORD_SIZE \in Nat \ {0} /\ PartSize \in Nat \ {0}
      /\ ArraySize \in Nat \ {0} /\ NumOfPages \in Nat /\ Vpw \in Nat \ {0}
  BY <1>1, ColumnIs, SizesAre, PagesAre, WordsAre
<1>3. ShapeInv
  <2>1. compressed \in [PartId -> [0 .. ArraySize - 1 -> Word]]
        /\ bit_result \in [ResultWord -> AnswerWord]
    BY <1>1, WordsClean DEF Init
  <2>2. DOMAIN write_buff = PartId /\ \A p \in PartId : DOMAIN write_buff[p] = {}
    BY DEF Init
  <2>3. pc = "allocate" /\ part_id \in 0 .. NumOfPages
    BY <1>2 DEF Init
  <2>4. overrun \in BOOLEAN
    BY Zenon DEF Init
  <2>5. \A p \in PartId : \A w \in DOMAIN write_buff[p] : write_buff[p][w] \in AnswerWord
    BY <2>2
  <2> QED
    BY <1>1, <2>1, <2>2, <2>3, <2>4, <2>5 DEF ShapeInv
<1>4. WordInv
  BY <1>1, <1>2, WordsClean DEF Init, WordInv
<1>5. PagesInv
  <2>1. rows = 0 /\ part_id = 0 /\ pc = "allocate"
        /\ \A p \in PartId : \A w \in 0 .. ArraySize - 1 : compressed[p][w] = Unset
    BY DEF Init
  <2>2. 0 * PartSize = 0 /\ NumOfPages * PartSize \in Nat
    BY <1>2, Positive
  <2> QED
    BY <1>2, <2>1, <2>2 DEF PagesInv, PartId
<1>6. CopyInv
  <2>1. Reached = 0
    BY DEF Init, Reached
  <2> QED
    BY <1>1, <2>1, NoneReached DEF Init
<1> QED
  BY <1>3, <1>4, <1>5, <1>6 DEF Init, IInv, ReadInv, ScanInv, CountInv

\* A page begins.
LEMMA AllocateKeeps ==
  ASSUME IInv, Allocate
  PROVE  IInv'
<1>1. /\ pc = "allocate" /\ UNCHANGED column /\ compressed' = compressed
      /\ write_buff' = write_buff /\ bit_result' = bit_result /\ overrun' = overrun
      /\ counted' = counted
  BY DEF Allocate
<1>2. /\ Widths /\ part_id \in 0 .. NumOfPages /\ NumOfPages \in Nat
      /\ Vpw \in Nat \ {0} /\ ArraySize \in Nat \ {0} /\ PartSize \in Nat \ {0}
      /\ WORD_SIZE \in Nat \ {0}
      /\ bit_encoding \in Nat \ {0}
  <2>1. Widths /\ part_id \in 0 .. NumOfPages
    BY DEF IInv, ShapeInv
  <2> QED
    BY <2>1, ColumnIs, WordsAre, SizesAre, PagesAre
<1>3. Reached = 0 /\ (pc' \in {"read", "scan"} => Reached' = 0)
  BY <1>1 DEF Reached
<1>4. pc' \in {"read", "scan"} => CopyInv'
  <2>1. \A w \in ResultWord, k \in BitOf :
          IF w \div ResBuffLen < 0 THEN IsAnswer(bit_result[w][k], ResultOf(w, k))
                                   ELSE bit_result[w][k] = Mixed
    BY <1>3 DEF IInv, CopyInv
  <2>2. ResultWord' = ResultWord /\ ResBuffLen' = ResBuffLen /\ bit_result' = bit_result
        /\ colSize' = colSize /\ \A w, k : ResultOf(w, k)' = ResultOf(w, k)
    BY <1>1, SameColumn
  <2> QED
    BY <1>3, <2>1, <2>2, Zenon DEF CopyInv, IsAnswer
<1>5. pc' \in {"read", "scan"} => ScanInv' /\ CountInv'
  <2>1. pc' \in {"read", "scan"} => CountInv'
    BY DEF CountInv
  <2>2. pc' = "scan" => part_id' = 0
    BY DEF Allocate
  <2>3. pc' \in {"read", "scan"} => ScanInv'
    BY <2>2 DEF ScanInv
  <2> QED
    BY <2>1, <2>3
<1>6. part_id' \in 0 .. NumOfPages /\ pc' \in {"read", "scan"} => ShapeInv'
  BY <1>1, SameColumn DEF IInv, ShapeInv
<1>7. CASE part_id < NumOfPages
  <2>1. /\ pc' = "read" /\ UNCHANGED <<part_id, rows>>
        /\ items_read' = 0 /\ curIndex' = 0 /\ writtenVal' = Clean
        /\ bits_remaining' = WORD_SIZE /\ shift_amount' = 0
    BY <1>7 DEF Allocate
  <2>2. WordInv'
    <3>1. Word' = Word /\ PartSize' = PartSize /\ ArraySize' = ArraySize
      BY <1>1, SameColumn
    <3> QED
      BY <1>2, <2>1, <3>1, WordsClean DEF WordInv
  <2>3. Filled' = 0 /\ curIndex' * Vpw' = 0
    BY <1>1, <1>2, <2>1, SameColumn DEF Filled
  <2>4. part_id \in PartId /\ rows = part_id * PartSize
    BY <1>1, <1>2, <1>7 DEF IInv, PagesInv, PartId
  <2>5. rows = RowOf(part_id, 0)
    BY <1>2, <2>4 DEF RowOf
  <2>6. \A v \in 0 .. Vpw - 1, k \in 0 .. bit_encoding - 1 :
          writtenVal'[v * bit_encoding + k] = {}
    BY <1>2, <2>1, PlaceInWord DEF Clean
  <2>7. \A w \in 0 .. ArraySize - 1 : compressed[part_id][w] = Unset
    BY <1>1, <2>4 DEF IInv, PagesInv, PartId
  <2>8. ReadInv'
    <3>1. /\ part_id' \in PartId' /\ rows' = RowOf(part_id, 0)
          /\ Filled' \in 0 .. Vpw' /\ shift_amount' = Filled' * bit_encoding'
      <4>1. 0 * bit_encoding = 0
        BY <1>2
      <4> QED
        BY <1>1, <1>2, <2>1, <2>3, <2>4, <2>5, <4>1, SameColumn
    <3>2. rows' = RowOf(part_id, items_read)'
      BY <1>1, <2>1, <3>1, SameColumn DEF RowOf
    <3>3. \A v \in 0 .. Vpw' - 1, k \in 0 .. bit_encoding' - 1 :
            writtenVal'[v * bit_encoding' + k]
              = IF v < Filled' THEN {<<RowOf(part_id, curIndex * Vpw + v)', k>>} ELSE {}
      <4>1. \A v \in 0 .. Vpw - 1 : ~ (v < 0)
        BY <1>2
      <4> QED
        BY <1>1, <2>3, <2>6, <4>1, SameColumn
    <3>4. \A w \in curIndex' .. ArraySize' - 1 : compressed'[part_id'][w] = Unset
      BY <1>1, <2>1, <2>7, SameColumn
    <3>5. 0 .. curIndex' * Vpw' - 1 = {}
      BY <2>3
    <3> QED
      BY <2>1, <3>1, <3>2, <3>3, <3>4, <3>5 DEF ReadInv
  <2>9. PagesInv'
    <3>1. rows \in 0 .. colSize /\ rows <= NumOfPages * PartSize
      BY DEF IInv, PagesInv
    <3>2. \A p \in 0 .. part_id - 1 : Packed(p)'
      <4>1. \A p \in 0 .. part_id - 1 : Packed(p)
        BY <1>1 DEF IInv, PagesInv
      <4> QED
        BY <1>1, <4>1, PackedStays
    <3>3. \A p \in part_id + 1 .. NumOfPages - 1 :
            \A w \in 0 .. ArraySize - 1 : compressed[p][w] = Unset
      BY <1>1, <1>2 DEF IInv, PagesInv
    <3>4. /\ rows' = rows /\ part_id' = part_id /\ compressed' = compressed /\ pc' = "read"
          /\ NumOfPages' = NumOfPages /\ PartSize' = PartSize /\ ArraySize' = ArraySize
          /\ colSize' = colSize
      BY <1>1, <2>1, SameColumn
    <3> QED
      BY <3>1, <3>2, <3>3, <3>4 DEF PagesInv
  <2> QED
    BY <1>2, <1>4, <1>5, <1>6, <2>1, <2>2, <2>8, <2>9 DEF IInv
<1>8. CASE part_id = NumOfPages
  <2>1. pc' = "scan" /\ part_id' = 0 /\ UNCHANGED packing
    BY <1>2, <1>8 DEF Allocate
  <2>2. WordInv' /\ ReadInv'
    <3>1. WordInv'
      BY <1>1, <2>1, SameColumn DEF IInv, WordInv, packing
    <3> QED
      BY <2>1, <3>1 DEF ReadInv
  <2>3. PagesInv'
    <3>1. rows \in 0 .. colSize /\ rows <= NumOfPages * PartSize
      BY DEF IInv, PagesInv
    <3>2. \A p \in PartId : Packed(p)'
      <4>1. \A p \in PartId : Packed(p)
        BY <1>1, <1>8 DEF IInv, PagesInv, PartId
      <4> QED
        BY <1>1, <4>1, PackedStays
    <3>3. rows' = rows /\ pc' = "scan" /\ NumOfPages' = NumOfPages /\ PartSize' = PartSize
          /\ colSize' = colSize /\ PartId' = PartId
      BY <1>1, <2>1, SameColumn DEF packing
    <3> QED
      BY <3>1, <3>2, <3>3 DEF PagesInv
  <2> QED
    BY <1>2, <1>4, <1>5, <1>6, <2>1, <2>2, <2>3 DEF IInv
<1> QED
  BY <1>2, <1>7, <1>8

\* The value of a row lands on its own bits of the word.
LEMMA OrIs ==
  ASSUME Widths, NEW word, NEW row, NEW f \in 0 .. Vpw - 1,
         NEW v \in 0 .. Vpw - 1, NEW k \in 0 .. bit_encoding - 1
  PROVE  Or(word, row, f * bit_encoding)[v * bit_encoding + k]
           = word[v * bit_encoding + k] \cup IF v = f THEN {<<row, k>>} ELSE {}
<1> DEFINE n == v * bit_encoding + k
           shift == f * bit_encoding
<1>1. bit_encoding \in Nat \ {0} /\ v \in Int /\ f \in Int /\ n \in BitOf
  BY ColumnIs, WordsAre, PlaceInWord
<1>2. n \in Int /\ shift \in Int
  BY <1>1, Mono
<1>3. Or(word, row, shift)[n]
        = word[n] \cup IF n \in shift .. shift + bit_encoding - 1 THEN {<<row, n - shift>>} ELSE {}
  BY <1>1 DEF Or
<1>4. CASE v = f
  <2>1. n \in shift .. shift + bit_encoding - 1 /\ n - shift = k
    BY <1>1, <1>2, <1>4
  <2> QED
    BY <1>3, <1>4, <2>1
<1>5. CASE v # f
  <2>1. v < f => n < shift
    <3>1. v < f => v * bit_encoding + bit_encoding <= f * bit_encoding
      BY <1>1, Mono
    <3>2. v * bit_encoding \in Int /\ f * bit_encoding \in Int
      BY <1>1, Mono
    <3> QED
      BY <1>1, <3>1, <3>2
  <2>2. f < v => n >= shift + bit_encoding
    <3>1. f < v => f * bit_encoding + bit_encoding <= v * bit_encoding
      BY <1>1, Mono
    <3>2. v * bit_encoding \in Int /\ f * bit_encoding \in Int
      BY <1>1, Mono
    <3> QED
      BY <1>1, <3>1, <3>2
  <2>3. n \notin shift .. shift + bit_encoding - 1
    <3> HIDE DEF n, shift
    <3> QED
      BY <1>1, <1>2, <1>5, <2>1, <2>2
  <2> QED
    BY <1>3, <1>5, <2>3
<1> QED
  BY <1>4, <1>5

LEMMA OrInWord ==
  ASSUME Widths, NEW word \in Word, NEW row \in Row, NEW shift \in Int
  PROVE  Or(word, row, shift) \in Word
<1>1. bit_encoding \in Nat \ {0}
  BY ColumnIs
<1>2. ASSUME NEW k \in BitOf, k \in shift .. shift + bit_encoding - 1
      PROVE  k - shift \in 0 .. bit_encoding - 1
  BY <1>1, <1>2
<1> DEFINE Bits == SUBSET ((Row \X (0 .. bit_encoding - 1)) \cup {<<-1, 0>>})
<1>3. ASSUME NEW k \in BitOf
      PROVE  word[k] \cup (IF k \in shift .. shift + bit_encoding - 1
                           THEN {<<row, k - shift>>} ELSE {}) \in Bits
  <2>1. word[k] \in Bits
    BY DEF Word
  <2> QED
    BY <1>2, <2>1
<1> QED
  BY <1>3 DEF Or, Word

\* The word at hand is written: each slot then holds its row, as far as rows
\* have been read.
LEMMA Written ==
  ASSUME IInv, pc = "read",
         compressed' = [compressed EXCEPT ![part_id][curIndex] = writtenVal],
         NEW q \in 0 .. PartSize - 1, NEW k \in 0 .. bit_encoding - 1
  PROVE  LET bits == compressed'[part_id][q \div Vpw][(q % Vpw) * bit_encoding + k] IN
           IF q < items_read THEN bits = {<<RowOf(part_id, q), k>>} ELSE bits \in {{}, {<<-1, 0>>}}
<1> DEFINE w == q \div Vpw
           v == q % Vpw
           n == v * bit_encoding + k
<1>1. Widths
  BY DEF IInv, ShapeInv
<1>2. /\ Vpw \in Nat \ {0} /\ ArraySize \in Nat /\ PartSize = ArraySize * Vpw
      /\ bit_encoding \in Nat \ {0}
  BY <1>1, WordsAre, SizesAre, ColumnIs
<1>3. w \in 0 .. ArraySize - 1 /\ v \in 0 .. Vpw - 1 /\ q = w * Vpw + v
  <2>1. q \in 0 .. ArraySize * Vpw - 1
    BY <1>2
  <2> QED
    BY <1>2, <2>1, Split, Zenon
<1>4. n \in BitOf
  <2> HIDE DEF v
  <2> QED
    BY <1>1, <1>3, PlaceInWord
<1>5. /\ part_id \in PartId /\ curIndex \in 0 .. ArraySize - 1
      /\ Filled \in 0 .. Vpw /\ items_read = curIndex * Vpw + Filled
  <2>1. part_id \in PartId /\ curIndex \in 0 .. ArraySize - 1 /\ Filled \in 0 .. Vpw
        /\ items_read \in 0 .. PartSize /\ PartSize \in Int
    BY <1>1, SizesAre DEF IInv, ReadInv, WordInv
  <2>2. items_read \in Int /\ curIndex * Vpw \in Int
    BY <1>2, <2>1
  <2> QED
    BY <2>1, <2>2 DEF Filled
<1>6. compressed'[part_id][w] = IF w = curIndex THEN writtenVal ELSE compressed[part_id][w]
  BY <1>3, <1>5 DEF IInv, ShapeInv
<1> HIDE DEF w, v
<1>7. CASE w < curIndex
  <2>1. w * Vpw + Vpw <= curIndex * Vpw
    BY <1>2, <1>3, <1>5, <1>7, Mono
  <2>2. curIndex * Vpw \in Int /\ w * Vpw \in Int
    BY <1>2, <1>3, <1>5
  <2>3. q < curIndex * Vpw /\ q < items_read
    BY <1>2, <1>3, <1>5, <2>1, <2>2
  <2>4. Stored(part_id, q, k) = {<<RowOf(part_id, q), k>>}
    BY <1>2, <2>2, <2>3 DEF IInv, ReadInv
  <2>5. compressed'[part_id][w] = compressed[part_id][w]
    BY <1>3, <1>5, <1>6, <1>7
  <2> QED
    BY <2>3, <2>4, <2>5 DEF Stored, w, v
<1>8. CASE w = curIndex
  <2>1. writtenVal[n] = IF v < Filled THEN {<<RowOf(part_id, curIndex * Vpw + v), k>>} ELSE {}
    BY <1>3 DEF IInv, ReadInv
  <2>2. q < items_read <=> v < Filled
    <3>1. curIndex * Vpw \in Int
      BY <1>2, <1>5
    <3> QED
      BY <1>2, <1>3, <1>5, <1>8, <3>1
  <2>3. curIndex * Vpw + v = q
    BY <1>3, <1>8
  <2>4. compressed'[part_id][w][n] = writtenVal[n]
    BY <1>6, <1>8
  <2> QED
    BY <2>1, <2>2, <2>3, <2>4 DEF w, v
<1>9. CASE w > curIndex
  <2>1. compressed'[part_id][w] = Unset
    <3>1. \A u \in curIndex .. ArraySize - 1 : compressed[part_id][u] = Unset
      BY DEF IInv, ReadInv
    <3>2. w \in curIndex .. ArraySize - 1 /\ w # curIndex
      BY <1>2, <1>3, <1>5, <1>9
    <3> QED
      BY <1>6, <3>1, <3>2
  <2>2. compressed'[part_id][w][n] = {<<-1, 0>>}
    BY <1>4, <2>1 DEF Unset
  <2>3. ~ (q < items_read)
    <3>1. curIndex * Vpw + Vpw <= w * Vpw
      BY <1>2, <1>3, <1>5, <1>9, Mono
    <3>2. curIndex * Vpw \in Int /\ w * Vpw \in Int
      BY <1>2, <1>3, <1>5
    <3> QED
      BY <1>2, <1>3, <1>5, <3>1, <3>2
  <2> QED
    BY <2>2, <2>3 DEF w, v
<1>10. w < curIndex \/ w = curIndex \/ w > curIndex
  BY <1>3, <1>5
<1> QED
  BY <1>7, <1>8, <1>9, <1>10

\* What the steps that pack leave alone.
LEMMA PackFrame ==
  ASSUME IInv, pc = "read", pc' \in {"read", "allocate"}, UNCHANGED column,
         UNCHANGED <<write_buff, bit_result, overrun, counted>>,
         part_id' \in 0 .. NumOfPages,
         compressed' \in [PartId -> [0 .. ArraySize - 1 -> Word]]
  PROVE  ShapeInv' /\ ScanInv' /\ CopyInv' /\ CountInv'
<1>1. ShapeInv'
  BY SameColumn DEF IInv, ShapeInv
<1>2. ScanInv' /\ CountInv'
  BY DEF ScanInv, CountInv
<1>3. CopyInv'
  <2>1. Reached = 0 /\ Reached' = 0
    BY DEF Reached
  <2>2. \A w \in ResultWord, k \in BitOf :
          IF w \div ResBuffLen < 0 THEN IsAnswer(bit_result[w][k], ResultOf(w, k))
                                   ELSE bit_result[w][k] = Mixed
    BY <2>1 DEF IInv, CopyInv
  <2>3. ResultWord' = ResultWord /\ ResBuffLen' = ResBuffLen /\ bit_result' = bit_result
        /\ colSize' = colSize /\ \A w, k : ResultOf(w, k)' = ResultOf(w, k)
    BY SameColumn
  <2> QED
    BY <2>1, <2>2, <2>3, Zenon DEF CopyInv, IsAnswer
<1> QED
  BY <1>1, <1>2, <1>3

\* The page of the reader: as many rows as values read, in place.
LEMMA ReadingIs ==
  ASSUME IInv, pc = "read"
  PROVE  /\ Widths /\ part_id \in PartId /\ part_id \in Nat /\ NumOfPages \in Nat
         /\ part_id < NumOfPages
         /\ Vpw \in Nat \ {0} /\ ArraySize \in Nat \ {0} /\ PartSize \in Nat \ {0}
         /\ bit_encoding \in Nat \ {0} /\ WORD_SIZE \in Nat \ {0}
         /\ PartSize = ArraySize * Vpw /\ WORD_SIZE = Vpw * bit_encoding
         /\ part_id * PartSize \in Nat /\ rows = part_id * PartSize + items_read
         /\ part_id * PartSize + PartSize <= NumOfPages * PartSize
         /\ NumOfPages * PartSize \in Nat
         /\ items_read \in 0 .. PartSize /\ curIndex \in 0 .. ArraySize - 1
         /\ curIndex * Vpw \in Nat /\ Filled \in 0 .. Vpw /\ items_read = curIndex * Vpw + Filled
         /\ shift_amount = Filled * bit_encoding
         /\ bits_remaining = WORD_SIZE - shift_amount /\ bits_remaining \in 0 .. WORD_SIZE
         /\ colSize \in Nat \ {0} /\ rows \in 0 .. colSize
<1>1. Widths /\ part_id \in PartId
  BY DEF IInv, ShapeInv, ReadInv
<1>2. /\ Vpw \in Nat \ {0} /\ ArraySize \in Nat \ {0} /\ PartSize \in Nat \ {0}
      /\ bit_encoding \in Nat \ {0} /\ WORD_SIZE \in Nat \ {0}
      /\ PartSize = ArraySize * Vpw /\ WORD_SIZE = Vpw * bit_encoding
      /\ NumOfPages \in Nat /\ colSize \in Nat \ {0}
  BY <1>1, WordsAre, SizesAre, ColumnIs, PagesAre
<1>3. part_id \in Nat /\ part_id < NumOfPages /\ part_id * PartSize \in Nat
      /\ NumOfPages * PartSize \in Nat
  BY <1>1, <1>2, Positive DEF PartId
<1>4. part_id * PartSize + PartSize <= NumOfPages * PartSize
  BY <1>2, <1>3, Mono
<1>5. /\ items_read \in 0 .. PartSize /\ curIndex \in 0 .. ArraySize - 1
      /\ Filled \in 0 .. Vpw /\ shift_amount = Filled * bit_encoding
      /\ shift_amount = WORD_SIZE - bits_remaining /\ bits_remaining \in 0 .. WORD_SIZE
      /\ rows \in 0 .. colSize /\ rows = RowOf(part_id, items_read)
  BY DEF IInv, ReadInv, WordInv, PagesInv
<1>6. curIndex * Vpw \in Nat
  BY <1>2, <1>5, Positive
<1>7. items_read = curIndex * Vpw + Filled
  BY <1>2, <1>5, <1>6 DEF Filled
<1>8. bits_remaining = WORD_SIZE - shift_amount
  BY <1>2, <1>5
<1> QED
  BY <1>1, <1>2, <1>3, <1>4, <1>5, <1>6, <1>7, <1>8 DEF RowOf

\* The page ends: it is full, or the column is.
LEMMA EndPartitionKeeps ==
  ASSUME IInv, EndPartition
  PROVE  IInv'
<1>1. /\ pc = "read" /\ (items_read = PartSize \/ rows = colSize)
      /\ pc' = "allocate" /\ part_id' = part_id + 1 /\ UNCHANGED column
      /\ UNCHANGED <<rows, items_read, curIndex, writtenVal, bits_remaining, shift_amount>>
      /\ UNCHANGED <<write_buff, bit_result, overrun, counted>>
      /\ compressed' = [compressed EXCEPT ![part_id][curIndex] = writtenVal]
  BY DEF EndPartition, packing
<1>2. /\ part_id \in PartId /\ part_id \in Nat /\ NumOfPages \in Nat /\ part_id < NumOfPages
      /\ PartSize \in Nat \ {0} /\ curIndex \in 0 .. ArraySize - 1 /\ colSize \in Nat
      /\ part_id * PartSize \in Nat /\ rows = part_id * PartSize + items_read
      /\ items_read \in 0 .. PartSize /\ rows \in 0 .. colSize /\ Widths
  BY <1>1, ReadingIs
<1>3. compressed' \in [PartId -> [0 .. ArraySize - 1 -> Word]]
  BY <1>1, <1>2 DEF IInv, ShapeInv, WordInv
<1>4. ShapeInv' /\ ScanInv' /\ CopyInv' /\ CountInv'
  <2>1. part_id' \in 0 .. NumOfPages
    BY <1>1, <1>2
  <2> QED
    BY <1>1, <1>3, <2>1, PackFrame
<1>5. WordInv' /\ ReadInv'
  BY <1>1, SameColumn DEF IInv, WordInv, ReadInv
<1>6. ASSUME NEW p \in 0 .. part_id PROVE Packed(p)'
  <2>1. CASE p # part_id
    <3>1. Packed(p)
      BY <1>1, <1>2, <2>1 DEF IInv, PagesInv
    <3>2. compressed'[p] = compressed[p]
      BY <1>1, <2>1 DEF IInv, ShapeInv
    <3> QED
      BY <1>1, <3>1, <3>2, PackedStays
  <2>2. CASE p = part_id
    <3>1. ASSUME NEW q \in 0 .. PartSize - 1, NEW k \in 0 .. bit_encoding - 1
          PROVE  LET bits == compressed'[p][q \div Vpw][(q % Vpw) * bit_encoding + k] IN
                   IF RowOf(p, q) < colSize THEN bits = {<<RowOf(p, q), k>>}
                                            ELSE bits \in {{}, {<<-1, 0>>}}
      <4>1. RowOf(p, q) < colSize <=> q < items_read
        BY <1>1, <1>2, <2>2 DEF RowOf
      <4> QED
        BY <1>1, <2>2, <4>1, Written
    <3> QED
      BY <1>1, <3>1, SameColumn, Zenon DEF Packed, Stored
  <2> QED
    BY <2>1, <2>2
<1>7. PagesInv'
  <2>1. rows \in 0 .. colSize /\ rows <= NumOfPages * PartSize
    BY DEF IInv, PagesInv
  <2>2. 0 .. part_id' - 1 = 0 .. part_id
    BY <1>1, <1>2
  <2>3. ASSUME part_id + 1 < NumOfPages PROVE rows = (part_id + 1) * PartSize
    <3>1. (part_id + 1) * PartSize = part_id * PartSize + PartSize
      BY <1>2
    <3>2. part_id + 1 \in PartId
      BY <1>2, <2>3 DEF PartId
    <3>3. (part_id + 1) * PartSize < colSize
      BY <1>2, <3>2, PagesAre
    <3> QED
      BY <1>1, <1>2, <3>1, <3>3
  <2>4. \A p \in part_id + 1 .. NumOfPages - 1 :
          \A w \in 0 .. ArraySize - 1 : compressed'[p][w] = Unset
    <3>1. ASSUME NEW p \in part_id + 1 .. NumOfPages - 1
          PROVE  p \in PartId /\ p # part_id
      BY <1>2 DEF PartId
    <3>2. \A p \in part_id + 1 .. NumOfPages - 1 : compressed'[p] = compressed[p]
      BY <1>1, <3>1 DEF IInv, ShapeInv
    <3> QED
      BY <1>1, <3>2 DEF IInv, PagesInv
  <2>5. /\ NumOfPages' = NumOfPages /\ PartSize' = PartSize /\ ArraySize' = ArraySize
        /\ colSize' = colSize /\ rows' = rows /\ part_id' = part_id + 1 /\ pc' = "allocate"
    BY <1>1, SameColumn
  <2>6. \A p \in 0 .. part_id' - 1 : Packed(p)'
    BY <1>6, <2>2
  <2> QED
    BY <2>1, <2>3, <2>4, <2>5, <2>6 DEF PagesInv
<1> QED
  BY <1>4, <1>5, <1>7 DEF IInv

\* One value is read and put into the word, or into the next one.
LEMMA ReadItemKeeps ==
  ASSUME IInv, ReadItem
  PROVE  IInv'
<1> DEFINE f == IF Flush THEN 0 ELSE Filled
<1>1. /\ pc = "read" /\ pc' = "read" /\ items_read < PartSize /\ rows < colSize
      /\ UNCHANGED column /\ part_id' = part_id
      /\ UNCHANGED <<write_buff, bit_result, overrun, counted>>
      /\ rows' = rows + 1 /\ items_read' = items_read + 1
      /\ compressed' = IF Flush THEN [compressed EXCEPT ![part_id][curIndex] = writtenVal]
                                ELSE compressed
      /\ curIndex' = IF Flush THEN curIndex + 1 ELSE curIndex
  BY DEF ReadItem
<1>2. /\ Widths /\ part_id \in PartId /\ part_id \in Nat /\ NumOfPages \in Nat
      /\ part_id < NumOfPages
      /\ Vpw \in Nat \ {0} /\ ArraySize \in Nat \ {0} /\ PartSize \in Nat \ {0}
      /\ bit_encoding \in Nat \ {0} /\ WORD_SIZE \in Nat \ {0}
      /\ PartSize = ArraySize * Vpw /\ WORD_SIZE = Vpw * bit_encoding
      /\ part_id * PartSize \in Nat /\ rows = part_id * PartSize + items_read
      /\ part_id * PartSize + PartSize <= NumOfPages * PartSize
      /\ NumOfPages * PartSize \in Nat
      /\ items_read \in 0 .. PartSize /\ curIndex \in 0 .. ArraySize - 1
      /\ curIndex * Vpw \in Nat /\ Filled \in 0 .. Vpw /\ items_read = curIndex * Vpw + Filled
      /\ shift_amount = Filled * bit_encoding
      /\ bits_remaining = WORD_SIZE - shift_amount /\ bits_remaining \in 0 .. WORD_SIZE
      /\ colSize \in Nat \ {0} /\ rows \in 0 .. colSize
  BY <1>1, ReadingIs
\* A word is flushed when it is full.
<1>3. Flush <=> Filled = Vpw
  <2>1. Filled \in Int /\ Vpw \in Int /\ Filled <= Vpw
    BY <1>2
  <2>2. Filled < Vpw => Filled * bit_encoding < Vpw * bit_encoding
    BY <1>2, <2>1, Below
  <2>3. Flush <=> Filled * bit_encoding = Vpw * bit_encoding
    <3>1. Filled * bit_encoding \in Int /\ Vpw * bit_encoding \in Int
      BY <1>2
    <3>2. bits_remaining = Vpw * bit_encoding - Filled * bit_encoding
      BY <1>2
    <3> QED
      BY <3>1, <3>2 DEF Flush
  <2>4. Filled * bit_encoding \in Int /\ Vpw * bit_encoding \in Int
    BY <1>2
  <2> QED
    BY <2>1, <2>2, <2>3, <2>4
<1>4. /\ f \in 0 .. Vpw - 1 /\ f * bit_encoding \in Nat
      /\ f * bit_encoding + bit_encoding <= WORD_SIZE
  <2>1. f \in 0 .. Vpw - 1
    BY <1>2, <1>3
  <2> HIDE DEF f
  <2>2. f * bit_encoding \in Nat /\ f * bit_encoding + bit_encoding <= Vpw * bit_encoding
    BY <1>2, <2>1, Mono, Positive
  <2> QED
    BY <1>2, <2>1, <2>2
<1>5. /\ shift_amount' = f * bit_encoding + bit_encoding
      /\ bits_remaining' = WORD_SIZE - (f * bit_encoding + bit_encoding)
      /\ writtenVal' = Or(IF Flush THEN Clean ELSE writtenVal, rows, f * bit_encoding)
  <2>1. CASE Flush
    <3>1. f * bit_encoding = 0
      BY <1>2, <2>1
    <3>2. /\ shift_amount' = 0 + bit_encoding /\ bits_remaining' = WORD_SIZE - bit_encoding
          /\ writtenVal' = Or(Clean, rows, 0)
      BY <2>1 DEF ReadItem
    <3> QED
      BY <1>2, <2>1, <3>1, <3>2
  <2>2. CASE ~Flush
    <3>1. f * bit_encoding = shift_amount
      BY <1>2, <2>2
    <3>2. /\ shift_amount' = shift_amount + bit_encoding
          /\ bits_remaining' = bits_remaining - bit_encoding
          /\ writtenVal' = Or(writtenVal, rows, shift_amount)
      BY <2>2 DEF ReadItem
    <3>3. shift_amount \in Int
      BY <1>2
    <3> QED
      BY <1>2, <2>2, <3>1, <3>2, <3>3
  <2> QED
    BY <2>1, <2>2
\* The word now being filled, and its place in the page.
<1>6. /\ curIndex' \in 0 .. ArraySize - 1 /\ curIndex' * Vpw \in Nat
      /\ items_read = curIndex' * Vpw + f
  <2>1. CASE Flush
    <3>1. (curIndex + 1) * Vpw = curIndex * Vpw + Vpw
      BY <1>2
    <3>2. items_read = (curIndex + 1) * Vpw
      BY <1>2, <1>3, <2>1, <3>1
    <3>3. (curIndex + 1) * Vpw < ArraySize * Vpw
      BY <1>1, <1>2, <3>2
    <3>4. curIndex + 1 < ArraySize
      BY <1>2, <3>3, Below
    <3> QED
      BY <1>1, <1>2, <2>1, <3>1, <3>2, <3>4
  <2>2. CASE ~Flush
    BY <1>1, <1>2, <2>2
  <2> QED
    BY <2>1, <2>2
<1>7. Filled' = f + 1
  <2>1. Filled' = (items_read + 1) - curIndex' * Vpw
    BY <1>1, SameColumn DEF Filled
  <2>2. f \in Int
    BY <1>2, <1>4
  <2> HIDE DEF f
  <2> QED
    BY <1>6, <2>1, <2>2
<1>8. compressed' \in [PartId -> [0 .. ArraySize - 1 -> Word]]
  <2>1. compressed \in [PartId -> [0 .. ArraySize - 1 -> Word]] /\ writtenVal \in Word
    BY DEF IInv, ShapeInv, WordInv
  <2> QED
    BY <1>1, <1>2, <2>1
<1>9. ShapeInv' /\ ScanInv' /\ CopyInv' /\ CountInv'
  <2>1. part_id' \in 0 .. NumOfPages /\ pc' \in {"read", "allocate"}
    BY <1>1, <1>2
  <2> QED
    BY <1>1, <1>8, <2>1, PackFrame
<1>10. WordInv'
  <2>1. writtenVal' \in Word
    <3>1. (IF Flush THEN Clean ELSE writtenVal) \in Word
      BY <1>2, WordsClean DEF IInv, WordInv
    <3>2. rows \in Row /\ f * bit_encoding \in Int
      BY <1>1, <1>2, <1>4 DEF Row
    <3> HIDE DEF f
    <3> QED
      BY <1>2, <1>5, <3>1, <3>2, OrInWord
  <2>2. bits_remaining' \in 0 .. WORD_SIZE /\ shift_amount' = WORD_SIZE - bits_remaining'
    <3> DEFINE s == f * bit_encoding
    <3>1. /\ s \in Nat /\ s + bit_encoding <= WORD_SIZE /\ shift_amount' = s + bit_encoding
          /\ bits_remaining' = WORD_SIZE - (s + bit_encoding)
      BY <1>4, <1>5
    <3> HIDE DEF s, f
    <3> QED
      BY <1>2, <3>1
  <2>3. items_read' \in 0 .. PartSize
    BY <1>1, <1>2
  <2>4. Word' = Word /\ PartSize' = PartSize /\ ArraySize' = ArraySize
    BY <1>1, SameColumn
  <2> QED
    BY <1>6, <2>1, <2>2, <2>3, <2>4 DEF WordInv
<1>11. \A v \in 0 .. Vpw - 1, k \in 0 .. bit_encoding - 1 :
         writtenVal'[v * bit_encoding + k]
           = IF v < f + 1 THEN {<<RowOf(part_id, curIndex' * Vpw + v), k>>} ELSE {}
  <2> SUFFICES ASSUME NEW v \in 0 .. Vpw - 1, NEW k \in 0 .. bit_encoding - 1
               PROVE  writtenVal'[v * bit_encoding + k]
                        = IF v < f + 1 THEN {<<RowOf(part_id, curIndex' * Vpw + v), k>>} ELSE {}
    OBVIOUS
  <2> DEFINE before == IF Flush THEN Clean ELSE writtenVal
             n == v * bit_encoding + k
  <2>1. writtenVal'[n] = before[n] \cup IF v = f THEN {<<rows, k>>} ELSE {}
    <3>1. writtenVal' = Or(before, rows, f * bit_encoding)
      BY <1>5
    <3> HIDE DEF before, f
    <3> QED
      BY <1>2, <1>4, <3>1, OrIs
  <2>2. before[n] = IF v < f THEN {<<RowOf(part_id, curIndex' * Vpw + v), k>>} ELSE {}
    <3>1. CASE Flush
      <4>1. ~ (v < 0)
        BY <1>2
      <4> QED
        BY <1>2, <3>1, <4>1, PlaceInWord DEF Clean
    <3>2. CASE ~Flush
      BY <1>1, <3>2 DEF IInv, ReadInv
    <3> QED
      BY <3>1, <3>2
  <2>3. v = f => rows = RowOf(part_id, curIndex' * Vpw + v)
    BY <1>2, <1>6 DEF RowOf
  <2>4. v < f + 1 <=> (v < f \/ v = f)
    <3>1. f \in Int /\ v \in Int
      BY <1>2, <1>4
    <3> HIDE DEF f
    <3> QED
      BY <3>1
  <2>5. ~ (v < f /\ v = f)
    <3>1. f \in Int /\ v \in Int
      BY <1>2, <1>4
    <3> HIDE DEF f
    <3> QED
      BY <3>1
  <2> HIDE DEF f, before, n
  <2>6. writtenVal'[n] = IF v < f + 1 THEN {<<RowOf(part_id, curIndex' * Vpw + v), k>>} ELSE {}
    BY <2>1, <2>2, <2>3, <2>4, <2>5
  <2> QED
    BY <2>6 DEF n
<1>12. \A q \in 0 .. curIndex' * Vpw - 1, k \in 0 .. bit_encoding - 1 :
         compressed'[part_id][q \div Vpw][(q % Vpw) * bit_encoding + k]
           = {<<RowOf(part_id, q), k>>}
  <2>1. CASE Flush
    <3> SUFFICES ASSUME NEW q \in 0 .. curIndex' * Vpw - 1, NEW k \in 0 .. bit_encoding - 1
                 PROVE  compressed'[part_id][q \div Vpw][(q % Vpw) * bit_encoding + k]
                          = {<<RowOf(part_id, q), k>>}
      OBVIOUS
    <3>1. q \in 0 .. PartSize - 1 /\ q < items_read
      <4>1. items_read = curIndex' * Vpw
        BY <1>6, <2>1
      <4> QED
        BY <1>1, <1>2, <4>1
    <3>2. compressed' = [compressed EXCEPT ![part_id][curIndex] = writtenVal]
      BY <1>1, <2>1
    <3> QED
      BY <1>1, <3>1, <3>2, Written
  <2>2. CASE ~Flush
    BY <1>1, <2>2 DEF IInv, ReadInv, Stored
  <2> QED
    BY <2>1, <2>2
<1>13. \A w \in curIndex' .. ArraySize - 1 : compressed'[part_id][w] = Unset
  <2>1. \A w \in curIndex .. ArraySize - 1 : compressed[part_id][w] = Unset
    BY <1>1 DEF IInv, ReadInv
  <2>2. CASE Flush
    <3>1. \A w \in curIndex + 1 .. ArraySize - 1 :
            w \in curIndex .. ArraySize - 1 /\ w # curIndex
      BY <1>2
    <3>2. \A w : w # curIndex => compressed'[part_id][w] = compressed[part_id][w]
      BY <1>1, <1>2, <2>2 DEF IInv, ShapeInv
    <3> QED
      BY <1>1, <2>1, <2>2, <3>1, <3>2
  <2>3. CASE ~Flush
    BY <1>1, <2>1, <2>3
  <2> QED
    BY <2>2, <2>3
<1>14. ReadInv'
  <2>1. /\ part_id' = part_id /\ PartId' = PartId /\ Vpw' = Vpw /\ ArraySize' = ArraySize
        /\ bit_encoding' = bit_encoding /\ PartSize' = PartSize
        /\ \A p, q : RowOf(p, q)' = RowOf(p, q)
    BY <1>1, SameColumn
  <2>2. Filled' \in 0 .. Vpw /\ Filled' # 0
    <3>1. f \in 0 .. Vpw - 1 /\ Vpw \in Nat
      BY <1>2, <1>4
    <3> HIDE DEF f
    <3> QED
      BY <1>7, <3>1
  <2>3. shift_amount' = Filled' * bit_encoding
    <3>1. f \in Int /\ shift_amount' = f * bit_encoding + bit_encoding
      BY <1>2, <1>4, <1>5
    <3> HIDE DEF f
    <3> QED
      BY <1>2, <1>7, <3>1
  <2>4. rows' = RowOf(part_id, items_read')
    BY <1>1, <1>2 DEF RowOf
  <2>5. \A v \in 0 .. Vpw' - 1, k \in 0 .. bit_encoding' - 1 :
         writtenVal'[v * bit_encoding' + k]
           = IF v < Filled' THEN {<<RowOf(part_id, curIndex' * Vpw' + v), k>>} ELSE {}
    BY <1>7, <1>11, <2>1
  <2> HIDE DEF f
  <2>6. \A v \in 0 .. Vpw' - 1, k \in 0 .. bit_encoding' - 1 :
         writtenVal'[v * bit_encoding' + k]
           = IF v < Filled' THEN {<<part_id' * PartSize' + (curIndex' * Vpw' + v), k>>} ELSE {}
    BY <2>1, <2>5 DEF RowOf
  <2>7. \A q \in 0 .. curIndex' * Vpw' - 1, k \in 0 .. bit_encoding' - 1 :
         compressed'[part_id'][q \div Vpw'][(q % Vpw') * bit_encoding' + k]
           = {<<part_id' * PartSize' + q, k>>}
    BY <1>12, <2>1 DEF RowOf
  <2>8. rows' = part_id' * PartSize' + items_read'
    BY <2>1, <2>4 DEF RowOf
  <2>9. \A w \in curIndex' .. ArraySize' - 1 : compressed'[part_id'][w] = Unset
    BY <1>13, <2>1
  <2> QED
    BY <1>2, <2>1, <2>2, <2>3, <2>6, <2>7, <2>8, <2>9 DEF ReadInv, RowOf, Stored
<1>15. PagesInv'
  <2>1. rows' \in 0 .. colSize /\ rows' <= NumOfPages * PartSize
    BY <1>1, <1>2
  <2>2. \A p \in 0 .. NumOfPages - 1 : p # part_id => compressed'[p] = compressed[p]
    BY <1>1 DEF IInv, ShapeInv, PartId
  <2>3. \A p \in 0 .. part_id - 1 : Packed(p)'
    <3>1. \A p \in 0 .. part_id - 1 : Packed(p) /\ compressed'[p] = compressed[p]
      <4>1. \A p \in 0 .. part_id - 1 : p \in 0 .. NumOfPages - 1 /\ p # part_id
        BY <1>2
      <4> QED
        BY <1>1, <2>2, <4>1 DEF IInv, PagesInv
    <3> QED
      BY <1>1, <3>1, PackedStays
  <2>4. \A p \in part_id + 1 .. NumOfPages - 1 :
          \A w \in 0 .. ArraySize - 1 : compressed'[p][w] = Unset
    <3>1. \A p \in part_id + 1 .. NumOfPages - 1 : p \in 0 .. NumOfPages - 1 /\ p # part_id
      BY <1>2
    <3> QED
      BY <1>1, <2>2, <3>1 DEF IInv, PagesInv
  <2>5. /\ NumOfPages' = NumOfPages /\ PartSize' = PartSize /\ ArraySize' = ArraySize
        /\ colSize' = colSize /\ part_id' = part_id /\ pc' = "read"
    BY <1>1, SameColumn
  <2> QED
    BY <2>1, <2>3, <2>4, <2>5 DEF PagesInv
<1> QED
  BY <1>9, <1>10, <1>14, <1>15 DEF IInv

-----------------------------------------------------------------------------
(* Scanning. *)

\* Words are at least as wide as values are few, so a line's slots end within
\* the words of its result line.
LEMMA LineHolds ==
  ASSUME Widths
  PROVE  /\ ItemsPerCl <= WordsPerCl * WORD_SIZE
         /\ ~IsJoin => ResWordsPerCl <= WordsPerCl
<1>1. /\ Vpw \in Nat \ {0} /\ bit_encoding \in Nat \ {0} /\ WORD_SIZE = Vpw * bit_encoding
      /\ WordsPerCl \in Nat \ {0} /\ ItemsPerCl = WordsPerCl * Vpw /\ WORD_SIZE \in Nat \ {0}
  BY ColumnIs, WordsAre, SizesAre
<1>2. Vpw <= WORD_SIZE
  <2>1. 1 * Vpw <= bit_encoding * Vpw
    BY <1>1, Mono
  <2> QED
    BY <1>1, <2>1
<1>3. ItemsPerCl <= WordsPerCl * WORD_SIZE
  <2>1. Vpw * WordsPerCl <= WORD_SIZE * WordsPerCl
    BY <1>1, <1>2, Mono
  <2> QED
    BY <1>1, <2>1
<1>4. ASSUME ~IsJoin PROVE ResWordsPerCl <= WordsPerCl
  <2>1. ResWordsPerCl \in Nat \ {0} /\ ItemsPerCl = ResWordsPerCl * WORD_SIZE
    BY <1>4, ResultsAre
  <2>2. ResWordsPerCl * WORD_SIZE <= WordsPerCl * WORD_SIZE
    BY <1>3, <2>1
  <2> QED
    BY <1>1, <2>1, <2>2, Below
<1> QED
  BY <1>3, <1>4

\* Bit n of result line cl is bit n % WORD_SIZE of one of the line's words.
LEMMA ResultWordIs ==
  ASSUME Widths, NEW cl \in 0 .. TotalCls - 1, NEW j \in 0 .. ItemsPerCl - 1
  PROVE  LET w == cl * WordsPerCl + j \div WORD_SIZE IN
           /\ w \in 0 .. TotalCls * WordsPerCl - 1 /\ j % WORD_SIZE \in BitOf
           /\ w \div WordsPerCl = cl
           /\ (w % WordsPerCl) * WORD_SIZE + (j % WORD_SIZE) = j
<1> DEFINE r == j \div WORD_SIZE
           w == cl * WordsPerCl + r
<1>1. /\ WORD_SIZE \in Nat \ {0} /\ WordsPerCl \in Nat \ {0} /\ TotalCls \in Nat \ {0}
      /\ ItemsPerCl \in Nat /\ ItemsPerCl <= WordsPerCl * WORD_SIZE
  BY ColumnIs, WordsAre, SizesAre, LinesTaken, LineHolds
<1>2. r \in 0 .. WordsPerCl - 1 /\ j % WORD_SIZE \in 0 .. WORD_SIZE - 1
      /\ j = r * WORD_SIZE + (j % WORD_SIZE)
  <2>1. j \in 0 .. WordsPerCl * WORD_SIZE - 1 /\ WordsPerCl \in Nat
    BY <1>1
  <2> QED
    BY <1>1, <2>1, Split, Zenon
<1> HIDE DEF r
<1>3. w \in 0 .. TotalCls * WordsPerCl - 1
  BY <1>1, <1>2, Join
<1>4. w \div WordsPerCl = cl /\ w % WordsPerCl = r
  <2>1. cl \in Int
    OBVIOUS
  <2> QED
    BY <1>1, <1>2, <2>1, DivIs, Zenon
<1> QED
  BY <1>2, <1>3, <1>4 DEF r, BitOf

\* What every word of the unit's output is made of.
LEMMA UnitAnswers ==
  ASSUME Widths, NEW p \in PartId, Packed(p), NEW cl \in 0 .. TotalCls - 1, NEW n \in Nat
  PROVE  /\ FilterUnit(compressed[p], cl, n) \in Answer
         /\ n < ItemsPerCl => IsAnswer(FilterUnit(compressed[p], cl, n),
                                       RowOf(p, cl * ItemsPerCl + n))
<1>1. cl \in 0 .. Lines - 1 /\ ItemsPerCl \in Nat
  BY LinesTaken, WordsAre, SizesAre
<1>2. CASE n < ItemsPerCl
  <2>1. n \in 0 .. ItemsPerCl - 1
    BY <1>1, <1>2
  <2> QED
    BY <1>1, <1>2, <2>1, SlotAnswer DEF FilterUnit
<1>3. CASE ~ (n < ItemsPerCl)
  BY <1>3 DEF FilterUnit, Answer
<1> QED
  BY <1>2, <1>3

\* The phases after the packing.
LEMMA AfterPacking ==
  ASSUME IInv, pc \in {"scan", "copy", "count"}, pc' \in {"scan", "copy", "count", "done"},
         UNCHANGED column, UNCHANGED packing, compressed' = compressed
  PROVE  WordInv' /\ ReadInv' /\ PagesInv' /\ (pc' # "done" => CountInv')
<1>1. WordInv' /\ ReadInv' /\ (pc' # "done" => CountInv')
  BY SameColumn DEF IInv, WordInv, ReadInv, CountInv, packing
<1>2. PagesInv'
  <2>1. rows \in 0 .. colSize /\ rows <= NumOfPages * PartSize /\ \A p \in PartId : Packed(p)
    BY DEF IInv, PagesInv
  <2>2. \A p \in PartId : Packed(p)'
    BY <2>1, PackedStays
  <2>3. rows' = rows /\ NumOfPages' = NumOfPages /\ PartSize' = PartSize
        /\ colSize' = colSize /\ PartId' = PartId
    BY SameColumn DEF packing
  <2> QED
    BY <2>1, <2>2, <2>3 DEF PagesInv
<1> QED
  BY <1>1, <1>2

LEMMA ScanPartitionKeeps ==
  ASSUME IInv, ScanPartition
  PROVE  IInv'
<1>1. /\ pc = "scan" /\ UNCHANGED column /\ UNCHANGED packing
      /\ UNCHANGED <<compressed, bit_result, overrun, counted>>
      /\ pc' \in {"scan", "copy"}
  BY DEF ScanPartition
<1>2. /\ Widths /\ part_id \in 0 .. NumOfPages /\ NumOfPages \in Nat
      /\ WORD_SIZE \in Nat \ {0} /\ WordsPerCl \in Nat \ {0} /\ TotalCls \in Nat \ {0}
      /\ PartId = 0 .. NumOfPages - 1
  <2>1. Widths /\ part_id \in 0 .. NumOfPages
    BY DEF IInv, ShapeInv
  <2> QED
    BY <2>1, ColumnIs, WordsAre, PagesAre, LinesTaken DEF PartId
<1>3. WordInv' /\ ReadInv' /\ PagesInv' /\ CountInv'
  BY <1>1, AfterPacking
<1>4. CopyInv' <=> \A w \in ResultWord, k \in BitOf :
          IF w \div ResBuffLen < Reached' THEN IsAnswer(bit_result[w][k], ResultOf(w, k))
                                          ELSE bit_result[w][k] = Mixed
  <2>1. ResultWord' = ResultWord /\ ResBuffLen' = ResBuffLen /\ bit_result' = bit_result
        /\ colSize' = colSize /\ \A w, k : ResultOf(w, k)' = ResultOf(w, k)
    BY <1>1, SameColumn
  <2> QED
    BY <2>1, Zenon DEF CopyInv, IsAnswer
<1>5. CASE part_id < NumOfPages
  <2>1. /\ pc' = "scan" /\ part_id' = part_id + 1
        /\ write_buff' = [write_buff EXCEPT ![part_id] =
               [w \in 0 .. TotalCls * WordsPerCl - 1 |->
                  [k \in BitOf |-> FilterUnit(compressed[part_id], w \div WordsPerCl,
                                              (w % WordsPerCl) * WORD_SIZE + k)]]]
    BY <1>5 DEF ScanPartition
  <2>2. part_id \in PartId /\ Packed(part_id)
    BY <1>1, <1>2, <1>5 DEF IInv, PagesInv
  <2>3. DOMAIN write_buff = PartId
    BY DEF IInv, ShapeInv
  <2>4. write_buff'[part_id] =
               [w \in 0 .. TotalCls * WordsPerCl - 1 |->
                  [k \in BitOf |-> FilterUnit(compressed[part_id], w \div WordsPerCl,
                                              (w % WordsPerCl) * WORD_SIZE + k)]]
    BY <2>1, <2>2, <2>3
  <2>5. ASSUME NEW w \in 0 .. TotalCls * WordsPerCl - 1
        PROVE  write_buff'[part_id][w] \in AnswerWord
    <3>1. w \div WordsPerCl \in 0 .. TotalCls - 1 /\ w % WordsPerCl \in 0 .. WordsPerCl - 1
      <4>1. TotalCls \in Nat
        BY <1>2
      <4> QED
        BY <1>2, <4>1, Split, Zenon
    <3>2. ASSUME NEW k \in BitOf PROVE (w % WordsPerCl) * WORD_SIZE + k \in Nat
      <4> DEFINE r == w % WordsPerCl
      <4>1. r \in Nat /\ k \in Nat
        BY <1>2, <3>1 DEF BitOf
      <4> HIDE DEF r
      <4>2. r * WORD_SIZE \in Nat
        BY <1>2, <4>1, Positive
      <4>3. r * WORD_SIZE + k \in Nat
        BY <4>1, <4>2
      <4> QED
        BY <4>3 DEF r
    <3>3. ASSUME NEW k \in BitOf
          PROVE  FilterUnit(compressed[part_id], w \div WordsPerCl,
                            (w % WordsPerCl) * WORD_SIZE + k) \in Answer
      BY <1>2, <2>2, <3>1, <3>2, UnitAnswers
    <3> QED
      BY <2>4, <3>3 DEF AnswerWord
  <2>6. \A cl \in 0 .. TotalCls - 1, j \in 0 .. ItemsPerCl - 1 :
          IsAnswer(write_buff'[part_id][cl * WordsPerCl + j \div WORD_SIZE][j % WORD_SIZE],
                   RowOf(part_id, cl * ItemsPerCl + j))
    <3> SUFFICES ASSUME NEW cl \in 0 .. TotalCls - 1, NEW j \in 0 .. ItemsPerCl - 1
                 PROVE  IsAnswer(write_buff'[part_id][cl * WordsPerCl + j \div WORD_SIZE]
                                   [j % WORD_SIZE],
                                 RowOf(part_id, cl * ItemsPerCl + j))
      OBVIOUS
    <3> DEFINE w == cl * WordsPerCl + j \div WORD_SIZE
    <3>1. /\ w \in 0 .. TotalCls * WordsPerCl - 1 /\ j % WORD_SIZE \in BitOf
          /\ w \div WordsPerCl = cl
          /\ (w % WordsPerCl) * WORD_SIZE + (j % WORD_SIZE) = j
      BY <1>2, ResultWordIs
    <3> HIDE DEF w
    <3>2. write_buff'[part_id][w][j % WORD_SIZE] = FilterUnit(compressed[part_id], cl, j)
      BY <2>4, <3>1
    <3>3. IsAnswer(FilterUnit(compressed[part_id], cl, j), RowOf(part_id, cl * ItemsPerCl + j))
      <4>1. j \in Nat /\ j < ItemsPerCl
        BY <1>2, SizesAre
      <4> QED
        BY <1>2, <2>2, <4>1, UnitAnswers
    <3> QED
      BY <3>2, <3>3 DEF w
  <2>7. \A p \in 0 .. part_id : Scanned(p)'
    <3> SUFFICES ASSUME NEW p \in 0 .. part_id PROVE Scanned(p)'
      OBVIOUS
    <3>1. CASE p # part_id
      <4>1. Scanned(p) /\ write_buff'[p] = write_buff[p]
        BY <1>1, <1>2, <2>1, <3>1 DEF IInv, ScanInv
      <4> QED
        BY <1>1, <4>1, ScannedStays
    <3>2. CASE p = part_id
      <4>1. DOMAIN write_buff'[part_id] = 0 .. TotalCls * WordsPerCl - 1
        BY <2>4
      <4> QED
        BY <1>1, <2>6, <3>2, <4>1, SameColumn, Zenon DEF Scanned, IsAnswer
    <3> QED
      BY <3>1, <3>2
  <2>8. ScanInv'
    <3>1. 0 .. part_id' - 1 = 0 .. part_id
      BY <1>2, <2>1
    <3> QED
      BY <2>1, <2>7, <3>1 DEF ScanInv
  <2>9. ShapeInv'
    <3>1. DOMAIN write_buff' = PartId
          /\ \A p \in PartId : p # part_id => write_buff'[p] = write_buff[p]
      BY <2>1, <2>3
    <3>2. \A p \in PartId : \A w \in DOMAIN write_buff'[p] : write_buff'[p][w] \in AnswerWord
      <4>1. DOMAIN write_buff'[part_id] = 0 .. TotalCls * WordsPerCl - 1
        BY <2>4
      <4> QED
        BY <2>5, <3>1, <4>1 DEF IInv, ShapeInv
    <3>3. part_id' \in 0 .. NumOfPages
      BY <1>2, <1>5, <2>1
    <3> QED
      BY <1>1, <2>1, <3>1, <3>2, <3>3, SameColumn DEF IInv, ShapeInv
  <2>10. CopyInv'
    <3>1. Reached = 0 /\ Reached' = 0
      BY <1>1, <2>1 DEF Reached
    <3> QED
      BY <1>4, <3>1 DEF IInv, CopyInv
  <2> QED
    BY <1>3, <2>8, <2>9, <2>10 DEF IInv
<1>6. CASE part_id = NumOfPages
  <2>1. pc' = "copy" /\ part_id' = 0 /\ write_buff' = write_buff
    BY <1>2, <1>6 DEF ScanPartition
  <2>2. ScanInv'
    <3>1. \A p \in PartId : Scanned(p)
      BY <1>1, <1>2, <1>6 DEF IInv, ScanInv
    <3>2. \A p \in PartId : Scanned(p)'
      BY <1>1, <2>1, <3>1, ScannedStays
    <3> QED
      BY <1>1, <2>1, <3>2, SameColumn DEF ScanInv
  <2>3. ShapeInv'
    <3>1. part_id' \in 0 .. NumOfPages
      BY <1>2, <2>1
    <3> QED
      BY <1>1, <2>1, <3>1, SameColumn DEF IInv, ShapeInv
  <2>4. CopyInv'
    <3>1. Reached = 0 /\ Reached' = 0
      BY <1>1, <2>1 DEF Reached
    <3> QED
      BY <1>4, <3>1 DEF IInv, CopyInv
  <2> QED
    BY <1>3, <2>2, <2>3, <2>4 DEF IInv
<1> QED
  BY <1>2, <1>5, <1>6

-----------------------------------------------------------------------------
(* Copying. *)

CopyWords == IF IsJoin THEN CopiedHalves ELSE CopiedWords

\* The words a page's copy writes: none belongs to another page's place unless
\* there is no other page, those it leaves out stand for no row, and each bit
\* answers for its slot.
LEMMA CopyWordsAre ==
  ASSUME IInv, pc = "copy", part_id < NumOfPages
  PROVE  \E D \in Nat :
           /\ DOMAIN CopyWords = 0 .. D - 1
           /\ D <= ResBuffLen \/ NumOfPages <= 1
           /\ \A n \in 0 .. ResBuffLen - 1, k \in BitOf :
                IF n < D
                THEN IsAnswer(CopyWords[n][k], RowOf(part_id, n * WORD_SIZE + k))
                ELSE ~ (RowOf(part_id, n * WORD_SIZE + k) < colSize)
           /\ \A n \in 0 .. D - 1 : n < ResBuffLen => CopyWords[n] \in AnswerWord
<1>1. /\ Widths /\ part_id \in PartId /\ Scanned(part_id)
      /\ \A w \in DOMAIN write_buff[part_id] : write_buff[part_id][w] \in AnswerWord
  <2>1. Widths /\ part_id \in 0 .. NumOfPages
    BY DEF IInv, ShapeInv
  <2>2. part_id \in PartId
    BY <2>1, PagesAre DEF PartId
  <2> QED
    BY <2>1, <2>2 DEF IInv, ShapeInv, ScanInv
<1>2. /\ colSize \in Nat \ {0} /\ WORD_SIZE \in Nat \ {0} /\ WordsPerCl \in Nat \ {0}
      /\ ItemsPerCl \in Nat \ {0} /\ Lines \in Nat \ {0} /\ PartSize \in Nat \ {0}
      /\ TotalCls \in Nat \ {0} /\ TotalCls <= Lines
      /\ Wpp \in Nat \ {0} /\ ResBuffLen \in Nat \ {0} /\ ResBuffLen <= Wpp
      /\ ~ (colSize < PartSize) => ResBuffLen = Wpp /\ TotalCls = Lines
      /\ colSize <= PartSize => NumOfPages <= 1
      /\ part_id * PartSize \in Nat
  BY <1>1, ColumnIs, WordsAre, SizesAre, LinesTaken, ResultsAre, ReservedAre, PagesAre
<1>3. CASE IsJoin
  <2> DEFINE half == WORD_SIZE \div 2
  <2>1. /\ ItemsPerCl + ItemsPerCl = WORD_SIZE /\ TotalCls = 2 * Wpp
    BY <1>1, <1>3, ResultsAre, LinesTaken
  <2>2. half = ItemsPerCl
    BY <1>2, <2>1
  <2>3. CopyWords = [n \in 0 .. ResBuffLen - 1 |->
          [k \in BitOf |-> IF k < half
                           THEN write_buff[part_id][2 * n * WordsPerCl][k]
                           ELSE write_buff[part_id][(2 * n + 1) * WordsPerCl][k - half]]]
    BY <1>3 DEF CopyWords, CopiedHalves
  <2> HIDE DEF half
  <2>4. ASSUME NEW cl \in 0 .. TotalCls - 1, NEW j \in 0 .. ItemsPerCl - 1
        PROVE  /\ write_buff[part_id][cl * WordsPerCl] \in AnswerWord
               /\ IsAnswer(write_buff[part_id][cl * WordsPerCl][j],
                           RowOf(part_id, cl * ItemsPerCl + j))
    <3>1. j \div WORD_SIZE = 0 /\ j % WORD_SIZE = j
      <4>1. j \in 0 .. WORD_SIZE - 1 /\ 0 * WORD_SIZE + j = j /\ 0 \in Int
        BY <1>2, <2>1
      <4>2. (0 * WORD_SIZE + j) \div WORD_SIZE = 0 /\ (0 * WORD_SIZE + j) % WORD_SIZE = j
        BY <1>2, <4>1, DivIs, Zenon
      <4> QED
        BY <4>1, <4>2
    <3>2. cl * WordsPerCl \in 0 .. TotalCls * WordsPerCl - 1 /\ cl * WordsPerCl \in Int
      <4>1. cl * WordsPerCl + 0 \in 0 .. TotalCls * WordsPerCl - 1
        BY <1>2, Join
      <4>2. cl * WordsPerCl \in Int
        BY <1>2
      <4> QED
        BY <4>1, <4>2
    <3>3. IsAnswer(write_buff[part_id][cl * WordsPerCl + 0][j],
                   RowOf(part_id, cl * ItemsPerCl + j))
      BY <1>1, <3>1 DEF Scanned
    <3>4. cl * WordsPerCl + 0 = cl * WordsPerCl
      BY <3>2
    <3> QED
      BY <1>1, <3>2, <3>3, <3>4 DEF Scanned
  <2>5. ASSUME NEW n \in 0 .. ResBuffLen - 1
        PROVE  /\ 2 * n \in 0 .. TotalCls - 1 /\ 2 * n + 1 \in 0 .. TotalCls - 1
               /\ (2 * n) * ItemsPerCl = n * WORD_SIZE
               /\ (2 * n + 1) * ItemsPerCl = n * WORD_SIZE + ItemsPerCl
               /\ n * WORD_SIZE \in Nat
    <3>1. n \in Nat /\ n < Wpp
      BY <1>2
    <3>2. n * (ItemsPerCl + ItemsPerCl) = (2 * n) * ItemsPerCl
      BY <1>2, <3>1
    <3>3. (2 * n + 1) * ItemsPerCl = (2 * n) * ItemsPerCl + ItemsPerCl
      BY <1>2, <3>1
    <3> QED
      BY <1>2, <2>1, <3>1, <3>2, <3>3, Positive
  <2>6. ASSUME NEW n \in 0 .. ResBuffLen - 1, NEW k \in BitOf
        PROVE  /\ CopyWords[n][k] \in Answer
               /\ IsAnswer(CopyWords[n][k], RowOf(part_id, n * WORD_SIZE + k))
    <3>1. CASE k < half
      <4>1. k \in 0 .. ItemsPerCl - 1
        BY <1>2, <2>2, <3>1 DEF BitOf
      <4>2. CopyWords[n][k] = write_buff[part_id][(2 * n) * WordsPerCl][k]
        BY <2>3, <3>1
      <4>3. (2 * n) * ItemsPerCl + k = n * WORD_SIZE + k
        BY <2>5
      <4> QED
        BY <2>4, <2>5, <4>1, <4>2, <4>3 DEF AnswerWord
    <3>2. CASE ~ (k < half)
      <4>1. k - half \in 0 .. ItemsPerCl - 1 /\ k - half \in BitOf
        BY <1>2, <2>1, <2>2, <3>2 DEF BitOf
      <4>2. CopyWords[n][k] = write_buff[part_id][(2 * n + 1) * WordsPerCl][k - half]
        BY <2>3, <3>2
      <4>3. (2 * n + 1) * ItemsPerCl + (k - half) = n * WORD_SIZE + k
        BY <1>2, <2>2, <2>5, <4>1 DEF BitOf
      <4>4. /\ write_buff[part_id][(2 * n + 1) * WordsPerCl] \in AnswerWord
            /\ IsAnswer(write_buff[part_id][(2 * n + 1) * WordsPerCl][k - half],
                        RowOf(part_id, (2 * n + 1) * ItemsPerCl + (k - half)))
        BY <2>4, <2>5, <4>1
      <4> QED
        BY <4>1, <4>2, <4>3, <4>4 DEF AnswerWord
    <3> QED
      BY <3>1, <3>2
  <2>7. DOMAIN CopyWords = 0 .. ResBuffLen - 1
    BY <2>3
  <2>8. \A n \in 0 .. ResBuffLen - 1 : CopyWords[n] \in AnswerWord
    BY <2>3, <2>6 DEF AnswerWord
  <2>9. ResBuffLen \in Nat /\ \A n \in 0 .. ResBuffLen - 1 : n < ResBuffLen
    BY <1>2
  <2> QED
    BY <2>6, <2>7, <2>8, <2>9
<1>4. CASE ~IsJoin
  <2> DEFINE m == ResWordsPerCl
             D == TotalCls * m
  <2>1. /\ m \in Nat \ {0} /\ ItemsPerCl = m * WORD_SIZE /\ Wpp = Lines * m
        /\ m <= WordsPerCl
        /\ TotalCls = Lines \/ colSize <= TotalCls * ItemsPerCl
    BY <1>1, <1>4, ResultsAre, LinesTaken, LineHolds
  <2>2. CopyWords = [n \in 0 .. D - 1 |->
          write_buff[part_id][(n \div m) * WordsPerCl + (n % m)]]
    BY <1>4 DEF CopyWords, CopiedWords
  <2> HIDE DEF m
  <2>3. D \in Nat
    BY <1>2, <2>1, Positive
  <2>4. D <= ResBuffLen \/ NumOfPages <= 1
    <3>1. ~ (colSize < PartSize) => D = ResBuffLen
      BY <1>2, <2>1
    <3>2. colSize < PartSize => colSize <= PartSize
      BY <1>2
    <3> HIDE DEF D
    <3> QED
      BY <1>2, <2>3, <3>1, <3>2
  <2>5. ASSUME NEW n \in 0 .. D - 1
        PROVE  /\ CopyWords[n] \in AnswerWord
               /\ \A k \in BitOf : IsAnswer(CopyWords[n][k], RowOf(part_id, n * WORD_SIZE + k))
    <3> DEFINE cl == n \div m
               r == n % m
    <3>1. cl \in 0 .. TotalCls - 1 /\ r \in 0 .. m - 1 /\ n = cl * m + r
      <4>1. TotalCls \in Nat
        BY <1>2
      <4> QED
        BY <2>1, <4>1, Split, Zenon
    <3>2. CopyWords[n] = write_buff[part_id][cl * WordsPerCl + r]
      BY <2>2
    <3> HIDE DEF cl, r
    <3>3. CopyWords[n] \in AnswerWord
      <4>1. r \in 0 .. WordsPerCl - 1
        BY <1>2, <2>1, <3>1
      <4>2. cl * WordsPerCl + r \in 0 .. TotalCls * WordsPerCl - 1
        BY <1>2, <3>1, <4>1, Join
      <4> QED
        BY <1>1, <3>2, <4>2 DEF Scanned
    <3>4. ASSUME NEW k \in BitOf
          PROVE  IsAnswer(CopyWords[n][k], RowOf(part_id, n * WORD_SIZE + k))
      <4> DEFINE j == r * WORD_SIZE + k
      <4>1. k \in 0 .. WORD_SIZE - 1 /\ r \in Int /\ cl \in Int
        BY <3>1 DEF BitOf
      <4>2. j \in 0 .. ItemsPerCl - 1
        <5>1. m \in Nat
          BY <2>1
        <5>2. j \in 0 .. m * WORD_SIZE - 1
          BY <1>2, <3>1, <4>1, <5>1, Join
        <5> QED
          BY <2>1, <5>2
      <4>3. j \div WORD_SIZE = r /\ j % WORD_SIZE = k
        BY <1>2, <4>1, DivIs
      <4>4. IsAnswer(write_buff[part_id][cl * WordsPerCl + r][k],
                     RowOf(part_id, cl * ItemsPerCl + j))
        <5> HIDE DEF j
        <5> QED
          BY <1>1, <3>1, <4>2, <4>3 DEF Scanned
      <4>5. cl * ItemsPerCl + j = n * WORD_SIZE + k
        <5>1. k \in Int
          BY <4>1
        <5> QED
          BY <1>2, <2>1, <3>1, <4>1, <5>1
      <4> QED
        BY <3>2, <4>4, <4>5
    <3> QED
      BY <3>3, <3>4
  <2>6. ASSUME NEW n \in 0 .. ResBuffLen - 1, NEW k \in BitOf, ~ (n < D)
        PROVE  ~ (RowOf(part_id, n * WORD_SIZE + k) < colSize)
    <3>1. TotalCls # Lines
      <4>1. TotalCls = Lines => D = Wpp
        BY <2>1
      <4> HIDE DEF D
      <4> QED
        BY <1>2, <2>3, <2>6, <4>1
    <3>2. colSize <= D * WORD_SIZE
      <4>1. TotalCls * (m * WORD_SIZE) = D * WORD_SIZE
        BY <1>2, <2>1
      <4> HIDE DEF D
      <4> QED
        BY <2>1, <3>1, <4>1
    <3> HIDE DEF D
    <3>3. D * WORD_SIZE <= n * WORD_SIZE /\ n * WORD_SIZE \in Int /\ D * WORD_SIZE \in Int
      BY <1>2, <2>3, <2>6, Mono
    <3>4. k \in Int /\ k >= 0
      BY <1>2 DEF BitOf
    <3> QED
      BY <1>2, <3>2, <3>3, <3>4 DEF RowOf
  <2>7. DOMAIN CopyWords = 0 .. D - 1
    BY <2>2
  <2> HIDE DEF D
  <2>8. \A n \in 0 .. ResBuffLen - 1, k \in BitOf :
          IF n < D THEN IsAnswer(CopyWords[n][k], RowOf(part_id, n * WORD_SIZE + k))
                   ELSE ~ (RowOf(part_id, n * WORD_SIZE + k) < colSize)
    <3>1. \A n \in 0 .. ResBuffLen - 1 : n < D => n \in 0 .. D - 1
      BY <1>2, <2>3
    <3> QED
      BY <2>5, <2>6, <3>1
  <2> QED
    BY <2>3, <2>4, <2>5, <2>7, <2>8
<1> QED
  BY <1>3, <1>4

\* A result word has one page and one place among the page's words.
LEMMA ResultPlace ==
  ASSUME Widths, NEW w \in ResultWord
  PROVE  /\ w \div ResBuffLen \in PartId /\ w % ResBuffLen \in 0 .. ResBuffLen - 1
         /\ w = (w \div ResBuffLen) * ResBuffLen + (w % ResBuffLen)
         /\ w \in Nat /\ w \div ResBuffLen \in Nat /\ (w \div ResBuffLen) * ResBuffLen \in Nat
<1>1. ResBuffLen \in Nat \ {0} /\ NumOfPages \in Nat
  BY ReservedAre, PagesAre
<1>2. w \in 0 .. NumOfPages * ResBuffLen - 1
  <2>1. NumOfPages * ResBuffLen = ResBuffLen * NumOfPages /\ NumOfPages * ResBuffLen \in Nat
    BY <1>1, Positive
  <2> QED
    BY <2>1 DEF ResultWord
<1>3. /\ w \div ResBuffLen \in 0 .. NumOfPages - 1 /\ w % ResBuffLen \in 0 .. ResBuffLen - 1
      /\ w = (w \div ResBuffLen) * ResBuffLen + (w % ResBuffLen)
  BY <1>1, <1>2, Split, Zenon
<1> DEFINE p == w \div ResBuffLen
<1> HIDE DEF p
<1>4. p \in 0 .. NumOfPages - 1 => p \in Nat /\ p * ResBuffLen \in Nat
  BY <1>1, Positive
<1> QED
  BY <1>1, <1>2, <1>3, <1>4 DEF p, PartId

LEMMA CopyPartitionKeeps ==
  ASSUME IInv, CopyPartition
  PROVE  IInv'
<1>1. /\ pc = "copy" /\ UNCHANGED column /\ UNCHANGED packing
      /\ UNCHANGED <<compressed, write_buff, counted>>
      /\ pc' \in {"copy", "count"}
  BY DEF CopyPartition
<1>2. Widths /\ part_id \in 0 .. NumOfPages /\ NumOfPages \in Nat /\ ResBuffLen \in Nat \ {0}
  <2>1. Widths /\ part_id \in 0 .. NumOfPages
    BY DEF IInv, ShapeInv
  <2> QED
    BY <2>1, PagesAre, ReservedAre
<1>3. WordInv' /\ ReadInv' /\ PagesInv' /\ CountInv'
  BY <1>1, AfterPacking
<1>4. ScanInv'
  <2>1. \A p \in PartId : Scanned(p)'
    BY <1>1, ScannedStays DEF IInv, ScanInv
  <2> QED
    BY <1>1, <2>1, SameColumn DEF ScanInv
<1>5. CopyInv' <=> \A w \in ResultWord, k \in BitOf :
          IF w \div ResBuffLen < Reached' THEN IsAnswer(bit_result'[w][k], ResultOf(w, k))
                                          ELSE bit_result'[w][k] = Mixed
  <2>1. ResultWord' = ResultWord /\ ResBuffLen' = ResBuffLen
        /\ colSize' = colSize /\ \A w, k : ResultOf(w, k)' = ResultOf(w, k)
    BY <1>1, SameColumn
  <2> QED
    BY <2>1, Zenon DEF CopyInv, IsAnswer
<1>6. \A w \in ResultWord, k \in BitOf :
        IF w \div ResBuffLen < part_id THEN IsAnswer(bit_result[w][k], ResultOf(w, k))
                                       ELSE bit_result[w][k] = Mixed
  BY <1>1 DEF IInv, CopyInv, Reached
<1>7. CASE part_id < NumOfPages
  <2> DEFINE offset == part_id * ResBuffLen
  <2>1. /\ pc' = "copy" /\ part_id' = part_id + 1
        /\ bit_result' = [w \in ResultWord |->
             IF w - offset \in DOMAIN CopyWords THEN CopyWords[w - offset] ELSE bit_result[w]]
        /\ overrun' = (overrun \/ \E n \in DOMAIN CopyWords : offset + n \notin ResultWord)
    BY <1>7 DEF CopyPartition, CopyWords
  <2>2. PICK D \in Nat :
           /\ DOMAIN CopyWords = 0 .. D - 1
           /\ D <= ResBuffLen \/ NumOfPages <= 1
           /\ \A n \in 0 .. ResBuffLen - 1, k \in BitOf :
                IF n < D
                THEN IsAnswer(CopyWords[n][k], RowOf(part_id, n * WORD_SIZE + k))
                ELSE ~ (RowOf(part_id, n * WORD_SIZE + k) < colSize)
           /\ \A n \in 0 .. D - 1 : n < ResBuffLen => CopyWords[n] \in AnswerWord
    BY <1>1, <1>7, CopyWordsAre
  <2>3. offset \in Nat /\ part_id \in Nat
    BY <1>2, Positive
  <2> HIDE DEF offset
\* Which words the copy reaches.
  <2>4. ASSUME NEW w \in ResultWord
        PROVE  LET p == w \div ResBuffLen
                   n == w % ResBuffLen IN
               /\ p = part_id => w - offset = n
               /\ p # part_id => w - offset \notin 0 .. D - 1
    <3> DEFINE p == w \div ResBuffLen
               n == w % ResBuffLen
    <3>1. /\ p \in Nat /\ p < NumOfPages /\ n \in 0 .. ResBuffLen - 1 /\ w = p * ResBuffLen + n
          /\ p * ResBuffLen \in Nat
      BY <1>2, ResultPlace DEF PartId
    <3> HIDE DEF p, n
    <3>2. p = part_id => w - offset = n
      BY <1>2, <3>1 DEF offset
    <3>3. p < part_id => w < offset
      <4>1. p < part_id => p * ResBuffLen + ResBuffLen <= part_id * ResBuffLen
        BY <1>2, <2>3, <3>1, Mono
      <4>2. p < part_id => p * ResBuffLen + ResBuffLen <= offset
        BY <4>1 DEF offset
      <4> QED
        BY <1>2, <2>3, <3>1, <4>2
    <3>4. p > part_id => w >= offset + D
      <4>1. p > part_id => part_id * ResBuffLen + ResBuffLen <= p * ResBuffLen
        BY <1>2, <2>3, <3>1, Mono
      <4>2. p > part_id => offset + ResBuffLen <= w
        BY <1>2, <2>3, <3>1, <4>1 DEF offset
      <4>3. p > part_id => ~ (NumOfPages <= 1)
        BY <1>2, <2>3, <3>1
      <4>4. p > part_id => D <= ResBuffLen
        BY <2>2, <4>3
      <4> QED
        BY <1>2, <2>2, <2>3, <3>1, <4>2, <4>4
    <3>5. p # part_id => w - offset \notin 0 .. D - 1
      BY <2>2, <2>3, <3>1, <3>3, <3>4
    <3> QED
      BY <3>2, <3>5 DEF p, n
  <2>5. ASSUME NEW w \in ResultWord, w \div ResBuffLen = part_id
        PROVE  /\ \A k \in BitOf : IsAnswer(bit_result'[w][k], ResultOf(w, k))
               /\ bit_result'[w] \in AnswerWord
    <3> DEFINE n == w % ResBuffLen
    <3>1. n \in 0 .. ResBuffLen - 1 /\ w - offset = n
      BY <1>2, <2>4, <2>5, ResultPlace
    <3>2. \A k \in BitOf : ResultOf(w, k) = RowOf(part_id, n * WORD_SIZE + k)
      BY <2>5 DEF ResultOf
    <3> HIDE DEF n
    <3>3. CASE n < D
      <4>1. n \in 0 .. D - 1 /\ n < ResBuffLen
        BY <1>2, <3>1, <3>3
      <4>2. bit_result'[w] = CopyWords[n]
        BY <2>1, <2>2, <3>1, <4>1
      <4> QED
        BY <2>2, <3>1, <3>2, <3>3, <4>1, <4>2
    <3>4. CASE ~ (n < D)
      <4>1. bit_result'[w] = bit_result[w]
        BY <2>1, <2>2, <3>1, <3>4
      <4>2. \A k \in BitOf : bit_result[w][k] = Mixed
        <5>1. ~ (w \div ResBuffLen < part_id)
          BY <2>3, <2>5
        <5> QED
          BY <1>6, <5>1
      <4>3. \A k \in BitOf : ~ (ResultOf(w, k) < colSize)
        BY <2>2, <3>1, <3>2, <3>4
      <4> QED
        BY <4>1, <4>2, <4>3 DEF IsAnswer, IInv, ShapeInv
    <3> QED
      BY <3>3, <3>4
  <2>6. \A w \in ResultWord : w \div ResBuffLen # part_id => bit_result'[w] = bit_result[w]
    BY <2>1, <2>2, <2>4
  <2>7. CopyInv'
    <3>1. Reached' = part_id + 1
      BY <2>1 DEF Reached
    <3>2. \A w \in ResultWord : w \div ResBuffLen \in Nat
      BY <1>2, ResultPlace
    <3>3. ASSUME NEW w \in ResultWord, NEW k \in BitOf
          PROVE  IF w \div ResBuffLen < part_id + 1
                 THEN IsAnswer(bit_result'[w][k], ResultOf(w, k))
                 ELSE bit_result'[w][k] = Mixed
      <4> DEFINE p == w \div ResBuffLen
      <4>1. p \in Nat
        BY <3>2
      <4>2. IF p < part_id THEN IsAnswer(bit_result[w][k], ResultOf(w, k))
                           ELSE bit_result[w][k] = Mixed
        BY <1>6
      <4>3. p # part_id => bit_result'[w] = bit_result[w]
        BY <2>6
      <4>4. p = part_id => IsAnswer(bit_result'[w][k], ResultOf(w, k))
        BY <2>5
      <4> HIDE DEF p
      <4>5. p < part_id + 1 <=> (p < part_id \/ p = part_id)
        BY <2>3, <4>1
      <4>6. IF p < part_id + 1 THEN IsAnswer(bit_result'[w][k], ResultOf(w, k))
                               ELSE bit_result'[w][k] = Mixed
        BY <2>3, <4>1, <4>2, <4>3, <4>4, <4>5
      <4> QED
        BY <4>6 DEF p
    <3> QED
      BY <1>5, <3>1, <3>3
  <2>8. ShapeInv'
    <3>1. bit_result' \in [ResultWord -> AnswerWord]
      <4>1. \A w \in ResultWord : bit_result'[w] \in AnswerWord
        BY <2>5, <2>6 DEF IInv, ShapeInv
      <4>2. DOMAIN bit_result' = ResultWord
            /\ bit_result' = [w \in ResultWord |-> bit_result'[w]]
        BY <2>1
      <4> QED
        BY <4>1, <4>2
    <3>2. overrun' \in BOOLEAN
      BY <2>1, Zenon DEF IInv, ShapeInv
    <3>3. part_id' \in 0 .. NumOfPages
      BY <1>2, <1>7, <2>1
    <3> QED
      BY <1>1, <2>1, <3>1, <3>2, <3>3, SameColumn DEF IInv, ShapeInv
  <2> QED
    BY <1>3, <1>4, <2>7, <2>8 DEF IInv
<1>8. CASE part_id = NumOfPages
  <2>1. pc' = "count" /\ UNCHANGED <<part_id, bit_result, overrun>>
    BY <1>2, <1>8 DEF CopyPartition
  <2>2. CopyInv'
    <3>1. Reached' = part_id
      BY <1>1, <1>8, <2>1, SameColumn DEF Reached
    <3> QED
      BY <1>5, <1>6, <2>1, <3>1
  <2>3. ShapeInv'
    BY <1>1, <2>1, SameColumn DEF IInv, ShapeInv
  <2> QED
    BY <1>3, <1>4, <2>2, <2>3 DEF IInv
<1> QED
  BY <1>2, <1>7, <1>8

-----------------------------------------------------------------------------
(* Counting. *)

LEMMA BitsFinite ==
  ASSUME Widths, NEW T \in SUBSET (ResultWord \X BitOf)
  PROVE  IsFiniteSet(T) /\ Cardinality(T) \in Nat
<1>1. IsFiniteSet(ResultWord) /\ IsFiniteSet(BitOf)
  <2>1. ResBuffLen * NumOfPages - 1 \in Int /\ WORD_SIZE - 1 \in Int
    BY ReservedAre, PagesAre, ColumnIs
  <2> QED
    BY <2>1, FS_Interval DEF ResultWord, BitOf
<1>2. IsFiniteSet(ResultWord \X BitOf)
  BY <1>1, FS_Product
<1>3. IsFiniteSet(T)
  BY <1>2, FS_Subset
<1> QED
  BY <1>3, FS_CardinalityType

LEMMA CountKeeps ==
  ASSUME IInv, CountBitResults
  PROVE  IInv'
<1>1. /\ pc = "count" /\ pc' = "done" /\ UNCHANGED column /\ UNCHANGED packing
      /\ UNCHANGED <<part_id, compressed, write_buff, bit_result, overrun>>
      /\ counted' = [a \in Answer |->
           Cardinality({b \in ResultWord \X BitOf : bit_result[b[1]][b[2]] = a})]
  BY DEF CountBitResults, CountedBits
<1>2. Widths
  BY DEF IInv, ShapeInv
<1>3. WordInv' /\ ReadInv' /\ PagesInv'
  BY <1>1, AfterPacking
<1>4. ScanInv'
  <2>1. \A p \in PartId : Scanned(p)'
    BY <1>1, ScannedStays DEF IInv, ScanInv
  <2> QED
    BY <1>1, <2>1, SameColumn DEF ScanInv
<1>5. CopyInv'
  <2>1. ResultWord' = ResultWord /\ ResBuffLen' = ResBuffLen /\ bit_result' = bit_result
        /\ colSize' = colSize /\ \A w, k : ResultOf(w, k)' = ResultOf(w, k)
    BY <1>1, SameColumn
  <2>2. Reached' = NumOfPages /\ Reached = NumOfPages
    BY <1>1, SameColumn DEF Reached
  <2> QED
    BY <2>1, <2>2, Zenon DEF CopyInv, IsAnswer, IInv
<1>6. CountInv'
  BY <1>1, SameColumn DEF CountInv
<1>7. ShapeInv'
  <2>1. counted' \in [Answer -> Nat]
    <3>1. ASSUME NEW a
          PROVE  Cardinality({b \in ResultWord \X BitOf : bit_result[b[1]][b[2]] = a}) \in Nat
      <4> DEFINE T == {b \in ResultWord \X BitOf : bit_result[b[1]][b[2]] = a}
      <4>1. T \in SUBSET (ResultWord \X BitOf)
        OBVIOUS
      <4> HIDE DEF T
      <4>2. Cardinality(T) \in Nat
        BY <1>2, <4>1, BitsFinite
      <4> QED
        BY <4>2 DEF T
    <3> QED
      BY <1>1, <3>1
  <2> QED
    BY <1>1, <2>1, SameColumn DEF IInv, ShapeInv
<1> QED
  BY <1>3, <1>4, <1>5, <1>6, <1>7 DEF IInv

LEMMA DoneKeeps ==
  ASSUME IInv, UNCHANGED vars
  PROVE  IInv'
<1>1. /\ UNCHANGED column /\ UNCHANGED packing
      /\ UNCHANGED <<pc, part_id, compressed, write_buff, bit_result, overrun, counted>>
  BY DEF vars
<1>2. ShapeInv' /\ WordInv' /\ CountInv'
  BY <1>1, SameColumn DEF IInv, ShapeInv, WordInv, CountInv, packing
<1>3. ReadInv'
  <2>1. /\ part_id' = part_id /\ PartId' = PartId /\ Vpw' = Vpw /\ ArraySize' = ArraySize
        /\ bit_encoding' = bit_encoding /\ PartSize' = PartSize /\ compressed' = compressed
        /\ rows' = rows /\ items_read' = items_read /\ curIndex' = curIndex
        /\ writtenVal' = writtenVal /\ shift_amount' = shift_amount /\ pc' = pc
    BY <1>1, SameColumn DEF packing
  <2>2. /\ Filled' = Filled /\ \A p, q : RowOf(p, q)' = RowOf(p, q)
        /\ \A p, q, k : Stored(p, q, k)' = Stored(p, q, k)
    BY <2>1, Zenon DEF Filled, RowOf, Stored
  <2>3. ReadInv
    BY DEF IInv
  <2>4. CASE pc # "read"
    BY <2>1, <2>4, Zenon DEF ReadInv
  <2>5. CASE pc = "read"
    <3>1. rows' = RowOf(part_id, items_read) /\ rows' = RowOf(part_id, items_read)'
      BY <2>1, <2>3, <2>5, Zenon DEF ReadInv, RowOf
    <3>2. \A q, k : Stored(part_id, q, k)' = Stored(part_id, q, k)
      BY <2>1, Zenon DEF Stored
    <3>3. \A v : RowOf(part_id, curIndex * Vpw + v)' = RowOf(part_id, curIndex * Vpw + v)
      BY <2>1, Zenon DEF RowOf
    <3> QED
      BY <2>1, <2>2, <2>3, <2>5, <3>1, <3>2, <3>3 DEF ReadInv
  <2> QED
    BY <2>4, <2>5
<1>4. PagesInv'
  <2>1. \A p : Packed(p) => Packed(p)'
    BY <1>1, PackedStays
  <2>2. /\ part_id' = part_id /\ PartId' = PartId /\ ArraySize' = ArraySize
        /\ PartSize' = PartSize /\ compressed' = compressed /\ colSize' = colSize
        /\ rows' = rows /\ pc' = pc /\ NumOfPages' = NumOfPages
    BY <1>1, SameColumn DEF packing
  <2> QED
    BY <2>1, <2>2 DEF IInv, PagesInv
<1>5. ScanInv'
  <2>1. \A p : Scanned(p) => Scanned(p)'
    BY <1>1, ScannedStays
  <2>2. part_id' = part_id /\ PartId' = PartId /\ pc' = pc
    BY <1>1, SameColumn
  <2> QED
    BY <2>1, <2>2 DEF IInv, ScanInv
<1>6. CopyInv'
  <2>1. ResultWord' = ResultWord /\ ResBuffLen' = ResBuffLen /\ bit_result' = bit_result
        /\ colSize' = colSize /\ \A w, k : ResultOf(w, k)' = ResultOf(w, k)
        /\ Reached' = Reached
    BY <1>1, SameColumn DEF Reached
  <2> QED
    BY <2>1, Zenon DEF CopyInv, IsAnswer, IInv
<1> QED
  BY <1>2, <1>3, <1>4, <1>5, <1>6 DEF IInv

\* From one coordinate of a value to the other, at the end of its way.
LEMMA PlaceOf ==
  ASSUME Widths, NEW w \in ResultWord, NEW k \in BitOf
  PROVE  /\ ResultOf(w, k) \in 0 .. NumOfPages * PartSize - 1
         /\ Place(ResultOf(w, k)) = w * WORD_SIZE + k
<1> DEFINE p == w \div ResBuffLen
           n == w % ResBuffLen
           q == n * WORD_SIZE + k
<1>1. /\ WORD_SIZE \in Nat \ {0} /\ PartSize \in Nat \ {0} /\ NumOfPages \in Nat
      /\ ResBuffLen \in Nat \ {0} /\ ResBuffLen <= Wpp
      /\ Wpp \in Nat /\ PartSize = Wpp * WORD_SIZE
  BY ColumnIs, SizesAre, PagesAre, ReservedAre, ResultsAre
<1>2. p \in 0 .. NumOfPages - 1 /\ n \in 0 .. ResBuffLen - 1 /\ w = p * ResBuffLen + n
  BY ResultPlace DEF PartId
<1>3. ResultOf(w, k) = p * PartSize + q
  BY DEF ResultOf, RowOf
<1> HIDE DEF p, n
<1>4. k \in 0 .. WORD_SIZE - 1 /\ n \in Int /\ p \in Int /\ k \in Int
  BY <1>1, <1>2 DEF BitOf
<1>5. q \in 0 .. PartSize - 1
  <2>1. n \in 0 .. Wpp - 1
    BY <1>1, <1>2
  <2>2. q \in 0 .. Wpp * WORD_SIZE - 1
    BY <1>1, <1>4, <2>1, Join
  <2> QED
    BY <1>1, <2>2
<1>6. p * ResBuffLen * WORD_SIZE + q = w * WORD_SIZE + k
  BY <1>1, <1>2, <1>4
<1> HIDE DEF q
<1>7. p * PartSize + q \in 0 .. NumOfPages * PartSize - 1
  BY <1>1, <1>2, <1>5, Join
<1>8. (p * PartSize + q) \div PartSize = p /\ (p * PartSize + q) % PartSize = q
  BY <1>1, <1>4, <1>5, DivIs, Zenon
<1> QED
  BY <1>3, <1>6, <1>7, <1>8 DEF Place

\* No two result bits share a place.
LEMMA PlaceOnce ==
  ASSUME Widths, NEW w \in ResultWord, NEW k \in BitOf, NEW u \in ResultWord, NEW m \in BitOf,
         w * WORD_SIZE + k = u * WORD_SIZE + m
  PROVE  w = u /\ k = m
<1>1. WORD_SIZE \in Nat \ {0} /\ k \in 0 .. WORD_SIZE - 1 /\ m \in 0 .. WORD_SIZE - 1
  BY ColumnIs DEF BitOf
<1>2. w \in Int /\ u \in Int
  BY ResultPlace
<1> QED
  BY <1>1, <1>2, Unique

\* A row of the pages has a result bit.
LEMMA PlaceExists ==
  ASSUME Widths, NEW i \in Nat, i < colSize, i < NumOfPages * PartSize
  PROVE  \E w \in ResultWord, k \in BitOf : ResultOf(w, k) = i
<1> DEFINE p == i \div PartSize
           q == i % PartSize
           n == q \div WORD_SIZE
           k == q % WORD_SIZE
           w == p * ResBuffLen + n
<1>1. /\ WORD_SIZE \in Nat \ {0} /\ PartSize \in Nat \ {0} /\ NumOfPages \in Nat
      /\ ResBuffLen \in Nat \ {0} /\ colSize \in Nat
      /\ colSize < PartSize => colSize < ResBuffLen * WORD_SIZE
      /\ ~ (colSize < PartSize) => ResBuffLen * WORD_SIZE = PartSize
  BY ColumnIs, SizesAre, PagesAre, ReservedAre, ResultsAre
<1>2. p \in 0 .. NumOfPages - 1 /\ q \in 0 .. PartSize - 1 /\ i = p * PartSize + q
  <2>1. i \in 0 .. NumOfPages * PartSize - 1
    <3>1. NumOfPages * PartSize \in Nat
      BY <1>1, Positive
    <3> QED
      BY <3>1
  <2> QED
    BY <1>1, <2>1, Split, Zenon
<1> HIDE DEF p, q
<1>3. q < ResBuffLen * WORD_SIZE /\ ResBuffLen * WORD_SIZE \in Nat /\ q \in Nat
  <2>1. p * PartSize \in Nat
    BY <1>1, <1>2, Positive
  <2>2. q <= i
    BY <1>1, <1>2, <2>1
  <2>3. ResBuffLen * WORD_SIZE \in Nat
    BY <1>1, Positive
  <2> QED
    BY <1>1, <1>2, <2>2, <2>3
<1>4. n \in 0 .. ResBuffLen - 1 /\ k \in 0 .. WORD_SIZE - 1 /\ q = n * WORD_SIZE + k
  <2>1. q \in 0 .. ResBuffLen * WORD_SIZE - 1 /\ ResBuffLen \in Nat
    BY <1>1, <1>3
  <2> QED
    BY <1>1, <2>1, Split, Zenon
<1> HIDE DEF n, k
<1>5. w \in ResultWord
  <2>1. w \in 0 .. NumOfPages * ResBuffLen - 1
    BY <1>1, <1>2, <1>4, Join
  <2>2. NumOfPages * ResBuffLen = ResBuffLen * NumOfPages
    BY <1>1
  <2> QED
    BY <2>1, <2>2 DEF ResultWord
<1>6. w \div ResBuffLen = p /\ w % ResBuffLen = n
  <2>1. p \in Int
    BY <1>2
  <2> QED
    BY <1>1, <1>4, <2>1, DivIs, Zenon
<1> HIDE DEF w
<1>7. ResultOf(w, k) = i
  BY <1>2, <1>4, <1>6 DEF ResultOf, RowOf
<1> QED
  BY <1>4, <1>5, <1>7 DEF BitOf

-----------------------------------------------------------------------------
(* The theorems. *)

LEMMA TypeFacts == IInv => TypeOK
<1> SUFFICES ASSUME IInv PROVE TypeOK
  OBVIOUS
<1>1. /\ colSize \in ColSizes /\ bit_encoding \in BitEncodings
      /\ pc \in {"allocate", "read", "scan", "copy", "count", "done"}
      /\ part_id \in 0 .. NumOfPages
  BY DEF IInv, ShapeInv, Widths
<1>2. /\ \A p \in PartId : \A w \in 0 .. ArraySize - 1 : compressed[p][w] \in Word
      /\ \A p \in PartId : \A w \in DOMAIN write_buff[p] : write_buff[p][w] \in AnswerWord
      /\ \A w \in ResultWord : bit_result[w] \in AnswerWord
  BY DEF IInv, ShapeInv
<1>3. overrun \in BOOLEAN /\ (pc = "done" => counted \in [Answer -> Nat])
  BY Zenon DEF IInv, ShapeInv
<1>4. rows \in 0 .. colSize
  BY DEF IInv, PagesInv
<1> QED
  BY <1>1, <1>2, <1>3, <1>4 DEF IInv, WordInv, TypeOK

\* At the end every result bit answers for its slot.
LEMMA AllAnswered ==
  ASSUME IInv, pc = "done", NEW w \in ResultWord, NEW k \in BitOf
  PROVE  IsAnswer(bit_result[w][k], ResultOf(w, k))
<1>1. Widths
  BY DEF IInv, ShapeInv
<1>2. w \div ResBuffLen < NumOfPages
  BY <1>1, ResultPlace, PagesAre DEF PartId
<1>3. Reached = NumOfPages
  BY DEF Reached
<1> QED
  BY <1>2, <1>3 DEF IInv, CopyInv

LEMMA AnsweredOnce ==
  ASSUME IInv, pc = "done", NEW w \in ResultWord, NEW k \in BitOf, NEW i \in 0 .. rows - 1
  PROVE  bit_result[w][k] = i <=> ResultOf(w, k) = i
<1>1. Widths /\ colSize \in Nat /\ rows \in 0 .. colSize
  BY ColumnIs DEF IInv, ShapeInv, PagesInv
<1>2. IsAnswer(bit_result[w][k], ResultOf(w, k))
  BY AllAnswered
<1>3. i < colSize /\ i # Padding /\ i # Mixed
  BY <1>1 DEF Padding, Mixed
<1> QED
  BY <1>2, <1>3 DEF IsAnswer

LEMMA RowsFacts == IInv => RowsInPlace
<1> SUFFICES ASSUME IInv, pc = "done",
                    NEW w \in ResultWord, NEW k \in BitOf, NEW i \in 0 .. rows - 1
             PROVE  bit_result[w][k] = i <=> w * WORD_SIZE + k = Place(i)
  BY DEF RowsInPlace
<1>1. Widths /\ colSize \in Nat /\ rows \in 0 .. colSize /\ rows <= NumOfPages * PartSize
      /\ NumOfPages * PartSize \in Nat
  <2>1. Widths
    BY DEF IInv, ShapeInv
  <2> QED
    BY <2>1, ColumnIs, PagesAre, SizesAre, Positive DEF IInv, PagesInv
<1>2. bit_result[w][k] = i <=> ResultOf(w, k) = i
  BY AnsweredOnce
<1>3. ResultOf(w, k) = i => w * WORD_SIZE + k = Place(i)
  BY <1>1, PlaceOf
<1>4. ASSUME w * WORD_SIZE + k = Place(i) PROVE ResultOf(w, k) = i
  <2>1. i \in Nat /\ i < colSize /\ i < NumOfPages * PartSize
    BY <1>1
  <2>2. PICK u \in ResultWord, m \in BitOf : ResultOf(u, m) = i
    BY <1>1, <2>1, PlaceExists
  <2>3. Place(i) = u * WORD_SIZE + m
    BY <1>1, <2>2, PlaceOf
  <2>4. w = u /\ k = m
    BY <1>1, <1>4, <2>3, PlaceOnce
  <2> QED
    BY <2>2, <2>4
<1> QED
  BY <1>2, <1>3, <1>4

LEMMA CountFacts == IInv => CountedOnce
<1> SUFFICES ASSUME IInv, pc = "done"
             PROVE  /\ \A i \in 0 .. rows - 1 : counted[i] = 1
                    /\ rows = PartSize * NumOfPages =>
                         \A a \in {Padding, Mixed, Off} : counted[a] = 0
  BY DEF CountedOnce
<1>1. Widths /\ colSize \in Nat /\ rows \in 0 .. colSize /\ rows <= NumOfPages * PartSize
      /\ NumOfPages * PartSize \in Nat /\ PartSize * NumOfPages = NumOfPages * PartSize
  <2>1. Widths
    BY DEF IInv, ShapeInv
  <2>2. NumOfPages \in Nat /\ PartSize \in Nat
    BY <2>1, PagesAre, SizesAre
  <2> QED
    BY <2>1, <2>2, ColumnIs, Positive DEF IInv, PagesInv
<1> DEFINE Bits(a) == {b \in ResultWord \X BitOf : bit_result[b[1]][b[2]] = a}
<1>2. \A a \in Answer : counted[a] = Cardinality(Bits(a))
  BY DEF IInv, CountInv
<1>3. ASSUME NEW i \in 0 .. rows - 1 PROVE counted[i] = 1
  <2>1. i \in Nat /\ i < colSize /\ i < NumOfPages * PartSize /\ i \in Answer
    BY <1>1 DEF Answer, Row
  <2>2. PICK u \in ResultWord, m \in BitOf : ResultOf(u, m) = i
    BY <1>1, <2>1, PlaceExists
  <2>3. ASSUME NEW w \in ResultWord, NEW k \in BitOf
        PROVE  bit_result[w][k] = i <=> w = u /\ k = m
    <3>1. bit_result[w][k] = i <=> ResultOf(w, k) = i
      BY AnsweredOnce
    <3>2. ASSUME ResultOf(w, k) = i PROVE w = u /\ k = m
      <4>1. Place(i) = w * WORD_SIZE + k /\ Place(i) = u * WORD_SIZE + m
        BY <1>1, <2>2, <3>2, PlaceOf
      <4> QED
        BY <1>1, <4>1, PlaceOnce
    <3> QED
      BY <2>2, <3>1, <3>2
  <2>4. Bits(i) = {<<u, m>>}
    BY <2>2, <2>3
  <2> QED
    BY <1>2, <2>1, <2>4, FS_Singleton
<1>4. ASSUME rows = PartSize * NumOfPages, NEW a \in {Padding, Mixed, Off}
      PROVE  counted[a] = 0
  <2>1. a \in Answer /\ a < 0 /\ a \in Int
    BY DEF Answer, Padding, Mixed, Off
  <2>2. ASSUME NEW w \in ResultWord, NEW k \in BitOf
        PROVE  bit_result[w][k] # a
    <3>1. ResultOf(w, k) \in 0 .. NumOfPages * PartSize - 1
      BY <1>1, PlaceOf
    <3>2. ResultOf(w, k) < colSize /\ ResultOf(w, k) >= 0
      BY <1>1, <1>4, <3>1
    <3>3. bit_result[w][k] = ResultOf(w, k)
      BY <3>2, AllAnswered DEF IsAnswer
    <3> QED
      BY <2>1, <3>2, <3>3
  <2>3. Bits(a) = {}
    BY <2>2
  <2> QED
    BY <1>2, <2>1, <2>3, FS_EmptySet
<1> QED
  BY <1>3, <1>4

LEMMA StepKeeps == IInv /\ [Next]_vars => IInv'
<1> SUFFICES ASSUME IInv, [Next]_vars PROVE IInv'
  OBVIOUS
<1>1. CASE Allocate
  BY <1>1, AllocateKeeps
<1>2. CASE ReadItem
  BY <1>2, ReadItemKeeps
<1>3. CASE EndPartition
  BY <1>3, EndPartitionKeeps
<1>4. CASE ScanPartition
  BY <1>4, ScanPartitionKeeps
<1>5. CASE CopyPartition
  BY <1>5, CopyPartitionKeeps
<1>6. CASE CountBitResults
  BY <1>6, CountKeeps
<1>7. CASE Done \/ UNCHANGED vars
  BY <1>7, DoneKeeps DEF Done
<1> QED
  BY <1>1, <1>2, <1>3, <1>4, <1>5, <1>6, <1>7 DEF Next

\* What is in the file's words, the result lines and the bit vector is named
\* throughout by the row it came from.
THEOREM ColumnInvariant == Spec => []IInv
<1>1. Init => IInv
  BY InitInv
<1> QED
  BY <1>1, StepKeeps, PTL DEF Spec

\* The values of the packing's, the scan's and the copy's variables: the word
\* at hand is inside its partition and no bit is shifted out of it.
THEOREM ColumnTypeCorrect == Spec => []TypeOK
BY ColumnInvariant, TypeFacts, PTL

\* Each row Partition::compress stored is answered for by the result bit at its
\* place in JobWrapper::bit_result and by no other.
THEOREM RowsAreInPlace == Spec => []RowsInPlace
BY ColumnInvariant, RowsFacts, PTL

\* countBitResults adds up each stored row once, and nothing else when the rows
\* fill their pages.
THEOREM RowsAreCountedOnce == Spec => []CountedOnce
BY ColumnInvariant, CountFacts, PTL
=============================================================================
