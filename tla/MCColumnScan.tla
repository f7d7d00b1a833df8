---------------------------- MODULE MCColumnScan ----------------------------
(* Instances of ColumnScan for TLC. *)
EXTENDS ColumnScan

\* 8-bit words, 32-bit lines, pages of 4 lines.  A page holds 64 two-bit, 32
\* four-bit or 16 eight-bit values, and a result line two result words, one, or
\* half a one, as with the 4-bit, the 8-bit and the 16-bit unit of the code.
TwoFourAndEight == {2, 4, 8}

\* Up to five pages of eight-bit, three of four-bit and two of two-bit values.
UpToFivePages == 3 .. 72
=============================================================================
