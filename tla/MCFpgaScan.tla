----------------------------- MODULE MCFpgaScan -----------------------------
(* Instances of FpgaScan for TLC. *)
EXTENDS FpgaScan

\* A d_year scan and a lo_discount scan, two partitions each (one of d_year's
\* is queued).  8-bit lines hold two 4-bit values; the first column fills one
\* and a half lines, the second more than its two-line page.
TwoScans == <<0, 1>>
TwoPartitionsEach == <<2, 2>>
ThreeAndSix == <<3, 6>>
FourBits == <<4, 4>>
=============================================================================
