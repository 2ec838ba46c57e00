--------------------------- MODULE MCOneLayerAlloc ---------------------------
(* Class 6 holds the totals of 48, class 7 all from 56 bytes up; the        *)
(* requests need totals of 48, 56, 64 and 112 bytes.                        *)
EXTENDS OneLayerAlloc

CONSTANTS t1, t2
MCRequest == {16, 24, 32, 80}
=============================================================================
