------------------------------- MODULE MCPmm -------------------------------
(***************************************************************************)
(* Memory maps for model checking Pmm: 8-byte pages, so that alignment,    *)
(* the choice of the region, a bitmap of exactly one byte (8 pages) and    *)
(* one with slack bits (6 pages) all occur.                                *)
(***************************************************************************)
EXTENDS Pmm

Entry(base, length, usable) == [base |-> base, length |-> length, usable |-> usable]

\* 6 pages from the unaligned entry; the longer one is not usable.
MapUnaligned == << Entry(0, 16, TRUE), Entry(16, 99, FALSE), Entry(117, 43, TRUE) >>
\* 8 pages: the bit after the last page is not part of the bitmap.
MapFullByte == << Entry(8, 64, TRUE), Entry(80, 64, TRUE) >>
\* 3 pages: MmInitialize needs all of them.
MapTiny == << Entry(16, 24, TRUE) >>

Maps == {MapUnaligned, MapFullByte, MapTiny}
============================================================================
