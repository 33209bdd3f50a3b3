------------------------------ MODULE MCSacData ------------------------------
(* A small disk for SacDataProperties.                                       *)
EXTENDS SacDataProperties

\* The first and the last cell of a block, and sizes that fill less than a
\* block, one, and three of which two are lost.
MCOffset == {0, 2, 6}
MCSize == {1, 3, 7}
=============================================================================
