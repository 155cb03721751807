------------------------------- MODULE MCPmm -------------------------------
(***************************************************************************)
(* Pmm on 10 blocks in a bitmap of three 4-bit words, so that the last     *)
(* word has bits past total_blocks.                                        *)
(***************************************************************************)
EXTENDS Pmm

\* Aligned, unaligned, across a word boundary, past the end of memory.
MCRegions == {<<4, 4>>, <<7, 3>>, <<18, 9>>}
=============================================================================
