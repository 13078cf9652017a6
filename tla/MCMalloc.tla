------------------------------ MODULE MCMalloc ------------------------------
(***************************************************************************)
(* Malloc on a heap of HeapTop bytes: blocks aligned to 2, headers of 2    *)
(* bytes.  Two small blocks and their headers fill it, so that regions are *)
(* adjacent, reused and exhausted.                                         *)
(***************************************************************************)
EXTENDS Malloc
=============================================================================
