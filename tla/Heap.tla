-------------------------------- MODULE Heap --------------------------------
(***************************************************************************)
(* What the allocator of nanolibc promises a program (c/include/malloc.h): *)
(* a set of aligned blocks that do not overlap, each keeping the bytes the *)
(* program stored in it until the block is freed, whatever happens to the  *)
(* other blocks.  Nothing is said here of headers, padding or the runtime  *)
(* underneath: module Malloc has those and is shown to implement this one. *)
(***************************************************************************)
EXTENDS Integers

CONSTANTS
  Align,  \* NNLC_MALLOC_ALIGNMENT
  Addr,   \* the addresses a block may start at
  Sizes,  \* the sizes, in bytes, a program may ask for
  Byte,   \* the values of a byte the program stores
  Cell    \* what a byte of memory may hold before the program stores there

VARIABLE
  blocks  \* the live blocks: pointer -> [size, data], data: offset -> byte

Live == DOMAIN blocks

Bytes(p, n) == p .. (p + n - 1)

(* A block of n bytes may be placed at p beside the blocks of ps.          *)
Placeable(p, n, ps) ==
  /\ n > 0
  /\ p % Align = 0
  /\ \A q \in ps : Bytes(p, n) \cap Bytes(q, blocks[q].size) = {}

(* The blocks are now ps, of which all but p are what they were.           *)
Become(ps, p) ==
  /\ DOMAIN blocks' = ps
  /\ \A q \in ps \ {p} : blocks'[q] = blocks[q]

(* The block at p now has n bytes.                                         *)
Sized(p, n) ==
  /\ blocks'[p].size = n
  /\ blocks'[p].data \in [0 .. (n - 1) -> Cell]

Init == blocks = << >>

(* A new block; its contents are unspecified.                              *)
Alloc(p, n) ==
  /\ p \notin Live
  /\ Placeable(p, n, Live)
  /\ Become(Live \cup {p}, p)
  /\ Sized(p, n)

(* free(), realloc() to size 0, and a realloc() that could not grow the    *)
(* block: the block is gone either way (c/malloc.c:100-103, 112-116).      *)
Release(p) ==
  /\ p \in Live
  /\ Become(Live \ {p}, p)

(* The block at p is now the n bytes at q (q = p when it stays): the bytes *)
(* the two sizes have in common are preserved.                             *)
Resize(p, q, n) ==
  /\ p \in Live
  /\ q \notin Live \ {p}
  /\ Placeable(q, n, Live \ {p})
  /\ Become((Live \ {p}) \cup {q}, q)
  /\ Sized(q, n)
  /\ \A i \in 0 .. (n - 1) :
       i < blocks[p].size => blocks'[q].data[i] = blocks[p].data[i]

(* The program stores one byte in a block.                                 *)
Write(p, i, b) ==
  /\ p \in Live
  /\ i \in 0 .. (blocks[p].size - 1)
  /\ blocks' = [blocks EXCEPT ![p].data[i] = b]

Next ==
  \/ \E p \in Addr, n \in Sizes : Alloc(p, n)
  \/ \E p \in Live : Release(p)
  \/ \E p \in Live, q \in Addr, n \in Sizes : Resize(p, q, n)
  \/ \E p \in Live, b \in Byte : \E i \in 0 .. (blocks[p].size - 1) : Write(p, i, b)

Spec == Init /\ [][Next]_blocks
=============================================================================
