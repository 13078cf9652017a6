------------------------------- MODULE Malloc -------------------------------
(***************************************************************************)
(* c/malloc.c: malloc, free, calloc and realloc as trampolines to the      *)
(* allocator of the underlying runtime (sysdeps->malloc / sysdeps->free).  *)
(*                                                                         *)
(* The runtime may return any free region, aligned or not, or NULL.  Each  *)
(* libC block is carved out of a larger runtime region: a malloc_block     *)
(* header, which remembers the runtime's pointer and the capacity, sits    *)
(* just below an aligned payload.  Memory is one array of bytes, so that a *)
(* header or a payload in the wrong place is overwritten here as it would  *)
(* be in the machine.                                                      *)
(***************************************************************************)
EXTENDS Integers, FiniteSets

CONSTANTS
  Word,    \* number of values of size_t (2^w)
  Align,   \* NNLC_MALLOC_ALIGNMENT
  Header,  \* sizeof(struct malloc_block)
  HeapTop, \* the runtime's heap is the addresses 1 .. HeapTop
  Sizes,   \* the sizes the program passes
  Nums,    \* the element counts the program passes to calloc
  Byte,    \* the values of a byte the program tells apart
  Zero,    \* the byte 0
  Junk,    \* what the bytes of the runtime's free memory hold
  MaxLive  \* bound on the blocks the program holds at a time

ASSUME MallocAssumption ==
  /\ Word \in Nat \ {0} /\ Align \in Nat \ {0} /\ Header \in Nat \ {0}
  /\ HeapTop \in Nat /\ MaxLive \in Nat
  /\ Sizes \subseteq Nat /\ Nums \subseteq Nat
  /\ Zero \in Byte /\ Junk \in Byte

NULL == 0
Addr == 1 .. HeapTop

VARIABLES
  rt,     \* the runtime's live regions: base -> size
  mem,    \* the bytes of the heap
  live,   \* the program's blocks: pointer -> size it asked for
  abuse,  \* the runtime was asked for 0 bytes, or to free what it never gave
  fault   \* the program has written through NULL and is gone

vars == <<rt, mem, live, abuse, fault>>

(* A byte of memory is one of the program's or part of a malloc_block.     *)
HeaderCell == [mem : Addr, nbytes : Nat]
Cell == Byte \cup HeaderCell

Bytes(p, n) == p .. (p + n - 1)
Without(f, x) == [y \in DOMAIN f \ {x} |-> f[y]]
With(f, x, v) == [y \in DOMAIN f \cup {x} |-> IF y = x THEN v ELSE f[y]]

-----------------------------------------------------------------------------
(* Layout of a block.                                                      *)

PadForAlignment(n) == n + Align - 1

AlignAfterNoMask(m, reserved) == m + reserved
AlignAfterNoReserve(m, reserved) == Align * (PadForAlignment(m) \div Align)

(* Adding Align - 1 and masking the low bits off is rounding up to a       *)
(* multiple of Align, a power of 2.                                        *)
AlignAfter(m, reserved) ==
  Align * (PadForAlignment(m + reserved) \div Align)

MemSizeNoPad(size) == (size + Header) % Word

(* mem_size in malloc(): computed in size_t, so it may wrap.               *)
MemSize(size) == (PadForAlignment(size) + Header) % Word

BlockOf(p) == mem[p - Header]

-----------------------------------------------------------------------------
(* The runtime underneath.  sysdeps->malloc finds any free region or       *)
(* fails; sysdeps->free may scribble over the region it takes back.        *)

RuntimeMayReturn(m, n) ==
  /\ m + n - 1 \in Addr
  /\ \A b \in DOMAIN rt : Bytes(m, n) \cap Bytes(b, rt[b]) = {}

(* The runtime was asked for regions of the sizes of asked, then to free   *)
(* the pointers of freed.                                                  *)
RuntimeCalled(asked, freed) ==
  abuse' = (abuse \/ 0 \in asked \/ ~(freed \subseteq DOMAIN rt))

Scribbled(m, contents) ==
  [a \in Addr |-> IF m \in DOMAIN rt /\ a \in Bytes(m, rt[m])
                  THEN Junk ELSE contents[a]]

-----------------------------------------------------------------------------
(* The four functions.                                                     *)

Init ==
  /\ rt = << >>
  /\ mem = [a \in Addr |-> Junk]
  /\ live = << >>
  /\ abuse = FALSE
  /\ fault = FALSE

(* malloc() writes the header of the block of size bytes it makes in the   *)
(* region m; the other bytes of memory are those of contents.              *)
Carved(m, size, contents) ==
  [a \in Addr |-> IF a \in Bytes(AlignAfter(m, Header) - Header, Header)
                  THEN [mem |-> m, nbytes |-> size] ELSE contents[a]]

Room == Cardinality(DOMAIN live) < MaxLive

Malloc(size) ==
  \/ size = 0 /\ UNCHANGED vars
  \/ /\ size > 0
     /\ RuntimeCalled({MemSize(size)}, {})
     /\ UNCHANGED <<rt, mem, live, fault>>
  \/ /\ size > 0 /\ Room
     /\ RuntimeCalled({MemSize(size)}, {})
     /\ \E m \in Addr : /\ RuntimeMayReturn(m, MemSize(size))
                        /\ rt' = With(rt, m, MemSize(size))
                        /\ mem' = Carved(m, size, mem)
                        /\ live' = With(live, AlignAfter(m, Header), size)
     /\ UNCHANGED fault

ReleasePayload(p, asked) ==
  /\ RuntimeCalled(asked, {p})
  /\ mem' = Scribbled(p, mem)
  /\ rt' = Without(rt, p)
  /\ live' = Without(live, p)
  /\ UNCHANGED fault

(* free(p), p not NULL, after the runtime was asked for the sizes of asked.*)
Release(p, asked) ==
  /\ RuntimeCalled(asked, {BlockOf(p).mem})
  /\ mem' = Scribbled(BlockOf(p).mem, mem)
  /\ rt' = Without(rt, BlockOf(p).mem)
  /\ live' = Without(live, p)
  /\ UNCHANGED fault

Free(p) == IF p = NULL THEN UNCHANGED vars ELSE Release(p, {})

OverflowsUnchecked(num, size) == size = 0

(* The test of calloc(): len is num * size modulo the word.                *)
Overflows(num, size) == size > 0 => num # ((num * size) % Word) \div size

(* memset(p, 0, len).                                                      *)
Cleared(p, len, contents) ==
  [a \in Addr |-> IF a \in Bytes(p, len) THEN Zero ELSE contents[a]]

(* malloc(len), then memset(buf, 0, len) with no test of buf in between: a *)
(* NULL buf is written through, unless len is 0.                           *)
Calloc(num, size) ==
  LET len == (num * size) % Word IN
  IF Overflows(num, size) \/ len = 0
  THEN UNCHANGED vars
  ELSE
    /\ RuntimeCalled({MemSize(len)}, {})
    /\ \/ fault' = TRUE /\ UNCHANGED <<rt, mem, live>>
       \/ /\ Room
          /\ \E m \in Addr :
               LET p == AlignAfter(m, Header) IN
               /\ RuntimeMayReturn(m, MemSize(len))
               /\ rt' = With(rt, m, MemSize(len))
               /\ mem' = Cleared(p, len, Carved(m, len, mem))
               /\ live' = With(live, p, len)
          /\ UNCHANGED fault

CopiedShort(p, q, n, contents) ==
  [a \in Addr |-> IF a \in Bytes(q, n - 1) THEN contents[p + (a - q)] ELSE contents[a]]

(* memcpy(q, p, n).                                                        *)
Copied(p, q, n, contents) ==
  [a \in Addr |-> IF a \in Bytes(q, n) THEN contents[p + (a - q)] ELSE contents[a]]

GrowLeaking(p, size) ==
  \E m \in Addr :
    LET q == AlignAfter(m, Header) IN
    /\ RuntimeMayReturn(m, MemSize(size))
    /\ RuntimeCalled({MemSize(size)}, {})
    /\ mem' = Copied(p, q, BlockOf(p).nbytes, Carved(m, size, mem))
    /\ rt' = With(rt, m, MemSize(size))
    /\ live' = With(Without(live, p), q, size)
    /\ UNCHANGED fault

(* realloc() of a block that outgrows its capacity: malloc a new one, copy *)
(* the old capacity, free the old one.                                     *)
Grow(p, size) ==
  \E m \in Addr :
    LET q == AlignAfter(m, Header)
        old == BlockOf(p)
    IN
    /\ RuntimeMayReturn(m, MemSize(size))
    /\ RuntimeCalled({MemSize(size)}, {old.mem})
    /\ mem' = Scribbled(old.mem, Copied(p, q, old.nbytes, Carved(m, size, mem)))
    /\ rt' = Without(With(rt, m, MemSize(size)), old.mem)
    /\ live' = With(Without(live, p), q, size)
    /\ UNCHANGED fault

(* The block has the capacity: it stays, its header unchanged.             *)
Stay(p, size) ==
  /\ live' = [live EXCEPT ![p] = size]
  /\ UNCHANGED <<rt, mem, abuse, fault>>

(* A realloc() that cannot grow the block frees it all the same.           *)
Realloc(p, size) ==
  CASE p = NULL -> Malloc(size)
    [] p # NULL /\ size = 0 -> Release(p, {})
    [] p # NULL /\ size \in 1 .. BlockOf(p).nbytes -> Stay(p, size)
    [] OTHER -> Grow(p, size) \/ Release(p, {MemSize(size)})

-----------------------------------------------------------------------------
(* The program stores bytes in the blocks it holds, and passes to free and *)
(* realloc only NULL or a block it holds.                                  *)

Store(p, i, b) ==
  /\ mem' = [mem EXCEPT ![p + i] = b]
  /\ UNCHANGED <<rt, live, abuse, fault>>

Next ==
  /\ ~fault /\ ~abuse
  /\ \/ \E size \in Sizes : Malloc(size)
     \/ \E num \in Nums, size \in Sizes : Calloc(num, size)
     \/ \E p \in DOMAIN live \cup {NULL} : Free(p)
     \/ \E p \in DOMAIN live \cup {NULL}, size \in Sizes : Realloc(p, size)
     \/ \E p \in DOMAIN live, b \in Byte :
          \E i \in 0 .. (live[p] - 1) : Store(p, i, b)

Spec == Init /\ [][Next]_vars

-----------------------------------------------------------------------------
(* Properties.                                                             *)

(* Types: in particular every region is in the heap, every byte is one the *)
(* program or a malloc_block wrote, and no block is at NULL.               *)
TypeOK ==
  /\ DOMAIN rt \subseteq Addr /\ rt \in [DOMAIN rt -> Nat]
  /\ mem \in [Addr -> Cell]
  /\ DOMAIN live \subseteq Addr /\ live \in [DOMAIN live -> Nat]
  /\ abuse \in BOOLEAN /\ fault \in BOOLEAN

(* malloc.h:26-31: every block is aligned, whatever the runtime returned.  *)
Aligned == \A p \in DOMAIN live : p % Align = 0

(* Between any two operations the header below a block is the one malloc   *)
(* wrote for it, and header and payload lie inside one live region of the  *)
(* runtime: no store to a block, memset or memcpy reached another's header.*)
BlockInRegion ==
  \A p \in DOMAIN live :
    /\ p - Header \in Addr
    /\ BlockOf(p) \in HeaderCell
    /\ BlockOf(p).mem \in DOMAIN rt
    /\ BlockOf(p).mem <= p - Header
    /\ live[p] <= BlockOf(p).nbytes
    /\ p + BlockOf(p).nbytes <= BlockOf(p).mem + rt[BlockOf(p).mem]

(* The runtime's regions and the program's blocks correspond one to one:   *)
(* nothing is leaked (realloc's old block included), nothing freed early.  *)
NoLeak ==
  /\ DOMAIN rt = {BlockOf(p).mem : p \in DOMAIN live}
  /\ \A p, q \in DOMAIN live : BlockOf(p).mem = BlockOf(q).mem => p = q

(* c/libc.h:30-34, and what any allocator needs: sysdeps->malloc is asked  *)
(* for more than 0 bytes, and sysdeps->free only gets a pointer it gave    *)
(* and that was not freed since, although libC hands out other pointers.   *)
RuntimeContract == ~abuse

(* calloc() gives num * size bytes, all of them 0, or no block at all,     *)
(* also when num * size does not fit in size_t.                            *)
CallocClears ==
  [][\A num \in Nums, size \in Sizes : Calloc(num, size) =>
       \A p \in DOMAIN live' \ DOMAIN live : \A i \in 0 .. (num * size - 1) :
         i < live'[p] /\ mem'[p + i] = Zero]_vars

(* The blocks as the program sees them, for the abstract specification.    *)
Blocks ==
  [p \in DOMAIN live |->
     [size |-> live[p], data |-> [i \in 0 .. (live[p] - 1) |-> mem[p + i]]]]

AbstractHeap ==
  INSTANCE Heap WITH blocks <- Blocks, Sizes <- 1 .. HeapTop

(* malloc.c implements Heap: blocks are disjoint and aligned, every byte a *)
(* program stored survives every operation on any other block, and realloc *)
(* keeps the bytes the two sizes have in common.                           *)
ImplementsHeap == AbstractHeap!Spec
=============================================================================
