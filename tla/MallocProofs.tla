---------------------------- MODULE MallocProofs ----------------------------
(***************************************************************************)
(* Proofs about Malloc.  The invariant is stated of a triple (regions,     *)
(* memory, blocks), so that realloc, which makes a block and then frees    *)
(* one, is handled by the lemmas of its two halves in turn.                *)
(***************************************************************************)
EXTENDS Malloc, TLAPS

(* No request of the program, nor calloc's product, comes near the largest *)
(* size_t: mem_size in malloc() does not wrap.                             *)
RequestFits(size) == size + Align - 1 + Header < Word

AllFit ==
  /\ \A size \in Sizes : RequestFits(size)
  /\ \A num \in Nums, size \in Sizes : RequestFits((num * size) % Word)

(* The block at p is where malloc puts one in a region of r.               *)
BlockOK(r, c, l, p) ==
  /\ p % Align = 0
  /\ p - Header \in Addr
  /\ c[p - Header] \in HeaderCell
  /\ c[p - Header].mem \in DOMAIN r
  /\ c[p - Header].mem <= p - Header
  /\ l[p] <= c[p - Header].nbytes
  /\ p + c[p - Header].nbytes <= c[p - Header].mem + r[c[p - Header].mem]

Apart(r) ==
  \A m, n \in DOMAIN r : m # n => m + r[m] <= n \/ n + r[n] <= m

Shape(r, c, l) ==
  /\ DOMAIN r \subseteq Addr
  /\ r \in [DOMAIN r -> Nat \ {0}]
  /\ c \in [Addr -> Cell]
  /\ DOMAIN l \subseteq Addr
  /\ l \in [DOMAIN l -> Nat]

HeapOK(r, c, l) ==
  /\ Shape(r, c, l)
  /\ \A m \in DOMAIN r : m + r[m] - 1 \in Addr
  /\ Apart(r)
  /\ \A p \in DOMAIN l : BlockOK(r, c, l, p)
  /\ \A m \in DOMAIN r : \E p \in DOMAIN l : m = c[p - Header].mem
  /\ \A p, q \in DOMAIN l : c[p - Header].mem = c[q - Header].mem => p = q

IInv == HeapOK(rt, mem, live) /\ abuse = FALSE /\ fault \in BOOLEAN

-----------------------------------------------------------------------------
(* Facts about the layout.                                                 *)

(* Rounding up to a multiple of Align moves by less than Align.            *)
LEMMA AlignAfterBounds ==
  ASSUME NEW m \in Nat, NEW h \in Nat
  PROVE  /\ AlignAfter(m, h) \in Nat
         /\ m + h <= AlignAfter(m, h)
         /\ AlignAfter(m, h) <= m + h + Align - 1
         /\ AlignAfter(m, h) % Align = 0
<1>1. Align \in Nat /\ Align > 0
  BY MallocAssumption
<1> DEFINE x == m + h + Align - 1
           k == x \div Align
<1>2. x \in Nat /\ k \in Nat /\ x % Align \in 0 .. (Align - 1)
  BY <1>1, Z3
<1>3. x = (Align * k) + (x % Align)
  BY <1>1, <1>2, Z3
<1>4. Align * k \in Nat
  BY <1>1, <1>2, Z3
<1>5. (Align * k) % Align = 0
  BY <1>1, <1>2, Z3
<1>6. AlignAfter(m, h) = Align * k
  BY DEF AlignAfter, PadForAlignment
<1> QED
  BY <1>1, <1>2, <1>3, <1>4, <1>5, <1>6

(* With its padding a request leaves room for the header, and for the      *)
(* payload behind it, wherever in memory the region starts.                *)
LEMMA BlockFits ==
  ASSUME NEW m \in Nat, NEW size \in Nat, RequestFits(size)
  PROVE  /\ MemSize(size) \in Nat /\ MemSize(size) # 0
         /\ MemSize(size) = size + Align - 1 + Header
         /\ m <= AlignAfter(m, Header) - Header
         /\ AlignAfter(m, Header) + size <= m + MemSize(size)
<1>1. Align \in Nat /\ Align > 0 /\ Header \in Nat /\ Header > 0 /\ Word \in Nat
  BY MallocAssumption
<1>2. MemSize(size) = size + Align - 1 + Header
  <2> DEFINE n == size + Align - 1 + Header
  <2>1. n \in Nat /\ n < Word
    BY <1>1 DEF RequestFits
  <2>2. n % Word = n
    BY <1>1, <2>1, Z3
  <2> QED
    BY <2>2 DEF MemSize, PadForAlignment
<1> DEFINE p == AlignAfter(m, Header)
<1>3. p \in Nat /\ m + Header <= p /\ p <= m + Header + Align - 1
  BY <1>1, AlignAfterBounds
<1> HIDE DEF p
<1>4. m <= p - Header /\ p + size <= m + (size + Align - 1 + Header)
  BY <1>1, <1>3
<1>5. size + Align - 1 + Header \in Nat /\ size + Align - 1 + Header # 0
  BY <1>1
<1> QED
  BY <1>2, <1>4, <1>5 DEF p

-----------------------------------------------------------------------------
(* The three ways a heap changes.                                          *)

(* A free region of the runtime, with a header written just below an       *)
(* aligned payload and nothing written outside it, makes one more block.   *)
LEMMA CarveKeepsHeap ==
  ASSUME NEW r, NEW c, NEW l, HeapOK(r, c, l),
         NEW m \in Addr, NEW size \in Nat \ {0}, RequestFits(size),
         m + MemSize(size) - 1 \in Addr,
         \A b \in DOMAIN r : Bytes(m, MemSize(size)) \cap Bytes(b, r[b]) = {},
         NEW c2 \in [Addr -> Cell],
         c2[AlignAfter(m, Header) - Header] = [mem |-> m, nbytes |-> size],
         \A a \in Addr : a \notin Bytes(m, MemSize(size)) => c2[a] = c[a]
  PROVE  /\ m \notin DOMAIN r
         /\ AlignAfter(m, Header) \notin DOMAIN l
         /\ \A q \in DOMAIN l : c2[q - Header] = c[q - Header]
         /\ HeapOK(With(r, m, MemSize(size)), c2, With(l, AlignAfter(m, Header), size))
<1> DEFINE p == AlignAfter(m, Header)
           n == MemSize(size)
           r2 == With(r, m, n)
           l2 == With(l, p, size)
<1>1. /\ Align \in Nat /\ Align > 0 /\ Header \in Nat /\ Header > 0
      /\ HeapTop \in Nat /\ m \in Nat
  BY MallocAssumption DEF Addr
<1>2. /\ p \in Nat /\ p % Align = 0 /\ n \in Nat /\ n > 0
      /\ m <= p - Header /\ p + size <= m + n
  <2>1. p \in Nat /\ p % Align = 0
    BY <1>1, AlignAfterBounds
  <2>2. n = size + Align - 1 + Header /\ m <= p - Header /\ p + size <= m + n
    BY <1>1, BlockFits
  <2>3. n \in Nat /\ n > 0
    BY <1>1, <2>2
  <2> QED
    BY <2>1, <2>2, <2>3
<1>3. /\ DOMAIN r2 = DOMAIN r \cup {m}
      /\ r2[m] = n
      /\ \A b \in DOMAIN r : b # m => r2[b] = r[b]
      /\ DOMAIN l2 = DOMAIN l \cup {p}
      /\ l2[p] = size
      /\ \A q \in DOMAIN l : q # p => l2[q] = l[q]
  BY DEF With
<1>4. \A b \in DOMAIN r :
        /\ b \in Nat /\ b > 0 /\ r[b] \in Nat /\ r[b] > 0
        /\ b + r[b] <= m \/ m + n <= b
        /\ b # m
  <2> TAKE b \in DOMAIN r
  <2>1. b \in Nat /\ b > 0 /\ r[b] \in Nat /\ r[b] > 0
    BY DEF HeapOK, Shape, Addr
  <2>2. b + r[b] <= m \/ m + n <= b
    <3>1. Bytes(m, n) \cap Bytes(b, r[b]) = {}
      OBVIOUS
    <3>2. m \in Bytes(m, n) /\ b \in Bytes(b, r[b])
      BY <1>1, <1>2, <2>1 DEF Bytes
    <3>3. m \notin Bytes(b, r[b]) /\ b \notin Bytes(m, n)
      BY <3>1, <3>2
    <3> QED
      BY <1>1, <1>2, <2>1, <3>3 DEF Bytes
  <2>3. b # m
    BY <1>1, <1>2, <2>1, <2>2
  <2> QED
    BY <2>1, <2>2, <2>3
<1>5. \A q \in DOMAIN l :
        /\ q \in Nat /\ l[q] \in Nat /\ q - Header \in Addr
        /\ q # p
        /\ c2[q - Header] = c[q - Header]
  <2> TAKE q \in DOMAIN l
  <2> DEFINE b == c[q - Header].mem
  <2>1. /\ q \in Nat /\ l[q] \in Nat /\ q - Header \in Addr
        /\ b \in DOMAIN r /\ b <= q - Header
        /\ c[q - Header] \in HeaderCell
        /\ q + c[q - Header].nbytes <= b + r[b]
    BY DEF HeapOK, Shape, BlockOK, Addr
  <2>2. c[q - Header].nbytes \in Nat
    BY <2>1 DEF HeaderCell
  <2>3. q - Header \notin Bytes(m, n) /\ q # p
    BY <1>1, <1>2, <1>4, <2>1, <2>2 DEF Bytes
  <2> QED
    BY <2>1, <2>3
<1>6. p - Header \in Addr /\ p \in Addr
  BY <1>1, <1>2 DEF Addr
<1>7. Shape(r2, c2, l2)
  <2>1. DOMAIN r2 \subseteq Addr /\ DOMAIN l2 \subseteq Addr
    BY <1>3, <1>6 DEF HeapOK, Shape
  <2>2. r2 \in [DOMAIN r2 -> Nat \ {0}]
    BY <1>2, <1>4 DEF With
  <2>3. l2 \in [DOMAIN l2 -> Nat]
    BY <1>5 DEF With
  <2> QED
    BY <2>1, <2>2, <2>3 DEF Shape
<1>8. \A b \in DOMAIN r2 : b + r2[b] - 1 \in Addr
  BY <1>3 DEF HeapOK
<1>9. Apart(r2)
  BY <1>3, <1>4 DEF Apart, HeapOK
<1>10. \A q \in DOMAIN l2 : BlockOK(r2, c2, l2, q)
  <2>1. BlockOK(r2, c2, l2, p)
    BY <1>1, <1>2, <1>3, <1>6 DEF BlockOK, HeaderCell
  <2>2. ASSUME NEW q \in DOMAIN l  PROVE BlockOK(r2, c2, l2, q)
    <3>1. BlockOK(r, c, l, q) /\ q # p /\ c2[q - Header] = c[q - Header]
      BY <1>5 DEF HeapOK
    <3>2. c[q - Header].mem \in DOMAIN r
      BY <3>1 DEF BlockOK
    <3>3. /\ c[q - Header].mem \in DOMAIN r2
          /\ r2[c[q - Header].mem] = r[c[q - Header].mem]
      BY <1>3, <1>4, <3>2
    <3> QED
      BY <1>3, <3>1, <3>3 DEF BlockOK
  <2> QED
    BY <1>3, <2>1, <2>2
<1>11. \A b \in DOMAIN r2 : \E q \in DOMAIN l2 : b = c2[q - Header].mem
  <2>1. m = c2[p - Header].mem
    OBVIOUS
  <2>2. ASSUME NEW b \in DOMAIN r
        PROVE  \E q \in DOMAIN l2 : b = c2[q - Header].mem
    <3>1. PICK q \in DOMAIN l : b = c[q - Header].mem
      BY DEF HeapOK
    <3> QED
      BY <1>3, <1>5, <3>1
  <2> QED
    BY <1>3, <2>1, <2>2
<1>12. \A q, q2 \in DOMAIN l2 : c2[q - Header].mem = c2[q2 - Header].mem => q = q2
  <2>1. \A q \in DOMAIN l : c2[q - Header].mem = c[q - Header].mem
    BY <1>5
  <2>2. \A q \in DOMAIN l : c[q - Header].mem # m
    BY <1>4 DEF HeapOK, BlockOK
  <2>3. c2[p - Header].mem = m
    OBVIOUS
  <2> QED
    BY <1>3, <2>1, <2>2, <2>3 DEF HeapOK
<1>13. HeapOK(r2, c2, l2)
  BY <1>7, <1>8, <1>9, <1>10, <1>11, <1>12 DEF HeapOK
<1> QED
  BY <1>4, <1>5, <1>13

(* Every byte a block may use, its header included, is in its region.      *)
LEMMA BlockInside ==
  ASSUME NEW r, NEW c, NEW l, HeapOK(r, c, l), NEW p \in DOMAIN l
  PROVE  LET b == c[p - Header].mem
             k == c[p - Header].nbytes IN
         /\ p \in Nat /\ l[p] \in Nat /\ k \in Nat /\ l[p] <= k
         /\ p - Header \in Addr
         /\ b \in DOMAIN r /\ b \in Nat /\ b > 0 /\ r[b] \in Nat /\ b + r[b] - 1 \in Addr
         /\ b <= p - Header /\ p + k <= b + r[b]
<1>1. BlockOK(r, c, l, p) /\ Shape(r, c, l) /\ (\A m \in DOMAIN r : m + r[m] - 1 \in Addr)
  BY DEF HeapOK
<1>2. c[p - Header].nbytes \in Nat
  BY <1>1 DEF BlockOK, HeaderCell
<1> QED
  BY <1>1, <1>2, MallocAssumption, SMTT(60) DEF BlockOK, Shape, Addr

(* Two blocks are in two regions, so neither's bytes are the other's       *)
(* header.                                                                 *)
LEMMA HeaderOutside ==
  ASSUME NEW r, NEW c, NEW l, HeapOK(r, c, l), NEW p \in DOMAIN l, NEW q \in DOMAIN l
  PROVE  /\ q # p => q - Header \notin Bytes(c[p - Header].mem, r[c[p - Header].mem])
         /\ q - Header \notin Bytes(p, c[p - Header].nbytes)
<1> DEFINE b == c[p - Header].mem
           d == c[q - Header].mem
<1>1. Header \in Nat /\ Header > 0
  BY MallocAssumption
<1>2. /\ p \in Nat /\ c[p - Header].nbytes \in Nat
      /\ b \in DOMAIN r /\ b \in Nat /\ r[b] \in Nat
      /\ b <= p - Header /\ p + c[p - Header].nbytes <= b + r[b]
  BY BlockInside
<1>3. /\ q \in Nat /\ c[q - Header].nbytes \in Nat
      /\ d \in DOMAIN r /\ d \in Nat /\ r[d] \in Nat
      /\ d <= q - Header /\ q + c[q - Header].nbytes <= d + r[d]
  BY BlockInside
<1>4. ASSUME q # p  PROVE  b + r[b] <= d \/ d + r[d] <= b
  BY <1>2, <1>3, <1>4 DEF HeapOK, Apart
<1>5. q # p => q - Header \notin Bytes(b, r[b])
  BY <1>1, <1>2, <1>3, <1>4 DEF Bytes
<1>6. q - Header \notin Bytes(p, c[p - Header].nbytes)
  BY <1>1, <1>2, <1>3, <1>4 DEF Bytes
<1> QED
  BY <1>5, <1>6

(* Giving back the region of one block, whatever the runtime then does     *)
(* with its bytes, leaves the other blocks as they were.                   *)
LEMMA FreeKeepsHeap ==
  ASSUME NEW r, NEW c, NEW l, HeapOK(r, c, l), NEW p \in DOMAIN l,
         NEW b, b = c[p - Header].mem,
         NEW c2 \in [Addr -> Cell],
         \A a \in Addr : a \notin Bytes(b, r[b]) => c2[a] = c[a]
  PROVE  HeapOK(Without(r, b), c2, Without(l, p))
<1> DEFINE r2 == Without(r, b)
           l2 == Without(l, p)
<1>1. /\ DOMAIN r2 = DOMAIN r \ {b} /\ \A m \in DOMAIN r2 : r2[m] = r[m]
      /\ DOMAIN l2 = DOMAIN l \ {p} /\ \A q \in DOMAIN l2 : l2[q] = l[q]
  BY DEF Without
<1>2. \A q \in DOMAIN l2 : c2[q - Header] = c[q - Header]
  <2> TAKE q \in DOMAIN l2
  <2>1. q \in DOMAIN l /\ q # p
    BY <1>1
  <2>2. q - Header \in Addr /\ q - Header \notin Bytes(b, r[b])
    BY <2>1, BlockInside, HeaderOutside
  <2> QED
    BY <2>2
<1>3. \A q \in DOMAIN l2 : c[q - Header].mem \in DOMAIN r2
  BY <1>1, BlockInside DEF HeapOK
<1>4. Shape(r2, c2, l2)
  <2>1. DOMAIN r2 \subseteq Addr /\ DOMAIN l2 \subseteq Addr
    BY <1>1 DEF HeapOK, Shape
  <2>2. r2 \in [DOMAIN r2 -> Nat \ {0}]
    BY <1>1 DEF Without, HeapOK, Shape
  <2>3. l2 \in [DOMAIN l2 -> Nat]
    BY <1>1 DEF Without, HeapOK, Shape
  <2> QED
    BY <2>1, <2>2, <2>3 DEF Shape
<1>5. (\A m \in DOMAIN r2 : m + r2[m] - 1 \in Addr) /\ Apart(r2)
  BY <1>1 DEF HeapOK, Apart
<1>6. \A q \in DOMAIN l2 : BlockOK(r2, c2, l2, q)
  BY <1>1, <1>2, <1>3 DEF HeapOK, BlockOK
<1>7. \A m \in DOMAIN r2 : \E q \in DOMAIN l2 : m = c2[q - Header].mem
  <2> TAKE m \in DOMAIN r2
  <2>1. PICK q \in DOMAIN l : m = c[q - Header].mem
    BY <1>1 DEF HeapOK
  <2>2. q \in DOMAIN l2
    BY <1>1, <2>1
  <2> QED
    BY <1>2, <2>1, <2>2
<1>8. \A q, s \in DOMAIN l2 : c2[q - Header].mem = c2[s - Header].mem => q = s
  BY <1>1, <1>2 DEF HeapOK
<1> QED
  BY <1>4, <1>5, <1>6, <1>7, <1>8 DEF HeapOK

(* Storing in a block, and shrinking or regrowing it within its capacity.  *)
LEMMA StoreKeepsHeap ==
  ASSUME NEW r, NEW c, NEW l, HeapOK(r, c, l), NEW p \in DOMAIN l,
         NEW i \in 0 .. (l[p] - 1), NEW v \in Byte
  PROVE  HeapOK(r, [c EXCEPT ![p + i] = v], l)
<1> DEFINE c2 == [c EXCEPT ![p + i] = v]
<1>1. \A q \in DOMAIN l : c2[q - Header] = c[q - Header]
  <2> TAKE q \in DOMAIN l
  <2>1. q - Header \in Addr /\ q - Header \notin Bytes(p, c[p - Header].nbytes)
    BY BlockInside, HeaderOutside
  <2>2. p + i \in Bytes(p, c[p - Header].nbytes)
    BY BlockInside DEF Bytes
  <2>3. c \in [Addr -> Cell]
    BY DEF HeapOK, Shape
  <2> QED
    BY <2>1, <2>2, <2>3
<1>2. c2 \in [Addr -> Cell]
  BY DEF HeapOK, Shape, Cell
<1>3. \A q \in DOMAIN l : BlockOK(r, c2, l, q)
  BY <1>1 DEF HeapOK, BlockOK
<1>4. Shape(r, c2, l)
  BY <1>2 DEF HeapOK, Shape
<1>5. \A m \in DOMAIN r : \E q \in DOMAIN l : m = c2[q - Header].mem
  BY <1>1 DEF HeapOK
<1>6. \A q, s \in DOMAIN l : c2[q - Header].mem = c2[s - Header].mem => q = s
  BY <1>1 DEF HeapOK
<1> HIDE DEF c2
<1>7. HeapOK(r, c2, l)
  BY <1>3, <1>4, <1>5, <1>6 DEF HeapOK
<1> QED
  BY <1>7 DEF c2

(* realloc() that stays in place writes the new size in the header of the *)
(* block and nothing else.                                                 *)
LEMMA StayKeepsHeap ==
  ASSUME NEW r, NEW c, NEW l, HeapOK(r, c, l), NEW p \in DOMAIN l,
         NEW size \in Nat, size <= c[p - Header].nbytes
  PROVE  HeapOK(r, c, [l EXCEPT ![p] = size])
<1> DEFINE l2 == [l EXCEPT ![p] = size]
<1>1. DOMAIN l2 = DOMAIN l /\ l2[p] = size /\ \A q \in DOMAIN l : q # p => l2[q] = l[q]
  OBVIOUS
<1>2. l2 \in [DOMAIN l2 -> Nat]
  BY DEF HeapOK, Shape
<1> HIDE DEF l2
<1>3. Shape(r, c, l2)
  BY <1>1, <1>2 DEF HeapOK, Shape
<1>4. \A q \in DOMAIN l2 : BlockOK(r, c, l2, q)
  BY <1>1 DEF HeapOK, BlockOK
<1>5. HeapOK(r, c, l2)
  BY <1>1, <1>3, <1>4 DEF HeapOK
<1> QED
  BY <1>5 DEF l2

-----------------------------------------------------------------------------
(* The operations.                                                         *)

(* Before the first call there is no region and no block.                  *)
LEMMA Initially == Init => IInv
<1> SUFFICES ASSUME Init PROVE IInv
  OBVIOUS
<1>1. DOMAIN rt = {} /\ DOMAIN live = {} /\ rt = [x \in {} |-> x] /\ live = [x \in {} |-> x]
  BY DEF Init
<1>2. mem \in [Addr -> Cell]
  BY MallocAssumption DEF Init, Cell
<1>3. Shape(rt, mem, live)
  BY <1>1, <1>2 DEF Shape
<1> QED
  BY <1>1, <1>3 DEF IInv, HeapOK, Apart, Init

(* malloc() writes the header in the region it was given, and nothing else.*)
LEMMA CarvedInside ==
  ASSUME NEW c \in [Addr -> Cell], NEW m \in Addr, NEW size \in Nat, RequestFits(size),
         m + MemSize(size) - 1 \in Addr
  PROVE  LET p == AlignAfter(m, Header)
             c2 == Carved(m, size, c) IN
         /\ c2 \in [Addr -> Cell]
         /\ c2[p - Header] = [mem |-> m, nbytes |-> size]
         /\ \A a \in Addr : a \notin Bytes(p - Header, Header) => c2[a] = c[a]
         /\ \A a \in Addr : a \notin Bytes(m, MemSize(size)) => c2[a] = c[a]
<1> DEFINE p == AlignAfter(m, Header)
           c2 == Carved(m, size, c)
<1>1. Header \in Nat /\ Header > 0 /\ m \in Nat /\ m > 0 /\ HeapTop \in Nat
  BY MallocAssumption DEF Addr
<1>2. p \in Nat /\ m <= p - Header /\ p + size <= m + MemSize(size) /\ MemSize(size) \in Nat
  BY <1>1, AlignAfterBounds, BlockFits
<1>3. [mem |-> m, nbytes |-> size] \in Cell
  BY DEF Cell, HeaderCell
<1>4. c2 = [a \in Addr |-> IF a \in Bytes(p - Header, Header)
                            THEN [mem |-> m, nbytes |-> size] ELSE c[a]]
  BY DEF Carved
<1> HIDE DEF p, c2
<1>5. p - Header \in Addr /\ p - Header \in Bytes(p - Header, Header)
  BY <1>1, <1>2 DEF Addr, Bytes
<1>6. \A a \in Addr : a \notin Bytes(m, MemSize(size)) => a \notin Bytes(p - Header, Header)
  BY <1>1, <1>2 DEF Addr, Bytes
<1>7. c2 \in [Addr -> Cell]
  BY <1>3, <1>4
<1>8. c2[p - Header] = [mem |-> m, nbytes |-> size]
  BY <1>4, <1>5
<1>9. \A a \in Addr : a \notin Bytes(p - Header, Header) => c2[a] = c[a]
  BY <1>4
<1> QED
  BY <1>6, <1>7, <1>8, <1>9 DEF p, c2

(* malloc(), with or without memory left, keeps the invariant.             *)
LEMMA MallocKeepsInv ==
  ASSUME IInv, NEW size \in Nat, RequestFits(size), Malloc(size)
  PROVE  IInv'
<1>1. CASE UNCHANGED vars
  BY <1>1 DEF IInv, vars
<1>2. CASE /\ size > 0
           /\ RuntimeCalled({MemSize(size)}, {})
           /\ UNCHANGED <<rt, mem, live, fault>>
  <2>1. MemSize(size) # 0
    BY BlockFits
  <2>2. abuse' = FALSE
    BY <1>2, <2>1 DEF IInv, RuntimeCalled
  <2> QED
    BY <1>2, <2>2 DEF IInv
<1>3. ASSUME size > 0, RuntimeCalled({MemSize(size)}, {}), UNCHANGED fault,
             NEW m \in Addr, RuntimeMayReturn(m, MemSize(size)),
             rt' = With(rt, m, MemSize(size)),
             mem' = Carved(m, size, mem),
             live' = With(live, AlignAfter(m, Header), size)
      PROVE  IInv'
  <2>1. MemSize(size) # 0
    BY BlockFits
  <2>2. abuse' = FALSE
    BY <1>3, <2>1 DEF IInv, RuntimeCalled
  <2>3. /\ mem \in [Addr -> Cell]
        /\ m + MemSize(size) - 1 \in Addr
        /\ \A b \in DOMAIN rt : Bytes(m, MemSize(size)) \cap Bytes(b, rt[b]) = {}
    BY <1>3 DEF IInv, HeapOK, Shape, RuntimeMayReturn
  <2>4. /\ mem' \in [Addr -> Cell]
        /\ mem'[AlignAfter(m, Header) - Header] = [mem |-> m, nbytes |-> size]
        /\ \A a \in Addr : a \notin Bytes(m, MemSize(size)) => mem'[a] = mem[a]
    BY <1>3, <2>3, CarvedInside
  <2>5. size \in Nat \ {0}
    BY <1>3
  <2>6. HeapOK(With(rt, m, MemSize(size)), mem', With(live, AlignAfter(m, Header), size))
    BY <2>3, <2>4, <2>5, CarveKeepsHeap DEF IInv
  <2> QED
    BY <1>3, <2>2, <2>6 DEF IInv
<1> QED
  BY <1>1, <1>2, <1>3 DEF Malloc

(* free() gives back the region of the block and takes the block away.     *)
LEMMA ReleaseKeepsInv ==
  ASSUME IInv, NEW p \in DOMAIN live, NEW asked, 0 \notin asked, Release(p, asked)
  PROVE  IInv'
<1> DEFINE b == BlockOf(p).mem
<1>1. b = mem[p - Header].mem /\ b \in DOMAIN rt
  BY BlockInside DEF IInv, BlockOf
<1>2. abuse' = FALSE
  BY <1>1 DEF Release, RuntimeCalled, IInv
<1>3. /\ mem' \in [Addr -> Cell]
      /\ \A a \in Addr : a \notin Bytes(b, rt[b]) => mem'[a] = mem[a]
  <2>1. mem \in [Addr -> Cell] /\ Junk \in Cell
    BY MallocAssumption DEF IInv, HeapOK, Shape, Cell
  <2> QED
    BY <2>1 DEF Release, Scribbled
<1>4. rt' = Without(rt, b) /\ live' = Without(live, p)
  BY DEF Release
<1> HIDE DEF b
<1>5. HeapOK(Without(rt, b), mem', Without(live, p))
  BY <1>1, <1>3, FreeKeepsHeap DEF IInv
<1> QED
  BY <1>2, <1>4, <1>5 DEF IInv, Release

(* calloc() is malloc() followed by a memset() of the payload only.        *)
LEMMA CallocKeepsInv ==
  ASSUME IInv, NEW num \in Nat, NEW size \in Nat,
         RequestFits((num * size) % Word), Calloc(num, size)
  PROVE  IInv'
<1> DEFINE len == (num * size) % Word
<1>1. CASE UNCHANGED vars
  BY <1>1 DEF IInv, vars
<1>2. ASSUME len > 0, RuntimeCalled({MemSize(len)}, {}),
             fault' = TRUE, UNCHANGED <<rt, mem, live>>
      PROVE  IInv'
  <2>1. len \in Nat
    BY MallocAssumption, Z3
  <2>2. MemSize(len) # 0
    BY <2>1, BlockFits
  <2> QED
    BY <1>2, <2>2 DEF IInv, RuntimeCalled
<1>3. ASSUME len > 0, RuntimeCalled({MemSize(len)}, {}), UNCHANGED fault,
             NEW m \in Addr, RuntimeMayReturn(m, MemSize(len)),
             rt' = With(rt, m, MemSize(len)),
             mem' = Cleared(AlignAfter(m, Header), len, Carved(m, len, mem)),
             live' = With(live, AlignAfter(m, Header), len)
      PROVE  IInv'
  <2> DEFINE p == AlignAfter(m, Header)
             c1 == Carved(m, len, mem)
  <2>1. len \in Nat /\ num * size \in Nat
    BY MallocAssumption, Z3
  <2> HIDE DEF len
  <2>2. MemSize(len) # 0 /\ p + len <= m + MemSize(len) /\ m <= p - Header
    BY <2>1, BlockFits DEF len, Addr
  <2>3. abuse' = FALSE
    BY <1>3, <2>2 DEF IInv, RuntimeCalled
  <2>4. mem \in [Addr -> Cell] /\ m + MemSize(len) - 1 \in Addr
    BY <1>3 DEF IInv, HeapOK, Shape, RuntimeMayReturn
  <2>5. /\ c1 \in [Addr -> Cell]
        /\ c1[p - Header] = [mem |-> m, nbytes |-> len]
        /\ \A a \in Addr : a \notin Bytes(m, MemSize(len)) => c1[a] = mem[a]
    BY <2>1, <2>4, CarvedInside DEF len
  <2>6. mem' = [a \in Addr |-> IF a \in Bytes(p, len) THEN Zero ELSE c1[a]]
    BY <1>3 DEF Cleared
  <2>7. mem' \in [Addr -> Cell]
    BY <2>5, <2>6, MallocAssumption DEF Cell
  <2>8. RequestFits(len) /\ len \in Nat \ {0}
    BY <1>3, <2>1 DEF len
  <2>9. m \in Nat /\ m > 0 /\ HeapTop \in Nat /\ Header \in Nat /\ Header > 0
    BY MallocAssumption DEF Addr
  <2>10. p \in Nat /\ MemSize(len) \in Nat
    BY <2>8, <2>9, AlignAfterBounds, BlockFits
  <2> HIDE DEF p, c1
  <2>11. p - Header \in Addr /\ p - Header \notin Bytes(p, len)
    BY <2>1, <2>2, <2>4, <2>10, <2>9 DEF Addr, Bytes
  <2>12. \A a \in Addr : a \notin Bytes(m, MemSize(len)) => a \notin Bytes(p, len)
    BY <2>1, <2>2, <2>10, <2>9 DEF Addr, Bytes
  <2>13. mem'[p - Header] = [mem |-> m, nbytes |-> len]
    BY <2>5, <2>6, <2>11
  <2>14. \A a \in Addr : a \notin Bytes(m, MemSize(len)) => mem'[a] = mem[a]
    BY <2>5, <2>6, <2>12
  <2>15. live' = With(live, p, len) /\ rt' = With(rt, m, MemSize(len))
    BY <1>3 DEF p, len
  <2>16. \A b \in DOMAIN rt : Bytes(m, MemSize(len)) \cap Bytes(b, rt[b]) = {}
    BY <1>3 DEF RuntimeMayReturn, len
  <2>17. HeapOK(rt', mem', live')
    BY <2>4, <2>7, <2>13, <2>14, <2>8, <2>15, <2>16, CarveKeepsHeap DEF IInv, p
  <2> QED
    BY <1>3, <2>3, <2>17 DEF IInv
<1>4. len \in Nat
  BY MallocAssumption, Z3
<1>5. \/ UNCHANGED vars
      \/ /\ len # 0
         /\ RuntimeCalled({MemSize(len)}, {})
         /\ \/ fault' = TRUE /\ UNCHANGED <<rt, mem, live>>
            \/ /\ UNCHANGED fault
               /\ \E m \in Addr :
                    /\ RuntimeMayReturn(m, MemSize(len))
                    /\ rt' = With(rt, m, MemSize(len))
                    /\ mem' = Cleared(AlignAfter(m, Header), len, Carved(m, len, mem))
                    /\ live' = With(live, AlignAfter(m, Header), len)
  BY DEF Calloc
<1> HIDE DEF len
<1>6. len # 0 => len > 0
  BY <1>4
<1> QED
  BY <1>1, <1>2, <1>3, <1>5, <1>6

(* realloc() to a larger size is malloc() followed by free(): what memcpy  *)
(* writes lies in the new block because the old capacity is smaller.       *)
LEMMA GrowKeepsInv ==
  ASSUME IInv, NEW p \in DOMAIN live, NEW size \in Nat, RequestFits(size),
         size > BlockOf(p).nbytes, Grow(p, size)
  PROVE  IInv'
<1> DEFINE old == mem[p - Header]
           n == MemSize(size)
<1>1. /\ p \in Nat /\ old.nbytes \in Nat /\ old.mem \in DOMAIN rt
      /\ p - Header \in Addr /\ old.mem <= p - Header
      /\ old.mem \in Nat /\ old.mem > 0 /\ rt[old.mem] \in Nat
      /\ p + old.nbytes <= old.mem + rt[old.mem]
      /\ old.mem + rt[old.mem] - 1 \in Addr
  BY BlockInside DEF IInv
<1>2. BlockOf(p) = old
  BY DEF BlockOf
<1>3. Header \in Nat /\ Header > 0 /\ HeapTop \in Nat
  BY MallocAssumption
<1>4. size \in Nat \ {0} /\ size > old.nbytes
  BY <1>1, <1>2
<1>5. n \in Nat /\ n # 0
  BY BlockFits
<1>6. PICK m \in Addr :
        LET q == AlignAfter(m, Header)
            c == Copied(p, q, old.nbytes, Carved(m, size, mem)) IN
        /\ RuntimeMayReturn(m, n)
        /\ RuntimeCalled({n}, {old.mem})
        /\ mem' = Scribbled(old.mem, c)
        /\ rt' = Without(With(rt, m, n), old.mem)
        /\ live' = With(Without(live, p), q, size)
        /\ UNCHANGED fault
  BY <1>2 DEF Grow
<1> DEFINE q == AlignAfter(m, Header)
           c1 == Carved(m, size, mem)
           c2 == Copied(p, q, old.nbytes, c1)
           r2 == With(rt, m, n)
           l2 == With(live, q, size)
<1>7. abuse' = FALSE
  BY <1>1, <1>5, <1>6 DEF IInv, RuntimeCalled
<1>8. /\ mem \in [Addr -> Cell]
      /\ m + n - 1 \in Addr
      /\ \A b \in DOMAIN rt : Bytes(m, n) \cap Bytes(b, rt[b]) = {}
  BY <1>6 DEF IInv, HeapOK, Shape, RuntimeMayReturn
<1>9. /\ c1 \in [Addr -> Cell]
      /\ c1[q - Header] = [mem |-> m, nbytes |-> size]
      /\ \A a \in Addr : a \notin Bytes(m, n) => c1[a] = mem[a]
  BY <1>8, CarvedInside
<1>10. m \in Nat /\ q \in Nat /\ m <= q - Header /\ q + size <= m + n
  <2>1. m \in Nat
    BY DEF Addr
  <2> QED
    BY <1>3, <2>1, AlignAfterBounds, BlockFits
<1>11. c2 = [a \in Addr |-> IF a \in Bytes(q, old.nbytes) THEN c1[p + (a - q)] ELSE c1[a]]
  BY DEF Copied
<1> HIDE DEF old, n, q, c1, c2
<1>12. \A a \in Bytes(q, old.nbytes) : p + (a - q) \in Addr
  BY <1>1, <1>3, <1>4, <1>10 DEF Bytes, Addr
<1>13. c2 \in [Addr -> Cell]
  BY <1>9, <1>11, <1>12
<1>14. /\ q - Header \in Addr /\ q - Header \notin Bytes(q, old.nbytes)
       /\ \A a \in Addr : a \notin Bytes(m, n) => a \notin Bytes(q, old.nbytes)
  BY <1>1, <1>3, <1>4, <1>5, <1>8, <1>10 DEF Bytes, Addr
<1>15. /\ c2[q - Header] = [mem |-> m, nbytes |-> size]
       /\ \A a \in Addr : a \notin Bytes(m, n) => c2[a] = mem[a]
  BY <1>9, <1>11, <1>14
<1>16. /\ m \notin DOMAIN rt /\ q \notin DOMAIN live
       /\ \A x \in DOMAIN live : c2[x - Header] = mem[x - Header]
       /\ HeapOK(r2, c2, l2)
  BY <1>4, <1>8, <1>13, <1>15, CarveKeepsHeap DEF IInv, n, q
<1>17. p \in DOMAIN l2 /\ old.mem = c2[p - Header].mem /\ r2[old.mem] = rt[old.mem]
  BY <1>1, <1>16 DEF With, old
<1>18. /\ mem' \in [Addr -> Cell]
       /\ \A a \in Addr : a \notin Bytes(old.mem, r2[old.mem]) => mem'[a] = c2[a]
  <2>1. mem' = Scribbled(old.mem, c2) /\ Junk \in Cell
    BY <1>6, MallocAssumption DEF Cell, c1, c2, q, old
  <2> QED
    BY <1>13, <1>17, <2>1 DEF Scribbled
<1>19. HeapOK(Without(r2, old.mem), mem', Without(l2, p))
  BY <1>16, <1>17, <1>18, FreeKeepsHeap
<1>20. rt' = Without(r2, old.mem)
  BY <1>6 DEF n, q, old
<1>21. live' = Without(l2, p)
  <2>1. live' = With(Without(live, p), q, size)
    BY <1>6 DEF q
  <2>2. q # p
    BY <1>16
  <2> QED
    BY <2>1, <2>2 DEF With, Without
<1> QED
  BY <1>6, <1>7, <1>19, <1>20, <1>21 DEF IInv

(* Every step of the program and of libC.                                  *)
LEMMA StepKeepsInv ==
  ASSUME AllFit, IInv, [Next]_vars
  PROVE  IInv'
<1>1. CASE UNCHANGED vars
  BY <1>1 DEF IInv, vars
<1>2. ASSUME NEW size \in Sizes, Malloc(size)  PROVE IInv'
  BY <1>2, MallocKeepsInv, MallocAssumption DEF AllFit
<1>3. ASSUME NEW num \in Nums, NEW size \in Sizes, Calloc(num, size)  PROVE IInv'
  BY <1>3, CallocKeepsInv, MallocAssumption DEF AllFit
<1>4. ASSUME NEW p \in DOMAIN live \cup {NULL}, Free(p)  PROVE IInv'
  <2>1. CASE p = NULL
    BY <1>4, <2>1, <1>1 DEF Free
  <2>2. CASE p # NULL
    BY <1>4, <2>2, ReleaseKeepsInv DEF Free
  <2> QED
    BY <2>1, <2>2
<1>5. ASSUME NEW p \in DOMAIN live \cup {NULL}, NEW size \in Sizes, Realloc(p, size)
      PROVE IInv'
  <2>1. CASE p = NULL
    BY <1>2, <1>5, <2>1 DEF Realloc
  <2>2. ASSUME p # NULL, Release(p, {})  PROVE IInv'
    BY <2>2, ReleaseKeepsInv
  <2>3. size \in Nat /\ RequestFits(size) /\ MemSize(size) # 0
    BY MallocAssumption, BlockFits DEF AllFit
  <2>4. ASSUME p # NULL, Release(p, {MemSize(size)})  PROVE IInv'
    BY <2>3, <2>4, ReleaseKeepsInv
  <2>5. ASSUME p # NULL, size \in 1 .. BlockOf(p).nbytes, Stay(p, size)  PROVE IInv'
    <3>1. HeapOK(rt, mem, [live EXCEPT ![p] = size])
      BY <2>3, <2>5, StayKeepsHeap, BlockInside DEF IInv, BlockOf
    <3> QED
      BY <2>5, <3>1 DEF IInv, Stay
  <2>6. ASSUME p # NULL, size # 0, size \notin 1 .. BlockOf(p).nbytes, Grow(p, size)  PROVE IInv'
    <3>1. size > BlockOf(p).nbytes
      BY <2>3, <2>6, BlockInside DEF IInv, BlockOf
    <3> QED
      BY <2>3, <2>6, <3>1, GrowKeepsInv
  <2> QED
    BY <1>5, <2>1, <2>2, <2>4, <2>5, <2>6 DEF Realloc
<1>6. ASSUME NEW p \in DOMAIN live, NEW b \in Byte, NEW i \in 0 .. (live[p] - 1), Store(p, i, b)
      PROVE IInv'
  <2>1. HeapOK(rt, [mem EXCEPT ![p + i] = b], live)
    BY StoreKeepsHeap DEF IInv
  <2> QED
    BY <1>6, <2>1 DEF IInv, Store
<1> QED
  BY <1>1, <1>2, <1>3, <1>4, <1>5, <1>6 DEF Next

-----------------------------------------------------------------------------
(* The theorems.                                                           *)

(* The invariant holds of every program whose requests fit in size_t.      *)
THEOREM HeapInvariant == AllFit => (Spec => []IInv)
<1> SUFFICES ASSUME AllFit PROVE Spec => []IInv
  OBVIOUS
<1> QED
  BY Initially, StepKeepsInv, PTL DEF Spec

(* The types of the state hold, whatever the runtime returns.              *)
THEOREM TypeCorrect == AllFit => (Spec => []TypeOK)
<1>1. IInv => TypeOK
  BY DEF IInv, HeapOK, Shape, TypeOK
<1> QED
  BY <1>1, HeapInvariant, PTL

(* malloc, calloc and realloc return aligned blocks (malloc.h:26-31),      *)
(* however the runtime's own blocks are aligned.                           *)
THEOREM BlocksAligned == AllFit => (Spec => []Aligned)
<1>1. IInv => Aligned
  BY DEF IInv, HeapOK, BlockOK, Aligned
<1> QED
  BY <1>1, HeapInvariant, PTL

(* No operation, and no store of the program, reaches a malloc_block       *)
(* header or leaves the region the runtime gave for the block.             *)
THEOREM HeadersIntact == AllFit => (Spec => []BlockInRegion)
<1>1. IInv => BlockInRegion
  BY DEF IInv, HeapOK, BlockOK, BlockInRegion, BlockOf
<1> QED
  BY <1>1, HeapInvariant, PTL

(* The runtime's regions are exactly those of the program's live blocks.   *)
THEOREM NothingLeaks == AllFit => (Spec => []NoLeak)
<1>1. IInv => NoLeak
  <2> SUFFICES ASSUME IInv PROVE NoLeak
    OBVIOUS
  <2>1. \A p \in DOMAIN live : BlockOf(p) = mem[p - Header] /\ BlockOf(p).mem \in DOMAIN rt
    BY DEF IInv, HeapOK, BlockOK, BlockOf
  <2>2. DOMAIN rt = {BlockOf(p).mem : p \in DOMAIN live}
    <3>1. ASSUME NEW m \in DOMAIN rt  PROVE \E p \in DOMAIN live : m = BlockOf(p).mem
      BY <2>1 DEF IInv, HeapOK
    <3> QED
      BY <2>1, <3>1
  <2> QED
    BY <2>1, <2>2 DEF IInv, HeapOK, NoLeak
<1> QED
  BY <1>1, HeapInvariant, PTL

(* The runtime is never asked for 0 bytes nor to free what it never gave   *)
(* (c/libc.h:30-34).                                                       *)
THEOREM RuntimeRespected == AllFit => (Spec => []RuntimeContract)
<1>1. IInv => RuntimeContract
  BY DEF IInv, RuntimeContract
<1> QED
  BY <1>1, HeapInvariant, PTL

-----------------------------------------------------------------------------
(* Malloc implements Heap, and calloc gives zeros.  The invariant says     *)
(* where every header and every region lies; from here on that is turned   *)
(* into what the program sees, its blocks and their bytes.                 *)

-----------------------------------------------------------------------------
(* Where payloads lie.                                                     *)

(* The bytes of a block are addresses of its region, so they belong to no  *)
(* other region.                                                           *)
LEMMA PayloadInside ==
  ASSUME NEW r, NEW c, NEW l, HeapOK(r, c, l), NEW p \in DOMAIN l
  PROVE  /\ p \in Addr /\ p \in Nat /\ l[p] \in Nat /\ l[p] <= HeapTop
         /\ p % Align = 0
         /\ Bytes(p, l[p]) \subseteq Addr
         /\ \A i \in 0 .. (l[p] - 1) : p + i \in Addr
         /\ Bytes(p, l[p]) \subseteq Bytes(c[p - Header].mem, r[c[p - Header].mem])
<1> DEFINE b == c[p - Header].mem
           k == c[p - Header].nbytes
<1>1. Header \in Nat /\ Header > 0 /\ HeapTop \in Nat
  BY MallocAssumption
<1>2. /\ p \in Nat /\ l[p] \in Nat /\ k \in Nat /\ l[p] <= k
      /\ b \in Nat /\ b > 0 /\ r[b] \in Nat /\ b + r[b] - 1 \in Addr
      /\ b <= p - Header /\ p + k <= b + r[b]
  BY BlockInside
<1>3. p \in Addr /\ p % Align = 0
  BY DEF HeapOK, Shape, BlockOK
<1> HIDE DEF b, k
<1>4. b + r[b] - 1 <= HeapTop
  BY <1>2 DEF Addr
<1>5. l[p] <= HeapTop
  BY <1>1, <1>2, <1>4
<1>6. \A i \in 0 .. (l[p] - 1) : p + i \in Addr
  BY <1>1, <1>2, <1>4 DEF Addr
<1>7. Bytes(p, l[p]) \subseteq Bytes(b, r[b])
  BY <1>1, <1>2 DEF Bytes
<1>8. Bytes(p, l[p]) \subseteq Addr
  BY <1>1, <1>2, <1>4 DEF Addr, Bytes
<1> QED
  BY <1>2, <1>3, <1>5, <1>6, <1>7, <1>8 DEF b

(* Two blocks share no byte, nor does one reach into the other's region.   *)
LEMMA PayloadsApart ==
  ASSUME NEW r, NEW c, NEW l, HeapOK(r, c, l),
         NEW p \in DOMAIN l, NEW q \in DOMAIN l, p # q
  PROVE  /\ Bytes(q, l[q]) \cap Bytes(c[p - Header].mem, r[c[p - Header].mem]) = {}
         /\ Bytes(p, l[p]) \cap Bytes(q, l[q]) = {}
<1> DEFINE b == c[p - Header].mem
           d == c[q - Header].mem
<1>1. /\ b \in DOMAIN r /\ d \in DOMAIN r /\ b # d
      /\ b \in Nat /\ r[b] \in Nat /\ d \in Nat /\ r[d] \in Nat
  BY BlockInside DEF HeapOK
<1>2. b + r[b] <= d \/ d + r[d] <= b
  BY <1>1 DEF HeapOK, Apart
<1>3. Bytes(b, r[b]) \cap Bytes(d, r[d]) = {}
  BY <1>1, <1>2 DEF Bytes
<1>4. Bytes(p, l[p]) \subseteq Bytes(b, r[b]) /\ Bytes(q, l[q]) \subseteq Bytes(d, r[d])
  BY PayloadInside
<1> HIDE DEF b, d
<1>5. Bytes(q, l[q]) \cap Bytes(b, r[b]) = {} /\ Bytes(p, l[p]) \cap Bytes(q, l[q]) = {}
  BY <1>3, <1>4
<1> QED
  BY <1>5 DEF b

(* A block of which no byte changed looks the same.                        *)
LEMMA SameBlock ==
  ASSUME IInv, NEW p \in DOMAIN live, p \in DOMAIN live', live'[p] = live[p],
         \A a \in Bytes(p, live[p]) : mem'[a] = mem[a]
  PROVE  Blocks'[p] = Blocks[p]
<1>1. p \in Nat /\ live[p] \in Nat
  BY PayloadInside DEF IInv
<1>2. \A i \in 0 .. (live[p] - 1) : mem'[p + i] = mem[p + i]
  BY <1>1 DEF Bytes
<1>3. [i \in 0 .. (live[p] - 1) |-> mem'[p + i]] = [i \in 0 .. (live[p] - 1) |-> mem[p + i]]
  BY <1>2, Zenon
<1> QED
  BY <1>3 DEF Blocks

-----------------------------------------------------------------------------
(* The operations as steps of Heap.                                        *)

(* A region the runtime returned has room for a block beside the others:   *)
(* the common part of malloc, calloc and realloc.                          *)
LEMMA NewPayload ==
  ASSUME NEW r, NEW c, NEW l, HeapOK(r, c, l),
         NEW m \in Addr, NEW size \in Nat \ {0}, RequestFits(size),
         m + MemSize(size) - 1 \in Addr,
         \A b \in DOMAIN r : Bytes(m, MemSize(size)) \cap Bytes(b, r[b]) = {}
  PROVE  LET p == AlignAfter(m, Header) IN
         /\ p \in Addr /\ p \in Nat /\ size \in 1 .. HeapTop /\ p % Align = 0
         /\ Bytes(p, size) \subseteq Bytes(m, MemSize(size))
         /\ \A i \in 0 .. (size - 1) : p + i \in Addr
         /\ p \notin DOMAIN l
         /\ \A q \in DOMAIN l : Bytes(m, MemSize(size)) \cap Bytes(q, l[q]) = {}
<1> DEFINE p == AlignAfter(m, Header)
           n == MemSize(size)
<1>1. Header \in Nat /\ Header > 0 /\ HeapTop \in Nat /\ m \in Nat /\ m > 0
  BY MallocAssumption DEF Addr
<1>2. /\ p \in Nat /\ p % Align = 0 /\ n \in Nat
      /\ m <= p - Header /\ p + size <= m + n
  BY <1>1, AlignAfterBounds, BlockFits
<1>3. m + n - 1 <= HeapTop
  BY <1>1, <1>2 DEF Addr
<1>4. \A q \in DOMAIN l : Bytes(m, n) \cap Bytes(q, l[q]) = {}
  <2> TAKE q \in DOMAIN l
  <2>1. /\ Bytes(q, l[q]) \subseteq Bytes(c[q - Header].mem, r[c[q - Header].mem])
        /\ c[q - Header].mem \in DOMAIN r
    BY PayloadInside, BlockInside
  <2> QED
    BY <2>1
<1>5. p \notin DOMAIN l
  <2> SUFFICES ASSUME p \in DOMAIN l PROVE FALSE
    OBVIOUS
  <2> DEFINE b == c[p - Header].mem
  <2>1. /\ b \in DOMAIN r /\ b \in Nat /\ r[b] \in Nat
        /\ b <= p - Header /\ p - Header < b + r[b]
    <3>1. /\ b \in DOMAIN r /\ b \in Nat /\ r[b] \in Nat /\ c[p - Header].nbytes \in Nat
          /\ b <= p - Header /\ p + c[p - Header].nbytes <= b + r[b]
      BY BlockInside
    <3> QED
      BY <1>1, <1>2, <3>1
  <2> HIDE DEF b
  <2>2. p - Header \in Bytes(m, n) /\ p - Header \in Bytes(b, r[b])
    BY <1>1, <1>2, <2>1 DEF Bytes
  <2> QED
    BY <2>1, <2>2
<1> HIDE DEF p, n
<1>6. p \in Addr /\ size \in 1 .. HeapTop
  BY <1>1, <1>2, <1>3 DEF Addr
<1>7. Bytes(p, size) \subseteq Bytes(m, n)
  BY <1>1, <1>2 DEF Bytes
<1>8. \A i \in 0 .. (size - 1) : p + i \in Addr
  BY <1>1, <1>2, <1>3 DEF Addr
<1> QED
  BY <1>2, <1>4, <1>5, <1>6, <1>7, <1>8 DEF p, n

(* Writing the header changes nothing outside the new region.              *)
LEMMA CarvedMemory ==
  ASSUME IInv, NEW m \in Addr, NEW size \in Nat, RequestFits(size),
         RuntimeMayReturn(m, MemSize(size))
  PROVE  /\ Carved(m, size, mem) \in [Addr -> Cell]
         /\ \A a \in Addr : a \notin Bytes(m, MemSize(size)) => Carved(m, size, mem)[a] = mem[a]
<1> DEFINE p == AlignAfter(m, Header)
<1>1. mem \in [Addr -> Cell] /\ m + MemSize(size) - 1 \in Addr
  BY DEF IInv, HeapOK, Shape, RuntimeMayReturn
<1>2. /\ Carved(m, size, mem) \in [Addr -> Cell]
      /\ Carved(m, size, mem)[p - Header] = [mem |-> m, nbytes |-> size]
      /\ \A a \in Addr : a \notin Bytes(p - Header, Header) => Carved(m, size, mem)[a] = mem[a]
      /\ \A a \in Addr : a \notin Bytes(m, MemSize(size)) => Carved(m, size, mem)[a] = mem[a]
  BY <1>1, CarvedInside
<1> QED
  BY <1>2

(* malloc() and calloc() that found memory are Alloc.                      *)
LEMMA AllocRefines ==
  ASSUME IInv, NEW m \in Addr, NEW size \in Nat \ {0}, RequestFits(size),
         RuntimeMayReturn(m, MemSize(size)),
         live' = With(live, AlignAfter(m, Header), size),
         mem' \in [Addr -> Cell],
         \A a \in Addr : a \notin Bytes(m, MemSize(size)) => mem'[a] = mem[a]
  PROVE  AbstractHeap!Next
<1> DEFINE p == AlignAfter(m, Header)
<1>1. /\ m + MemSize(size) - 1 \in Addr
      /\ \A b \in DOMAIN rt : Bytes(m, MemSize(size)) \cap Bytes(b, rt[b]) = {}
  BY DEF RuntimeMayReturn
<1>2. /\ p \in Addr /\ p \in Nat /\ size \in 1 .. HeapTop /\ p % Align = 0
      /\ Bytes(p, size) \subseteq Bytes(m, MemSize(size))
      /\ \A i \in 0 .. (size - 1) : p + i \in Addr
      /\ p \notin DOMAIN live
      /\ \A q \in DOMAIN live : Bytes(m, MemSize(size)) \cap Bytes(q, live[q]) = {}
  BY <1>1, NewPayload DEF IInv
<1>3. live' = With(live, p, size)
  OBVIOUS
<1> HIDE DEF p
<1>4. /\ DOMAIN live' = DOMAIN live \cup {p} /\ live'[p] = size
      /\ \A q \in DOMAIN live : live'[q] = live[q]
  BY <1>2, <1>3 DEF With
<1>5. AbstractHeap!Placeable(p, size, DOMAIN live)
  <2>1. \A q \in DOMAIN live : Blocks[q].size = live[q]
    BY DEF Blocks
  <2> QED
    BY <1>2, <2>1 DEF AbstractHeap!Placeable, AbstractHeap!Bytes, Bytes
<1>6. AbstractHeap!Become(DOMAIN live \cup {p}, p)
  <2>1. ASSUME NEW q \in DOMAIN live  PROVE Blocks'[q] = Blocks[q]
    <3>1. q \in Nat /\ live[q] \in Nat /\ Bytes(q, live[q]) \subseteq Addr
      BY PayloadInside DEF IInv
    <3>2. \A a \in Bytes(q, live[q]) : mem'[a] = mem[a]
      BY <1>2, <3>1
    <3>3. q \in DOMAIN live' /\ live'[q] = live[q]
      BY <1>4
    <3> QED
      BY <3>2, <3>3, SameBlock
  <2> QED
    BY <1>4, <2>1 DEF AbstractHeap!Become, Blocks
<1>7. AbstractHeap!Sized(p, size)
  BY <1>2, <1>4 DEF AbstractHeap!Sized, Blocks
<1>8. AbstractHeap!Alloc(p, size)
  <2>1. AbstractHeap!Live = DOMAIN live
    BY DEF AbstractHeap!Live, Blocks
  <2> QED
    BY <1>2, <1>5, <1>6, <1>7, <2>1 DEF AbstractHeap!Alloc
<1> QED
  BY <1>2, <1>8 DEF AbstractHeap!Next

(* free(), and a realloc() that frees, is Release.                         *)
LEMMA ReleaseRefines ==
  ASSUME IInv, NEW p \in DOMAIN live, NEW asked, Release(p, asked)
  PROVE  AbstractHeap!Next
<1> DEFINE b == BlockOf(p).mem
<1>1. b = mem[p - Header].mem
  BY DEF BlockOf
<1>2. live' = Without(live, p) /\ mem' = Scribbled(b, mem)
  BY DEF Release
<1> HIDE DEF b
<1>3. /\ DOMAIN live' = DOMAIN live \ {p}
      /\ \A q \in DOMAIN live' : live'[q] = live[q]
  BY <1>2 DEF Without
<1>4. ASSUME NEW q \in DOMAIN live, q # p  PROVE Blocks'[q] = Blocks[q]
  <2>1. Bytes(q, live[q]) \cap Bytes(b, rt[b]) = {}
    BY <1>1, <1>4, PayloadsApart DEF IInv
  <2>2. q \in Nat /\ live[q] \in Nat /\ Bytes(q, live[q]) \subseteq Addr
    BY PayloadInside DEF IInv
  <2>3. \A a \in Bytes(q, live[q]) : mem'[a] = mem[a]
    BY <1>2, <2>1, <2>2 DEF Scribbled
  <2>4. q \in DOMAIN live' /\ live'[q] = live[q]
    BY <1>3, <1>4
  <2> QED
    BY <2>3, <2>4, SameBlock
<1>5. AbstractHeap!Live = DOMAIN live /\ DOMAIN Blocks' = DOMAIN live \ {p}
  BY <1>3 DEF AbstractHeap!Live, Blocks
<1>6. AbstractHeap!Release(p)
  BY <1>4, <1>5 DEF AbstractHeap!Release, AbstractHeap!Become
<1> QED
  BY <1>5, <1>6 DEF AbstractHeap!Next

(* A realloc() within the capacity is Resize in place.                     *)
LEMMA StayRefines ==
  ASSUME IInv, NEW p \in DOMAIN live, NEW size \in 1 .. BlockOf(p).nbytes, Stay(p, size)
  PROVE  AbstractHeap!Next
<1> DEFINE k == mem[p - Header].nbytes
<1>1. BlockOf(p).nbytes = k
  BY DEF BlockOf
<1>2. HeapOK(rt, mem, live') /\ k \in Nat /\ size \in Nat /\ size > 0 /\ size <= k
  <2>1. k \in Nat /\ live' = [live EXCEPT ![p] = size]
    BY BlockInside DEF IInv, Stay
  <2>2. size \in Nat /\ size > 0 /\ size <= k
    BY <1>1, <2>1
  <2> QED
    BY <2>1, <2>2, StayKeepsHeap DEF IInv
<1>3. /\ DOMAIN live' = DOMAIN live /\ live'[p] = size /\ mem' = mem
      /\ \A q \in DOMAIN live : q # p => live'[q] = live[q]
  BY DEF Stay
<1> HIDE DEF k
<1>4. /\ p \in Addr /\ p % Align = 0 /\ size <= HeapTop /\ HeapTop \in Nat
      /\ \A i \in 0 .. (size - 1) : p + i \in Addr
  BY <1>2, <1>3, PayloadInside, MallocAssumption
<1>5. ASSUME NEW q \in DOMAIN live, q # p
      PROVE  Bytes(p, size) \cap Bytes(q, live[q]) = {} /\ Blocks'[q] = Blocks[q]
  BY <1>2, <1>3, <1>5, PayloadsApart, ZenonT(60) DEF Blocks
<1>6. AbstractHeap!Placeable(p, size, DOMAIN live \ {p})
  <2>1. \A q \in DOMAIN live : Blocks[q].size = live[q]
    BY DEF Blocks
  <2> QED
    BY <1>2, <1>4, <1>5, <2>1 DEF AbstractHeap!Placeable, AbstractHeap!Bytes, Bytes
<1>7. AbstractHeap!Become((DOMAIN live \ {p}) \cup {p}, p)
  BY <1>3, <1>5 DEF AbstractHeap!Become, Blocks
<1>8. AbstractHeap!Sized(p, size)
  <2>1. mem \in [Addr -> Cell]
    BY DEF IInv, HeapOK, Shape
  <2> QED
    BY <1>3, <1>4, <2>1 DEF AbstractHeap!Sized, Blocks
<1>9. \A i \in 0 .. (size - 1) :
        i < Blocks[p].size => Blocks'[p].data[i] = Blocks[p].data[i]
  <2>1. live[p] \in Nat
    BY PayloadInside DEF IInv
  <2> QED
    BY <1>2, <1>3, <2>1 DEF Blocks
<1>10. AbstractHeap!Live = DOMAIN live
  BY DEF AbstractHeap!Live, Blocks
<1>11. AbstractHeap!Resize(p, p, size)
  BY <1>6, <1>7, <1>8, <1>9, <1>10 DEF AbstractHeap!Resize
<1>12. size \in 1 .. HeapTop
  BY <1>2, <1>4
<1> QED
  BY <1>4, <1>10, <1>11, <1>12 DEF AbstractHeap!Next

(* A realloc() that moves the block is Resize: what memcpy copied before   *)
(* the old block is freed is what the program finds in the new one.        *)
LEMMA GrowRefines ==
  ASSUME IInv, NEW p \in DOMAIN live, NEW size \in Nat, RequestFits(size),
         size > BlockOf(p).nbytes, Grow(p, size)
  PROVE  AbstractHeap!Next
<1> DEFINE b == mem[p - Header].mem
           k == mem[p - Header].nbytes
           n == MemSize(size)
<1>1. BlockOf(p).mem = b /\ BlockOf(p).nbytes = k
  BY DEF BlockOf
<1>2. /\ p \in Nat /\ live[p] \in Nat /\ k \in Nat /\ live[p] <= k
      /\ b \in DOMAIN rt /\ size \in Nat \ {0} /\ size > k
  <2>1. p \in Nat /\ live[p] \in Nat /\ k \in Nat /\ live[p] <= k /\ b \in DOMAIN rt
    BY BlockInside DEF IInv
  <2> QED
    BY <1>1, <2>1
<1>3. PICK m \in Addr :
        LET q == AlignAfter(m, Header) IN
        /\ RuntimeMayReturn(m, n)
        /\ mem' = Scribbled(b, Copied(p, q, k, Carved(m, size, mem)))
        /\ live' = With(Without(live, p), q, size)
  BY <1>1 DEF Grow
<1> DEFINE q == AlignAfter(m, Header)
           c1 == Carved(m, size, mem)
           c2 == Copied(p, q, k, c1)
<1>4. /\ m + n - 1 \in Addr
      /\ \A x \in DOMAIN rt : Bytes(m, n) \cap Bytes(x, rt[x]) = {}
  BY <1>3 DEF RuntimeMayReturn
<1>5. /\ q \in Addr /\ q \in Nat /\ size \in 1 .. HeapTop /\ q % Align = 0
      /\ Bytes(q, size) \subseteq Bytes(m, n)
      /\ \A i \in 0 .. (size - 1) : q + i \in Addr
      /\ q \notin DOMAIN live
      /\ \A x \in DOMAIN live : Bytes(m, n) \cap Bytes(x, live[x]) = {}
  BY <1>2, <1>4, NewPayload DEF IInv
<1>6. \A a \in Addr : a \notin Bytes(m, n) => c1[a] = mem[a]
  BY <1>3, CarvedMemory
<1>7. \A a \in Addr : c2[a] = IF a \in Bytes(q, k) THEN c1[p + (a - q)] ELSE c1[a]
  BY DEF Copied
<1>8. /\ mem' = Scribbled(b, c2)
      /\ live' = With(Without(live, p), q, size)
  BY <1>3
<1> HIDE DEF b, k, n, q, c1, c2
<1>9. /\ DOMAIN live' = (DOMAIN live \ {p}) \cup {q} /\ live'[q] = size
      /\ \A x \in DOMAIN live \ {p} : live'[x] = live[x]
  BY <1>5, <1>8 DEF With, Without
<1>10. \A a \in Addr : a \notin Bytes(b, rt[b]) => mem'[a] = c2[a]
  BY <1>2, <1>8 DEF Scribbled
<1>11. Bytes(q, k) \subseteq Bytes(q, size)
  BY <1>2, <1>5 DEF Bytes
<1>12. ASSUME NEW x \in DOMAIN live, x # p  PROVE Blocks'[x] = Blocks[x]
  <2>1. Bytes(x, live[x]) \cap Bytes(b, rt[b]) = {}
    BY <1>12, PayloadsApart DEF IInv, b
  <2>2. x \in Nat /\ live[x] \in Nat /\ Bytes(x, live[x]) \subseteq Addr
    BY PayloadInside DEF IInv
  <2>3. Bytes(x, live[x]) \cap Bytes(m, n) = {}
    BY <1>5
  <2>4. \A a \in Bytes(x, live[x]) : mem'[a] = mem[a]
    BY <1>5, <1>6, <1>7, <1>10, <1>11, <2>1, <2>2, <2>3
  <2>5. x \in DOMAIN live' /\ live'[x] = live[x]
    BY <1>9, <1>12
  <2> QED
    BY <2>4, <2>5, SameBlock
<1>13. AbstractHeap!Placeable(q, size, DOMAIN live \ {p})
  <2>1. \A x \in DOMAIN live : Blocks[x].size = live[x]
    BY DEF Blocks
  <2> QED
    BY <1>2, <1>5, <2>1 DEF AbstractHeap!Placeable, AbstractHeap!Bytes, Bytes
<1>14. AbstractHeap!Become((DOMAIN live \ {p}) \cup {q}, q)
  BY <1>9, <1>12 DEF AbstractHeap!Become, Blocks
<1>15. AbstractHeap!Sized(q, size)
  <2>1. mem' \in [Addr -> Cell]
    BY <1>1, <1>2, GrowKeepsInv DEF IInv, HeapOK, Shape
  <2> QED
    BY <1>5, <1>9, <2>1 DEF AbstractHeap!Sized, Blocks
<1>16. \A i \in 0 .. (live[p] - 1) : mem'[q + i] = mem[p + i]
  <2> TAKE i \in 0 .. (live[p] - 1)
  <2>1. i \in Nat /\ i < k /\ i < size
    BY <1>2
  <2>2. q + i \in Addr /\ q + i \in Bytes(q, k) /\ q + i \in Bytes(q, size)
    BY <1>2, <1>5, <2>1 DEF Bytes
  <2>3. q + i \notin Bytes(b, rt[b])
    BY <1>2, <1>4, <1>5, <2>2
  <2>4. p + ((q + i) - q) = p + i
    BY <1>2, <1>5, <2>1
  <2>5. p + i \in Addr /\ p + i \in Bytes(p, live[p])
    <3>1. \A j \in 0 .. (live[p] - 1) : p + j \in Addr
      BY PayloadInside DEF IInv
    <3> QED
      BY <1>2, <2>1, <3>1 DEF Bytes
  <2>6. p + i \notin Bytes(m, n)
    BY <1>5, <2>5
  <2> QED
    BY <1>6, <1>7, <1>10, <2>2, <2>3, <2>4, <2>5, <2>6
<1>17. \A i \in 0 .. (size - 1) :
         i < Blocks[p].size => Blocks'[q].data[i] = Blocks[p].data[i]
  <2> SUFFICES ASSUME NEW i \in 0 .. (size - 1), i < Blocks[p].size
               PROVE  Blocks'[q].data[i] = Blocks[p].data[i]
    OBVIOUS
  <2>1. Blocks[p].size = live[p] /\ Blocks[p].data = [j \in 0 .. (live[p] - 1) |-> mem[p + j]]
    BY DEF Blocks
  <2>2. i \in 0 .. (live[p] - 1)
    BY <1>2, <2>1
  <2>3. Blocks'[q].data = [j \in 0 .. (size - 1) |-> mem'[q + j]]
    BY <1>9 DEF Blocks
  <2> QED
    BY <1>16, <2>1, <2>2, <2>3
<1>18. AbstractHeap!Live = DOMAIN live
  BY DEF AbstractHeap!Live, Blocks
<1>19. AbstractHeap!Resize(p, q, size)
  BY <1>5, <1>13, <1>14, <1>15, <1>17, <1>18 DEF AbstractHeap!Resize
<1> QED
  BY <1>5, <1>18, <1>19 DEF AbstractHeap!Next

(* A store of the program reaches the one block it is meant for.           *)
LEMMA StoreRefines ==
  ASSUME IInv, NEW p \in DOMAIN live, NEW v \in Byte, NEW i \in 0 .. (live[p] - 1),
         Store(p, i, v)
  PROVE  AbstractHeap!Next
<1>1. mem' = [mem EXCEPT ![p + i] = v] /\ live' = live /\ mem \in [Addr -> Cell]
  BY DEF Store, IInv, HeapOK, Shape
<1>2. p \in Nat /\ live[p] \in Nat /\ \A j \in 0 .. (live[p] - 1) : p + j \in Addr
  BY PayloadInside DEF IInv
<1>3. p + i \in Addr /\ p + i \in Bytes(p, live[p])
  BY <1>2 DEF Bytes
<1>4. ASSUME NEW q \in DOMAIN live, q # p  PROVE Blocks'[q] = Blocks[q]
  <2>1. q \in Nat /\ live[q] \in Nat /\ Bytes(q, live[q]) \subseteq Addr
    BY PayloadInside DEF IInv
  <2>2. p + i \notin Bytes(q, live[q])
    BY <1>3, <1>4, PayloadsApart DEF IInv
  <2>3. \A a \in Bytes(q, live[q]) : mem'[a] = mem[a]
    BY <1>1, <1>3, <2>1, <2>2
  <2>4. q \in DOMAIN live' /\ live'[q] = live[q]
    BY <1>1
  <2> QED
    BY <2>3, <2>4, SameBlock
<1>5. Blocks'[p] = [size |-> live[p], data |-> [Blocks[p].data EXCEPT ![i] = v]]
  <2>1. Blocks[p].data = [j \in 0 .. (live[p] - 1) |-> mem[p + j]]
    BY DEF Blocks
  <2>2. ASSUME NEW j \in 0 .. (live[p] - 1)
        PROVE  mem'[p + j] = IF j = i THEN v ELSE mem[p + j]
    BY <1>1, <1>2, <1>3
  <2>3. [j \in 0 .. (live[p] - 1) |-> mem'[p + j]] = [Blocks[p].data EXCEPT ![i] = v]
    BY <2>1, <2>2
  <2>4. Blocks'[p] = [size |-> live'[p], data |-> [j \in 0 .. (live'[p] - 1) |-> mem'[p + j]]]
    BY <1>1 DEF Blocks
  <2> QED
    BY <1>1, <2>3, <2>4
<1>6. Blocks' = [Blocks EXCEPT ![p].data[i] = v]
  <2>1. Blocks[p] = [size |-> live[p], data |-> Blocks[p].data]
    BY DEF Blocks
  <2>2. [Blocks[p] EXCEPT !.data[i] = v] = [size |-> live[p], data |-> [Blocks[p].data EXCEPT ![i] = v]]
    BY <2>1
  <2>3. Blocks = [q \in DOMAIN live |-> Blocks[q]] /\ Blocks' = [q \in DOMAIN live |-> Blocks'[q]]
    BY <1>1 DEF Blocks
  <2> QED
    BY <1>4, <1>5, <2>2, <2>3
<1>7. AbstractHeap!Live = DOMAIN live /\ Blocks[p].size = live[p]
  BY DEF AbstractHeap!Live, Blocks
<1> QED
  BY <1>6, <1>7 DEF AbstractHeap!Next, AbstractHeap!Write

(* Every step of the program and of libC is a step of Heap, or leaves the  *)
(* blocks as they are.                                                     *)
LEMMA StepRefines ==
  ASSUME AllFit, IInv, [Next]_vars
  PROVE  [AbstractHeap!Next]_Blocks
<1>1. ASSUME UNCHANGED <<mem, live>>  PROVE UNCHANGED Blocks
  BY <1>1 DEF Blocks
<1>2. \A size \in Sizes : size \in Nat /\ RequestFits(size)
  BY MallocAssumption DEF AllFit
<1>3. ASSUME NEW size \in Sizes, Malloc(size)
      PROVE  [AbstractHeap!Next]_Blocks
  <2>1. CASE UNCHANGED <<mem, live>>
    BY <1>1, <2>1
  <2>2. ASSUME size > 0, NEW m \in Addr, RuntimeMayReturn(m, MemSize(size)),
               mem' = Carved(m, size, mem),
               live' = With(live, AlignAfter(m, Header), size)
        PROVE  AbstractHeap!Next
    <3>1. RequestFits(size) /\ size \in Nat \ {0}
      BY <1>2, <2>2
    <3>2. /\ mem' \in [Addr -> Cell]
          /\ \A a \in Addr : a \notin Bytes(m, MemSize(size)) => mem'[a] = mem[a]
      BY <2>2, <3>1, CarvedMemory
    <3> QED
      BY <1>2, <2>2, <3>1, <3>2, AllocRefines
  <2> QED
    BY <1>3, <2>1, <2>2 DEF Malloc, vars
<1>4. ASSUME NEW num \in Nums, NEW size \in Sizes, Calloc(num, size)
      PROVE  [AbstractHeap!Next]_Blocks
  <2> DEFINE len == (num * size) % Word
  <2>1. CASE UNCHANGED <<mem, live>>
    BY <1>1, <2>1
  <2>2. ASSUME len # 0, NEW m \in Addr, RuntimeMayReturn(m, MemSize(len)),
               mem' = Cleared(AlignAfter(m, Header), len, Carved(m, len, mem)),
               live' = With(live, AlignAfter(m, Header), len)
        PROVE  AbstractHeap!Next
    <3> DEFINE p == AlignAfter(m, Header)
               c1 == Carved(m, len, mem)
    <3>1. num * size \in Nat /\ len \in Nat /\ RequestFits(len)
      BY MallocAssumption, Z3 DEF AllFit
    <3>2. len \in Nat \ {0}
      BY <2>2, <3>1
    <3>3. /\ m + MemSize(len) - 1 \in Addr
          /\ \A b \in DOMAIN rt : Bytes(m, MemSize(len)) \cap Bytes(b, rt[b]) = {}
      BY <2>2 DEF RuntimeMayReturn
    <3>4. /\ c1 \in [Addr -> Cell]
          /\ \A a \in Addr : a \notin Bytes(m, MemSize(len)) => c1[a] = mem[a]
      BY <2>2, <3>1, CarvedMemory
    <3> HIDE DEF len
    <3>5. Bytes(p, len) \subseteq Bytes(m, MemSize(len))
      BY <3>1, <3>2, <3>3, NewPayload DEF IInv
    <3>6. mem' = [a \in Addr |-> IF a \in Bytes(p, len) THEN Zero ELSE c1[a]]
      BY <2>2 DEF Cleared, len
    <3>7. mem' \in [Addr -> Cell]
      BY <3>4, <3>6, MallocAssumption DEF Cell
    <3>8. \A a \in Addr : a \notin Bytes(m, MemSize(len)) => mem'[a] = mem[a]
      BY <3>4, <3>5, <3>6
    <3>9. live' = With(live, AlignAfter(m, Header), len) /\ RuntimeMayReturn(m, MemSize(len))
      BY <2>2 DEF len
    <3> QED
      BY <3>1, <3>2, <3>7, <3>8, <3>9, AllocRefines
  <2> QED
    BY <1>4, <2>1, <2>2 DEF Calloc, vars
<1>5. ASSUME NEW p \in DOMAIN live \cup {NULL}, Free(p)
      PROVE  [AbstractHeap!Next]_Blocks
  BY <1>1, <1>5, ReleaseRefines DEF Free, vars
<1>6. ASSUME NEW p \in DOMAIN live \cup {NULL}, NEW size \in Sizes, Realloc(p, size)
      PROVE  [AbstractHeap!Next]_Blocks
  <2>1. CASE p = NULL
    BY <1>3, <1>6, <2>1 DEF Realloc
  <2>2. ASSUME p # NULL, NEW asked, Release(p, asked)  PROVE AbstractHeap!Next
    BY <2>2, ReleaseRefines
  <2>3. ASSUME p # NULL, size \in 1 .. BlockOf(p).nbytes, Stay(p, size)
        PROVE  AbstractHeap!Next
    BY <2>3, StayRefines
  <2>4. ASSUME p # NULL, size # 0, size \notin 1 .. BlockOf(p).nbytes, Grow(p, size)
        PROVE  AbstractHeap!Next
    <3>1. size > BlockOf(p).nbytes
      BY <1>2, <2>4, BlockInside DEF IInv, BlockOf
    <3> QED
      BY <1>2, <2>4, <3>1, GrowRefines
  <2> QED
    BY <1>6, <2>1, <2>2, <2>3, <2>4 DEF Realloc
<1>7. ASSUME NEW p \in DOMAIN live, NEW b \in Byte, NEW i \in 0 .. (live[p] - 1), Store(p, i, b)
      PROVE  AbstractHeap!Next
  BY <1>7, StoreRefines
<1> QED
  BY <1>1, <1>3, <1>4, <1>5, <1>6, <1>7 DEF Next, vars

(* Before the first call there is no abstract block.                       *)
LEMMA InitRefines == Init => AbstractHeap!Init
  BY DEF Init, AbstractHeap!Init, Blocks

(* malloc.c implements Heap: aligned blocks that do not overlap, each of   *)
(* which keeps its bytes through every operation on the others, and whose  *)
(* bytes realloc keeps as far as the two sizes reach.                      *)
THEOREM HeapImplemented == AllFit => (Spec => ImplementsHeap)
<1> SUFFICES ASSUME AllFit PROVE Spec => ImplementsHeap
  OBVIOUS
<1>1. IInv /\ [Next]_vars => [AbstractHeap!Next]_Blocks
  BY StepRefines
<1> QED
  BY <1>1, InitRefines, HeapInvariant, PTL DEF Spec, ImplementsHeap, AbstractHeap!Spec

-----------------------------------------------------------------------------
(* calloc().                                                               *)

(* The test of calloc() lets a product through only when it is exact.      *)
LEMMA CallocExact ==
  ASSUME NEW num \in Nat, NEW size \in Nat, size > 0, ~Overflows(num, size)
  PROVE  num * size <= (num * size) % Word
<1>1. Word \in Nat /\ Word > 0
  BY MallocAssumption
<1> DEFINE len == (num * size) % Word
<1>2. num * size \in Nat
  BY Z3
<1>3. len \in Nat
  BY <1>1, <1>2, Z3
<1>4. num = len \div size
  BY DEF Overflows
<1> HIDE DEF len
<1>5. (len \div size) * size <= len
  BY <1>3, Z3
<1> QED
  BY <1>4, <1>5 DEF len

(* calloc() gives num * size bytes, all 0, or no block: also when the      *)
(* product does not fit in size_t, whose value it then never uses.         *)
THEOREM CallocGivesZeros == AllFit => (Spec => CallocClears)
<1> SUFFICES ASSUME AllFit PROVE Spec => CallocClears
  OBVIOUS
<1> DEFINE Clears ==
      \A num \in Nums, size \in Sizes : Calloc(num, size) =>
        \A p \in DOMAIN live' \ DOMAIN live : \A i \in 0 .. (num * size - 1) :
          i < live'[p] /\ mem'[p + i] = Zero
<1>1. ASSUME IInv, NEW num \in Nums, NEW size \in Sizes, Calloc(num, size),
             NEW p \in DOMAIN live' \ DOMAIN live, NEW i \in 0 .. (num * size - 1)
      PROVE  i < live'[p] /\ mem'[p + i] = Zero
  <2> DEFINE len == (num * size) % Word
  <2>1. num \in Nat /\ size \in Nat /\ num * size \in Nat /\ len \in Nat
    BY MallocAssumption, Z3
  <2>2. /\ ~Overflows(num, size) /\ len # 0
        /\ \E m \in Addr :
             /\ RuntimeMayReturn(m, MemSize(len))
             /\ mem' = Cleared(AlignAfter(m, Header), len, Carved(m, len, mem))
             /\ live' = With(live, AlignAfter(m, Header), len)
    BY <1>1 DEF Calloc, vars
  <2>3. PICK m \in Addr :
          /\ RuntimeMayReturn(m, MemSize(len))
          /\ mem' = Cleared(AlignAfter(m, Header), len, Carved(m, len, mem))
          /\ live' = With(live, AlignAfter(m, Header), len)
    BY <2>2
  <2>4. p = AlignAfter(m, Header) /\ live'[p] = len
    BY <1>1, <2>3 DEF With
  <2>5. size > 0
    BY <2>1, <2>2, <1>1, Z3
  <2>6. i \in Nat /\ i < len
    <3>1. num * size <= len
      BY <2>1, <2>2, <2>5, CallocExact
    <3> HIDE DEF len
    <3> QED
      BY <2>1, <3>1
  <2>7. RequestFits(len) /\ len \in Nat \ {0}
    BY <2>1, <2>2 DEF AllFit
  <2>8. /\ m + MemSize(len) - 1 \in Addr
        /\ \A b \in DOMAIN rt : Bytes(m, MemSize(len)) \cap Bytes(b, rt[b]) = {}
    BY <2>3 DEF RuntimeMayReturn
  <2> HIDE DEF len
  <2>9. p \in Nat /\ p + i \in Addr
    BY <1>1, <2>4, <2>6, <2>7, <2>8, NewPayload DEF IInv
  <2>10. p + i \in Bytes(p, len)
    BY <2>1, <2>6, <2>9 DEF Bytes
  <2> QED
    BY <2>3, <2>4, <2>6, <2>9, <2>10 DEF Cleared
<1>2. IInv /\ [Next]_vars => [Clears]_vars
  BY <1>1
<1> QED
  BY <1>2, HeapInvariant, PTL DEF Spec, CallocClears
=============================================================================
