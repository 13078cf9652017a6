-------------------------- MODULE ContainersProofs --------------------------
(***************************************************************************)
(* Proofs about Containers.                                                *)
(***************************************************************************)
EXTENDS Containers, Induction

-----------------------------------------------------------------------------
(* Pointers.                                                               *)

PointerInv ==
  /\ ptr_ \in [Ptr -> Object \cup {null}] /\ raw \subseteq Object /\ objects \subseteq Object
  /\ Pointer!PointersOwned

(* What a step of the pointers does to the objects and their owners.       *)
LEMMA PointerStepTrue ==
  ASSUME PointerInv, Pointer!Next
  PROVE  /\ PointerInv'
         /\ Pointer!Lost' # Pointer!Lost =>
              \E p, q \in Ptr : p # q /\ ptr_[p] # null /\ Pointer!Move(p, q)
<1> DEFINE Held(f) == {f[p] : p \in Ptr} \ {null}
           Lost(f, objs, r) == objs \ (Held(f) \cup r)
           Sound(f, objs, r) ==
             /\ Held(f) \cup r \subseteq objs /\ Held(f) \cap r = {}
             /\ \A p, q \in Ptr : f[p] = f[q] => p = q \/ f[p] = null
<1>1. /\ null \notin Object
      /\ ptr_ \in [Ptr -> Object \cup {null}] /\ raw \subseteq Object /\ objects \subseteq Object
      /\ ~twice /\ Sound(ptr_, objects, raw)
      /\ Pointer!Lost = Lost(ptr_, objects, raw) /\ Pointer!Lost' = Lost(ptr_', objects', raw')
  BY ContainersAssumption
     DEF PointerInv, Pointer!UniquePtrAssumption, Pointer!PointersOwned, Pointer!Held,
         Pointer!Lost
<1>2. ASSUME ptr_' \in [Ptr -> Object \cup {null}], raw' \subseteq Object,
             objects' \subseteq Object, ~twice', Sound(ptr_', objects', raw')
      PROVE  PointerInv'
  BY <1>2 DEF PointerInv, Pointer!PointersOwned, Pointer!Held
<1>3. CASE Pointer!Make
  BY <1>1, <1>2, <1>3 DEF Pointer!Make
<1>4. CASE \E o \in raw : Pointer!Delete(o)
  BY <1>1, <1>2, <1>4 DEF Pointer!Delete
<1>5. ASSUME NEW p \in Ptr, NEW o \in raw \cup {null},
             ptr_' = [ptr_ EXCEPT ![p] = o], objects' = objects \ {ptr_[p]},
             raw' = raw \ {o}, ~twice'
      PROVE  PointerInv' /\ Pointer!Lost' = Pointer!Lost
  <2>1. \A j \in Ptr : ptr_'[j] = IF j = p THEN o ELSE ptr_[j]
    BY <1>1, <1>5
  <2>2. Held(ptr_') = (Held(ptr_) \ {ptr_[p]}) \cup ({o} \ {null})
    BY <1>1, <1>5, <2>1
  <2>3. ptr_' \in [Ptr -> Object \cup {null}]
    BY <1>1, <1>5
  <2>4. \A j \in Ptr : ptr_[j] # null => ptr_[j] \in Held(ptr_) /\ ptr_[j] \notin raw
    BY <1>1
  <2>5. \A j, k \in Ptr : ptr_'[j] = ptr_'[k] => j = k \/ ptr_'[j] = null
    BY <1>1, <1>5, <2>1, <2>4
  <2>8. /\ ptr_[p] \in Held(ptr_) \cup {null} /\ ptr_[p] \notin raw /\ null \notin objects
        /\ Held(ptr_) \cup raw \subseteq objects /\ Held(ptr_) \cap raw = {}
    BY <1>1, <2>4
  <2> HIDE DEF Held
  <2> DEFINE x == ptr_[p]
             h == Held(ptr_)
             k == Held(ptr_')
  <2>9. /\ h \cup raw \subseteq objects /\ h \cap raw = {} /\ null \notin objects
        /\ x \in h \cup {null} /\ k = (h \ {x}) \cup ({o} \ {null})
        /\ raw' = raw \ {o} /\ objects' = objects \ {x}
    BY <1>5, <2>2, <2>8
  <2> HIDE DEF x, h, k
  <2>10. /\ k \cup raw' \subseteq objects' /\ k \cap raw' = {}
         /\ objects' \ (k \cup raw') = objects \ (h \cup raw)
    BY <2>9
  <2>6. Sound(ptr_', objects', raw')
    BY <2>5, <2>10 DEF k
  <2>7. Lost(ptr_', objects', raw') = Lost(ptr_, objects, raw)
    BY <2>10 DEF h, k
  <2> HIDE DEF Sound, Lost
  <2> QED
    BY <1>1, <1>2, <1>5, <2>3, <2>6, <2>7
<1>6. ASSUME NEW p \in Ptr  PROVE ptr_[p] \in objects \cup {null}
  BY <1>1
<1>7. ASSUME NEW p \in Ptr, NEW o \in raw \cup {null}, Pointer!Reset(p, o)
      PROVE  PointerInv' /\ Pointer!Lost' = Pointer!Lost
  <2> HIDE DEF Held, Lost, Sound
  <2> QED
    BY <1>1, <1>5, <1>6, <1>7 DEF Pointer!Reset
<1>8. ASSUME NEW p \in Ptr, Pointer!MoveConstructAndDestroy(p)
      PROVE  PointerInv' /\ Pointer!Lost' = Pointer!Lost
  <2> HIDE DEF Held, Lost, Sound
  <2>1. raw' = raw \ {null}
    BY <1>1, <1>8 DEF Pointer!MoveConstructAndDestroy
  <2> QED
    BY <1>1, <1>5, <1>6, <1>8, <2>1 DEF Pointer!MoveConstructAndDestroy
<1>9. ASSUME NEW p \in Ptr, Pointer!Release(p)
      PROVE  PointerInv' /\ Pointer!Lost' = Pointer!Lost
  <2>1. \A j \in Ptr : ptr_'[j] = IF j = p THEN null ELSE ptr_[j]
    BY <1>1, <1>9 DEF Pointer!Release
  <2>2. Held(ptr_') = Held(ptr_) \ {ptr_[p]}
    BY <1>1, <2>1
  <2>3. /\ ptr_' \in [Ptr -> Object \cup {null}] /\ raw' = raw \cup ({ptr_[p]} \ {null})
        /\ objects' = objects /\ ~twice'
    BY <1>1, <1>9 DEF Pointer!Release
  <2>4. \A j, k \in Ptr : ptr_'[j] = ptr_'[k] => j = k \/ ptr_'[j] = null
    BY <1>1, <2>1
  <2>5. ptr_[p] \in Held(ptr_) \cup {null}
    OBVIOUS
  <2> HIDE DEF Held
  <2>6. Sound(ptr_', objects', raw') /\ raw' \subseteq Object
    BY <1>1, <1>6, <2>2, <2>3, <2>4, <2>5
  <2>7. Lost(ptr_', objects', raw') = Lost(ptr_, objects, raw)
    BY <1>1, <2>2, <2>3, <2>5
  <2> HIDE DEF Sound, Lost
  <2> QED
    BY <1>1, <1>2, <2>3, <2>6, <2>7
<1>10. ASSUME NEW p \in Ptr, NEW q \in Ptr, Pointer!Move(p, q)
       PROVE  PointerInv' /\ (Pointer!Lost' # Pointer!Lost => p # q /\ ptr_[p] # null)
  <2>1. /\ \A j \in Ptr : ptr_'[j] = IF j = p THEN ptr_[q] ELSE IF j = q THEN null ELSE ptr_[j]
        /\ ptr_' \in [Ptr -> Object \cup {null}]
        /\ raw' = raw /\ objects' = objects /\ ~twice'
    BY <1>1, <1>10 DEF Pointer!Move
  <2>2. Held(ptr_') \subseteq Held(ptr_)
    BY <1>1, <2>1
  <2>3. \A j, k \in Ptr : ptr_'[j] = ptr_'[k] => j = k \/ ptr_'[j] = null
    BY <1>1, <2>1
  <2>4. ASSUME p = q \/ ptr_[p] = null
        PROVE  Held(ptr_') = Held(ptr_)
    <3>1. \A j \in Ptr : ptr_[j] # null => \E k \in Ptr : ptr_'[k] = ptr_[j]
      BY <2>1, <2>4
    <3> QED
      BY <2>2, <3>1
  <2> HIDE DEF Held
  <2>5. Sound(ptr_', objects', raw')
    BY <1>1, <2>1, <2>2, <2>3
  <2> HIDE DEF Sound
  <2> QED
    BY <1>1, <1>2, <2>1, <2>4, <2>5
<1> QED
  <2> HIDE DEF Sound, Held, Lost
  <2>1. CASE Pointer!Make \/ \E o \in raw : Pointer!Delete(o)
    BY <1>3, <1>4, <2>1
  <2>2. CASE \E p \in Ptr : (\E o \in raw \cup {null} : Pointer!Reset(p, o))
                            \/ Pointer!Release(p) \/ Pointer!MoveConstructAndDestroy(p)
    BY <1>7, <1>8, <1>9, <2>2
  <2>3. CASE \E p, q \in Ptr : Pointer!Move(p, q)
    BY <1>10, <2>3
  <2> QED
    BY <2>1, <2>2, <2>3 DEF Pointer!Next

(* In every state of a program, each object has one unique_ptr, or is raw. *)
LEMMA PointerInvariant == Spec => []PointerInv
<1>1. Init => PointerInv
  BY DEF Init, Pointer!Init, PointerInv, Pointer!PointersOwned, Pointer!Held
<1>2. PointerInv /\ [Next]_vars => PointerInv'
  <2> SUFFICES ASSUME PointerInv, [Next]_vars PROVE PointerInv'
    OBVIOUS
  <2>1. CASE PointerStep
    BY <2>1, PointerStepTrue DEF PointerStep
  <2>2. CASE UNCHANGED pointerVars
    BY <2>2 DEF pointerVars, PointerInv, Pointer!PointersOwned, Pointer!Held
  <2> QED
    BY <2>1, <2>2 DEF Next, vars, VectorStep, MapStep, StringStep
<1> QED
  BY <1>1, <1>2, PTL DEF Spec

-----------------------------------------------------------------------------
(* Vectors.                                                                *)

(* The doubling of _reserve ends, at a capacity in which n items fit.      *)
LEMMA GrownBound ==
  ASSUME NEW n \in Nat
  PROVE  Vector!Grown(n) \in Nat /\ Vector!Grown(n) >= n
<1>0. SizeofT \in Nat \ {0}
  BY ContainersAssumption DEF Vector!VectorAssumption
<1> DEFINE N == n * SizeofT
           nbytes == CHOOSE f : f = [k \in 0 .. N |-> IF k = 0 THEN 64 ELSE 2 * f[k - 1]]
           fits(k) == nbytes[k] \div SizeofT >= n
           least == CHOOSE k \in 0 .. N : fits(k) /\ \A j \in 0 .. (k - 1) : ~fits(j)
<1>1. N \in Nat
  BY <1>0
<1>2. Vector!Grown(n) = nbytes[least] \div SizeofT
  BY DEF Vector!Grown
<1>3. nbytes \in [0 .. N -> Nat]
      /\ nbytes = [k \in 0 .. N |-> IF k = 0 THEN 64 ELSE 2 * nbytes[k - 1]]
  <2> DEFINE G == [x \in Nat |-> 2 * x]
  <2>1. PICK f \in [0 .. N -> Nat] : f[0] = 64 /\ \A k \in 1 .. N : f[k] = G[f[k - 1]]
    <3> DEFINE S == Nat
               z == 64
    <3>1. z \in S
      OBVIOUS
    <3>3. G \in [S -> S]
      OBVIOUS
    <3> HIDE DEF G, N, S, z
    <3>2. \E f : Iterates(f, N, S, z, G)
      BY <1>1, <3>1, <3>3, Recursion
    <3> QED
      BY <3>2 DEF S, z, Iterates
  <2> HIDE DEF N
  <2>2. f = [k \in 0 .. N |-> IF k = 0 THEN 64 ELSE 2 * f[k - 1]]
    <3>1. \A k \in 1 .. N : f[k - 1] \in Nat
      <4> HIDE DEF G
      <4>1. f \in [0 .. N -> Nat] /\ \A k \in 1 .. N : k - 1 \in 0 .. N
        BY <1>1, <2>1
      <4> QED
        BY <4>1
    <3>2. \A k \in 1 .. N : G[f[k - 1]] = 2 * f[k - 1]
      BY <3>1
    <3> HIDE DEF G
    <3>3. \A k \in 0 .. N : f[k] = IF k = 0 THEN 64 ELSE 2 * f[k - 1]
      BY <1>1, <2>1, <3>2
    <3> QED
      BY <2>1, <3>3
  <2>3. nbytes = [k \in 0 .. N |-> IF k = 0 THEN 64 ELSE 2 * nbytes[k - 1]]
    BY <2>2
  <2>4. \A k \in 0 .. N : nbytes[k] \in Nat
    <3> DEFINE P == {k \in 0 .. N : nbytes[k] \in Nat}
    <3> HIDE DEF nbytes
    <3>1. 0 \in P /\ \A k \in 0 .. (N - 1) : k \in P => k + 1 \in P
      BY <1>1, <2>3, SMTT(60)
    <3> HIDE DEF P
    <3>2. \A k \in 0 .. N : k \in P
      BY <1>1, <3>1, UpTo
    <3> QED
      BY <3>2 DEF P
  <2> HIDE DEF nbytes
  <2> QED
    BY <2>3, <2>4
<1> HIDE DEF nbytes
<1>4. nbytes[N] >= N
  <2> HIDE DEF N
  <2> DEFINE P == {k \in 0 .. N : nbytes[k] > k}
  <2>1. 0 \in P
    BY <1>1, <1>3
  <2>2. ASSUME NEW k \in 0 .. (N - 1), k \in P  PROVE k + 1 \in P
    <3>1. nbytes[k + 1] = 2 * nbytes[k] /\ nbytes[k] \in Nat
      BY <1>1, <1>3
    <3> QED
      BY <1>1, <2>2, <3>1
  <2> HIDE DEF P
  <2>3. \A k \in 0 .. N : k \in P
    BY <1>1, <2>1, <2>2, UpTo
  <2>4. nbytes[N] > N
    BY <1>1, <2>3 DEF P
  <2> QED
    BY <1>1, <1>3, <2>4
<1>5. ASSUME NEW x \in Nat, x >= n * SizeofT  PROVE x \div SizeofT >= n
  <2> DEFINE q == x \div SizeofT
  <2>1. q \in Nat /\ x < (q + 1) * SizeofT
    BY <1>0
  <2> HIDE DEF q
  <2>2. ASSUME q < n  PROVE FALSE
    <3>1. q + 1 <= n
      BY <2>1, <2>2
    <3>2. (q + 1) * SizeofT <= n * SizeofT
      BY <1>0, <2>1, <3>1
    <3> QED
      BY <1>0, <1>5, <2>1, <3>2
  <2> QED
    BY <2>1, <2>2 DEF q
<1>6. fits(N)
  <2>1. nbytes[N] \in Nat
    BY <1>1, <1>3
  <2> QED
    BY <1>4, <1>5, <2>1
<1>7. least \in 0 .. N /\ fits(least)
  <2> DEFINE T == {k \in 0 .. N : fits(k)}
  <2> HIDE DEF N
  <2>1. T \subseteq Nat /\ T # {}
    BY <1>1, <1>6
  <2>2. PICK m \in T : \A k \in T : m <= k
    BY <2>1, LeastNat
  <2> HIDE DEF fits
  <2>3. m \in 0 .. N /\ fits(m) /\ \A j \in 0 .. (m - 1) : ~fits(j)
    BY <1>1, <2>2
  <2> QED
    BY <2>3
<1> HIDE DEF least
<1>8. nbytes[least] \in Nat
  BY <1>3, <1>7
<1> QED
  BY <1>0, <1>2, <1>7, <1>8
(* The members of a vector.                                                *)
Cell == [_data : VecBuffer \cup {null}, _max_nitems : Nat, _nitems : Nat]

(* No access went wrong but by the reference that was passed.              *)
InBounds(m) == m.wrong \subseteq {"argument"}

(* Of a record m of vectors and buffers: every vector has a buffer of its  *)
(* own, with all the slots it says, or no members at all, and no other     *)
(* slot was accessed.                                                      *)
VecSound(m) ==
  /\ InBounds(m)
  /\ m.vec \in [Vec -> Cell] /\ DOMAIN m.mem \subseteq VecBuffer
  /\ \A v \in Vec : m.vec[v]._data = null => m.vec[v] = Vector!Empty
  /\ \A v \in Vec : m.vec[v]._data # null =>
       /\ m.vec[v]._data \in DOMAIN m.mem
       /\ m.mem[m.vec[v]._data] \in [1 .. m.vec[v]._max_nitems -> Vector!Elem]
       /\ m.vec[v]._nitems <= m.vec[v]._max_nitems
  /\ \A v, w \in Vec : m.vec[v]._data = m.vec[w]._data => v = w \/ m.vec[v]._data = null

Unowned(m) == {b \in DOMAIN m.mem : \A v \in Vec : m.vec[v]._data # b}

(* From m to r at most the vector v has changed, and no buffer is lost.    *)
OnlyChanges(m, r, v) ==
  /\ \A w \in Vec \ {v} : r.vec[w] = m.vec[w] /\ Vector!Slots(r, w) = Vector!Slots(m, w)
  /\ Unowned(r) = Unowned(m)

(* What the assumptions on the constants say of the vectors.               *)
LEMMA VectorParameters ==
  /\ SizeofT \in Nat \ {0} /\ MaxItems \in Nat /\ null \notin VecBuffer
  /\ Ranges \subseteq Seq(Vals) \ {<< >>} /\ Vals \subseteq Vector!Elem
  /\ Default \in Vector!Elem /\ Raw \in Vector!Elem
  BY ContainersAssumption DEF Vector!VectorAssumption, Vector!Elem

(* The slots of a vector, with a buffer or without.                        *)
LEMMA SlotsSound ==
  ASSUME NEW m, VecSound(m), NEW v \in Vec
  PROVE  /\ m.vec[v] \in Cell
         /\ m.vec[v]._max_nitems \in Nat /\ m.vec[v]._nitems \in Nat
         /\ m.vec[v]._nitems <= m.vec[v]._max_nitems
         /\ m.vec[v]._max_nitems # 0 => m.vec[v]._data # null
         /\ Vector!Slots(m, v) \in [1 .. m.vec[v]._max_nitems -> Vector!Elem]
<1>1. m.vec[v] \in Cell
  BY DEF VecSound
<1>2. CASE m.vec[v]._data = null
  <2>1. m.vec[v] = Vector!Empty
    BY <1>2 DEF VecSound
  <2>2. m.vec[v]._data \notin DOMAIN m.mem
    BY <1>2, VectorParameters DEF VecSound
  <2> QED
    BY <1>1, <1>2, <2>1, <2>2 DEF Vector!Empty, Vector!Slots
<1>3. CASE m.vec[v]._data # null
  <2>1. /\ m.vec[v]._data \in DOMAIN m.mem
        /\ m.mem[m.vec[v]._data] \in [1 .. m.vec[v]._max_nitems -> Vector!Elem]
        /\ m.vec[v]._nitems <= m.vec[v]._max_nitems
    BY <1>3 DEF VecSound
  <2> QED
    BY <1>1, <1>3, <2>1 DEF Vector!Slots, Cell
<1> QED
  BY <1>2, <1>3

(* Where the slots of a vector are, and how many.                          *)
LEMMA SlotsPlace ==
  ASSUME NEW m, VecSound(m), NEW v \in Vec
  PROVE  /\ Vector!Slots(m, v) = IF m.vec[v]._data = null THEN << >> ELSE m.mem[m.vec[v]._data]
         /\ Len(Vector!Slots(m, v)) = m.vec[v]._max_nitems
         /\ Vector!Deleting(m, v) = {}
<1>1. m.vec[v]._data # null <=> m.vec[v]._data \in DOMAIN m.mem
  BY VectorParameters DEF VecSound
<1>2. Vector!Slots(m, v) = IF m.vec[v]._data = null THEN << >> ELSE m.mem[m.vec[v]._data]
  BY <1>1 DEF Vector!Slots
<1>3. Len(Vector!Slots(m, v)) = m.vec[v]._max_nitems
  <2> DEFINE s == Vector!Slots(m, v)
             max == m.vec[v]._max_nitems
  <2>1. s \in [1 .. max -> Vector!Elem] /\ max \in Nat
    BY SlotsSound
  <2> HIDE DEF s, max
  <2>2. s \in Seq(Vector!Elem)
    BY <2>1, SeqDef
  <2>3. Len(s) = max
    BY <2>1, <2>2, LenProperties
  <2> QED
    BY <2>3 DEF s, max
<1> QED
  BY <1>1, <1>2, <1>3 DEF Vector!Deleting

(* _reserve makes room and keeps the items it is told to keep.             *)
LEMMA ReservedSound ==
  ASSUME NEW m, VecSound(m), NEW v \in Vec, NEW n \in Nat, NEW c \in Nat, NEW b,
         c <= m.vec[v]._nitems,
         n > m.vec[v]._max_nitems => b \in VecBuffer \ DOMAIN m.mem
  PROVE  LET r == Vector!Reserved(m, v, n, c, b) IN
         /\ VecSound(r) /\ OnlyChanges(m, r, v)
         /\ r.vec[v]._nitems = m.vec[v]._nitems
         /\ r.vec[v]._max_nitems >= m.vec[v]._max_nitems /\ r.vec[v]._max_nitems >= n
         /\ \A i \in 1 .. c : Vector!Slots(r, v)[i] = Vector!Slots(m, v)[i]
         /\ n <= m.vec[v]._max_nitems => r = m
<1> DEFINE r == Vector!Reserved(m, v, n, c, b)
           a == m.vec[v]._data
           old == Vector!Slots(m, v)
           g == Vector!Grown(n)
           slots == [i \in 1 .. g |-> IF i <= c THEN old[i] ELSE Raw]
<1>1. /\ m.vec[v] \in Cell /\ m.vec[v]._max_nitems \in Nat /\ m.vec[v]._nitems \in Nat
      /\ m.vec[v]._nitems <= m.vec[v]._max_nitems
      /\ old \in [1 .. m.vec[v]._max_nitems -> Vector!Elem]
  BY SlotsSound
<1>2. CASE n <= m.vec[v]._max_nitems
  BY <1>1, <1>2 DEF Vector!Reserved, OnlyChanges
<1>3. CASE n > m.vec[v]._max_nitems
  <2>1. g \in Nat /\ g >= n
    BY GrownBound
  <2>2. b \in VecBuffer /\ b \notin DOMAIN m.mem /\ b # null /\ a # b
        /\ m.vec \in [Vec -> Cell] /\ DOMAIN m.mem \subseteq VecBuffer
    BY <1>3, VectorParameters DEF VecSound
  <2> HIDE DEF g
  <2>3. slots \in [1 .. g -> Vector!Elem]
    <3>1. \A i \in 1 .. g : i <= c => old[i] \in Vector!Elem
      BY <1>1
    <3> QED
      BY <3>1, VectorParameters
  <2>4. /\ r.vec = [m.vec EXCEPT ![v]._data = b, ![v]._max_nitems = g]
        /\ r.mem = Vector!Without(Vector!With(m.mem, b, slots), a)
        /\ r.wrong = m.wrong \cup Vector!Touching(m, "read", v, c) \cup Vector!Deleting(m, v)
    BY <1>1, <1>3 DEF Vector!Reserved, g
  <2>12. InBounds(r)
    <3>1. Vector!Touching(m, "read", v, c) = {} /\ Vector!Deleting(m, v) = {}
      <4>1. c <= Len(Vector!Slots(m, v))
        BY <1>1, SlotsPlace
      <4> QED
        BY <4>1, SlotsPlace DEF Vector!Touching
    <3> HIDE DEF r
    <3> QED
      BY <2>4, <3>1 DEF InBounds, VecSound
  <2> HIDE DEF slots, r
  <2>5. /\ r.vec \in [Vec -> Cell]
        /\ r.vec[v]._data = b /\ r.vec[v]._max_nitems = g
        /\ r.vec[v]._nitems = m.vec[v]._nitems
        /\ \A w \in Vec \ {v} : r.vec[w] = m.vec[w]
    BY <2>1, <2>2, <2>4 DEF Cell
  <2>6. /\ DOMAIN r.mem = (DOMAIN m.mem \cup {b}) \ {a}
        /\ \A x \in DOMAIN r.mem : r.mem[x] = IF x = b THEN slots ELSE m.mem[x]
    BY <2>4 DEF Vector!Without, Vector!With
  <2>7. \A w \in Vec \ {v} : m.vec[w]._data # null =>
          /\ m.vec[w]._data \in DOMAIN r.mem
          /\ r.mem[m.vec[w]._data] = m.mem[m.vec[w]._data]
    BY <2>2, <2>6 DEF VecSound
  <2>8. r.mem[b] = slots /\ b \in DOMAIN r.mem
    BY <2>2, <2>6
  <2>9. VecSound(r)
    <3>1. DOMAIN r.mem \subseteq VecBuffer
      BY <2>2, <2>6
    <3>2. ASSUME NEW w \in Vec, r.vec[w]._data = null  PROVE r.vec[w] = Vector!Empty
      BY <2>2, <2>5, <3>2 DEF VecSound
    <3>3. ASSUME NEW w \in Vec, r.vec[w]._data # null
          PROVE  /\ r.vec[w]._data \in DOMAIN r.mem
                 /\ r.mem[r.vec[w]._data] \in [1 .. r.vec[w]._max_nitems -> Vector!Elem]
                 /\ r.vec[w]._nitems <= r.vec[w]._max_nitems
      <4>1. CASE w = v
        BY <1>1, <1>3, <2>1, <2>3, <2>5, <2>8, <4>1
      <4>2. CASE w # v
        BY <2>5, <2>7, <3>3, <4>2 DEF VecSound
      <4> QED
        BY <4>1, <4>2
    <3>4. ASSUME NEW w \in Vec, NEW x \in Vec, r.vec[w]._data = r.vec[x]._data
          PROVE  w = x \/ r.vec[w]._data = null
      <4>1. \A y \in Vec : m.vec[y]._data # b
        BY <2>2 DEF VecSound
      <4> QED
        BY <2>5, <3>4, <4>1 DEF VecSound
    <3> QED
      BY <2>5, <2>12, <3>1, <3>2, <3>3, <3>4 DEF VecSound
  <2>10. OnlyChanges(m, r, v)
    <3>1. \A w \in Vec \ {v} : Vector!Slots(r, w) = Vector!Slots(m, w)
      BY <2>5, <2>7, <2>9, SlotsPlace
    <3>2. ASSUME NEW x  PROVE x \in Unowned(r) <=> x \in Unowned(m)
      BY <2>2, <2>5, <2>6 DEF Unowned
    <3> QED
      BY <2>5, <3>1, <3>2 DEF OnlyChanges
  <2>11. \A i \in 1 .. c : Vector!Slots(r, v)[i] = old[i]
    <3>1. Vector!Slots(r, v) = slots
      BY <2>2, <2>5, <2>8, <2>9, SlotsPlace
    <3>2. \A i \in 1 .. c : i \in 1 .. g /\ i <= c
      BY <1>1, <1>3, <2>1
    <3> HIDE DEF old
    <3> QED
      BY <3>1, <3>2 DEF slots
  <2> QED
    BY <1>1, <1>3, <2>1, <2>5, <2>9, <2>10, <2>11 DEF r
<1> QED
  BY <1>1, <1>2, <1>3
(* A store within the capacity changes the slots it says.                  *)
LEMMA StoredSound ==
  ASSUME NEW m, VecSound(m), NEW v \in Vec, NEW i \in Nat, NEW s \in Seq(Vector!Elem),
         NEW n \in Nat, n <= m.vec[v]._max_nitems, i + Len(s) <= m.vec[v]._max_nitems
  PROVE  LET r == Vector!Stored(m, v, i, s, n) IN
         /\ VecSound(r) /\ OnlyChanges(m, r, v)
         /\ r.vec[v]._nitems = n /\ r.vec[v]._max_nitems = m.vec[v]._max_nitems
         /\ \A j \in 1 .. m.vec[v]._max_nitems :
              Vector!Slots(r, v)[j] =
                IF j \in i + 1 .. i + Len(s) THEN s[j - i] ELSE Vector!Slots(m, v)[j]
<1> DEFINE r == Vector!Stored(m, v, i, s, n)
           a == m.vec[v]._data
           max == m.vec[v]._max_nitems
           old == Vector!Slots(m, v)
           slots == [j \in DOMAIN old |-> IF j \in i + 1 .. i + Len(s) THEN s[j - i] ELSE old[j]]
<1>1. /\ m.vec[v] \in Cell /\ max \in Nat /\ (max # 0 => a # null)
      /\ old \in [1 .. max -> Vector!Elem] /\ Len(s) \in Nat
  BY SlotsSound, LenProperties
<1>2. /\ r.vec = [m.vec EXCEPT ![v]._nitems = n]
      /\ r.mem = IF s = << >> THEN m.mem ELSE [m.mem EXCEPT ![a] = slots]
      /\ r.wrong = m.wrong \cup IF s = << >> THEN {}
                                ELSE Vector!Touching(m, "write", v, i + Len(s))
  BY DEF Vector!Stored
<1>14. InBounds(r)
  <2>1. Vector!Touching(m, "write", v, i + Len(s)) = {}
    BY SlotsPlace DEF Vector!Touching
  <2> HIDE DEF r
  <2> QED
    BY <1>2, <2>1 DEF InBounds, VecSound
<1>3. slots \in [1 .. max -> Vector!Elem]
  <2>1. \A j \in i + 1 .. i + Len(s) : s[j - i] \in Vector!Elem
    <3>1. \A j \in i + 1 .. i + Len(s) : j - i \in 1 .. Len(s)
      BY <1>1
    <3> QED
      BY <3>1, ElementOfSeq
  <2> QED
    BY <1>1, <2>1
<1>4. s # << >> => max # 0
  BY <1>1, EmptySeq
<1>5. \A j \in 1 .. max : slots[j] = IF j \in i + 1 .. i + Len(s) THEN s[j - i] ELSE old[j]
  BY <1>1
<1> HIDE DEF slots, old, r
<1>6. /\ m.vec \in [Vec -> Cell] /\ DOMAIN m.mem \subseteq VecBuffer
      /\ a # null => a \in DOMAIN m.mem
  BY DEF VecSound
<1>7. /\ r.vec \in [Vec -> Cell]
      /\ r.vec[v]._data = a /\ r.vec[v]._max_nitems = max /\ r.vec[v]._nitems = n
      /\ \A w \in Vec \ {v} : r.vec[w] = m.vec[w]
  BY <1>1, <1>2, <1>6 DEF Cell
<1>8. /\ DOMAIN r.mem = DOMAIN m.mem
      /\ \A x \in DOMAIN m.mem :
           r.mem[x] = IF s # << >> /\ x = a THEN slots ELSE m.mem[x]
  BY <1>2
<1>9. \A w \in Vec \ {v} : m.vec[w]._data # null =>
        m.vec[w]._data \in DOMAIN m.mem /\ r.mem[m.vec[w]._data] = m.mem[m.vec[w]._data]
  <2>1. \A w \in Vec \ {v} : m.vec[w]._data # null =>
          m.vec[w]._data \in DOMAIN m.mem /\ m.vec[w]._data # a
    BY DEF VecSound
  <2> QED
    BY <1>8, <2>1
<1>10. a # null => r.mem[a] \in [1 .. max -> Vector!Elem]
  <2>1. a # null => m.mem[a] \in [1 .. max -> Vector!Elem]
    BY DEF VecSound
  <2> QED
    BY <1>3, <1>6, <1>8, <2>1
<1>11. VecSound(r)
  <2>1. ASSUME NEW w \in Vec, r.vec[w]._data = null  PROVE r.vec[w] = Vector!Empty
    <3>1. CASE w = v
      <4>1. m.vec[v] = Vector!Empty /\ max = 0 /\ n = 0
        BY <1>1, <1>7, <2>1, <3>1 DEF VecSound
      <4>2. r.vec[v] = m.vec[v]
        BY <1>2, <1>6, <4>1 DEF Vector!Empty
      <4> QED
        BY <3>1, <4>1, <4>2
    <3>2. CASE w # v
      BY <1>7, <2>1, <3>2 DEF VecSound
    <3> QED
      BY <3>1, <3>2
  <2>2. ASSUME NEW w \in Vec, r.vec[w]._data # null
        PROVE  /\ r.vec[w]._data \in DOMAIN r.mem
               /\ r.mem[r.vec[w]._data] \in [1 .. r.vec[w]._max_nitems -> Vector!Elem]
               /\ r.vec[w]._nitems <= r.vec[w]._max_nitems
    <3>1. CASE w = v
      BY <1>6, <1>7, <1>8, <1>10, <2>2, <3>1
    <3>2. CASE w # v
      BY <1>7, <1>8, <1>9, <2>2, <3>2 DEF VecSound
    <3> QED
      BY <3>1, <3>2
  <2>3. ASSUME NEW w \in Vec, NEW x \in Vec, r.vec[w]._data = r.vec[x]._data
        PROVE  w = x \/ r.vec[w]._data = null
    <3>1. \A y \in Vec : r.vec[y]._data = m.vec[y]._data
      BY <1>7
    <3> QED
      BY <2>3, <3>1 DEF VecSound
  <2> QED
    BY <1>6, <1>7, <1>8, <1>14, <2>1, <2>2, <2>3 DEF VecSound
<1>12. OnlyChanges(m, r, v)
  <2>1. \A w \in Vec \ {v} : Vector!Slots(r, w) = Vector!Slots(m, w)
    BY <1>7, <1>9, <1>11, SlotsPlace
  <2>2. \A w \in Vec : r.vec[w]._data = m.vec[w]._data
    BY <1>7
  <2> QED
    BY <1>7, <1>8, <2>1, <2>2 DEF OnlyChanges, Unowned
<1>13. \A j \in 1 .. max :
         Vector!Slots(r, v)[j] = IF j \in i + 1 .. i + Len(s) THEN s[j - i] ELSE old[j]
  <2>1. CASE s = << >>
    <3>1. Vector!Slots(r, v) = old
      <4>1. r.mem = m.mem
        BY <1>2, <2>1
      <4>2. Vector!Slots(r, v) = IF r.vec[v]._data = null THEN << >> ELSE r.mem[r.vec[v]._data]
        BY <1>11, SlotsPlace
      <4>3. Vector!Slots(m, v) = IF a = null THEN << >> ELSE m.mem[a]
        BY SlotsPlace
      <4> QED
        BY <1>7, <4>1, <4>2, <4>3 DEF old
    <3> QED
      BY <1>1, <2>1, <3>1, EmptySeq
  <2>2. CASE s # << >>
    <3>1. a # null
      BY <1>1, <1>4, <2>2
    <3>2. Vector!Slots(r, v) = slots
      BY <1>6, <1>7, <1>8, <1>11, <2>2, <3>1, SlotsPlace
    <3> QED
      BY <1>5, <3>2
  <2> QED
    BY <2>1, <2>2
<1> QED
  BY <1>7, <1>11, <1>12, <1>13 DEF r, old

(* The vectors and the buffers after a step.                               *)
After == [vec |-> vec', mem |-> mem', wrong |-> wrong']

(* What a step keeps of the pair it becomes.                               *)
LEMMA BecomeSound ==
  ASSUME NEW r, VecSound(r), Vector!Become(r)
  PROVE  /\ VecSound(After) /\ vec' = r.vec /\ Unowned(After) = Unowned(r)
         /\ \A w \in Vec : Vector!Slots(After, w) = Vector!Slots(r, w)
<1>1. /\ After.vec = r.vec /\ vec' = r.vec /\ DOMAIN After.mem = DOMAIN r.mem
      /\ After.wrong = r.wrong
      /\ \A w \in Vec : r.vec[w]._data \in DOMAIN r.mem =>
           After.mem[r.vec[w]._data] = r.mem[r.vec[w]._data]
  BY DEF Vector!Become, After
<1>2. \A w \in Vec : r.vec[w]._data # null => r.vec[w]._data \in DOMAIN r.mem
  BY DEF VecSound
<1> HIDE DEF After
<1>3. \A w \in Vec : Vector!Slots(After, w) = Vector!Slots(r, w)
  BY <1>1 DEF Vector!Slots
<1>4. VecSound(After)
  BY <1>1, <1>2 DEF VecSound, InBounds
<1>5. Unowned(After) = Unowned(r)
  BY <1>1 DEF Unowned
<1> QED
  BY <1>1, <1>3, <1>4, <1>5
(* The items of a vector of the pair m.                                    *)
ItemsOf(m, v) == SubSeq(Vector!Slots(m, v), 1, m.vec[v]._nitems)

(* The items of a sound vector are the first of its slots.                 *)
LEMMA ItemsSound ==
  ASSUME NEW m, VecSound(m), NEW v \in Vec
  PROVE  /\ ItemsOf(m, v) \in Seq(Vector!Elem) /\ Len(ItemsOf(m, v)) = m.vec[v]._nitems
         /\ \A j \in 1 .. m.vec[v]._nitems : ItemsOf(m, v)[j] = Vector!Slots(m, v)[j]
<1> DEFINE old == Vector!Slots(m, v)
           n == m.vec[v]._nitems
           max == m.vec[v]._max_nitems
<1>1. n \in Nat /\ max \in Nat /\ n <= max /\ old \in [1 .. max -> Vector!Elem]
  BY SlotsSound
<1>2. ItemsOf(m, v) = SubSeq(old, 1, n)
  BY DEF ItemsOf
<1> HIDE DEF old, n, max
<1>3. old \in Seq(Vector!Elem) /\ Len(old) = max
  BY <1>1, SeqDef, LenProperties
<1>4. SubSeq(old, 1, n) \in Seq(Vector!Elem) /\ Len(SubSeq(old, 1, n)) = n
      /\ \A j \in 1 .. n : SubSeq(old, 1, n)[j] = old[j]
  BY <1>1, <1>3
<1> QED
  BY <1>2, <1>4 DEF old, n

(* Changes of v add up.                                                    *)
LEMMA ChangesAddUp ==
  ASSUME NEW m, NEW r, NEW t, NEW v \in Vec, OnlyChanges(m, r, v), OnlyChanges(r, t, v)
  PROVE  OnlyChanges(m, t, v)
  BY DEF OnlyChanges

(* What the step to a pair that differs only in v does, as DynArray sees it. *)
LEMMA OnlyOfChanged ==
  ASSUME NEW r, NEW v \in Vec, VecSound(Vector!Now), VecSound(r),
         OnlyChanges(Vector!Now, r, v), r.vec[v]._max_nitems >= vec[v]._max_nitems,
         Vector!Become(r)
  PROVE  /\ VecSound(After) /\ Unowned(After) = Unowned(Vector!Now)
         /\ Vector!Abstract!OnlyOf(v)
         /\ Vector!Items(v)' = ItemsOf(r, v)
<1>1. /\ VecSound(After) /\ vec' = r.vec /\ Unowned(After) = Unowned(r)
      /\ \A w \in Vec : Vector!Slots(After, w) = Vector!Slots(r, w)
  BY BecomeSound
<1>2. /\ Vector!Now.vec = vec /\ \A w \in Vec : Vector!Items(w) = ItemsOf(Vector!Now, w)
  BY DEF Vector!Now, Vector!Items, Vector!Size, ItemsOf
<1>3. After.vec = vec' /\ \A w \in Vec : Vector!Items(w)' = ItemsOf(After, w)
  BY DEF Vector!Now, Vector!Items, Vector!Size, ItemsOf, After, Vector!Slots
<1>4. \A w \in Vec : ItemsOf(After, w) = ItemsOf(r, w)
  BY <1>1, <1>3 DEF ItemsOf
<1>5. \A w \in Vec \ {v} : ItemsOf(r, w) = ItemsOf(Vector!Now, w) /\ r.vec[w] = vec[w]
  BY <1>2 DEF OnlyChanges, ItemsOf
<1>6. Len(ItemsOf(r, v)) = r.vec[v]._nitems /\ r.vec[v]._nitems <= r.vec[v]._max_nitems
  BY ItemsSound, SlotsSound
<1>7. Vector!Abstract!OnlyOf(v)
  BY <1>1, <1>2, <1>3, <1>4, <1>5, <1>6 DEF Vector!Abstract!OnlyOf
<1> QED
  BY <1>1, <1>3, <1>4, <1>7 DEF OnlyChanges
(* A vector as it is: its members, slots and items.                        *)
LEMMA NowSound ==
  ASSUME VecSound(Vector!Now), NEW v \in Vec
  PROVE  /\ Vector!Now.vec = vec /\ Vector!Now.mem = mem
         /\ Vector!Size(v) \in Nat /\ vec[v]._nitems = Vector!Size(v)
         /\ vec[v]._max_nitems \in Nat /\ Vector!Size(v) <= vec[v]._max_nitems
         /\ Vector!Slots(Vector!Now, v) \in [1 .. vec[v]._max_nitems -> Vector!Elem]
         /\ Vector!Items(v) \in Seq(Vector!Elem) /\ Len(Vector!Items(v)) = Vector!Size(v)
         /\ Vector!Items(v) = ItemsOf(Vector!Now, v)
         /\ \A j \in 1 .. Vector!Size(v) :
              Vector!Items(v)[j] = Vector!Slots(Vector!Now, v)[j]
              /\ Vector!Items(v)[j] \in Vector!Elem
<1>1. Vector!Now.vec = vec /\ Vector!Now.mem = mem /\ Vector!Items(v) = ItemsOf(Vector!Now, v)
      /\ vec[v]._nitems = Vector!Size(v)
  BY DEF Vector!Now, Vector!Items, Vector!Size, ItemsOf
<1>2. /\ Vector!Items(v) \in Seq(Vector!Elem) /\ Len(Vector!Items(v)) = Vector!Size(v)
      /\ \A j \in 1 .. Vector!Size(v) : Vector!Items(v)[j] = Vector!Slots(Vector!Now, v)[j]
  BY <1>1, ItemsSound
<1>3. \A j \in 1 .. Vector!Size(v) : Vector!Items(v)[j] \in Vector!Elem
  BY <1>2, ElementOfSeq
<1> QED
  BY <1>1, <1>2, <1>3, SlotsSound

(* The same of a vector and the buffer that new T[] returns for n items.   *)
LEMMA NewSound ==
  ASSUME NEW v \in Vec, NEW n \in Nat, NEW b \in Vector!New(v, n)
  PROVE  n > vec[v]._max_nitems /\ vec[v]._max_nitems \in Nat => b \in VecBuffer \ DOMAIN Vector!Now.mem
  BY DEF Vector!New, Vector!Now

(* What every step of the vectors keeps, and how DynArray sees it.         *)
VectorsKept == VecSound(After) /\ Unowned(After) = Unowned(Vector!Now)

(* reserve() may grow the capacity and changes no item.                    *)
LEMMA ReserveTrue ==
  ASSUME VecSound(Vector!Now), NEW v \in Vec, NEW n \in Nat, Vector!Reserve(v, n)
  PROVE  VectorsKept /\ Vector!Abstract!Reserve(v)
<1> DEFINE size == Vector!Size(v)
<1>1. PICK b \in Vector!New(v, n) : Vector!Become(Vector!Reserved(Vector!Now, v, n, size, b))
  BY DEF Vector!Reserve
<1> DEFINE r == Vector!Reserved(Vector!Now, v, n, size, b)
<1>2. /\ VecSound(r) /\ OnlyChanges(Vector!Now, r, v) /\ r.vec[v]._nitems = size
      /\ r.vec[v]._max_nitems >= vec[v]._max_nitems
      /\ \A j \in 1 .. size : Vector!Slots(r, v)[j] = Vector!Slots(Vector!Now, v)[j]
  <2>1. /\ Vector!Now.vec = vec /\ size \in Nat /\ size <= vec[v]._nitems
        /\ vec[v]._nitems = size
        /\ n > vec[v]._max_nitems => b \in VecBuffer \ DOMAIN Vector!Now.mem
    BY NowSound, NewSound
  <2> HIDE DEF size
  <2> QED
    BY <2>1, ReservedSound
<1>3. Vector!Become(r)
  BY <1>1
<1> HIDE DEF r, size
<1>4. ItemsOf(r, v) = Vector!Items(v)
  BY <1>2, ItemsSound, NowSound, SeqEqual DEF size
<1> QED
  BY <1>2, <1>3, <1>4, OnlyOfChanged DEF VectorsKept, Vector!Abstract!Reserve, Vector!Abstract!Set

(* resize, of which vector(n) is a part: the items and as many T() as fit. *)
LEMMA ResizedSound ==
  ASSUME VecSound(Vector!Now), NEW v \in Vec, NEW n \in Nat, NEW b \in Vector!New(v, n)
  PROVE  LET r == Vector!Resized(v, n, b) IN
         /\ VecSound(r) /\ OnlyChanges(Vector!Now, r, v)
         /\ r.vec[v]._nitems = n
         /\ r.vec[v]._max_nitems >= vec[v]._max_nitems /\ r.vec[v]._max_nitems >= n
         /\ \A j \in 1 .. n : Vector!Slots(r, v)[j] =
              IF j <= Vector!Size(v) THEN Vector!Slots(Vector!Now, v)[j] ELSE Default
<1> DEFINE size == Vector!Size(v)
           m == Vector!Reserved(Vector!Now, v, n, size, b)
           s == [j \in 1 .. (n - size) |-> Default]
           r == Vector!Stored(m, v, size, s, n)
<1>1. /\ VecSound(m) /\ OnlyChanges(Vector!Now, m, v)
      /\ m.vec[v]._max_nitems >= vec[v]._max_nitems /\ m.vec[v]._max_nitems >= n
      /\ \A j \in 1 .. size : Vector!Slots(m, v)[j] = Vector!Slots(Vector!Now, v)[j]
  BY NowSound, NewSound, ReservedSound
<1>2. size \in Nat /\ vec[v]._max_nitems \in Nat /\ size <= vec[v]._max_nitems
  BY NowSound
<1>3. Vector!Resized(v, n, b) = r
  BY DEF Vector!Resized
<1>4. m.vec[v]._max_nitems \in Nat
  BY <1>1, SlotsSound
<1> HIDE DEF size, m
<1> DEFINE d == IF n > size THEN n - size ELSE 0
<1>5. /\ s \in Seq(Vector!Elem) /\ Len(s) = d /\ \A j \in 1 .. d : s[j] = Default
  <2>1. d \in Nat /\ 1 .. (n - size) = 1 .. d
    BY <1>2
  <2> HIDE DEF d
  <2>2. s \in [1 .. d -> Vector!Elem]
    BY <2>1, VectorParameters
  <2> QED
    <3> HIDE DEF s
    <3>1. s \in Seq(Vector!Elem)
      BY <2>1, <2>2, SeqDef
    <3>2. Len(s) = d
      BY <2>1, <2>2, <3>1, LenProperties
    <3>3. \A j \in 1 .. d : s[j] = Default
      BY <2>1 DEF s
    <3> QED
      BY <3>1, <3>2, <3>3
<1>6. d \in Nat /\ size + d <= m.vec[v]._max_nitems
  BY <1>1, <1>2, <1>4
<1> HIDE DEF s, r
<1>7. /\ VecSound(r) /\ OnlyChanges(m, r, v)
      /\ r.vec[v]._nitems = n /\ r.vec[v]._max_nitems = m.vec[v]._max_nitems
      /\ \A j \in 1 .. m.vec[v]._max_nitems : Vector!Slots(r, v)[j] =
           IF j \in size + 1 .. size + Len(s) THEN s[j - size] ELSE Vector!Slots(m, v)[j]
  <2>1. VecSound(m) /\ n <= m.vec[v]._max_nitems /\ size + Len(s) <= m.vec[v]._max_nitems
        /\ size \in Nat /\ s \in Seq(Vector!Elem)
    BY <1>1, <1>2, <1>5, <1>6
  <2> QED
    BY <2>1, StoredSound DEF r
<1>8. ASSUME NEW j \in 1 .. n
      PROVE  Vector!Slots(r, v)[j] =
               IF j <= size THEN Vector!Slots(Vector!Now, v)[j] ELSE Default
  <2>1. j \in 1 .. m.vec[v]._max_nitems
    BY <1>1, <1>4
  <2>2. CASE j <= size
    <3>1. j \notin size + 1 .. size + Len(s) /\ j \in 1 .. size
      BY <1>2, <1>5, <1>6, <2>2
    <3> QED
      BY <1>1, <1>7, <2>1, <2>2, <3>1
  <2>3. CASE ~(j <= size)
    <3>1. j \in size + 1 .. size + d /\ j - size \in 1 .. d
      BY <1>2, <2>3
    <3> QED
      BY <1>5, <1>7, <2>1, <2>3, <3>1
  <2> QED
    BY <2>2, <2>3
<1>9. OnlyChanges(Vector!Now, r, v)
  BY <1>1, <1>7, ChangesAddUp
<1> QED
  BY <1>1, <1>3, <1>7, <1>8, <1>9 DEF size
(* A step to a pair in which v has the items t is Set(v, t) to DynArray.   *)
LEMMA SetTrue ==
  ASSUME VecSound(Vector!Now), NEW r, NEW v \in Vec, VecSound(r),
         OnlyChanges(Vector!Now, r, v), r.vec[v]._max_nitems >= vec[v]._max_nitems,
         Vector!Become(r),
         NEW t \in Seq(Vector!Elem), Len(t) = r.vec[v]._nitems,
         \A j \in 1 .. Len(t) : Vector!Slots(r, v)[j] = t[j]
  PROVE  VectorsKept /\ Vector!Abstract!Set(v, t)
<1>1. ItemsOf(r, v) = t
  <2> DEFINE u == ItemsOf(r, v)
  <2>1. /\ u \in Seq(Vector!Elem) /\ Len(u) = Len(t)
        /\ \A j \in 1 .. Len(t) : u[j] = Vector!Slots(r, v)[j]
    BY ItemsSound
  <2> HIDE DEF u
  <2>2. \A j \in 1 .. Len(t) : u[j] = t[j]
    BY <2>1
  <2> QED
    BY <2>1, <2>2, SeqEqual DEF u
<1>2. /\ VecSound(After) /\ Unowned(After) = Unowned(Vector!Now)
      /\ Vector!Abstract!OnlyOf(v) /\ Vector!Items(v)' = t
  BY <1>1, OnlyOfChanged
<1> QED
  BY <1>2 DEF VectorsKept, Vector!Abstract!Set

(* q is the record r, but for a reference that was passed and deleted.     *)
Like(q, r) == q.vec = r.vec /\ q.mem = r.mem /\ (InBounds(r) => InBounds(q))

(* What is noted of a reference leaves the vectors and buffers alone.      *)
LEMMA AlsoLike ==
  ASSUME NEW r, r = [vec |-> r.vec, mem |-> r.mem, wrong |-> r.wrong],
         NEW k \in SUBSET {"argument"}
  PROVE  Like(Vector!Also(r, k), r)
<1> DEFINE q == [r EXCEPT !.wrong = @ \cup k]
<1>1. q.vec = r.vec /\ q.mem = r.mem /\ q.wrong = r.wrong \cup k
  OBVIOUS
<1>2. Vector!Also(r, k) = q
  BY DEF Vector!Also
<1> HIDE DEF q
<1> QED
  BY <1>1, <1>2 DEF Like, InBounds

(* Such a record is as sound as the other.                                 *)
LEMMA LikeSound ==
  ASSUME NEW r, VecSound(r), NEW q, Like(q, r)
  PROVE  /\ VecSound(q) /\ q.vec = r.vec /\ Unowned(q) = Unowned(r)
         /\ \A w \in Vec : Vector!Slots(q, w) = Vector!Slots(r, w) /\ ItemsOf(q, w) = ItemsOf(r, w)
         /\ \A v \in Vec : \A m : OnlyChanges(m, r, v) => OnlyChanges(m, q, v)
<1>1. q.vec = r.vec /\ q.mem = r.mem /\ InBounds(q)
  BY DEF Like, VecSound
<1>2. VecSound(q) /\ Unowned(q) = Unowned(r)
  BY <1>1 DEF VecSound, Unowned
<1>3. \A w \in Vec : Vector!Slots(q, w) = Vector!Slots(r, w)
  BY <1>1 DEF Vector!Slots
<1> QED
  BY <1>1, <1>2, <1>3 DEF ItemsOf, OnlyChanges

(* The same of a step to such a record.                                    *)
LEMMA SetLike ==
  ASSUME VecSound(Vector!Now), NEW r, NEW v \in Vec, VecSound(r),
         OnlyChanges(Vector!Now, r, v), r.vec[v]._max_nitems >= vec[v]._max_nitems,
         NEW q, Like(q, r), Vector!Become(q),
         NEW t \in Seq(Vector!Elem), Len(t) = r.vec[v]._nitems,
         \A j \in 1 .. Len(t) : Vector!Slots(r, v)[j] = t[j]
  PROVE  VectorsKept /\ Vector!Abstract!Set(v, t)
<1>1. /\ VecSound(q) /\ q.vec = r.vec /\ OnlyChanges(Vector!Now, q, v)
      /\ Vector!Slots(q, v) = Vector!Slots(r, v)
  BY LikeSound
<1>2. /\ q.vec[v]._max_nitems >= vec[v]._max_nitems /\ Len(t) = q.vec[v]._nitems
      /\ \A j \in 1 .. Len(t) : Vector!Slots(q, v)[j] = t[j]
  BY <1>1
<1> QED
  BY <1>1, <1>2, SetTrue

(* resize() drops items from the end, or adds default ones there.          *)
LEMMA ResizeTrue ==
  ASSUME VecSound(Vector!Now), NEW v \in Vec, NEW n \in Nat, Vector!Resize(v, n)
  PROVE  VectorsKept /\ Vector!Abstract!Resize(v, n)
<1> DEFINE size == Vector!Size(v)
           it == Vector!Items(v)
           more == [j \in 1 .. (n - size) |-> Default]
           t == IF n <= size THEN SubSeq(it, 1, n) ELSE it \o more
<1>1. PICK b \in Vector!New(v, n) : Vector!Become(Vector!Resized(v, n, b))
  BY DEF Vector!Resize
<1> DEFINE r == Vector!Resized(v, n, b)
<1>2. /\ VecSound(r) /\ OnlyChanges(Vector!Now, r, v) /\ r.vec[v]._nitems = n
      /\ r.vec[v]._max_nitems >= vec[v]._max_nitems
      /\ \A j \in 1 .. n : Vector!Slots(r, v)[j] =
           IF j <= size THEN Vector!Slots(Vector!Now, v)[j] ELSE Default
  BY ResizedSound
<1>3. Vector!Become(r)
  BY <1>1
<1>4. /\ it \in Seq(Vector!Elem) /\ Len(it) = size /\ size \in Nat
      /\ \A j \in 1 .. size : it[j] = Vector!Slots(Vector!Now, v)[j]
  BY NowSound
<1> HIDE DEF r, size, it
<1>5. t \in Seq(Vector!Elem) /\ Len(t) = n
      /\ \A j \in 1 .. n : t[j] = IF j <= size THEN it[j] ELSE Default
  <2>1. CASE n <= size
    <3>1. SubSeq(it, 1, n) \in Seq(Vector!Elem) /\ Len(SubSeq(it, 1, n)) = n
          /\ \A j \in 1 .. n : SubSeq(it, 1, n)[j] = it[j] /\ j <= size
      BY <1>4, <2>1
    <3> QED
      BY <2>1, <3>1
  <2>2. CASE ~(n <= size)
    <3> DEFINE d == n - size
    <3>1. d \in Nat /\ n = size + d
      BY <1>4, <2>2
    <3>2. more \in [1 .. d -> Vector!Elem] /\ \A j \in 1 .. d : more[j] = Default
      BY VectorParameters
    <3> HIDE DEF more, d
    <3>3. more \in Seq(Vector!Elem)
      BY <3>1, <3>2, SeqDef
    <3>4. Len(more) = d
      BY <3>1, <3>2, <3>3, LenProperties
    <3>5. it \o more \in Seq(Vector!Elem) /\ Len(it \o more) = size + d
          /\ \A j \in 1 .. (size + d) :
               (it \o more)[j] = IF j <= size THEN it[j] ELSE more[j - size]
      BY <1>4, <3>1, <3>3, <3>4, ConcatProperties
    <3>6. \A j \in 1 .. n : ~(j <= size) => j - size \in 1 .. d
      BY <1>4, <3>1
    <3> QED
      BY <2>2, <3>1, <3>2, <3>5, <3>6
  <2> QED
    BY <2>1, <2>2
<1> HIDE DEF t
<1>6. \A j \in 1 .. Len(t) : Vector!Slots(r, v)[j] = t[j]
  <2>1. \A j \in 1 .. n : j <= size => j \in 1 .. size
    BY <1>4
  <2> QED
    BY <1>2, <1>4, <1>5, <2>1
<1>7. VectorsKept /\ Vector!Abstract!Set(v, t)
  BY <1>2, <1>3, <1>5, <1>6, SetTrue
<1>8. Vector!Abstract!Set(v, t) => Vector!Abstract!Resize(v, n)
  BY <1>4 DEF Vector!Abstract!Resize, Vector!Abstract!Front_, t, it, size
<1> QED
  BY <1>7, <1>8

(* push_back, of a value or of what a reference to an item finds: x.       *)
LEMMA PushedTrue ==
  ASSUME VecSound(Vector!Now), NEW v \in Vec, NEW x \in Vector!Elem,
         NEW b \in Vector!New(v, Vector!Size(v) + 1),
         NEW q, Like(q, Vector!Pushed(v, x, b)), Vector!Become(q)
  PROVE  VectorsKept /\ Vector!Abstract!Set(v, Append(Vector!Items(v), x))
<1> DEFINE size == Vector!Size(v)
           it == Vector!Items(v)
           m == Vector!Reserved(Vector!Now, v, size + 1, size, b)
           r == Vector!Stored(m, v, size, <<x>>, size + 1)
           t == Append(it, x)
<1>1. /\ it \in Seq(Vector!Elem) /\ Len(it) = size /\ size \in Nat
      /\ Vector!Now.vec = vec /\ vec[v]._nitems = size
      /\ \A j \in 1 .. size : it[j] = Vector!Slots(Vector!Now, v)[j]
      /\ size + 1 > vec[v]._max_nitems => b \in VecBuffer \ DOMAIN Vector!Now.mem
  BY NowSound, NewSound
<1>2. Vector!Become(q) /\ Like(q, r)
  BY DEF Vector!Pushed
<1> HIDE DEF size, it, r
<1>3. /\ VecSound(m) /\ OnlyChanges(Vector!Now, m, v)
      /\ m.vec[v]._max_nitems >= vec[v]._max_nitems /\ m.vec[v]._max_nitems >= size + 1
      /\ \A j \in 1 .. size : Vector!Slots(m, v)[j] = Vector!Slots(Vector!Now, v)[j]
  <2>1. size + 1 \in Nat /\ size <= Vector!Now.vec[v]._nitems
    BY <1>1
  <2> QED
    BY <1>1, <2>1, ReservedSound
<1>4. m.vec[v]._max_nitems \in Nat
  BY <1>3, SlotsSound
<1> HIDE DEF m
<1>5. <<x>> \in Seq(Vector!Elem) /\ Len(<<x>>) = 1 /\ <<x>>[1] = x
  OBVIOUS
<1>6. /\ VecSound(r) /\ OnlyChanges(m, r, v)
      /\ r.vec[v]._nitems = size + 1 /\ r.vec[v]._max_nitems = m.vec[v]._max_nitems
      /\ \A j \in 1 .. m.vec[v]._max_nitems : Vector!Slots(r, v)[j] =
           IF j \in size + 1 .. size + 1 THEN <<x>>[j - size] ELSE Vector!Slots(m, v)[j]
  <2> DEFINE s == <<x>>
             e == size + 1
  <2>1. s \in Seq(Vector!Elem) /\ Len(s) = 1
    BY <1>5
  <2> HIDE DEF s
  <2>2. e \in Nat /\ e <= m.vec[v]._max_nitems /\ size + Len(s) <= m.vec[v]._max_nitems
        /\ size \in Nat /\ s \in Seq(Vector!Elem) /\ VecSound(m)
    BY <1>1, <1>3, <2>1
  <2> HIDE DEF e
  <2>3. LET p == Vector!Stored(m, v, size, s, e) IN
        /\ VecSound(p) /\ OnlyChanges(m, p, v)
        /\ p.vec[v]._nitems = e /\ p.vec[v]._max_nitems = m.vec[v]._max_nitems
        /\ \A j \in 1 .. m.vec[v]._max_nitems : Vector!Slots(p, v)[j] =
             IF j \in size + 1 .. size + Len(s) THEN s[j - size] ELSE Vector!Slots(m, v)[j]
    BY <2>2, StoredSound
  <2> QED
    BY <2>1, <2>3 DEF r, s, e
<1>7. /\ t \in Seq(Vector!Elem) /\ Len(t) = size + 1
      /\ \A j \in 1 .. (size + 1) : t[j] = IF j = size + 1 THEN x ELSE it[j]
  BY <1>1, AppendProperties
<1> HIDE DEF t
<1>8. ASSUME NEW j \in 1 .. (size + 1)  PROVE Vector!Slots(r, v)[j] = t[j]
  <2>1. j \in 1 .. m.vec[v]._max_nitems
    BY <1>1, <1>3, <1>4
  <2>2. CASE j = size + 1
    <3>1. j \in size + 1 .. size + 1 /\ j - size = 1
      BY <1>1, <2>2
    <3> QED
      BY <1>5, <1>6, <1>7, <2>1, <2>2, <3>1
  <2>3. CASE j # size + 1
    <3>1. j \notin size + 1 .. size + 1 /\ j \in 1 .. size
      BY <1>1, <2>3
    <3> QED
      BY <1>1, <1>3, <1>6, <1>7, <2>1, <2>3, <3>1
  <2> QED
    BY <2>2, <2>3
<1>9. OnlyChanges(Vector!Now, r, v)
  BY <1>3, <1>6, ChangesAddUp
<1>10. VectorsKept /\ Vector!Abstract!Set(v, t)
  <2>1. Len(t) = r.vec[v]._nitems /\ r.vec[v]._max_nitems >= vec[v]._max_nitems
        /\ \A j \in 1 .. Len(t) : Vector!Slots(r, v)[j] = t[j]
    BY <1>3, <1>6, <1>7, <1>8
  <2> QED
    BY <1>2, <1>6, <1>7, <1>9, <2>1, SetLike
<1> QED
  BY <1>10 DEF t, it

(* push_back() of a value that lies outside of the vector.                 *)
LEMMA PushBackTrue ==
  ASSUME VecSound(Vector!Now), NEW v \in Vec, NEW x \in Vals, Vector!PushBack(v, x)
  PROVE  VectorsKept /\ Vector!Abstract!Push(v, x)
<1>1. PICK b \in Vector!New(v, Vector!Size(v) + 1) : Vector!Become(Vector!Pushed(v, x, b))
  BY DEF Vector!PushBack
<1>2. Like(Vector!Pushed(v, x, b), Vector!Pushed(v, x, b))
  BY DEF Like
<1> QED
  BY <1>1, <1>2, PushedTrue, VectorParameters DEF Vector!Abstract!Push

(* A buffer that _reserve has replaced is gone.                            *)
LEMMA OldGone ==
  ASSUME NEW v \in Vec, NEW n \in Nat, NEW c, NEW b, ~(n <= vec[v]._max_nitems)
  PROVE  vec[v]._data \notin DOMAIN Vector!Reserved(Vector!Now, v, n, c, b).mem
<1> DEFINE f == Vector!With(mem, b, [i \in 1 .. Vector!Grown(n) |->
                    IF i <= c THEN Vector!Slots(Vector!Now, v)[i] ELSE Raw])
           a == vec[v]._data
<1>1. Vector!Reserved(Vector!Now, v, n, c, b).mem = Vector!Without(f, a)
  BY DEF Vector!Reserved, Vector!Now
<1> HIDE DEF f
<1> QED
  BY <1>1 DEF Vector!Without

(* What ImplementsDynArray says of push_back(v[k]).                        *)
OwnPushed(v, k) ==
  IF Vector!Abstract!Fits(v, 1) THEN Vector!Abstract!Push(v, Vector!Items(v)[k])
  ELSE \E x \in Vector!Elem : Vector!Abstract!Push(v, x)

(* When the reference stayed valid it found the item.                      *)
LEMMA PushBackOwnTrue ==
  ASSUME VecSound(Vector!Now), NEW v \in Vec, NEW i \in 1 .. Vector!Size(v),
         Vector!PushBackOwn(v, i)
  PROVE  VectorsKept /\ OwnPushed(v, i)
<1> DEFINE size == Vector!Size(v)
           now == Vector!Now
           a == vec[v]._data
<1>1. PICK b \in Vector!New(v, size + 1) :
        \E x \in Vector!Referred(Vector!Reserved(now, v, size + 1, size, b), v, i) :
          Vector!Become(Vector!Also(Vector!Pushed(v, x, b),
                          Vector!Referring(Vector!Reserved(now, v, size + 1, size, b), v)))
  BY DEF Vector!PushBackOwn
<1> DEFINE room == Vector!Reserved(now, v, size + 1, size, b)
<1>2. PICK x \in Vector!Referred(room, v, i) :
        Vector!Become(Vector!Also(Vector!Pushed(v, x, b), Vector!Referring(room, v)))
  BY <1>1
<1>3. /\ size \in Nat /\ vec[v]._max_nitems \in Nat /\ size <= vec[v]._max_nitems
      /\ now.vec = vec /\ now.mem = mem /\ Len(Vector!Items(v)) = size
      /\ \A j \in 1 .. size : Vector!Items(v)[j] = Vector!Slots(now, v)[j]
                             /\ Vector!Items(v)[j] \in Vector!Elem
  BY NowSound
<1>4. size # 0 /\ vec[v]._max_nitems # 0
  BY <1>3
<1>5. ASSUME size + 1 <= vec[v]._max_nitems
      PROVE  x = Vector!Items(v)[i] /\ x \in Vector!Elem
  <2>1. room = now
    BY <1>3, <1>5 DEF Vector!Reserved
  <2>2. a \in DOMAIN mem /\ Vector!Slots(now, v) = mem[a]
    <3>1. a # null
      BY <1>3, <1>4, SlotsSound
    <3> QED
      BY <1>3, <3>1, SlotsPlace DEF VecSound
  <2>3. x = Vector!Items(v)[i] /\ x \in Vector!Elem
    <3>1. x = room.mem[a][i]
      BY <1>3, <2>1, <2>2 DEF Vector!Referred
    <3> QED
      BY <1>3, <2>1, <2>2, <3>1
  <2> QED
    BY <2>3
<1>6. ASSUME ~(size + 1 <= vec[v]._max_nitems)  PROVE x \in Vector!Elem
  <2>1. a \notin DOMAIN room.mem
    BY <1>3, <1>6, OldGone
  <2> HIDE DEF room
  <2> QED
    BY <2>1 DEF Vector!Referred
<1> DEFINE k == Vector!Referring(room, v)
           p == Vector!Pushed(v, x, b)
<1>7. k \in SUBSET {"argument"}
  BY DEF Vector!Referring
<1>8. p = [vec |-> p.vec, mem |-> p.mem, wrong |-> p.wrong]
  BY DEF Vector!Pushed, Vector!Stored
<1>9. Vector!Become(Vector!Also(p, k))
  BY <1>2
<1> HIDE DEF k, p
<1>10. Like(Vector!Also(p, k), p)
  BY <1>7, <1>8, AlsoLike
<1>11. x \in Vector!Elem
  BY <1>5, <1>6
<1>12. VectorsKept /\ Vector!Abstract!Set(v, Append(Vector!Items(v), x))
  BY <1>9, <1>10, <1>11, PushedTrue DEF p
<1>13. Vector!Abstract!Fits(v, 1) => x = Vector!Items(v)[i]
  <2>1. Vector!Abstract!Fits(v, 1) => size + 1 <= vec[v]._max_nitems
    BY <1>3 DEF Vector!Abstract!Fits
  <2> QED
    BY <1>5, <2>1
<1> QED
  BY <1>11, <1>12, <1>13 DEF Vector!Abstract!Push, OwnPushed

(* The first n slots of v, with s stored from index i on, hold t.          *)
HoldAfterStore(v, i, s, n, t) ==
  \A j \in 1 .. n : t[j] = IF j \in i + 1 .. i + Len(s) THEN s[j - i]
                           ELSE Vector!Slots(Vector!Now, v)[j]

(* Items moved within the capacity of v, or stored into it.                *)
LEMMA StoreTrue ==
  ASSUME VecSound(Vector!Now), NEW v \in Vec, NEW i \in Nat, NEW s \in Seq(Vector!Elem),
         NEW n \in Nat, n <= vec[v]._max_nitems, i + Len(s) <= vec[v]._max_nitems,
         Vector!Become(Vector!Stored(Vector!Now, v, i, s, n)),
         NEW t \in Seq(Vector!Elem), Len(t) = n, HoldAfterStore(v, i, s, n, t)
  PROVE  VectorsKept /\ Vector!Abstract!Set(v, t)
<1> DEFINE m == Vector!Now
           r == Vector!Stored(m, v, i, s, n)
<1>1. m.vec = vec /\ vec[v]._max_nitems \in Nat /\ VecSound(m)
  BY NowSound
<1>2. /\ VecSound(r) /\ OnlyChanges(m, r, v)
      /\ r.vec[v]._nitems = n /\ r.vec[v]._max_nitems = vec[v]._max_nitems
      /\ \A j \in 1 .. vec[v]._max_nitems : Vector!Slots(r, v)[j] =
           IF j \in i + 1 .. i + Len(s) THEN s[j - i] ELSE Vector!Slots(m, v)[j]
  <2> HIDE DEF m
  <2>1. n <= m.vec[v]._max_nitems /\ i + Len(s) <= m.vec[v]._max_nitems
    BY <1>1
  <2> QED
    BY <1>1, <2>1, StoredSound
<1>3. Vector!Become(r)
  OBVIOUS
<1> HIDE DEF r
<1>4. \A j \in 1 .. Len(t) : Vector!Slots(r, v)[j] = t[j]
  <2>1. \A j \in 1 .. Len(t) : j \in 1 .. vec[v]._max_nitems
    BY <1>1
  <2> QED
    BY <1>2, <2>1 DEF HoldAfterStore
<1>5. Len(t) = r.vec[v]._nitems /\ r.vec[v]._max_nitems >= vec[v]._max_nitems
  BY <1>1, <1>2
<1> HIDE DEF m
<1> QED
  <2>1. VecSound(m) /\ VecSound(r) /\ OnlyChanges(m, r, v)
    BY <1>1, <1>2
  <2> QED
    BY <1>3, <1>4, <1>5, <2>1, SetTrue DEF m

(* pop_back releases the last item: Erase of it.                           *)
LEMMA PopBackTrue ==
  ASSUME VecSound(Vector!Now), NEW v \in Vec, Vector!Size(v) # 0, Vector!PopBack(v)
  PROVE  VectorsKept /\ Vector!Abstract!Erase(v, Vector!Size(v))
<1> DEFINE size == Vector!Size(v)
           it == Vector!Items(v)
           t == SubSeq(it, 1, size - 1)
           s == <<Default>>
<1>1. /\ it \in Seq(Vector!Elem) /\ Len(it) = size /\ size \in Nat /\ size # 0
      /\ vec[v]._max_nitems \in Nat /\ size <= vec[v]._max_nitems
      /\ \A j \in 1 .. size : it[j] = Vector!Slots(Vector!Now, v)[j]
  BY NowSound
<1>2. Vector!Become(Vector!Stored(Vector!Now, v, size - 1, s, size - 1))
  BY DEF Vector!PopBack
<1>3. s \in Seq(Vector!Elem) /\ Len(s) = 1
  BY VectorParameters
<1> HIDE DEF size, it, s
<1> DEFINE n == size - 1
<1>4. n \in Nat /\ n <= vec[v]._max_nitems /\ n + Len(s) <= vec[v]._max_nitems /\ n < size
  BY <1>1, <1>3
<1>5. /\ t \in Seq(Vector!Elem) /\ Len(t) = n
      /\ \A j \in 1 .. n : t[j] = it[j] /\ j \in 1 .. size
  BY <1>1, <1>4
<1>6. Vector!Become(Vector!Stored(Vector!Now, v, n, s, n))
  BY <1>2
<1>7. Vector!Abstract!Set(v, t) => Vector!Abstract!Erase(v, size)
  <2>1. SubSeq(it, size + 1, Len(it)) = << >>
    BY <1>1
  <2>2. t \o << >> = t
    BY <1>5
  <2> QED
    BY <2>1, <2>2 DEF Vector!Abstract!Erase, Vector!Abstract!Front_, Vector!Abstract!Back, it
<1> HIDE DEF n, t
<1>8. HoldAfterStore(v, n, s, n, t)
  BY <1>1, <1>4, <1>5 DEF HoldAfterStore
<1>9. VectorsKept /\ Vector!Abstract!Set(v, t)
  BY <1>3, <1>4, <1>5, <1>6, <1>8, StoreTrue
<1> QED
  BY <1>7, <1>9 DEF size

(* erase moves the items behind the erased one and releases the last.      *)
LEMMA EraseTrue ==
  ASSUME VecSound(Vector!Now), NEW v \in Vec, NEW i \in 0 .. (Vector!Size(v) - 1),
         Vector!Erase(v, i)
  PROVE  VectorsKept /\ Vector!Abstract!Erase(v, i + 1)
<1> DEFINE size == Vector!Size(v)
           it == Vector!Items(v)
           released == [it EXCEPT ![i + 1] = Default]
           s == SubSeq(released, i + 2, size) \o <<released[size]>>
           t == SubSeq(it, 1, i) \o SubSeq(it, i + 2, Len(it))
           n == size - 1
<1>1. /\ it \in Seq(Vector!Elem) /\ Len(it) = size /\ size \in Nat /\ i \in Nat /\ i < size
      /\ vec[v]._max_nitems \in Nat /\ size <= vec[v]._max_nitems
      /\ \A j \in 1 .. size : it[j] = Vector!Slots(Vector!Now, v)[j]
  BY NowSound
<1>2. Vector!Become(Vector!Stored(Vector!Now, v, i, s, n))
  BY DEF Vector!Erase
<1> HIDE DEF size, it
<1>3. /\ released \in Seq(Vector!Elem) /\ Len(released) = size
      /\ \A j \in 1 .. size : j # i + 1 => released[j] = it[j]
      /\ released[size] \in Vector!Elem
  <2>1. released \in Seq(Vector!Elem) /\ Len(released) = size
        /\ \A j \in 1 .. size : j # i + 1 => released[j] = it[j]
    BY <1>1, VectorParameters
  <2> HIDE DEF released
  <2>2. released[size] \in Vector!Elem
    BY <1>1, <2>1, ElementOfSeq
  <2> QED
    BY <2>1, <2>2
<1> HIDE DEF released
<1>4. /\ s \in Seq(Vector!Elem) /\ Len(s) = size - i
      /\ \A j \in 1 .. (size - i - 1) : s[j] = released[i + 1 + j]
  <2> DEFINE d == size - i - 1
             p == SubSeq(released, i + 2, size)
             q == <<released[size]>>
  <2>1. d \in Nat
    BY <1>1
  <2>2. p \in Seq(Vector!Elem) /\ Len(p) = d /\ \A j \in 1 .. d : p[j] = released[i + 1 + j]
    <3>1. /\ p \in Seq(Vector!Elem)
          /\ Len(p) = IF i + 2 <= size THEN size - (i + 2) + 1 ELSE 0
          /\ \A j \in 1 .. (size - (i + 2) + 1) : p[j] = released[(i + 2) + j - 1]
      BY <1>1, <1>3, SMTT(60)
    <3> HIDE DEF p
    <3>2. Len(p) = d /\ \A j \in 1 .. d : (i + 2) + j - 1 = i + 1 + j
      BY <1>1, <3>1
    <3> QED
      BY <1>1, <3>1, <3>2
  <2>3. q \in Seq(Vector!Elem) /\ Len(q) = 1
    BY <1>3
  <2> HIDE DEF p, q, d
  <2>4. p \o q \in Seq(Vector!Elem) /\ Len(p \o q) = d + 1
        /\ \A j \in 1 .. d : (p \o q)[j] = p[j]
    <3>1. /\ p \o q \in Seq(Vector!Elem) /\ Len(p \o q) = Len(p) + Len(q)
          /\ \A j \in 1 .. (Len(p) + Len(q)) :
               (p \o q)[j] = IF j <= Len(p) THEN p[j] ELSE q[j - Len(p)]
      BY <2>2, <2>3, ConcatProperties
    <3> QED
      BY <2>1, <2>2, <2>3, <3>1
  <2> QED
    BY <1>1, <2>2, <2>4 DEF p, q, d
<1> HIDE DEF s
<1>5. /\ t \in Seq(Vector!Elem) /\ Len(t) = n
      /\ \A j \in 1 .. n : t[j] = IF j <= i THEN it[j] ELSE it[j + 1]
  <2> DEFINE p == SubSeq(it, 1, i)
             q == SubSeq(it, i + 2, Len(it))
             d == size - i - 1
  <2>1. d \in Nat /\ n = i + d
    BY <1>1
  <2>2. p \in Seq(Vector!Elem) /\ Len(p) = i /\ \A j \in 1 .. i : p[j] = it[j]
    BY <1>1
  <2>3. q \in Seq(Vector!Elem) /\ Len(q) = d /\ \A j \in 1 .. d : q[j] = it[i + 1 + j]
    <3>1. /\ q \in Seq(Vector!Elem)
          /\ Len(q) = IF i + 2 <= size THEN size - (i + 2) + 1 ELSE 0
          /\ \A j \in 1 .. (size - (i + 2) + 1) : q[j] = it[(i + 2) + j - 1]
      BY <1>1
    <3> HIDE DEF q
    <3>2. Len(q) = d /\ \A j \in 1 .. d : (i + 2) + j - 1 = i + 1 + j
      BY <1>1, <3>1
    <3> QED
      BY <1>1, <3>1, <3>2
  <2> HIDE DEF p, q, d
  <2>4. p \o q \in Seq(Vector!Elem) /\ Len(p \o q) = i + d
        /\ \A j \in 1 .. (i + d) : (p \o q)[j] = IF j <= i THEN p[j] ELSE q[j - i]
    <3>1. /\ p \o q \in Seq(Vector!Elem) /\ Len(p \o q) = Len(p) + Len(q)
          /\ \A j \in 1 .. (Len(p) + Len(q)) :
               (p \o q)[j] = IF j <= Len(p) THEN p[j] ELSE q[j - Len(p)]
      BY <2>2, <2>3, ConcatProperties
    <3> QED
      BY <2>2, <2>3, <3>1
  <2>5. \A j \in 1 .. n : (j <= i => j \in 1 .. i)
          /\ (~(j <= i) => j - i \in 1 .. d /\ i + 1 + (j - i) = j + 1)
    BY <1>1, <2>1
  <2> QED
    BY <2>1, <2>2, <2>3, <2>4, <2>5 DEF p, q
<1>6. Vector!Abstract!Set(v, t) => Vector!Abstract!Erase(v, i + 1)
  <2>1. (i + 1) - 1 = i /\ (i + 1) + 1 = i + 2
    BY <1>1
  <2> QED
    BY <2>1 DEF Vector!Abstract!Erase, Vector!Abstract!Front_, Vector!Abstract!Back, it
<1> HIDE DEF t
<1>7. ASSUME NEW j \in 1 .. n
      PROVE  t[j] = IF j \in i + 1 .. i + Len(s) THEN s[j - i] ELSE Vector!Slots(Vector!Now, v)[j]
  <2>1. CASE j <= i
    <3>1. j \notin i + 1 .. i + Len(s) /\ j \in 1 .. size
      BY <1>1, <2>1
    <3> QED
      BY <1>1, <1>5, <2>1, <3>1
  <2>2. CASE ~(j <= i)
    <3>1. /\ j \in i + 1 .. i + (size - i) /\ j - i \in 1 .. (size - i - 1)
          /\ i + 1 + (j - i) = j + 1 /\ j + 1 \in 1 .. size /\ j + 1 # i + 1
      BY <1>1, <2>2
    <3> QED
      BY <1>3, <1>4, <1>5, <2>2, <3>1
  <2> QED
    BY <2>1, <2>2
<1>8. n \in Nat /\ n <= vec[v]._max_nitems /\ i + Len(s) <= vec[v]._max_nitems
  BY <1>1, <1>4
<1> HIDE DEF n
<1>9. HoldAfterStore(v, i, s, n, t)
  BY <1>7 DEF HoldAfterStore
<1>10. VectorsKept /\ Vector!Abstract!Set(v, t)
  BY <1>1, <1>2, <1>4, <1>5, <1>8, <1>9, StoreTrue
<1> QED
  BY <1>6, <1>10
(* A vector with room for t is filled with it.                             *)
LEMMA FilledTrue ==
  ASSUME VecSound(Vector!Now), NEW v \in Vec, NEW m, VecSound(m),
         OnlyChanges(Vector!Now, m, v), m.vec[v]._max_nitems >= vec[v]._max_nitems,
         NEW t \in Seq(Vector!Elem), Len(t) <= m.vec[v]._max_nitems,
         NEW q, Like(q, Vector!Stored(m, v, 0, t, Len(t))), Vector!Become(q)
  PROVE  VectorsKept /\ Vector!Abstract!Set(v, t)
<1> DEFINE n == Len(t)
           z == 0
           r == Vector!Stored(m, v, z, t, n)
<1>1. n \in Nat /\ z \in Nat /\ z + Len(t) <= m.vec[v]._max_nitems /\ n <= m.vec[v]._max_nitems
      /\ m.vec[v]._max_nitems \in Nat
  BY SlotsSound, LenProperties
<1>2. Vector!Become(q) /\ Like(q, r)
  OBVIOUS
<1> HIDE DEF n, z, r
<1>3. /\ VecSound(r) /\ OnlyChanges(m, r, v)
      /\ r.vec[v]._nitems = n /\ r.vec[v]._max_nitems = m.vec[v]._max_nitems
      /\ \A j \in 1 .. m.vec[v]._max_nitems : Vector!Slots(r, v)[j] =
           IF j \in z + 1 .. z + Len(t) THEN t[j - z] ELSE Vector!Slots(m, v)[j]
  BY <1>1, StoredSound, SMTT(60) DEF r
<1>4. \A j \in 1 .. Len(t) : Vector!Slots(r, v)[j] = t[j]
  <2>1. \A j \in 1 .. Len(t) : /\ j \in 1 .. m.vec[v]._max_nitems
                               /\ j \in z + 1 .. z + Len(t) /\ j - z = j
    BY <1>1 DEF z, n
  <2> QED
    BY <1>3, <2>1
<1>5. OnlyChanges(Vector!Now, r, v)
  BY <1>3, ChangesAddUp
<1>6. Len(t) = r.vec[v]._nitems /\ r.vec[v]._max_nitems >= vec[v]._max_nitems
  BY <1>1, <1>3 DEF n
<1> QED
  BY <1>2, <1>3, <1>4, <1>5, <1>6, SetLike

(* operator=(const vector&): the items of the other one, in a buffer       *)
(* kept or replaced; from itself nothing changes.                          *)
LEMMA CopyAssignTrue ==
  ASSUME VecSound(Vector!Now), NEW v \in Vec, NEW w \in Vec, Vector!CopyAssign(v, w)
  PROVE  VectorsKept /\ Vector!Abstract!Copy(v, w)
<1> DEFINE n == Vector!Size(w)
           t == Vector!Items(w)
<1>1. PICK b \in Vector!New(v, n) :
        Vector!Become(Vector!Also(
          Vector!Stored(Vector!Reserved(Vector!Now, v, n, 0, b), v, 0, t, n),
          Vector!Touching(Vector!Reserved(Vector!Now, v, n, 0, b), "read", w, n)))
  BY DEF Vector!CopyAssign
<1> DEFINE m == Vector!Reserved(Vector!Now, v, n, 0, b)
           s == Vector!Stored(m, v, 0, t, n)
           k == Vector!Touching(m, "read", w, n)
<1>6. s = [vec |-> s.vec, mem |-> s.mem, wrong |-> s.wrong]
  BY DEF Vector!Stored
<1>7. Vector!Become(Vector!Also(s, k)) /\ vec[w]._nitems = n
  BY <1>1 DEF Vector!Size
<1>2. n \in Nat /\ t \in Seq(Vector!Elem) /\ Len(t) = n
  BY NowSound
<1> HIDE DEF n, t
<1>3. /\ VecSound(m) /\ OnlyChanges(Vector!Now, m, v)
      /\ m.vec[v]._max_nitems >= vec[v]._max_nitems /\ m.vec[v]._max_nitems >= n
  <2> DEFINE z == 0
  <2>3. Vector!Now.vec = vec /\ vec[v]._nitems \in Nat /\ vec[v]._max_nitems \in Nat
    BY NowSound
  <2>4. n > vec[v]._max_nitems => b \in VecBuffer \ DOMAIN Vector!Now.mem
    BY <1>2, <2>3, NewSound
  <2>1. /\ Vector!Now.vec = vec /\ z \in Nat /\ z <= vec[v]._nitems
        /\ n > vec[v]._max_nitems => b \in VecBuffer \ DOMAIN Vector!Now.mem
    BY <2>3, <2>4
  <2> HIDE DEF z
  <2>2. LET r == Vector!Reserved(Vector!Now, v, n, z, b) IN
        /\ VecSound(r) /\ OnlyChanges(Vector!Now, r, v)
        /\ r.vec[v]._max_nitems >= vec[v]._max_nitems /\ r.vec[v]._max_nitems >= n
    BY <1>2, <2>1, ReservedSound
  <2> QED
    BY <2>2 DEF z
<1>4. Len(t) <= m.vec[v]._max_nitems
  <2>1. m.vec[v]._max_nitems \in Nat
    BY <1>3, SlotsSound
  <2> QED
    BY <1>2, <1>3, <2>1
<1>8. k = {}
  <2>1. n <= m.vec[w]._max_nitems /\ m.vec[w]._max_nitems \in Nat
    <3>1. n <= vec[w]._max_nitems /\ vec[w]._max_nitems \in Nat
      BY <1>7, NowSound
    <3>2. w # v => m.vec[w] = vec[w]
      BY <1>3 DEF OnlyChanges, Vector!Now
    <3>3. m.vec[w]._max_nitems \in Nat
      BY <1>3, SlotsSound
    <3> HIDE DEF m
    <3> QED
      BY <1>2, <1>3, <3>1, <3>2, <3>3
  <2>2. n <= Len(Vector!Slots(m, w))
    BY <1>3, <2>1, SlotsPlace
  <2> HIDE DEF m
  <2> QED
    BY <2>2 DEF Vector!Touching
<1> HIDE DEF m, s, k
<1>9. Like(Vector!Also(s, k), s)
  BY <1>6, <1>8, AlsoLike
<1>10. s = Vector!Stored(m, v, 0, t, Len(t))
  BY <1>2 DEF s
<1>5. VectorsKept /\ Vector!Abstract!Set(v, t)
  BY <1>2, <1>3, <1>4, <1>7, <1>9, <1>10, FilledTrue
<1> QED
  BY <1>5 DEF Vector!Abstract!Copy, t

(* An empty vector is constructed from s.                                  *)
LEMMA ConstructTrue ==
  ASSUME VecSound(Vector!Now), NEW v \in Vec, NEW s \in Ranges, Vector!Construct(v, s)
  PROVE  VectorsKept /\ Vector!Abstract!Construct(v, s)
<1>1. PICK b \in Vector!New(v, Len(s)) :
        Vector!Become(Vector!Stored(Vector!Resized(v, Len(s), b), v, 0, s, Len(s)))
  BY DEF Vector!Construct
<1> DEFINE m == Vector!Resized(v, Len(s), b)
<1>2. s \in Seq(Vector!Elem) /\ Len(s) \in Nat /\ s # << >>
  <2>1. s \in Seq(Vals) /\ s # << >>
    BY VectorParameters
  <2> QED
    BY <2>1, VectorParameters, SeqMonotonic, LenProperties
<1>3. /\ VecSound(m) /\ OnlyChanges(Vector!Now, m, v)
      /\ m.vec[v]._max_nitems >= vec[v]._max_nitems /\ m.vec[v]._max_nitems >= Len(s)
  BY <1>2, ResizedSound
<1>4. Len(s) <= m.vec[v]._max_nitems /\ Vector!Become(Vector!Stored(m, v, 0, s, Len(s)))
  <2>1. m.vec[v]._max_nitems \in Nat
    BY <1>3, SlotsSound
  <2> QED
    BY <1>1, <1>2, <1>3, <2>1
<1> HIDE DEF m
<1>5. Like(Vector!Stored(m, v, 0, s, Len(s)), Vector!Stored(m, v, 0, s, Len(s)))
  BY DEF Like
<1>6. VectorsKept /\ Vector!Abstract!Set(v, s)
  BY <1>2, <1>3, <1>4, <1>5, FilledTrue
<1> QED
  BY <1>6 DEF Vector!Abstract!Construct

(* What SubSeq leaves of a sequence behind its first i elements.           *)
LEMMA TailOf ==
  ASSUME NEW S, NEW q \in Seq(S), NEW i \in Nat, i <= Len(q)
  PROVE  /\ SubSeq(q, i + 1, Len(q)) \in Seq(S) /\ Len(SubSeq(q, i + 1, Len(q))) = Len(q) - i
         /\ \A j \in 1 .. (Len(q) - i) : SubSeq(q, i + 1, Len(q))[j] = q[i + j]
<1> DEFINE m == i + 1
           n == Len(q)
<1>1. m \in Int /\ n \in Nat /\ m <= n + 1 /\ \A j \in m .. n : q[j] \in S
  <2>1. n \in Nat /\ \A j \in 1 .. n : q[j] \in S
    BY LenProperties, ElementOfSeq
  <2>2. \A j \in m .. n : j \in 1 .. n
    BY <2>1
  <2> QED
    BY <2>1, <2>2
<1>2. n - m + 1 = n - i /\ \A j \in 1 .. (n - i) : m + j - 1 = i + j
  BY <1>1
<1>3. (IF m <= n THEN n - m + 1 ELSE 0) = n - i
  BY <1>1
<1> HIDE DEF m, n
<1>4. /\ SubSeq(q, m, n) \in Seq(S) /\ Len(SubSeq(q, m, n)) = IF m <= n THEN n - m + 1 ELSE 0
      /\ \A j \in 1 .. (n - m + 1) : SubSeq(q, m, n)[j] = q[m + j - 1]
  BY <1>1, SubSeqProperties
<1>5. /\ SubSeq(q, m, n) \in Seq(S) /\ Len(SubSeq(q, m, n)) = n - i
      /\ \A j \in 1 .. (n - i) : SubSeq(q, m, n)[j] = q[i + j]
  BY <1>2, <1>3, <1>4
<1> QED
  BY <1>5 DEF m, n

(* insert: the hole is made above the items up to i, then s fills it.      *)
LEMMA InsertedTrue ==
  ASSUME VecSound(Vector!Now), NEW v \in Vec, NEW i \in 0 .. Vector!Size(v),
         NEW s \in Seq(Vector!Elem), NEW b \in Vector!New(v, Vector!Size(v) + Len(s)),
         NEW q, Vector!Become(q),
         Like(q, Vector!Stored(
                   Vector!InsertHole(
                     Vector!Reserved(Vector!Now, v, Vector!Size(v) + Len(s), i, b), v, i, Len(s)),
                   v, i, s, Vector!Size(v) + Len(s)))
  PROVE  /\ VectorsKept /\ Vector!Abstract!InsertLosingTail(v, i, s)
         /\ Vector!Abstract!Fits(v, Len(s)) => Vector!Abstract!Insert(v, i, s)
<1> DEFINE size == Vector!Size(v)
           it == Vector!Items(v)
           n == Len(s)
           e == size + n
           now == Vector!Now
<1>1. s \in Seq(Vector!Elem) /\ n \in Nat
  BY LenProperties
<1>2. /\ it \in Seq(Vector!Elem) /\ Len(it) = size /\ size \in Nat
      /\ i \in Nat /\ i <= size
      /\ now.vec = vec /\ vec[v]._nitems = size
      /\ vec[v]._max_nitems \in Nat /\ size <= vec[v]._max_nitems
      /\ \A j \in 1 .. size : it[j] = Vector!Slots(now, v)[j]
  BY NowSound
<1> DEFINE room == Vector!Reserved(now, v, e, i, b)
           moved == [j \in 1 .. (size - i) |-> Vector!Slots(room, v)[i + j]]
           hole == Vector!Stored(room, v, i + n, moved, e)
           r == Vector!Stored(hole, v, i, s, e)
           u == ItemsOf(r, v)
           max == room.vec[v]._max_nitems
<1>4. Vector!Become(q) /\ Like(q, r)
  BY DEF Vector!InsertHole
<1>5. e > vec[v]._max_nitems => b \in VecBuffer \ DOMAIN now.mem
  <2>1. e \in Nat /\ b \in Vector!New(v, e) /\ vec[v]._max_nitems \in Nat
    BY <1>1, <1>2
  <2> HIDE DEF e
  <2> QED
    BY <2>1, NewSound
<1> HIDE DEF now, size, it, n
<1>6. e \in Nat /\ i <= e /\ i <= now.vec[v]._nitems
  BY <1>1, <1>2
<1> HIDE DEF e
<1>7. /\ VecSound(room) /\ OnlyChanges(now, room, v)
      /\ max >= vec[v]._max_nitems /\ max >= e
      /\ \A j \in 1 .. i : Vector!Slots(room, v)[j] = Vector!Slots(now, v)[j]
      /\ e <= vec[v]._max_nitems => room = now
  <2>1. /\ VecSound(now) /\ e \in Nat /\ i \in Nat /\ i <= now.vec[v]._nitems
        /\ e > now.vec[v]._max_nitems => b \in VecBuffer \ DOMAIN now.mem
    BY <1>2, <1>5, <1>6 DEF now
  <2> QED
    BY <1>2, <2>1, ReservedSound
<1>8. max \in Nat /\ Vector!Slots(room, v) \in [1 .. max -> Vector!Elem]
  BY <1>7, SlotsSound
<1> HIDE DEF room, max
<1>9. /\ moved \in Seq(Vector!Elem) /\ Len(moved) = size - i
      /\ \A j \in 1 .. (size - i) : moved[j] = Vector!Slots(room, v)[i + j]
  <2> DEFINE d == size - i
  <2>1. d \in Nat /\ i + d <= max
    BY <1>1, <1>2, <1>7, <1>8 DEF e
  <2>2. \A j \in 1 .. d : i + j \in 1 .. max
    BY <1>2, <1>8, <2>1
  <2> HIDE DEF d
  <2>3. moved \in [1 .. d -> Vector!Elem] /\ \A j \in 1 .. d : moved[j] = Vector!Slots(room, v)[i + j]
    <3>1. moved = [j \in 1 .. d |-> Vector!Slots(room, v)[i + j]]
      BY DEF d
    <3> HIDE DEF moved
    <3> QED
      BY <1>8, <2>2, <3>1
  <2> HIDE DEF moved
  <2>4. moved \in Seq(Vector!Elem)
    BY <2>1, <2>3, SeqDef
  <2>5. Len(moved) = d
    BY <2>1, <2>3, <2>4, LenProperties
  <2> QED
    BY <2>3, <2>4, <2>5 DEF d
<1> HIDE DEF moved
<1> DEFINE k == i + n
<1>10. k \in Nat /\ k + Len(moved) <= max /\ e <= max /\ i + n <= max
  BY <1>1, <1>2, <1>6, <1>7, <1>8, <1>9 DEF e
<1> HIDE DEF k
<1>11. /\ VecSound(hole) /\ OnlyChanges(room, hole, v) /\ hole.vec[v]._max_nitems = max
       /\ \A j \in 1 .. max : Vector!Slots(hole, v)[j] =
            IF j \in k + 1 .. k + Len(moved) THEN moved[j - k] ELSE Vector!Slots(room, v)[j]
  <2>1. LET p == Vector!Stored(room, v, k, moved, e) IN
        /\ VecSound(p) /\ OnlyChanges(room, p, v) /\ p.vec[v]._max_nitems = max
        /\ \A j \in 1 .. max : Vector!Slots(p, v)[j] =
             IF j \in k + 1 .. k + Len(moved) THEN moved[j - k] ELSE Vector!Slots(room, v)[j]
    <3>1. /\ VecSound(room) /\ k \in Nat /\ moved \in Seq(Vector!Elem) /\ e \in Nat
          /\ e <= room.vec[v]._max_nitems /\ k + Len(moved) <= room.vec[v]._max_nitems
      BY <1>6, <1>7, <1>9, <1>10 DEF max
    <3> QED
      BY <3>1, StoredSound DEF max
  <2> QED
    BY <2>1 DEF k
<1> HIDE DEF hole
<1>12. /\ VecSound(r) /\ OnlyChanges(hole, r, v)
       /\ r.vec[v]._nitems = e /\ r.vec[v]._max_nitems = max
       /\ \A j \in 1 .. max : Vector!Slots(r, v)[j] =
            IF j \in i + 1 .. i + n THEN s[j - i] ELSE Vector!Slots(hole, v)[j]
  <2>1. e <= hole.vec[v]._max_nitems /\ i + Len(s) <= hole.vec[v]._max_nitems
    BY <1>10, <1>11 DEF n
  <2> QED
    BY <1>1, <1>2, <1>6, <1>11, <2>1, StoredSound DEF n
<1> HIDE DEF r
<1>13. u \in Seq(Vector!Elem) /\ Len(u) = e
       /\ \A j \in 1 .. e : u[j] = Vector!Slots(r, v)[j] /\ j \in 1 .. max
  <2>1. u \in Seq(Vector!Elem) /\ Len(u) = e /\ \A j \in 1 .. e : u[j] = Vector!Slots(r, v)[j]
    BY <1>12, ItemsSound
  <2>2. \A j \in 1 .. e : j \in 1 .. max
    BY <1>6, <1>8, <1>10
  <2> QED
    BY <2>1, <2>2
<1>14. /\ VecSound(After) /\ Unowned(After) = Unowned(now)
       /\ Vector!Abstract!OnlyOf(v) /\ Vector!Items(v)' = u
  <2>1. OnlyChanges(now, r, v)
    BY <1>7, <1>11, <1>12, ChangesAddUp
  <2>2. VecSound(q) /\ q.vec = r.vec /\ OnlyChanges(now, q, v) /\ ItemsOf(q, v) = u
    BY <1>4, <1>12, <2>1, LikeSound DEF u
  <2>3. q.vec[v]._max_nitems >= vec[v]._max_nitems
    BY <1>7, <1>12, <2>2
  <2> QED
    BY <1>4, <1>7, <2>2, <2>3, OnlyOfChanged DEF now
<1> HIDE DEF u
<1>15. \A j \in 1 .. e :
         u[j] = IF j <= i THEN it[j] ELSE IF j <= i + n THEN s[j - i]
                ELSE Vector!Slots(room, v)[j - n]
  <2> SUFFICES ASSUME NEW j \in 1 .. e
               PROVE  u[j] = IF j <= i THEN it[j] ELSE IF j <= i + n THEN s[j - i]
                             ELSE Vector!Slots(room, v)[j - n]
    OBVIOUS
  <2>1. j \in 1 .. max /\ u[j] = Vector!Slots(r, v)[j]
    BY <1>13
  <2>2. CASE j <= i
    <3>1. /\ j \notin i + 1 .. i + n /\ j \notin k + 1 .. k + Len(moved)
          /\ j \in 1 .. i /\ j \in 1 .. size
      BY <1>1, <1>2, <1>9, <2>2 DEF k
    <3> QED
      BY <1>2, <1>7, <1>11, <1>12, <2>1, <2>2, <3>1
  <2>3. CASE ~(j <= i) /\ j <= i + n
    <3>1. j \in i + 1 .. i + n
      BY <1>1, <1>2, <2>3
    <3> QED
      BY <1>12, <2>1, <2>3, <3>1
  <2>4. CASE ~(j <= i) /\ ~(j <= i + n)
    <3>1. /\ j \notin i + 1 .. i + n /\ j \in k + 1 .. k + (size - i)
          /\ j - k \in 1 .. (size - i) /\ i + (j - k) = j - n
      BY <1>1, <1>2, <2>4 DEF k, e
    <3>2. u[j] = moved[j - k]
      BY <1>9, <1>11, <1>12, <2>1, <3>1
    <3> QED
      BY <1>9, <2>4, <3>1, <3>2
  <2> QED
    BY <2>2, <2>3, <2>4
<1> DEFINE f == SubSeq(it, 1, i)
           g == SubSeq(it, i + 1, Len(it))
           d == size - i
<1>16. f \in Seq(Vector!Elem) /\ Len(f) = i /\ \A j \in 1 .. i : f[j] = it[j]
  BY <1>2
<1>17. d \in Nat /\ g \in Seq(Vector!Elem) /\ Len(g) = d /\ \A j \in 1 .. d : g[j] = it[i + j]
  <2>1. /\ g \in Seq(Vector!Elem) /\ Len(g) = Len(it) - i
        /\ \A j \in 1 .. (Len(it) - i) : g[j] = it[i + j]
    BY <1>2, TailOf
  <2> HIDE DEF g
  <2> QED
    BY <1>2, <2>1
<1> HIDE DEF f, g
<1> DEFINE fs == f \o s
<1>18. /\ fs \in Seq(Vector!Elem) /\ Len(fs) = i + n
       /\ \A j \in 1 .. (i + n) : fs[j] = IF j <= i THEN f[j] ELSE s[j - i]
  <2>1. f \in Seq(Vector!Elem) /\ s \in Seq(Vector!Elem) /\ Len(f) = i /\ Len(s) = n
    BY <1>1, <1>16 DEF n
  <2> HIDE DEF n
  <2>2. /\ f \o s \in Seq(Vector!Elem) /\ Len(f \o s) = Len(f) + Len(s)
        /\ \A j \in 1 .. (Len(f) + Len(s)) :
             (f \o s)[j] = IF j <= Len(f) THEN f[j] ELSE s[j - Len(f)]
    <3> HIDE DEF fs
    <3> QED
      BY <2>1, ConcatProperties
  <2>3. fs = f \o s
    OBVIOUS
  <2> HIDE DEF fs
  <2> QED
    BY <2>1, <2>2, <2>3
<1> HIDE DEF fs
<1>19. SubSeq(u, 1, i + n) = fs
  <2> DEFINE p == SubSeq(u, 1, i + n)
  <2>1. i + n \in Nat /\ i + n <= e
    BY <1>1, <1>2 DEF e
  <2>2. p \in Seq(Vector!Elem) /\ Len(p) = i + n /\ \A j \in 1 .. (i + n) : p[j] = u[j] /\ j \in 1 .. e
    BY <1>6, <1>13, <2>1
  <2> HIDE DEF p
  <2>3. ASSUME NEW j \in 1 .. (i + n)  PROVE p[j] = fs[j]
    <3>1. j <= i + n /\ j \in 1 .. e /\ p[j] = u[j]
      BY <2>1, <2>2
    <3>2. CASE j <= i
      <4>1. j \in 1 .. i
        BY <1>2, <2>1, <3>2
      <4> QED
        BY <1>15, <1>16, <1>18, <3>1, <3>2, <4>1
    <3>3. CASE ~(j <= i)
      BY <1>15, <1>18, <3>1, <3>3
    <3> QED
      BY <3>2, <3>3
  <2> QED
    BY <1>18, <2>2, <2>3, SeqEqual DEF p
<1>20. ASSUME e <= vec[v]._max_nitems  PROVE u = fs \o g
  <2>1. room = now
    BY <1>7, <1>20
  <2>2. /\ fs \o g \in Seq(Vector!Elem) /\ Len(fs \o g) = e
        /\ \A j \in 1 .. e : (fs \o g)[j] = IF j <= i + n THEN fs[j] ELSE g[j - (i + n)]
    <3>1. Len(fs) + Len(g) = e
      BY <1>1, <1>2, <1>17, <1>18 DEF e
    <3>2. /\ fs \o g \in Seq(Vector!Elem) /\ Len(fs \o g) = Len(fs) + Len(g)
          /\ \A j \in 1 .. (Len(fs) + Len(g)) :
               (fs \o g)[j] = IF j <= Len(fs) THEN fs[j] ELSE g[j - Len(fs)]
      BY <1>17, <1>18, ConcatProperties
    <3> QED
      BY <1>18, <3>1, <3>2
  <2>3. ASSUME NEW j \in 1 .. e  PROVE u[j] = (fs \o g)[j]
    <3>1. CASE j <= i
      <4>1. j \in 1 .. i /\ j \in 1 .. (i + n) /\ j <= i + n
        BY <1>1, <1>2, <3>1
      <4> QED
        BY <1>15, <1>16, <1>18, <2>2, <3>1, <4>1
    <3>2. CASE ~(j <= i) /\ j <= i + n
      <4>1. j \in 1 .. (i + n)
        BY <1>1, <1>2, <3>2
      <4> QED
        BY <1>15, <1>18, <2>2, <3>2, <4>1
    <3>3. CASE ~(j <= i + n)
      <4>1. /\ j - (i + n) \in 1 .. d /\ i + (j - (i + n)) = j - n /\ j - n \in 1 .. size
            /\ ~(j <= i)
        BY <1>1, <1>2, <3>3 DEF e
      <4>2. u[j] = it[j - n]
        BY <1>2, <1>15, <2>1, <3>3, <4>1
      <4> HIDE DEF d
      <4> QED
        BY <1>17, <2>2, <3>3, <4>1, <4>2
    <3> QED
      BY <1>1, <1>2, <3>1, <3>2, <3>3
  <2> QED
    BY <1>13, <2>2, <2>3, SeqEqual
<1>21. Vector!Abstract!Fits(v, n) => e <= vec[v]._max_nitems
  BY <1>2 DEF Vector!Abstract!Fits, e, it
<1>22. Len(u) = Len(it) + n
  BY <1>2, <1>13 DEF e
<1>23. Vector!Abstract!InsertLosingTail(v, i, s)
  BY <1>14, <1>19, <1>22
     DEF Vector!Abstract!InsertLosingTail, Vector!Abstract!Front_, fs, f, it, n
<1>24. Vector!Abstract!Fits(v, Len(s)) => Vector!Abstract!Insert(v, i, s)
  BY <1>14, <1>20, <1>21
     DEF Vector!Abstract!Insert, Vector!Abstract!Set, Vector!Abstract!Front_,
         Vector!Abstract!Back, fs, f, g, it, n
<1> QED
  BY <1>14, <1>23, <1>24 DEF VectorsKept, now

(* What ImplementsDynArray says of insert() of s.                          *)
Placed(v, i, s) ==
  IF Vector!Abstract!Fits(v, Len(s)) THEN Vector!Abstract!Insert(v, i, s)
  ELSE Vector!Abstract!InsertLosingTail(v, i, s)

(* insert() of values that lie outside of the vector.                      *)
LEMMA InsertTrue ==
  ASSUME VecSound(Vector!Now), NEW v \in Vec, NEW i \in 0 .. Vector!Size(v),
         NEW s \in Ranges, Vector!Insert(v, i, s)
  PROVE  VectorsKept /\ Placed(v, i, s)
<1> DEFINE e == Vector!Size(v) + Len(s)
           r(b) == Vector!Stored(
                     Vector!InsertHole(Vector!Reserved(Vector!Now, v, e, i, b), v, i, Len(s)),
                     v, i, s, e)
<1>1. PICK b \in Vector!New(v, e) : Vector!Become(r(b))
  BY DEF Vector!Insert
<1>2. Like(r(b), r(b))
  BY DEF Like
<1>3. s \in Seq(Vector!Elem)
  <2>1. s \in Seq(Vals)
    BY VectorParameters
  <2> QED
    BY <2>1, VectorParameters, SeqMonotonic
<1> DEFINE q == r(b)
<1>4. Vector!Become(q) /\ Like(q, r(b))
  BY <1>1, <1>2
<1> HIDE DEF q
<1>5. /\ VectorsKept /\ Vector!Abstract!InsertLosingTail(v, i, s)
      /\ Vector!Abstract!Fits(v, Len(s)) => Vector!Abstract!Insert(v, i, s)
  BY <1>3, <1>4, InsertedTrue
<1> QED
  BY <1>5 DEF Placed

(* What a reference to the item k finds after the items from index i on    *)
(* have moved one place up.                                                *)
ShiftedItem(v, i, k) == Vector!Items(v)[IF k > i + 1 THEN k - 1 ELSE k]

(* What ImplementsDynArray says of insert(p, v[k]).                        *)
OwnPlaced(v, i, k) ==
  IF Vector!Abstract!Fits(v, 1) THEN Vector!Abstract!Insert(v, i, <<ShiftedItem(v, i, k)>>)
  ELSE \E x \in Vector!Elem : Vector!Abstract!InsertLosingTail(v, i, <<x>>)

(* insert() of an item of the vector itself, which the hole has moved if   *)
(* it lay behind it, and which is gone if the buffer was replaced.         *)
LEMMA InsertOwnTrue ==
  ASSUME VecSound(Vector!Now), NEW v \in Vec, NEW i \in 0 .. Vector!Size(v),
         NEW k \in 1 .. Vector!Size(v), Vector!InsertOwn(v, i, k)
  PROVE  VectorsKept /\ OwnPlaced(v, i, k)
<1> DEFINE size == Vector!Size(v)
           now == Vector!Now
           a == vec[v]._data
           hole(b) == Vector!InsertHole(Vector!Reserved(now, v, size + 1, i, b), v, i, 1)
<1>1. PICK b \in Vector!New(v, size + 1) :
        \E x \in Vector!Referred(hole(b), v, k) :
          Vector!Become(Vector!Also(Vector!Stored(hole(b), v, i, <<x>>, size + 1),
                                    Vector!Referring(hole(b), v)))
  BY DEF Vector!InsertOwn
<1> DEFINE room == Vector!Reserved(now, v, size + 1, i, b)
           h == Vector!InsertHole(room, v, i, 1)
<1>2. PICK x \in Vector!Referred(h, v, k) :
        Vector!Become(Vector!Also(Vector!Stored(h, v, i, <<x>>, size + 1),
                                  Vector!Referring(h, v)))
  BY <1>1
<1>3. /\ size \in Nat /\ vec[v]._max_nitems \in Nat /\ size <= vec[v]._max_nitems
      /\ now.vec = vec /\ now.mem = mem /\ Len(Vector!Items(v)) = size
      /\ Vector!Slots(now, v) \in [1 .. vec[v]._max_nitems -> Vector!Elem]
      /\ \A j \in 1 .. size : Vector!Items(v)[j] = Vector!Slots(now, v)[j]
                             /\ Vector!Items(v)[j] \in Vector!Elem
  BY NowSound
<1>4. size # 0 /\ vec[v]._max_nitems # 0 /\ i \in Nat /\ k \in Nat
  BY <1>3
<1>5. ASSUME size + 1 <= vec[v]._max_nitems
      PROVE  x = ShiftedItem(v, i, k) /\ x \in Vector!Elem
  <2> DEFINE old == Vector!Slots(now, v)
             moved == [j \in 1 .. (size - i) |-> old[i + j]]
             at == i + 1
             d == size - i
  <2>1. room = now
    BY <1>3, <1>5 DEF Vector!Reserved
  <2>2. a # null
    BY <1>3, <1>4, SlotsSound
  <2>3. h = Vector!Stored(now, v, at, moved, size + 1)
    BY <2>1 DEF Vector!InsertHole
  <2>4. moved \in Seq(Vector!Elem) /\ Len(moved) = d
        /\ \A j \in 1 .. d : moved[j] = old[i + j]
    <3>1. d \in Nat /\ \A j \in 1 .. d : i + j \in 1 .. vec[v]._max_nitems
      BY <1>3, <1>4
    <3> HIDE DEF old, d
    <3>2. moved = [j \in 1 .. d |-> old[i + j]]
      BY DEF d
    <3> HIDE DEF moved
    <3>3. moved \in [1 .. d -> Vector!Elem]
      BY <1>3, <3>1, <3>2 DEF old
    <3>4. moved \in Seq(Vector!Elem)
      BY <3>1, <3>3, SeqDef
    <3>5. Len(moved) = d
      BY <3>1, <3>3, <3>4, LenProperties
    <3> QED
      BY <3>2, <3>4, <3>5
  <2> HIDE DEF moved, h, room
  <2> DEFINE e == size + 1
  <2>5. at \in Nat /\ e \in Nat /\ e <= now.vec[v]._max_nitems
        /\ at + Len(moved) <= now.vec[v]._max_nitems
    BY <1>3, <1>4, <1>5, <2>4
  <2> HIDE DEF at, e, now
  <2>6. /\ VecSound(h) /\ h.vec[v]._max_nitems = now.vec[v]._max_nitems
        /\ \A j \in 1 .. now.vec[v]._max_nitems : Vector!Slots(h, v)[j] =
             IF j \in at + 1 .. at + Len(moved) THEN moved[j - at] ELSE old[j]
    <3>1. VecSound(now) /\ moved \in Seq(Vector!Elem)
      BY <2>4 DEF now
    <3> DEFINE p == Vector!Stored(now, v, at, moved, e)
    <3>2. /\ VecSound(p) /\ p.vec[v]._max_nitems = now.vec[v]._max_nitems
          /\ \A j \in 1 .. now.vec[v]._max_nitems : Vector!Slots(p, v)[j] =
               IF j \in at + 1 .. at + Len(moved) THEN moved[j - at] ELSE Vector!Slots(now, v)[j]
      BY <2>5, <3>1, StoredSound
    <3>3. h = p
      BY <2>3 DEF e
    <3> QED
      BY <3>2, <3>3
  <2>7. h.vec[v]._data = a
    <3>1. h.vec = [now.vec EXCEPT ![v]._nitems = e] /\ now.vec \in [Vec -> Cell]
      BY <2>3 DEF Vector!Stored, e, now, VecSound
    <3> HIDE DEF h
    <3> QED
      BY <1>3, <3>1
  <2>8. a \in DOMAIN h.mem /\ Vector!Slots(h, v) = h.mem[a]
    BY <2>2, <2>6, <2>7, SlotsPlace DEF VecSound
  <2>9. x = Vector!Slots(h, v)[k]
    BY <2>8 DEF Vector!Referred
  <2>10. k \in 1 .. now.vec[v]._max_nitems
    BY <1>3
  <2>11. CASE k > i + 1
    <3>1. k \in at + 1 .. at + Len(moved) /\ k - at \in 1 .. d /\ i + (k - at) = k - 1
          /\ k - 1 \in 1 .. size
      BY <1>3, <1>4, <2>4, <2>11 DEF at
    <3>2. x = old[k - 1]
      BY <2>4, <2>6, <2>9, <2>10, <3>1
    <3> QED
      BY <1>3, <2>11, <3>1, <3>2 DEF ShiftedItem
  <2>12. CASE ~(k > i + 1)
    <3>1. k \notin at + 1 .. at + Len(moved)
      BY <1>3, <1>4, <2>4, <2>12 DEF at
    <3>2. x = old[k]
      BY <2>6, <2>9, <2>10, <3>1
    <3> QED
      BY <1>3, <2>12, <3>2 DEF ShiftedItem
  <2> QED
    BY <2>11, <2>12
<1>6. ASSUME ~(size + 1 <= vec[v]._max_nitems)  PROVE x \in Vector!Elem
  <2>1. a \notin DOMAIN room.mem
    BY <1>3, <1>4, <1>6, OldGone
  <2>2. DOMAIN h.mem = DOMAIN room.mem
    <3> HIDE DEF room
    <3> QED
      BY DEF Vector!InsertHole, Vector!Stored
  <2> HIDE DEF h, room
  <2> QED
    BY <2>1, <2>2 DEF Vector!Referred
<1> DEFINE s == <<x>>
           kinds == Vector!Referring(h, v)
           p == Vector!Stored(h, v, i, s, size + 1)
           q == Vector!Also(p, kinds)
<1>7. kinds \in SUBSET {"argument"}
  BY DEF Vector!Referring
<1>8. p = [vec |-> p.vec, mem |-> p.mem, wrong |-> p.wrong]
  BY DEF Vector!Stored
<1>9. Vector!Become(q)
  BY <1>2
<1>10. x \in Vector!Elem
  BY <1>5, <1>6
<1>11. s \in Seq(Vector!Elem) /\ Len(s) = 1
  BY <1>10
<1>12. Like(q, p)
  <2> HIDE DEF p, kinds
  <2> QED
    BY <1>7, <1>8, AlsoLike
<1>13. /\ b \in Vector!New(v, Vector!Size(v) + Len(s))
       /\ Like(q, Vector!Stored(
                     Vector!InsertHole(
                       Vector!Reserved(Vector!Now, v, Vector!Size(v) + Len(s), i, b), v, i, Len(s)),
                     v, i, s, Vector!Size(v) + Len(s)))
  BY <1>11, <1>12
<1> HIDE DEF s, q, p, kinds, h, room
<1>14. /\ VectorsKept /\ Vector!Abstract!InsertLosingTail(v, i, s)
       /\ Vector!Abstract!Fits(v, Len(s)) => Vector!Abstract!Insert(v, i, s)
  BY <1>9, <1>11, <1>13, InsertedTrue
<1>15. Vector!Abstract!Fits(v, 1) => x = ShiftedItem(v, i, k)
  <2>1. Vector!Abstract!Fits(v, 1) => size + 1 <= vec[v]._max_nitems
    BY <1>3 DEF Vector!Abstract!Fits
  <2> QED
    BY <1>5, <2>1
<1>16. ASSUME Vector!Abstract!Fits(v, 1)
       PROVE  Vector!Abstract!Insert(v, i, <<ShiftedItem(v, i, k)>>)
  <2>1. Vector!Abstract!Fits(v, Len(s))
    BY <1>11, <1>16
  <2>2. Vector!Abstract!Insert(v, i, s)
    BY <1>14, <2>1
  <2>3. s = <<ShiftedItem(v, i, k)>>
    BY <1>15, <1>16 DEF s
  <2> HIDE DEF s
  <2> QED
    BY <2>2, <2>3 DEF Vector!Abstract!Insert, Vector!Abstract!Set
<1>17. \E y \in Vector!Elem : Vector!Abstract!InsertLosingTail(v, i, <<y>>)
  <2>1. Vector!Abstract!InsertLosingTail(v, i, <<x>>)
    BY <1>14 DEF s
  <2> QED
    BY <1>10, <2>1
<1> QED
  BY <1>14, <1>16, <1>17 DEF OwnPlaced

(* A move hands the members over.  Only what v had can be lost.            *)
LEMMA MoveAssignTrue ==
  ASSUME VecSound(Vector!Now), NEW v \in Vec, NEW w \in Vec, Vector!MoveAssign(v, w)
  PROVE  /\ VecSound(After) /\ Vector!Abstract!Move(v, w)
         /\ vec[v]._data = null => Unowned(After) = Unowned(Vector!Now)
<1> DEFINE now == Vector!Now
           r == [now EXCEPT !.vec = Vector!Moved(v, w)]
<1>1. /\ now.vec = vec /\ vec \in [Vec -> Cell] /\ Vector!Empty \in Cell
      /\ Vector!Empty._data = null /\ Vector!Empty._nitems = 0 /\ Vector!Empty._max_nitems = 0
  BY DEF VecSound, Vector!Now, Vector!Empty, Cell
<1>2. /\ r.mem = now.mem /\ r.vec \in [Vec -> Cell]
      /\ \A x \in Vec : r.vec[x] = IF x = w THEN Vector!Empty ELSE IF x = v THEN vec[w] ELSE vec[x]
  BY <1>1 DEF Vector!Now, Vector!Moved
<1>3. Vector!Become(r)
  BY DEF Vector!MoveAssign
<1>11. InBounds(r)
  BY DEF InBounds, Vector!Now
<1> HIDE DEF r, now
<1>4. /\ DOMAIN now.mem \subseteq VecBuffer
      /\ \A x \in Vec : vec[x]._data = null => vec[x] = Vector!Empty
      /\ \A x \in Vec : vec[x]._data # null =>
           /\ vec[x]._data \in DOMAIN now.mem
           /\ now.mem[vec[x]._data] \in [1 .. vec[x]._max_nitems -> Vector!Elem]
           /\ vec[x]._nitems <= vec[x]._max_nitems
      /\ \A x, y \in Vec : vec[x]._data = vec[y]._data => x = y \/ vec[x]._data = null
  BY <1>1 DEF VecSound, now
<1>5. VecSound(r)
  <2>1. \A x \in Vec : r.vec[x]._data = null => r.vec[x] = Vector!Empty
    BY <1>2, <1>4
  <2>2. \A x \in Vec : r.vec[x]._data # null =>
          /\ r.vec[x]._data \in DOMAIN r.mem
          /\ r.mem[r.vec[x]._data] \in [1 .. r.vec[x]._max_nitems -> Vector!Elem]
          /\ r.vec[x]._nitems <= r.vec[x]._max_nitems
    BY <1>1, <1>2, <1>4
  <2>3. \A x, y \in Vec : r.vec[x]._data = r.vec[y]._data => x = y \/ r.vec[x]._data = null
    BY <1>1, <1>2, <1>4
  <2> QED
    BY <1>2, <1>4, <1>11, <2>1, <2>2, <2>3 DEF VecSound
<1>6. /\ VecSound(After) /\ vec' = r.vec /\ Unowned(After) = Unowned(r)
      /\ \A x \in Vec : Vector!Slots(After, x) = Vector!Slots(r, x)
  BY <1>3, <1>5, BecomeSound
<1>7. ASSUME vec[v]._data = null  PROVE Unowned(r) = Unowned(now)
  <2>1. null \notin DOMAIN now.mem
    BY <1>4, VectorParameters
  <2>2. ASSUME NEW b \in DOMAIN now.mem
        PROVE  (\A x \in Vec : r.vec[x]._data # b) <=> (\A x \in Vec : vec[x]._data # b)
    <3>1. ASSUME NEW x \in Vec, vec[x]._data = b  PROVE \E y \in Vec : r.vec[y]._data = b
      <4>1. x # v
        BY <1>7, <2>1, <3>1
      <4>2. CASE x = w
        BY <1>2, <3>1, <4>1, <4>2
      <4>3. CASE x # w
        BY <1>2, <3>1, <4>1, <4>3
      <4> QED
        BY <4>2, <4>3
    <3>2. ASSUME NEW x \in Vec, r.vec[x]._data = b  PROVE \E y \in Vec : vec[y]._data = b
      BY <1>1, <1>2, <2>1, <3>2
    <3> QED
      BY <3>1, <3>2
  <2> QED
    BY <1>1, <1>2, <2>2 DEF Unowned
<1>8. \A x \in Vec : Vector!Items(x)' = ItemsOf(r, x)
  <2>1. \A x \in Vec : Vector!Items(x)' = ItemsOf(After, x)
    BY DEF Vector!Now, Vector!Items, Vector!Size, ItemsOf, After, Vector!Slots
  <2>2. After.vec = vec'
    BY DEF After
  <2> QED
    BY <1>6, <2>1, <2>2 DEF ItemsOf
<1>9. \A x \in Vec : ItemsOf(r, x) =
        IF x = w THEN << >> ELSE IF x = v THEN Vector!Items(w) ELSE Vector!Items(x)
  <2>1. \A x \in Vec : Vector!Items(x) = ItemsOf(now, x)
    BY DEF Vector!Now, Vector!Items, Vector!Size, ItemsOf, now
  <2>2. Vector!Slots(r, w) = << >> /\ ItemsOf(r, w) = << >>
    BY <1>1, <1>2, <1>5, SlotsPlace DEF ItemsOf
  <2>3. v # w => ItemsOf(r, v) = ItemsOf(now, w)
    BY <1>1, <1>2 DEF ItemsOf, Vector!Slots
  <2>4. \A x \in Vec \ {v, w} : ItemsOf(r, x) = ItemsOf(now, x)
    BY <1>1, <1>2 DEF ItemsOf, Vector!Slots
  <2> QED
    BY <2>1, <2>2, <2>3, <2>4
<1>10. Vector!Abstract!Move(v, w)
  BY <1>1, <1>2, <1>6, <1>8, <1>9 DEF Vector!Abstract!Move
<1> QED
  BY <1>6, <1>7, <1>10 DEF now

(* The destructor gives the buffer back and leaves no item.                *)
LEMMA DestroyTrue ==
  ASSUME VecSound(Vector!Now), NEW v \in Vec, Vector!Destroy(v)
  PROVE  VectorsKept /\ Vector!Abstract!Destroy(v)
<1> DEFINE now == Vector!Now
           a == vec[v]._data
           r == [vec |-> [vec EXCEPT ![v] = Vector!Empty], mem |-> Vector!Without(mem, a),
                 wrong |-> Vector!Deleting(now, v)]
<1>1. /\ now.vec = vec /\ now.mem = mem /\ vec \in [Vec -> Cell] /\ Vector!Empty \in Cell
      /\ Vector!Empty._data = null /\ Vector!Empty._nitems = 0 /\ Vector!Empty._max_nitems = 0
  BY DEF VecSound, Vector!Now, Vector!Empty, Cell
<1>2. /\ r.vec \in [Vec -> Cell]
      /\ \A x \in Vec : r.vec[x] = IF x = v THEN Vector!Empty ELSE vec[x]
      /\ DOMAIN r.mem = DOMAIN mem \ {a} /\ \A x \in DOMAIN r.mem : r.mem[x] = mem[x]
  BY <1>1 DEF Vector!Without
<1>3. Vector!Become(r)
  BY DEF Vector!Destroy
<1>12. InBounds(r)
  BY SlotsPlace DEF InBounds
<1> HIDE DEF r, now
<1>4. /\ DOMAIN mem \subseteq VecBuffer
      /\ \A x \in Vec : vec[x]._data = null => vec[x] = Vector!Empty
      /\ \A x \in Vec : vec[x]._data # null =>
           /\ vec[x]._data \in DOMAIN mem
           /\ mem[vec[x]._data] \in [1 .. vec[x]._max_nitems -> Vector!Elem]
           /\ vec[x]._nitems <= vec[x]._max_nitems
      /\ \A x, y \in Vec : vec[x]._data = vec[y]._data => x = y \/ vec[x]._data = null
  BY <1>1 DEF VecSound, now
<1>5. \A x \in Vec \ {v} : vec[x]._data # null =>
        vec[x]._data \in DOMAIN r.mem /\ r.mem[vec[x]._data] = mem[vec[x]._data]
  BY <1>2, <1>4
<1>6. VecSound(r)
  <2>1. \A x \in Vec : r.vec[x]._data = null => r.vec[x] = Vector!Empty
    BY <1>2, <1>4
  <2>2. \A x \in Vec : r.vec[x]._data # null =>
          /\ r.vec[x]._data \in DOMAIN r.mem
          /\ r.mem[r.vec[x]._data] \in [1 .. r.vec[x]._max_nitems -> Vector!Elem]
          /\ r.vec[x]._nitems <= r.vec[x]._max_nitems
    BY <1>1, <1>2, <1>4, <1>5
  <2>3. \A x, y \in Vec : r.vec[x]._data = r.vec[y]._data => x = y \/ r.vec[x]._data = null
    BY <1>1, <1>2, <1>4
  <2>4. DOMAIN r.mem \subseteq VecBuffer
    BY <1>2, <1>4
  <2> QED
    BY <1>2, <1>12, <2>1, <2>2, <2>3, <2>4 DEF VecSound
<1>7. /\ VecSound(After) /\ vec' = r.vec /\ Unowned(After) = Unowned(r)
      /\ \A x \in Vec : Vector!Slots(After, x) = Vector!Slots(r, x)
  BY <1>3, <1>6, BecomeSound
<1>8. Unowned(r) = Unowned(now)
  <2>1. null \notin DOMAIN mem
    BY <1>4, VectorParameters
  <2>2. ASSUME NEW b \in DOMAIN mem \ {a}
        PROVE  (\A x \in Vec : r.vec[x]._data # b) <=> (\A x \in Vec : vec[x]._data # b)
    BY <1>1, <1>2, <2>1
  <2> QED
    BY <1>1, <1>2, <2>2 DEF Unowned
<1>9. \A x \in Vec : Vector!Items(x)' = ItemsOf(r, x)
  <2>1. \A x \in Vec : Vector!Items(x)' = ItemsOf(After, x)
    BY DEF Vector!Now, Vector!Items, Vector!Size, ItemsOf, After, Vector!Slots
  <2>2. After.vec = vec'
    BY DEF After
  <2> QED
    BY <1>7, <2>1, <2>2 DEF ItemsOf
<1>10. \A x \in Vec : ItemsOf(r, x) = IF x = v THEN << >> ELSE Vector!Items(x)
  <2>1. \A x \in Vec : Vector!Items(x) = ItemsOf(now, x)
    BY DEF Vector!Now, Vector!Items, Vector!Size, ItemsOf, now
  <2>2. Vector!Slots(r, v) = << >> /\ ItemsOf(r, v) = << >>
    BY <1>1, <1>2, <1>6, SlotsPlace DEF ItemsOf
  <2>3. \A x \in Vec \ {v} : ItemsOf(r, x) = ItemsOf(now, x)
    <3>1. ASSUME NEW x \in Vec \ {v}
          PROVE  Vector!Slots(r, x) = Vector!Slots(now, x)
      <4>1. Vector!Slots(r, x) = IF r.vec[x]._data = null THEN << >> ELSE r.mem[r.vec[x]._data]
        BY <1>6, SlotsPlace
      <4>2. Vector!Slots(now, x) =
              IF now.vec[x]._data = null THEN << >> ELSE now.mem[now.vec[x]._data]
        BY SlotsPlace DEF now
      <4> QED
        BY <1>1, <1>2, <1>5, <4>1, <4>2
    <3> QED
      BY <1>1, <1>2, <3>1 DEF ItemsOf
  <2> QED
    BY <2>1, <2>2, <2>3
<1>11. Vector!Abstract!Destroy(v)
  BY <1>1, <1>2, <1>7, <1>9, <1>10, ZenonT(60) DEF Vector!Abstract!Destroy
<1> QED
  BY <1>7, <1>8, <1>11 DEF now, VectorsKept
(* The inductive invariant of the vectors.                                 *)
VectorInv == VecSound(Vector!Now) /\ wrong \subseteq {"argument"}

(* What a step of the vectors does: every buffer stays with its vector,    *)
(* no other is touched, and only a move loses one.                         *)
LEMMA VectorStepTrue ==
  ASSUME VectorInv, Vector!Next
  PROVE  /\ VectorInv'
         /\ Vector!Leaked' # Vector!Leaked =>
              \E v, w \in Vec : vec[v]._data # null /\ Vector!MoveAssign(v, w)
<1>1. /\ VectorInv' <=> VecSound(After)
      /\ Vector!Leaked = Unowned(Vector!Now) /\ Vector!Leaked' = Unowned(After)
  BY DEF VectorInv, VecSound, InBounds, After, Vector!Now, Vector!Leaked, Unowned
<1>2. VecSound(Vector!Now)
  BY DEF VectorInv
<1> DEFINE Goal == /\ VecSound(After)
                   /\ Vector!Leaked' # Vector!Leaked =>
                        \E v, w \in Vec : vec[v]._data # null /\ Vector!MoveAssign(v, w)
<1>3. ASSUME VectorsKept  PROVE Goal
  BY <1>1, <1>3 DEF VectorsKept
<1>4. ASSUME Vector!Abort  PROVE Goal
  <2>1. After = Vector!Now
    BY <1>4 DEF Vector!Abort, After, Vector!Now
  <2> QED
    BY <1>1, <1>2, <2>1
<1> HIDE DEF Goal
<1>5. PICK v \in Vec :
       \/ \E n \in 0 .. MaxItems : Vector!Reserve(v, n) \/ Vector!Resize(v, n)
       \/ \E s \in Ranges : Vector!Construct(v, s)
       \/ \E x \in Vals : Vector!PushBack(v, x)
       \/ \E i \in 1 .. Vector!Size(v) : Vector!PushBackOwn(v, i)
       \/ Vector!PopBack(v)
       \/ \E i \in 0 .. MaxItems : Vector!Erase(v, i) \/ Vector!AtOutOfRange(v, i)
       \/ \E i \in 0 .. MaxItems, s \in Ranges : Vector!Insert(v, i, s)
       \/ \E i \in 0 .. Vector!Size(v), k \in 1 .. Vector!Size(v) : Vector!InsertOwn(v, i, k)
       \/ \E w \in Vec : Vector!CopyAssign(v, w) \/ Vector!MoveAssign(v, w)
       \/ Vector!Destroy(v)
  BY DEF Vector!Next
<1>7. ASSUME NEW n \in 0 .. MaxItems, Vector!Reserve(v, n) \/ Vector!Resize(v, n)  PROVE Goal
  <2>1. n \in Nat
    BY VectorParameters
  <2> QED
    BY <1>2, <1>3, <1>7, <2>1, ReserveTrue, ResizeTrue
<1>8. ASSUME NEW s \in Ranges, Vector!Construct(v, s)  PROVE Goal
  BY <1>2, <1>3, <1>8, ConstructTrue
<1>9. ASSUME NEW x \in Vals, Vector!PushBack(v, x)  PROVE Goal
  BY <1>2, <1>3, <1>9, PushBackTrue
<1>10. ASSUME NEW i \in 1 .. Vector!Size(v), Vector!PushBackOwn(v, i)  PROVE Goal
  BY <1>2, <1>3, <1>10, PushBackOwnTrue
<1>11. ASSUME Vector!PopBack(v)  PROVE Goal
  <2>1. CASE Vector!Size(v) = 0
    BY <1>4, <1>11, <2>1 DEF Vector!PopBack
  <2>2. CASE Vector!Size(v) # 0
    BY <1>2, <1>3, <1>11, <2>2, PopBackTrue
  <2> QED
    BY <2>1, <2>2
<1>12. ASSUME NEW i \in 0 .. MaxItems, Vector!Erase(v, i) \/ Vector!AtOutOfRange(v, i)
       PROVE  Goal
  <2>1. CASE Vector!Erase(v, i) /\ i \in 0 .. (Vector!Size(v) - 1)
    BY <1>2, <1>3, <2>1, EraseTrue
  <2>2. CASE Vector!Erase(v, i) /\ i \notin 0 .. (Vector!Size(v) - 1)
    BY <1>4, <2>2 DEF Vector!Erase
  <2>3. CASE Vector!AtOutOfRange(v, i)
    BY <1>4, <2>3 DEF Vector!AtOutOfRange
  <2> QED
    BY <1>12, <2>1, <2>2, <2>3
<1>13. ASSUME NEW i \in 0 .. MaxItems, NEW s \in Ranges, Vector!Insert(v, i, s)  PROVE Goal
  <2>1. CASE i \in 0 .. Vector!Size(v)
    BY <1>2, <1>3, <1>13, <2>1, InsertTrue
  <2>2. CASE i \notin 0 .. Vector!Size(v)
    BY <1>4, <1>13, <2>2 DEF Vector!Insert
  <2> QED
    BY <2>1, <2>2
<1>14. ASSUME NEW i \in 0 .. Vector!Size(v), NEW k \in 1 .. Vector!Size(v),
              Vector!InsertOwn(v, i, k)
       PROVE  Goal
  BY <1>2, <1>3, <1>14, InsertOwnTrue
<1>15. ASSUME NEW w \in Vec, Vector!CopyAssign(v, w)  PROVE Goal
  BY <1>2, <1>3, <1>15, CopyAssignTrue
<1>16. ASSUME NEW w \in Vec, Vector!MoveAssign(v, w)  PROVE Goal
  <2>1. /\ VecSound(After)
        /\ vec[v]._data = null => Unowned(After) = Unowned(Vector!Now)
    BY <1>2, <1>16, MoveAssignTrue
  <2>2. Vector!Leaked' # Vector!Leaked =>
          \E j, k \in Vec : vec[j]._data # null /\ Vector!MoveAssign(j, k)
    BY <1>1, <1>16, <2>1
  <2> QED
    BY <2>1, <2>2 DEF Goal
<1>17. ASSUME Vector!Destroy(v)  PROVE Goal
  BY <1>2, <1>3, <1>17, DestroyTrue
<1>18. Goal
  BY <1>5, <1>7, <1>8, <1>9, <1>10, <1>11, <1>12, <1>13, <1>14, <1>15, <1>16, <1>17
<1> QED
  BY <1>1, <1>18 DEF Goal

(* In every state of a program, the vectors and their buffers are sound.   *)
LEMMA VectorInvariant == Spec => []VectorInv
<1>1. Vector!Init => VectorInv
  BY DEF Vector!Init, VectorInv, VecSound, InBounds, Vector!Now, Vector!Empty, Cell
<1>2. Init => VectorInv
  BY <1>1 DEF Init
<1>3. VectorInv /\ [Next]_vars => VectorInv'
  <2> SUFFICES ASSUME VectorInv, [Next]_vars PROVE VectorInv'
    OBVIOUS
  <2>1. CASE VectorStep
    BY <2>1, VectorStepTrue DEF VectorStep
  <2>2. CASE UNCHANGED vectorVars
    BY <2>2 DEF vectorVars, VectorInv, VecSound, InBounds, Vector!Now
  <2> QED
    BY <2>1, <2>2 DEF Next, vars, MapStep, StringStep, PointerStep
<1> QED
  BY <1>2, <1>3, PTL DEF Spec
-----------------------------------------------------------------------------
(* The theorems about vectors and pointers.                                *)

(* In every reachable state each vector has a buffer of its own, of just   *)
(* the slots it says, and each object pointed to has one owner: no         *)
(* operation deletes a buffer or an object twice, writes past the end of a *)
(* buffer or reads what is none, but for the reference that push_back and  *)
(* insert of an item of the vector read after _reserve has deleted it.     *)
THEOREM OwnersTrue == Spec => []Owned
<1>1. VectorInv => Vector!Owned
  <2> SUFFICES ASSUME VectorInv, NEW v \in Vec
               PROVE  LET b == vec[v]._data IN
                      /\ b = null => vec[v] = Vector!Empty
                      /\ b # null => /\ b \in DOMAIN mem /\ Len(mem[b]) = vec[v]._max_nitems
                                     /\ vec[v]._nitems <= vec[v]._max_nitems
                                     /\ \A w \in Vec \ {v} : vec[w]._data # b
    BY DEF Vector!Owned, VectorInv
  <2> DEFINE b == vec[v]._data
             max == vec[v]._max_nitems
  <2>1. /\ b = null => vec[v] = Vector!Empty
        /\ b # null => b \in DOMAIN mem /\ mem[b] \in [1 .. max -> Vector!Elem]
        /\ vec[v]._nitems <= max /\ max \in Nat
        /\ \A w \in Vec \ {v} : vec[w]._data = b => b = null
    BY SlotsSound DEF VectorInv, VecSound, Vector!Now
  <2> HIDE DEF b, max
  <2>2. b # null => Len(mem[b]) = max
    <3>1. b # null => mem[b] \in Seq(Vector!Elem) /\ DOMAIN mem[b] = 1 .. max
      BY <2>1, SeqDef
    <3> QED
      BY <2>1, <3>1, LenProperties
  <2> QED
    BY <2>1, <2>2 DEF b, max
<1>2. PointerInv => Pointer!PointersOwned
  BY DEF PointerInv
<1> QED
  BY <1>1, <1>2, VectorInvariant, PointerInvariant, PTL DEF Owned

(* No operation loses a buffer or an object but a move assignment onto a   *)
(* vector or a unique_ptr that had one.                                    *)
THEOREM LossesTrue == Spec => LeaksOnlyByMove
<1> DEFINE VectorMoved == \E v, w \in Vec : vec[v]._data # null /\ Vector!MoveAssign(v, w)
           PointerMoved == \E p, q \in Ptr : p # q /\ ptr_[p] # null /\ Pointer!Move(p, q)
<1>1. ASSUME VectorInv, [Next]_vars
      PROVE  [Vector!Leaked' # Vector!Leaked => VectorMoved]_(Vector!vars)
  <2>1. CASE VectorStep
    BY <1>1, <2>1, VectorStepTrue DEF VectorStep
  <2>2. CASE UNCHANGED vectorVars
    BY <2>2 DEF vectorVars, Vector!vars
  <2> QED
    BY <1>1, <2>1, <2>2 DEF Next, vars, MapStep, StringStep, PointerStep
<1>2. ASSUME PointerInv, [Next]_vars
      PROVE  [Pointer!Lost' # Pointer!Lost => PointerMoved]_(Pointer!vars)
  <2>1. CASE PointerStep
    BY <1>2, <2>1, PointerStepTrue DEF PointerStep
  <2>2. CASE UNCHANGED pointerVars
    BY <2>2 DEF pointerVars, Pointer!vars
  <2> QED
    BY <1>2, <2>1, <2>2 DEF Next, vars, VectorStep, MapStep, StringStep
<1> QED
  BY <1>1, <1>2, VectorInvariant, PointerInvariant, PTL
     DEF Spec, LeaksOnlyByMove, Vector!LeaksOnlyByMove, Pointer!LostOnlyByMove

(* Whatever the buffers, their sizes and the order of the operations, each *)
(* operation on a vector does what DynArray says of it and disturbs no     *)
(* other vector, but for the three that Vector names: insert() and         *)
(* push_back(v[i]) that grow the vector, and insert() of an item that the  *)
(* hole moves.                                                             *)
THEOREM ArraysImplemented == Spec => ImplementsDynArray
<1>1. Init => Vector!Abstract!Init
  <2>1. Vector!Init => Vector!Abstract!Init
    BY DEF Vector!Init, Vector!Abstract!Init, Vector!Items, Vector!Slots, Vector!Now,
           Vector!Size, Vector!Empty
  <2> QED
    BY <2>1 DEF Init
<1> DEFINE Does(v) ==
             /\ \A n \in 0 .. MaxItems : /\ Vector!Reserve(v, n) => Vector!Abstract!Reserve(v)
                                         /\ Vector!Resize(v, n) => Vector!Abstract!Resize(v, n)
             /\ \A s \in Ranges : Vector!Construct(v, s) => Vector!Abstract!Construct(v, s)
             /\ \A x \in Vals : Vector!PushBack(v, x) => Vector!Abstract!Push(v, x)
             /\ Vector!PopBack(v) /\ Vector!Size(v) # 0 => Vector!Abstract!Erase(v, Vector!Size(v))
             /\ \A w \in Vec : /\ Vector!CopyAssign(v, w) => Vector!Abstract!Copy(v, w)
                               /\ Vector!MoveAssign(v, w) => Vector!Abstract!Move(v, w)
             /\ Vector!Destroy(v) => Vector!Abstract!Destroy(v)
             /\ \A k \in 1 .. Vector!Size(v) :
                  /\ Vector!Erase(v, k - 1) => Vector!Abstract!Erase(v, k)
                  /\ Vector!PushBackOwn(v, k) => OwnPushed(v, k)
             /\ \A i \in 0 .. Vector!Size(v) :
                  /\ \A s \in Ranges : Vector!Insert(v, i, s) => Placed(v, i, s)
                  /\ \A k \in 1 .. Vector!Size(v) :
                       Vector!InsertOwn(v, i, k) => OwnPlaced(v, i, k)
<1>2. ASSUME VectorInv, NEW v \in Vec  PROVE Does(v)
  <2>1. VecSound(Vector!Now) /\ Vector!Size(v) \in Nat
    BY <1>2, NowSound DEF VectorInv
  <2>2. ASSUME NEW n \in 0 .. MaxItems
        PROVE  /\ Vector!Reserve(v, n) => Vector!Abstract!Reserve(v)
               /\ Vector!Resize(v, n) => Vector!Abstract!Resize(v, n)
    <3>1. n \in Nat
      BY VectorParameters
    <3> QED
      BY <2>1, <3>1, ReserveTrue, ResizeTrue
  <2>3. \A s \in Ranges : Vector!Construct(v, s) => Vector!Abstract!Construct(v, s)
    BY <2>1, ConstructTrue
  <2>4. \A x \in Vals : Vector!PushBack(v, x) => Vector!Abstract!Push(v, x)
    BY <2>1, PushBackTrue
  <2>5. Vector!PopBack(v) /\ Vector!Size(v) # 0 => Vector!Abstract!Erase(v, Vector!Size(v))
    BY <2>1, PopBackTrue
  <2>6. \A w \in Vec : /\ Vector!CopyAssign(v, w) => Vector!Abstract!Copy(v, w)
                       /\ Vector!MoveAssign(v, w) => Vector!Abstract!Move(v, w)
    BY <2>1, CopyAssignTrue, MoveAssignTrue
  <2>7. Vector!Destroy(v) => Vector!Abstract!Destroy(v)
    BY <2>1, DestroyTrue
  <2>8. ASSUME NEW k \in 1 .. Vector!Size(v), Vector!Erase(v, k - 1)
        PROVE  Vector!Abstract!Erase(v, k)
    <3> DEFINE i == k - 1
    <3>1. i \in 0 .. (Vector!Size(v) - 1) /\ i + 1 = k /\ Vector!Erase(v, i)
      BY <2>1, <2>8
    <3> HIDE DEF i
    <3>2. Vector!Abstract!Erase(v, i + 1)
      BY <2>1, <3>1, EraseTrue
    <3> QED
      BY <3>1, <3>2
  <2>9. ASSUME NEW k \in 1 .. Vector!Size(v), Vector!PushBackOwn(v, k)  PROVE OwnPushed(v, k)
    BY <2>1, <2>9, PushBackOwnTrue
  <2>10. ASSUME NEW i \in 0 .. Vector!Size(v), NEW s \in Ranges, Vector!Insert(v, i, s)
         PROVE  Placed(v, i, s)
    BY <2>1, <2>10, InsertTrue
  <2>11. ASSUME NEW i \in 0 .. Vector!Size(v), NEW k \in 1 .. Vector!Size(v),
                Vector!InsertOwn(v, i, k)
         PROVE  OwnPlaced(v, i, k)
    BY <2>1, <2>11, InsertOwnTrue
  <2>12. \A k \in 1 .. Vector!Size(v) :
           /\ Vector!Erase(v, k - 1) => Vector!Abstract!Erase(v, k)
           /\ Vector!PushBackOwn(v, k) => OwnPushed(v, k)
    BY <2>8, <2>9
  <2>13. \A i \in 0 .. Vector!Size(v) :
           /\ \A s \in Ranges : Vector!Insert(v, i, s) => Placed(v, i, s)
           /\ \A k \in 1 .. Vector!Size(v) : Vector!InsertOwn(v, i, k) => OwnPlaced(v, i, k)
    BY <2>10, <2>11
  <2> QED
    BY <2>2, <2>3, <2>4, <2>5, <2>6, <2>7, <2>12, <2>13
<1>3. VectorInv => [\/ aborted' \/ UNCHANGED Vector!vars \/ \A v \in Vec : Does(v)]_(Vector!vars)
  <2> HIDE DEF Does
  <2> QED
    BY <1>2
<1> QED
  BY <1>1, <1>3, VectorInvariant, PTL
     DEF Spec, ImplementsDynArray, Vector!ImplementsDynArray,
         OwnPushed, Placed, OwnPlaced, ShiftedItem
-----------------------------------------------------------------------------
(* Strings.                                                                *)

(* The members of a string.                                                *)
StrCell == [size_ : Nat, data_ : StrBuffer \cup {null}]

(* Of a pair m of strings and buffers: every string that is not empty has  *)
(* a buffer of its own with its text and a NUL, and there are no others.   *)
StrSound(m) ==
  /\ m.str \in [Str -> StrCell]
  /\ \A v \in Str :
       IF m.str[v].size_ = 0 THEN m.str[v] = String!Empty
       ELSE /\ m.str[v].data_ \in DOMAIN m.mem /\ m.str[v].data_ # null
            /\ m.mem[m.str[v].data_] \in [1 .. (m.str[v].size_ + 1) -> Char]
            /\ m.mem[m.str[v].data_][m.str[v].size_ + 1] = NUL
  /\ \A v, w \in Str : m.str[v].data_ = m.str[w].data_ => v = w \/ m.str[v].data_ = null
  /\ DOMAIN m.mem = {m.str[v].data_ : v \in Str} \ {null}

(* r is m with v renewed: the buffer it had is deleted, and b holds s.     *)
Renewal(m, r, v, b, s) ==
  /\ r.str = [m.str EXCEPT ![v] = IF s = << >> THEN String!Empty
                                  ELSE [size_ |-> Len(s), data_ |-> b]]
  /\ DOMAIN r.mem = (DOMAIN m.mem \ {m.str[v].data_}) \cup (IF s = << >> THEN {} ELSE {b})
  /\ \A x \in DOMAIN r.mem :
       r.mem[x] = IF s # << >> /\ x = b THEN Append(s, NUL) ELSE m.mem[x]

(* What the assumptions on the constants say of the strings.               *)
LEMMA StringParameters ==
  /\ null \notin StrBuffer /\ NUL \in Char /\ MaxSize \in Nat /\ Texts \subseteq Seq(Char)
  BY ContainersAssumption DEF String!StdStringAssumption

(* The text of a string, and the characters of its buffer.                 *)
LEMMA TextSound ==
  ASSUME NEW m, StrSound(m), NEW v \in Str
  PROVE  /\ String!Size(m, v) = m.str[v].size_ /\ String!Size(m, v) \in Nat
         /\ String!Text(m, v) \in Seq(Char) /\ Len(String!Text(m, v)) = String!Size(m, v)
         /\ \A j \in 1 .. String!Size(m, v) : String!Text(m, v)[j] = String!Chars(m, v)[j]
         /\ String!Size(m, v) = 0 => m.str[v] = String!Empty /\ String!Chars(m, v) = << >>
         /\ String!Size(m, v) # 0 =>
              /\ String!Chars(m, v) = m.mem[m.str[v].data_]
              /\ String!Chars(m, v) \in [1 .. (String!Size(m, v) + 1) -> Char]
              /\ String!Chars(m, v)[String!Size(m, v) + 1] = NUL
<1> DEFINE n == String!Size(m, v)
           c == String!Chars(m, v)
           t == String!Text(m, v)
<1>1. n = m.str[v].size_ /\ n \in Nat /\ t = SubSeq(c, 1, n)
  BY DEF StrSound, StrCell, String!Size, String!Text
<1>2. n = 0 => m.str[v] = String!Empty /\ c = << >>
  <2>1. n = 0 => m.str[v] = String!Empty
    BY <1>1 DEF StrSound
  <2>2. String!Empty.data_ = null
    BY DEF String!Empty
  <2> QED
    BY <2>1, <2>2 DEF String!Chars
<1>3. n # 0 => /\ c = m.mem[m.str[v].data_]
               /\ c \in [1 .. (n + 1) -> Char] /\ c[n + 1] = NUL
  BY <1>1 DEF StrSound, String!Chars
<1> HIDE DEF n, c, t
<1>4. t \in Seq(Char) /\ Len(t) = n /\ \A j \in 1 .. n : t[j] = c[j]
  <2>1. CASE n = 0
    BY <1>1, <1>2, <2>1
  <2>2. CASE n # 0
    <3>1. c \in Seq(Char) /\ Len(c) = n + 1
      <4> DEFINE k == n + 1
      <4>1. k \in Nat /\ c \in [1 .. k -> Char]
        BY <1>1, <1>3, <2>2
      <4> HIDE DEF k
      <4>2. c \in Seq(Char)
        BY <4>1, SeqDef
      <4>3. Len(c) = k
        BY <4>1, <4>2, LenProperties
      <4> QED
        BY <4>2, <4>3 DEF k
    <3> QED
      BY <1>1, <3>1
  <2> QED
    BY <2>1, <2>2
<1> QED
  BY <1>1, <1>2, <1>3, <1>4 DEF n, c, t

(* A renewed string has the text it was given; the others are as before.   *)
LEMMA RenewalSound ==
  ASSUME NEW m, NEW r, StrSound(m), NEW v \in Str, NEW b, NEW s \in Seq(Char),
         s # << >> => b \in StrBuffer /\ b \notin DOMAIN m.mem \ {m.str[v].data_},
         Renewal(m, r, v, b, s)
  PROVE  /\ StrSound(r) /\ String!Text(r, v) = s
         /\ \A w \in Str \ {v} : r.str[w] = m.str[w] /\ String!Chars(r, w) = String!Chars(m, w)
<1> DEFINE d == m.str[v].data_
           c == r.str[v]
<1>1. /\ m.str \in [Str -> StrCell] /\ null \notin StrBuffer /\ (s # << >> => b \in StrBuffer /\ b # null)
      /\ DOMAIN m.mem = {m.str[w].data_ : w \in Str} \ {null}
      /\ Len(s) \in Nat /\ String!Empty \in StrCell
  BY StringParameters, LenProperties DEF StrSound, String!Empty, StrCell
<1>2. /\ r.str \in [Str -> StrCell]
      /\ c = IF s = << >> THEN String!Empty ELSE [size_ |-> Len(s), data_ |-> b]
      /\ \A w \in Str \ {v} : r.str[w] = m.str[w]
  BY <1>1 DEF Renewal, StrCell
<1>3. \A w \in Str \ {v} : m.str[w].size_ # 0 =>
        /\ m.str[w].data_ \in DOMAIN m.mem /\ m.str[w].data_ # d
        /\ (s # << >> => m.str[w].data_ # b)
  BY <1>1 DEF StrSound
<1>4. \A w \in Str \ {v} : m.str[w].size_ # 0 =>
        /\ m.str[w].data_ \in DOMAIN r.mem /\ r.mem[m.str[w].data_] = m.mem[m.str[w].data_]
  BY <1>3 DEF Renewal
<1>5. s # << >> =>
        /\ Len(s) # 0 /\ b \in DOMAIN r.mem /\ r.mem[b] = Append(s, NUL)
        /\ Append(s, NUL) \in [1 .. (Len(s) + 1) -> Char]
        /\ Append(s, NUL)[Len(s) + 1] = NUL
        /\ \A j \in 1 .. Len(s) : Append(s, NUL)[j] = s[j]
  <2>1. s # << >> => b \in DOMAIN r.mem /\ r.mem[b] = Append(s, NUL) /\ Len(s) # 0
    BY EmptySeq DEF Renewal
  <2> DEFINE p == Append(s, NUL)
  <2>2. /\ p \in Seq(Char) /\ Len(p) = Len(s) + 1
        /\ p[Len(s) + 1] = NUL /\ \A j \in 1 .. Len(s) : p[j] = s[j]
    BY StringParameters, AppendProperties
  <2> HIDE DEF p
  <2>3. p \in [1 .. (Len(s) + 1) -> Char]
    BY <2>2, LenProperties
  <2> QED
    BY <2>1, <2>2, <2>3 DEF p
<1>6. \A w \in Str : IF r.str[w].size_ = 0 THEN r.str[w] = String!Empty
       ELSE /\ r.str[w].data_ \in DOMAIN r.mem /\ r.str[w].data_ # null
            /\ r.mem[r.str[w].data_] \in [1 .. (r.str[w].size_ + 1) -> Char]
            /\ r.mem[r.str[w].data_][r.str[w].size_ + 1] = NUL
  <2> SUFFICES ASSUME NEW w \in Str
               PROVE  IF r.str[w].size_ = 0 THEN r.str[w] = String!Empty
                      ELSE /\ r.str[w].data_ \in DOMAIN r.mem /\ r.str[w].data_ # null
                           /\ r.mem[r.str[w].data_] \in [1 .. (r.str[w].size_ + 1) -> Char]
                           /\ r.mem[r.str[w].data_][r.str[w].size_ + 1] = NUL
    OBVIOUS
  <2>1. CASE w = v /\ s = << >>
    BY <1>2, <2>1 DEF String!Empty
  <2>2. CASE w = v /\ s # << >>
    <3>1. r.str[w].size_ = Len(s) /\ r.str[w].data_ = b
      BY <1>2, <2>2
    <3>2. /\ Len(s) # 0 /\ b # null /\ b \in DOMAIN r.mem
          /\ r.mem[b] \in [1 .. (Len(s) + 1) -> Char] /\ r.mem[b][Len(s) + 1] = NUL
      BY <1>1, <1>5, <2>2
    <3> QED
      BY <3>1, <3>2
  <2>3. CASE w # v
    <3>1. CASE m.str[w].size_ = 0
      BY <1>2, <2>3, <3>1 DEF StrSound
    <3>2. CASE m.str[w].size_ # 0
      <4> DEFINE k == m.str[w].size_
      <4>1. /\ m.str[w].data_ # null
            /\ m.mem[m.str[w].data_] \in [1 .. (k + 1) -> Char]
            /\ m.mem[m.str[w].data_][k + 1] = NUL
        BY <3>2 DEF StrSound
      <4> QED
        BY <1>2, <1>4, <2>3, <3>2, <4>1
    <3> QED
      BY <3>1, <3>2
  <2> QED
    BY <2>1, <2>2, <2>3
<1>7. \A w \in Str \ {v} : m.str[w].data_ # null =>
        /\ m.str[w].data_ # d /\ m.str[w].data_ \in DOMAIN m.mem
        /\ s # << >> => m.str[w].data_ # b
  BY <1>1 DEF StrSound
<1>8. \A w, x \in Str : r.str[w].data_ = r.str[x].data_ => w = x \/ r.str[w].data_ = null
  BY <1>1, <1>2, <1>7 DEF StrSound, String!Empty
<1>9. DOMAIN r.mem = {r.str[w].data_ : w \in Str} \ {null}
  <2>1. ASSUME NEW x, x \in DOMAIN r.mem  PROVE x # null /\ \E w \in Str : r.str[w].data_ = x
    <3>1. CASE s # << >> /\ x = b
      BY <1>1, <1>2, <3>1
    <3>2. CASE ~(s # << >> /\ x = b)
      <4>1. x \in DOMAIN m.mem /\ x # d
        BY <2>1, <3>2 DEF Renewal
      <4>2. PICK w \in Str : m.str[w].data_ = x
        BY <1>1, <4>1
      <4> QED
        BY <1>1, <1>2, <4>1, <4>2
    <3> QED
      BY <3>1, <3>2
  <2>2. ASSUME NEW w \in Str, r.str[w].data_ # null  PROVE r.str[w].data_ \in DOMAIN r.mem
    <3>1. CASE w = v
      BY <1>2, <1>5, <2>2, <3>1 DEF String!Empty
    <3>2. CASE w # v
      BY <1>2, <1>7, <2>2, <3>2 DEF Renewal
    <3> QED
      BY <3>1, <3>2
  <2> QED
    BY <2>1, <2>2
<1>10. StrSound(r)
  BY <1>2, <1>6, <1>8, <1>9 DEF StrSound
<1>11. String!Text(r, v) = s
  <2>1. CASE s = << >>
    <3>1. Len(String!Text(r, v)) = 0 /\ String!Text(r, v) \in Seq(Char)
      BY <1>2, <1>10, <2>1, TextSound DEF String!Empty
    <3> QED
      BY <2>1, <3>1, EmptySeq
  <2>2. CASE s # << >>
    <3> DEFINE t == String!Text(r, v)
    <3>1. String!Size(r, v) = Len(s) /\ Len(s) # 0 /\ r.str[v].data_ = b
      BY <1>2, <1>5, <1>10, <2>2, TextSound
    <3>2. t \in Seq(Char) /\ Len(t) = Len(s) /\ \A j \in 1 .. Len(s) : t[j] = r.mem[b][j]
      BY <1>10, <3>1, TextSound, SMTT(60)
    <3> HIDE DEF t
    <3>3. \A j \in 1 .. Len(s) : t[j] = s[j]
      BY <1>5, <2>2, <3>2
    <3> QED
      BY <3>2, <3>3, SeqEqual DEF t
  <2> QED
    BY <2>1, <2>2
<1>12. \A w \in Str \ {v} : String!Chars(r, w) = String!Chars(m, w)
  <2> SUFFICES ASSUME NEW w \in Str \ {v}  PROVE String!Chars(r, w) = String!Chars(m, w)
    OBVIOUS
  <2>1. CASE m.str[w].data_ = null
    BY <1>2, <2>1 DEF String!Chars
  <2>2. CASE m.str[w].data_ # null
    BY <1>2, <1>7, <2>2 DEF String!Chars, Renewal
  <2> QED
    BY <2>1, <2>2
<1> QED
  BY <1>2, <1>10, <1>11, <1>12
(* The strings and the buffers after a step.                               *)
StrAfter == [str |-> str', mem |-> chars']

(* The two pairs by their parts.                                           *)
LEMMA StrNow ==
  /\ String!Now.str = str /\ String!Now.mem = chars
  /\ StrAfter.str = str' /\ StrAfter.mem = chars'
  /\ \A w \in Str : String!Text(String!Now, w)' = String!Text(StrAfter, w)
  BY DEF String!Now, StrAfter, String!Text, String!Chars, String!Size

(* Every step keeps the strings sound, and StringValues sees the texts.    *)
LEMMA StepToPair ==
  ASSUME NEW r, str' = r.str, chars' = r.mem, StrSound(r)
  PROVE  /\ StrSound(StrAfter)
         /\ \A w \in Str : String!Text(String!Now, w)' = String!Text(r, w)
<1>1. StrAfter.str = r.str /\ StrAfter.mem = r.mem
  BY StrNow
<1>2. StrSound(StrAfter)
  BY <1>1 DEF StrSound
<1>3. \A w \in Str : String!Text(StrAfter, w) = String!Text(r, w)
  BY <1>1 DEF String!Text, String!Chars, String!Size
<1> QED
  BY <1>2, <1>3, StrNow

(* A step that renews v leaves sound strings and sets the text of v alone. *)
LEMMA RenewTrue ==
  ASSUME StrSound(String!Now), NEW v \in Str, NEW b, NEW s \in Seq(Char), NEW r,
         s # << >> => b \in StrBuffer /\ b \notin DOMAIN chars \ {str[v].data_},
         Renewal(String!Now, r, v, b, s), str' = r.str, chars' = r.mem
  PROVE  StrSound(StrAfter) /\ String!Abstract!Set(v, s)
<1>1. /\ StrSound(r) /\ String!Text(r, v) = s
      /\ \A w \in Str \ {v} : r.str[w] = str[w]
                              /\ String!Chars(r, w) = String!Chars(String!Now, w)
  BY StrNow, RenewalSound
<1>2. \A w \in Str \ {v} : String!Text(r, w) = String!Text(String!Now, w)
  BY <1>1, StrNow DEF String!Text, String!Size
<1>3. StrSound(StrAfter) /\ \A w \in Str : String!Text(String!Now, w)' = String!Text(r, w)
  BY <1>1, StepToPair
<1> QED
  BY <1>1, <1>2, <1>3 DEF String!Abstract!Set

(* clear() renews with the empty text.                                     *)
LEMMA ClearedTrue ==
  ASSUME NEW m, NEW v \in Str, NEW b
  PROVE  Renewal(m, String!Cleared(m, v), v, b, << >>)
  BY DEF Renewal, String!Cleared, String!Without

(* clear() leaves v without text and the others as they were.              *)
LEMMA ClearedText ==
  ASSUME StrSound(String!Now), NEW v \in Str, NEW w \in Str
  PROVE  /\ StrSound(String!Cleared(String!Now, v))
         /\ String!Text(String!Cleared(String!Now, v), w) =
              IF v = w THEN << >> ELSE String!Text(String!Now, w)
<1> DEFINE now == String!Now
           r == String!Cleared(now, v)
<1>1. Renewal(now, r, v, null, << >>)
  BY ClearedTrue
<1> HIDE DEF r, now
<1>2. << >> \in Seq(Char) /\ StrSound(now)
  BY DEF now
<1>3. /\ StrSound(r) /\ String!Text(r, v) = << >>
      /\ \A x \in Str \ {v} : r.str[x] = now.str[x] /\ String!Chars(r, x) = String!Chars(now, x)
  BY <1>1, <1>2, RenewalSound
<1>4. v # w => String!Text(r, w) = String!Text(now, w)
  BY <1>3 DEF String!Text, String!Size
<1> QED
  BY <1>3, <1>4 DEF r, now
(* New contents, after the old buffer was deleted or before.               *)
LEMMA ClearedFirstTrue ==
  ASSUME StrSound(String!Now), NEW v \in Str, NEW b \in StrBuffer, NEW s \in Seq(Char),
         String!ClearedFirst(v, b, s)
  PROVE  StrSound(StrAfter) /\ String!Abstract!Set(v, s) /\ overrun' = overrun
<1> DEFINE m == String!Cleared(String!Now, v)
           r == String!Held(m, v, b, s)
<1>1. String!Free(m, b) /\ String!Become(r)
  BY DEF String!ClearedFirst
<1>2. str' = r.str /\ chars' = r.mem /\ overrun' = overrun
  BY <1>1 DEF String!Become
<1>3. Renewal(String!Now, m, v, b, << >>)
  BY ClearedTrue
<1>4. Renewal(String!Now, r, v, b, s)
  BY <1>1 DEF Renewal, String!Cleared, String!Held, String!Without, String!With
<1>5. b \notin DOMAIN chars \ {str[v].data_}
  BY <1>1, <1>3, StrNow DEF Renewal, String!Free
<1> HIDE DEF r
<1> QED
  BY <1>2, <1>4, <1>5, RenewTrue

(* A new buffer that takes a text while the old one is still held,         *)
(* as append() needs it, renews v once the old one has gone.               *)
LEMMA KeptRenewal ==
  ASSUME StrSound(String!Now), NEW v \in Str, NEW b \in StrBuffer, NEW s \in Seq(Char),
         String!Free(String!Now, b)
  PROVE  Renewal(String!Now, String!KeptAndRenewed(String!Now, v, b, s), v, b, s)
<1> DEFINE now == String!Now
           n == String!Held(now, v, b, s)
           r == String!KeptAndRenewed(now, v, b, s)
           d == now.str[v].data_
<1>1. /\ n.str = [now.str EXCEPT ![v] = IF s = << >> THEN String!Empty
                                        ELSE [size_ |-> Len(s), data_ |-> b]]
      /\ n.mem = IF s = << >> THEN now.mem ELSE String!With(now.mem, b, Append(s, NUL))
      /\ r.str = n.str /\ r.mem = String!Without(n.mem, d)
  BY DEF String!KeptAndRenewed, String!Held, String!Now
<1>2. b \notin DOMAIN now.mem /\ b # d
  BY StringParameters DEF String!Free, StrSound
<1> HIDE DEF now, n, r
<1> QED
  BY <1>1, <1>2 DEF Renewal, String!Without, String!With, r, now

(* The methods that build the new text before they free the old one.       *)
LEMMA RenewedTrue ==
  ASSUME StrSound(String!Now), NEW v \in Str, NEW b \in StrBuffer, NEW s \in Seq(Char),
         String!Renewed(v, b, s)
  PROVE  StrSound(StrAfter) /\ String!Abstract!Set(v, s) /\ overrun' = overrun
<1> DEFINE r == String!KeptAndRenewed(String!Now, v, b, s)
<1>1. String!Free(String!Now, b) /\ str' = r.str /\ chars' = r.mem /\ overrun' = overrun
  BY DEF String!Renewed, String!Become
<1>2. Renewal(String!Now, r, v, b, s)
  BY <1>1, KeptRenewal
<1>3. b \notin DOMAIN chars
  BY <1>1, StrNow DEF String!Free
<1> HIDE DEF r
<1> QED
  BY <1>1, <1>2, <1>3, RenewTrue

(* A move hands the buffer over, after the one v had is deleted.           *)
LEMMA MoveTrue ==
  ASSUME StrSound(String!Now), NEW v \in Str, NEW w \in Str, String!Move(v, w)
  PROVE  StrSound(StrAfter) /\ String!Abstract!Move(v, w) /\ overrun' = overrun
<1> DEFINE m == String!Cleared(String!Now, v)
           r == [m EXCEPT !.str = [[@ EXCEPT ![v] = m.str[w]] EXCEPT ![w] = String!Empty]]
<1>1. str' = r.str /\ chars' = r.mem /\ overrun' = overrun
  BY DEF String!Move, String!Become
<1>2. StrSound(m)
  BY ClearedText
<1>3. /\ r.mem = m.mem
      /\ r.str = [[m.str EXCEPT ![v] = m.str[w]] EXCEPT ![w] = String!Empty]
  BY DEF String!Cleared
<1>4. m.str[v] = String!Empty
  BY StrNow DEF String!Cleared, StrSound
<1> HIDE DEF m, r
<1>5. /\ m.str \in [Str -> StrCell] /\ String!Empty \in StrCell
      /\ String!Empty.data_ = null /\ String!Empty.size_ = 0
  BY <1>2 DEF StrSound, String!Empty, StrCell
<1>6. /\ r.str \in [Str -> StrCell]
      /\ \A x \in Str : r.str[x] = IF x = w THEN String!Empty
                                   ELSE IF x = v THEN m.str[w] ELSE m.str[x]
  BY <1>3, <1>5
<1>7. StrSound(r)
  <2>1. \A x \in Str :
          IF r.str[x].size_ = 0 THEN r.str[x] = String!Empty
          ELSE /\ r.str[x].data_ \in DOMAIN r.mem /\ r.str[x].data_ # null
               /\ r.mem[r.str[x].data_] \in [1 .. (r.str[x].size_ + 1) -> Char]
               /\ r.mem[r.str[x].data_][r.str[x].size_ + 1] = NUL
    <3> SUFFICES ASSUME NEW x \in Str
                 PROVE  IF r.str[x].size_ = 0 THEN r.str[x] = String!Empty
                        ELSE /\ r.str[x].data_ \in DOMAIN r.mem /\ r.str[x].data_ # null
                             /\ r.mem[r.str[x].data_] \in [1 .. (r.str[x].size_ + 1) -> Char]
                             /\ r.mem[r.str[x].data_][r.str[x].size_ + 1] = NUL
      OBVIOUS
    <3>1. CASE x = w
      BY <1>5, <1>6, <3>1
    <3>2. CASE x # w
      <4>1. PICK y \in Str : r.str[x] = m.str[y]
        BY <1>6, <3>2
      <4>2. IF m.str[y].size_ = 0 THEN m.str[y] = String!Empty
            ELSE /\ m.str[y].data_ \in DOMAIN m.mem /\ m.str[y].data_ # null
                 /\ m.mem[m.str[y].data_] \in [1 .. (m.str[y].size_ + 1) -> Char]
                 /\ m.mem[m.str[y].data_][m.str[y].size_ + 1] = NUL
        BY <1>2 DEF StrSound
      <4> QED
        BY <1>3, <4>1, <4>2, Zenon
    <3> QED
      BY <3>1, <3>2
  <2>2. \A x, y \in Str : r.str[x].data_ = r.str[y].data_ => x = y \/ r.str[x].data_ = null
    BY <1>2, <1>4, <1>5, <1>6 DEF StrSound
  <2>3. {r.str[x].data_ : x \in Str} \ {null} = {m.str[x].data_ : x \in Str} \ {null}
    <3>1. ASSUME NEW x \in Str, r.str[x].data_ # null
          PROVE  \E y \in Str : r.str[x].data_ = m.str[y].data_
      BY <1>5, <1>6, <3>1
    <3>2. ASSUME NEW x \in Str, m.str[x].data_ # null
          PROVE  \E y \in Str : r.str[y].data_ = m.str[x].data_
      <4>1. x # v
        BY <1>4, <1>5, <3>2
      <4>2. CASE x = w
        BY <1>6, <4>1, <4>2
      <4>3. CASE x # w
        BY <1>6, <4>1, <4>3
      <4> QED
        BY <4>2, <4>3
    <3> QED
      BY <3>1, <3>2
  <2>4. DOMAIN r.mem = {r.str[x].data_ : x \in Str} \ {null}
    BY <1>2, <1>3, <2>3 DEF StrSound
  <2> QED
    BY <1>6, <2>1, <2>2, <2>4 DEF StrSound
<1>8. \A x \in Str : String!Text(r, x) =
        IF x = w THEN << >> ELSE IF x = v THEN String!Text(m, w) ELSE String!Text(m, x)
  <2>1. String!Text(r, w) = << >>
    BY <1>5, <1>6 DEF String!Text, String!Chars, String!Size
  <2>2. v # w => String!Text(r, v) = String!Text(m, w)
    BY <1>3, <1>6 DEF String!Text, String!Chars, String!Size
  <2>3. \A x \in Str \ {v, w} : String!Text(r, x) = String!Text(m, x)
    BY <1>3, <1>6 DEF String!Text, String!Chars, String!Size
  <2> QED
    BY <2>1, <2>2, <2>3
<1>9. \A x \in Str : String!Text(m, x) =
        IF v = x THEN << >> ELSE String!Text(String!Now, x)
  BY ClearedText DEF m
<1>10. StrSound(StrAfter) /\ \A x \in Str : String!Text(String!Now, x)' = String!Text(r, x)
  BY <1>1, <1>7, StepToPair
<1>11. String!Abstract!Move(v, w)
  BY <1>8, <1>9, <1>10 DEF String!Abstract!Move
<1> QED
  BY <1>1, <1>10, <1>11

(* A character of a text is replaced; the NUL is not one of them.          *)
LEMMA StoreCharTrue ==
  ASSUME StrSound(String!Now), NEW v \in Str, NEW i \in 1 .. String!Size(String!Now, v),
         NEW c \in Char, String!Store(v, i, c)
  PROVE  /\ StrSound(StrAfter) /\ overrun' = overrun
         /\ String!Abstract!Set(v, [String!Text(String!Now, v) EXCEPT ![i] = c])
<1> DEFINE now == String!Now
           n == str[v].size_
           d == str[v].data_
           r == [str |-> str, mem |-> [chars EXCEPT ![d][i] = c]]
           t == String!Text(now, v)
<1>1. str' = r.str /\ chars' = r.mem /\ overrun' = overrun
  BY DEF String!Store
<1>2. /\ n \in Nat /\ n # 0 /\ i \in 1 .. n /\ String!Size(now, v) = n
      /\ String!Chars(now, v) = chars[d]
      /\ chars[d] \in [1 .. (n + 1) -> Char] /\ chars[d][n + 1] = NUL
      /\ t \in Seq(Char) /\ Len(t) = n /\ \A j \in 1 .. n : t[j] = chars[d][j]
  BY TextSound, StrNow
<1>3. /\ d \in DOMAIN chars /\ d # null
      /\ \A w \in Str \ {v} : str[w].data_ # d
  BY <1>2, StrNow DEF StrSound
<1>4. /\ r.str = str /\ DOMAIN r.mem = DOMAIN chars
      /\ \A x \in DOMAIN chars : x # d => r.mem[x] = chars[x]
      /\ r.mem[d] = [chars[d] EXCEPT ![i] = c]
  BY <1>3
<1> HIDE DEF r, n, d, now
<1>5. /\ r.mem[d] \in [1 .. (n + 1) -> Char] /\ r.mem[d][n + 1] = NUL
      /\ \A j \in 1 .. n : r.mem[d][j] = IF j = i THEN c ELSE chars[d][j]
  BY <1>2, <1>4
<1>6. StrSound(r)
  <2>1. ASSUME NEW w \in Str
        PROVE  IF str[w].size_ = 0 THEN str[w] = String!Empty
               ELSE /\ str[w].data_ \in DOMAIN r.mem /\ str[w].data_ # null
                    /\ r.mem[str[w].data_] \in [1 .. (str[w].size_ + 1) -> Char]
                    /\ r.mem[str[w].data_][str[w].size_ + 1] = NUL
    <3>1. CASE w = v
      BY <1>2, <1>3, <1>4, <1>5, <3>1 DEF n, d
    <3>2. CASE w # v
      <4>1. IF str[w].size_ = 0 THEN str[w] = String!Empty
            ELSE /\ str[w].data_ \in DOMAIN chars /\ str[w].data_ # null
                 /\ chars[str[w].data_] \in [1 .. (str[w].size_ + 1) -> Char]
                 /\ chars[str[w].data_][str[w].size_ + 1] = NUL
        BY StrNow DEF StrSound
      <4>2. str[w].data_ \in DOMAIN chars => r.mem[str[w].data_] = chars[str[w].data_]
        BY <1>3, <1>4, <3>2
      <4> QED
        BY <1>4, <4>1, <4>2
    <3> QED
      BY <3>1, <3>2
  <2> QED
    BY <1>4, <2>1, StrNow DEF StrSound
<1>7. String!Text(r, v) = [t EXCEPT ![i] = c]
  <2> DEFINE u == String!Text(r, v)
             e == [t EXCEPT ![i] = c]
  <2>1. u \in Seq(Char) /\ Len(u) = n /\ \A j \in 1 .. n : u[j] = r.mem[d][j]
    <3>1. String!Size(r, v) = n /\ String!Chars(r, v) = r.mem[d]
      BY <1>2, <1>3, <1>4 DEF String!Size, String!Chars, n, d
    <3> QED
      BY <1>6, <3>1, TextSound
  <2> HIDE DEF t
  <2>2. e \in Seq(Char) /\ Len(e) = n /\ \A j \in 1 .. n : e[j] = IF j = i THEN c ELSE t[j]
    BY <1>2
  <2> HIDE DEF u, e
  <2>3. \A j \in 1 .. n : u[j] = e[j]
    BY <1>2, <1>5, <2>1, <2>2
  <2> QED
    BY <1>2, <2>1, <2>2, <2>3, SeqEqual DEF u, e
<1>8. \A w \in Str \ {v} : String!Text(r, w) = String!Text(now, w)
  <2>1. \A w \in Str \ {v} : String!Chars(r, w) = String!Chars(now, w)
    <3>1. \A w \in Str \ {v} : str[w].data_ # null => str[w].data_ \in DOMAIN chars
      BY StrNow DEF StrSound
    <3> QED
      BY <1>3, <1>4, <3>1, StrNow DEF String!Chars, now
  <2> QED
    BY <1>4, <2>1, StrNow DEF String!Text, String!Size, now
<1>9. StrSound(StrAfter) /\ \A x \in Str : String!Text(String!Now, x)' = String!Text(r, x)
  BY <1>1, <1>6, StepToPair
<1>10. String!Abstract!Set(v, [t EXCEPT ![i] = c])
  BY <1>7, <1>8, <1>9 DEF String!Abstract!Set, now
<1> QED
  BY <1>1, <1>9, <1>10 DEF now

(* What resize() leaves: the characters kept, and c for the others.        *)
LEMMA ResizedText ==
  ASSUME NEW s \in Seq(Char), NEW n \in Nat, NEW c \in Char
  PROVE  /\ String!Resized(s, n, c) \in Seq(Char) /\ Len(String!Resized(s, n, c)) = n
         /\ \A j \in 1 .. n : String!Resized(s, n, c)[j] = IF j <= Len(s) THEN s[j] ELSE c
<1> DEFINE r == String!Resized(s, n, c)
<1>1. r = [j \in 1 .. n |-> IF j <= Len(s) THEN s[j] ELSE c]
  BY DEF String!Resized
<1>2. \A j \in 1 .. n : j <= Len(s) => s[j] \in Char
  <2>1. \A j \in 1 .. n : j <= Len(s) => j \in 1 .. Len(s)
    BY LenProperties
  <2> QED
    BY <2>1, ElementOfSeq
<1> HIDE DEF r
<1>3. r \in [1 .. n -> Char]
  BY <1>1, <1>2
<1>4. r \in Seq(Char)
  BY <1>3, SeqDef
<1>5. Len(r) = n
  BY <1>3, <1>4, LenProperties
<1> QED
  BY <1>1, <1>4, <1>5 DEF r

(* resize() cuts the text or pads it.                                      *)
LEMMA ResizeTextTrue ==
  ASSUME StrSound(String!Now), NEW v \in Str, NEW n \in Nat, NEW c \in Char, NEW b \in StrBuffer,
         String!Resize(v, n, c, b)
  PROVE  StrSound(StrAfter) /\ String!Abstract!Resize(v, n, c) /\ overrun' = overrun
<1> DEFINE t == String!Text(String!Now, v)
           s == String!Resized(t, n, c)
           more == [j \in 1 .. (n - Len(t)) |-> c]
<1>1. t \in Seq(Char) /\ Len(t) \in Nat
  BY TextSound
<1>2. String!Renewed(v, b, s)
  BY DEF String!Resize
<1> HIDE DEF t
<1>3. /\ s \in Seq(Char) /\ Len(s) = n
      /\ \A j \in 1 .. n : s[j] = IF j <= Len(t) THEN t[j] ELSE c
  BY <1>1, ResizedText
<1> HIDE DEF s
<1>4. StrSound(StrAfter) /\ String!Abstract!Set(v, s) /\ overrun' = overrun
  BY <1>2, <1>3, RenewedTrue
<1>5. s = IF n <= Len(t) THEN SubSeq(t, 1, n) ELSE t \o more
  <2>1. CASE n <= Len(t)
    <3> DEFINE f == SubSeq(t, 1, n)
    <3>1. f \in Seq(Char) /\ Len(f) = n /\ \A j \in 1 .. n : f[j] = t[j] /\ j <= Len(t)
      BY <1>1, <2>1
    <3> HIDE DEF f
    <3>2. \A j \in 1 .. n : s[j] = f[j]
      BY <1>3, <3>1
    <3>3. s = f
      BY <1>3, <3>1, <3>2, SeqEqual
    <3> QED
      BY <2>1, <3>3 DEF f
  <2>2. CASE ~(n <= Len(t))
    <3> DEFINE d == n - Len(t)
               p == t \o more
    <3>1. d \in Nat /\ n = Len(t) + d
      BY <1>1, <2>2
    <3>2. more \in [1 .. d -> Char] /\ \A j \in 1 .. d : more[j] = c
      OBVIOUS
    <3> HIDE DEF more, d
    <3>3. more \in Seq(Char)
      BY <3>1, <3>2, SeqDef
    <3>4. Len(more) = d
      BY <3>1, <3>2, <3>3, LenProperties
    <3>5. p \in Seq(Char) /\ Len(p) = n
          /\ \A j \in 1 .. n : p[j] = IF j <= Len(t) THEN t[j] ELSE more[j - Len(t)]
      <4>1. Len(t) + Len(more) = n
        BY <3>1, <3>4
      <4> QED
        BY <1>1, <3>3, <4>1, ConcatProperties
    <3>6. \A j \in 1 .. n : ~(j <= Len(t)) => j - Len(t) \in 1 .. d
      BY <1>1, <3>1
    <3> HIDE DEF p
    <3>7. \A j \in 1 .. n : s[j] = p[j]
      BY <1>3, <3>2, <3>5, <3>6
    <3>8. s = p
      BY <1>3, <3>5, <3>7, SeqEqual
    <3> QED
      BY <2>2, <3>8 DEF p
  <2> QED
    BY <2>1, <2>2
<1>6. String!Abstract!Resize(v, n, c)
  BY <1>4, <1>5 DEF String!Abstract!Resize, String!Abstract!Set, String!Abstract!Front_, t, more
<1> QED
  BY <1>4, <1>6

(* append() of another string: what memcpy leaves is the two texts and     *)
(* the NUL that resize() has put behind them.                              *)
LEMMA AppendToTrue ==
  ASSUME StrSound(String!Now), ~OwnAppend, ~overrun,
         NEW v \in Str, NEW w \in Str, NEW b \in StrBuffer, String!AppendTo(v, w, b)
  PROVE  /\ StrSound(StrAfter) /\ ~overrun'
         /\ String!Abstract!Set(v, String!Text(String!Now, v) \o String!Text(String!Now, w))
<1> DEFINE now == String!Now
           tv == String!Text(now, v)
           tw == String!Text(now, w)
           at == String!Size(now, v)
           k == String!Size(now, w)
           n == at + k
           s == String!Resized(tv, n, NUL)
           m == String!KeptAndRenewed(now, v, b, s)
           r == [str |-> str', mem |-> chars']
           t == tv \o tw
<1>1. v # w
  BY DEF String!AppendTo
<1>2. /\ tv \in Seq(Char) /\ Len(tv) = at /\ at \in Nat
      /\ tw \in Seq(Char) /\ Len(tw) = k /\ k \in Nat
      /\ \A j \in 1 .. k : tw[j] = String!Chars(now, w)[j]
  BY TextSound
<1>3. /\ String!Free(now, b) /\ r.str = m.str
      /\ r.mem = IF s = << >> THEN m.mem
                 ELSE [m.mem EXCEPT ![m.str[v].data_] = String!Memcpy(m, v, w, at)]
      /\ overrun' = (overrun \/ at + String!Size(m, w) > Len(String!Chars(m, v)))
      /\ r.str = str' /\ r.mem = chars'
  BY DEF String!AppendTo
<1>4. StrSound(now) /\ now.str = str /\ now.mem = chars
  BY StrNow
<1> HIDE DEF now, tv, tw, at, k, r
<1>5. n \in Nat
  BY <1>2
<1> HIDE DEF n
<1>6. /\ s \in Seq(Char) /\ Len(s) = n
      /\ \A j \in 1 .. n : s[j] = IF j <= at THEN tv[j] ELSE NUL
  <2>1. tv \in Seq(Char) /\ n \in Nat /\ NUL \in Char /\ Len(tv) = at
    BY <1>2, <1>5, StringParameters
  <2> QED
    BY <2>1, ResizedText
<1> HIDE DEF s
<1>7. /\ t \in Seq(Char) /\ Len(t) = n
      /\ \A j \in 1 .. n : t[j] = IF j <= at THEN tv[j] ELSE tw[j - at]
  <2>1. Len(tv) + Len(tw) = n
    BY <1>2 DEF n
  <2> QED
    BY <1>2, <2>1, ConcatProperties
<1> HIDE DEF t
<1>8. Renewal(now, m, v, b, s) /\ b \notin DOMAIN chars
  BY <1>3, <1>4, <1>6, KeptRenewal DEF now, String!Free
<1> HIDE DEF m
<1>9. /\ StrSound(m) /\ String!Text(m, v) = s
      /\ m.str[w] = str[w] /\ String!Chars(m, w) = String!Chars(now, w)
  <2>1. s # << >> => b \in StrBuffer /\ b \notin DOMAIN now.mem \ {now.str[v].data_}
    BY <1>4, <1>8
  <2> QED
    BY <1>1, <1>4, <1>6, <1>8, <2>1, RenewalSound
<1>10. String!Size(m, w) = k /\ String!Size(m, v) = n
  <2>1. String!Size(m, v) = Len(s)
    BY <1>9, TextSound
  <2> QED
    BY <1>4, <1>6, <1>9, <2>1 DEF String!Size, k
<1>11. /\ n = 0 => String!Chars(m, v) = << >>
       /\ n # 0 => /\ String!Chars(m, v) \in [1 .. (n + 1) -> Char]
                   /\ String!Chars(m, v)[n + 1] = NUL
                   /\ \A j \in 1 .. n : String!Chars(m, v)[j] = s[j]
  BY <1>9, <1>10, TextSound
<1>12. ~overrun'
  <2>1. CASE n = 0
    <3>1. Len(String!Chars(m, v)) = 0 /\ at + String!Size(m, w) = 0
      BY <1>10, <1>11, <2>1 DEF n
    <3>2. ~(at + String!Size(m, w) > Len(String!Chars(m, v)))
      BY <3>1
    <3> QED
      BY <1>3, <3>2
  <2>2. CASE n # 0
    <3> DEFINE c == String!Chars(m, v)
               l == n + 1
    <3>1. c \in [1 .. l -> Char] /\ l \in Nat
      BY <1>5, <1>11, <2>2
    <3> HIDE DEF c, l
    <3>2. c \in Seq(Char)
      BY <3>1, SeqDef
    <3>3. Len(c) = l
      BY <3>1, <3>2, LenProperties
    <3>4. ~(at + String!Size(m, w) > Len(c))
      <4>1. at + String!Size(m, w) = n
        BY <1>10 DEF n
      <4> QED
        BY <1>5, <3>3, <4>1 DEF l
    <3> QED
      BY <1>3, <3>4 DEF c
  <2> QED
    BY <2>1, <2>2
<1>13. s = << >> <=> t = << >>
  BY <1>6, <1>7, EmptySeq
<1>14. ASSUME s # << >>  PROVE String!Memcpy(m, v, w, at) = Append(t, NUL)
  <2> DEFINE c == String!Chars(m, v)
             e == Append(t, NUL)
             l == n + 1
             new(j) == IF j \notin (at + 1) .. (at + k) THEN c[j] ELSE String!Chars(m, w)[j - at]
             copied == CHOOSE f : f = [j \in 1 .. l |-> IF j \notin (at + 1) .. (at + k) THEN c[j]
                                                        ELSE IF v = w THEN f[j - at]
                                                        ELSE String!Chars(m, w)[j - at]]
             g == String!Memcpy(m, v, w, at)
  <2>1. n # 0 /\ l \in Nat /\ c \in [1 .. l -> Char]
    BY <1>5, <1>6, <1>11, <1>14, EmptySeq
  <2>2. g = [j \in DOMAIN c |->
               (CHOOSE f : f = [i \in DOMAIN c |->
                                  IF i \notin (at + 1) .. (at + String!Size(m, w)) THEN c[i]
                                  ELSE IF v = w THEN f[i - at]
                                  ELSE String!Chars(m, w)[i - at]])[j]]
    BY DEF String!Memcpy
  <2> HIDE DEF g, c
  <2>3. g = [j \in 1 .. l |-> copied[j]]
    BY <1>10, <2>1, <2>2
  <2>4. copied = [j \in 1 .. l |-> new(j)]
    BY <1>1
  <2> HIDE DEF copied, new
  <2>5. \A j \in 1 .. l : g[j] = new(j)
    BY <2>3, <2>4
  <2>6. /\ e \in Seq(Char) /\ Len(e) = l /\ e[l] = NUL /\ \A j \in 1 .. n : e[j] = t[j]
    BY <1>7, StringParameters, AppendProperties
  <2> HIDE DEF e
  <2>7. ASSUME NEW j \in 1 .. l  PROVE g[j] = e[j]
    <3>1. CASE j = l
      <4>1. j \notin (at + 1) .. (at + k)
        BY <1>2, <3>1 DEF n
      <4> QED
        BY <1>11, <2>1, <2>5, <2>6, <3>1, <4>1 DEF new, c
    <3>2. CASE j # l /\ j <= at
      <4>1. j \in 1 .. n /\ j \notin (at + 1) .. (at + k)
        BY <1>2, <1>5, <3>2
      <4>2. g[j] = c[j] /\ c[j] = s[j] /\ s[j] = tv[j]
        BY <1>6, <1>11, <2>1, <2>5, <3>2, <4>1 DEF new, c
      <4> QED
        BY <1>7, <2>6, <3>2, <4>1, <4>2
    <3>3. CASE j # l /\ ~(j <= at)
      <4>1. j \in 1 .. n /\ j \in (at + 1) .. (at + k) /\ j - at \in 1 .. k
        BY <1>2, <1>5, <3>3 DEF n
      <4>2. g[j] = tw[j - at]
        BY <1>2, <1>9, <2>5, <4>1 DEF new
      <4> QED
        BY <1>7, <2>6, <3>3, <4>1, <4>2
    <3> QED
      BY <3>1, <3>2, <3>3
  <2>8. g \in [1 .. l -> Char]
    <3>1. \A j \in 1 .. l : e[j] \in Char
      BY <2>6, ElementOfSeq
    <3>2. DOMAIN g = 1 .. l /\ g = [j \in 1 .. l |-> g[j]]
      BY <2>3
    <3> QED
      BY <2>7, <3>1, <3>2
  <2>9. g \in Seq(Char)
    BY <2>1, <2>8, SeqDef
  <2>10. Len(g) = l
    BY <2>1, <2>8, <2>9, LenProperties
  <2> QED
    BY <2>6, <2>7, <2>9, <2>10, SeqEqual DEF g, e
<1>15. Renewal(now, r, v, b, t)
  <2>1. CASE s = << >>
    <3>1. t = s /\ r.mem = m.mem
      BY <1>3, <1>13, <2>1
    <3> QED
      BY <1>3, <1>8, <3>1 DEF Renewal
  <2>2. CASE s # << >>
    <3>1. t # << >> /\ m.str[v].data_ = b /\ b \in DOMAIN m.mem
      BY <1>4, <1>8, <1>13, <2>2 DEF Renewal, StrSound
    <3>2. /\ DOMAIN r.mem = DOMAIN m.mem /\ r.mem[b] = Append(t, NUL)
          /\ \A x \in DOMAIN m.mem : x # b => r.mem[x] = m.mem[x]
      BY <1>3, <1>14, <2>2, <3>1
    <3> QED
      BY <1>3, <1>6, <1>7, <1>8, <2>2, <3>1, <3>2 DEF Renewal
  <2> QED
    BY <2>1, <2>2
<1>16. StrSound(StrAfter) /\ String!Abstract!Set(v, t)
  BY <1>3, <1>7, <1>8, <1>15, RenewTrue DEF now
<1> QED
  BY <1>12, <1>16 DEF t, tv, tw, now
(* Where a length given by the program ends, and the text behind it.       *)
LEMMA CutSound ==
  ASSUME NEW s \in Seq(Char), NEW pos \in Nat, NEW len \in Nat, ~(pos > Len(s))
  PROVE  /\ pos \in 0 .. Len(s)
         /\ pos + String!Cut(s, pos, len) \in pos .. Len(s)
  BY LenProperties DEF String!Cut

(* The inductive invariant of the strings.                                 *)
StringInv == StrSound(String!Now) /\ ~overrun

AbstractText == [v \in Str |-> String!Text(String!Now, v)]

(* What a step of the strings does, if none is appended to itself.         *)
LEMMA StringStepTrue ==
  ASSUME ~OwnAppend, StringInv, String!Next
  PROVE  StringInv' /\ (String!Abstract!Next \/ UNCHANGED AbstractText)
<1> DEFINE Goal == /\ StrSound(StrAfter) /\ ~overrun'
                   /\ String!Abstract!Next \/ UNCHANGED AbstractText
<1>1. StrSound(String!Now) /\ ~overrun
  BY DEF StringInv
<1>2. ASSUME StrSound(StrAfter), overrun' = overrun, String!Abstract!Next  PROVE Goal
  BY <1>1, <1>2
<1>3. ASSUME str' = str, chars' = chars, overrun' = overrun  PROVE Goal
  <2>1. StrAfter = String!Now
    BY <1>3 DEF StrAfter, String!Now
  <2>2. UNCHANGED AbstractText
    BY <1>3 DEF AbstractText, String!Text, String!Chars, String!Size, String!Now
  <2> QED
    BY <1>1, <1>3, <2>1, <2>2
<1>4. ASSUME String!Abort  PROVE Goal
  BY <1>3, <1>4 DEF String!Abort
<1> HIDE DEF Goal
<1>5. PICK v, w \in Str, b \in StrBuffer :
       \/ \E s \in Texts : String!Construct(v, b, s)
       \/ \E n \in 0 .. MaxSize, c \in Char : String!Resize(v, n, c, b)
       \/ \E i \in 1 .. String!Size(String!Now, v), c \in Char : String!Store(v, i, c)
       \/ String!Assign(v, w, b) \/ String!Move(v, w) \/ String!Clear(v)
       \/ String!AppendTo(v, w, b) \/ String!AppendAssign(v, w, b)
       \/ \E pos, len \in 0 .. (MaxSize + 1) :
            String!Replace(v, w, pos, len, b) \/ String!Substr(v, w, pos, len, b)
       \/ \E x \in Str : String!Plus(v, w, x, b)
  BY DEF String!Next
<1>6. \A x \in Str :
        /\ String!Text(String!Now, x) \in Seq(Char)
        /\ Len(String!Text(String!Now, x)) = String!Size(String!Now, x)
        /\ DOMAIN String!Text(String!Now, x) = 1 .. String!Size(String!Now, x)
        /\ AbstractText[x] = String!Text(String!Now, x)
  <2>1. \A x \in Str : /\ String!Text(String!Now, x) \in Seq(Char)
                       /\ Len(String!Text(String!Now, x)) = String!Size(String!Now, x)
    BY <1>1, TextSound
  <2> QED
    BY <2>1, LenProperties DEF AbstractText
<1> DEFINE tv == String!Text(String!Now, v)
           tw == String!Text(String!Now, w)
<1>7. ASSUME NEW s \in Texts, String!Construct(v, b, s)  PROVE Goal
  <2>1. s \in Seq(Char)
    BY StringParameters
  <2>2. StrSound(StrAfter) /\ String!Abstract!Set(v, s) /\ overrun' = overrun
    BY <1>1, <1>7, <2>1, ClearedFirstTrue DEF String!Construct
  <2> QED
    BY <1>2, <2>2 DEF String!Abstract!Next
<1>8. ASSUME NEW n \in 0 .. MaxSize, NEW c \in Char, String!Resize(v, n, c, b)  PROVE Goal
  <2>1. n \in Nat
    BY StringParameters
  <2>2. StrSound(StrAfter) /\ String!Abstract!Resize(v, n, c) /\ overrun' = overrun
    BY <1>1, <1>8, <2>1, ResizeTextTrue
  <2> QED
    BY <1>2, <2>2 DEF String!Abstract!Next
<1>9. ASSUME NEW i \in 1 .. String!Size(String!Now, v), NEW c \in Char, String!Store(v, i, c)
      PROVE  Goal
  <2>1. StrSound(StrAfter) /\ overrun' = overrun /\ String!Abstract!Set(v, [tv EXCEPT ![i] = c])
    BY <1>1, <1>9, StoreCharTrue
  <2>2. i \in DOMAIN AbstractText[v] /\ AbstractText[v] = tv
    BY <1>6
  <2> QED
    BY <1>2, <2>1, <2>2 DEF String!Abstract!Next, AbstractText
<1>10. ASSUME String!Assign(v, w, b)  PROVE Goal
  <2> DEFINE s == String!Text(String!Cleared(String!Now, v), w)
  <2>1. s = IF v = w THEN << >> ELSE tw
    BY <1>1, ClearedText
  <2>2. s \in Seq(Char)
    BY <1>6, <2>1
  <2>3. StrSound(StrAfter) /\ String!Abstract!Set(v, s) /\ overrun' = overrun
    BY <1>1, <1>10, <2>2, ClearedFirstTrue DEF String!Assign
  <2>4. String!Abstract!Assign(v, w)
    BY <2>1, <2>3 DEF String!Abstract!Assign
  <2> QED
    BY <1>2, <2>3, <2>4 DEF String!Abstract!Next
<1>11. ASSUME String!Move(v, w)  PROVE Goal
  <2>1. StrSound(StrAfter) /\ String!Abstract!Move(v, w) /\ overrun' = overrun
    BY <1>1, <1>11, MoveTrue
  <2> QED
    BY <1>2, <2>1 DEF String!Abstract!Next
<1>12. ASSUME String!Clear(v)  PROVE Goal
  <2> DEFINE r == String!Cleared(String!Now, v)
             z == 0
             cut == IF z <= Len(AbstractText[v]) THEN SubSeq(AbstractText[v], 1, z)
                    ELSE AbstractText[v] \o [i \in 1 .. (z - Len(AbstractText[v])) |-> NUL]
  <2>1. str' = r.str /\ chars' = r.mem /\ overrun' = overrun
    BY <1>12 DEF String!Clear, String!Become
  <2>2. Renewal(String!Now, r, v, b, << >>) /\ << >> \in Seq(Char)
    BY ClearedTrue
  <2> HIDE DEF r
  <2>3. StrSound(StrAfter) /\ String!Abstract!Set(v, << >>)
    BY <1>1, <2>1, <2>2, RenewTrue
  <2>4. cut = << >>
    BY <1>6, LenProperties
  <2>5. String!Abstract!Resize(v, 0, NUL)
    BY <2>3, <2>4
       DEF String!Abstract!Resize, String!Abstract!Set, String!Abstract!Front_, AbstractText
  <2> QED
    BY <1>2, <2>1, <2>3, <2>5, StringParameters DEF String!Abstract!Next
<1>13. ASSUME String!AppendTo(v, w, b)  PROVE Goal
  <2>1. StrSound(StrAfter) /\ ~overrun' /\ String!Abstract!Set(v, tv \o tw)
    BY <1>1, <1>13, AppendToTrue
  <2>2. String!Abstract!Next
    BY <1>6, <2>1 DEF String!Abstract!Next, AbstractText
  <2> QED
    BY <2>1, <2>2 DEF Goal
<1>14. ASSUME String!AppendAssign(v, w, b)  PROVE Goal
  <2>1. CASE String!AppendTo(v, w, b)
    BY <1>13, <2>1
  <2>2. CASE UNCHANGED String!vars
    BY <1>3, <2>2 DEF String!vars
  <2> QED
    BY <1>14, <2>1, <2>2 DEF String!AppendAssign
<1>15. ASSUME NEW pos \in Nat, NEW len \in Nat, String!Replace(v, w, pos, len, b)  PROVE Goal
  <2>1. CASE pos > Len(tv)
    BY <1>4, <1>15, <2>1 DEF String!Replace
  <2>2. CASE ~(pos > Len(tv))
    <3> DEFINE end == pos + String!Cut(tv, pos, len)
               s == SubSeq(tv, 1, pos) \o tw \o SubSeq(tv, end + 1, Len(tv))
    <3>1. pos \in 0 .. Len(tv) /\ end \in pos .. Len(tv) /\ tv \in Seq(Char) /\ tw \in Seq(Char)
      BY <1>6, <2>2, CutSound
    <3>2. String!Renewed(v, b, s)
      BY <1>15, <2>2 DEF String!Replace
    <3> HIDE DEF tv, tw, end
    <3>3. s \in Seq(Char)
      <4>1. SubSeq(tv, 1, pos) \in Seq(Char) /\ SubSeq(tv, end + 1, Len(tv)) \in Seq(Char)
        BY <3>1
      <4> QED
        BY <3>1, <4>1, ConcatProperties
    <3> HIDE DEF s
    <3>4. StrSound(StrAfter) /\ String!Abstract!Set(v, s) /\ overrun' = overrun
      BY <1>1, <3>2, <3>3, RenewedTrue
    <3>5. String!Abstract!Replace(v, w, pos, end)
      BY <1>6, <3>4 DEF String!Abstract!Replace, String!Abstract!Set, String!Abstract!Front_,
         String!Abstract!Back, AbstractText, s, tv, tw
    <3>6. pos \in 0 .. Len(AbstractText[v]) /\ end \in pos .. Len(AbstractText[v])
      BY <1>6, <3>1 DEF tv
    <3> QED
      BY <1>2, <3>4, <3>5, <3>6 DEF String!Abstract!Next, AbstractText
  <2> QED
    BY <2>1, <2>2
<1>16. ASSUME NEW pos \in Nat, NEW len \in Nat, String!Substr(v, w, pos, len, b)  PROVE Goal
  <2>1. CASE pos > Len(tw)
    BY <1>4, <1>16, <2>1 DEF String!Substr
  <2>2. CASE ~(pos > Len(tw))
    <3> DEFINE end == pos + String!Cut(tw, pos, len)
               s == SubSeq(tw, pos + 1, end)
    <3>1. pos \in 0 .. Len(tw) /\ end \in pos .. Len(tw) /\ tw \in Seq(Char)
      BY <1>6, <2>2, CutSound
    <3>2. String!Renewed(v, b, s)
      BY <1>16, <2>2 DEF String!Substr
    <3> HIDE DEF tw, end
    <3>3. s \in Seq(Char)
      BY <3>1
    <3>4. StrSound(StrAfter) /\ String!Abstract!Set(v, s) /\ overrun' = overrun
      BY <1>1, <3>2, <3>3, RenewedTrue
    <3>5. /\ pos \in 0 .. Len(AbstractText[w]) /\ end \in pos .. Len(AbstractText[w])
          /\ s = SubSeq(AbstractText[w], pos + 1, end)
      BY <1>6, <3>1 DEF tw
    <3> HIDE DEF s
    <3> QED
      BY <1>2, <3>4, <3>5 DEF String!Abstract!Next, AbstractText
  <2> QED
    BY <2>1, <2>2
<1>17. ASSUME NEW x \in Str, String!Plus(v, w, x, b)  PROVE Goal
  <2> DEFINE s == tw \o String!Text(String!Now, x)
  <2>1. s \in Seq(Char)
    BY <1>6, ConcatProperties
  <2>2. StrSound(StrAfter) /\ String!Abstract!Set(v, s) /\ overrun' = overrun
    BY <1>1, <1>17, <2>1, RenewedTrue DEF String!Plus
  <2>3. s = AbstractText[w] \o AbstractText[x]
    BY <1>6
  <2> HIDE DEF s
  <2> QED
    BY <1>2, <2>2, <2>3 DEF String!Abstract!Next, AbstractText
<1>18. Goal
  <2>1. CASE \E pos, len \in 0 .. (MaxSize + 1) :
               String!Replace(v, w, pos, len, b) \/ String!Substr(v, w, pos, len, b)
    <3>1. \A pos \in 0 .. (MaxSize + 1) : pos \in Nat
      BY StringParameters
    <3> QED
      BY <1>15, <1>16, <2>1, <3>1
  <2> QED
    BY <1>5, <1>7, <1>8, <1>9, <1>10, <1>11, <1>12, <1>13, <1>14, <1>17, <2>1
<1>19. StringInv' <=> StrSound(StrAfter) /\ ~overrun'
  BY DEF StringInv, StrSound, StrAfter, String!Now
<1> QED
  BY <1>18, <1>19 DEF Goal

(* Without s += s, every string is sound in every state of a program.      *)
LEMMA StringInvariant == ~OwnAppend => (Spec => []StringInv)
<1> SUFFICES ASSUME ~OwnAppend PROVE Spec => []StringInv
  OBVIOUS
<1>1. String!Init => StringInv
  BY DEF String!Init, StringInv, StrSound, String!Now, String!Empty, StrCell
<1>2. Init => StringInv
  BY <1>1 DEF Init
<1>3. StringInv /\ [Next]_vars => StringInv'
  <2> SUFFICES ASSUME StringInv, [Next]_vars PROVE StringInv'
    OBVIOUS
  <2>1. CASE StringStep
    BY <2>1, StringStepTrue DEF StringStep
  <2>2. CASE UNCHANGED stringVars
    BY <2>2 DEF stringVars, StringInv, StrSound, String!Now
  <2> QED
    BY <2>1, <2>2 DEF Next, vars, VectorStep, MapStep, PointerStep
<1> QED
  BY <1>2, <1>3, PTL DEF Spec

(* A program that appends no string to itself overruns no buffer, and each *)
(* of its strings that is not empty has one of its own, with its text and  *)
(* the NUL of c_str(), and no buffer is left without a string.             *)
THEOREM StringsSound == ~OwnAppend => (Spec => []BuffersSound)
<1> SUFFICES ASSUME ~OwnAppend PROVE Spec => []BuffersSound
  OBVIOUS
<1>1. StringInv => String!BuffersSound
  <2> SUFFICES ASSUME StringInv PROVE String!BuffersSound
    OBVIOUS
  <2>1. StrSound(String!Now) /\ ~overrun /\ DOMAIN chars = {str[v].data_ : v \in Str} \ {null}
    BY StrNow DEF StringInv, StrSound
  <2>2. ASSUME NEW v \in Str
        PROVE  IF String!Size(String!Now, v) = 0 THEN str[v] = String!Empty
               ELSE /\ str[v].data_ \in DOMAIN chars
                    /\ Len(String!Chars(String!Now, v)) = String!Size(String!Now, v) + 1
                    /\ String!Chars(String!Now, v)[String!Size(String!Now, v) + 1] = NUL
                    /\ \A w \in Str \ {v} : str[w].data_ # str[v].data_
    <3> DEFINE n == String!Size(String!Now, v)
               c == String!Chars(String!Now, v)
               l == n + 1
    <3>1. /\ n \in Nat /\ n = str[v].size_
          /\ n = 0 => str[v] = String!Empty
          /\ n # 0 => c \in [1 .. l -> Char] /\ c[l] = NUL
      BY <2>1, StrNow, TextSound
    <3>2. n # 0 => /\ str[v].data_ \in DOMAIN chars /\ str[v].data_ # null
                   /\ \A w \in Str \ {v} : str[w].data_ # str[v].data_
      BY <2>1, <3>1, StrNow DEF StrSound
    <3>3. l \in Nat
      BY <3>1
    <3> HIDE DEF c, n, l
    <3>4. n # 0 => Len(c) = l
      <4>1. n # 0 => c \in Seq(Char)
        BY <3>1, <3>3, SeqDef
      <4> QED
        BY <3>1, <3>3, <4>1, LenProperties
    <3> QED
      BY <3>1, <3>2, <3>4 DEF n, c, l
  <2> QED
    BY <2>1, <2>2 DEF String!BuffersSound
<1> QED
  BY <1>1, StringInvariant, PTL DEF BuffersSound

(* Such a program's strings implement StringValues: copies, moves and      *)
(* operations on them give the texts they say, whatever buffers they get,  *)
(* and disturb no other string.                                            *)
THEOREM ValuesImplemented == ~OwnAppend => (Spec => ImplementsValues)
<1> SUFFICES ASSUME ~OwnAppend PROVE Spec => ImplementsValues
  OBVIOUS
<1>1. Init => String!Abstract!Init
  <2>1. String!Init => String!Abstract!Init
    BY DEF String!Init, String!Abstract!Init, String!Text, String!Chars, String!Now,
           String!Size, String!Empty
  <2> QED
    BY <2>1 DEF Init
<1>2. StringInv /\ [Next]_vars => [String!Abstract!Next]_AbstractText
  <2> SUFFICES ASSUME StringInv, [Next]_vars
               PROVE  String!Abstract!Next \/ UNCHANGED AbstractText
    OBVIOUS
  <2>1. CASE StringStep
    BY <2>1, StringStepTrue DEF StringStep
  <2>2. CASE UNCHANGED stringVars
    BY <2>2 DEF stringVars, AbstractText, String!Text, String!Chars, String!Now, String!Size
  <2> QED
    BY <2>1, <2>2 DEF Next, vars, VectorStep, MapStep, PointerStep
<1> QED
  BY <1>1, <1>2, StringInvariant, PTL
     DEF Spec, ImplementsValues, String!ImplementsValues, String!Abstract!Spec, AbstractText
-----------------------------------------------------------------------------
-----------------------------------------------------------------------------
(* Linked entries.                                                         *)

(* The entries of S are linked into chains: nx gives the entry behind each *)
(* and sl its slot, h the first entry of each slot.  An entry is the first *)
(* of its slot or behind exactly one other; d grows along a chain, so that *)
(* none is a circle.                                                       *)
Follows(S, nx, sl, d) ==
  \A i \in S : /\ nx[i] \in S \cup {-1}
               /\ nx[i] # -1 => sl[nx[i]] = sl[i] /\ d[i] < d[nx[i]]

Heads(S, sl, h) ==
  \A s \in DOMAIN h : h[s] \in S \cup {-1} /\ (h[s] # -1 => sl[h[s]] = s)

Once(S, nx, sl, h) ==
  /\ \A i, j \in S : nx[i] = nx[j] => i = j \/ nx[i] = -1
  /\ \A i \in S : nx[i] = h[sl[i]] => nx[i] = -1

Reached(S, nx, sl, h) == \A i \in S : h[sl[i]] = i \/ \E j \in S : nx[j] = i

Linked(S, nx, sl, h, d) ==
  /\ Follows(S, nx, sl, d)
  /\ Heads(S, sl, h)
  /\ Once(S, nx, sl, h)
  /\ Reached(S, nx, sl, h)

(* The tables of n entries and N slots.                                    *)
Tables(n, N, nx, sl, h) ==
  /\ n \in Nat /\ N \in Nat
  /\ nx \in [1 .. n -> Int] /\ sl \in [1 .. n -> 0 .. (N - 1)]
  /\ h \in [0 .. (N - 1) -> Int]

(* Of n entries and N slots, the entries of S are linked.                  *)
Chained(n, N, nx, sl, h, S, d) ==
  /\ Tables(n, N, nx, sl, h)
  /\ S \subseteq 1 .. n
  /\ d \in [1 .. n -> Nat]
  /\ Linked(S, nx, sl, h, d)

(* The numbers of such tables.                                             *)
LEMMA ChainedNumbers ==
  ASSUME NEW n, NEW N, NEW nx, NEW sl, NEW h, NEW S, NEW d, Chained(n, N, nx, sl, h, S, d)
  PROVE  /\ n \in Nat /\ N \in Nat
         /\ \A j \in S : j \in 1 .. n /\ j # -1 /\ d[j] \in Nat
         /\ \A j \in 1 .. n : sl[j] \in 0 .. (N - 1)
         /\ DOMAIN nx = 1 .. n /\ DOMAIN h = 0 .. (N - 1)
<1>1. /\ n \in Nat /\ N \in Nat /\ S \subseteq 1 .. n /\ d \in [1 .. n -> Nat]
      /\ sl \in [1 .. n -> 0 .. (N - 1)]
      /\ nx \in [1 .. n -> Int] /\ h \in [0 .. (N - 1) -> Int]
  BY DEF Chained, Tables
<1>2. \A j \in S : j \in 1 .. n /\ d[j] \in Nat
  BY <1>1
<1>3. \A j \in S : j # -1
  BY <1>1
<1>4. \A j \in 1 .. n : sl[j] \in 0 .. (N - 1)
  BY <1>1
<1> QED
  BY <1>1, <1>2, <1>3, <1>4

(* InsertIntoHashTable: an entry that is not linked becomes a head.        *)
LEMMA LinkInsert ==
  ASSUME NEW n, NEW N, NEW nx, NEW sl, NEW h,
         NEW S, NEW i \in (1 .. n) \ S,
         NEW d, Chained(n, N, nx, sl, h, S, d)
  PROVE  \E d2 : Chained(n, N, [nx EXCEPT ![i] = h[sl[i]]], sl, [h EXCEPT ![sl[i]] = i],
                         S \cup {i}, d2)
<1>0. /\ Tables(n, N, nx, sl, h) /\ S \subseteq 1 .. n
      /\ d \in [1 .. n -> Nat] /\ Linked(S, nx, sl, h, d)
  BY DEF Chained
<1> USE <1>0
<1> DEFINE s == sl[i]
           nx2 == [nx EXCEPT ![i] = h[s]]
           h2 == [h EXCEPT ![s] = i]
           S2 == S \cup {i}
           d2 == [j \in 1 .. n |-> IF j = i THEN 0 ELSE d[j] + 1]
<1>1. /\ n \in Nat /\ N \in Nat /\ s \in 0 .. (N - 1) /\ i \in Nat /\ i # -1 /\ i \notin S
      /\ \A j \in S : j \in 1 .. n /\ j # -1 /\ j # i /\ d[j] \in Nat
      /\ \A j \in 1 .. n : sl[j] \in 0 .. (N - 1)
      /\ DOMAIN nx = 1 .. n /\ DOMAIN h = 0 .. (N - 1)
  BY SMTT(60) DEF Tables
<1>2. nx2[i] = h[s] /\ \A j \in S : nx2[j] = nx[j]
  BY <1>1
<1>3. d2[i] = 0 /\ \A j \in S : d2[j] = d[j] + 1
  BY <1>1
<1>4. DOMAIN h2 = 0 .. (N - 1) /\ \A r \in 0 .. (N - 1) : h2[r] = IF r = s THEN i ELSE h[r]
  BY <1>1
<1>5. d2 \in [1 .. n -> Nat]
  BY <1>1
<1> HIDE DEF nx2, h2, d2
<1>6. /\ \A j \in S : /\ nx[j] \in S \cup {-1}
                      /\ nx[j] # -1 => sl[nx[j]] = sl[j] /\ d[j] < d[nx[j]]
      /\ \A r \in 0 .. (N - 1) : h[r] \in S \cup {-1} /\ (h[r] # -1 => sl[h[r]] = r)
      /\ \A j, k \in S : nx[j] = nx[k] => j = k \/ nx[j] = -1
      /\ \A j \in S : nx[j] = h[sl[j]] => nx[j] = -1
      /\ \A j \in S : h[sl[j]] = j \/ \E k \in S : nx[k] = j
  BY <1>1 DEF Linked, Follows, Heads, Once, Reached
<1>7. Follows(S2, nx2, sl, d2)
  <2>1. nx2[i] \in S2 \cup {-1} /\ (nx2[i] # -1 => sl[nx2[i]] = sl[i] /\ d2[i] < d2[nx2[i]])
    <3>1. h[s] \in S \cup {-1} /\ (h[s] # -1 => sl[h[s]] = s)
      BY <1>1, <1>6
    <3>2. ASSUME h[s] # -1  PROVE d2[i] < d2[h[s]]
      <4>1. h[s] \in S /\ d[h[s]] \in Nat
        BY <1>1, <3>1, <3>2
      <4>2. d2[i] = 0 /\ d2[h[s]] = d[h[s]] + 1
        BY <1>3, <4>1
      <4> DEFINE x == d[h[s]]
      <4>3. x \in Nat => 0 < x + 1
        OBVIOUS
      <4> QED
        BY <4>1, <4>2, <4>3
    <3> QED
      BY <1>2, <3>1, <3>2
  <2>2. ASSUME NEW j \in S
        PROVE  nx2[j] \in S2 \cup {-1} /\ (nx2[j] # -1 => sl[nx2[j]] = sl[j] /\ d2[j] < d2[nx2[j]])
    <3>1. nx2[j] = nx[j] /\ nx[j] \in S \cup {-1} /\ (nx[j] # -1 => sl[nx[j]] = sl[j])
      BY <1>2, <1>6
    <3>2. ASSUME nx[j] # -1  PROVE d2[j] < d2[nx[j]]
      <4>1. nx[j] \in S /\ d[j] < d[nx[j]] /\ d[j] \in Nat /\ d[nx[j]] \in Nat
        BY <1>1, <1>6, <3>2
      <4>2. d2[j] = d[j] + 1 /\ d2[nx[j]] = d[nx[j]] + 1
        BY <1>3, <4>1
      <4> DEFINE x == d[j]
                 y == d[nx[j]]
      <4>3. x \in Nat /\ y \in Nat /\ x < y => x + 1 < y + 1
        OBVIOUS
      <4> QED
        BY <4>1, <4>2, <4>3
    <3> QED
      BY <3>1, <3>2
  <2> QED
    BY <2>1, <2>2 DEF Follows
<1>8. Heads(S2, sl, h2)
  BY <1>1, <1>2, <1>3, <1>4, <1>6 DEF Heads
<1>9. Once(S2, nx2, sl, h2)
  <2>1. ASSUME NEW j \in S, nx2[j] = nx2[i]  PROVE nx2[j] = -1
    <3>1. nx[j] = h[s] /\ h[s] \in S \cup {-1} /\ (h[s] # -1 => sl[h[s]] = s)
      BY <1>1, <1>2, <1>6, <2>1
    <3>2. nx[j] # -1 => sl[j] = s
      BY <1>6, <3>1
    <3> QED
      BY <1>2, <1>6, <3>1, <3>2
  <2>2. \A j, k \in S : nx2[j] = nx2[k] => j = k \/ nx2[j] = -1
    BY <1>2, <1>6
  <2>3. ASSUME NEW j \in S, nx2[j] = h2[sl[j]]  PROVE nx2[j] = -1
    <3>1. CASE sl[j] = s
      BY <1>1, <1>2, <1>4, <1>6, <2>3, <3>1
    <3>2. CASE sl[j] # s
      BY <1>1, <1>2, <1>4, <1>6, <2>3, <3>2
    <3> QED
      BY <3>1, <3>2
  <2>4. nx2[i] # h2[sl[i]]
    BY <1>1, <1>2, <1>4, <1>6
  <2> QED
    BY <2>1, <2>2, <2>3, <2>4 DEF Once
<1>10. Reached(S2, nx2, sl, h2)
  <2>1. h2[sl[i]] = i
    BY <1>1, <1>4
  <2>2. ASSUME NEW j \in S  PROVE h2[sl[j]] = j \/ \E k \in S2 : nx2[k] = j
    <3>1. CASE h[sl[j]] = j /\ sl[j] = s
      BY <1>2, <3>1
    <3>2. CASE h[sl[j]] = j /\ sl[j] # s
      BY <1>1, <1>4, <3>2
    <3>3. CASE h[sl[j]] # j
      BY <1>2, <1>6, <3>3
    <3> QED
      BY <3>1, <3>2, <3>3
  <2> QED
    BY <2>1, <2>2 DEF Reached
<1>11. Tables(n, N, nx2, sl, h2) /\ S2 \subseteq 1 .. n
  BY <1>1, SMTT(60) DEF Tables, nx2, h2
<1>12. Chained(n, N, nx2, sl, h2, S2, d2)
  BY <1>5, <1>7, <1>8, <1>9, <1>10, <1>11 DEF Chained, Linked
<1> QED
  BY <1>12 DEF nx2, h2

(* RemoveFromHashTable: the head of a chain leaves it.                     *)
LEMMA LinkRemoveHead ==
  ASSUME NEW n, NEW N, NEW nx, NEW sl, NEW h,
         NEW S, NEW i \in S,
         NEW d, Chained(n, N, nx, sl, h, S, d), h[sl[i]] = i
  PROVE  Chained(n, N, [nx EXCEPT ![i] = -1], sl, [h EXCEPT ![sl[i]] = nx[i]], S \ {i}, d)
<1>0. /\ Tables(n, N, nx, sl, h) /\ S \subseteq 1 .. n
      /\ d \in [1 .. n -> Nat] /\ Linked(S, nx, sl, h, d)
  BY DEF Chained
<1> USE <1>0
<1> DEFINE s == sl[i]
           nx2 == [nx EXCEPT ![i] = -1]
           h2 == [h EXCEPT ![s] = nx[i]]
           S2 == S \ {i}
<1>1. /\ n \in Nat /\ N \in Nat /\ s \in 0 .. (N - 1) /\ i \in S /\ i # -1
      /\ \A j : j \in S2 <=> j \in S /\ j # i
      /\ \A j \in S : j \in 1 .. n /\ j # -1 /\ d[j] \in Nat
      /\ \A j \in 1 .. n : sl[j] \in 0 .. (N - 1)
      /\ DOMAIN nx = 1 .. n /\ DOMAIN h = 0 .. (N - 1)
  BY ChainedNumbers, ZenonT(60)
<1>2. \A j \in S2 : nx2[j] = nx[j]
  BY <1>1
<1>3. DOMAIN h2 = 0 .. (N - 1) /\ \A r \in 0 .. (N - 1) : h2[r] = IF r = s THEN nx[i] ELSE h[r]
  BY <1>1
<1>4. /\ \A j \in S : nx[j] \in S \cup {-1}
      /\ \A j \in S : nx[j] # -1 => sl[nx[j]] = sl[j] /\ d[j] < d[nx[j]]
      /\ \A r \in 0 .. (N - 1) : h[r] \in S \cup {-1}
      /\ \A r \in 0 .. (N - 1) : h[r] # -1 => sl[h[r]] = r
      /\ \A j, k \in S : nx[j] = nx[k] => j = k \/ nx[j] = -1
      /\ \A j \in S : nx[j] = h[sl[j]] => nx[j] = -1
      /\ \A j \in S : h[sl[j]] = j \/ \E k \in S : nx[k] = j
      /\ h[s] = i
  BY <1>1 DEF Linked, Follows, Heads, Once, Reached
<1> HIDE DEF nx2, h2, S2, s
<1>5. \A j \in S : nx[j] # i
  <2>1. ASSUME NEW j \in S, nx[j] = i  PROVE FALSE
    <3>1. sl[j] = s
      BY <1>1, <1>4, <2>1 DEF s
    <3> QED
      BY <1>1, <1>4, <2>1, <3>1
  <2> QED
    BY <2>1
<1>6. Follows(S2, nx2, sl, d)
  <2>1. ASSUME NEW j \in S2
        PROVE  nx2[j] \in S2 \cup {-1} /\ (nx2[j] # -1 => sl[nx2[j]] = sl[j] /\ d[j] < d[nx2[j]])
    BY <1>1, <1>2, <1>4, <1>5
  <2> QED
    BY <2>1 DEF Follows
<1>7. Heads(S2, sl, h2)
  <2>1. nx[i] \in S2 \cup {-1} /\ (nx[i] # -1 => sl[nx[i]] = s)
    BY <1>1, <1>4, <1>5 DEF s
  <2>2. ASSUME NEW r \in 0 .. (N - 1), r # s
        PROVE  h[r] \in S2 \cup {-1} /\ (h[r] # -1 => sl[h[r]] = r)
    BY <1>1, <1>4, <2>2 DEF s
  <2> QED
    BY <1>3, <2>1, <2>2 DEF Heads
<1>8. Once(S2, nx2, sl, h2)
  <2>1. ASSUME NEW j \in S2, NEW k \in S2, nx2[j] = nx2[k], j # k  PROVE nx2[j] = -1
    <3>1. j \in S /\ k \in S
      BY <1>1
    <3> QED
      BY <1>2, <1>4, <2>1, <3>1
  <2>2. ASSUME NEW j \in S2, nx2[j] = h2[sl[j]]  PROVE nx2[j] = -1
    <3>1. j \in S /\ j # i /\ nx2[j] = nx[j] /\ sl[j] \in 0 .. (N - 1)
      BY <1>1, <1>2
    <3>2. CASE sl[j] = s
      <4>1. nx[j] = nx[i]
        BY <1>3, <2>2, <3>1, <3>2
      <4> QED
        BY <1>1, <1>4, <3>1, <4>1
    <3>3. CASE sl[j] # s
      BY <1>3, <1>4, <2>2, <3>1, <3>3
    <3> QED
      BY <3>2, <3>3
  <2> QED
    BY <2>1, <2>2 DEF Once
<1>9. Reached(S2, nx2, sl, h2)
  <2>1. ASSUME NEW j \in S2  PROVE h2[sl[j]] = j \/ \E k \in S2 : nx2[k] = j
    <3>1. j \in S /\ j # i /\ sl[j] \in 0 .. (N - 1)
      BY <1>1
    <3>2. CASE h[sl[j]] = j
      BY <1>3, <1>4, <3>1, <3>2
    <3>3. CASE nx[i] = j
      <4>1. sl[j] = s
        BY <1>1, <1>4, <3>1, <3>3 DEF s
      <4> QED
        BY <1>3, <3>1, <3>3, <4>1
    <3>4. ASSUME NEW k \in S, nx[k] = j, k # i  PROVE \E l \in S2 : nx2[l] = j
      BY <1>1, <1>2, <3>4
    <3> QED
      BY <1>4, <3>1, <3>2, <3>3, <3>4
  <2> QED
    BY <2>1 DEF Reached
<1>10. Tables(n, N, nx2, sl, h2) /\ S2 \subseteq 1 .. n
  BY <1>1, SMTT(60) DEF Tables, nx2, h2, S2
<1>11. Chained(n, N, nx2, sl, h2, S2, d)
  BY <1>6, <1>7, <1>8, <1>9, <1>10 DEF Chained, Linked
<1> QED
  BY <1>11 DEF nx2, h2, S2, s

(* RemoveFromHashTable: an entry behind p leaves the chain.                *)
LEMMA LinkRemoveBehind ==
  ASSUME NEW n, NEW N, NEW nx, NEW sl, NEW h,
         NEW S, NEW i \in S, NEW p \in S,
         NEW d, Chained(n, N, nx, sl, h, S, d), nx[p] = i
  PROVE  Chained(n, N, [nx EXCEPT ![p] = nx[i], ![i] = -1], sl, h, S \ {i}, d)
<1>0. /\ Tables(n, N, nx, sl, h) /\ S \subseteq 1 .. n
      /\ d \in [1 .. n -> Nat] /\ Linked(S, nx, sl, h, d)
  BY DEF Chained
<1> USE <1>0
<1> DEFINE s == sl[i]
           nx2 == [nx EXCEPT ![p] = nx[i], ![i] = -1]
           S2 == S \ {i}
<1>1. /\ n \in Nat /\ N \in Nat /\ s \in 0 .. (N - 1) /\ i \in S /\ p \in S /\ i # -1
      /\ \A j : j \in S2 <=> j \in S /\ j # i
      /\ \A j \in S : j \in 1 .. n /\ j # -1 /\ d[j] \in Nat
      /\ \A j \in 1 .. n : sl[j] \in 0 .. (N - 1)
      /\ DOMAIN nx = 1 .. n /\ DOMAIN h = 0 .. (N - 1)
  BY ChainedNumbers, ZenonT(60)
<1>2. /\ \A j \in S : nx[j] \in S \cup {-1}
      /\ \A j \in S : nx[j] # -1 => sl[nx[j]] = sl[j] /\ d[j] < d[nx[j]]
      /\ \A r \in 0 .. (N - 1) : h[r] \in S \cup {-1}
      /\ \A r \in 0 .. (N - 1) : h[r] # -1 => sl[h[r]] = r
      /\ \A j, k \in S : nx[j] = nx[k] => j = k \/ nx[j] = -1
      /\ \A j \in S : nx[j] = h[sl[j]] => nx[j] = -1
      /\ \A j \in S : h[sl[j]] = j \/ \E k \in S : nx[k] = j
      /\ nx[p] = i
  BY <1>1 DEF Linked, Follows, Heads, Once, Reached
<1>3. sl[p] = s /\ d[p] < d[i] /\ d[p] \in Nat /\ d[i] \in Nat
  BY <1>1, <1>2
<1>4. p # i /\ nx[i] # i /\ h[s] # i /\ p \in S2
  <2>1. p # i
    BY <1>3
  <2>2. nx[i] # i
    <3> DEFINE x == d[i]
    <3>1. x \in Nat
      BY <1>1
    <3>2. nx[i] = i => x < x
      BY <1>1, <1>2
    <3> HIDE DEF x
    <3> QED
      BY <3>1, <3>2
  <2>3. h[s] # i
    BY <1>1, <1>2, <1>3
  <2> QED
    BY <1>1, <2>1, <2>2, <2>3
<1>5. nx2[p] = nx[i] /\ \A j \in S2 : j # p => nx2[j] = nx[j]
  BY <1>1, <1>4
<1> HIDE DEF nx2, S2, s
<1>6. nx[i] \in S2 \cup {-1} /\ (nx[i] # -1 => sl[nx[i]] = s /\ d[p] < d[nx[i]])
  <2>1. nx[i] \in S2 \cup {-1}
    BY <1>1, <1>2, <1>4
  <2>2. ASSUME nx[i] # -1  PROVE sl[nx[i]] = s /\ d[p] < d[nx[i]]
    <3>1. sl[nx[i]] = s /\ d[i] < d[nx[i]] /\ d[nx[i]] \in Nat
      BY <1>1, <1>2, <2>2 DEF s
    <3> QED
      BY <1>3, <3>1
  <2> QED
    BY <2>1, <2>2
<1>7. ASSUME NEW j \in S2, j # p  PROVE nx[j] # i
  BY <1>1, <1>2, <1>7, ZenonT(60)
<1>8. Follows(S2, nx2, sl, d)
  <2>1. ASSUME NEW j \in S2, j # p
        PROVE  nx2[j] \in S2 \cup {-1} /\ (nx2[j] # -1 => sl[nx2[j]] = sl[j] /\ d[j] < d[nx2[j]])
    BY <1>1, <1>2, <1>5, <1>7, <2>1
  <2> QED
    BY <1>3, <1>5, <1>6, <2>1 DEF Follows
<1>9. Heads(S2, sl, h)
  <2>1. ASSUME NEW r \in 0 .. (N - 1)
        PROVE  h[r] \in S2 \cup {-1} /\ (h[r] # -1 => sl[h[r]] = r)
    BY <1>1, <1>2, <1>4 DEF s
  <2> QED
    BY <1>1, <2>1 DEF Heads
<1>10. Once(S2, nx2, sl, h)
  <2>1. ASSUME NEW j \in S2, NEW k \in S2, nx2[j] = nx2[k], j # k  PROVE nx2[j] = -1
    <3>1. j \in S /\ k \in S /\ j # i /\ k # i
      BY <1>1
    <3>2. CASE j # p /\ k # p
      BY <1>2, <1>5, <2>1, <3>1, <3>2
    <3>3. CASE j = p
      BY <1>1, <1>2, <1>5, <2>1, <3>1, <3>3
    <3>4. CASE k = p
      BY <1>1, <1>2, <1>5, <2>1, <3>1, <3>4
    <3> QED
      BY <3>2, <3>3, <3>4
  <2>2. ASSUME NEW j \in S2, nx2[j] = h[sl[j]]  PROVE nx2[j] = -1
    <3>1. CASE j # p
      BY <1>1, <1>2, <1>5, <2>2, <3>1
    <3>2. CASE j = p
      BY <1>1, <1>2, <1>3, <1>5, <2>2, <3>2 DEF s
    <3> QED
      BY <3>1, <3>2
  <2> QED
    BY <2>1, <2>2 DEF Once
<1>11. Reached(S2, nx2, sl, h)
  <2>1. ASSUME NEW j \in S2  PROVE h[sl[j]] = j \/ \E k \in S2 : nx2[k] = j
    <3>1. j \in S /\ j # i
      BY <1>1
    <3>2. CASE nx[i] = j
      BY <1>4, <1>5, <3>2
    <3>3. ASSUME NEW k \in S, nx[k] = j, k # i  PROVE \E l \in S2 : nx2[l] = j
      <4>1. k # p /\ k \in S2
        BY <1>1, <1>2, <3>1, <3>3
      <4> QED
        BY <1>5, <3>3, <4>1
    <3> QED
      BY <1>2, <3>1, <3>2, <3>3
  <2> QED
    BY <2>1 DEF Reached
<1>12. Tables(n, N, nx2, sl, h) /\ S2 \subseteq 1 .. n
  <2>1. nx \in [1 .. n -> Int] /\ i \in 1 .. n
    BY <1>1 DEF Tables
  <2>2. nx[i] \in Int
    BY <2>1
  <2>3. nx2 \in [1 .. n -> Int]
    BY <2>1, <2>2 DEF nx2
  <2>4. S2 \subseteq 1 .. n
    BY DEF S2
  <2> QED
    BY <2>3, <2>4 DEF Tables
<1>13. Chained(n, N, nx2, sl, h, S2, d)
  BY <1>8, <1>9, <1>10, <1>11, <1>12 DEF Chained, Linked
<1> QED
  BY <1>13 DEF nx2, S2

-----------------------------------------------------------------------------
(* Walking along a chain.                                                  *)

(* The sequence c starts with a and goes on along nx in S.                 *)
Walks(S, nx, a) ==
  {c \in Seq(Int) : /\ Len(c) > 0 /\ c[1] = a
                    /\ \A k \in 1 .. (Len(c) - 1) : c[k] \in S /\ c[k + 1] = nx[c[k]]
                    /\ c[Len(c)] \in S \cup {-1}}

(* A walk that has not come to the end can go on.                          *)
LEMMA WalkGrows ==
  ASSUME NEW S, S \subseteq Int, NEW nx, NEW a, \A i \in S : nx[i] \in S \cup {-1},
         NEW c \in Walks(S, nx, a), c[Len(c)] # -1
  PROVE  Append(c, nx[c[Len(c)]]) \in Walks(S, nx, a)
<1> DEFINE n == Len(c)
           x == nx[c[n]]
           b == Append(c, x)
<1>1. /\ c \in Seq(Int) /\ n \in Nat /\ n > 0 /\ c[1] = a
      /\ \A k \in 1 .. (n - 1) : c[k] \in S /\ c[k + 1] = nx[c[k]]
      /\ c[n] \in S
  BY DEF Walks
<1>2. x \in S \cup {-1} /\ x \in Int
  <2>1. x \in S \cup {-1}
    BY <1>1
  <2> HIDE DEF x
  <2> QED
    BY <2>1
<1> HIDE DEF x
<1>3. b \in Seq(Int) /\ Len(b) = n + 1 /\ b[n + 1] = x /\ \A k \in 1 .. n : b[k] = c[k]
  BY <1>1, <1>2, AppendProperties
<1> HIDE DEF b, n
<1>4. ASSUME NEW k \in 1 .. ((n + 1) - 1)  PROVE b[k] \in S /\ b[k + 1] = nx[b[k]]
  <2>1. k \in 1 .. n
    BY <1>1
  <2>2. CASE k = n
    BY <1>1, <1>3, <2>1, <2>2 DEF x
  <2>3. CASE k # n
    <3>1. k \in 1 .. (n - 1) /\ k + 1 \in 1 .. n
      BY <1>1, <2>1, <2>3
    <3> QED
      BY <1>1, <1>3, <2>1, <3>1
  <2> QED
    BY <2>2, <2>3
<1>5. b[1] = a /\ Len(b) > 0
  BY <1>1, <1>3
<1> QED
  BY <1>2, <1>3, <1>4, <1>5 DEF Walks, b, x, n

(* Entries further along a walk are later in d.                            *)
LEMMA WalkAscends ==
  ASSUME NEW n, NEW N, NEW nx, NEW sl, NEW h,
         NEW S, NEW d, Chained(n, N, nx, sl, h, S, d),
         NEW a, NEW c \in Walks(S, nx, a)
  PROVE  \A k \in 1 .. Len(c) : c[k] # -1 =>
           c[k] \in S /\ \A j \in 1 .. (k - 1) : c[j] \in S /\ d[c[j]] < d[c[k]]
<1>0. /\ Tables(n, N, nx, sl, h) /\ S \subseteq 1 .. n
      /\ d \in [1 .. n -> Nat] /\ Linked(S, nx, sl, h, d)
  BY DEF Chained
<1> USE <1>0
<1> DEFINE l == Len(c)
           Later(k) == c[k] # -1 =>
                         c[k] \in S /\ \A j \in 1 .. (k - 1) : c[j] \in S /\ d[c[j]] < d[c[k]]
           P == {k \in 0 .. (l - 1) : Later(k + 1)}
<1>1. /\ c \in Seq(Int) /\ l \in Nat /\ l > 0
      /\ \A k \in 1 .. (l - 1) : c[k] \in S /\ c[k + 1] = nx[c[k]]
      /\ c[l] \in S \cup {-1}
      /\ \A i \in S : d[i] \in Nat /\ i # -1 /\ (nx[i] # -1 => nx[i] \in S /\ d[i] < d[nx[i]])
  BY SMTT(60) DEF Walks, Linked, Follows, Tables
<1> HIDE DEF l
<1>2. \A k \in 1 .. l : c[k] # -1 => c[k] \in S
  BY <1>1
<1>3. 0 \in P
  BY <1>1, <1>2
<1>4. ASSUME NEW k \in 0 .. ((l - 1) - 1), k \in P  PROVE k + 1 \in P
  <2>1. k + 1 \in 0 .. (l - 1) /\ k + 1 \in 1 .. (l - 1) /\ (k + 1) + 1 \in 1 .. l
    BY <1>1
  <2>2. c[k + 1] \in S /\ c[(k + 1) + 1] = nx[c[k + 1]] /\ c[k + 1] # -1
    BY <1>1, <2>1
  <2>3. \A j \in 1 .. k : c[j] \in S /\ d[c[j]] < d[c[k + 1]]
    BY <1>4, <2>2
  <2>4. ASSUME c[(k + 1) + 1] # -1, NEW j \in 1 .. (((k + 1) + 1) - 1)
        PROVE  c[j] \in S /\ d[c[j]] < d[c[(k + 1) + 1]]
    <3>1. c[(k + 1) + 1] \in S /\ d[c[k + 1]] < d[c[(k + 1) + 1]]
      BY <1>1, <2>2, <2>4
    <3>2. j \in 1 .. k \/ j = k + 1
      BY <1>1
    <3>3. c[j] \in S /\ (d[c[j]] < d[c[k + 1]] \/ j = k + 1)
      BY <2>2, <2>3, <3>2
    <3>4. d[c[j]] \in Nat /\ d[c[k + 1]] \in Nat /\ d[c[(k + 1) + 1]] \in Nat
      BY <1>1, <2>2, <3>1, <3>3
    <3> DEFINE x == d[c[j]]
               y == d[c[k + 1]]
               z == d[c[(k + 1) + 1]]
    <3>5. x < y \/ x = y
      BY <3>3
    <3>6. x \in Nat /\ y \in Nat /\ z \in Nat /\ y < z
      BY <3>1, <3>4
    <3> HIDE DEF x, y, z
    <3>7. x < z
      BY <3>5, <3>6
    <3> QED
      BY <3>3, <3>7 DEF x, z
  <2>5. Later((k + 1) + 1)
    BY <1>2, <2>1, <2>4
  <2> QED
    BY <2>1, <2>5
<1>5. l - 1 \in Nat
  BY <1>1
<1> HIDE DEF P
<1>6. \A k \in 0 .. (l - 1) : k \in P
  BY <1>3, <1>4, <1>5, UpTo
<1>7. ASSUME NEW k \in 1 .. l  PROVE Later(k)
  <2>1. k - 1 \in 0 .. (l - 1) /\ (k - 1) + 1 = k
    BY <1>1
  <2> QED
    BY <1>6, <2>1 DEF P
<1> QED
  BY <1>7 DEF l

(* The walk c is of n steps.                                               *)
OfSteps(c, n) == Len(c) = n + 1

(* A walk of as many steps as there are entries has come to the end.       *)
LEMMA WalkEnds ==
  ASSUME NEW n, NEW N, NEW nx, NEW sl, NEW h,
         NEW S, NEW d, Chained(n, N, nx, sl, h, S, d),
         NEW a, NEW c \in Walks(S, nx, a), OfSteps(c, n)
  PROVE  c[Len(c)] = -1
<1>0. /\ Tables(n, N, nx, sl, h) /\ S \subseteq 1 .. n
      /\ d \in [1 .. n -> Nat] /\ Linked(S, nx, sl, h, d)
  BY DEF Chained
<1> USE <1>0
<1> USE DEF OfSteps
<1> SUFFICES ASSUME c[n + 1] # -1 PROVE FALSE
  OBVIOUS
<1>1. n \in Nat /\ \A i \in S : d[i] \in Nat
  BY DEF Tables
<1>2. \A j, k \in 1 .. (n + 1) : j < k => c[j] \in S /\ c[k] \in S /\ d[c[j]] < d[c[k]]
  <2>1. ASSUME NEW k \in 1 .. (n + 1)  PROVE c[k] # -1
    <3>1. k \in 1 .. n => c[k] \in S /\ c[k] \in 1 .. n
      BY <1>1 DEF Walks
    <3> QED
      BY <1>1, <3>1
  <2>2. \A k \in 1 .. (n + 1) : c[k] \in S /\ \A j \in 1 .. (k - 1) : c[j] \in S /\ d[c[j]] < d[c[k]]
    BY <2>1, WalkAscends
  <2>3. \A j, k \in 1 .. (n + 1) : j < k => j \in 1 .. (k - 1)
    BY <1>1
  <2> QED
    BY <2>2, <2>3
<1> DEFINE f == [k \in 1 .. (n + 1) |-> c[k]]
<1>3. f \in [1 .. (n + 1) -> 1 .. n]
  <2>1. \A k \in 1 .. (n + 1) : c[k] \in S
    <3>1. \A k \in 1 .. n : c[k] \in S
      BY <1>1 DEF Walks
    <3>2. c[n + 1] \in S
      BY DEF Walks
    <3> QED
      BY <1>1, <3>1, <3>2
  <2> QED
    BY <2>1
<1>4. /\ IsFiniteSet(1 .. n) /\ IsFiniteSet(1 .. (n + 1))
      /\ Cardinality(1 .. n) = n /\ Cardinality(1 .. (n + 1)) = n + 1
  <2>1. 1 \in Int /\ n \in Int /\ n + 1 \in Int
    BY <1>1
  <2> QED
    BY <1>1, <2>1, FS_Interval
<1>5. Cardinality(1 .. n) < Cardinality(1 .. (n + 1))
  BY <1>1, <1>4
<1> HIDE DEF f
<1>6. PICK j, k \in 1 .. (n + 1) : j # k /\ f[j] = f[k]
  BY <1>3, <1>4, <1>5, FS_PigeonHole
<1>7. c[j] = c[k]
  BY <1>6 DEF f
<1>8. j < k \/ k < j
  BY <1>1, <1>6
<1>9. ASSUME NEW x \in 1 .. (n + 1), NEW y \in 1 .. (n + 1), x < y, c[x] = c[y]  PROVE FALSE
  <2> DEFINE z == d[c[x]]
  <2>1. c[x] \in S /\ z < z
    BY <1>2, <1>9
  <2>2. z \in Nat
    BY <1>1, <2>1
  <2> HIDE DEF z
  <2> QED
    BY <2>1, <2>2
<1> QED
  BY <1>7, <1>8, <1>9

(* The walk from the head of a slot passes the entries of the slot.        *)
LEMMA WalkInSlot ==
  ASSUME NEW n, NEW N, NEW nx, NEW sl, NEW h,
         NEW S, NEW d, Chained(n, N, nx, sl, h, S, d),
         NEW s \in 0 .. (N - 1), NEW c \in Walks(S, nx, h[s])
  PROVE  \A k \in 1 .. Len(c) : c[k] # -1 => c[k] \in S /\ sl[c[k]] = s
<1>0. /\ Tables(n, N, nx, sl, h) /\ S \subseteq 1 .. n
      /\ d \in [1 .. n -> Nat] /\ Linked(S, nx, sl, h, d)
  BY DEF Chained
<1> USE <1>0
<1> DEFINE l == Len(c)
           P == {k \in 0 .. (l - 1) : c[k + 1] # -1 => sl[c[k + 1]] = s}
<1>1. /\ l \in Nat /\ l > 0 /\ c[1] = h[s]
      /\ \A k \in 1 .. (l - 1) : c[k] \in S /\ c[k + 1] = nx[c[k]]
      /\ c[l] \in S \cup {-1}
      /\ \A i \in S : i # -1 /\ (nx[i] # -1 => sl[nx[i]] = sl[i])
      /\ h[s] # -1 => sl[h[s]] = s
  <2>1. /\ l \in Nat /\ l > 0 /\ c[1] = h[s] /\ c[l] \in S \cup {-1}
        /\ \A k \in 1 .. (l - 1) : c[k] \in S /\ c[k + 1] = nx[c[k]]
    BY DEF Walks
  <2>2. n \in Nat /\ \A i \in S : i \in 1 .. n
    BY DEF Tables
  <2>3. \A i \in S : i # -1
    BY <2>2
  <2>4. (\A i \in S : nx[i] # -1 => sl[nx[i]] = sl[i]) /\ DOMAIN h = 0 .. (N - 1)
    BY DEF Linked, Follows, Tables
  <2>5. h[s] # -1 => sl[h[s]] = s
    BY <2>4 DEF Linked, Heads
  <2> QED
    BY <2>1, <2>3, <2>4, <2>5
<1> HIDE DEF l
<1>2. 0 \in P
  BY <1>1
<1>3. ASSUME NEW k \in 0 .. ((l - 1) - 1), k \in P  PROVE k + 1 \in P
  <2>1. k + 1 \in 0 .. (l - 1) /\ k + 1 \in 1 .. (l - 1)
    BY <1>1
  <2>2. c[k + 1] \in S /\ c[(k + 1) + 1] = nx[c[k + 1]] /\ sl[c[k + 1]] = s
    BY <1>1, <1>3, <2>1
  <2> QED
    BY <1>1, <2>1, <2>2
<1>4. l - 1 \in Nat
  BY <1>1
<1> HIDE DEF P
<1>5. \A k \in 0 .. (l - 1) : k \in P
  BY <1>2, <1>3, <1>4, UpTo
<1>6. ASSUME NEW k \in 1 .. l, c[k] # -1  PROVE c[k] \in S /\ sl[c[k]] = s
  <2>1. k - 1 \in 0 .. (l - 1) /\ (k - 1) + 1 = k
    BY <1>1
  <2>2. sl[c[k]] = s
    BY <1>5, <1>6, <2>1 DEF P
  <2>3. c[k] \in S
    BY <1>1, <1>6
  <2> QED
    BY <2>2, <2>3
<1> QED
  BY <1>6 DEF l

(* The walk c has come to the end of a chain; entry i is of slot s.         *)
Ended(c) == c[Len(c)] = -1
InSlot(sl, i, s) == sl[i] = s
Passes(c, i) == \E k \in 1 .. (Len(c) - 1) : c[k] = i

(* It passes each of them.                                                 *)
LEMMA WalkCovers ==
  ASSUME NEW n, NEW N, NEW nx, NEW sl, NEW h,
         NEW S, NEW d, Chained(n, N, nx, sl, h, S, d),
         NEW s, NEW c \in Walks(S, nx, h[s]), Ended(c),
         NEW i \in S, InSlot(sl, i, s)
  PROVE  Passes(c, i)
<1>0. /\ Tables(n, N, nx, sl, h) /\ S \subseteq 1 .. n
      /\ d \in [1 .. n -> Nat] /\ Linked(S, nx, sl, h, d)
  BY DEF Chained
<1> USE <1>0 DEF Ended, InSlot, Passes
<1> DEFINE l == Len(c)
           Passed == {c[k] : k \in 1 .. (l - 1)}
           T == {d[j] : j \in {j \in S : sl[j] = s /\ j \notin Passed}}
<1>1. /\ l \in Nat /\ l > 0 /\ c[1] = h[s] /\ c[l] = -1
      /\ \A k \in 1 .. (l - 1) : c[k] \in S /\ c[k + 1] = nx[c[k]]
      /\ \A j \in S : d[j] \in Nat /\ j # -1
      /\ \A j \in S : nx[j] # -1 => sl[nx[j]] = sl[j] /\ d[j] < d[nx[j]]
      /\ \A j \in S : h[sl[j]] = j \/ \E k \in S : nx[k] = j
  <2>1. /\ l \in Nat /\ l > 0 /\ c[1] = h[s] /\ c[l] = -1
        /\ \A k \in 1 .. (l - 1) : c[k] \in S /\ c[k + 1] = nx[c[k]]
    BY DEF Walks
  <2>2. n \in Nat /\ \A j \in S : j \in 1 .. n
    BY DEF Tables
  <2>3. \A j \in S : d[j] \in Nat /\ j # -1
    BY <2>2
  <2>4. /\ \A j \in S : nx[j] # -1 => sl[nx[j]] = sl[j] /\ d[j] < d[nx[j]]
        /\ \A j \in S : h[sl[j]] = j \/ \E k \in S : nx[k] = j
    BY DEF Linked, Follows, Reached
  <2> QED
    BY <2>1, <2>3, <2>4
<1>2. SUFFICES ASSUME i \notin Passed PROVE FALSE
  BY DEF Passed
<1> HIDE DEF l, Passed
<1>3. T \subseteq Nat /\ T # {}
  <2>1. d[i] \in T
    BY <1>2
  <2> QED
    BY <1>1, <2>1
<1>4. PICK x \in T : \A y \in T : x <= y
  <2> HIDE DEF T
  <2> QED
    BY <1>3, LeastNat
<1>5. PICK j \in S : sl[j] = s /\ j \notin Passed /\ d[j] = x
  BY <1>4
<1>6. h[s] # j
  <2>1. ASSUME h[s] = j  PROVE j \in Passed
    <3>1. l # 1
      BY <1>1, <2>1
    <3>2. 1 \in 1 .. (l - 1)
      BY <1>1, <3>1
    <3> QED
      BY <1>1, <2>1, <3>2 DEF Passed
  <2> QED
    BY <1>5, <2>1
<1>7. PICK k \in S : nx[k] = j
  BY <1>1, <1>5, <1>6
<1>8. sl[k] = s /\ d[k] < x
  BY <1>1, <1>5, <1>7
<1>9. k \in Passed
  <2>1. ASSUME k \notin Passed  PROVE FALSE
    <3>1. d[k] \in T
      BY <1>8, <2>1
    <3>2. x <= d[k] /\ x \in Nat /\ d[k] \in Nat
      BY <1>3, <1>4, <3>1
    <3> QED
      BY <1>8, <3>2
  <2> QED
    BY <2>1
<1>10. PICK p \in 1 .. (l - 1) : c[p] = k
  BY <1>9 DEF Passed
<1>11. c[p + 1] = j /\ p + 1 \in 1 .. l
  BY <1>1, <1>7, <1>10, SMTT(60)
<1>12. p + 1 # l
  BY <1>1, <1>5, <1>11
<1>13. p + 1 \in 1 .. (l - 1)
  BY <1>1, <1>11, <1>12
<1> QED
  BY <1>5, <1>11, <1>13 DEF Passed

(* It passes each once.                                                    *)
LEMMA WalkOnce ==
  ASSUME NEW n, NEW N, NEW nx, NEW sl, NEW h,
         NEW S, NEW d, Chained(n, N, nx, sl, h, S, d),
         NEW a, NEW c \in Walks(S, nx, a),
         NEW j \in 1 .. Len(c), NEW k \in 1 .. Len(c), c[j] = c[k], c[k] # -1
  PROVE  j = k
<1>0. /\ Tables(n, N, nx, sl, h) /\ S \subseteq 1 .. n
      /\ d \in [1 .. n -> Nat] /\ Linked(S, nx, sl, h, d)
  BY DEF Chained
<1> USE <1>0
<1>1. Len(c) \in Nat /\ \A i \in S : d[i] \in Nat
  <2>1. Len(c) \in Nat
    BY DEF Walks
  <2>2. \A i \in S : i \in 1 .. n
    OBVIOUS
  <2> QED
    BY <2>1, <2>2
<1>2. ASSUME NEW p \in 1 .. Len(c), NEW q \in 1 .. Len(c), c[p] = c[q], c[q] # -1, p < q
      PROVE  FALSE
  <2> DEFINE z == d[c[q]]
  <2>1. p \in 1 .. (q - 1)
    BY <1>1, <1>2
  <2>2. c[q] \in S /\ d[c[p]] < z
    BY <1>2, <2>1, WalkAscends
  <2>3. z \in Nat /\ z < z
    BY <1>1, <1>2, <2>2
  <2> HIDE DEF z
  <2> QED
    BY <2>3
<1>3. ~(j < k) /\ ~(k < j)
  BY <1>2
<1> QED
  BY <1>1, <1>3

-----------------------------------------------------------------------------
(* The map.                                                                *)

Entries == [first : Key, second : MapVal, next : Int, hash : Nat]

(* A map m with a table of N slots.                                        *)
MapOf(m, N) ==
  /\ N \in Nat /\ N # 0
  /\ m \in [e : Seq(Entries), h : [0 .. (N - 1) -> Int]]

Nexts(m) == [j \in 1 .. Len(m.e) |-> m.e[j].next]
Slots(m) == [j \in 1 .. Len(m.e) |-> Map!Slot(m.h, m.e[j].hash)]

Ranked(m, N, S, d) == Chained(Len(m.e), N, Nexts(m), Slots(m), m.h, S, d)

(* Those of its entries that are in S are linked.                          *)
MapLinked(m, N, S) ==
  /\ MapOf(m, N)
  /\ \E d : Ranked(m, N, S, d)

(* The entries of l are those of m, but for their links.                   *)
Kept(m, l) ==
  /\ Len(l.e) = Len(m.e)
  /\ \A j \in 1 .. Len(m.e) : /\ l.e[j].first = m.e[j].first
                              /\ l.e[j].second = m.e[j].second
                              /\ l.e[j].hash = m.e[j].hash

(* The slot of a hash is the rest of its division by the size.             *)
LEMMA SlotTrue ==
  ASSUME NEW N \in Nat, N # 0, NEW h, DOMAIN h = 0 .. (N - 1), NEW x \in Nat
  PROVE  /\ Map!Size(h) = N /\ Map!Slot(h, x) = x % N
         /\ Map!Slot(h, x) \in 0 .. (N - 1)
<1>1. Cardinality(0 .. (N - 1)) = N
  <2>1. 0 \in Int /\ N - 1 \in Int /\ ~(0 > N - 1) /\ ((N - 1) - 0) + 1 = N
    OBVIOUS
  <2> QED
    BY <2>1, FS_Interval
<1>2. Map!Size(h) = N
  BY <1>1 DEF Map!Size, Map!Cardinality, Cardinality
<1>3. Map!Slot(h, x) = x % N
  BY <1>2 DEF Map!Slot
<1> QED
  BY <1>2, <1>3

(* The tables of a map.                                                    *)
LEMMA MapTables ==
  ASSUME NEW m, NEW N, MapOf(m, N)
  PROVE  /\ Tables(Len(m.e), N, Nexts(m), Slots(m), m.h)
         /\ m.e \in Seq(Entries) /\ m.h \in [0 .. (N - 1) -> Int] /\ Len(m.e) \in Nat
         /\ \A j \in 1 .. Len(m.e) : /\ m.e[j] \in Entries
                                     /\ m.e[j].next \in Int /\ m.e[j].hash \in Nat
                                     /\ m.e[j].first \in Key /\ m.e[j].second \in MapVal
<1>1. /\ m.e \in Seq(Entries) /\ m.h \in [0 .. (N - 1) -> Int] /\ N \in Nat /\ N # 0
      /\ Len(m.e) \in Nat
  BY DEF MapOf
<1>2. \A j \in 1 .. Len(m.e) : m.e[j] \in Entries
  BY <1>1, ElementOfSeq
<1>3. \A j \in 1 .. Len(m.e) : /\ m.e[j].next \in Int /\ m.e[j].hash \in Nat
                               /\ m.e[j].first \in Key /\ m.e[j].second \in MapVal
  BY <1>2 DEF Entries
<1>4. Nexts(m) \in [1 .. Len(m.e) -> Int]
  BY <1>3 DEF Nexts
<1>5. DOMAIN m.h = 0 .. (N - 1)
  BY <1>1
<1>6. \A j \in 1 .. Len(m.e) : Map!Slot(m.h, m.e[j].hash) \in 0 .. (N - 1)
  BY <1>1, <1>3, <1>5, SlotTrue
<1>7. Slots(m) \in [1 .. Len(m.e) -> 0 .. (N - 1)]
  BY <1>6 DEF Slots
<1> QED
  BY <1>1, <1>2, <1>3, <1>4, <1>7 DEF Tables

(* The walk c is of at most n steps.                                       *)
Within(c, n) == Len(c) <= n + 1

(* Chain follows a chain to its end.                                       *)
LEMMA ChainTrue ==
  ASSUME NEW m, NEW N, NEW S, NEW d, Ranked(m, N, S, d), NEW a \in S \cup {-1}
  PROVE  /\ Map!Chain(m, a) \in Walks(S, Nexts(m), a)
         /\ Ended(Map!Chain(m, a)) /\ Within(Map!Chain(m, a), Len(m.e))
<1> USE DEF Ranked
<1> DEFINE n == Len(m.e)
           nx == Nexts(m)
           W == Walks(S, nx, a)
           G == [c \in W |-> IF c[Len(c)] = -1 THEN c ELSE Append(c, nx[c[Len(c)]])]
           Step(f, k) == IF k = 0 THEN << a >>
                         ELSE LET c == f[k - 1] IN
                              IF Map!Last(c) = Map!NIL THEN c
                              ELSE Append(c, m.e[Map!Last(c)].next)
           walk == CHOOSE f : f = [k \in 0 .. n |-> Step(f, k)]
<1>1. /\ n \in Nat /\ Tables(n, N, nx, Slots(m), m.h) /\ S \subseteq Int
      /\ \A i \in S : nx[i] \in S \cup {-1} /\ nx[i] = m.e[i].next
  <2>1. n \in Nat /\ Tables(n, N, nx, Slots(m), m.h)
    BY DEF Chained, Tables
  <2>2. S \subseteq Int
    BY <2>1 DEF Chained
  <2>3. \A i \in S : nx[i] \in S \cup {-1}
    BY DEF Chained, Linked, Follows
  <2>4. \A i \in S : nx[i] = m.e[i].next
    BY DEF Chained, Nexts
  <2> QED
    BY <2>1, <2>2, <2>3, <2>4
<1> HIDE DEF n, nx
<1>2. << a >> \in W
  <2>1. a \in Int
    BY <1>1
  <2>2. << a >> \in Seq(Int) /\ Len(<< a >>) = 1 /\ << a >>[1] = a
    BY <2>1
  <2> QED
    BY <1>1, <2>2 DEF Walks
<1>3. G \in [W -> W]
  <2>1. ASSUME NEW c \in W, c[Len(c)] # -1  PROVE Append(c, nx[c[Len(c)]]) \in W
    BY <1>1, <2>1, WalkGrows
  <2> HIDE DEF W
  <2> QED
    BY <2>1
<1>4. PICK f : Iterates(f, n, W, << a >>, G)
  <2> HIDE DEF G, W
  <2> QED
    BY <1>1, <1>2, <1>3, Recursion
<1>5. /\ f \in [0 .. n -> W] /\ f[0] = << a >>
      /\ \A k \in 1 .. n : f[k] = G[f[k - 1]] /\ f[k - 1] \in W
  <2>1. \A k \in 1 .. n : k - 1 \in 0 .. n
    BY <1>1
  <2> HIDE DEF G, W
  <2> QED
    BY <1>4, <2>1 DEF Iterates
<1>6. ASSUME NEW c \in W
      PROVE  /\ Len(c) \in Nat /\ Len(c) > 0 /\ c[Len(c)] = Map!Last(c)
             /\ c[Len(c)] # -1 => nx[c[Len(c)]] = m.e[c[Len(c)]].next
  BY <1>1 DEF Walks, Map!Last
<1>7. f = [k \in 0 .. n |-> Step(f, k)]
  <2>1. ASSUME NEW k \in 0 .. n  PROVE f[k] = Step(f, k)
    <3>1. CASE k = 0
      BY <1>5, <3>1
    <3>2. CASE k # 0
      <4>1. k \in 1 .. n
        BY <1>1, <3>2
      <4> DEFINE c == f[k - 1]
      <4>2. f[k] = G[c] /\ c \in W
        BY <1>5, <4>1
      <4> HIDE DEF W, c
      <4>3. G[c] = IF c[Len(c)] = -1 THEN c ELSE Append(c, nx[c[Len(c)]])
        BY <4>2
      <4>4. f[k] = IF Map!Last(c) = Map!NIL THEN c ELSE Append(c, m.e[Map!Last(c)].next)
        BY <1>6, <4>2, <4>3 DEF Map!NIL
      <4> QED
        BY <3>2, <4>4 DEF c
    <3> QED
      BY <3>1, <3>2
  <2> HIDE DEF Step, W
  <2> QED
    BY <1>5, <2>1
<1>8. walk = [k \in 0 .. n |-> Step(walk, k)]
  <2> HIDE DEF Step
  <2> QED
    BY <1>7
<1>9. Map!Chain(m, a) = walk[n]
  BY DEF Map!Chain, n
<1> HIDE DEF walk
<1>10. \A k \in 0 .. n : walk[k] = Step(walk, k)
  <2> HIDE DEF Step
  <2> QED
    BY <1>8
<1> DEFINE P == {k \in 0 .. n : walk[k] \in W /\ Len(walk[k]) <= k + 1
                               /\ (walk[k][Len(walk[k])] = -1 \/ Len(walk[k]) = k + 1)}
<1>11. 0 \in P
  <2>1. walk[0] = << a >> /\ 0 \in 0 .. n
    BY <1>1, <1>10
  <2>2. Len(<< a >>) = 0 + 1
    OBVIOUS
  <2> HIDE DEF W
  <2>3. Len(walk[0]) = 0 + 1 /\ walk[0] \in W
    BY <1>2, <2>1, <2>2
  <2>4. Len(walk[0]) <= 0 + 1
    BY <2>3
  <2> QED
    BY <2>1, <2>3, <2>4
<1>12. ASSUME NEW k \in 0 .. (n - 1), k \in P  PROVE k + 1 \in P
  <2> DEFINE c == walk[k]
  <2>1. k + 1 \in 0 .. n /\ k + 1 # 0 /\ (k + 1) - 1 = k
    BY <1>1
  <2>2. walk[k + 1] = IF Map!Last(c) = Map!NIL THEN c ELSE Append(c, m.e[Map!Last(c)].next)
    <3> HIDE DEF c
    <3>1. walk[k + 1] = Step(walk, k + 1)
      BY <1>10, <2>1
    <3> QED
      BY <2>1, <3>1 DEF c
  <2>3. c \in W /\ Len(c) <= k + 1 /\ (c[Len(c)] = -1 \/ Len(c) = k + 1)
    BY <1>12
  <2> HIDE DEF c, W
  <2>4. CASE c[Len(c)] = -1
    <3>1. walk[k + 1] = c
      BY <1>6, <2>2, <2>3, <2>4 DEF Map!NIL
    <3>2. Len(c) <= (k + 1) + 1
      BY <1>6, <2>3
    <3> QED
      BY <2>1, <2>3, <2>4, <3>1, <3>2
  <2>5. CASE c[Len(c)] # -1
    <3> DEFINE b == Append(c, nx[c[Len(c)]])
    <3>1. walk[k + 1] = b
      BY <1>6, <2>2, <2>3, <2>5 DEF Map!NIL
    <3>2. b \in W
      BY <1>1, <2>3, <2>5, WalkGrows DEF W
    <3>3. Len(b) = (k + 1) + 1
      <4>1. c \in Seq(Int)
        BY <2>3 DEF W, Walks
      <4>2. Len(b) = Len(c) + 1
        OBVIOUS
      <4> QED
        BY <2>3, <2>5, <4>2
    <3> HIDE DEF b
    <3> QED
      BY <2>1, <3>1, <3>2, <3>3
  <2> QED
    BY <2>4, <2>5
<1> HIDE DEF P
<1>13. \A k \in 0 .. n : k \in P
  BY <1>1, <1>11, <1>12, UpTo
<1>14. walk[n] \in W /\ Len(walk[n]) <= n + 1 /\ (walk[n][Len(walk[n])] = -1 \/ Len(walk[n]) = n + 1)
  <2>1. n \in 0 .. n
    BY <1>1
  <2> QED
    BY <1>13, <2>1 DEF P
<1>15. ASSUME NEW c \in W, OfSteps(c, n)  PROVE c[Len(c)] = -1
  <2> DEFINE sl == Slots(m)
             h == m.h
  <2>1. Chained(n, N, nx, sl, h, S, d)
    BY DEF n, nx
  <2>2. c \in Walks(S, nx, a)
    BY <1>15
  <2> HIDE DEF sl, h, W
  <2> QED
    BY <1>15, <2>1, <2>2, WalkEnds
<1> QED
  <2> HIDE DEF W
  <2>1. walk[n][Len(walk[n])] = -1
    BY <1>14, <1>15 DEF OfSteps
  <2> QED
    BY <1>9, <1>14, <2>1 DEF W, n, nx, Ended, Within

(* Entries with another link in one of them.                               *)
NextSet(e, i, x) == [e EXCEPT ![i].next = x]

LinkOf(e) == [j \in 1 .. Len(e) |-> e[j].next]

(* The entries of l are those of e, but that the link of the i-th is x.    *)
Reset(e, l, i, x) ==
  /\ l \in Seq(Entries) /\ Len(l) = Len(e)
  /\ LinkOf(l) = [LinkOf(e) EXCEPT ![i] = x]
  /\ \A j \in 1 .. Len(e) : /\ l[j].first = e[j].first
                            /\ l[j].second = e[j].second
                            /\ l[j].hash = e[j].hash

(* What setting a link changes.                                            *)
LEMMA NextSetTrue ==
  ASSUME NEW e \in Seq(Entries), NEW i \in 1 .. Len(e), NEW x \in Int
  PROVE  Reset(e, NextSet(e, i, x), i, x)
<1> DEFINE l == NextSet(e, i, x)
           n == Len(e)
<1>1. n \in Nat /\ \A j \in 1 .. n : e[j] \in Entries
  BY ElementOfSeq
<1>2. l[i] = [e[i] EXCEPT !.next = x] /\ \A j \in 1 .. n : j # i => l[j] = e[j]
  BY DEF NextSet
<1>3. /\ [e[i] EXCEPT !.next = x] \in Entries
      /\ [e[i] EXCEPT !.next = x].next = x
      /\ [e[i] EXCEPT !.next = x].first = e[i].first
      /\ [e[i] EXCEPT !.next = x].second = e[i].second
      /\ [e[i] EXCEPT !.next = x].hash = e[i].hash
  BY <1>1 DEF Entries
<1>4. l \in Seq(Entries) /\ Len(l) = n
  BY <1>1, <1>3 DEF NextSet
<1> HIDE DEF l
<1>5. LinkOf(l) = [LinkOf(e) EXCEPT ![i] = x]
  <2>1. DOMAIN LinkOf(l) = 1 .. n /\ DOMAIN LinkOf(e) = 1 .. n
    BY <1>4 DEF LinkOf
  <2>2. \A j \in 1 .. n : LinkOf(l)[j] = IF j = i THEN x ELSE LinkOf(e)[j]
    BY <1>2, <1>3, <1>4 DEF LinkOf
  <2>3. LinkOf(l) = [j \in 1 .. n |-> LinkOf(l)[j]]
    BY <1>4 DEF LinkOf
  <2> HIDE DEF n
  <2> QED
    BY <2>1, <2>2, <2>3
<1>6. Reset(e, l, i, x)
  BY <1>2, <1>3, <1>4, <1>5 DEF Reset
<1> QED
  BY <1>6 DEF l

(* The links and slots of a map with other links.                          *)
LEMMA Relinked ==
  ASSUME NEW m, NEW N, MapOf(m, N), NEW l, l = [e |-> l.e, h |-> l.h],
         l.e \in Seq(Entries), Len(l.e) = Len(m.e), l.h \in [0 .. (N - 1) -> Int],
         \A j \in 1 .. Len(m.e) : /\ l.e[j].first = m.e[j].first
                                  /\ l.e[j].second = m.e[j].second
                                  /\ l.e[j].hash = m.e[j].hash
  PROVE  MapOf(l, N) /\ Slots(l) = Slots(m) /\ Kept(m, l)
<1>1. N \in Nat /\ N # 0 /\ DOMAIN m.h = 0 .. (N - 1) /\ DOMAIN l.h = 0 .. (N - 1)
  BY DEF MapOf
<1>2. \A j \in 1 .. Len(m.e) : m.e[j].hash \in Nat
  BY MapTables
<1>3. \A j \in 1 .. Len(m.e) : Map!Slot(l.h, m.e[j].hash) = Map!Slot(m.h, m.e[j].hash)
  BY <1>1, <1>2, SlotTrue
<1>4. Slots(l) = Slots(m)
  BY <1>3 DEF Slots
<1>5. MapOf(l, N)
  BY <1>1 DEF MapOf
<1> QED
  BY <1>4, <1>5 DEF Kept

(* What InsertIntoHashTable does to the links, linked or not.              *)
Inserted(m, l, i) ==
  /\ Nexts(l) = [Nexts(m) EXCEPT ![i] = m.h[Slots(m)[i]]]
  /\ l.h = [m.h EXCEPT ![Slots(m)[i]] = i]
  /\ Slots(l) = Slots(m)
  /\ Len(l.e) = Len(m.e)

LEMMA InsertKeeps ==
  ASSUME NEW m, NEW N, MapOf(m, N), NEW i \in 1 .. Len(m.e)
  PROVE  /\ MapOf(Map!InsertIntoHashTable(m, i), N)
         /\ Kept(m, Map!InsertIntoHashTable(m, i))
         /\ Inserted(m, Map!InsertIntoHashTable(m, i), i)
<1> DEFINE n == Len(m.e)
           nx == Nexts(m)
           sl == Slots(m)
           h == m.h
           s == Map!Slot(m.h, m.e[i].hash)
           x == m.h[s]
           l == Map!InsertIntoHashTable(m, i)
<1>1. /\ Tables(n, N, nx, sl, h)
      /\ m.e \in Seq(Entries) /\ m.h \in [0 .. (N - 1) -> Int] /\ n \in Nat
  BY MapTables
<1>2. s = sl[i] /\ s \in 0 .. (N - 1) /\ x \in Int /\ i \in Int
  <2>1. s = sl[i]
    BY DEF Slots
  <2>2. sl[i] \in 0 .. (N - 1)
    BY <1>1 DEF Tables
  <2> HIDE DEF s, sl
  <2>3. x \in Int
    BY <1>1, <2>1, <2>2
  <2> QED
    BY <2>1, <2>2, <2>3
<1>3. l = [e |-> NextSet(m.e, i, x), h |-> [m.h EXCEPT ![s] = i]]
  BY DEF Map!InsertIntoHashTable, NextSet
<1> HIDE DEF l, x, s
<1>4. l.e = NextSet(m.e, i, x) /\ l.h = [m.h EXCEPT ![s] = i] /\ l = [e |-> l.e, h |-> l.h]
  BY <1>3
<1>5. /\ l.e \in Seq(Entries) /\ Len(l.e) = n
      /\ LinkOf(l.e) = [LinkOf(m.e) EXCEPT ![i] = x]
      /\ \A j \in 1 .. n : /\ l.e[j].first = m.e[j].first
                           /\ l.e[j].second = m.e[j].second
                           /\ l.e[j].hash = m.e[j].hash
  <2> DEFINE e == m.e
  <2>1. e \in Seq(Entries) /\ i \in 1 .. Len(e)
    BY <1>1
  <2> HIDE DEF e
  <2>2. Reset(e, NextSet(e, i, x), i, x)
    BY <1>2, <2>1, NextSetTrue
  <2> QED
    BY <1>4, <2>2 DEF e, Reset
<1>6. l.h \in [0 .. (N - 1) -> Int]
  BY <1>1, <1>2, <1>4
<1>7. MapOf(l, N) /\ Slots(l) = sl /\ Kept(m, l)
  BY <1>1, <1>4, <1>5, <1>6, Relinked
<1>8. Nexts(l) = [nx EXCEPT ![i] = h[sl[i]]] /\ l.h = [h EXCEPT ![sl[i]] = i]
  <2>1. Nexts(l) = LinkOf(l.e) /\ nx = LinkOf(m.e)
    BY <1>5 DEF Nexts, LinkOf
  <2>2. x = h[sl[i]]
    BY <1>2 DEF x
  <2> HIDE DEF nx, sl
  <2> QED
    BY <1>2, <1>4, <1>5, <2>1, <2>2
<1> QED
  BY <1>5, <1>7, <1>8 DEF Inserted, l

(* InsertIntoHashTable links one entry more.                               *)
LEMMA MapInsertTrue ==
  ASSUME NEW m, NEW N, NEW S, MapLinked(m, N, S), NEW i \in (1 .. Len(m.e)) \ S
  PROVE  /\ MapLinked(Map!InsertIntoHashTable(m, i), N, S \cup {i})
         /\ Kept(m, Map!InsertIntoHashTable(m, i))
<1> DEFINE n == Len(m.e)
           nx == Nexts(m)
           sl == Slots(m)
           h == m.h
           l == Map!InsertIntoHashTable(m, i)
<1>1. MapOf(m, N) /\ i \in 1 .. Len(m.e)
  BY DEF MapLinked
<1>2. PICK d : Chained(n, N, nx, sl, h, S, d) /\ Ranked(m, N, S, d)
  BY DEF MapLinked, Ranked
<1>3. PICK d2 : Chained(n, N, [nx EXCEPT ![i] = h[sl[i]]], sl, [h EXCEPT ![sl[i]] = i],
                        S \cup {i}, d2)
  <2>1. i \in (1 .. n) \ S
    OBVIOUS
  <2> HIDE DEF n, nx, sl, h
  <2> QED
    BY <1>2, <2>1, LinkInsert
<1>4. MapOf(l, N) /\ Kept(m, l) /\ Inserted(m, l, i)
  BY <1>1, InsertKeeps
<1> HIDE DEF l
<1>5. Chained(Len(l.e), N, Nexts(l), Slots(l), l.h, S \cup {i}, d2)
  BY <1>3, <1>4 DEF Inserted
<1> QED
  BY <1>4, <1>5 DEF MapLinked, Ranked, l

(* RemoveFromHashTable finds the entry on the chain of its slot.           *)
FoundAt(c, i, S, nx, a, k) ==
  /\ {j \in DOMAIN c : c[j] = i} = {k} /\ Map!Min({k}) = k
  /\ k \in 1 .. (Len(c) - 1) /\ c[k] = i /\ (k = 1 => a = i)
  /\ k # 1 => c[k - 1] \in S /\ nx[c[k - 1]] = i

LEMMA FoundOnChain ==
  ASSUME NEW m, NEW N, NEW S, NEW d, Ranked(m, N, S, d),
         NEW i \in S, NEW s, InSlot(Slots(m), i, s)
  PROVE  \E k : FoundAt(Map!Chain(m, m.h[s]), i, S, Nexts(m), m.h[s], k)
<1> DEFINE c == Map!Chain(m, m.h[s])
           n == Len(m.e)
           nx == Nexts(m)
           sl == Slots(m)
           h == m.h
           a == h[s]
<1>1. Chained(n, N, nx, sl, h, S, d)
  BY DEF Ranked
<1>2. /\ s \in 0 .. (N - 1) /\ i # -1 /\ DOMAIN h = 0 .. (N - 1)
  <2> HIDE DEF n, nx, sl, h
  <2>1. /\ \A j \in S : j \in 1 .. n /\ j # -1
        /\ \A j \in 1 .. n : sl[j] \in 0 .. (N - 1)
        /\ DOMAIN h = 0 .. (N - 1)
    BY <1>1, ChainedNumbers
  <2> QED
    BY <2>1 DEF sl, InSlot
<1>3. a \in S \cup {-1}
  BY <1>1, <1>2 DEF Chained, Linked, Heads
<1>4. c \in Walks(S, nx, a) /\ Ended(c)
  <2> HIDE DEF a
  <2>1. Map!Chain(m, a) \in Walks(S, Nexts(m), a) /\ Ended(Map!Chain(m, a))
    BY <1>3, ChainTrue
  <2> QED
    BY <2>1 DEF a
<1> HIDE DEF n, sl, h, nx, c
<1>5. InSlot(sl, i, s)
  BY DEF sl
<1>6. PICK k \in 1 .. (Len(c) - 1) : c[k] = i
  <2>1. Passes(c, i)
    <3> HIDE DEF a
    <3>1. c \in Walks(S, nx, h[s])
      BY <1>4 DEF a
    <3> QED
      BY <1>1, <1>4, <1>5, <3>1, WalkCovers
  <2> QED
    BY <2>1 DEF Passes
<1>7. /\ Len(c) \in Nat /\ DOMAIN c = 1 .. Len(c) /\ k \in 1 .. Len(c) /\ c[1] = a
      /\ \A j \in 1 .. (Len(c) - 1) : c[j] \in S /\ c[j + 1] = nx[c[j]]
  BY <1>4 DEF Walks
<1>8. ASSUME NEW j \in 1 .. Len(c), c[j] = i  PROVE j = k
  <2>1. c[j] = c[k] /\ c[k] # -1
    BY <1>2, <1>6, <1>8
  <2> HIDE DEF a
  <2> QED
    BY <1>1, <1>4, <1>7, <2>1, WalkOnce
<1>9. {j \in DOMAIN c : c[j] = i} = {k}
  BY <1>6, <1>7, <1>8
<1>10. Map!Min({k}) = k
  BY <1>6 DEF Map!Min
<1>11. k # 1 => c[k - 1] \in S /\ nx[c[k - 1]] = i
  <2> SUFFICES ASSUME k # 1 PROVE c[k - 1] \in S /\ nx[c[k - 1]] = i
    OBVIOUS
  <2>1. k - 1 \in 1 .. (Len(c) - 1) /\ (k - 1) + 1 = k
    BY <1>6, <1>7
  <2> QED
    BY <1>6, <1>7, <2>1
<1>12. FoundAt(c, i, S, nx, a, k)
  BY <1>6, <1>7, <1>9, <1>10, <1>11 DEF FoundAt
<1> QED
  BY <1>12 DEF nx, h, c

(* RemoveFromHashTable unlinks an entry.                                   *)
LEMMA RemoveTrue ==
  ASSUME NEW m, NEW N, NEW S, MapLinked(m, N, S), NEW i \in S
  PROVE  /\ MapLinked(Map!RemoveFromHashTable(m, i), N, S \ {i})
         /\ Kept(m, Map!RemoveFromHashTable(m, i))
<1> DEFINE n == Len(m.e)
           nx == Nexts(m)
           sl == Slots(m)
           h == m.h
           s == Map!Slot(m.h, m.e[i].hash)
           c == Map!Chain(m, m.h[s])
           x == m.e[i].next
           l == Map!RemoveFromHashTable(m, i)
           at == {k \in DOMAIN c : c[k] = i}
<1>1. /\ MapOf(m, N) /\ m.e \in Seq(Entries) /\ m.h \in [0 .. (N - 1) -> Int] /\ n \in Nat
      /\ \A j \in 1 .. n : m.e[j].next \in Int
  BY MapTables DEF MapLinked
<1>2. PICK d : Chained(n, N, nx, sl, h, S, d) /\ Ranked(m, N, S, d)
  BY DEF MapLinked, Ranked
<1>3. i \in 1 .. n /\ s = sl[i] /\ s \in 0 .. (N - 1) /\ x = nx[i] /\ x \in Int
  <2>1. /\ \A j \in S : j \in 1 .. n
        /\ \A j \in 1 .. n : sl[j] \in 0 .. (N - 1)
    <3> HIDE DEF n, nx, sl, h
    <3> QED
      BY <1>2, ChainedNumbers
  <2>2. i \in 1 .. n
    BY <2>1
  <2>3. s = sl[i] /\ x = nx[i]
    BY <2>2 DEF Slots, Nexts
  <2> HIDE DEF sl, s
  <2> QED
    BY <1>1, <2>1, <2>2, <2>3
<1>4. l = IF at = {} THEN m
          ELSE IF Map!Min(at) = 1 THEN [e |-> NextSet(m.e, i, -1), h |-> [m.h EXCEPT ![s] = x]]
          ELSE [e |-> NextSet(NextSet(m.e, c[Map!Min(at) - 1], x), i, -1), h |-> m.h]
  BY DEF Map!RemoveFromHashTable, NextSet, Map!NIL
<1> HIDE DEF l, x
<1>5. PICK k : /\ at = {k} /\ Map!Min({k}) = k
               /\ k \in 1 .. (Len(c) - 1) /\ c[k] = i /\ (k = 1 => m.h[s] = i)
               /\ k # 1 => c[k - 1] \in S /\ nx[c[k - 1]] = i
  <2> HIDE DEF s
  <2>1. InSlot(Slots(m), i, s)
    BY <1>3 DEF InSlot
  <2>2. \E k : FoundAt(Map!Chain(m, m.h[s]), i, S, Nexts(m), m.h[s], k)
    BY <1>2, <2>1, FoundOnChain
  <2> QED
    BY <2>2 DEF FoundAt
<1> HIDE DEF at, c, s
<1>6. ASSUME NEW e \in Seq(Entries), Len(e) = n, NEW g \in [0 .. (N - 1) -> Int],
             l = [e |-> e, h |-> g], Chained(n, N, LinkOf(e), sl, g, S \ {i}, d),
             \A j \in 1 .. n : /\ e[j].first = m.e[j].first
                               /\ e[j].second = m.e[j].second
                               /\ e[j].hash = m.e[j].hash
      PROVE  MapLinked(l, N, S \ {i}) /\ Kept(m, l)
  <2>1. l.e = e /\ l.h = g /\ l = [e |-> l.e, h |-> l.h]
    BY <1>6
  <2>2. MapOf(l, N) /\ Slots(l) = sl /\ Kept(m, l)
    BY <1>1, <1>6, <2>1, Relinked
  <2>3. Nexts(l) = LinkOf(e)
    BY <2>1 DEF Nexts, LinkOf
  <2>4. Chained(Len(l.e), N, Nexts(l), Slots(l), l.h, S \ {i}, d)
    BY <1>6, <2>1, <2>2, <2>3
  <2> QED
    BY <2>2, <2>4 DEF MapLinked, Ranked
<1>7. CASE k = 1
  <2> DEFINE e == NextSet(m.e, i, -1)
             g == [m.h EXCEPT ![s] = x]
  <2>1. l = [e |-> e, h |-> g] /\ h[sl[i]] = i
    BY <1>3, <1>4, <1>5, <1>7
  <2>2. /\ e \in Seq(Entries) /\ Len(e) = n /\ LinkOf(e) = [LinkOf(m.e) EXCEPT ![i] = -1]
        /\ \A j \in 1 .. n : /\ e[j].first = m.e[j].first
                             /\ e[j].second = m.e[j].second
                             /\ e[j].hash = m.e[j].hash
    <3>1. Reset(m.e, NextSet(m.e, i, -1), i, -1)
      BY <1>1, <1>3, NextSetTrue
    <3> QED
      BY <3>1 DEF Reset
  <2>3. g \in [0 .. (N - 1) -> Int]
    BY <1>1, <1>3
  <2>4. Chained(n, N, [nx EXCEPT ![i] = -1], sl, [h EXCEPT ![sl[i]] = nx[i]], S \ {i}, d)
    <3> HIDE DEF n, nx, sl, h
    <3> QED
      BY <1>2, <2>1, LinkRemoveHead
  <2>5. LinkOf(e) = [nx EXCEPT ![i] = -1] /\ g = [h EXCEPT ![sl[i]] = nx[i]]
    BY <1>3, <2>2 DEF Nexts, LinkOf
  <2> HIDE DEF e, g, n, nx, sl, h
  <2>6. Chained(n, N, LinkOf(e), sl, g, S \ {i}, d)
    BY <2>4, <2>5
  <2> QED
    BY <1>6, <2>1, <2>2, <2>3, <2>6 DEF l
<1>8. CASE k # 1
  <2> DEFINE p == c[k - 1]
             f == NextSet(m.e, p, x)
             e == NextSet(f, i, -1)
  <2>1. l = [e |-> e, h |-> h] /\ nx[p] = i /\ p \in S
    BY <1>4, <1>5, <1>8
  <2>2. p \in 1 .. n
    BY <1>2, <2>1 DEF Chained
  <2> HIDE DEF p
  <2>3. /\ f \in Seq(Entries) /\ Len(f) = n /\ LinkOf(f) = [LinkOf(m.e) EXCEPT ![p] = x]
        /\ \A j \in 1 .. n : /\ f[j].first = m.e[j].first
                             /\ f[j].second = m.e[j].second
                             /\ f[j].hash = m.e[j].hash
    <3>1. Reset(m.e, NextSet(m.e, p, x), p, x)
      BY <1>1, <1>3, <2>2, NextSetTrue
    <3> QED
      BY <3>1 DEF Reset
  <2> HIDE DEF f
  <2>4. /\ e \in Seq(Entries) /\ Len(e) = n /\ LinkOf(e) = [LinkOf(f) EXCEPT ![i] = -1]
        /\ \A j \in 1 .. n : /\ e[j].first = f[j].first
                             /\ e[j].second = f[j].second
                             /\ e[j].hash = f[j].hash
    <3>1. i \in 1 .. Len(f) /\ -1 \in Int
      BY <1>3, <2>3
    <3>2. Reset(f, NextSet(f, i, -1), i, -1)
      BY <2>3, <3>1, NextSetTrue
    <3> QED
      BY <2>3, <3>2 DEF Reset
  <2>5. Chained(n, N, [nx EXCEPT ![p] = nx[i], ![i] = -1], sl, h, S \ {i}, d)
    <3> HIDE DEF n, nx, sl, h
    <3> QED
      BY <1>2, <2>1, LinkRemoveBehind
  <2>6. LinkOf(m.e) = nx
    BY DEF Nexts, LinkOf
  <2> HIDE DEF e
  <2>7. LinkOf(e) = [nx EXCEPT ![p] = nx[i], ![i] = -1]
    <3> HIDE DEF nx
    <3> QED
      BY <1>3, <2>3, <2>4, <2>6
  <2>8. \A j \in 1 .. n : /\ e[j].first = m.e[j].first
                          /\ e[j].second = m.e[j].second
                          /\ e[j].hash = m.e[j].hash
    BY <2>3, <2>4
  <2>9. Chained(n, N, LinkOf(e), sl, h, S \ {i}, d)
    BY <2>5, <2>7
  <2> QED
    <3>1. h \in [0 .. (N - 1) -> Int]
      BY <1>1
    <3> HIDE DEF n, sl, h
    <3> QED
      BY <1>6, <2>1, <2>4, <2>8, <2>9, <3>1 DEF l
<1> QED
  BY <1>7, <1>8 DEF l

(* Entries kept twice are kept.                                            *)
LEMMA KeptOn ==
  ASSUME NEW m, NEW l, NEW o, Kept(m, l), Kept(l, o)
  PROVE  Kept(m, o)
BY DEF Kept

(* In an empty table no entry is linked.                                   *)
LEMMA EmptyLinked ==
  ASSUME NEW m, NEW N, MapOf(m, N), m.h = Map!EmptyTable(N)
  PROVE  MapLinked(m, N, {})
<1> DEFINE n == Len(m.e)
           d == [j \in 1 .. n |-> 0]
<1>1. Tables(n, N, Nexts(m), Slots(m), m.h)
  BY MapTables
<1>2. d \in [1 .. n -> Nat] /\ {} \subseteq 1 .. n
  OBVIOUS
<1>3. \A s \in DOMAIN m.h : m.h[s] = -1
  BY DEF Map!EmptyTable, Map!NIL
<1>4. Linked({}, Nexts(m), Slots(m), m.h, d)
  BY <1>3 DEF Linked, Follows, Heads, Once, Reached
<1>5. Ranked(m, N, {}, d)
  BY <1>1, <1>2, <1>4 DEF Ranked, Chained
<1> QED
  BY <1>5 DEF MapLinked

(* ExpandHashTable links all entries in a table of twice the size.         *)
LEMMA ExpandTrue ==
  ASSUME NEW m, NEW N, MapOf(m, N)
  PROVE  /\ MapLinked(Map!ExpandHashTable(m), 2 * N, 1 .. Len(m.e))
         /\ Kept(m, Map!ExpandHashTable(m))
<1> DEFINE n == Len(m.e)
           M == 2 * N
           T == [e : Seq(Entries), h : [0 .. (M - 1) -> Int]]
           All == {l \in T : Kept(m, l)}
           z == [m EXCEPT !.h = Map!EmptyTable(2 * Map!Size(m.h))]
           Step(f, k) == IF k = 0 THEN z ELSE Map!InsertIntoHashTable(f[k - 1], k)
           G == [p \in (1 .. n) \X All |-> Map!InsertIntoHashTable(p[2], p[1])]
           with == CHOOSE f : f = [k \in 0 .. n |-> Step(f, k)]
<1>1. n \in Nat /\ N \in Nat /\ N # 0 /\ M \in Nat /\ M # 0 /\ Map!Size(m.h) = N
  <2>1. n \in Nat /\ N \in Nat /\ N # 0 /\ DOMAIN m.h = 0 .. (N - 1)
    BY DEF MapOf
  <2>2. Map!Size(m.h) = N
    BY <2>1, SlotTrue
  <2> QED
    BY <2>1, <2>2
<1>2. MapOf(z, M) /\ Kept(m, z) /\ z.h = Map!EmptyTable(M)
  <2>1. z = [e |-> m.e, h |-> Map!EmptyTable(M)] /\ m.e \in Seq(Entries)
    BY <1>1 DEF MapOf
  <2>2. Map!EmptyTable(M) \in [0 .. (M - 1) -> Int]
    BY <1>1 DEF Map!EmptyTable, Map!NIL
  <2> HIDE DEF z, M
  <2>3. MapOf(z, M)
    BY <1>1, <2>1, <2>2 DEF MapOf
  <2>4. z.e = m.e /\ z.h = Map!EmptyTable(M)
    BY <2>1
  <2> QED
    BY <2>3, <2>4 DEF Kept
<1> HIDE DEF z
<1>3. \A l : l \in All <=> MapOf(l, M) /\ Kept(m, l)
  BY <1>1 DEF MapOf
<1> HIDE DEF All
<1>4. ASSUME NEW k \in 1 .. n, NEW l \in All  PROVE Map!InsertIntoHashTable(l, k) \in All
  <2>1. MapOf(l, M) /\ Kept(m, l) /\ k \in 1 .. Len(l.e)
    BY <1>3 DEF Kept
  <2> HIDE DEF M
  <2>2. /\ MapOf(Map!InsertIntoHashTable(l, k), M)
        /\ Kept(l, Map!InsertIntoHashTable(l, k))
    BY <2>1, InsertKeeps
  <2>3. Kept(m, Map!InsertIntoHashTable(l, k))
    BY <2>1, <2>2, KeptOn
  <2> QED
    BY <1>3, <2>2, <2>3
<1>5. PICK f : IteratesAt(f, n, All, z, G)
  <2>1. IsStep(G, n, All)
    BY <1>4 DEF IsStep
  <2>2. z \in All
    BY <1>2, <1>3
  <2>3. n \in Nat
    BY <1>1
  <2> HIDE DEF G, n
  <2> QED
    BY <2>1, <2>2, <2>3, RecursionAt
<1>6. f = [k \in 0 .. n |-> Step(f, k)]
  <2>0. f \in [0 .. n -> All] /\ f[0] = z /\ \A k \in 1 .. n : f[k] = G[<< k, f[k - 1] >>]
    BY <1>5 DEF IteratesAt
  <2>1. ASSUME NEW k \in 0 .. n  PROVE f[k] = Step(f, k)
    <3>1. CASE k = 0
      BY <2>0, <3>1
    <3>2. CASE k # 0
      <4>1. k \in 1 .. n /\ k - 1 \in 0 .. n
        BY <1>1, <3>2
      <4> DEFINE l == f[k - 1]
      <4>2. l \in All /\ f[k] = G[<< k, l >>]
        BY <2>0, <4>1
      <4> HIDE DEF l
      <4>3. f[k] = Map!InsertIntoHashTable(l, k)
        BY <4>1, <4>2
      <4> QED
        BY <3>2, <4>3 DEF l
    <3> QED
      BY <3>1, <3>2
  <2> HIDE DEF Step
  <2> QED
    BY <2>0, <2>1
<1>7. with = [k \in 0 .. n |-> Step(with, k)]
  <2> HIDE DEF Step
  <2> QED
    BY <1>6
<1>8. Map!ExpandHashTable(m) = with[n]
  BY DEF Map!ExpandHashTable, z
<1> HIDE DEF with
<1>9. with[0] = z /\ \A k \in 1 .. n : with[k] = Map!InsertIntoHashTable(with[k - 1], k)
  <2>1. \A k \in 0 .. n : with[k] = Step(with, k)
    <3> HIDE DEF Step
    <3> QED
      BY <1>7
  <2>2. 0 \in 0 .. n /\ \A k \in 1 .. n : k \in 0 .. n /\ k # 0
    BY <1>1
  <2> QED
    BY <2>1, <2>2
<1> DEFINE P == {k \in 0 .. n : MapLinked(with[k], M, 1 .. k) /\ Kept(m, with[k])}
<1>10. 0 \in P
  <2>1. 1 .. 0 = {} /\ 0 \in 0 .. n
    BY <1>1
  <2> HIDE DEF M
  <2>2. MapLinked(z, M, {})
    BY <1>2, EmptyLinked
  <2> QED
    BY <1>2, <1>9, <2>1, <2>2
<1>11. ASSUME NEW k \in 0 .. (n - 1), k \in P  PROVE k + 1 \in P
  <2> DEFINE l == with[k]
             S == 1 .. k
             i == k + 1
  <2>1. k + 1 \in 1 .. n /\ k + 1 \in 0 .. n /\ (k + 1) - 1 = k /\ S \cup {i} = 1 .. (k + 1)
    BY <1>1
  <2>2. MapLinked(l, M, S) /\ Kept(m, l)
    BY <1>11
  <2>3. i \in (1 .. Len(l.e)) \ S
    BY <1>1, <2>1, <2>2 DEF Kept
  <2>4. with[k + 1] = Map!InsertIntoHashTable(l, i)
    BY <1>9, <2>1
  <2> HIDE DEF l, S, i, M
  <2>5. /\ MapLinked(Map!InsertIntoHashTable(l, i), M, S \cup {i})
        /\ Kept(l, Map!InsertIntoHashTable(l, i))
    BY <2>2, <2>3, MapInsertTrue
  <2>6. Kept(m, Map!InsertIntoHashTable(l, i))
    BY <2>2, <2>5, KeptOn
  <2> QED
    BY <2>1, <2>4, <2>5, <2>6
<1> HIDE DEF P
<1>12. \A k \in 0 .. n : k \in P
  <2> HIDE DEF n
  <2> QED
    BY <1>1, <1>10, <1>11, UpTo
<1>13. n \in P
  BY <1>1, <1>12
<1> QED
  BY <1>8, <1>13 DEF P

-----------------------------------------------------------------------------
(* Finding a key.                                                          *)

(* at is the entry the loop of find() has come to, after 0 to n steps from *)
(* the entry a.                                                            *)
Seeks(at, e, key, a) ==
  /\ at[0] = a
  /\ \A k \in 1 .. Len(e) :
       at[k] = IF at[k - 1] = -1 THEN -1
               ELSE IF e[at[k - 1]].first = key THEN at[k - 1]
               ELSE e[at[k - 1]].next

(* The recursion of Find has a solution.                                   *)
LEMMA FindSeeks ==
  ASSUME NEW m, NEW N, MapOf(m, N), NEW key,
         \A j \in 1 .. Len(m.e) : m.e[j].next \in (1 .. Len(m.e)) \cup {-1},
         m.h[Map!Slot(m.h, Hash[key])] \in (1 .. Len(m.e)) \cup {-1}
  PROVE  \E f : /\ Seeks(f, m.e, key, m.h[Map!Slot(m.h, Hash[key])])
                /\ Map!Find(m, key) = f[Len(m.e)]
<1> DEFINE n == Len(m.e)
           a == m.h[Map!Slot(m.h, Hash[key])]
           L == (1 .. n) \cup {-1}
           G == [i \in L |-> IF i = Map!NIL THEN Map!NIL
                             ELSE IF m.e[i].first = key THEN i ELSE m.e[i].next]
           Step(f, k) == IF k = 0 THEN a
                         ELSE LET i == f[k - 1] IN
                              IF i = Map!NIL THEN Map!NIL
                              ELSE IF m.e[i].first = key THEN i ELSE m.e[i].next
           at == CHOOSE f : f = [k \in 0 .. n |-> Step(f, k)]
<1>1. n \in Nat /\ a \in L /\ Map!NIL = -1 /\ \A i \in L : i # -1 => m.e[i].next \in L
  BY DEF MapOf, Map!NIL
<1> HIDE DEF n, a
<1>2. G \in [L -> L]
  <2>1. \A i \in L : (IF i = Map!NIL THEN Map!NIL
                      ELSE IF m.e[i].first = key THEN i ELSE m.e[i].next) \in L
    BY <1>1
  <2> HIDE DEF L
  <2> QED
    BY <2>1
<1>3. PICK f : Iterates(f, n, L, a, G)
  <2> HIDE DEF G, L
  <2> QED
    BY <1>1, <1>2, Recursion
<1>4. /\ f \in [0 .. n -> L] /\ f[0] = a
      /\ \A k \in 1 .. n : f[k] = G[f[k - 1]] /\ f[k - 1] \in L
  <2>1. \A k \in 1 .. n : k - 1 \in 0 .. n
    BY <1>1
  <2> HIDE DEF G, L
  <2> QED
    BY <1>3, <2>1 DEF Iterates
<1>5. f = [k \in 0 .. n |-> Step(f, k)]
  <2>1. ASSUME NEW k \in 0 .. n  PROVE f[k] = Step(f, k)
    <3>1. CASE k = 0
      BY <1>4, <3>1
    <3>2. CASE k # 0
      <4>1. k \in 1 .. n
        BY <1>1, <3>2
      <4> HIDE DEF L
      <4> QED
        BY <1>4, <3>2, <4>1
    <3> QED
      BY <3>1, <3>2
  <2> HIDE DEF Step, L
  <2> QED
    BY <1>4, <2>1
<1>6. at = [k \in 0 .. n |-> Step(at, k)]
  <2> HIDE DEF Step
  <2> QED
    BY <1>5
<1>7. Map!Find(m, key) = at[n]
  BY DEF Map!Find, n, a
<1> HIDE DEF at
<1>8. \A k \in 0 .. n : at[k] = Step(at, k)
  <2> HIDE DEF Step
  <2> QED
    BY <1>6
<1>9. Seeks(at, m.e, key, a)
  <2>1. 0 \in 0 .. n /\ \A k \in 1 .. n : k \in 0 .. n /\ k # 0
    BY <1>1
  <2>2. at[0] = a
    BY <1>8, <2>1
  <2>3. \A k \in 1 .. n :
          at[k] = IF at[k - 1] = -1 THEN -1
                  ELSE IF m.e[at[k - 1]].first = key THEN at[k - 1]
                  ELSE m.e[at[k - 1]].next
    BY <1>1, <1>8, <2>1
  <2> QED
    BY <2>2, <2>3 DEF Seeks, n
<1> QED
  BY <1>7, <1>9 DEF n, a

(* The entries keep the hash of their key.                                 *)
Keyed(m) == \A j \in 1 .. Len(m.e) : m.e[j].hash = Hash[m.e[j].first]

(* The entry i of m has the key, or i is NIL and none has.                 *)
Finds(m, key, i) ==
  \/ i = -1 /\ \A j \in 1 .. Len(m.e) : m.e[j].first # key
  \/ i \in 1 .. Len(m.e) /\ m.e[i].first = key

(* find() finds the entry that has the key.                                *)
LEMMA FindTrue ==
  ASSUME NEW m, NEW N, MapLinked(m, N, 1 .. Len(m.e)), Keyed(m), NEW key \in Key
  PROVE  Finds(m, key, Map!Find(m, key))
<1> DEFINE n == Len(m.e)
           nx == Nexts(m)
           sl == Slots(m)
           h == m.h
           s == Map!Slot(m.h, Hash[key])
           a == m.h[s]
           c == Map!Chain(m, a)
           S == 1 .. n
<1>1. MapOf(m, N) /\ n \in Nat /\ N \in Nat /\ N # 0 /\ DOMAIN h = 0 .. (N - 1)
  BY MapTables DEF MapLinked, MapOf
<1>2. PICK d : Chained(n, N, nx, sl, h, S, d) /\ Ranked(m, N, S, d)
  BY DEF MapLinked, Ranked
<1>3. s \in 0 .. (N - 1)
  <2>1. Hash[key] \in Nat
    BY ContainersAssumption DEF Map!UnorderedMapAssumption
  <2> HIDE DEF h
  <2> QED
    BY <1>1, <2>1, SlotTrue DEF h
<1> HIDE DEF s
<1>4. a \in S \cup {-1}
  BY <1>1, <1>2, <1>3 DEF Chained, Linked, Heads
<1>5. \A j \in S : m.e[j].next \in S \cup {-1} /\ nx[j] = m.e[j].next
  BY <1>2 DEF Chained, Linked, Follows, Nexts
<1>6. c \in Walks(S, nx, a) /\ Ended(c) /\ Within(c, n)
  <2> HIDE DEF a, S, n
  <2>1. Ranked(m, N, S, d) /\ a \in S \cup {-1}
    BY <1>2, <1>4
  <2>2. /\ Map!Chain(m, a) \in Walks(S, Nexts(m), a)
        /\ Ended(Map!Chain(m, a)) /\ Within(Map!Chain(m, a), Len(m.e))
    BY <2>1, ChainTrue
  <2> QED
    BY <2>2 DEF n
<1>7. PICK at : Seeks(at, m.e, key, a) /\ Map!Find(m, key) = at[n]
  BY <1>1, <1>4, <1>5, FindSeeks DEF s
<1> HIDE DEF c, a
<1>8. /\ Len(c) \in Nat /\ Len(c) > 0 /\ Len(c) <= n + 1 /\ c[1] = a /\ c[Len(c)] = -1
      /\ \A k \in 1 .. (Len(c) - 1) : c[k] \in S /\ c[k + 1] = nx[c[k]]
  BY <1>6 DEF Walks, Ended, Within
<1> DEFINE l == Len(c)
           T == {k \in 1 .. l : c[k] = -1 \/ m.e[c[k]].first = key}
<1> HIDE DEF l
<1>9. PICK K \in T : \A k \in T : K <= k
  <2>1. T \subseteq Nat /\ l \in T
    BY <1>8 DEF l
  <2>2. T # {}
    BY <2>1
  <2> HIDE DEF T
  <2> QED
    BY <2>1, <2>2, LeastNat
<1>10. /\ K \in 1 .. l /\ (c[K] = -1 \/ m.e[c[K]].first = key)
       /\ \A k \in 1 .. (K - 1) : k \in 1 .. (l - 1) /\ c[k] \in S /\ c[k] # -1 /\ m.e[c[k]].first # key
  <2>1. l \in Nat /\ K \in 1 .. l /\ (c[K] = -1 \/ m.e[c[K]].first = key)
    BY <1>8 DEF l
  <2>2. ASSUME NEW k \in 1 .. (K - 1)
        PROVE  k \in 1 .. (l - 1) /\ c[k] \in S /\ c[k] # -1 /\ m.e[c[k]].first # key
    <3>1. k \in 1 .. (l - 1) /\ k \in 1 .. l /\ ~(K <= k)
      BY <2>1
    <3>2. k \notin T
      <4> HIDE DEF T
      <4> QED
        BY <1>9, <3>1
    <3> QED
      BY <1>8, <3>1, <3>2 DEF l
  <2> QED
    BY <2>1, <2>2
<1> DEFINE P == {k \in 0 .. n : IF k < K THEN at[k] = c[k + 1] ELSE at[k] = c[K]}
<1>11. 0 \in P
  BY <1>1, <1>7, <1>8, <1>10 DEF Seeks
<1>12. ASSUME NEW k \in 0 .. (n - 1), k \in P  PROVE k + 1 \in P
  <2>1. k + 1 \in 1 .. n /\ k + 1 \in 0 .. n /\ (k + 1) - 1 = k /\ k \in Nat /\ K \in Nat
    BY <1>1, <1>10
  <2>2. at[k + 1] = IF at[k] = -1 THEN -1
                    ELSE IF m.e[at[k]].first = key THEN at[k] ELSE m.e[at[k]].next
    BY <1>7, <2>1 DEF Seeks
  <2>3. CASE k + 1 < K
    <3>1. k + 1 \in 1 .. (K - 1) /\ k < K
      BY <2>1, <2>3
    <3>2. at[k] = c[k + 1]
      BY <1>12, <3>1
    <3>3. at[k + 1] = c[(k + 1) + 1]
      <4> DEFINE j == k + 1
      <4>1. j \in 1 .. (l - 1) /\ c[j] \in S /\ c[j] # -1 /\ m.e[c[j]].first # key
        BY <1>10, <3>1
      <4>2. c[j + 1] = m.e[c[j]].next
        <5> HIDE DEF j, S
        <5> QED
          BY <1>5, <1>8, <4>1 DEF l
      <4>3. at[j] = m.e[c[j]].next
        <5> HIDE DEF S
        <5> QED
          BY <2>2, <3>2, <4>1
      <4> QED
        BY <4>2, <4>3
    <3> QED
      BY <2>1, <2>3, <3>3
  <2>4. CASE ~(k + 1 < K)
    <3>1. at[k] = c[K]
      <4>1. CASE k < K
        <5>1. k + 1 = K
          BY <2>1, <2>4, <4>1
        <5> QED
          BY <1>12, <4>1, <5>1
      <4>2. CASE ~(k < K)
        BY <1>12, <4>2
      <4> QED
        BY <4>1, <4>2
    <3>2. at[k + 1] = c[K]
      BY <1>10, <2>2, <3>1
    <3> QED
      BY <2>1, <2>4, <3>2
  <2> QED
    BY <2>3, <2>4
<1> HIDE DEF P
<1>13. n \in P
  <2>1. \A k \in 0 .. n : k \in P
    <3> HIDE DEF n
    <3> QED
      BY <1>1, <1>11, <1>12, UpTo
  <2>2. n \in 0 .. n
    BY <1>1
  <2> QED
    BY <2>1, <2>2
<1>14. at[n] = c[K]
  <2>1. CASE n < K
    <3>1. K = n + 1
      BY <1>1, <1>8, <1>10, <2>1 DEF l
    <3> QED
      BY <1>13, <2>1, <3>1 DEF P
  <2>2. CASE ~(n < K)
    BY <1>13, <2>2 DEF P
  <2> QED
    BY <2>1, <2>2
<1>15. CASE c[K] # -1
  <2>1. c[K] \in S
    <3>1. K # l
      BY <1>8, <1>15 DEF l
    <3>2. K \in 1 .. (l - 1)
      BY <1>8, <1>10, <3>1 DEF l
    <3> QED
      BY <1>8, <3>2 DEF l
  <2> QED
    BY <1>7, <1>10, <1>14, <1>15, <2>1 DEF Finds
<1>16. CASE c[K] = -1
  <2>1. ASSUME NEW i \in S, m.e[i].first = key  PROVE FALSE
    <3>1. InSlot(sl, i, s)
      BY <2>1 DEF Keyed, InSlot, Slots, s
    <3>2. Passes(c, i)
      <4> HIDE DEF n, nx, sl, h, S
      <4>1. c \in Walks(S, nx, h[s])
        BY <1>6 DEF a, h
      <4> QED
        BY <1>2, <1>6, <3>1, <4>1, WalkCovers
    <3>3. PICK k \in 1 .. (l - 1) : c[k] = i
      BY <3>2 DEF Passes, l
    <3>4. K \notin 1 .. (l - 1)
      <4>1. \A j \in S : j # -1
        BY <1>1
      <4> QED
        BY <1>8, <1>16, <4>1 DEF l
    <3>5. k \in 1 .. (K - 1)
      BY <1>8, <1>10, <3>4 DEF l
    <3> QED
      BY <1>10, <2>1, <3>3, <3>5
  <2> QED
    BY <1>7, <1>14, <1>16, <2>1 DEF Finds
<1> QED
  BY <1>15, <1>16

-----------------------------------------------------------------------------
(* Entries added, moved and taken away.                                    *)

(* Links and slots of entries that are not linked do not matter.           *)
SameLinks(S, m, l) ==
  /\ l.h = m.h /\ S \subseteq 1 .. Len(l.e)
  /\ \A j \in S : l.e[j].next = m.e[j].next /\ l.e[j].hash = m.e[j].hash

LEMMA OnlyLinked ==
  ASSUME NEW m, NEW N, NEW S, MapLinked(m, N, S),
         NEW l, MapOf(l, N), SameLinks(S, m, l)
  PROVE  MapLinked(l, N, S)
<1> DEFINE n == Len(m.e)
           n2 == Len(l.e)
           nx == Nexts(m)
           nx2 == Nexts(l)
           sl == Slots(m)
           sl2 == Slots(l)
           h == m.h
<1>1. PICK d : Chained(n, N, nx, sl, h, S, d)
  BY DEF MapLinked, Ranked
<1>2. /\ S \subseteq 1 .. n /\ S \subseteq 1 .. n2 /\ d \in [1 .. n -> Nat] /\ l.h = h
      /\ Follows(S, nx, sl, d) /\ Heads(S, sl, h) /\ Once(S, nx, sl, h)
      /\ Reached(S, nx, sl, h) /\ DOMAIN h = 0 .. (N - 1)
  BY <1>1 DEF Chained, Linked, SameLinks, Tables
<1>3. Tables(n2, N, nx2, sl2, h)
  BY <1>2, MapTables
<1>4. \A j \in S : nx2[j] = nx[j] /\ sl2[j] = sl[j]
  BY <1>2 DEF SameLinks, Nexts, Slots
<1>5. -1 \notin S /\ \A j \in S : sl[j] \in DOMAIN h
  <2>1. (\A j \in S : j # -1) /\ \A j \in S : sl[j] \in 0 .. (N - 1)
    <3> HIDE DEF n, nx, sl, h
    <3> QED
      BY <1>1, <1>2, ChainedNumbers
  <2> QED
    BY <1>2, <2>1
<1> DEFINE d2 == [j \in 1 .. n2 |-> IF j \in S THEN d[j] ELSE 0]
<1>6. d2 \in [1 .. n2 -> Nat] /\ \A j \in S : d2[j] = d[j]
  BY <1>2
<1> HIDE DEF n, n2, nx, nx2, sl, sl2, h, d2
<1>7. Follows(S, nx2, sl2, d2)
  BY <1>2, <1>4, <1>6, ZenonT(60) DEF Follows
<1>8. Heads(S, sl2, h)
  BY <1>2, <1>4 DEF Heads
<1>9. Once(S, nx2, sl2, h)
  BY <1>2, <1>4 DEF Once
<1>10. Reached(S, nx2, sl2, h)
  BY <1>2, <1>4, ZenonT(60) DEF Reached
<1>11. Chained(n2, N, nx2, sl2, h, S, d2)
  BY <1>2, <1>3, <1>6, <1>7, <1>8, <1>9, <1>10 DEF Chained, Linked
<1> QED
  BY <1>2, <1>11 DEF MapLinked, Ranked, n2, nx2, sl2, h

(* A map as the operations leave it: all its entries are linked, and have  *)
(* the hash of their key, which no other has.                              *)
Distinct(m) == \A j, k \in 1 .. Len(m.e) : m.e[j].first = m.e[k].first => j = k

Sound(m, N) == MapLinked(m, N, 1 .. Len(m.e)) /\ Keyed(m) /\ Distinct(m)

(* Of the entry i, l has the key and the value that m has of entry j.      *)
SameItem(l, i, m, j) ==
  l.e[i].first = m.e[j].first /\ l.e[i].second = m.e[j].second /\ l.e[i].hash = m.e[j].hash

(* The entries of l are those of m and one of key and v behind them.       *)
Extends(l, m, key, v) ==
  /\ Len(l.e) = Len(m.e) + 1
  /\ \A j \in 1 .. Len(m.e) : SameItem(l, j, m, j)
  /\ l.e[Len(l.e)].first = key /\ l.e[Len(l.e)].second = v
  /\ l.e[Len(l.e)].hash = Hash[key]

(* A map with other entries.                                               *)
LEMMA OtherEntries ==
  ASSUME NEW m, NEW N, MapOf(m, N), NEW y
  PROVE  [m EXCEPT !.e = y] = [e |-> y, h |-> m.h]
BY DEF MapOf

(* operator[] adds an entry for the key.                                   *)
LEMMA AddedLinked ==
  ASSUME NEW m, NEW N, MapLinked(m, N, 1 .. Len(m.e)), NEW key \in Key, NEW v \in MapVal
  PROVE  /\ \E M : MapLinked(Map!Added(m, key, v), M, 1 .. (Len(m.e) + 1))
         /\ Extends(Map!Added(m, key, v), m, key, v)
<1> DEFINE n == Len(m.e)
           room == IF Map!IsFull(m) THEN Map!ExpandHashTable(m) ELSE m
           x == Map!NewEntry(key, v)
           added == [room EXCEPT !.e = Append(@, x)]
<1>1. MapOf(m, N) /\ n \in Nat
  BY MapTables DEF MapLinked
<1>2. PICK M : MapLinked(room, M, 1 .. n) /\ Kept(m, room)
  <2>1. CASE Map!IsFull(m)
    <3>1. MapLinked(Map!ExpandHashTable(m), 2 * N, 1 .. n) /\ Kept(m, Map!ExpandHashTable(m))
      BY <1>1, ExpandTrue
    <3> QED
      BY <2>1, <3>1
  <2>2. CASE ~Map!IsFull(m)
    BY <2>2 DEF Kept
  <2> QED
    BY <2>1, <2>2
<1> HIDE DEF room
<1>3. /\ MapOf(room, M) /\ room.e \in Seq(Entries) /\ Len(room.e) = n
      /\ room.h \in [0 .. (M - 1) -> Int] /\ room = [e |-> room.e, h |-> room.h]
  <2>1. MapOf(room, M) /\ Len(room.e) = n
    BY <1>2 DEF MapLinked, Kept
  <2>2. room = [e |-> room.e, h |-> room.h]
    BY <2>1 DEF MapOf
  <2> QED
    BY <2>1, <2>2, MapTables
<1>4. x \in Entries /\ x.first = key /\ x.second = v /\ x.hash = Hash[key]
  <2>1. Hash[key] \in Nat
    BY ContainersAssumption DEF Map!UnorderedMapAssumption
  <2> QED
    BY <2>1 DEF Map!NewEntry, Map!NIL, Entries
<1> HIDE DEF x
<1>5. added.e = Append(room.e, x) /\ added.h = room.h /\ added = [e |-> added.e, h |-> added.h]
  <2>1. added = [e |-> Append(room.e, x), h |-> room.h]
    <3> DEFINE y == Append(room.e, x)
    <3> HIDE DEF y
    <3>1. [room EXCEPT !.e = y] = [e |-> y, h |-> room.h]
      BY <1>3, OtherEntries
    <3> QED
      BY <3>1 DEF y
  <2> HIDE DEF added
  <2> QED
    BY <2>1
<1> HIDE DEF added
<1>6. /\ added.e \in Seq(Entries) /\ Len(added.e) = n + 1 /\ added.e[n + 1] = x
      /\ \A j \in 1 .. n : added.e[j] = room.e[j]
  BY <1>3, <1>4, <1>5, AppendProperties
<1>7. MapOf(added, M)
  BY <1>3, <1>5, <1>6 DEF MapOf
<1>8. MapLinked(added, M, 1 .. n)
  <2>1. SameLinks(1 .. n, room, added)
    BY <1>1, <1>5, <1>6 DEF SameLinks
  <2> DEFINE S == 1 .. n
  <2> HIDE DEF S
  <2>2. MapLinked(room, M, S) /\ SameLinks(S, room, added)
    BY <1>2, <2>1 DEF S
  <2>3. MapLinked(added, M, S)
    BY <1>7, <2>2, OnlyLinked
  <2> QED
    BY <2>3 DEF S
<1> DEFINE i == n + 1
           S == 1 .. n
           l == Map!InsertIntoHashTable(added, i)
<1>9. i \in (1 .. Len(added.e)) \ S /\ S \cup {i} = 1 .. (n + 1)
  BY <1>1, <1>6
<1>10. MapLinked(l, M, S \cup {i}) /\ Kept(added, l)
  <2>1. MapLinked(added, M, S)
    BY <1>8
  <2> HIDE DEF i, S
  <2> QED
    BY <1>9, <2>1, MapInsertTrue DEF i, S
<1>11. Map!Added(m, key, v) = l
  BY <1>6 DEF Map!Added, room, added, x
<1> HIDE DEF l
<1>12. Extends(l, m, key, v)
  <2>1. Len(l.e) = n + 1
    BY <1>6, <1>10 DEF Kept
  <2>2. ASSUME NEW j \in 1 .. n  PROVE SameItem(l, j, m, j)
    <3>1. j \in 1 .. (n + 1)
      BY <1>1
    <3> QED
      BY <1>2, <1>6, <1>10, <3>1, SMTT(60) DEF Kept, SameItem
  <2>3. n + 1 \in 1 .. (n + 1)
    BY <1>1
  <2>4. l.e[n + 1].first = key /\ l.e[n + 1].second = v /\ l.e[n + 1].hash = Hash[key]
    BY <1>4, <1>6, <1>10, <2>3 DEF Kept
  <2> QED
    BY <2>1, <2>2, <2>4 DEF Extends
<1> QED
  BY <1>9, <1>10, <1>11, <1>12

(* The last entry is cut off when it is not linked.                        *)
LEMMA FrontLinked ==
  ASSUME NEW m, NEW N, NEW n \in Nat, MapLinked(m, N, 1 .. n), Len(m.e) = n + 1
  PROVE  /\ MapLinked([m EXCEPT !.e = Map!Front(@)], N, 1 .. n)
         /\ Len([m EXCEPT !.e = Map!Front(@)].e) = n
         /\ \A j \in 1 .. n : [m EXCEPT !.e = Map!Front(@)].e[j] = m.e[j]
<1> DEFINE y == SubSeq(m.e, 1, n)
           l == [m EXCEPT !.e = Map!Front(@)]
           S == 1 .. n
<1>1. /\ MapOf(m, N) /\ m.e \in Seq(Entries) /\ m.h \in [0 .. (N - 1) -> Int]
      /\ N \in Nat /\ N # 0
  BY MapTables DEF MapLinked, MapOf
<1>2. y \in Seq(Entries) /\ Len(y) = n /\ \A j \in 1 .. n : y[j] = m.e[j]
  <2>1. 1 \in 1 .. (Len(m.e) + 1) /\ n \in 0 .. Len(m.e) /\ 1 <= n + 1
    OBVIOUS
  <2> QED
    BY <1>1, <2>1, SubSeqProperties
<1>3. l = [e |-> y, h |-> m.h]
  <2>1. y = Map!Front(m.e)
    BY DEF Map!Front
  <2> HIDE DEF y
  <2>2. [m EXCEPT !.e = y] = [e |-> y, h |-> m.h]
    BY <1>1, OtherEntries
  <2> QED
    BY <2>1, <2>2
<1> HIDE DEF l, y
<1>4. l.e = y /\ l.h = m.h
  BY <1>3
<1>5. MapOf(l, N)
  BY <1>1, <1>2, <1>3 DEF MapOf
<1>6. SameLinks(S, m, l) /\ MapLinked(m, N, S)
  BY <1>2, <1>4 DEF SameLinks
<1> HIDE DEF S
<1>7. MapLinked(l, N, S)
  BY <1>5, <1>6, OnlyLinked
<1> QED
  BY <1>2, <1>4, <1>7 DEF l, S

(* The entries of l are those of m without entry i, whose place the last   *)
(* has taken.                                                              *)
Shrinks(l, m, i) ==
  /\ Len(l.e) = Len(m.e) - 1
  /\ \A j \in 1 .. (Len(m.e) - 1) : SameItem(l, j, m, IF j = i THEN Len(m.e) ELSE j)

(* erase() takes an entry away.                                            *)
LEMMA ErasedLinked ==
  ASSUME NEW m, NEW N, MapLinked(m, N, 1 .. Len(m.e)), NEW i \in 1 .. Len(m.e)
  PROVE  /\ MapLinked(Map!Erased(m, i), N, 1 .. (Len(m.e) - 1))
         /\ Shrinks(Map!Erased(m, i), m, i)
<1> DEFINE n == Len(m.e)
           All == 1 .. n
           Others == All \ {i}
           out == Map!RemoveFromHashTable(m, i)
           l == Map!Erased(m, i)
<1>1. MapOf(m, N) /\ n \in Nat /\ n - 1 \in Nat /\ (n - 1) + 1 = n
  BY MapTables DEF MapLinked
<1>2. MapLinked(out, N, Others) /\ Kept(m, out)
  <2>1. MapLinked(m, N, All) /\ i \in All
    OBVIOUS
  <2> HIDE DEF All
  <2> QED
    BY <2>1, RemoveTrue
<1> HIDE DEF out
<1>3. CASE i = n
  <2>1. Others = 1 .. (n - 1) /\ Len(out.e) = (n - 1) + 1
    BY <1>1, <1>2, <1>3 DEF Kept
  <2> DEFINE o == [out EXCEPT !.e = Map!Front(@)]
  <2>2. l = o
    BY <1>3 DEF Map!Erased, out
  <2>3. MapLinked(o, N, 1 .. (n - 1)) /\ Len(o.e) = n - 1 /\ \A j \in 1 .. (n - 1) : o.e[j] = out.e[j]
    <3> DEFINE k == n - 1
    <3>1. k \in Nat /\ MapLinked(out, N, 1 .. k) /\ Len(out.e) = k + 1
      BY <1>1, <1>2, <2>1
    <3> HIDE DEF k
    <3>2. MapLinked(o, N, 1 .. k) /\ Len(o.e) = k /\ \A j \in 1 .. k : o.e[j] = out.e[j]
      BY <3>1, FrontLinked
    <3> QED
      BY <3>2 DEF k
  <2> HIDE DEF o, l
  <2>4. ASSUME NEW j \in 1 .. (n - 1)  PROVE SameItem(o, j, m, j) /\ j # i
    BY <1>1, <1>2, <1>3, <2>3 DEF Kept, SameItem
  <2> QED
    BY <2>2, <2>3, <2>4 DEF Shrinks, l
<1>4. CASE i # n
  <2> DEFINE both == Map!RemoveFromHashTable(out, n)
             Rest == Others \ {n}
             e2 == [both.e EXCEPT ![i] = both.e[n]]
             moved == [e |-> e2, h |-> both.h]
             again == Map!InsertIntoHashTable(moved, i)
             o == [again EXCEPT !.e = Map!Front(@)]
  <2>1. MapLinked(both, N, Rest) /\ Kept(out, both)
    <3>1. n \in Others
      BY <1>1, <1>4
    <3> HIDE DEF Others, n
    <3> QED
      BY <1>2, <3>1, RemoveTrue
  <2>2. Kept(m, both)
    BY <1>2, <2>1, KeptOn
  <2>3. l = o
    <3>1. MapOf(both, N)
      BY <2>1 DEF MapLinked
    <3> HIDE DEF both
    <3>2. [both EXCEPT !.e[i] = both.e[n]] = moved
      <4> HIDE DEF e2
      <4>1. [both EXCEPT !.e = e2] = [e |-> e2, h |-> both.h]
        BY <3>1, OtherEntries
      <4>2. [both EXCEPT !.e[i] = both.e[n]] = [both EXCEPT !.e = e2]
        BY <3>1 DEF e2, MapOf
      <4> QED
        BY <4>1, <4>2
    <3> QED
      BY <1>4, <3>2 DEF Map!Erased, out, both
  <2> HIDE DEF both, l
  <2>4. /\ MapOf(both, N) /\ both.e \in Seq(Entries) /\ Len(both.e) = n
        /\ both.h \in [0 .. (N - 1) -> Int] /\ N \in Nat /\ N # 0
        /\ both.e[n] \in Entries
    <3>1. MapOf(both, N) /\ Len(both.e) = n
      BY <2>1, <2>2 DEF MapLinked, Kept
    <3> QED
      BY <1>1, <3>1, MapTables DEF MapOf
  <2>5. /\ e2 \in Seq(Entries) /\ Len(e2) = n /\ e2[i] = both.e[n]
        /\ \A j \in 1 .. n : j # i => e2[j] = both.e[j]
    BY <1>1, <2>4
  <2> HIDE DEF e2
  <2>6. MapLinked(moved, N, Rest)
    <3>1. moved.e = e2 /\ moved.h = both.h
      OBVIOUS
    <3>2. MapOf(moved, N)
      BY <2>4, <2>5 DEF MapOf
    <3>3. SameLinks(Rest, both, moved)
      BY <2>5, <3>1 DEF SameLinks
    <3> HIDE DEF moved, Rest
    <3> QED
      BY <2>1, <3>2, <3>3, OnlyLinked
  <2>7. moved.e = e2 /\ i \in (1 .. Len(moved.e)) \ Rest /\ Rest \cup {i} = 1 .. (n - 1)
    BY <1>1, <1>4, <2>5
  <2> HIDE DEF moved
  <2>8. MapLinked(again, N, 1 .. (n - 1)) /\ Kept(moved, again)
    <3> HIDE DEF Rest
    <3>1. MapLinked(again, N, Rest \cup {i}) /\ Kept(moved, again)
      BY <2>6, <2>7, MapInsertTrue
    <3> QED
      BY <2>7, <3>1
  <2> HIDE DEF again
  <2>9. MapLinked(o, N, 1 .. (n - 1)) /\ Len(o.e) = n - 1 /\ \A j \in 1 .. (n - 1) : o.e[j] = again.e[j]
    <3> DEFINE k == n - 1
    <3>1. k \in Nat /\ MapLinked(again, N, 1 .. k) /\ Len(again.e) = k + 1
      BY <1>1, <2>5, <2>7, <2>8 DEF Kept
    <3> HIDE DEF k
    <3>2. MapLinked(o, N, 1 .. k) /\ Len(o.e) = k /\ \A j \in 1 .. k : o.e[j] = again.e[j]
      BY <3>1, FrontLinked
    <3> QED
      BY <3>2 DEF k
  <2> HIDE DEF o
  <2>10. ASSUME NEW j \in 1 .. (n - 1)  PROVE SameItem(o, j, m, IF j = i THEN n ELSE j)
    <3>1. j \in 1 .. n /\ n \in 1 .. n
      BY <1>1
    <3>2. SameItem(o, j, moved, j)
      BY <2>5, <2>7, <2>8, <2>9, <3>1 DEF Kept, SameItem
    <3> QED
      BY <2>2, <2>5, <2>7, <3>1, <3>2 DEF Kept, SameItem
  <2> QED
    BY <2>3, <2>9, <2>10 DEF Shrinks, l
<1> QED
  BY <1>3, <1>4

(* operator[] and an assignment give an entry another value.               *)
Assigned(m, i, v) == [m EXCEPT !.e[i].second = v]

(* The entries of l are those of m, but the value of the i-th.             *)
Assigns(l, m, i, v) ==
  /\ Len(l.e) = Len(m.e) /\ l.e[i].second = v
  /\ \A j \in 1 .. Len(m.e) : /\ l.e[j].first = m.e[j].first /\ l.e[j].hash = m.e[j].hash
                              /\ j # i => l.e[j].second = m.e[j].second

LEMMA AssignedLinked ==
  ASSUME NEW m, NEW N, MapLinked(m, N, 1 .. Len(m.e)), NEW i \in 1 .. Len(m.e), NEW v \in MapVal
  PROVE  /\ MapLinked(Assigned(m, i, v), N, 1 .. Len(m.e))
         /\ Assigns(Assigned(m, i, v), m, i, v)
<1> DEFINE n == Len(m.e)
           x == [m.e[i] EXCEPT !.second = v]
           e == [m.e EXCEPT ![i] = x]
           l == [e |-> e, h |-> m.h]
           S == 1 .. n
<1>1. /\ MapOf(m, N) /\ m.e \in Seq(Entries) /\ n \in Nat /\ m.e[i] \in Entries
      /\ m.h \in [0 .. (N - 1) -> Int] /\ N \in Nat /\ N # 0
  BY MapTables DEF MapLinked, MapOf
<1>2. /\ x \in Entries /\ x.next = m.e[i].next /\ x.hash = m.e[i].hash
      /\ x.first = m.e[i].first /\ x.second = v
  BY <1>1 DEF Entries
<1>3. Assigned(m, i, v) = l
  <2>1. Assigned(m, i, v) = [m EXCEPT !.e = e]
    BY <1>1 DEF Assigned, MapOf
  <2> HIDE DEF e
  <2> QED
    BY <1>1, <2>1, OtherEntries
<1> HIDE DEF x
<1>4. e \in Seq(Entries) /\ Len(e) = n /\ e[i] = x /\ \A j \in 1 .. n : j # i => e[j] = m.e[j]
  BY <1>1, <1>2
<1> HIDE DEF e
<1>5. MapOf(l, N) /\ SameLinks(S, m, l) /\ MapLinked(m, N, S)
  <2>1. l.e = e /\ l.h = m.h
    OBVIOUS
  <2>2. MapOf(l, N)
    BY <1>1, <1>4 DEF MapOf
  <2> QED
    BY <1>2, <1>4, <2>1, <2>2 DEF SameLinks
<1>6. MapLinked(l, N, S)
  <2> HIDE DEF l, S
  <2> QED
    BY <1>5, OnlyLinked
<1>7. Assigns(l, m, i, v)
  BY <1>2, <1>4 DEF Assigns
<1> QED
  BY <1>3, <1>6, <1>7

-----------------------------------------------------------------------------
(* The values of the keys.                                                 *)

(* The value of key k in m, if it has one.                                 *)
ValueOf(m, k) == {m.e[i].second : i \in {i \in 1 .. Len(m.e) : m.e[i].first = k}}

(* An added key has its value, the others keep theirs.                     *)
LEMMA AddedSound ==
  ASSUME NEW m, NEW N, Sound(m, N), NEW key \in Key, NEW v \in MapVal, Finds(m, key, -1)
  PROVE  /\ \E M : Sound(Map!Added(m, key, v), M)
         /\ \A k \in Key : ValueOf(Map!Added(m, key, v), k) = IF k = key THEN {v} ELSE ValueOf(m, k)
<1> DEFINE n == Len(m.e)
           l == Map!Added(m, key, v)
<1>1. n \in Nat /\ \A j \in 1 .. n : m.e[j].first # key
  <2>1. MapOf(m, N)
    BY DEF Sound, MapLinked
  <2>2. n \in Nat
    BY <2>1, MapTables
  <2> QED
    BY <2>2 DEF Finds
<1>2. (\E M : MapLinked(l, M, 1 .. (n + 1))) /\ Extends(l, m, key, v)
  BY AddedLinked DEF Sound
<1> HIDE DEF l
<1>3. /\ Len(l.e) = n + 1 /\ l.e[n + 1].first = key /\ l.e[n + 1].second = v
      /\ l.e[n + 1].hash = Hash[key]
      /\ \A j \in 1 .. n : SameItem(l, j, m, j)
  BY <1>2 DEF Extends
<1>4. \A j \in 1 .. (n + 1) : j = n + 1 \/ j \in 1 .. n
  BY <1>1
<1>5. Keyed(l)
  BY <1>3, <1>4 DEF Keyed, SameItem, Sound
<1>6. Distinct(l)
  <2>1. \A j \in 1 .. n : l.e[j].first = m.e[j].first
    BY <1>3 DEF SameItem
  <2>2. \A j, k \in 1 .. n : m.e[j].first = m.e[k].first => j = k
    BY DEF Sound, Distinct
  <2> HIDE DEF n
  <2> QED
    BY <1>1, <1>3, <1>4, <2>1, <2>2 DEF Distinct
<1>7. ASSUME NEW k \in Key  PROVE ValueOf(l, k) = IF k = key THEN {v} ELSE ValueOf(m, k)
  <2>1. \A j \in 1 .. n : l.e[j].first = m.e[j].first /\ l.e[j].second = m.e[j].second
    BY <1>3 DEF SameItem
  <2>2. n + 1 \in 1 .. (n + 1) /\ \A j \in 1 .. n : j \in 1 .. (n + 1)
    BY <1>1
  <2> HIDE DEF n
  <2>3. ValueOf(m, k) = {m.e[i].second : i \in {i \in 1 .. n : m.e[i].first = k}}
    BY DEF ValueOf, n
  <2>4. ValueOf(l, k) = {l.e[i].second : i \in {i \in 1 .. (n + 1) : l.e[i].first = k}}
    BY <1>3 DEF ValueOf
  <2>5. CASE k = key
    <3>1. \A i \in 1 .. (n + 1) : l.e[i].first = k <=> i = n + 1
      BY <1>1, <1>3, <1>4, <2>1, <2>2, <2>5
    <3> QED
      BY <1>3, <2>2, <2>4, <2>5, <3>1
  <2>6. CASE k # key
    <3>1. \A i \in 1 .. (n + 1) : l.e[i].first = k <=> i \in 1 .. n /\ m.e[i].first = k
      BY <1>1, <1>3, <1>4, <2>1, <2>2, <2>6
    <3> QED
      BY <2>1, <2>2, <2>3, <2>4, <2>6, <3>1
  <2> QED
    BY <2>5, <2>6
<1> QED
  BY <1>2, <1>3, <1>5, <1>6, <1>7 DEF Sound, l

(* An erased key has no value, the others keep theirs.                     *)
LEMMA ErasedSound ==
  ASSUME NEW m, NEW N, Sound(m, N), NEW i \in 1 .. Len(m.e)
  PROVE  /\ Sound(Map!Erased(m, i), N)
         /\ \A k \in Key :
              ValueOf(Map!Erased(m, i), k) = IF k = m.e[i].first THEN {} ELSE ValueOf(m, k)
<1> DEFINE n == Len(m.e)
           l == Map!Erased(m, i)
           of(j) == IF j = i THEN n ELSE j
<1>1. n \in Nat
  <2>1. MapOf(m, N)
    BY DEF Sound, MapLinked
  <2> QED
    BY <2>1, MapTables
<1>2. MapLinked(l, N, 1 .. (n - 1)) /\ Shrinks(l, m, i)
  BY ErasedLinked DEF Sound
<1> HIDE DEF l
<1>3. Len(l.e) = n - 1 /\ \A j \in 1 .. (n - 1) : SameItem(l, j, m, of(j))
  BY <1>2 DEF Shrinks
<1>4. /\ \A j \in 1 .. (n - 1) : of(j) \in 1 .. n /\ of(j) # i
      /\ \A j, k \in 1 .. (n - 1) : of(j) = of(k) => j = k
      /\ \A j \in 1 .. n : j # i => \E k \in 1 .. (n - 1) : of(k) = j
  <2>1. \A j \in 1 .. (n - 1) : of(j) \in 1 .. n /\ of(j) # i
    BY <1>1
  <2>2. \A j, k \in 1 .. (n - 1) : of(j) = of(k) => j = k
    BY <1>1
  <2>3. ASSUME NEW j \in 1 .. n, j # i  PROVE \E k \in 1 .. (n - 1) : of(k) = j
    <3>1. CASE j = n
      <4>1. i \in 1 .. (n - 1) /\ of(i) = j
        BY <1>1, <2>3, <3>1
      <4> QED
        BY <4>1
    <3>2. CASE j # n
      <4>1. j \in 1 .. (n - 1) /\ of(j) = j
        BY <1>1, <2>3, <3>2
      <4> QED
        BY <4>1
    <3> QED
      BY <3>1, <3>2
  <2> QED
    BY <2>1, <2>2, <2>3
<1>5. \A j \in 1 .. (n - 1) : /\ l.e[j].first = m.e[of(j)].first
                              /\ l.e[j].second = m.e[of(j)].second
                              /\ l.e[j].hash = m.e[of(j)].hash
  BY <1>3 DEF SameItem
<1> HIDE DEF of, n
<1>6. Keyed(l)
  <2>1. \A j \in 1 .. n : m.e[j].hash = Hash[m.e[j].first]
    BY DEF Sound, Keyed, n
  <2> QED
    BY <1>3, <1>4, <1>5, <2>1 DEF Keyed
<1>7. \A j, k \in 1 .. n : m.e[j].first = m.e[k].first => j = k
  BY DEF Sound, Distinct, n
<1>8. Distinct(l)
  <2>1. ASSUME NEW j \in 1 .. (n - 1), NEW k \in 1 .. (n - 1), l.e[j].first = l.e[k].first
        PROVE  j = k
    <3>1. m.e[of(j)].first = m.e[of(k)].first /\ of(j) \in 1 .. n /\ of(k) \in 1 .. n
      BY <1>4, <1>5, <2>1
    <3>2. of(j) = of(k)
      BY <1>7, <3>1
    <3> QED
      BY <1>4, <3>2
  <2> QED
    BY <1>3, <2>1 DEF Distinct
<1>9. ASSUME NEW k \in Key
      PROVE  ValueOf(l, k) = IF k = m.e[i].first THEN {} ELSE ValueOf(m, k)
  <2>1. ValueOf(m, k) = {m.e[j].second : j \in {j \in 1 .. n : m.e[j].first = k}}
    BY DEF ValueOf, n
  <2>2. ValueOf(l, k) = {l.e[j].second : j \in {j \in 1 .. (n - 1) : l.e[j].first = k}}
    BY <1>3 DEF ValueOf
  <2>3. i \in 1 .. n
    BY DEF n
  <2>4. CASE k = m.e[i].first
    <3>1. \A j \in 1 .. (n - 1) : l.e[j].first # k
      BY <1>4, <1>5, <1>7, <2>3, <2>4
    <3> QED
      BY <2>2, <2>4, <3>1
  <2>5. CASE k # m.e[i].first
    <3>1. ASSUME NEW v \in ValueOf(l, k)  PROVE v \in ValueOf(m, k)
      <4>1. PICK j \in 1 .. (n - 1) : l.e[j].first = k /\ v = l.e[j].second
        BY <2>2, <3>1
      <4>2. of(j) \in 1 .. n /\ m.e[of(j)].first = k /\ v = m.e[of(j)].second
        BY <1>4, <1>5, <4>1
      <4> QED
        BY <2>1, <4>2
    <3>2. ASSUME NEW v \in ValueOf(m, k)  PROVE v \in ValueOf(l, k)
      <4>1. PICK j \in 1 .. n : m.e[j].first = k /\ v = m.e[j].second
        BY <2>1, <3>2
      <4>2. PICK p \in 1 .. (n - 1) : of(p) = j
        BY <1>4, <2>5, <4>1
      <4>3. l.e[p].first = k /\ l.e[p].second = v
        BY <1>5, <4>1, <4>2
      <4> QED
        BY <2>2, <4>3
    <3> QED
      BY <2>5, <3>1, <3>2
  <2> QED
    BY <2>4, <2>5
<1> QED
  BY <1>2, <1>3, <1>6, <1>8, <1>9 DEF Sound, l

(* A key that is assigned another value has it, the others keep theirs.    *)
LEMMA AssignedSound ==
  ASSUME NEW m, NEW N, Sound(m, N), NEW i \in 1 .. Len(m.e), NEW v \in MapVal
  PROVE  /\ Sound(Assigned(m, i, v), N)
         /\ \A k \in Key :
              ValueOf(Assigned(m, i, v), k) = IF k = m.e[i].first THEN {v} ELSE ValueOf(m, k)
<1> DEFINE n == Len(m.e)
           l == Assigned(m, i, v)
<1>1. MapLinked(l, N, 1 .. n) /\ Assigns(l, m, i, v)
  BY AssignedLinked DEF Sound
<1> HIDE DEF l
<1>2. /\ MapLinked(l, N, 1 .. n) /\ Len(l.e) = n /\ l.e[i].second = v
      /\ \A j \in 1 .. n : /\ l.e[j].first = m.e[j].first /\ l.e[j].hash = m.e[j].hash
                           /\ j # i => l.e[j].second = m.e[j].second
  BY <1>1 DEF Assigns
<1> HIDE DEF n
<1>3. /\ \A j \in 1 .. n : m.e[j].hash = Hash[m.e[j].first]
      /\ \A j, k \in 1 .. n : m.e[j].first = m.e[k].first => j = k
      /\ i \in 1 .. n
  BY DEF Sound, Keyed, Distinct, n
<1>4. Sound(l, N)
  BY <1>2, <1>3 DEF Sound, Keyed, Distinct
<1>5. ASSUME NEW k \in Key
      PROVE  ValueOf(l, k) = IF k = m.e[i].first THEN {v} ELSE ValueOf(m, k)
  <2>1. ValueOf(m, k) = {m.e[j].second : j \in {j \in 1 .. n : m.e[j].first = k}}
    BY DEF ValueOf, n
  <2>2. ValueOf(l, k) = {l.e[j].second : j \in {j \in 1 .. n : l.e[j].first = k}}
    BY <1>2 DEF ValueOf
  <2>3. CASE k = m.e[i].first
    <3>1. \A j \in 1 .. n : l.e[j].first = k <=> j = i
      BY <1>2, <1>3, <2>3
    <3> QED
      BY <1>2, <1>3, <2>2, <2>3, <3>1
  <2>4. CASE k # m.e[i].first
    <3>1. \A j \in 1 .. n : l.e[j].first = k <=> m.e[j].first = k /\ j # i
      BY <1>2, <1>3, <2>4
    <3>2. \A j \in 1 .. n : m.e[j].first = k => l.e[j].second = m.e[j].second /\ l.e[j].first = k
      BY <1>2, <2>4
    <3> HIDE DEF n
    <3> QED
      BY <2>1, <2>2, <2>4, <3>1, <3>2
  <2> QED
    BY <2>3, <2>4
<1> QED
  BY <1>4, <1>5 DEF l

-----------------------------------------------------------------------------
(* The invariant: the map was moved from and has no table, or all its      *)
(* entries are linked.                                                     *)
Bare(m) == m.e = << >> /\ m.h = Map!EmptyTable(0)

WellFormed(m) == Bare(m) \/ \E N : Sound(m, N)

MapInv == WellFormed(Map!Now)

(* A map without entries.                                                  *)
LEMMA EmptySound ==
  ASSUME NEW N \in Nat, N # 0, NEW m, m = [e |-> << >>, h |-> Map!EmptyTable(N)]
  PROVE  Sound(m, N)
<1>1. Map!EmptyTable(N) \in [0 .. (N - 1) -> Int]
  BY DEF Map!EmptyTable, Map!NIL
<1>2. << >> \in Seq(Entries) /\ Len(<< >>) = 0 /\ 1 .. 0 = {}
  OBVIOUS
<1>3. MapOf(m, N) /\ m.h = Map!EmptyTable(N) /\ Len(m.e) = 0
  BY <1>1, <1>2 DEF MapOf
<1>4. MapLinked(m, N, {})
  BY <1>3, EmptyLinked
<1> QED
  BY <1>2, <1>3, <1>4 DEF Sound, Keyed, Distinct

(* A map that was moved from has no slot, another one has.                 *)
LEMMA SizeTrue ==
  ASSUME NEW m
  PROVE  /\ Bare(m) => Map!Size(m.h) = 0
         /\ \A N : Sound(m, N) => Map!Size(m.h) # 0
<1>1. ASSUME Bare(m)  PROVE Map!Size(m.h) = 0
  <2>1. DOMAIN m.h = {}
    BY <1>1 DEF Bare, Map!EmptyTable
  <2> QED
    BY <2>1, FS_EmptySet DEF Map!Size, Map!Cardinality, Cardinality
<1>2. ASSUME NEW N, Sound(m, N)  PROVE Map!Size(m.h) # 0
  <2>1. N \in Nat /\ N # 0 /\ DOMAIN m.h = 0 .. (N - 1)
    BY <1>2 DEF Sound, MapLinked, MapOf
  <2>2. Map!Size(m.h) = N
    BY <2>1, SlotTrue
  <2> QED
    BY <2>1, <2>2
<1> QED
  BY <1>1, <1>2

(* The entry that find() finds has the value of the key.                   *)
LEMMA FoundValue ==
  ASSUME NEW m, NEW N, Sound(m, N), NEW key \in Key
  PROVE  LET i == Map!Find(m, key) IN
         /\ Finds(m, key, i)
         /\ i = -1 => ValueOf(m, key) = {}
         /\ i # -1 => i \in 1 .. Len(m.e) /\ m.e[i].first = key /\ ValueOf(m, key) = {m.e[i].second}
<1> DEFINE i == Map!Find(m, key)
<1>1. Finds(m, key, i)
  BY FindTrue DEF Sound
<1> HIDE DEF i
<1>2. Len(m.e) \in Nat
  <2>1. MapOf(m, N)
    BY DEF Sound, MapLinked
  <2> QED
    BY <2>1, MapTables
<1>3. i = -1 => ValueOf(m, key) = {}
  BY <1>1, <1>2 DEF Finds, ValueOf
<1>4. i # -1 => i \in 1 .. Len(m.e) /\ m.e[i].first = key
  BY <1>1 DEF Finds
<1>5. i # -1 => ValueOf(m, key) = {m.e[i].second}
  BY <1>4 DEF ValueOf, Sound, Distinct
<1> QED
  BY <1>1, <1>3, <1>4, <1>5 DEF i

(* What the program sees of a map is the values of the keys.               *)
ValuesOf(m) == [key \in Key |-> ValueOf(m, key)]

LEMMA SeenTrue ==
  ASSUME MapInv
  PROVE  Map!Seen = ValuesOf(Map!Now)
<1> DEFINE m == Map!Now
<1>1. m.e = entries_ /\ m.h = hash_table_
  BY DEF Map!Now
<1> HIDE DEF m
<1>2. ASSUME NEW key \in Key
      PROVE  ValueOf(m, key) = IF Map!Size(m.h) = 0 THEN {}
                               ELSE IF Map!Find(m, key) = -1 THEN {}
                               ELSE {m.e[Map!Find(m, key)].second}
  <2>1. CASE Bare(m)
    <3>1. 1 .. Len(m.e) = {}
      BY <2>1 DEF Bare
    <3> QED
      BY <2>1, <3>1, SizeTrue DEF ValueOf
  <2>2. ASSUME NEW N, Sound(m, N)
        PROVE  ValueOf(m, key) = IF Map!Size(m.h) = 0 THEN {}
                                 ELSE IF Map!Find(m, key) = -1 THEN {}
                                 ELSE {m.e[Map!Find(m, key)].second}
    BY <2>2, SizeTrue, FoundValue
  <2> QED
    BY <2>1, <2>2 DEF MapInv, WellFormed, m
<1>3. Map!Seen = [key \in Key |-> IF Map!Size(m.h) = 0 THEN {}
                                  ELSE IF Map!Find(m, key) = -1 THEN {}
                                  ELSE {m.e[Map!Find(m, key)].second}]
  BY <1>1 DEF Map!Seen, Map!NIL, m
<1> QED
  BY <1>2, <1>3 DEF ValuesOf, m

-----------------------------------------------------------------------------
(* Steps of the map.                                                       *)
LEMMA SeenValues == MapInv => Map!Seen = ValuesOf(Map!Now)
BY SeenTrue

(* The map becomes l.                                                      *)
LEMMA Became ==
  ASSUME NEW l, WellFormed(l), Map!Become(l), l = [e |-> l.e, h |-> l.h]
  PROVE  MapInv' /\ Map!Seen' = ValuesOf(l)
<1>1. Map!Now' = l
  BY DEF Map!Become, Map!Now
<1>2. MapInv'
  BY <1>1 DEF MapInv
<1>3. (MapInv => Map!Seen = ValuesOf(Map!Now))'
  BY SeenValues, PTL
<1>4. Map!Seen' = ValuesOf(l)
  BY <1>1, <1>2, <1>3 DEF ValuesOf
<1> QED
  BY <1>2, <1>4

(* The map becomes l, in which a key has other values.                     *)
LEMMA Changed ==
  ASSUME MapInv, NEW m, m = Map!Now, NEW l, NEW M, Sound(l, M), Map!Become(l),
         NEW key \in Key, NEW X,
         \A k \in Key : ValueOf(l, k) = IF k = key THEN X ELSE ValueOf(m, k)
  PROVE  MapInv' /\ Map!Seen' = [Map!Seen EXCEPT ![key] = X]
<1>1. l = [e |-> l.e, h |-> l.h]
  BY DEF Sound, MapLinked, MapOf
<1>2. WellFormed(l)
  BY DEF WellFormed
<1>3. MapInv' /\ Map!Seen' = ValuesOf(l)
  BY <1>1, <1>2, Became
<1>4. Map!Seen = ValuesOf(m)
  BY SeenTrue
<1> QED
  BY <1>3, <1>4 DEF ValuesOf

(* The values that operator[] leaves a key.                                *)
LEMMA IndexTrue ==
  ASSUME MapInv, NEW key \in Key, NEW v \in MapVal, NEW store,
         (store = {} /\ v = MapDefault) \/ store = {v},
         Map!Index(key, store), Map!Size(hash_table_) # 0
  PROVE  MapInv' /\ Map!Seen' = [Map!Seen EXCEPT ![key] =
                                   IF store = {} /\ Map!Seen[key] # {} THEN @ ELSE {v}]
<1>1. PICK m : m = Map!Now
  OBVIOUS
<1>2. m.e = entries_ /\ m.h = hash_table_
  BY <1>1 DEF Map!Now
<1>3. PICK N : Sound(m, N)
  BY <1>1, <1>2, SizeTrue DEF MapInv, WellFormed
<1>4. PICK i : i = Map!Find(m, key)
  OBVIOUS
<1>5. /\ Finds(m, key, i)
      /\ i = -1 => ValueOf(m, key) = {}
      /\ i # -1 => i \in 1 .. Len(m.e) /\ m.e[i].first = key /\ ValueOf(m, key) = {m.e[i].second}
  BY <1>3, <1>4, FoundValue
<1>6. Map!Seen = ValuesOf(m) /\ Map!Seen[key] = ValueOf(m, key)
  BY <1>1, SeenTrue DEF ValuesOf
<1>7. store # {} => (CHOOSE x \in store : TRUE) = v
  OBVIOUS
<1>8. CASE i # -1
  <2>1. PICK w : w = IF store = {} THEN m.e[i].second ELSE v
    OBVIOUS
  <2>2. w \in MapVal
    <3>1. MapOf(m, N) /\ i \in 1 .. Len(m.e)
      BY <1>3, <1>5, <1>8 DEF Sound, MapLinked
    <3> QED
      BY <2>1, <3>1, MapTables
  <2>3. PICK l : l = Assigned(m, i, w)
    OBVIOUS
  <2>4. Map!Become(l)
    <3>1. Map!Become([m EXCEPT !.e[i].second = IF store = {} THEN @ ELSE CHOOSE x \in store : TRUE])
      BY <1>1, <1>4, <1>8 DEF Map!Index, Map!NIL
    <3>2. [m EXCEPT !.e[i].second = IF store = {} THEN @ ELSE CHOOSE x \in store : TRUE] = l
      BY <1>7, <2>1, <2>3 DEF Assigned
    <3> QED
      BY <3>1, <3>2
  <2>5. /\ Sound(l, N)
        /\ \A k \in Key : ValueOf(l, k) = IF k = m.e[i].first THEN {w} ELSE ValueOf(m, k)
    BY <1>3, <1>5, <1>8, <2>2, <2>3, AssignedSound
  <2>6. \A k \in Key : ValueOf(l, k) = IF k = key THEN {w} ELSE ValueOf(m, k)
    BY <1>5, <1>8, <2>5
  <2>7. MapInv' /\ Map!Seen' = [Map!Seen EXCEPT ![key] = {w}]
    <3> DEFINE X == {w}
    <3> HIDE DEF X
    <3>1. \A k \in Key : ValueOf(l, k) = IF k = key THEN X ELSE ValueOf(m, k)
      BY <2>6 DEF X
    <3>2. MapInv' /\ Map!Seen' = [Map!Seen EXCEPT ![key] = X]
      BY <1>1, <2>4, <2>5, <3>1, Changed
    <3> QED
      BY <3>2 DEF X
  <2>8. {w} = IF store = {} /\ Map!Seen[key] # {} THEN Map!Seen[key] ELSE {v}
    BY <1>5, <1>6, <1>8, <2>1
  <2> QED
    BY <2>7, <2>8
<1>9. CASE i = -1
  <2>1. (IF store = {} THEN MapDefault ELSE CHOOSE x \in store : TRUE) = v
    BY <1>7
  <2>2. PICK l : l = Map!Added(m, key, v)
    OBVIOUS
  <2>3. Map!Become(l)
    BY <1>1, <1>4, <1>9, <2>1, <2>2 DEF Map!Index, Map!NIL
  <2>4. /\ \E M : Sound(l, M)
        /\ \A k \in Key : ValueOf(l, k) = IF k = key THEN {v} ELSE ValueOf(m, k)
    <3>1. Finds(m, key, -1)
      BY <1>5, <1>9
    <3> QED
      BY <1>3, <2>2, <3>1, AddedSound
  <2>5. PICK M : Sound(l, M)
    BY <2>4
  <2>6. MapInv' /\ Map!Seen' = [Map!Seen EXCEPT ![key] = {v}]
    <3> DEFINE X == {v}
    <3> HIDE DEF X
    <3>1. \A k \in Key : ValueOf(l, k) = IF k = key THEN X ELSE ValueOf(m, k)
      BY <2>4 DEF X
    <3>2. MapInv' /\ Map!Seen' = [Map!Seen EXCEPT ![key] = X]
      BY <1>1, <2>3, <2>5, <3>1, Changed
    <3> QED
      BY <3>2 DEF X
  <2> QED
    BY <1>5, <1>6, <1>9, <2>6
<1> QED
  BY <1>8, <1>9

(* erase() leaves the key no value.                                        *)
LEMMA MapEraseTrue ==
  ASSUME MapInv, NEW key \in Key, Map!Erase(key)
  PROVE  \/ UNCHANGED mapVars
         \/ MapInv' /\ Map!Seen' = [Map!Seen EXCEPT ![key] = {}]
<1> SUFFICES ASSUME ~UNCHANGED mapVars
             PROVE  MapInv' /\ Map!Seen' = [Map!Seen EXCEPT ![key] = {}]
  OBVIOUS
<1>1. PICK m : m = Map!Now
  OBVIOUS
<1>2. m.e = entries_ /\ m.h = hash_table_
  BY <1>1 DEF Map!Now
<1>3. PICK i : i = Map!Find(m, key)
  OBVIOUS
<1>4. entries_ # << >> /\ i # -1 /\ Map!Become(Map!Erased(m, i))
  BY <1>1, <1>3 DEF Map!Erase, Map!NIL, Map!vars, mapVars
<1>5. PICK N : Sound(m, N)
  BY <1>1, <1>2, <1>4 DEF MapInv, WellFormed, Bare
<1>6. i \in 1 .. Len(m.e) /\ m.e[i].first = key
  BY <1>3, <1>4, <1>5, FoundValue
<1>7. PICK l : l = Map!Erased(m, i)
  OBVIOUS
<1>8. /\ Sound(l, N)
      /\ \A k \in Key : ValueOf(l, k) = IF k = m.e[i].first THEN {} ELSE ValueOf(m, k)
  BY <1>5, <1>6, <1>7, ErasedSound
<1> DEFINE X == {}
<1>9. \A k \in Key : ValueOf(l, k) = IF k = key THEN X ELSE ValueOf(m, k)
  BY <1>6, <1>8
<1>10. Map!Become(l)
  BY <1>4, <1>7
<1> HIDE DEF X
<1>11. MapInv' /\ Map!Seen' = [Map!Seen EXCEPT ![key] = X]
  BY <1>1, <1>8, <1>9, <1>10, Changed
<1> QED
  BY <1>11 DEF X

(* A map that is assigned to has no keys.                                  *)
LEMMA ClearTrue ==
  ASSUME Map!MovedFrom \/ Map!MovedInto
  PROVE  MapInv' /\ Map!Seen' = Map!Abstract!Empty
<1>1. ASSUME NEW l, WellFormed(l), l = [e |-> l.e, h |-> l.h], l.e = << >>, Map!Become(l)
      PROVE  MapInv' /\ Map!Seen' = Map!Abstract!Empty
  <2>1. MapInv' /\ Map!Seen' = ValuesOf(l)
    BY <1>1, Became
  <2>2. \A k \in Key : ValueOf(l, k) = {}
    BY <1>1 DEF ValueOf
  <2> QED
    BY <2>1, <2>2 DEF ValuesOf, Map!Abstract!Empty
<1>2. CASE Map!MovedFrom
  <2>1. PICK l : l = [e |-> << >>, h |-> Map!EmptyTable(0)]
    OBVIOUS
  <2>2. WellFormed(l) /\ l = [e |-> l.e, h |-> l.h] /\ l.e = << >>
    BY <2>1 DEF WellFormed, Bare
  <2>3. Map!Become(l)
    BY <1>2, <2>1 DEF Map!MovedFrom
  <2> QED
    BY <1>1, <2>2, <2>3
<1>3. CASE Map!MovedInto
  <2>1. PICK l : l = [e |-> << >>, h |-> Map!EmptyTable(InitialSize)]
    OBVIOUS
  <2>2. InitialSize \in Nat /\ InitialSize # 0
    BY ContainersAssumption DEF Map!UnorderedMapAssumption
  <2>3. Sound(l, InitialSize)
    BY <2>1, <2>2, EmptySound
  <2>4. WellFormed(l) /\ l = [e |-> l.e, h |-> l.h] /\ l.e = << >>
    BY <2>1, <2>3 DEF WellFormed
  <2>5. Map!Become(l)
    BY <1>3, <2>1 DEF Map!MovedInto
  <2> QED
    BY <1>1, <2>4, <2>5
<1> QED
  BY <1>2, <1>3

(* Steps that leave the map's vectors alone.                               *)
LEMMA MapUnchanged ==
  ASSUME MapInv, UNCHANGED <<entries_, hash_table_>>
  PROVE  MapInv' /\ Map!Seen' = Map!Seen
<1>1. Map!Now' = Map!Now
  BY DEF Map!Now
<1>2. MapInv'
  BY <1>1 DEF MapInv
<1>3. (MapInv => Map!Seen = ValuesOf(Map!Now))'
  BY SeenValues, PTL
<1>4. Map!Seen' = Map!Seen
  BY <1>1, <1>2, <1>3, SeenTrue DEF ValuesOf
<1> QED
  BY <1>2, <1>4

(* Every step keeps the invariant and is one of FiniteMap.                 *)
LEMMA MapStepTrue ==
  ASSUME MapInv, Map!Next
  PROVE  MapInv' /\ (Map!Abstract!Next \/ Map!Seen' = Map!Seen)
<1> DEFINE Goal == MapInv' /\ (Map!Abstract!Next \/ Map!Seen' = Map!Seen)
<1>1. UNCHANGED <<entries_, hash_table_>> => Goal
  BY MapUnchanged
<1>2. \A k \in Key : Map!Seen[k] = IF Map!Seen[k] = {} THEN {} ELSE Map!Seen[k]
  OBVIOUS
<1>3. MapDefault \in MapVal
  BY ContainersAssumption DEF Map!UnorderedMapAssumption
<1>4. ASSUME NEW key \in Key, Map!Index(key, {})  PROVE Goal
  <2>1. CASE Map!Size(hash_table_) = 0
    BY <1>1, <1>4, <2>1 DEF Map!Index, Map!Abort
  <2>2. CASE Map!Size(hash_table_) # 0
    <3>1. PICK store : store = {}
      OBVIOUS
    <3>2. PICK v \in MapVal : v = MapDefault
      BY <1>3
    <3>3. Map!Index(key, store)
      BY <1>4, <3>1
    <3>4. (store = {} /\ v = MapDefault) \/ store = {v}
      BY <3>1, <3>2
    <3>5. MapInv' /\ Map!Seen' = [Map!Seen EXCEPT ![key] =
                                    IF store = {} /\ Map!Seen[key] # {} THEN @ ELSE {v}]
      BY <2>2, <3>3, <3>4, IndexTrue
    <3>6. Map!Seen' = [Map!Seen EXCEPT ![key] = IF @ = {} THEN {MapDefault} ELSE @]
      BY <3>1, <3>2, <3>5
    <3>7. Map!Abstract!Get(key)
      BY <3>6 DEF Map!Abstract!Get
    <3> QED
      BY <3>5, <3>7 DEF Map!Abstract!Next
  <2> QED
    BY <2>1, <2>2
<1>5. ASSUME NEW key \in Key, NEW v \in MapVal, Map!Index(key, {v})  PROVE Goal
  <2>1. CASE Map!Size(hash_table_) = 0
    BY <1>1, <1>5, <2>1 DEF Map!Index, Map!Abort
  <2>2. CASE Map!Size(hash_table_) # 0
    <3>1. PICK store : store = {v}
      OBVIOUS
    <3>2. Map!Index(key, store)
      BY <1>5, <3>1
    <3>3. (store = {} /\ v = MapDefault) \/ store = {v}
      BY <3>1
    <3>4. MapInv' /\ Map!Seen' = [Map!Seen EXCEPT ![key] =
                                    IF store = {} /\ Map!Seen[key] # {} THEN @ ELSE {v}]
      BY <2>2, <3>2, <3>3, IndexTrue
    <3>5. Map!Seen' = [Map!Seen EXCEPT ![key] = {v}]
      BY <3>1, <3>4
    <3>6. Map!Abstract!Put(key, v)
      BY <3>5 DEF Map!Abstract!Put
    <3> QED
      BY <3>4, <3>6 DEF Map!Abstract!Next
  <2> QED
    BY <2>1, <2>2
<1>6. ASSUME NEW key \in Key, Map!Erase(key)  PROVE Goal
  <2>1. CASE UNCHANGED mapVars
    BY <1>1, <2>1 DEF mapVars
  <2>2. CASE MapInv' /\ Map!Seen' = [Map!Seen EXCEPT ![key] = {}]
    <3>1. Map!Abstract!Erase(key)
      BY <2>2 DEF Map!Abstract!Erase
    <3> QED
      BY <2>2, <3>1 DEF Map!Abstract!Next
  <2> QED
    BY <1>6, <2>1, <2>2, MapEraseTrue
<1>7. ASSUME NEW key \in Key, Map!FindCalled(key)  PROVE Goal
  BY <1>1, <1>7 DEF Map!FindCalled, Map!Abort, Map!vars
<1>8. ASSUME Map!MovedFrom \/ Map!MovedInto  PROVE Goal
  <2>1. MapInv' /\ Map!Seen' = Map!Abstract!Empty
    BY <1>8, ClearTrue
  <2>2. Map!Abstract!Clear
    BY <2>1 DEF Map!Abstract!Clear
  <2> QED
    BY <2>1, <2>2 DEF Map!Abstract!Next
<1> HIDE DEF Goal
<1>9. Goal
  BY <1>4, <1>5, <1>6, <1>7, <1>8 DEF Map!Next
<1> QED
  BY <1>9 DEF Goal

(* The map is well-formed in every state.                                  *)
LEMMA MapInit == Map!Init => MapInv /\ Map!Seen = Map!Abstract!Empty
<1> SUFFICES ASSUME Map!Init PROVE MapInv /\ Map!Seen = Map!Abstract!Empty
  OBVIOUS
<1>1. PICK m : m = Map!Now
  OBVIOUS
<1>2. m = [e |-> << >>, h |-> Map!EmptyTable(InitialSize)]
  BY <1>1 DEF Map!Init, Map!Now
<1>3. InitialSize \in Nat /\ InitialSize # 0
  BY ContainersAssumption DEF Map!UnorderedMapAssumption
<1>4. Sound(m, InitialSize)
  BY <1>2, <1>3, EmptySound
<1>5. MapInv
  BY <1>1, <1>4 DEF MapInv, WellFormed
<1>6. Map!Seen = ValuesOf(m)
  BY <1>1, <1>5, SeenTrue
<1>7. \A k \in Key : ValueOf(m, k) = {}
  BY <1>2 DEF ValueOf
<1> QED
  BY <1>5, <1>6, <1>7 DEF ValuesOf, Map!Abstract!Empty

LEMMA MapInvariant == Spec => []MapInv
<1>1. Init => MapInv
  BY MapInit DEF Init
<1>2. MapInv /\ [Next]_vars => MapInv'
  <2> SUFFICES ASSUME MapInv, [Next]_vars PROVE MapInv'
    OBVIOUS
  <2>1. CASE MapStep
    BY <2>1, MapStepTrue DEF MapStep
  <2>2. CASE UNCHANGED mapVars
    BY <2>2, MapUnchanged DEF mapVars
  <2> QED
    BY <2>1, <2>2 DEF Next, vars, VectorStep, StringStep, PointerStep
<1> QED
  BY <1>1, <1>2, PTL DEF Spec

-----------------------------------------------------------------------------
(* The theorems.                                                           *)

(* unordered_map: in every state, the chains of the hash table's slots     *)
(* partition the entries by hash, and every index that is stored is that   *)
(* of an entry: EntryFromIndex never leaves the vector, and find() ends.   *)
THEOREM ChainsTrue == Spec => []ChainsPartition
<1>1. MapInv => ChainsPartition
  <2> SUFFICES ASSUME MapInv PROVE Map!ChainsPartition
    BY DEF ChainsPartition
  <2>1. PICK m : m = Map!Now
    OBVIOUS
  <2>2. m.e = entries_ /\ m.h = hash_table_
    BY <2>1 DEF Map!Now
  <2>3. CASE Bare(m)
    <3>1. DOMAIN entries_ = {} /\ DOMAIN hash_table_ = {}
      BY <2>2, <2>3 DEF Bare, Map!EmptyTable
    <3> QED
      BY <3>1 DEF Map!ChainsPartition
  <2>4. ASSUME NEW N, Sound(m, N)  PROVE Map!ChainsPartition
    <3> DEFINE n == Len(m.e)
               nx == Nexts(m)
               sl == Slots(m)
               h == m.h
               S == 1 .. n
    <3>1. PICK d : Chained(n, N, nx, sl, h, S, d) /\ Ranked(m, N, S, d)
      BY <2>4 DEF Sound, MapLinked, Ranked
    <3>2. DOMAIN m.e = S /\ n \in Nat /\ DOMAIN h = 0 .. (N - 1)
      <4>1. MapOf(m, N)
        BY <2>4 DEF Sound, MapLinked
      <4>2. m.e \in Seq(Entries) /\ h \in [0 .. (N - 1) -> Int]
        BY <4>1 DEF MapOf
      <4> QED
        BY <4>2
    <3>3. \A i \in S : m.e[i].next \in S \cup {-1}
      BY <3>1 DEF Chained, Linked, Follows, Nexts
    <3>4. \A s \in DOMAIN h : h[s] \in S \cup {-1}
      BY <3>1 DEF Chained, Linked, Heads
    <3>5. ASSUME NEW s \in DOMAIN h
          PROVE  LET c == Map!Chain(m, h[s]) IN
                 /\ Map!Last(c) = -1
                 /\ Map!ToSet(Map!Front(c)) = {i \in S : sl[i] = s}
      <4> DEFINE a == h[s]
                 c == Map!Chain(m, a)
      <4>1. a \in S \cup {-1}
        BY <3>4
      <4>2. c \in Walks(S, nx, a) /\ Ended(c)
        <5> HIDE DEF a, S
        <5>1. Ranked(m, N, S, d)
          BY <3>1
        <5>2. /\ Map!Chain(m, a) \in Walks(S, Nexts(m), a)
              /\ Ended(Map!Chain(m, a)) /\ Within(Map!Chain(m, a), Len(m.e))
          BY <4>1, <5>1, ChainTrue
        <5> QED
          BY <5>2
      <4> HIDE DEF c, S, h, n, nx, sl
      <4>3. /\ c \in Seq(Int) /\ Len(c) \in Nat /\ Len(c) > 0 /\ c[Len(c)] = -1
            /\ \A k \in 1 .. (Len(c) - 1) : c[k] \in S
        BY <4>2 DEF Walks, Ended
      <4>4. ASSUME NEW k \in 1 .. (Len(c) - 1)  PROVE c[k] \in S /\ sl[c[k]] = s
        <5>1. k \in 1 .. Len(c) /\ c[k] \in S /\ c[k] # -1
          <6>1. \A j \in S : j # -1
            BY <3>1, ChainedNumbers
          <6> QED
            BY <4>3, <6>1
        <5>2. s \in 0 .. (N - 1)
          BY <3>2
        <5>3. c \in Walks(S, nx, h[s])
          BY <4>2 DEF a
        <5>4. \A j \in 1 .. Len(c) : c[j] # -1 => c[j] \in S /\ sl[c[j]] = s
          BY <3>1, <5>2, <5>3, WalkInSlot
        <5> QED
          BY <5>1, <5>4
      <4>5. ASSUME NEW i \in S, sl[i] = s  PROVE \E k \in 1 .. (Len(c) - 1) : c[k] = i
        <5>1. InSlot(sl, i, s) /\ c \in Walks(S, nx, h[s])
          BY <4>2, <4>5 DEF InSlot, a
        <5>2. Passes(c, i)
          BY <3>1, <4>2, <5>1, WalkCovers
        <5> QED
          BY <5>2 DEF Passes
      <4> DEFINE f == SubSeq(c, 1, Len(c) - 1)
      <4>6. Map!Front(c) = f /\ Map!Last(c) = -1
        BY <4>3 DEF Map!Front, Map!Last
      <4>7. f \in Seq(Int) /\ Len(f) = Len(c) - 1 /\ \A k \in 1 .. (Len(c) - 1) : f[k] = c[k]
        <5> DEFINE p == Len(c) - 1
        <5>1. p \in Nat /\ 1 \in Int /\ p \in Int /\ p + 1 = Len(c)
          BY <4>3
        <5>2. \A k \in 1 .. p : c[k] \in Int
          BY <4>3
        <5> HIDE DEF p
        <5>3. /\ SubSeq(c, 1, p) \in Seq(Int)
              /\ Len(SubSeq(c, 1, p)) = IF 1 <= p THEN p - 1 + 1 ELSE 0
              /\ \A k \in 1 .. (p - 1 + 1) : SubSeq(c, 1, p)[k] = c[1 + k - 1]
          BY <5>1, <5>2, SubSeqProperties
        <5>4. Len(SubSeq(c, 1, p)) = p
          BY <5>1, <5>3
        <5>5. \A k \in 1 .. p : SubSeq(c, 1, p)[k] = c[k]
          BY <5>1, <5>3
        <5> QED
          BY <5>3, <5>4, <5>5 DEF p
      <4> HIDE DEF f
      <4>8. Map!ToSet(f) = {c[k] : k \in 1 .. (Len(c) - 1)}
        BY <4>7 DEF Map!ToSet
      <4>9. {c[k] : k \in 1 .. (Len(c) - 1)} = {i \in S : sl[i] = s}
        BY <4>4, <4>5
      <4> QED
        BY <4>6, <4>8, <4>9 DEF c, a
    <3>6. \A i \in S : sl[i] = Map!Slot(h, m.e[i].hash)
      BY DEF Slots
    <3>7. Map!NIL = -1
      BY DEF Map!NIL
    <3> HIDE DEF S, sl, n, nx
    <3>8. \A s \in DOMAIN h :
            LET c == Map!Chain(m, h[s]) IN
            /\ Map!Last(c) = Map!NIL
            /\ Map!ToSet(Map!Front(c)) = {i \in S : Map!Slot(h, m.e[i].hash) = s}
      BY <3>5, <3>6, <3>7
    <3> QED
      BY <2>1, <2>2, <3>2, <3>3, <3>4, <3>7, <3>8 DEF Map!ChainsPartition
  <2> QED
    BY <2>1, <2>3, <2>4 DEF MapInv, WellFormed
<1> QED
  BY <1>1, MapInvariant, PTL

MapSeen == Map!Seen

(* unordered_map implements a finite map: through any sequence of          *)
(* collisions, expansions, erasures and moves, no operation on one key     *)
(* loses, revives or changes another.                                      *)
THEOREM MapImplemented == Spec => ImplementsMap
<1>1. Init => Map!Abstract!Init
  BY MapInit DEF Init, Map!Abstract!Init
<1>2. MapInv /\ [Next]_vars => [Map!Abstract!Next]_MapSeen
  <2> SUFFICES ASSUME MapInv, [Next]_vars
               PROVE  Map!Abstract!Next \/ UNCHANGED MapSeen
    OBVIOUS
  <2>1. CASE MapStep
    BY <2>1, MapStepTrue DEF MapStep, MapSeen
  <2>2. CASE UNCHANGED mapVars
    BY <2>2, MapUnchanged DEF mapVars, MapSeen
  <2> QED
    BY <2>1, <2>2 DEF Next, vars, VectorStep, StringStep, PointerStep
<1> QED
  BY <1>1, <1>2, MapInvariant, PTL
     DEF Spec, ImplementsMap, Map!ImplementsMap, Map!Abstract!Spec, MapSeen
=============================================================================
