------------------------------- MODULE Vector -------------------------------
(***************************************************************************)
(* cxx/include/vector: vectors that own a buffer made by new T[] and       *)
(* replace it by a larger one when they outgrow it.  The buffers are       *)
(* modelled with all their slots, so that what a slot behind the last item *)
(* still holds, and which vector owns which buffer, can be seen.           *)
(***************************************************************************)
EXTENDS Integers, Sequences

CONSTANTS
  Vec,       \* the program's vectors
  Buffer,    \* the addresses new T[] may return
  NULL,
  Vals,      \* the values the program stores
  Default,   \* T()
  Raw,       \* what a slot holds that was not written to
  Ranges,    \* what is inserted or constructed from: sequences of values
  SizeofT,   \* sizeof(T)
  MaxItems   \* bound on the items of a vector

VectorAssumption ==
  /\ SizeofT \in Nat \ {0} /\ MaxItems \in Nat
  /\ NULL \notin Buffer /\ Ranges \subseteq Seq(Vals) \ {<< >>}

Elem == Vals \cup {Default, Raw}

VARIABLES
  vec,     \* the three members of each vector
  mem,     \* the buffers that are allocated: address -> slots
  wrong,   \* the kinds of access the last operation made to what is no buffer
  aborted  \* an assert() failed or abort() was called

vars == <<vec, mem, wrong, aborted>>

(* The methods are functions of the record m of the vectors, the buffers   *)
(* and the accesses outside of them: "read", "write" and "delete", and     *)
(* "argument" for a reference that was passed and outlived its buffer.     *)
Now == [vec |-> vec, mem |-> mem, wrong |-> {}]

Empty == [_data |-> NULL, _max_nitems |-> 0, _nitems |-> 0]

Slots(m, v) ==
  IF m.vec[v]._data \in DOMAIN m.mem THEN m.mem[m.vec[v]._data] ELSE << >>
Size(v) == vec[v]._nitems
Items(v) == SubSeq(Slots(Now, v), 1, Size(v))

Init ==
  /\ vec = [v \in Vec |-> Empty]
  /\ mem = << >>
  /\ wrong = {}
  /\ aborted = FALSE

(* The contents of a buffer that no vector points to are left out.         *)
Become(m) ==
  /\ vec' = m.vec
  /\ mem' = [b \in DOMAIN m.mem |->
               IF \E v \in Vec : m.vec[v]._data = b THEN m.mem[b] ELSE << >>]
  /\ wrong' = m.wrong
  /\ UNCHANGED aborted

Abort == aborted' = TRUE /\ wrong' = {} /\ UNCHANGED <<vec, mem>>

(* The n-th slot of v, or one before it, is accessed; its buffer is deleted. *)
Touching(m, kind, v, n) == IF n <= Len(Slots(m, v)) THEN {} ELSE {kind}
Deleting(m, v) == IF m.vec[v]._data \in DOMAIN m.mem \cup {NULL} THEN {} ELSE {"delete"}

Also(m, accesses) == [m EXCEPT !.wrong = @ \cup accesses]

Without(f, x) == [y \in DOMAIN f \ {x} |-> f[y]]
With(f, x, e) == [y \in DOMAIN f \cup {x} |-> IF y = x THEN e ELSE f[y]]

(* _reserve: 64 bytes, doubled until n items fit.                          *)
Grown(n) ==
  LET nbytes[k \in 0 .. n * SizeofT] == IF k = 0 THEN 64 ELSE 2 * nbytes[k - 1]
      fits(k) == nbytes[k] \div SizeofT >= n
      k == CHOOSE k \in 0 .. n * SizeofT : fits(k) /\ \A j \in 0 .. (k - 1) : ~fits(j)
  IN nbytes[k] \div SizeofT

ReservedKeepingOld(m, v, n, copy_only, new) ==
  IF n <= m.vec[v]._max_nitems THEN m
  ELSE LET g == Grown(n)
           old == Slots(m, v)
           slots == [i \in 1 .. g |-> IF i <= copy_only THEN old[i] ELSE Raw]
       IN [vec |-> [m.vec EXCEPT ![v]._data = new, ![v]._max_nitems = g],
           mem |-> With(m.mem, new, slots), wrong |-> m.wrong]

(* _reserve(n, copy_only), with new T[] returning new.                     *)
Reserved(m, v, n, copy_only, new) ==
  IF n <= m.vec[v]._max_nitems THEN m
  ELSE LET g == Grown(n)
           old == Slots(m, v)
           slots == [i \in 1 .. g |-> IF i <= copy_only THEN old[i] ELSE Raw]
       IN [vec |-> [m.vec EXCEPT ![v]._data = new, ![v]._max_nitems = g],
           mem |-> Without(With(m.mem, new, slots), m.vec[v]._data),
           wrong |-> m.wrong \cup Touching(m, "read", v, copy_only) \cup Deleting(m, v)]

(* s is stored from index i on, and the vector has n items then.           *)
Stored(m, v, i, s, n) ==
  LET old == Slots(m, v)
      slots == [j \in DOMAIN old |-> IF j \in i + 1 .. i + Len(s) THEN s[j - i] ELSE old[j]]
  IN [vec |-> [m.vec EXCEPT ![v]._nitems = n],
      mem |-> IF s = << >> THEN m.mem ELSE [m.mem EXCEPT ![m.vec[v]._data] = slots],
      wrong |-> m.wrong \cup IF s = << >> THEN {} ELSE Touching(m, "write", v, i + Len(s))]

(* What new T[] may return when v is to hold n items; NULL if not called.  *)
New(v, n) == IF n <= vec[v]._max_nitems THEN {NULL} ELSE Buffer \ DOMAIN mem

Reserve(v, n) == \E b \in New(v, n) : Become(Reserved(Now, v, n, Size(v), b))

Resized(v, n, b) ==
  Stored(Reserved(Now, v, n, Size(v), b), v, Size(v),
         [i \in 1 .. (n - Size(v)) |-> Default], n)

(* resize(), and clear() as resize(0).                                     *)
Resize(v, n) == \E b \in New(v, n) : Become(Resized(v, n, b))

(* vector(first, last), and the constructor of n items.                    *)
Construct(v, s) ==
  /\ vec[v] = Empty
  /\ \E b \in New(v, Len(s)) : Become(Stored(Resized(v, Len(s), b), v, 0, s, Len(s)))

Pushed(v, x, b) ==
  Stored(Reserved(Now, v, Size(v) + 1, Size(v), b), v, Size(v), <<x>>, Size(v) + 1)

PushBack(v, x) == Size(v) < MaxItems /\ \E b \in New(v, Size(v) + 1) : Become(Pushed(v, x, b))

(* What a reference to slot i of the buffer v began the operation with may *)
(* find in m, and the wrong access if _reserve has deleted that buffer.    *)
Referred(m, v, i) == IF vec[v]._data \in DOMAIN m.mem THEN {m.mem[vec[v]._data][i]} ELSE Elem
Referring(m, v) == IF vec[v]._data \in DOMAIN m.mem THEN {} ELSE {"argument"}

(* v.push_back(v[i]): the reference is read after _reserve.                *)
PushBackOwn(v, i) ==
  /\ Size(v) < MaxItems
  /\ \E b \in New(v, Size(v) + 1) :
       LET room == Reserved(Now, v, Size(v) + 1, Size(v), b) IN
       \E x \in Referred(room, v, i) :
         Become(Also(Pushed(v, x, b), Referring(room, v)))

PopBack(v) ==
  IF Size(v) = 0 THEN Abort
  ELSE Become(Stored(Now, v, Size(v) - 1, <<Default>>, Size(v) - 1))

(* erase() of the item of index i; an iterator may also point elsewhere.   *)
Erase(v, i) ==
  IF i \notin 0 .. (Size(v) - 1) THEN Abort
  ELSE LET released == [Items(v) EXCEPT ![i + 1] = Default] IN
       Become(Stored(Now, v, i, SubSeq(released, i + 2, Size(v))
                                  \o <<released[Size(v)]>>, Size(v) - 1))

InsertHoleUpward(m, v, i, n) ==
  Stored(m, v, i + n, [j \in 1 .. (Size(v) - i) |-> Slots(m, v)[i + 1 + ((j - 1) % n)]], Size(v) + n)

(* The items from index i on move n places up, last first.                 *)
InsertHole(m, v, i, n) ==
  Stored(m, v, i + n, [j \in 1 .. (Size(v) - i) |-> Slots(m, v)[i + j]], Size(v) + n)

(* insert() of s before index i: when the buffer is replaced, only the     *)
(* items up to i are taken along.                                          *)
Insert(v, i, s) ==
  IF i \notin 0 .. Size(v) THEN Abort
  ELSE /\ Size(v) + Len(s) <= MaxItems
       /\ \E b \in New(v, Size(v) + Len(s)) :
            LET room == Reserved(Now, v, Size(v) + Len(s), i, b)
                hole == InsertHole(room, v, i, Len(s))
            IN Become(Stored(hole, v, i, s, Size(v) + Len(s)))

(* v.insert(p, v[k]): the reference is read after _insert_hole, which has  *)
(* moved the items from index i on, if not the buffer.                     *)
InsertOwn(v, i, k) ==
  /\ Size(v) < MaxItems
  /\ \E b \in New(v, Size(v) + 1) :
       LET room == Reserved(Now, v, Size(v) + 1, i, b)
           hole == InsertHole(room, v, i, 1)
       IN \E x \in Referred(hole, v, k) :
            Become(Also(Stored(hole, v, i, <<x>>, Size(v) + 1), Referring(hole, v)))

(* v = w, and the copy constructor for an empty v.                         *)
CopyAssign(v, w) ==
  \E b \in New(v, Size(w)) :
    LET room == Reserved(Now, v, Size(w), 0, b) IN
    Become(Also(Stored(room, v, 0, Items(w), Size(w)), Touching(room, "read", w, Size(w))))

MovedSharing(v, w) == [vec EXCEPT ![v] = vec[w], ![w]._nitems = 0]

(* v takes the members of w over; w is emptied, also if it is v itself.    *)
Moved(v, w) == [[vec EXCEPT ![v] = vec[w]] EXCEPT ![w] = Empty]

(* v = move(w), and the move constructor for an empty v.  The buffer v had *)
(* is not deleted.                                                         *)
MoveAssign(v, w) == Become([Now EXCEPT !.vec = Moved(v, w)])

Destroy(v) ==
  Become([vec |-> [vec EXCEPT ![v] = Empty], mem |-> Without(mem, vec[v]._data),
          wrong |-> Deleting(Now, v)])

(* at() of an index that is not one of an item.                            *)
AtOutOfRange(v, i) == i >= Size(v) /\ Abort

Next ==
  /\ ~aborted
  /\ \E v \in Vec :
       \/ \E n \in 0 .. MaxItems : Reserve(v, n) \/ Resize(v, n)
       \/ \E s \in Ranges : Construct(v, s)
       \/ \E x \in Vals : PushBack(v, x)
       \/ \E i \in 1 .. Size(v) : PushBackOwn(v, i)
       \/ PopBack(v)
       \/ \E i \in 0 .. MaxItems : Erase(v, i) \/ AtOutOfRange(v, i)
       \/ \E i \in 0 .. MaxItems, s \in Ranges : Insert(v, i, s)
       \/ \E i \in 0 .. Size(v), k \in 1 .. Size(v) : InsertOwn(v, i, k)
       \/ \E w \in Vec : CopyAssign(v, w) \/ MoveAssign(v, w)
       \/ Destroy(v)

Spec == Init /\ [][Next]_vars

-----------------------------------------------------------------------------
(* Properties.                                                             *)

(* Every vector owns a buffer of its own of _max_nitems slots, or none, and *)
(* whatever is copied, moved (onto itself too), grown or destroyed, no     *)
(* operation has deleted a buffer twice, written past its end or read what *)
(* is no buffer.  The exception is the argument of push_back(v[i]) and     *)
(* insert(p, v[i]) (vector:245, :222), which a v that grows reads in the   *)
(* buffer it has deleted.                                                  *)
Owned ==
  /\ wrong \subseteq {"argument"}
  /\ \A v \in Vec :
       LET b == vec[v]._data IN
       /\ b = NULL => vec[v] = Empty
       /\ b # NULL => /\ b \in DOMAIN mem /\ Len(mem[b]) = vec[v]._max_nitems
                      /\ vec[v]._nitems <= vec[v]._max_nitems
                      /\ \A w \in Vec \ {v} : vec[w]._data # b

Leaked == {b \in DOMAIN mem : \A v \in Vec : vec[v]._data # b}

(* A buffer is lost only by a move assignment onto a vector that had one:  *)
(* the other operations delete what they replace.                          *)
LeaksOnlyByMove ==
  [][Leaked' # Leaked => \E v, w \in Vec : vec[v]._data # NULL /\ MoveAssign(v, w)]_vars

Abstract ==
  INSTANCE DynArray WITH items <- [v \in Vec |-> Items(v)],
                         room <- [v \in Vec |-> vec[v]._max_nitems]

(* Each operation does what DynArray says the one of its name does, on any *)
(* vectors whose buffers are shared with what slots held before: an item   *)
(* keeps its value and place while the buffer is replaced or shifted, and  *)
(* no other vector is disturbed.  Three operations do less:                *)
(* - push_back(v[i]) that grows v appends any value, the buffer of v[i]    *)
(*   being deleted (vector:245);                                           *)
(* - insert() that grows v may leave any items behind the inserted ones,   *)
(*   which _reserve has not taken along (vector:199), and inserts any      *)
(*   value if it was given an item of v;                                   *)
(* - insert(p, v[k]) that does not grow v inserts the item before v[k] if  *)
(*   v[k] lies behind p, the items having moved under the reference        *)
(*   (vector:221-222).                                                     *)
ImplementsDynArray ==
  /\ Abstract!Init
  /\ [][\/ aborted' \/ UNCHANGED vars
        \/ \A v \in Vec :
             /\ \A n \in 0 .. MaxItems : /\ Reserve(v, n) => Abstract!Reserve(v)
                                         /\ Resize(v, n) => Abstract!Resize(v, n)
             /\ \A s \in Ranges : Construct(v, s) => Abstract!Construct(v, s)
             /\ \A x \in Vals : PushBack(v, x) => Abstract!Push(v, x)
             /\ PopBack(v) /\ Size(v) # 0 => Abstract!Erase(v, Size(v))
             /\ \A w \in Vec : /\ CopyAssign(v, w) => Abstract!Copy(v, w)
                               /\ MoveAssign(v, w) => Abstract!Move(v, w)
             /\ Destroy(v) => Abstract!Destroy(v)
             /\ \A k \in 1 .. Size(v) :
                  /\ Erase(v, k - 1) => Abstract!Erase(v, k)
                  /\ PushBackOwn(v, k) =>
                       IF Abstract!Fits(v, 1) THEN Abstract!Push(v, Items(v)[k])
                       ELSE \E x \in Elem : Abstract!Push(v, x)
             /\ \A i \in 0 .. Size(v) :
                  /\ \A s \in Ranges :
                       Insert(v, i, s) =>
                         IF Abstract!Fits(v, Len(s)) THEN Abstract!Insert(v, i, s)
                         ELSE Abstract!InsertLosingTail(v, i, s)
                  /\ \A k \in 1 .. Size(v) :
                       InsertOwn(v, i, k) =>
                         IF Abstract!Fits(v, 1)
                         THEN Abstract!Insert(v, i, <<Items(v)[IF k > i + 1 THEN k - 1 ELSE k]>>)
                         ELSE \E x \in Elem : Abstract!InsertLosingTail(v, i, <<x>>)]_vars

(* tests/std_vector_test.cc:352-357: after an insert before an item, it    *)
(* and the items behind it follow the inserted ones.                       *)
InsertKeepsTail ==
  [][\A v \in Vec, s \in Ranges : \A i \in 0 .. Size(v) :
       Insert(v, i, s) =>
         Items(v)' = SubSeq(Items(v), 1, i) \o s \o SubSeq(Items(v), i + 1, Size(v))]_vars
=============================================================================
