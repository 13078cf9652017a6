------------------------------ MODULE DynArray ------------------------------
(***************************************************************************)
(* What the operations on a program's vectors promise: each vector is a    *)
(* sequence of items and a capacity, changed by the operations on it alone.*)
(***************************************************************************)
EXTENDS Integers, Sequences

CONSTANTS Vec, Default

VARIABLES items, room

Init ==
  /\ items = [v \in Vec |-> << >>]
  /\ room = [v \in Vec |-> 0]

(* Only v has changed; a capacity never shrinks.                           *)
OnlyOf(v) ==
  /\ \A w \in Vec \ {v} : items'[w] = items[w] /\ room'[w] = room[w]
  /\ room'[v] >= room[v] /\ room'[v] >= Len(items'[v])

Set(v, s) == items'[v] = s /\ OnlyOf(v)

Fits(v, n) == Len(items[v]) + n <= room[v]

Front_(v, n) == SubSeq(items[v], 1, n)
Back(v, n) == SubSeq(items[v], n + 1, Len(items[v]))

Reserve(v) == Set(v, items[v])

Resize(v, n) ==
  Set(v, IF n <= Len(items[v]) THEN Front_(v, n)
         ELSE items[v] \o [i \in 1 .. (n - Len(items[v])) |-> Default])

Push(v, x) == Set(v, Append(items[v], x))

Construct(v, s) == Set(v, s)

Erase(v, i) == Set(v, Front_(v, i - 1) \o Back(v, i))

Insert(v, i, s) == Set(v, Front_(v, i) \o s \o Back(v, i))

(* As many items as after Insert, and the same up to the inserted ones.    *)
InsertLosingTail(v, i, s) ==
  /\ OnlyOf(v)
  /\ Len(items'[v]) = Len(items[v]) + Len(s)
  /\ SubSeq(items'[v], 1, i + Len(s)) = Front_(v, i) \o s

Copy(v, w) == Set(v, items[w])

(* The moved-from vector is empty and without capacity, also if it is v.   *)
Move(v, w) ==
  /\ items' = [[items EXCEPT ![v] = items[w]] EXCEPT ![w] = << >>]
  /\ room' = [[room EXCEPT ![v] = room[w]] EXCEPT ![w] = 0]

Destroy(v) ==
  /\ items' = [items EXCEPT ![v] = << >>]
  /\ room' = [room EXCEPT ![v] = 0]
=============================================================================
