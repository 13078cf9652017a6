----------------------------- MODULE FiniteMap ------------------------------
(***************************************************************************)
(* What std::unordered_map promises: a finite map from keys to values.  A  *)
(* key has a set of at most one value.                                     *)
(***************************************************************************)
CONSTANTS Key, Val, Default

VARIABLE map

Empty == [k \in Key |-> {}]

Init == map = Empty

(* m[k], which adds k with a default value if it is new; m[k] = v.         *)
Get(k) == map' = [map EXCEPT ![k] = IF @ = {} THEN {Default} ELSE @]

Put(k, v) == map' = [map EXCEPT ![k] = {v}]

Erase(k) == map' = [map EXCEPT ![k] = {}]

(* m is assigned another map, or is moved from and is empty then.          *)
Clear == map' = Empty

Next == (\E k \in Key : Get(k) \/ Erase(k) \/ \E v \in Val : Put(k, v)) \/ Clear

Spec == Init /\ [][Next]_map
=============================================================================
