---------------------------- MODULE UnorderedMap ----------------------------
(***************************************************************************)
(* cxx/include/unordered_map: entries in a vector without gaps, and a hash *)
(* table whose slots head chains of entries linked by index.  Erasing an   *)
(* entry moves the last one into its place, so two chains are repaired;    *)
(* a table that gets full is doubled and every chain rebuilt.              *)
(***************************************************************************)
EXTENDS Integers, Sequences, FiniteSets, SequencesExt

CONSTANTS
  Key, Val, Default,  \* Default is T()
  Hash,               \* the hasher: a function from Key to Nat
  InitialSize,        \* kInitialHashTableSize, a power of 2
  MaxEntries          \* bound on the number of entries

UnorderedMapAssumption ==
  /\ Hash \in [Key -> Nat]
  /\ InitialSize \in Nat \ {0}
  /\ Default \in Val /\ MaxEntries \in Nat

NIL == -1   \* SIZE_MAX, "an NULL entry"

VARIABLES
  entries_,     \* the entries, numbered from 0 in the code and 1 here
  hash_table_,  \* the heads of the chains: slot -> entry number or NIL
  aborted       \* an assert() of vector::at has failed

vars == <<entries_, hash_table_, aborted>>

(* The methods below are written as functions of the pair [e, h] of the    *)
(* two vectors, in the order the code updates them.                        *)
Now == [e |-> entries_, h |-> hash_table_]

EmptyTable(n) == [s \in 0 .. (n - 1) |-> NIL]
Size(h) == Cardinality(DOMAIN h)

(* hash & (hash_table_.size() - 1): the low bits; all bits if size is 0.   *)
Slot(h, hash) == IF Size(h) = 0 THEN hash ELSE hash % Size(h)

Init ==
  /\ entries_ = << >>
  /\ hash_table_ = EmptyTable(InitialSize)
  /\ aborted = FALSE

(* The entries of the chain that starts with i, in order, until NIL; one   *)
(* that runs in a circle is cut after as many steps as there are entries.  *)
Chain(m, i) ==
  LET walk[n \in 0 .. Len(m.e)] ==
        IF n = 0 THEN <<i>>
        ELSE LET c == walk[n - 1] IN
             IF Last(c) = NIL THEN c ELSE Append(c, m.e[Last(c)].next)
  IN walk[Len(m.e)]

(* find(): the first entry of key's chain that has the key, or NIL, which  *)
(* the loop comes to within as many steps as there are entries.            *)
Find(m, key) ==
  LET at[n \in 0 .. Len(m.e)] ==
        IF n = 0 THEN m.h[Slot(m.h, Hash[key])]
        ELSE LET i == at[n - 1] IN
             IF i = NIL THEN NIL ELSE IF m.e[i].first = key THEN i ELSE m.e[i].next
  IN at[Len(m.e)]

(* InsertIntoHashTable(): entry i becomes the head of its chain.           *)
InsertIntoHashTable(m, i) ==
  LET s == Slot(m.h, m.e[i].hash) IN
  [e |-> [m.e EXCEPT ![i].next = m.h[s]], h |-> [m.h EXCEPT ![s] = i]]

(* RemoveFromHashTable(): entry i leaves its chain, if the loop along the  *)
(* chain comes to it.                                                      *)
RemoveFromHashTable(m, i) ==
  LET s == Slot(m.h, m.e[i].hash)
      chain == Chain(m, m.h[s])
      at == {k \in DOMAIN chain : chain[k] = i}
  IN IF at = {} THEN m
     ELSE IF Min(at) = 1
          THEN [e |-> [m.e EXCEPT ![i].next = NIL], h |-> [m.h EXCEPT ![s] = m.e[i].next]]
          ELSE [e |-> [m.e EXCEPT ![chain[Min(at) - 1]].next = m.e[i].next, ![i].next = NIL],
                h |-> m.h]

ExpandKeepsTable(m) == [m EXCEPT !.h = [s \in 0 .. (2 * Size(m.h) - 1) |->
                                          IF s \in DOMAIN m.h THEN m.h[s] ELSE NIL]]

(* ExpandHashTable(): twice the slots, the entries inserted in order.      *)
ExpandHashTable(m) ==
  LET with[k \in 0 .. Len(m.e)] ==
        IF k = 0 THEN [m EXCEPT !.h = EmptyTable(2 * Size(m.h))]
        ELSE InsertIntoHashTable(with[k - 1], k)
  IN with[Len(m.e)]

Become(m) ==
  /\ entries_' = m.e
  /\ hash_table_' = m.h
  /\ UNCHANGED aborted

(* find() of a map without a table fails an assertion in vector::at.       *)
Abort ==
  /\ aborted' = TRUE
  /\ UNCHANGED <<entries_, hash_table_>>

NewEntry(key, v) == [first |-> key, second |-> v, next |-> NIL, hash |-> Hash[key]]

(* The table is doubled before an entry is added to as many as half of it. *)
IsFull(m) == 2 * Len(m.e) >= Size(m.h)

(* operator[] for a key the map does not have, and what the program        *)
(* assigns through the reference.                                          *)
Added(m, key, v) ==
  LET room == IF IsFull(m) THEN ExpandHashTable(m) ELSE m
      added == [room EXCEPT !.e = Append(@, NewEntry(key, v))]
  IN InsertIntoHashTable(added, Len(added.e))

(* m[key], without an assignment (store = {}) or with one (store = {v}).   *)
Index(key, store) ==
  IF Size(hash_table_) = 0 THEN Abort
  ELSE LET i == Find(Now, key) IN
       IF i # NIL
       THEN Become([Now EXCEPT !.e[i].second = IF store = {} THEN @ ELSE CHOOSE v \in store : TRUE])
       ELSE /\ Len(entries_) < MaxEntries
            /\ Become(Added(Now, key, IF store = {} THEN Default ELSE CHOOSE v \in store : TRUE))

ErasedOneChain(m, i) ==
  LET last == Len(m.e)
      out == RemoveFromHashTable(m, i)
  IN IF i = last THEN [out EXCEPT !.e = Front(@)]
     ELSE LET moved == [out EXCEPT !.e[i] = out.e[last]] IN
          [InsertIntoHashTable(moved, i) EXCEPT !.e = Front(@)]

(* Entry i is unlinked; the last entry is unlinked, moved into its place   *)
(* and linked again; the vector shrinks.                                   *)
Erased(m, i) ==
  LET last == Len(m.e)
      out == RemoveFromHashTable(m, i)
  IN IF i = last THEN [out EXCEPT !.e = Front(@)]
     ELSE LET both == RemoveFromHashTable(out, last)
              moved == [both EXCEPT !.e[i] = both.e[last]]
          IN [InsertIntoHashTable(moved, i) EXCEPT !.e = Front(@)]

Erase(key) ==
  IF entries_ = << >> THEN UNCHANGED vars
  ELSE IF Find(Now, key) = NIL THEN UNCHANGED vars
  ELSE Become(Erased(Now, Find(Now, key)))

(* find() by the program.                                                  *)
FindCalled(key) == IF Size(hash_table_) = 0 THEN Abort ELSE UNCHANGED vars

(* operator=(&&): this map is moved from, which leaves it without a table, *)
(* or is assigned a new one.                                               *)
MovedFrom == Become([e |-> << >>, h |-> EmptyTable(0)])
MovedInto == Become([e |-> << >>, h |-> EmptyTable(InitialSize)])

Next ==
  /\ ~aborted
  /\ \/ \E key \in Key : Index(key, {})
     \/ \E key \in Key, v \in Val : Index(key, {v})
     \/ \E key \in Key : Erase(key)
     \/ \E key \in Key : FindCalled(key)
     \/ MovedFrom
     \/ MovedInto

Spec == Init /\ [][Next]_vars

-----------------------------------------------------------------------------
(* Properties.                                                             *)

(* The chains of the table's slots partition the entries: every entry is   *)
(* once on the chain of its hash, and on no other; no chain is a circle.   *)
(* Every index stored in a slot or in an entry is that of an entry:        *)
(* EntryFromIndex adds it to begin() unchecked.                            *)
ChainsPartition ==
  LET Link == DOMAIN entries_ \cup {NIL} IN
  /\ \A i \in DOMAIN entries_ : entries_[i].next \in Link
  /\ \A s \in DOMAIN hash_table_ : hash_table_[s] \in Link
  /\ \A s \in DOMAIN hash_table_ :
       LET chain == Chain(Now, hash_table_[s]) IN
       /\ Last(chain) = NIL
       /\ ToSet(Front(chain)) =
            {i \in DOMAIN entries_ : Slot(hash_table_, entries_[i].hash) = s}

(* The map as find() sees it: the value a key has, if any.                 *)
Seen ==
  [key \in Key |->
     IF Size(hash_table_) = 0 THEN {}
     ELSE LET i == Find(Now, key) IN IF i = NIL THEN {} ELSE {entries_[i].second}]

Abstract == INSTANCE FiniteMap WITH map <- Seen

(* unordered_map implements a finite map: no operation on one key loses,   *)
(* revives or changes another, through any sequence of collisions,         *)
(* expansions and erasures.                                                *)
ImplementsMap == Abstract!Spec
=============================================================================
