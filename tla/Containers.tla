----------------------------- MODULE Containers -----------------------------
(***************************************************************************)
(* The containers of cxx/include: std::vector, std::unordered_map,         *)
(* std::string and std::unique_ptr.  The program's containers of one kind  *)
(* touch each other, through copies, moves and references, but not those   *)
(* of another kind, so a behaviour is of one of Parts, chosen at the start.*)
(***************************************************************************)
EXTENDS Integers, Sequences

CONSTANTS
  Parts,                                                      \* which containers
  Vec, VecBuffer, Vals, Default, Raw, Ranges, SizeofT, MaxItems,  \* of Vector
  Key, MapVal, MapDefault, Hash, InitialSize, MaxEntries,     \* of UnorderedMap
  Str, StrBuffer, Char, NUL, Texts, MaxSize, OwnAppend,       \* of StdString
  Ptr, Object,                                                \* of UniquePtr
  null                                                        \* nullptr

VARIABLES part, vec, mem, wrong, aborted, entries_, hash_table_, failed,
          str, chars, overrun, stopped,
          ptr_, objects, raw, twice

Vector == INSTANCE Vector WITH Buffer <- VecBuffer, NULL <- null
Map == INSTANCE UnorderedMap WITH Val <- MapVal, Default <- MapDefault, aborted <- failed
String ==
  INSTANCE StdString WITH Buffer <- StrBuffer, nullptr <- null, mem <- chars, aborted <- stopped
Pointer == INSTANCE UniquePtr WITH nullptr <- null

ASSUME ContainersAssumption ==
  /\ Vector!VectorAssumption /\ Map!UnorderedMapAssumption
  /\ String!StdStringAssumption /\ Pointer!UniquePtrAssumption

vectorVars == <<vec, mem, wrong, aborted>>
mapVars == <<entries_, hash_table_, failed>>
stringVars == <<str, chars, overrun, stopped>>
pointerVars == <<ptr_, objects, raw, twice>>
vars == <<part, vectorVars, mapVars, stringVars, pointerVars>>

Init == part \in Parts /\ Vector!Init /\ Map!Init /\ String!Init /\ Pointer!Init

VectorStep ==
  part = "vector" /\ Vector!Next /\ UNCHANGED <<part, mapVars, stringVars, pointerVars>>
MapStep ==
  part = "map" /\ Map!Next /\ UNCHANGED <<part, vectorVars, stringVars, pointerVars>>
StringStep ==
  part = "string" /\ String!Next /\ UNCHANGED <<part, vectorVars, mapVars, pointerVars>>
PointerStep ==
  part = "pointer" /\ Pointer!Next /\ UNCHANGED <<part, vectorVars, mapVars, stringVars>>

Next == VectorStep \/ MapStep \/ StringStep \/ PointerStep

Spec == Init /\ [][Next]_vars

(* Every vector owns a buffer of its own, of the capacity it says, and     *)
(* every object that is pointed to has one owner and is deleted once.      *)
Owned == Vector!Owned /\ Pointer!PointersOwned

(* Only a move assignment loses a buffer or an object.                     *)
LeaksOnlyByMove == Vector!LeaksOnlyByMove /\ Pointer!LostOnlyByMove

(* The vectors implement sequences with a capacity (DynArray).             *)
ImplementsDynArray == Vector!ImplementsDynArray

(* The chains of the hash table partition the entries.                     *)
ChainsPartition == Map!ChainsPartition

(* unordered_map implements a finite map (FiniteMap).                      *)
ImplementsMap == Map!ImplementsMap

(* Every string owns a buffer with its text and a '\0' behind it.          *)
BuffersSound == String!BuffersSound

(* Operations on strings give the texts they say, through aliases too.     *)
ImplementsValues == String!ImplementsValues

(* tests/std_vector_test.cc:352-357: after an insert before an item, it    *)
(* and the items behind it follow the inserted ones.                       *)
InsertKeepsTail == Vector!InsertKeepsTail
=============================================================================
