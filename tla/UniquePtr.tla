----------------------------- MODULE UniquePtr ------------------------------
(***************************************************************************)
(* std::unique_ptr of cxx/include/memory.  The program also keeps the raw  *)
(* pointers that it made itself or released.                               *)
(***************************************************************************)
EXTENDS Integers

CONSTANTS
  Ptr,     \* the program's unique_ptrs
  Object,  \* addresses of objects
  nullptr

UniquePtrAssumption == nullptr \notin Object

VARIABLES
  ptr_,    \* what each points to
  objects, \* the objects that were made and not deleted
  raw,     \* the program's own pointers
  twice    \* an object was deleted that was not there

vars == <<ptr_, objects, raw, twice>>

Init ==
  /\ ptr_ = [p \in Ptr |-> nullptr]
  /\ objects = {} /\ raw = {} /\ twice = FALSE

(* new T                                                                   *)
Make ==
  \E o \in Object \ objects :
    objects' = objects \cup {o} /\ raw' = raw \cup {o} /\ UNCHANGED <<ptr_, twice>>

(* The program deletes its own.                                            *)
Delete(o) ==
  objects' = objects \ {o} /\ raw' = raw \ {o} /\ UNCHANGED <<ptr_, twice>>

(* reset(), and the destructor, of what the program holds or of nothing.   *)
Reset(p, o) ==
  /\ objects' = objects \ {ptr_[p]}
  /\ twice' = (twice \/ ptr_[p] \notin objects \cup {nullptr})
  /\ ptr_' = [ptr_ EXCEPT ![p] = o]
  /\ raw' = raw \ {o}

Release(p) ==
  /\ raw' = raw \cup ({ptr_[p]} \ {nullptr})
  /\ ptr_' = [ptr_ EXCEPT ![p] = nullptr]
  /\ UNCHANGED <<objects, twice>>

(* ptr_ = other.release(): what it pointed to is not deleted.              *)
Move(p, q) ==
  /\ ptr_' = [[ptr_ EXCEPT ![q] = nullptr] EXCEPT ![p] = ptr_[q]]
  /\ UNCHANGED <<objects, raw, twice>>

(* A unique_ptr of another scope takes over what p held, and goes.         *)
MoveConstructAndDestroy(p) ==
  /\ objects' = objects \ {ptr_[p]}
  /\ twice' = (twice \/ ptr_[p] \notin objects \cup {nullptr})
  /\ ptr_' = [ptr_ EXCEPT ![p] = nullptr]
  /\ UNCHANGED raw

Next ==
  \/ Make
  \/ \E o \in raw : Delete(o)
  \/ \E p \in Ptr :
       \/ \E o \in raw \cup {nullptr} : Reset(p, o)
       \/ Release(p)
       \/ MoveConstructAndDestroy(p)
       \/ \E q \in Ptr : Move(p, q)

Spec == Init /\ [][Next]_vars

-----------------------------------------------------------------------------
(* Properties.                                                             *)

Held == {ptr_[p] : p \in Ptr} \ {nullptr}

(* Every object pointed to is there and has one owner, a unique_ptr or the *)
(* program, and none is deleted twice.                                     *)
PointersOwned ==
  /\ ~twice /\ Held \cup raw \subseteq objects /\ Held \cap raw = {}
  /\ \A p, q \in Ptr : ptr_[p] = ptr_[q] => p = q \/ ptr_[p] = nullptr

Lost == objects \ (Held \cup raw)

(* An object is lost only by a move assignment onto its unique_ptr.        *)
LostOnlyByMove ==
  [][Lost' # Lost => \E p, q \in Ptr : p # q /\ ptr_[p] # nullptr /\ Move(p, q)]_vars
=============================================================================
