------------------------------ MODULE Memmove -------------------------------
(***************************************************************************)
(* memmove and memcpy of c/string.c, byte by byte: memmove goes up if the  *)
(* destination is not above the source, and down otherwise, so that no     *)
(* byte is overwritten before it is copied where the two overlap.          *)
(***************************************************************************)
EXTENDS Integers

CONSTANT Top  \* the memory is the addresses 0 .. Top - 1

MemmoveAssumption == Top \in Nat

Addr == 0 .. (Top - 1)

VARIABLES
  mem,            \* the bytes of the memory
  was,            \* what they were before the call
  dst, src, size, \* the arguments
  n               \* bytes left to copy

vars == <<mem, was, dst, src, size, n>>

(* Every byte is told from every other.                                    *)
Init ==
  /\ was = [a \in Addr |-> a]
  /\ mem = was
  /\ dst \in 0 .. Top /\ src \in 0 .. Top /\ size \in 0 .. Top
  /\ dst + size <= Top /\ src + size <= Top
  /\ n = size

UpAlways == TRUE

(* memmove leaves the copying to memcpy.                                   *)
Up == dst <= src

(* The index of the byte copied next.                                      *)
Index == IF Up THEN size - n ELSE n - 1

CopyByte ==
  /\ n > 0
  /\ mem' = [mem EXCEPT ![dst + Index] = mem[src + Index]]
  /\ n' = n - 1
  /\ UNCHANGED <<was, dst, src, size>>

Next == CopyByte

Spec == Init /\ [][Next]_vars

-----------------------------------------------------------------------------
(* Properties.                                                             *)

(* When memmove returns, the destination holds what the source held before *)
(* the call, overlapping or not, and the rest of the memory is as it was.  *)
MoveExact ==
  n = 0 => mem = [a \in Addr |-> IF a \in dst .. (dst + size - 1)
                                 THEN was[a - dst + src] ELSE was[a]]
=============================================================================
