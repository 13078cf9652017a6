---------------------------- MODULE PciRegisters ----------------------------
(***************************************************************************)
(* The accesses of efi/ggl_pci.c to registers: config space is little-     *)
(* endian, BARs are in the byte order of the host.  Memory is bytes; a     *)
(* number is the sequence of its bytes, the lowest first.                  *)
(***************************************************************************)
EXTENDS Integers, Sequences, SequencesExt

CONSTANTS
  Numbers,  \* what is written: numbers of 2 and of 4 bytes
  Poison,   \* the byte that Data is filled with
  Size      \* bytes of config space and of the BAR

PciRegistersAssumption ==
  /\ Size \in Nat
  /\ Numbers \subseteq Seq(0 .. 255) /\ \A x \in Numbers : Len(x) \in {2, 4}

Spaces == {"config", "bar"}

VARIABLES
  big,      \* __BYTE_ORDER is __BIG_ENDIAN
  space,    \* the bytes of config space and of a BAR
  val,      \* the number the program reads into
  op        \* the access made last: [fn, space, offset, num, ok]

vars == <<big, space, val, op>>

Init ==
  /\ big \in BOOLEAN
  /\ space = [s \in Spaces |-> [c \in 1 .. Size |-> 0]]
  /\ val = <<0, 0>>
  /\ op = [fn |-> "none", space |-> "config", offset |-> 0, num |-> <<0, 0>>, ok |-> TRUE]

(* A number as it is in memory, and back.                                  *)
InMemory(x) == IF big THEN Reverse(x) ELSE x

(* le16toh, le32toh, htole16 and htole32: only config space is swapped.    *)
Swapped(s, x) == IF s = "config" /\ big THEN Reverse(x) ELSE x

At(s, offset, width) == SubSeq(space[s], offset + 1, offset + width)

Did(f, s, o, x, done) == op' = [fn |-> f, space |-> s, offset |-> o, num |-> x, ok |-> done]

(* What the call leaves in Data, which is poisoned before.                 *)
Data(s, offset, width, ok) ==
  IF ok THEN At(s, offset, width) ELSE [c \in 1 .. width |-> Poison]

(* cfgread16, cfgread32, mread32.                                          *)
Read(s, offset, width, ok) ==
  /\ val' = IF ok THEN Swapped(s, InMemory(Data(s, offset, width, ok))) ELSE val
  /\ Did("read", s, offset, val', ok)
  /\ UNCHANGED <<big, space>>

(* cfgwrite16, cfgwrite32, mwrite32.                                       *)
Write(s, offset, x, ok) ==
  /\ LET data == InMemory(Swapped(s, x)) IN
     space' = IF ok
              THEN [space EXCEPT ![s] = [c \in 1 .. Size |->
                      IF c \in (offset + 1) .. (offset + Len(x)) THEN data[c - offset] ELSE @[c]]]
              ELSE space
  /\ Did("write", s, offset, x, ok)
  /\ UNCHANGED <<big, val>>

(* PCI I/O takes only offsets that are multiples of the width.             *)
Next ==
  \E s \in Spaces : \E width \in (IF s = "bar" THEN {4} ELSE {2, 4}), ok \in BOOLEAN :
    \E offset \in {o \in 0 .. (Size - width) : o % width = 0} :
      \/ Read(s, offset, width, ok)
      \/ \E x \in {y \in Numbers : Len(y) = width} : Write(s, offset, x, ok)

Spec == Init /\ [][Next]_vars

-----------------------------------------------------------------------------
(* Properties.                                                             *)

(* ggl_pci.h:59-102: *val in host byte order, config space little-endian   *)
(* and BARs as the host, "*val not modified in case of failure".  What was *)
(* read is the number the device holds, what was written is held by its    *)
(* register and no other changes, for hosts of both byte orders.           *)
Holds(bytes, s, offset, x) ==
  \A c \in DOMAIN x :
    bytes[s][offset + c] = IF s = "bar" /\ big THEN x[Len(x) + 1 - c] ELSE x[c]
AccessTrue ==
  /\ op'.ok => Holds(space', op'.space, op'.offset, op'.num)
  /\ ~op'.ok => val' = val /\ space' = space
  /\ op'.fn = "read" => space' = space /\ (op'.ok => val' = op'.num)
  /\ \A s \in Spaces, c \in 1 .. Size :
       space'[s][c] # space[s][c] =>
         s = op'.space /\ c \in (op'.offset + 1) .. (op'.offset + Len(op'.num))
=============================================================================
