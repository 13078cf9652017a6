------------------------------ MODULE PciLinux ------------------------------
(***************************************************************************)
(* efi/ggl_pci_linux.cc: a PCI device opened through sysfs.  The registers *)
(* of config space are read and written through a descriptor, those of the *)
(* BARs through mappings of the resourceX files.  Linux names a BAR by the *)
(* offset of its first register, the interface (efi/ggl_pci.h:27-46) by    *)
(* its ordinal, so opening counts the BARs, two registers for a 64-bit one.*)
(***************************************************************************)
EXTENDS Integers, FiniteSets

CONSTANTS
  kMaxPciBars,  \* registers of BARs, also the size of bars
  Word,         \* number of values of size_t and of uint64_t
  Unsigned,     \* number of values of unsigned
  BarSize,      \* the size of every BAR
  ConfigSize,   \* the size of config space
  Offsets       \* the offsets the program passes

PciLinuxAssumption ==
  /\ kMaxPciBars \in Nat /\ Word \in Nat /\ Unsigned \in Nat
  /\ Unsigned + 4 <= Word     \* unsigned is narrower than size_t
  /\ BarSize \in Nat /\ ConfigSize \in Nat
  /\ Offsets \subseteq 0 .. (Word - 1)

NULL == -1
Register == 0 .. (kMaxPciBars - 1)
None == [space |-> NULL, from |-> 0, to |-> 0]
Config == kMaxPciBars   \* config space, beside the BARs

VARIABLES
  wide,       \* the registers that begin a 64-bit BAR, by their flags
  present,    \* those with a resourceX file
  mappable,   \* those whose file can be mapped
  pc,         \* "idle", or how far ggl_pci_open is
  bar_offset, bar_index,   \* of its loop
  bars,       \* of the device: ordinal -> the register mapped there, or NULL
  live,       \* the program holds a ggl_pci_device
  fd,         \* its descriptor of config space is open
  lost,       \* a descriptor of config space nobody has any more is open
  mapped,     \* the BARs mapped into the process
  access      \* the bytes the last successful call has read or written

vars == <<wide, present, mappable, pc, bar_offset, bar_index, bars, live, fd,
          lost, mapped, access>>
device == <<wide, present, mappable>>

(* The second register of a 64-bit BAR begins no BAR and has no file.      *)
Init ==
  /\ wide \in SUBSET Register
  /\ present \in SUBSET Register
  /\ mappable \in SUBSET present
  /\ \A o \in wide : o + 1 \in Register \ (wide \cup present)
  /\ pc = "idle" /\ bar_offset = 0 /\ bar_index = 0
  /\ bars = [i \in Register |-> NULL]
  /\ live = FALSE /\ fd = FALSE /\ lost = FALSE
  /\ mapped = {} /\ access = None

(* The address parses and the config file opens.                           *)
Open ==
  /\ pc = "idle" /\ ~live
  /\ pc' = "config"
  /\ fd' = TRUE
  /\ UNCHANGED <<device, bar_offset, bar_index, bars, live, mapped, access, lost>>

(* GetFdSize or GetBARFlags fails: the device is deleted.  Its descriptor  *)
(* is not closed; nobody has it any more.                                  *)
OpenFails ==
  /\ pc = "config"
  /\ pc' = "idle" /\ fd' = FALSE /\ lost' = TRUE
  /\ UNCHANGED <<device, bar_offset, bar_index, bars, live, mapped, access>>

(* The device was zeroed; the loop starts with BAR0.                       *)
BeginMapping ==
  /\ pc = "config"
  /\ pc' = "map"
  /\ bar_offset' = 0 /\ bar_index' = 0
  /\ bars' = [i \in Register |-> NULL]
  /\ UNCHANGED <<device, live, fd, mapped, access, lost>>

(* Is64BitBAR: the next BAR begins two registers on.                       *)
Step(offset) == IF offset \in wide THEN offset + 2 ELSE offset + 1

MapBARByOffset ==
  /\ pc = "map" /\ bar_offset < kMaxPciBars
  /\ bar_offset' = Step(bar_offset) /\ bar_index' = bar_index + 1
  /\ IF bar_offset \in mappable
     THEN /\ bars' = [bars EXCEPT ![bar_offset] = bar_offset]
          /\ mapped' = mapped \cup {bar_offset}
     ELSE UNCHANGED <<bars, mapped>>
  /\ UNCHANGED <<device, pc, live, fd, access, lost>>

(* One turn of the loop.  A BAR without a file, or that cannot be mapped,  *)
(* keeps its ordinal.                                                      *)
MapBAR ==
  /\ pc = "map" /\ bar_offset < kMaxPciBars
  /\ bar_offset' = Step(bar_offset) /\ bar_index' = bar_index + 1
  /\ IF bar_offset \in mappable
     THEN /\ bars' = [bars EXCEPT ![bar_index] = bar_offset]
          /\ mapped' = mapped \cup {bar_offset}
     ELSE UNCHANGED <<bars, mapped>>
  /\ UNCHANGED <<device, pc, live, fd, access, lost>>

OpenReturns ==
  /\ pc = "map" /\ bar_offset >= kMaxPciBars
  /\ pc' = "idle" /\ live' = TRUE
  /\ UNCHANGED <<device, bar_offset, bar_index, bars, fd, mapped, access, lost>>

Unmapped == {bars[i] : i \in Register} \ {NULL}

CloseKeepingMaps ==
  /\ pc = "idle" /\ live
  /\ live' = FALSE /\ fd' = FALSE
  /\ UNCHANGED <<device, pc, bar_offset, bar_index, bars, mapped, access, lost>>

Close ==
  /\ pc = "idle" /\ live
  /\ fd
  /\ live' = FALSE /\ fd' = FALSE
  /\ mapped' = mapped \ Unmapped
  /\ UNCHANGED <<device, pc, bar_offset, bar_index, bars, access, lost>>

(* CloseFD fails, with the descriptor gone or not: ggl_pci_close() returns *)
(* -1 and the device is still there, with its mappings.                    *)
CloseFails ==
  /\ pc = "idle" /\ live
  /\ fd' \in {FALSE, fd}
  /\ UNCHANGED <<device, pc, bar_offset, bar_index, bars, live, mapped, access, lost>>

Accessed(space, offset, n) ==
  access' = [space |-> space, from |-> offset, to |-> offset + n]

RangeUnchecked(offset, n, size) == offset < size

(* offset + n > size is refused, in the arithmetic of size_t.              *)
InRange(offset, n, size) == (offset + n) % Word <= size

(* ggl_pci_cfgread16, ...read32, ...write16, ...write32: the offset is an  *)
(* unsigned.                                                               *)
CfgAccess(offset, n) ==
  /\ pc = "idle" /\ live
  /\ offset < Unsigned
  /\ fd /\ InRange(offset, n, ConfigSize)
  /\ Accessed(Config, offset, n)
  /\ UNCHANGED <<device, pc, bar_offset, bar_index, bars, live, fd, mapped, lost>>

(* ggl_pci_mread32 and ggl_pci_mwrite32: the offset is any uint64_t.  The  *)
(* index is not tested; the program passes one of a register.              *)
MAccess(i, offset) ==
  /\ pc = "idle" /\ live
  /\ bars[i] # NULL /\ InRange(offset, 4, BarSize)
  /\ Accessed(bars[i], offset, 4)
  /\ UNCHANGED <<device, pc, bar_offset, bar_index, bars, live, fd, mapped, lost>>

Next ==
  \/ Open \/ OpenFails \/ BeginMapping \/ MapBAR \/ OpenReturns
  \/ Close \/ CloseFails
  \/ \E offset \in Offsets :
       \/ \E n \in {2, 4} : CfgAccess(offset, n)
       \/ \E i \in Register : MAccess(i, offset)

Spec == Init /\ [][Next]_vars

-----------------------------------------------------------------------------
(* Properties.                                                             *)

(* efi/ggl_pci.h:27-46: the ordinal of a BAR is the number of BARs, empty  *)
(* ones included, that begin before it.                                    *)
Ordinal(o) == Cardinality({p \in 0 .. (o - 1) : p = 0 \/ p - 1 \notin wide})

(* A device has every BAR that can be mapped at the ordinal EFI gives it,  *)
(* and nothing anywhere else.                                              *)
BarsByOrdinal ==
  live => bars = [i \in Register |->
                    IF \E o \in mappable : Ordinal(o) = i
                    THEN CHOOSE o \in mappable : Ordinal(o) = i ELSE NULL]

(* The process has the BARs of its device mapped and no other: closing and *)
(* reopening leaves no mapping behind, nor does a close that fails lose    *)
(* one.  Of descriptors it says nothing: an open that fails leaves the one *)
(* of config space open (lost).                                            *)
MappingsOfDevice ==
  pc = "idle" => mapped = IF live THEN Unmapped ELSE {}

(* The access to a BAR ends inside of it, or wraps: an offset of a few     *)
(* bytes below 2^64 passes the test, its sum with 4 being small            *)
(* (ggl_pci_linux.cc:266, 276), and the access lies before the BAR.        *)
EndsInside(to) == to <= BarSize \/ (to >= Word /\ to - Word <= BarSize)

(* A call that succeeds has touched bytes of open config space, none past  *)
(* its end, or of a BAR that is mapped, and none past its end unless the   *)
(* sum of offset and width has wrapped.                                    *)
AccessInside ==
  [][access' # access =>
       IF access'.space = Config THEN fd /\ access'.to <= ConfigSize
       ELSE access'.space \in mapped /\ EndsInside(access'.to)]_vars
=============================================================================
