----------------------------- MODULE PciProofs ------------------------------
(***************************************************************************)
(* Proofs about Pci.                                                       *)
(***************************************************************************)
EXTENDS Pci, Induction

-----------------------------------------------------------------------------
(* Linux: BARs and their ordinals.                                         *)

Register == 0 .. (kMaxPciBars - 1)

(* Register o begins a BAR: it is not the upper half of a 64-bit one.      *)
Begins(o) == o = 0 \/ o - 1 \notin wide

(* The flags of a device: the second register of a 64-bit BAR is one that  *)
(* begins no other, and has no file.                                       *)
Layout ==
  /\ wide \subseteq Register /\ present \subseteq Register /\ mappable \subseteq present
  /\ \A o \in wide : o + 1 \in Register \ (wide \cup present)

(* The BARs that begin before a register are finitely many, and are among  *)
(* the registers before it.                                                *)
LEMMA OrdinalBounds ==
  ASSUME NEW o \in Nat
  PROVE  /\ IsFiniteSet({p \in 0 .. (o - 1) : Begins(p)})
         /\ Linux!Ordinal(o) = Cardinality({p \in 0 .. (o - 1) : Begins(p)})
         /\ Linux!Ordinal(o) \in Nat /\ Linux!Ordinal(o) <= o
<1> DEFINE B == {p \in 0 .. (o - 1) : Begins(p)}
<1>1. IsFiniteSet(0 .. (o - 1)) /\ Cardinality(0 .. (o - 1)) = o
  BY FS_Interval
<1>2. B \subseteq 0 .. (o - 1)
  OBVIOUS
<1>3. IsFiniteSet(B) /\ Cardinality(B) \in Nat /\ Cardinality(B) <= o
  <2> HIDE DEF B
  <2> QED
    BY <1>1, <1>2, FS_Subset, FS_CardinalityType
<1>4. Linux!Ordinal(o) = Cardinality(B)
  <2>1. B = {p \in 0 .. (o - 1) : p = 0 \/ p - 1 \notin wide}
    BY DEF Begins
  <2> HIDE DEF B
  <2> QED
    BY <2>1 DEF Linux!Ordinal, Linux!Cardinality, Cardinality
<1> QED
  BY <1>3, <1>4

(* A later register has a larger ordinal than a BAR that begins earlier.   *)
LEMMA OrdinalGrows ==
  ASSUME NEW o \in Nat, NEW n \in Nat, o < n, Begins(o)
  PROVE  Linux!Ordinal(o) < Linux!Ordinal(n)
<1> DEFINE B == {p \in 0 .. (o - 1) : Begins(p)}
           C == {p \in 0 .. (n - 1) : Begins(p)}
<1>1. IsFiniteSet(B) /\ IsFiniteSet(C) /\ Linux!Ordinal(o) = Cardinality(B)
      /\ Linux!Ordinal(n) = Cardinality(C) /\ Linux!Ordinal(o) \in Nat /\ Linux!Ordinal(n) \in Nat
  BY OrdinalBounds
<1>2. B \subseteq C /\ o \in C /\ o \notin B
  OBVIOUS
<1> HIDE DEF B, C
<1>3. Cardinality(B) <= Cardinality(C) /\ (Cardinality(B) = Cardinality(C) => B = C)
  BY <1>1, <1>2, FS_Subset
<1> QED
  BY <1>1, <1>2, <1>3

(* The loop of ggl_pci_open counts the BARs: stepping over one, of either  *)
(* size, adds one to the ordinal, and ends at the beginning of the next.   *)
LEMMA OrdinalStep ==
  ASSUME Layout, NEW o \in Register, Begins(o)
  PROVE  /\ Linux!Step(o) \in 0 .. kMaxPciBars /\ Linux!Step(o) > o
         /\ Begins(Linux!Step(o))
         /\ Linux!Ordinal(Linux!Step(o)) = Linux!Ordinal(o) + 1
         /\ \A p \in mappable : p < Linux!Step(o) <=> p < o \/ p = o
<1> DEFINE n == Linux!Step(o)
           B == {p \in 0 .. (o - 1) : Begins(p)}
           C == {p \in 0 .. (n - 1) : Begins(p)}
<1>1. kMaxPciBars \in Nat /\ o \in Nat /\ o < kMaxPciBars
  BY PciAssumption DEF Linux!PciLinuxAssumption, Register
<1>2. /\ n \in 0 .. kMaxPciBars /\ n > o /\ Begins(n)
      /\ \A p \in 0 .. (n - 1) : p \in 0 .. (o - 1) \/ p = o \/ ~Begins(p)
      /\ \A p \in mappable : p < n <=> p < o \/ p = o
  <2>1. CASE o \in wide
    <3>1. n = o + 2 /\ o + 1 \in Register /\ o + 1 \notin wide /\ o + 1 \notin mappable
          /\ ~Begins(o + 1)
      BY <1>1, <2>1 DEF Linux!Step, Layout, Begins
    <3>2. n - 1 = o + 1
      BY <1>1, <3>1
    <3>3. \A p \in mappable : p \in Nat /\ p # o + 1
      BY <3>1 DEF Layout, Register
    <3> HIDE DEF n
    <3>4. n \in 0 .. kMaxPciBars /\ n > o /\ Begins(n)
      BY <1>1, <3>1, <3>2 DEF Begins, Register
    <3>5. \A p \in 0 .. (n - 1) : p \in 0 .. (o - 1) \/ p = o \/ p = o + 1
      BY <1>1, <3>2
    <3>6. \A p \in mappable : p < n <=> p < o \/ p = o
      BY <1>1, <3>1, <3>3
    <3> QED
      BY <3>1, <3>4, <3>5, <3>6
  <2>2. CASE o \notin wide
    <3>1. n = o + 1 /\ n - 1 = o
      BY <1>1, <2>2 DEF Linux!Step
    <3>2. \A p \in mappable : p \in Nat
      BY DEF Layout, Register
    <3> HIDE DEF n
    <3> QED
      BY <1>1, <2>2, <3>1, <3>2 DEF Begins, Register
  <2> QED
    BY <2>1, <2>2
<1> HIDE DEF n
<1>3. C = B \cup {o} /\ o \notin B
  BY <1>1, <1>2
<1>4. IsFiniteSet(B) /\ Linux!Ordinal(o) = Cardinality(B) /\ Linux!Ordinal(n) = Cardinality(C)
  <2>1. n \in Nat
    BY <1>1, <1>2
  <2> QED
    BY <1>1, <2>1, OrdinalBounds
<1> HIDE DEF B, C
<1>5. Cardinality(C) = Cardinality(B) + 1
  BY <1>3, <1>4, FS_AddElement
<1> QED
  BY <1>2, <1>4, <1>5 DEF n

-----------------------------------------------------------------------------
(* Linux: opening and closing a device.                                    *)

(* bars holds the BARs that begin before register n and can be mapped, each*)
(* at its ordinal, and nothing else.                                       *)
Placed(n) ==
  \A k \in Register :
    /\ \A o \in mappable : o < n /\ Linux!Ordinal(o) = k => bars[k] = o
    /\ (\A o \in mappable : o < n => Linux!Ordinal(o) # k) => bars[k] = -1

LinuxInv ==
  /\ Layout
  /\ pc \in {"idle", "config", "map"} /\ live \in BOOLEAN
  /\ bars \in [Register -> Register \cup {-1}]
  /\ pc # "idle" => ~live
  /\ pc # "map" => mapped = (IF live THEN Linux!Unmapped ELSE {})
  /\ pc = "idle" => (fd => live)
  /\ live => Placed(kMaxPciBars)
  /\ pc = "map" =>
       /\ bar_offset \in 0 .. kMaxPciBars /\ Begins(bar_offset)
       /\ bar_index = Linux!Ordinal(bar_offset)
       /\ mapped = Linux!Unmapped
       /\ Placed(bar_offset)

(* The values of bars that are BARs.                                       *)
LEMMA UnmappedDef == Linux!Unmapped = {bars[k] : k \in Register} \ {-1}
  BY DEF Linux!Unmapped, Linux!Register, Linux!NULL, Register

(* One turn of the loop maps the next BAR at the next ordinal, which was   *)
(* free: no mapping is lost by being overwritten.                          *)
LEMMA MapBARKeepsInv ==
  ASSUME LinuxInv, Linux!MapBAR
  PROVE  LinuxInv'
<1> DEFINE o == bar_offset
           k == bar_index
<1>1. /\ pc = "map" /\ ~live /\ kMaxPciBars \in Nat
      /\ o \in Register /\ Begins(o) /\ o \in Nat
      /\ k = Linux!Ordinal(o) /\ mapped = Linux!Unmapped /\ Placed(o) /\ Layout
  BY PciAssumption DEF LinuxInv, Linux!MapBAR, Linux!PciLinuxAssumption, Register
<1>2. k \in Register /\ k \in Nat
  <2>1. Linux!Ordinal(o) \in Nat /\ Linux!Ordinal(o) <= o
    BY <1>1, OrdinalBounds
  <2> QED
    BY <1>1, <2>1 DEF Register
<1>3. \A p \in mappable : p \in Nat /\ Begins(p) /\ Linux!Ordinal(p) \in Nat
  <2>1. \A p \in mappable : p \in Nat /\ Begins(p)
    BY <1>1 DEF Layout, Begins, Register
  <2> QED
    BY <2>1, OrdinalBounds
<1>4. \A p \in mappable : p < o => Linux!Ordinal(p) # k
  BY <1>1, <1>2, <1>3, OrdinalGrows
<1>5. bars[k] = -1
  BY <1>2, <1>4, <1>1 DEF Placed
<1>6. /\ bar_offset' = Linux!Step(o) /\ bar_index' = k + 1
      /\ UNCHANGED <<wide, present, mappable, pc, live, fd, access, lost>>
      /\ IF o \in mappable
         THEN bars' = [bars EXCEPT ![k] = o] /\ mapped' = mapped \cup {o}
         ELSE UNCHANGED <<bars, mapped>>
  BY DEF Linux!MapBAR, Linux!device
<1>7. /\ Linux!Step(o) \in 0 .. kMaxPciBars /\ Begins(Linux!Step(o))
      /\ Linux!Ordinal(Linux!Step(o)) = k + 1
      /\ \A p \in mappable : p < Linux!Step(o) <=> p < o \/ p = o
  BY <1>1, OrdinalStep
<1> HIDE DEF o, k
<1>8. /\ Layout' /\ Begins(bar_offset)' /\ bar_offset' \in 0 .. kMaxPciBars
      /\ bar_index' = Linux!Ordinal(bar_offset)'
  <2>1. Layout'
    BY <1>1, <1>6 DEF Layout
  <2>2. Begins(bar_offset)'
    BY <1>6, <1>7 DEF Begins
  <2>3. Linux!Ordinal(bar_offset)' = Linux!Ordinal(Linux!Step(o))
    BY <1>6 DEF Linux!Ordinal
  <2> QED
    BY <1>6, <1>7, <2>1, <2>2, <2>3
<1>9. bars \in [Register -> Register \cup {-1}] /\ bars' \in [Register -> Register \cup {-1}]
  BY <1>1, <1>6 DEF LinuxInv
<1>10. Placed(bar_offset)'
  <2> SUFFICES ASSUME NEW j \in Register
               PROVE  /\ \A p \in mappable : p < Linux!Step(o) /\ Linux!Ordinal(p) = j => bars'[j] = p
                      /\ (\A p \in mappable : p < Linux!Step(o) => Linux!Ordinal(p) # j) => bars'[j] = -1
    BY <1>6 DEF Placed, Linux!Ordinal
  <2>1. CASE o \in mappable
    BY <1>1, <1>2, <1>4, <1>6, <1>7, <1>9, <2>1 DEF Placed
  <2>2. CASE o \notin mappable
    BY <1>1, <1>6, <1>7, <2>2 DEF Placed
  <2> QED
    BY <2>1, <2>2
<1>11. mapped' = Linux!Unmapped'
  <2>1. mapped = {bars[j] : j \in Register} \ {-1} /\ Linux!Unmapped' = {bars'[j] : j \in Register} \ {-1}
    BY <1>1 DEF Linux!Unmapped, Linux!Register, Linux!NULL, Register
  <2>2. CASE o \in mappable
    <3>1. o # -1 /\ \A j \in Register : bars'[j] = IF j = k THEN o ELSE bars[j]
      BY <1>1, <1>2, <1>6, <1>9, <2>2
    <3>2. mapped' = mapped \cup {o}
      BY <1>6, <2>2
    <3> QED
      BY <1>2, <1>5, <2>1, <3>1, <3>2
  <2>3. CASE o \notin mappable
    BY <1>6, <2>1, <2>3
  <2> QED
    BY <2>2, <2>3
<1>12. pc' = "map" /\ live' = FALSE
  BY <1>1, <1>6 DEF LinuxInv
<1> QED
  BY <1>8, <1>9, <1>10, <1>11, <1>12 DEF LinuxInv, Begins

(* Before the first call there is no device and no mapping.                *)
LEMMA LinuxInitially ==
  ASSUME Linux!Init
  PROVE  LinuxInv
<1>1. Layout
  BY DEF Linux!Init, Linux!Register, Layout, Register
<1>2. bars \in [Register -> Register \cup {-1}]
  BY DEF Linux!Init, Linux!Register, Linux!NULL, Register
<1> QED
  BY <1>1, <1>2 DEF Linux!Init, LinuxInv

(* The other steps leave the BARs where they are, or begin anew.           *)
LEMMA LinuxStepKeepsInv ==
  ASSUME LinuxInv, Linux!Next
  PROVE  LinuxInv'
<1>1. ASSUME UNCHANGED <<wide, present, mappable, bars>>
      PROVE  /\ Layout' /\ Linux!Unmapped' = Linux!Unmapped
             /\ bars' \in [Register -> Register \cup {-1}]
             /\ \A n : Placed(n)' = Placed(n)
             /\ bar_offset' = bar_offset => /\ Begins(bar_offset)' = Begins(bar_offset)
                                            /\ Linux!Ordinal(bar_offset)' = Linux!Ordinal(bar_offset)
  BY <1>1 DEF LinuxInv, Layout, Linux!Unmapped, Placed, Begins, Linux!Ordinal
<1>2. CASE Linux!Open
  BY <1>1, <1>2 DEF LinuxInv, Linux!Open, Linux!device
<1>3. CASE Linux!OpenFails
  BY <1>1, <1>3 DEF LinuxInv, Linux!OpenFails, Linux!device
<1>4. CASE Linux!BeginMapping
  <2>1. /\ pc = "config" /\ pc' = "map" /\ bar_offset' = 0 /\ bar_index' = 0 /\ live' = FALSE
        /\ bars' = [k \in Register |-> -1] /\ mapped' = {}
        /\ UNCHANGED <<wide, present, mappable>>
    BY <1>4 DEF LinuxInv, Linux!BeginMapping, Linux!device, Linux!Register, Linux!NULL, Register
  <2>2. kMaxPciBars \in Nat /\ Layout
    BY PciAssumption DEF Linux!PciLinuxAssumption, LinuxInv
  <2>3. Linux!Unmapped' = {}
    BY <2>1 DEF Linux!Unmapped, Linux!NULL, Linux!Register, Register
  <2>4. Layout' /\ Begins(bar_offset)'
    BY <2>1, <2>2 DEF Layout, Begins
  <2>5. Linux!Ordinal(bar_offset)' = 0
    <3>1. Linux!Ordinal(bar_offset)' = Linux!Ordinal(0)
      BY <2>1 DEF Linux!Ordinal
    <3>2. Linux!Ordinal(0) \in Nat /\ Linux!Ordinal(0) <= 0
      BY OrdinalBounds
    <3>3. Linux!Ordinal(0) = 0
      BY <3>2
    <3> QED
      BY <3>1, <3>3
  <2>6. Placed(bar_offset)'
    BY <2>1, <2>2 DEF Placed, Layout, Register
  <2>7. bars' \in [Register -> Register \cup {-1}] /\ bar_offset' \in 0 .. kMaxPciBars
    BY <2>1, <2>2
  <2> QED
    BY <2>1, <2>3, <2>4, <2>5, <2>6, <2>7 DEF LinuxInv
<1>5. CASE Linux!MapBAR
  BY <1>5, MapBARKeepsInv
<1>6. CASE Linux!OpenReturns
  <2>1. bar_offset = kMaxPciBars /\ kMaxPciBars \in Nat
    BY <1>6, PciAssumption DEF LinuxInv, Linux!OpenReturns, Linux!PciLinuxAssumption
  <2> QED
    BY <1>1, <1>6, <2>1 DEF LinuxInv, Linux!OpenReturns, Linux!device
<1>7. CASE Linux!Close
  <2>1. mapped' = {}
    BY <1>7 DEF LinuxInv, Linux!Close
  <2> QED
    BY <1>1, <1>7, <2>1 DEF LinuxInv, Linux!Close, Linux!device
<1>8. CASE Linux!CloseFails
  BY <1>1, <1>8 DEF LinuxInv, Linux!CloseFails, Linux!device
<1>9. ASSUME NEW o \in Offsets, NEW n \in {2, 4}, Linux!CfgAccess(o, n)
      PROVE  LinuxInv'
  BY <1>1, <1>9 DEF LinuxInv, Linux!CfgAccess, Linux!device
<1>10. ASSUME NEW o \in Offsets, NEW k \in Register, Linux!MAccess(k, o)
       PROVE  LinuxInv'
  BY <1>1, <1>10 DEF LinuxInv, Linux!MAccess, Linux!device
<1> QED
  BY <1>2, <1>3, <1>4, <1>5, <1>6, <1>7, <1>8, <1>9, <1>10
     DEF Linux!Next, Linux!Register, Register

(* The invariant of the parts that are not Linux says nothing of it.       *)
LEMMA LinuxKept ==
  ASSUME part = "linux" => LinuxInv, [Next]_vars
  PROVE  (part = "linux" => LinuxInv)'
<1>1. CASE LinuxStep
  BY <1>1, LinuxStepKeepsInv DEF LinuxStep
<1>2. CASE UNCHANGED <<part, linuxVars>>
  BY <1>2 DEF linuxVars, LinuxInv, Layout, Placed, Begins, Linux!Ordinal, Linux!Unmapped
<1> QED
  BY <1>1, <1>2 DEF Next, vars, EfiStep, PollStep, LocatorStep, RegistersStep

(* The invariant holds of every device and every sequence of calls.        *)
THEOREM LinuxInvariant == Spec => [](part = "linux" => LinuxInv)
<1>1. Init => (part = "linux" => LinuxInv)
  BY LinuxInitially DEF Init
<1> QED
  BY <1>1, LinuxKept, PTL DEF Spec

(* Exactly the BARs of the open device are mapped: no open or close,       *)
(* failed or not, leaves a mapping.                                        *)
THEOREM MappingsKept == Spec => []MappingsOfDevice
<1>1. (part = "linux" => LinuxInv) => MappingsOfDevice
  BY DEF LinuxInv, MappingsOfDevice, Linux!MappingsOfDevice
<1> QED
  BY <1>1, LinuxInvariant, PTL

(* A device has each BAR at the ordinal EFI would give it, whatever mix of *)
(* 32- and 64-bit BARs it has and however many have no file.               *)
THEOREM OrdinalsTrue == Spec => []BarsByOrdinal
<1>1. ASSUME part = "linux" => LinuxInv  PROVE BarsByOrdinal
  <2> SUFFICES ASSUME LinuxInv, live PROVE Linux!BarsByOrdinal
    BY <1>1 DEF BarsByOrdinal, Linux!BarsByOrdinal
  <2>1. Placed(kMaxPciBars) /\ Layout /\ bars \in [Register -> Register \cup {-1}]
    BY DEF LinuxInv
  <2>2. \A o \in mappable : o < kMaxPciBars
    BY <2>1, PciAssumption DEF Layout, Register, Linux!PciLinuxAssumption
  <2>3. ASSUME NEW k \in Register
        PROVE  bars[k] = IF \E o \in mappable : Linux!Ordinal(o) = k
                         THEN CHOOSE o \in mappable : Linux!Ordinal(o) = k ELSE -1
    <3>1. CASE \E o \in mappable : Linux!Ordinal(o) = k
      <4> DEFINE o == CHOOSE o \in mappable : Linux!Ordinal(o) = k
      <4>1. o \in mappable /\ Linux!Ordinal(o) = k
        BY <3>1
      <4> HIDE DEF o
      <4>2. bars[k] = o
        BY <2>1, <2>2, <4>1 DEF Placed
      <4> QED
        BY <3>1, <4>2 DEF o
    <3>2. CASE ~ \E o \in mappable : Linux!Ordinal(o) = k
      BY <2>1, <3>2 DEF Placed
    <3> QED
      BY <3>1, <3>2
  <2>4. bars = [k \in Register |-> IF \E o \in mappable : Linux!Ordinal(o) = k
                                   THEN CHOOSE o \in mappable : Linux!Ordinal(o) = k ELSE -1]
    BY <2>1, <2>3, Zenon
  <2> QED
    BY <2>4 DEF Linux!BarsByOrdinal, Linux!Register, Linux!NULL, Register
<1> QED
  BY <1>1, LinuxInvariant, PTL

-----------------------------------------------------------------------------
(* Linux: accesses.                                                        *)

(* What the test of the end lets through ends inside, or has wrapped.      *)
LEMMA InRangeEnds ==
  ASSUME NEW o \in Offsets, NEW n \in {2, 4}, NEW size \in Nat, Linux!InRange(o, n, size)
  PROVE  /\ o + n < SizeWord => o + n <= size
         /\ o + n >= SizeWord => (o + n) - SizeWord <= size
<1> DEFINE s == o + n
           w == SizeWord
<1>1. s \in Nat /\ w \in Nat /\ s < 2 * w
  <2>1. o \in Nat /\ w \in Nat /\ o <= w - 1 /\ n \in Nat /\ n <= 4 /\ 4 <= w
    BY PciAssumption DEF Linux!PciLinuxAssumption
  <2> QED
    BY <2>1
<1>2. s % w <= size
  BY DEF Linux!InRange
<1> HIDE DEF s, w
<1>3. s < w => s <= size
  <2>1. s < w => s % w = s
    BY <1>1
  <2> QED
    BY <1>2, <2>1
<1>4. s >= w => s - w <= size
  <2>1. s >= w => s % w = s - w
    BY <1>1
  <2> QED
    BY <1>2, <2>1
<1>5. (s < w => s <= size) /\ (s >= w => s - w <= size)
  BY <1>3, <1>4
<1> QED
  BY <1>5 DEF s, w

(* A register access that the code lets through ends inside the space, but *)
(* for an offset that wraps.                                               *)
LEMMA LinuxAccessInside ==
  ASSUME LinuxInv, Linux!Next, access' # access
  PROVE  IF access'.space = Linux!Config THEN fd /\ access'.to <= ConfigSize
         ELSE access'.space \in mapped /\ Linux!EndsInside(access'.to)
<1>1. \/ \E o \in Offsets, n \in {2, 4} : Linux!CfgAccess(o, n)
      \/ \E o \in Offsets, k \in Register : Linux!MAccess(k, o)
  BY DEF Linux!Next, Linux!Open, Linux!OpenFails, Linux!BeginMapping, Linux!MapBAR,
         Linux!OpenReturns, Linux!Close, Linux!CloseFails, Linux!Register, Register
<1>2. ASSUME NEW o \in Offsets, NEW n \in {2, 4}, Linux!CfgAccess(o, n)
      PROVE  access'.space = Linux!Config /\ fd /\ access'.to <= ConfigSize
  <2>1. /\ fd /\ o < Unsigned /\ Linux!InRange(o, n, ConfigSize)
        /\ access' = [space |-> Linux!Config, from |-> o, to |-> o + n]
    BY <1>2 DEF Linux!CfgAccess, Linux!Accessed
  <2>2. o + n < SizeWord /\ ConfigSize \in Nat
    BY <2>1, PciAssumption DEF Linux!PciLinuxAssumption
  <2> QED
    BY <2>1, <2>2, InRangeEnds
<1>3. ASSUME NEW o \in Offsets, NEW k \in Register, Linux!MAccess(k, o)
      PROVE  /\ access'.space # Linux!Config /\ access'.space \in mapped
             /\ Linux!EndsInside(access'.to)
  <2>1. /\ pc = "idle" /\ live /\ bars[k] # -1 /\ Linux!InRange(o, 4, BarSize)
        /\ access' = [space |-> bars[k], from |-> o, to |-> o + 4]
    BY <1>3 DEF Linux!MAccess, Linux!Accessed, Linux!NULL
  <2>2. bars[k] \in Register /\ mapped = {bars[j] : j \in Register} \ {-1}
    BY <2>1, UnmappedDef DEF LinuxInv
  <2>3. bars[k] # Linux!Config
    BY <2>2, PciAssumption DEF Linux!Config, Register, Linux!PciLinuxAssumption
  <2>4. o + 4 \in Nat /\ SizeWord \in Nat /\ BarSize \in Nat
    BY PciAssumption DEF Linux!PciLinuxAssumption
  <2>5. Linux!EndsInside(o + 4)
    <3>1. 4 \in {2, 4} /\ BarSize \in Nat
      BY <2>4
    <3>2. /\ o + 4 < SizeWord => o + 4 <= BarSize
          /\ o + 4 >= SizeWord => (o + 4) - SizeWord <= BarSize
      BY <2>1, <3>1, InRangeEnds
    <3> QED
      BY <2>4, <3>2 DEF Linux!EndsInside
  <2> QED
    BY <2>1, <2>2, <2>3, <2>5
<1> QED
  BY <1>1, <1>2, <1>3

-----------------------------------------------------------------------------
(* Polls.                                                                  *)

(* In the loop the call has not returned; the value a timeout is judged by *)
(* has been read and does not match.                                       *)
PollInv ==
  /\ ppc \in {"call", "read", "check", "done"}
  /\ mask \subseteq Bit /\ expected_val \subseteq Bit /\ reg \subseteq Bit
  /\ impl \in Impls /\ timeout_usecs \in Timeouts
  /\ now \in Nat
  /\ ppc # "done" => result = Poll!Running
  /\ result \in {Poll!Running, -1, 0, 1}
  /\ ppc = "check" => val \subseteq Bit /\ ~Poll!Matches(val)
  /\ result = 0 => val \subseteq Bit /\ Poll!Matches(val) /\ last_val = val
  /\ result = 1 => val \subseteq Bit /\ ~Poll!Matches(val) /\ now > Poll!Deadline

(* Each step of the loop of ggl_pci_mpoll32 keeps what the loop knows.     *)
LEMMA PollStepKeepsInv ==
  ASSUME PollInv, Poll!Next
  PROVE  PollInv'
<1> USE DEF PollInv, Poll!Running, Poll!Matches, Poll!Deadline, Poll!args, Poll!Return
<1>1. CASE Poll!Call
  BY <1>1 DEF Poll!Call
<1>2. CASE Poll!Read
  BY <1>2 DEF Poll!Read, Poll!StoreLast
<1>3. CASE Poll!Check
  BY <1>3 DEF Poll!Check, Poll!StoreLast
<1>4. CASE Poll!DeviceChanges
  BY <1>4 DEF Poll!DeviceChanges, Poll!Value
<1>5. CASE Poll!DeviceFails
  BY <1>5 DEF Poll!DeviceFails
<1>6. CASE Poll!Tick
  BY <1>6 DEF Poll!Tick
<1> QED
  BY <1>1, <1>2, <1>3, <1>4, <1>5, <1>6 DEF Poll!Next

(* What the loop of ggl_pci_mpoll32 knows holds in every state: the        *)
(* last value read, and when it may return with which result.              *)
THEOREM PollInvariant == Spec => [](part = "poll" => PollInv)
<1>1. Init => (part = "poll" => PollInv)
  BY DEF Init, Poll!Init, PollInv, Poll!Value, Poll!Running
<1>2. (part = "poll" => PollInv) /\ [Next]_vars => (part = "poll" => PollInv)'
  <2> SUFFICES ASSUME part = "poll" => PollInv, [Next]_vars
               PROVE  (part = "poll" => PollInv)'
    OBVIOUS
  <2>1. CASE PollStep
    BY <2>1, PollStepKeepsInv DEF PollStep
  <2>2. CASE UNCHANGED <<part, pollVars>>
    BY <2>2 DEF pollVars, PollInv, Poll!Matches, Poll!Deadline
  <2> QED
    BY <2>1, <2>2 DEF Next, vars, LinuxStep, EfiStep, LocatorStep, RegistersStep
<1> QED
  BY <1>1, <1>2, PTL DEF Spec

(* ggl_pci.h:104-109: 0 and 1 tell truly of the value read last, whenever  *)
(* the device changes the register or stops answering.                     *)
THEOREM PollsTellValue == Spec => []ResultTellsValue
<1>1. (part = "poll" => PollInv) => ResultTellsValue
  <2>1. -1 \notin Bit
    BY PciAssumption DEF Poll!PciPollAssumption
  <2> QED
    BY <2>1 DEF PollInv, ResultTellsValue, Poll!ResultTellsValue, Poll!Matches, Poll!Unset
<1> QED
  BY <1>1, PollInvariant, PTL

(* The timeouts the program passes fit 32 bits in units of 100 ns, as they *)
(* are converted under EFI.                                                *)
NoTimeoutWraps == "efi" \in Impls => \A t \in Timeouts : t * 10 < PollWord

(* Nothing but that conversion makes a poll give up early.                 *)
THEOREM PollsWait == NoTimeoutWraps => (Spec => []NotBeforeTimeout)
<1> SUFFICES ASSUME NoTimeoutWraps PROVE Spec => []NotBeforeTimeout
  OBVIOUS
<1>1. (part = "poll" => PollInv) => NotBeforeTimeout
  <2> SUFFICES ASSUME PollInv, result = 1 PROVE now >= 10 * timeout_usecs
    BY DEF NotBeforeTimeout, Poll!NotBeforeTimeout
  <2>1. /\ timeout_usecs \in Nat /\ now \in Nat /\ PollWord \in Nat /\ now > Poll!Deadline
        /\ impl \in {"linux", "efi"} /\ impl \in Impls /\ timeout_usecs \in Timeouts
    BY PciAssumption DEF PollInv, Poll!PciPollAssumption
  <2>2. Poll!Deadline = timeout_usecs * 10
    <3>1. CASE impl = "linux"
      BY <3>1 DEF Poll!Deadline
    <3>2. CASE impl = "efi"
      <4>1. timeout_usecs * 10 < PollWord /\ timeout_usecs * 10 \in Nat
        BY <2>1, <3>2 DEF NoTimeoutWraps
      <4>2. (timeout_usecs * 10) % PollWord = timeout_usecs * 10
        BY <2>1, <4>1
      <4> QED
        BY <3>2, <4>2 DEF Poll!Deadline
    <3> QED
      BY <2>1, <3>1, <3>2
  <2> QED
    BY <2>1, <2>2
<1> QED
  BY <1>1, PollInvariant, PTL

-----------------------------------------------------------------------------
(* Registers under EFI.                                                    *)

RegistersInv ==
  /\ big \in BOOLEAN
  /\ space \in [Registers!Spaces -> [1 .. Size -> 0 .. 255]]

(* Reversing the bytes of a number.                                        *)
LEMMA Reversed ==
  ASSUME NEW x \in Seq(0 .. 255)
  PROVE  /\ Registers!Reverse(x) \in Seq(0 .. 255) /\ Len(Registers!Reverse(x)) = Len(x)
         /\ \A j \in 1 .. Len(x) : Registers!Reverse(x)[j] = x[Len(x) - j + 1]
         /\ Registers!Reverse(Registers!Reverse(x)) = x
<1> DEFINE y == Registers!Reverse(x)
           n == Len(x)
<1>1. y = [j \in 1 .. n |-> x[n - j + 1]]
  BY DEF Registers!Reverse
<1>2. n \in Nat /\ \A j \in 1 .. n : x[j] \in 0 .. 255
  BY LenProperties, ElementOfSeq
<1> HIDE DEF y, n
<1>8. \A j \in 1 .. n : n - j + 1 \in 1 .. n /\ n - (n - j + 1) + 1 = j
  BY <1>2
<1>3. y \in Seq(0 .. 255) /\ Len(y) = n /\ \A j \in 1 .. n : y[j] = x[n - j + 1]
  <2>1. \A j \in 1 .. n : y[j] \in 0 .. 255
    BY <1>1, <1>2, <1>8
  <2> QED
    BY <1>1, <1>2, <2>1
<1>4. Registers!Reverse(y) = [j \in 1 .. n |-> y[n - j + 1]]
  BY <1>3 DEF Registers!Reverse
<1>5. \A j \in 1 .. n : y[n - j + 1] = x[j]
  BY <1>3, <1>8
<1>6. x = [j \in 1 .. n |-> x[j]]
  BY DEF n
<1>7. Registers!Reverse(y) = x
  BY <1>4, <1>5, <1>6
<1> QED
  BY <1>3, <1>7 DEF y, n

(* Between a number and its bytes in memory the order is reversed for a    *)
(* BAR of a big-endian host, and for nothing else.                         *)
LEMMA ByteOrder ==
  ASSUME NEW x \in Seq(0 .. 255), NEW s \in Registers!Spaces
  PROVE  /\ Registers!InMemory(Registers!Swapped(s, x))
              = IF s = "bar" /\ big THEN Registers!Reverse(x) ELSE x
         /\ Registers!Swapped(s, Registers!InMemory(x))
              = IF s = "bar" /\ big THEN Registers!Reverse(x) ELSE x
  BY Reversed DEF Registers!InMemory, Registers!Swapped, Registers!Spaces

(* A read returns, or a write leaves, the number the register holds; a call*)
(* that fails changes nothing, and none changes another register.          *)
LEMMA RegistersStepTrue ==
  ASSUME RegistersInv, Registers!Next
  PROVE  Registers!AccessTrue /\ RegistersInv'
<1>1. PICK s \in Registers!Spaces, width \in {2, 4}, ok \in BOOLEAN :
        \E offset \in {o \in 0 .. (Size - width) : o % width = 0} :
          \/ Registers!Read(s, offset, width, ok)
          \/ \E x \in {y \in Numbers : Len(y) = width} : Registers!Write(s, offset, x, ok)
  BY DEF Registers!Next
<1>2. PICK offset \in 0 .. (Size - width) :
        \/ Registers!Read(s, offset, width, ok)
        \/ \E x \in {y \in Numbers : Len(y) = width} : Registers!Write(s, offset, x, ok)
  BY <1>1
<1>3. Size \in Nat /\ Numbers \subseteq Seq(0 .. 255)
  BY PciAssumption DEF Registers!PciRegistersAssumption
<1>4. /\ width \in Nat /\ offset \in Nat /\ Size \in Nat /\ offset + width <= Size
      /\ big \in BOOLEAN /\ space[s] \in [1 .. Size -> 0 .. 255]
      /\ space \in [Registers!Spaces -> [1 .. Size -> 0 .. 255]]
  BY <1>1, <1>2, <1>3, SMTT(60) DEF RegistersInv
<1> DEFINE turned == s = "bar" /\ big
           Num(x) == IF turned THEN Registers!Reverse(x) ELSE x
<1>5. CASE Registers!Read(s, offset, width, ok)
  <2> DEFINE data == Registers!At(s, offset, width)
             x == Num(data)
  <2>1. /\ space' = space /\ big' = big
        /\ op' = [fn |-> "read", space |-> s, offset |-> offset, num |-> rval', ok |-> ok]
        /\ ~ok => rval' = rval
        /\ ok => rval' = Registers!Swapped(s, Registers!InMemory(data))
    BY <1>5 DEF Registers!Read, Registers!Did, Registers!Data
  <2>2. /\ data \in Seq(0 .. 255) /\ Len(data) = width
        /\ \A c \in 1 .. width : data[c] = space[s][offset + c]
    <3> DEFINE row == space[s]
               lo == offset + 1
               hi == offset + width
    <3>1. lo \in Int /\ hi \in Int /\ \A c \in lo .. hi : row[c] \in 0 .. 255
      BY <1>4
    <3>2. data = SubSeq(row, lo, hi)
      BY DEF Registers!At
    <3> HIDE DEF data, row, lo, hi
    <3>3. /\ SubSeq(row, lo, hi) \in Seq(0 .. 255)
          /\ Len(SubSeq(row, lo, hi)) = IF lo <= hi THEN hi - lo + 1 ELSE 0
          /\ \A c \in 1 .. (hi - lo + 1) : SubSeq(row, lo, hi)[c] = row[lo + c - 1]
      BY <3>1, SubSeqProperties
    <3>4. hi - lo + 1 = width /\ lo <= hi /\ \A c \in 1 .. width : lo + c - 1 = offset + c
      BY <1>1, <1>4 DEF lo, hi
    <3>5. \A c \in 1 .. width : data[c] = row[lo + c - 1]
      BY <3>2, <3>3, <3>4
    <3> QED
      BY <3>2, <3>3, <3>4, <3>5 DEF row
  <2> HIDE DEF data
  <2>3. ok => rval' = x
    BY <2>1, <2>2, ByteOrder
  <2>4. /\ x \in Seq(0 .. 255) /\ Len(x) = width
        /\ \A c \in 1 .. width : space[s][offset + c] = IF turned THEN x[width + 1 - c] ELSE x[c]
    <3>1. CASE turned
      <4>1. /\ x \in Seq(0 .. 255) /\ Len(x) = width
            /\ \A c \in 1 .. width : x[c] = data[width - c + 1]
        BY <2>2, <3>1, Reversed
      <4> HIDE DEF x
      <4>2. \A c \in 1 .. width : width + 1 - c \in 1 .. width
                                  /\ width - (width + 1 - c) + 1 = c
        BY <1>4
      <4>3. \A c \in 1 .. width : x[width + 1 - c] = data[c]
        BY <4>1, <4>2
      <4> QED
        BY <2>2, <3>1, <4>1, <4>3
    <3>2. CASE ~turned
      BY <2>2, <3>2
    <3> QED
      BY <3>1, <3>2
  <2> HIDE DEF x
  <2>5. ok => Registers!Holds(space', s, offset, rval')
    BY <1>4, <2>1, <2>3, <2>4, SMTT(60) DEF Registers!Holds
  <2> QED
    BY <2>1, <2>5 DEF Registers!AccessTrue, RegistersInv
<1>6. ASSUME NEW x \in Numbers, Len(x) = width, Registers!Write(s, offset, x, ok)
      PROVE  Registers!AccessTrue /\ RegistersInv'
  <2> DEFINE data == Num(x)
  <2>1. x \in Seq(0 .. 255)
    BY <1>3
  <2>2. Registers!InMemory(Registers!Swapped(s, x)) = data
    BY <2>1, ByteOrder
  <2>3. /\ Len(data) = width /\ data \in Seq(0 .. 255)
        /\ \A c \in 1 .. width : data[c] = IF turned THEN x[width + 1 - c] ELSE x[c]
    BY <1>4, <1>6, <2>1, Reversed, SMTT(60)
  <2> HIDE DEF data
  <2>4. /\ big' = big /\ rval' = rval
        /\ op' = [fn |-> "write", space |-> s, offset |-> offset, num |-> x, ok |-> ok]
        /\ ~ok => space' = space
        /\ ok => space' = [space EXCEPT ![s] = [c \in 1 .. Size |->
                    IF c \in (offset + 1) .. (offset + width)
                    THEN data[c - offset] ELSE space[s][c]]]
    BY <1>4, <1>6, <2>2 DEF Registers!Write, Registers!Did
  <2>5. \A c \in (offset + 1) .. (offset + width) :
          c - offset \in 1 .. width /\ data[c - offset] \in 0 .. 255 /\ c \in 1 .. Size
    <3>1. \A c \in 1 .. width : data[c] \in 0 .. 255
      BY <2>3, ElementOfSeq
    <3>2. \A c \in (offset + 1) .. (offset + width) : c - offset \in 1 .. width /\ c \in 1 .. Size
      BY <1>4
    <3> QED
      BY <3>1, <3>2
  <2>6. ASSUME ok
        PROVE  /\ space' \in [Registers!Spaces -> [1 .. Size -> 0 .. 255]]
               /\ \A c \in 1 .. width : space'[s][offset + c] = data[c]
               /\ \A t \in Registers!Spaces, c \in 1 .. Size :
                    space'[t][c] # space[t][c] =>
                      t = s /\ c \in (offset + 1) .. (offset + width)
    <3> DEFINE row == [c \in 1 .. Size |-> IF c \in (offset + 1) .. (offset + width)
                                           THEN data[c - offset] ELSE space[s][c]]
    <3>1. row \in [1 .. Size -> 0 .. 255]
      BY <1>4, <2>5, ZenonT(60)
    <3>2. /\ \A c \in 1 .. width : row[offset + c] = data[c]
          /\ \A c \in 1 .. Size : row[c] # space[s][c] => c \in (offset + 1) .. (offset + width)
      <4>1. \A c \in 1 .. width : /\ offset + c \in (offset + 1) .. (offset + width)
                                  /\ offset + c \in 1 .. Size /\ (offset + c) - offset = c
        BY <1>4
      <4> QED
        BY <4>1
    <3>3. space' = [space EXCEPT ![s] = row]
      BY <2>4, <2>6
    <3> HIDE DEF row
    <3> QED
      BY <1>4, <3>1, <3>2, <3>3
  <2>7. ok => Registers!Holds(space', s, offset, x)
    <3> SUFFICES ASSUME ok, NEW c \in DOMAIN x
                 PROVE  space'[s][offset + c] = IF turned THEN x[width + 1 - c] ELSE x[c]
      BY <1>6, <2>4 DEF Registers!Holds
    <3>1. c \in 1 .. width
      BY <1>6, <2>1
    <3> QED
      BY <2>3, <2>6, <3>1
  <2>8. RegistersInv'
    BY <2>4, <2>6 DEF RegistersInv
  <2> QED
    BY <1>6, <2>4, <2>6, <2>7, <2>8 DEF Registers!AccessTrue
<1> QED
  BY <1>2, <1>5, <1>6

(* The registers of both spaces are bytes in every state.                  *)
LEMMA RegistersInvariant == Spec => [](part = "registers" => RegistersInv)
<1>1. Init => (part = "registers" => RegistersInv)
  <2>1. Registers!Init => RegistersInv
    BY DEF Registers!Init, RegistersInv
  <2> QED
    BY <2>1 DEF Init
<1>2. (part = "registers" => RegistersInv) /\ [Next]_vars => (part = "registers" => RegistersInv)'
  <2> SUFFICES ASSUME part = "registers" => RegistersInv, [Next]_vars
               PROVE  (part = "registers" => RegistersInv)'
    OBVIOUS
  <2>1. CASE RegistersStep
    BY <2>1, RegistersStepTrue DEF RegistersStep
  <2>2. CASE UNCHANGED <<part, registerVars>>
    BY <2>2 DEF registerVars, RegistersInv
  <2> QED
    BY <2>1, <2>2 DEF Next, vars, LinuxStep, EfiStep, PollStep, LocatorStep
<1> QED
  BY <1>1, <1>2, PTL DEF Spec

(* A call that succeeds has touched open config space or a mapped BAR, and *)
(* nothing past its end unless a 64-bit offset wrapped, and it has read or *)
(* written the number that the register holds in its byte order; a call    *)
(* that fails has no effect (ggl_pci_linux.cc:211-281, ggl_pci.c:240-325). *)
THEOREM AccessesTrue == Spec => AccessInside
<1>1. (part = "linux" => LinuxInv) /\ [Next]_vars =>
        [access' # access =>
           IF access'.space = Linux!Config THEN fd /\ access'.to <= ConfigSize
           ELSE access'.space \in mapped /\ Linux!EndsInside(access'.to)]_(Linux!vars)
  <2> SUFFICES ASSUME part = "linux" => LinuxInv, [Next]_vars, access' # access
               PROVE  IF access'.space = Linux!Config THEN fd /\ access'.to <= ConfigSize
                      ELSE access'.space \in mapped /\ Linux!EndsInside(access'.to)
    OBVIOUS
  <2>1. part = "linux" /\ Linux!Next
    BY DEF Next, vars, LinuxStep, EfiStep, PollStep, LocatorStep, RegistersStep, linuxVars
  <2> QED
    BY <2>1, LinuxAccessInside
<1>2. (part = "registers" => RegistersInv) /\ [Next]_vars =>
        [part = "registers" => Registers!AccessTrue]_vars
  <2> SUFFICES ASSUME part = "registers" => RegistersInv, Next, part = "registers"
               PROVE  Registers!AccessTrue
    OBVIOUS
  <2>1. Registers!Next
    BY DEF Next, LinuxStep, EfiStep, PollStep, LocatorStep, RegistersStep
  <2> QED
    BY <2>1, RegistersStepTrue
<1> QED
  BY <1>1, <1>2, LinuxInvariant, RegistersInvariant, PTL
     DEF Spec, AccessInside, Linux!AccessInside

-----------------------------------------------------------------------------
(* EFI: opening and closing devices.                                       *)

Handle == 1 .. NumHandles

(* What Total computes: the sums of the first counts exist.                *)
LEMMA TotalSteps ==
  ASSUME NEW f \in [Handle -> Nat]
  PROVE  \E g \in [0 .. NumHandles -> Nat] :
           /\ g[0] = 0
           /\ \A k \in 1 .. NumHandles : g[k] = g[k - 1] + f[k]
           /\ Efi!Total(f) = g[NumHandles]
<1> DEFINE n == NumHandles
           Step(g, k) == IF k = 0 THEN 0 ELSE g[k - 1] + f[k]
           Has(m) == \E g \in [0 .. m -> Nat] : g = [k \in 0 .. m |-> Step(g, k)]
           P == {m \in 0 .. n : Has(m)}
           sum[k \in 0 .. n] == IF k = 0 THEN 0 ELSE sum[k - 1] + f[k]
<1>1. n \in Nat
  BY PciAssumption DEF Efi!PciEfiAssumption
<1>2. Has(0)
  <2> DEFINE g == [k \in 0 .. 0 |-> 0]
  <2>1. g \in [0 .. 0 -> Nat] /\ g = [k \in 0 .. 0 |-> Step(g, k)]
    OBVIOUS
  <2> QED
    BY <2>1
<1>3. ASSUME NEW m \in 0 .. (n - 1), Has(m)  PROVE Has(m + 1)
  <2>1. PICK g \in [0 .. m -> Nat] : g = [k \in 0 .. m |-> Step(g, k)]
    BY <1>3
  <2> DEFINE e == [k \in 0 .. (m + 1) |-> IF k = m + 1 THEN g[m] + f[m + 1] ELSE g[k]]
  <2>2. g[m] \in Nat /\ f[m + 1] \in Nat
    BY <1>1 DEF Handle
  <2>3. e \in [0 .. (m + 1) -> Nat]
    BY <2>2
  <2>4. \A k \in 0 .. m : e[k] = g[k] /\ (k # 0 => e[k - 1] = g[k - 1])
    OBVIOUS
  <2>5. e[m + 1] = e[m] + f[m + 1] /\ (m + 1) - 1 = m /\ m + 1 # 0
    BY <2>4
  <2>6. \A k \in 0 .. m : g[k] = Step(g, k)
    BY <2>1
  <2> HIDE DEF e
  <2>7. \A k \in 0 .. m : e[k] = Step(e, k)
    BY <2>4, <2>6
  <2>8. e[m + 1] = Step(e, m + 1)
    BY <2>5
  <2>9. e = [k \in 0 .. (m + 1) |-> Step(e, k)]
    <3> HIDE DEF Step
    <3>1. \A k \in 0 .. (m + 1) : k \in 0 .. m \/ k = m + 1
      OBVIOUS
    <3> QED
      BY <2>3, <2>7, <2>8, <3>1
  <2> QED
    BY <2>3, <2>9
<1>4. Has(n)
  <2> HIDE DEF Has
  <2>1. 0 \in P /\ \A m \in 0 .. (n - 1) : m \in P => m + 1 \in P
    BY <1>1, <1>2, <1>3
  <2> HIDE DEF P
  <2>2. \A m \in 0 .. n : m \in P
    BY <1>1, <2>1, UpTo
  <2> QED
    BY <1>1, <2>2 DEF P
<1>5. sum = [k \in 0 .. n |-> IF k = 0 THEN 0 ELSE sum[k - 1] + f[k]]
  BY <1>4
<1>6. Efi!Total(f) = sum[n]
  BY DEF Efi!Total
<1> HIDE DEF sum
<1>7. sum[0] = 0 /\ \A k \in 1 .. n : sum[k] = sum[k - 1] + f[k]
  <2>1. \A k \in 0 .. n : sum[k] = IF k = 0 THEN 0 ELSE sum[k - 1] + f[k]
    BY <1>5, Zenon
  <2>2. 0 \in 0 .. n /\ \A k \in 1 .. n : k \in 0 .. n /\ k # 0
    BY <1>1
  <2> QED
    BY <2>1, <2>2
<1>8. sum \in [0 .. n -> Nat]
  <2> DEFINE Q == {k \in 0 .. n : sum[k] \in Nat}
  <2>1. ASSUME NEW k \in 0 .. (n - 1), k \in Q  PROVE k + 1 \in Q
    <3>1. k + 1 \in 1 .. n /\ (k + 1) - 1 = k /\ f[k + 1] \in Nat
      BY <1>1 DEF Handle
    <3>2. sum[k + 1] = sum[k] + f[k + 1]
      BY <1>7, <3>1
    <3> QED
      BY <2>1, <3>1, <3>2
  <2>2. 0 \in Q
    BY <1>1, <1>7
  <2> HIDE DEF Q
  <2>3. \A k \in 0 .. n : k \in Q
    BY <1>1, <2>1, <2>2, UpTo
  <2>4. \A k \in 0 .. n : sum[k] \in Nat
    BY <2>3 DEF Q
  <2> QED
    BY <1>5, <2>4
<1> QED
  BY <1>6, <1>7, <1>8

(* The total is a number.                                                 *)
LEMMA TotalType ==
  ASSUME NEW f \in [Handle -> Nat]
  PROVE  Efi!Total(f) \in Nat
<1>1. PICK g \in [0 .. NumHandles -> Nat] : Efi!Total(f) = g[NumHandles]
  BY TotalSteps
<1>2. NumHandles \in 0 .. NumHandles
  BY PciAssumption DEF Efi!PciEfiAssumption
<1> QED
  BY <1>1, <1>2

(* Changing one count changes the total by as much.                        *)
LEMMA TotalChanges ==
  ASSUME NEW f \in [Handle -> Nat], NEW h \in Handle, NEW v \in Nat
  PROVE  Efi!Total([f EXCEPT ![h] = v]) = Efi!Total(f) + v - f[h]
<1> DEFINE e == [f EXCEPT ![h] = v]
           n == NumHandles
<1>1. n \in Nat /\ h \in 1 .. n /\ f[h] \in Nat
  BY PciAssumption DEF Efi!PciEfiAssumption, Handle
<1>2. /\ e \in [Handle -> Nat] /\ e[h] = v
      /\ \A k \in Handle : k # h => e[k] = f[k]
  OBVIOUS
<1> HIDE DEF e
<1>3. PICK s \in [0 .. n -> Nat] :
        s[0] = 0 /\ (\A k \in 1 .. n : s[k] = s[k - 1] + f[k]) /\ Efi!Total(f) = s[n]
  BY TotalSteps
<1>4. PICK t \in [0 .. n -> Nat] :
        t[0] = 0 /\ (\A k \in 1 .. n : t[k] = t[k - 1] + e[k]) /\ Efi!Total(e) = t[n]
  BY <1>2, TotalSteps
<1> DEFINE P == {k \in 0 .. n : t[k] = s[k] + (IF k < h THEN 0 ELSE v - f[h])}
<1>5. ASSUME NEW k \in 0 .. (n - 1), k \in P  PROVE k + 1 \in P
  <2>1. /\ k + 1 \in 1 .. n /\ (k + 1) - 1 = k /\ k \in 0 .. n /\ k + 1 \in 0 .. n
        /\ s[k] \in Nat /\ f[k + 1] \in Nat
    BY <1>1 DEF Handle
  <2>2. /\ t[k + 1] = t[k] + e[k + 1] /\ s[k + 1] = s[k] + f[k + 1]
        /\ t[k] = s[k] + (IF k < h THEN 0 ELSE v - f[h])
    BY <1>3, <1>4, <1>5, <2>1
  <2>3. t[k + 1] = s[k + 1] + (IF k + 1 < h THEN 0 ELSE v - f[h])
    <3>1. CASE k + 1 = h
      <4>1. e[k + 1] = v /\ f[k + 1] = f[h]
        BY <1>2, <3>1
      <4>2. k < h /\ ~(k + 1 < h)
        BY <2>1, <3>1
      <4>3. t[k] = s[k] /\ t[k + 1] = t[k] + v /\ s[k + 1] = s[k] + f[h]
        BY <2>1, <2>2, <4>1, <4>2
      <4>4. t[k + 1] = s[k + 1] + (v - f[h])
        BY <1>1, <2>1, <4>3
      <4> QED
        BY <4>2, <4>4
    <3>2. CASE k + 1 # h
      <4>1. e[k + 1] = f[k + 1] /\ (k < h <=> k + 1 < h)
        BY <1>1, <1>2, <2>1, <3>2, SMTT(60) DEF Handle
      <4>2. /\ t[k] = s[k] + (IF k + 1 < h THEN 0 ELSE v - f[h])
            /\ t[k + 1] = t[k] + f[k + 1] /\ s[k + 1] = s[k] + f[k + 1]
        BY <2>2, <4>1
      <4> DEFINE d == IF k + 1 < h THEN 0 ELSE v - f[h]
      <4>3. d \in Int
        BY <1>1
      <4> HIDE DEF d
      <4>4. t[k + 1] = s[k] + d + f[k + 1]
        BY <4>2 DEF d
      <4>5. t[k + 1] = s[k + 1] + d
        BY <2>1, <4>2, <4>3, <4>4
      <4> QED
        BY <4>5 DEF d
    <3> QED
      BY <3>1, <3>2
  <2> QED
    BY <2>1, <2>3
<1>6. 0 \in P
  BY <1>1, <1>3, <1>4
<1> HIDE DEF P
<1>7. \A k \in 0 .. n : k \in P
  BY <1>1, <1>5, <1>6, UpTo
<1>8. n \in P /\ s[n] \in Nat /\ ~(n < h)
  BY <1>1, <1>7
<1>9. t[n] = s[n] + v - f[h]
  BY <1>1, <1>8 DEF P
<1> QED
  BY <1>3, <1>4, <1>8, <1>9 DEF e

(* No handle has given a device at the start.                              *)
LEMMA TotalZero == Efi!Total([h \in Handle |-> 0]) = 0
<1> DEFINE n == NumHandles
<1>1. n \in Nat
  BY PciAssumption DEF Efi!PciEfiAssumption
<1>2. PICK s \in [0 .. n -> Nat] :
        /\ s[0] = 0 /\ \A k \in 1 .. n : s[k] = s[k - 1] + [h \in Handle |-> 0][k]
        /\ Efi!Total([h \in Handle |-> 0]) = s[n]
  BY TotalSteps
<1> DEFINE P == {k \in 0 .. n : s[k] = 0}
<1>3. ASSUME NEW k \in 0 .. (n - 1), k \in P  PROVE k + 1 \in P
  <2>1. k + 1 \in 1 .. n /\ (k + 1) - 1 = k /\ k + 1 \in Handle
    BY <1>1 DEF Handle
  <2>2. s[k + 1] = s[k] + 0
    BY <1>2, <2>1
  <2> QED
    BY <1>3, <2>1, <2>2
<1>4. 0 \in P
  BY <1>1, <1>2
<1> HIDE DEF P
<1>5. \A k \in 0 .. n : k \in P
  BY <1>1, <1>3, <1>4, UpTo
<1> QED
  BY <1>1, <1>2, <1>5 DEF P

(* What is open while a call is in progress: the handles of the devices,   *)
(* and the handle that has just been found.                                *)
EfiInv ==
  /\ epc \in {"idle", "locate", "lookup", "enable"}
  /\ devices \in [Handle -> Nat]
  /\ epc = "enable" => i \in Handle
  /\ opened = IF epc = "enable" THEN [devices EXCEPT ![i] = @ + 1] ELSE devices
  /\ buffer <=> epc = "lookup"
  /\ blocks = Efi!Total(devices) + (IF epc = "idle" THEN 0 ELSE 1)

(* Each firmware call, failing or not, keeps the counts of what is held.   *)
LEMMA EfiStepKeepsInv ==
  ASSUME EfiInv, Efi!Next
  PROVE  EfiInv'
<1>2. Efi!Total(devices) \in Nat
  BY TotalType DEF EfiInv
<1>3. devices' = devices => Efi!Total(devices)' = Efi!Total(devices)
  BY DEF Efi!Total
<1>4. CASE \E l \in Locations : Efi!Open(l)
  BY <1>2, <1>3, <1>4 DEF EfiInv, Efi!Open
<1>5. CASE Efi!LocateHandleBuffer
  BY <1>2, <1>3, <1>5 DEF EfiInv, Efi!LocateHandleBuffer, Efi!GiveUp
<1>6. CASE Efi!OpenProtocolFails
  BY <1>2, <1>3, <1>6 DEF EfiInv, Efi!OpenProtocolFails
<1>7. CASE Efi!Lookup
  <2>1. /\ epc = "lookup" /\ i \in Handle /\ opened = devices /\ devices \in [Handle -> Nat]
        /\ blocks = Efi!Total(devices) + 1 /\ buffer
        /\ devices' = devices /\ blocks' = blocks
    BY <1>7 DEF EfiInv, Efi!Lookup, Efi!Handle, Handle
  <2>2. CASE opened' = [opened EXCEPT ![i] = @ + 1] /\ epc' = "enable" /\ ~buffer' /\ i' = i
    BY <1>2, <1>3, <2>1, <2>2 DEF EfiInv
  <2>3. CASE UNCHANGED <<epc, opened, buffer>>
    BY <1>2, <1>3, <2>1, <2>3 DEF EfiInv
  <2> QED
    BY <1>7, <2>2, <2>3 DEF Efi!Lookup
<1>8. CASE Efi!NotFound
  BY <1>2, <1>3, <1>8 DEF EfiInv, Efi!NotFound, Efi!GiveUp
<1>9. CASE Efi!Enable
  <2>1. /\ epc = "enable" /\ i \in Handle /\ devices \in [Handle -> Nat] /\ devices[i] \in Nat
        /\ opened = [devices EXCEPT ![i] = @ + 1] /\ blocks = Efi!Total(devices) + 1
        /\ ~buffer /\ epc' = "idle" /\ buffer' = buffer
    BY <1>9 DEF EfiInv, Efi!Enable, Efi!GiveUp
  <2>2. CASE devices' = [devices EXCEPT ![i] = @ + 1] /\ UNCHANGED <<opened, blocks>>
    <3>1. Efi!Total([devices EXCEPT ![i] = devices[i] + 1]) = Efi!Total(devices) + 1
      <4>1. devices[i] + 1 \in Nat
        BY <2>1
      <4>2. Efi!Total([devices EXCEPT ![i] = devices[i] + 1])
              = Efi!Total(devices) + (devices[i] + 1) - devices[i]
        BY <2>1, <4>1, TotalChanges
      <4> QED
        BY <1>2, <2>1, <4>2
    <3>2. Efi!Total(devices)' = Efi!Total([devices EXCEPT ![i] = devices[i] + 1])
      BY <2>2 DEF Efi!Total
    <3> QED
      BY <1>2, <2>1, <2>2, <3>1, <3>2 DEF EfiInv
  <2>3. CASE opened' = [opened EXCEPT ![i] = @ - 1] /\ blocks' = blocks - 1 /\ devices' = devices
    <3>1. opened' = devices
      <4>1. opened'[i] = devices[i] /\ \A h \in Handle : h # i => opened'[h] = devices[h]
        BY <2>1, <2>3
      <4> QED
        BY <2>1, <2>3, <4>1
    <3> QED
      BY <1>2, <1>3, <2>1, <2>3, <3>1 DEF EfiInv
  <2> QED
    BY <1>9, <2>2, <2>3 DEF Efi!Enable, Efi!GiveUp
<1>10. ASSUME NEW h \in Handle, Efi!Close(h)  PROVE EfiInv'
  <2>1. /\ epc = "idle" /\ epc' = "idle" /\ devices \in [Handle -> Nat] /\ devices[h] \in Nat
        /\ opened = devices /\ blocks = Efi!Total(devices) + 0 /\ ~buffer
        /\ devices[h] > 0
        /\ opened' = [opened EXCEPT ![h] = @ - 1] /\ devices' = [devices EXCEPT ![h] = @ - 1]
        /\ blocks' = blocks - 1 /\ buffer' = buffer
    BY <1>10 DEF EfiInv, Efi!Close
  <2>2. devices[h] - 1 \in Nat
    BY <2>1
  <2>3. Efi!Total([devices EXCEPT ![h] = devices[h] - 1])
          = Efi!Total(devices) + (devices[h] - 1) - devices[h]
    BY <2>1, <2>2, TotalChanges
  <2>4. Efi!Total(devices)' = Efi!Total([devices EXCEPT ![h] = devices[h] - 1])
    BY <2>1 DEF Efi!Total
  <2> QED
    BY <1>2, <2>1, <2>2, <2>3, <2>4 DEF EfiInv
<1> QED
  BY <1>4, <1>5, <1>6, <1>7, <1>8, <1>9, <1>10 DEF Efi!Next, Efi!Handle, Handle

(* What is opened and allocated is known by the position of ggl_pci_open.  *)
LEMMA EfiInvariant == Spec => [](part = "efi" => EfiInv)
<1>1. Init => (part = "efi" => EfiInv)
  <2>1. Efi!Init => EfiInv
    BY TotalZero DEF Efi!Init, EfiInv, Efi!Handle, Handle
  <2> QED
    BY <2>1 DEF Init
<1>2. (part = "efi" => EfiInv) /\ [Next]_vars => (part = "efi" => EfiInv)'
  <2> SUFFICES ASSUME part = "efi" => EfiInv, [Next]_vars
               PROVE  (part = "efi" => EfiInv)'
    OBVIOUS
  <2>1. CASE EfiStep
    BY <2>1, EfiStepKeepsInv DEF EfiStep
  <2>2. CASE UNCHANGED <<part, efiVars>>
    BY <2>2 DEF efiVars, EfiInv, Efi!Total
  <2> QED
    BY <2>1, <2>2 DEF Next, vars, LinuxStep, PollStep, LocatorStep, RegistersStep
<1> QED
  BY <1>1, <1>2, PTL DEF Spec

(* Whatever step of opening a device fails, the protocols opened on other  *)
(* handles are closed and what was allocated is freed.                     *)
THEOREM NothingLeft == Spec => []Balanced
<1>1. (part = "efi" => EfiInv) => Balanced
  <2> SUFFICES ASSUME EfiInv, epc = "idle"
               PROVE  opened = devices /\ blocks = Efi!Total(devices) /\ ~buffer
    BY DEF Balanced, Efi!Balanced
  <2>1. Efi!Total(devices) \in Nat
    BY TotalType DEF EfiInv
  <2> QED
    BY <2>1 DEF EfiInv
<1> QED
  BY <1>1, EfiInvariant, PTL

-----------------------------------------------------------------------------
(* Locators.                                                               *)

(* What the items read so far and the separators behind them were, and why *)
(* the parsing has ended.                                                  *)
ItemFits(k) == fields[k].w > 0 /\ Locator!Behind(k) \in Locator!Expected(k, nitems)

LocatorInv ==
  /\ seps \in Seq({":", "."}) /\ Len(seps) <= 3 /\ tail \in BOOLEAN
  /\ fields \in Seq(Fields) /\ Len(fields) = Len(seps) + 1
  /\ nitems \in {3, 4} /\ efi \in {"parsing", "failed", "parsed"}
  /\ items \in Seq(Nat) /\ Len(items) <= nitems /\ Len(items) <= Len(fields)
  /\ \A k \in 1 .. Len(items) : items[k] = fields[k].v /\ ItemFits(k)
  /\ nitems = 4 <=> Len(items) >= 2 /\ Locator!Behind(2) = ":"
  /\ efi = "parsed" => Len(items) = nitems /\ Locator!Valid(Locator!Location)
  /\ efi = "failed" =>
       \/ Len(items) < nitems /\ ~ItemFits(Len(items) + 1)
       \/ Len(items) = nitems /\ ~Locator!Valid(Locator!Location)

(* Each item that is parsed, and the verdict, keep what both parsers know. *)
LEMMA LocatorStepKeepsInv ==
  ASSUME LocatorInv, Locator!Next
  PROVE  LocatorInv'
<1>1. CASE Locator!Item
  <2> DEFINE k == Len(items) + 1
  <2>1. /\ efi = "parsing" /\ Len(items) < nitems
        /\ UNCHANGED <<fields, seps, tail>>
        /\ IF ItemFits(k)
           THEN /\ items' = Append(items, fields[k].v)
                /\ nitems' = IF k = 2 /\ Locator!Behind(k) = ":" THEN 4 ELSE nitems
                /\ efi' = efi
           ELSE efi' = "failed" /\ UNCHANGED <<items, nitems>>
    BY <1>1 DEF Locator!Item, ItemFits
  <2>2. \A j : Locator!Behind(j)' = Locator!Behind(j)
    BY <2>1 DEF Locator!Behind
  <2>3. CASE ~ItemFits(k)
    BY <2>1, <2>2, <2>3 DEF LocatorInv, ItemFits
  <2>4. CASE ItemFits(k)
    <3>0. Len(items) \in Nat /\ nitems \in {3, 4} /\ items \in Seq(Nat)
      BY DEF LocatorInv
    <3>1. k \in 1 .. 4 /\ Len(items) \in 0 .. 3 /\ k <= nitems /\ nitems \in {3, 4}
      <4> DEFINE m == Len(items)
      <4>1. m < nitems /\ m \in Nat /\ nitems \in {3, 4} /\ k = m + 1
        BY <2>1, <3>0
      <4> HIDE DEF m, k
      <4>2. m \in 0 .. 3 /\ k \in 1 .. 4 /\ k <= nitems
        BY <4>1
      <4> QED
        BY <4>1, <4>2 DEF m
    <3>2. k <= Len(fields)
      <4>1. CASE Len(items) = 0
        BY <4>1 DEF LocatorInv
      <4>2. CASE Len(items) # 0
        <5> DEFINE j == Len(items)
        <5>0. Len(items) = j /\ k = j + 1 /\ j # 0
          BY <4>2
        <5> HIDE DEF j, k
        <5>1. j \in 1 .. 3 /\ j \in 1 .. Len(items) /\ (j = 3 => nitems = 4)
          BY <3>1, <5>0
        <5>2. Locator!Behind(j) \in Locator!Expected(j, nitems)
          BY <5>1 DEF LocatorInv, ItemFits
        <5>3. j = 1 \/ j = 2 \/ (j = 3 /\ nitems = 4)
          BY <5>1
        <5> HIDE DEF j
        <5>4. Locator!Expected(j, nitems) \subseteq {":", "."}
          BY <5>3 DEF Locator!Expected
        <5>5. j <= Len(seps)
          BY <5>2, <5>4 DEF Locator!Behind
        <5> QED
          BY <5>0, <5>1, <5>5 DEF LocatorInv
      <4> QED
        BY <4>1, <4>2
    <3>3. fields[k] \in [v : Nat, w : Nat]
      <4>1. fields[k] \in Fields
        BY <3>1, <3>2 DEF LocatorInv
      <4> QED
        BY <4>1, PciAssumption DEF Locator!PciLocatorAssumption
    <3>4. /\ items' \in Seq(Nat) /\ Len(items') = k /\ items'[k] = fields[k].v
          /\ \A j \in 1 .. Len(items) : items'[j] = items[j]
          /\ nitems' \in {3, 4} /\ k <= nitems'
          /\ nitems' = IF k = 2 /\ Locator!Behind(k) = ":" THEN 4 ELSE nitems
      <4>1. items' = Append(items, fields[k].v) /\ fields[k].v \in Nat
        BY <2>1, <2>4, <3>3
      <4>2. /\ items' \in Seq(Nat) /\ Len(items') = k /\ items'[k] = fields[k].v
            /\ \A j \in 1 .. Len(items) : items'[j] = items[j]
        BY <3>0, <4>1
      <4> QED
        BY <2>1, <2>4, <3>1, <4>2
    <3>5. \A j \in 1 .. k : Locator!Behind(j) \in Locator!Expected(j, nitems')
      <4>1. \A j \in 1 .. k : Locator!Behind(j) \in Locator!Expected(j, nitems)
        BY <2>4, <3>1 DEF LocatorInv, ItemFits
      <4>2. CASE nitems' = nitems
        BY <4>1, <4>2
      <4>3. CASE k = 2
        BY <4>1, <4>3 DEF Locator!Expected
      <4> QED
        BY <3>4, <4>2, <4>3
    <3>6. \A j \in 1 .. k : items'[j] = fields[j].v /\ fields[j].w > 0
      BY <2>4, <3>1, <3>4, SMTT(60) DEF LocatorInv, ItemFits
    <3>7. nitems' = 4 <=> k >= 2 /\ Locator!Behind(2) = ":"
      BY <3>1, <3>4 DEF LocatorInv
    <3>9. \A j \in 1 .. k : ItemFits(j)'
      BY <2>1, <2>2, <3>5, <3>6 DEF ItemFits, Locator!Expected
    <3> QED
      BY <2>1, <2>2, <2>4, <3>2, <3>4, <3>6, <3>7, <3>9 DEF LocatorInv
  <2> QED
    BY <2>3, <2>4
<1>2. CASE Locator!Check
  BY <1>2 DEF LocatorInv, Locator!Check, ItemFits, Locator!Behind, Locator!Location, Locator!Valid
<1> QED
  BY <1>1, <1>2 DEF Locator!Next

(* What the parsers have read so far is true of the locator in every state.*)
LEMMA LocatorInvariant == Spec => [](part = "locator" => LocatorInv)
<1>1. Init => (part = "locator" => LocatorInv)
  <2> SUFFICES ASSUME Locator!Init PROVE LocatorInv
    BY DEF Init
  <2>1. PICK n \in 0 .. 3 : /\ seps \in [1 .. n -> {":", "."}]
                            /\ fields \in [1 .. (n + 1) -> Fields]
                            /\ tail \in BOOLEAN
                            /\ items = << >> /\ nitems = 3 /\ efi = "parsing"
    BY DEF Locator!Init
  <2> QED
    BY <2>1 DEF LocatorInv
<1>2. (part = "locator" => LocatorInv) /\ [Next]_vars => (part = "locator" => LocatorInv)'
  <2> SUFFICES ASSUME part = "locator" => LocatorInv, [Next]_vars
               PROVE  (part = "locator" => LocatorInv)'
    OBVIOUS
  <2>1. CASE LocatorStep
    BY <2>1, LocatorStepKeepsInv DEF LocatorStep
  <2>2. CASE UNCHANGED <<part, locatorVars>>
    BY <2>2 DEF locatorVars, LocatorInv, ItemFits, Locator!Behind, Locator!Location,
                Locator!Valid
  <2> QED
    BY <2>1, <2>2 DEF Next, vars, LinuxStep, EfiStep, PollStep, RegistersStep
<1> QED
  BY <1>1, <1>2, PTL DEF Spec

(* The name of a device, in full or without its domain.                    *)
InFull(d) ==
  /\ seps = <<":", ":", ".">> /\ ~tail
  /\ fields = [k \in 1 .. 4 |-> Locator!Written(d[k], Width[k])]
InShort(d) ==
  /\ seps = <<":", ".">> /\ ~tail /\ d[1] = 0
  /\ fields = [k \in 1 .. 3 |-> Locator!Written(d[k + 1], Width[k + 1])]

(* One element in front of a sequence.                                     *)
LEMMA Prepend ==
  ASSUME NEW S, NEW z \in S, NEW q \in Seq(S), NEW t \in Seq(S)
  PROVE  <<z>> \o q = t <=>
           /\ Len(t) = Len(q) + 1
           /\ t[1] = z
           /\ \A k \in 1 .. Len(q) : t[k + 1] = q[k]
<1> DEFINE one == <<z>>
           n == Len(q)
           l == one \o q
<1>1. one \in Seq(S) /\ Len(one) = 1 /\ one[1] = z /\ n \in Nat
  OBVIOUS
<1> HIDE DEF one
<1>2. /\ l \in Seq(S) /\ Len(l) = Len(one) + n
      /\ \A k \in 1 .. Len(one) + n : l[k] = IF k <= Len(one) THEN one[k] ELSE q[k - Len(one)]
  BY <1>1, ConcatProperties
<1> HIDE DEF n, l
<1>3. Len(l) = n + 1 /\ l[1] = z /\ \A k \in 1 .. n : l[k + 1] = q[(k + 1) - 1]
  BY <1>1, <1>2
<1>4. \A k \in 1 .. n : (k + 1) - 1 = k
  BY <1>1
<1>5. \A k \in 1 .. (n + 1) : k = 1 \/ (k - 1 \in 1 .. n /\ (k - 1) + 1 = k)
  BY <1>1
<1>6. ASSUME Len(t) = n + 1, t[1] = z, \A k \in 1 .. n : t[k + 1] = q[k]
      PROVE  l = t
  <2>1. \A k \in 1 .. n : l[k + 1] = t[k + 1]
    BY <1>3, <1>4, <1>6
  <2>2. \A k \in 1 .. (n + 1) : l[k] = t[k]
    BY <1>3, <1>5, <1>6, <2>1
  <2> QED
    BY <1>2, <1>3, <1>6, <2>2, SeqEqual
<1>7. l = t => Len(t) = n + 1 /\ t[1] = z /\ \A k \in 1 .. n : t[k + 1] = q[k]
  BY <1>3, <1>4
<1> QED
  BY <1>6, <1>7 DEF l, n, one

(* What is known of a place.                                               *)
LEMMA PlaceOf ==
  ASSUME NEW d \in Devices
  PROVE  /\ d \in [1 .. 4 -> Nat] /\ d \in Seq(Nat) /\ Len(d) = 4
         /\ \A k \in 1 .. 4 : d[k] % LocatorWord <= Limit[k] /\ Width[k] > 0
<1>1. d \in [1 .. 4 -> Nat] /\ Width \in [1 .. 4 -> Nat \ {0}]
      /\ Limit \in [1 .. 4 -> 0 .. (LocatorWord - 1)] /\ LocatorWord \in Nat
      /\ \A k \in 1 .. 4 : d[k] <= Limit[k]
  BY PciAssumption DEF Locator!PciLocatorAssumption
<1>2. ASSUME NEW k \in 1 .. 4  PROVE d[k] % LocatorWord <= Limit[k] /\ Width[k] > 0
  <2>1. /\ d[k] \in Nat /\ Limit[k] \in 0 .. (LocatorWord - 1) /\ d[k] <= Limit[k]
        /\ Width[k] \in Nat \ {0}
    BY <1>1
  <2>2. d[k] % LocatorWord = d[k]
    BY <1>1, <2>1
  <2> QED
    BY <2>1, <2>2
<1>3. d \in Seq(Nat) /\ Len(d) = 4
  <2>1. d \in UNION {[1 .. n -> Nat] : n \in Nat}
    BY <1>1
  <2>2. d \in Seq(Nat)
    BY <2>1, SeqDef
  <2>3. DOMAIN d = 1 .. Len(d) /\ Len(d) \in Nat
    BY <2>2, LenProperties
  <2> QED
    BY <1>1, <2>2, <2>3
<1> QED
  BY <1>1, <1>2, <1>3

(* EFI accepts a device's name, and takes it for that device.              *)
LEMMA EfiReadsNames ==
  ASSUME LocatorInv, efi # "parsing", NEW d \in Devices, InFull(d) \/ InShort(d)
  PROVE  efi = "parsed" /\ Locator!Location = d
<1>1. /\ d \in [1 .. 4 -> Nat] /\ d \in Seq(Nat) /\ Len(d) = 4
      /\ \A k \in 1 .. 4 : d[k] % LocatorWord <= Limit[k] /\ Width[k] > 0
  BY PlaceOf
<1> DEFINE m == Len(items)
<1>2. m \in Nat /\ nitems \in {3, 4} /\ m <= nitems /\ items \in Seq(Nat)
  BY DEF LocatorInv
<1>3. CASE InFull(d)
  <2>1. /\ Locator!Behind(1) = ":" /\ Locator!Behind(2) = ":" /\ Locator!Behind(3) = "."
        /\ Locator!Behind(4) = "end"
    BY <1>3 DEF InFull, Locator!Behind
  <2>2. \A k \in 1 .. 4 : fields[k].w > 0 /\ fields[k].v = d[k]
    BY <1>1, <1>3 DEF InFull, Locator!Written
  <2>3. nitems = 4 <=> m >= 2
    BY <2>1 DEF LocatorInv
  <2> HIDE DEF m
  <2>4. ASSUME m < nitems  PROVE ItemFits(m + 1)
    <3>1. m = 0 \/ m = 1 \/ (m = 2 /\ nitems = 4) \/ (m = 3 /\ nitems = 4)
      BY <1>2, <2>3, <2>4
    <3> QED
      BY <2>1, <2>2, <3>1 DEF ItemFits, Locator!Expected
  <2>5. m = nitems => m = 4
    BY <1>2, <2>3
  <2>6. ASSUME m = nitems  PROVE Locator!Location = d /\ Locator!Valid(Locator!Location)
    <3>1. items = d
      <4>1. \A k \in 1 .. 4 : items[k] = d[k]
        BY <2>2, <2>5, <2>6 DEF LocatorInv, m
      <4>2. Len(items) = 4 /\ items \in Seq(Nat)
        BY <1>2, <2>5, <2>6 DEF m
      <4>3. d \in Seq(Nat) /\ Len(items) = Len(d) /\ \A k \in 1 .. Len(items) : items[k] = d[k]
        BY <1>1, <4>1, <4>2
      <4> HIDE DEF m
      <4> QED
        BY <1>2, <4>3, SeqEqual
    <3> QED
      BY <1>1, <2>5, <2>6, <3>1 DEF Locator!Location, Locator!Valid
  <2> QED
    BY <1>2, <2>4, <2>6 DEF LocatorInv, m
<1>4. CASE InShort(d)
  <2>1. /\ Locator!Behind(1) = ":" /\ Locator!Behind(2) = "." /\ Locator!Behind(3) = "end"
    BY <1>4 DEF InShort, Locator!Behind
  <2>2. \A k \in 1 .. 3 : fields[k].w > 0 /\ fields[k].v = d[k + 1]
    BY <1>1, <1>4 DEF InShort, Locator!Written
  <2>3. nitems = 3
    BY <2>1 DEF LocatorInv
  <2> HIDE DEF m
  <2>4. ASSUME m < nitems  PROVE ItemFits(m + 1)
    <3>1. m = 0 \/ m = 1 \/ m = 2
      BY <1>2, <2>3, <2>4
    <3> QED
      BY <2>1, <2>2, <2>3, <3>1 DEF ItemFits, Locator!Expected
  <2>5. ASSUME m = nitems  PROVE Locator!Location = d /\ Locator!Valid(Locator!Location)
    <3>1. \A k \in 1 .. 3 : items[k] = d[k + 1]
      BY <2>2, <2>3, <2>5 DEF LocatorInv, m
    <3>2. Len(items) = 3 /\ items \in Seq(Nat)
      BY <1>2, <2>3, <2>5 DEF m
    <3>3. d[1] = 0
      BY <1>4 DEF InShort
    <3>4. <<0>> \o items = d
      <4> DEFINE S == Nat
                 z == 0
      <4>1. /\ z \in S /\ items \in Seq(S) /\ d \in Seq(S) /\ Len(d) = Len(items) + 1 /\ d[1] = z
            /\ \A k \in 1 .. Len(items) : d[k + 1] = items[k]
        BY <1>1, <3>1, <3>2, <3>3
      <4> HIDE DEF S, z
      <4>2. <<z>> \o items = d
        BY <4>1, Prepend
      <4> QED
        BY <4>2 DEF z
    <3> QED
      BY <1>1, <2>3, <3>4 DEF Locator!Location, Locator!Valid
  <2> QED
    BY <1>2, <2>4, <2>5 DEF LocatorInv, m
<1> QED
  BY <1>3, <1>4

(* Linux finds exactly the devices whose name the locator is.              *)
LEMMA LinuxFindsNames ==
  ASSUME LocatorInv, NEW d \in Devices
  PROVE  d \in Locator!LinuxFinds <=> InFull(d) \/ InShort(d)
<1> DEFINE R == [v : Nat, w : Nat]
           Field(k) == Locator!Written(d[k], Width[k])
           f == [k \in 1 .. 4 |-> Field(k)]
           s == <<":", ":", ".">>
           z == Locator!Written(0, Width[1])
           name == [fields |-> f, seps |-> s, tail |-> FALSE]
           colons == {k \in DOMAIN seps : seps[k] = ":"}
<1>1. /\ seps \in Seq({":", "."}) /\ fields \in Seq(R) /\ Len(fields) = Len(seps) + 1
      /\ Len(seps) \in Nat /\ tail \in BOOLEAN
  <2>1. Fields \subseteq R /\ fields \in Seq(Fields)
    BY PciAssumption DEF LocatorInv, Locator!PciLocatorAssumption
  <2> HIDE DEF R
  <2>2. fields \in Seq(R)
    BY <2>1, SeqMonotonic
  <2>3. Len(seps) \in Nat
    BY LenProperties DEF LocatorInv
  <2> QED
    BY <2>2, <2>3 DEF LocatorInv
<1>2. /\ \A k \in 1 .. 4 : d[k] \in Nat /\ Field(k) \in R /\ (k = 1 /\ Field(k) = z => d[k] = 0)
      /\ z \in R
  <2>1. d \in [1 .. 4 -> Nat] /\ Width \in [1 .. 4 -> Nat \ {0}]
    BY PlaceOf, PciAssumption DEF Locator!PciLocatorAssumption
  <2> QED
    BY <2>1 DEF Locator!Written
<1>3. f \in Seq(R) /\ Len(f) = 4 /\ \A k \in 1 .. 4 : f[k] = Field(k)
  <2> HIDE DEF Field, R
  <2>1. f \in [1 .. 4 -> R] /\ \A k \in 1 .. 4 : f[k] = Field(k)
    BY <1>2
  <2> HIDE DEF f
  <2>2. f \in UNION {[1 .. n -> R] : n \in Nat}
    BY <2>1
  <2>3. f \in Seq(R)
    BY <2>2, SeqDef
  <2>4. DOMAIN f = 1 .. Len(f) /\ Len(f) \in Nat
    BY <2>3, LenProperties
  <2> QED
    BY <2>1, <2>3, <2>4
<1>4. s \in Seq({":", "."}) /\ Len(s) = 3 /\ s[1] = ":" /\ s[2] = ":" /\ s[3] = "."
  OBVIOUS
<1>5. Locator!LocatorParts = Cardinality(colons) + 1
  BY DEF Locator!LocatorParts, Locator!Cardinality, Cardinality
<1>6. InFull(d) => Cardinality(colons) = 2
  <2>1. InFull(d) => colons = {1, 2}
    BY DEF InFull
  <2> HIDE DEF colons
  <2>2. Cardinality({1, 2}) = 2
    <3> DEFINE one == {1}
    <3>1. {1, 2} = one \cup {2} /\ 2 \notin one
      OBVIOUS
    <3>2. IsFiniteSet(one) /\ Cardinality(one) = 1
      BY FS_Singleton
    <3> HIDE DEF one
    <3>3. Cardinality(one \cup {2}) = Cardinality(one) + 1
      BY <3>1, <3>2, FS_AddElement
    <3> QED
      BY <3>1, <3>2, <3>3
  <2> QED
    BY <2>1, <2>2
<1>7. InShort(d) => Cardinality(colons) = 1
  <2>1. InShort(d) => colons = {1}
    BY DEF InShort
  <2> HIDE DEF colons
  <2> QED
    BY <2>1, FS_Singleton
<1>8. InFull(d) <=> seps = s /\ fields = f /\ tail = FALSE
  BY <1>1 DEF InFull
<1>9. /\ Locator!LocatorParts = 3 => (Locator!Path = name <=> seps = s /\ fields = f /\ tail = FALSE)
      /\ Locator!LocatorParts = 2 =>
           (Locator!Path = name <=> <<":">> \o seps = s /\ <<z>> \o fields = f /\ tail = FALSE)
  <2>1. Locator!LocatorParts = 3 => Locator!Path = [fields |-> fields, seps |-> seps, tail |-> tail]
    BY DEF Locator!Path
  <2>2. Locator!LocatorParts = 2 =>
          Locator!Path = [fields |-> <<z>> \o fields, seps |-> <<":">> \o seps, tail |-> tail]
    BY DEF Locator!Path
  <2> HIDE DEF s, f, z
  <2>3. ASSUME NEW a, NEW b, Locator!Path = [fields |-> a, seps |-> b, tail |-> tail]
        PROVE  Locator!Path = name <=> b = s /\ a = f /\ tail = FALSE
    BY <2>3
  <2> HIDE DEF name
  <2> QED
    BY <2>1, <2>2, <2>3
<1>10. InShort(d) <=> <<":">> \o seps = s /\ <<z>> \o fields = f /\ tail = FALSE
  <2>1. <<":">> \o seps = s <=> seps = <<":", ".">>
    <3>1. <<":">> \o seps = s <=>
            Len(s) = Len(seps) + 1 /\ s[1] = ":" /\ \A k \in 1 .. Len(seps) : s[k + 1] = seps[k]
      <4> DEFINE S == {":", "."}
                 c == ":"
      <4>1. c \in S /\ seps \in Seq(S) /\ s \in Seq(S)
        BY <1>1, <1>4
      <4> HIDE DEF s, S, c
      <4>2. <<c>> \o seps = s <=>
              /\ Len(s) = Len(seps) + 1
              /\ s[1] = c
              /\ \A k \in 1 .. Len(seps) : s[k + 1] = seps[k]
        BY <4>1, Prepend, SMTT(30)
      <4> QED
        BY <4>2 DEF c
    <3>4. Len(s) = Len(seps) + 1 <=> Len(seps) = 2
      <4>1. Len(s) = 3 /\ Len(seps) \in Nat
        BY <1>1, <1>4
      <4> DEFINE n == Len(seps)
      <4> HIDE DEF s, n
      <4>2. n \in Nat => (3 = n + 1 <=> n = 2)
        OBVIOUS
      <4> QED
        BY <4>1, <4>2 DEF n
    <3>5. (\A k \in 1 .. 2 : s[k + 1] = seps[k]) <=> seps[1] = s[1 + 1] /\ seps[2] = s[2 + 1]
      <4> HIDE DEF s
      <4>1. 1 .. 2 = {1, 2}
        OBVIOUS
      <4> QED
        BY <4>1
    <3> HIDE DEF s
    <3>2. <<":">> \o seps = s <=> Len(seps) = 2 /\ seps[1] = s[1 + 1] /\ seps[2] = s[2 + 1]
      BY <1>4, <3>1, <3>4, <3>5
    <3>3. seps = <<":", ".">> <=> Len(seps) = 2 /\ seps[1] = ":" /\ seps[2] = "."
      BY <1>1
    <3> QED
      BY <1>4, <3>2, <3>3
  <2>2. ASSUME seps = <<":", ".">>
        PROVE  <<z>> \o fields = f <=>
                 d[1] = 0 /\ fields = [k \in 1 .. 3 |-> Field(k + 1)]
    <3>1. Len(fields) = 3
      BY <1>1, <2>2
    <3> HIDE DEF f, z, R, Field
    <3>2. <<z>> \o fields = f <=> f[1] = z /\ \A k \in 1 .. 3 : f[k + 1] = fields[k]
      <4>1. <<z>> \o fields = f <=>
              Len(f) = Len(fields) + 1 /\ f[1] = z /\ \A k \in 1 .. Len(fields) : f[k + 1] = fields[k]
        <5>1. z \in R /\ fields \in Seq(R) /\ f \in Seq(R)
          BY <1>1, <1>2, <1>3
        <5> QED
          BY <5>1, Prepend
      <4> QED
        BY <1>3, <3>1, <4>1
    <3>3. \A k \in 1 .. 3 : f[k + 1] = Field(k + 1)
      BY <1>3
    <3>4. fields \in [1 .. 3 -> R]
      BY <1>1, <3>1, LenProperties
    <3>5. fields = [k \in 1 .. 3 |-> Field(k + 1)] <=> \A k \in 1 .. 3 : fields[k] = Field(k + 1)
      BY <3>4
    <3>6. f[1] = z <=> d[1] = 0
      BY <1>2, <1>3 DEF z, Field
    <3> QED
      BY <3>2, <3>3, <3>5, <3>6
  <2>3. InShort(d) <=> /\ seps = <<":", ".">> /\ tail = FALSE
                       /\ d[1] = 0 /\ fields = [k \in 1 .. 3 |-> Field(k + 1)]
    BY <1>1 DEF InShort
  <2> HIDE DEF s, f, z, Field
  <2> QED
    BY <2>1, <2>2, <2>3
<1>11. d \in Locator!LinuxFinds <=> Locator!LocatorParts \in {2, 3} /\ Locator!Path = name
  BY DEF Locator!LinuxFinds, Locator!Name
<1> HIDE DEF colons, name, s, f, z
<1> QED
  BY <1>5, <1>6, <1>7, <1>8, <1>9, <1>10, <1>11

(* ggl_pci.h:50-54: every device is found under both its names by both     *)
(* implementations, what EFI finds has the numbers of the locator, and what*)
(* Linux finds EFI finds too, for any widths and limits of the numbers.    *)
THEOREM LocatorsNameOne == Spec => []LocatorsAgree
<1>1. (part = "locator" => LocatorInv) => LocatorsAgree
  <2> SUFFICES ASSUME LocatorInv, efi \in {"parsed", "failed"} PROVE Locator!LocatorsAgree
    BY DEF LocatorsAgree, Locator!LocatorsAgree
  <2> DEFINE full == [fields |-> fields, seps |-> seps, tail |-> tail]
             Named(d) == \/ full = Locator!Name(d)
                         \/ /\ d[1] = 0 /\ ~tail /\ seps = <<":", ".">>
                            /\ fields = Tail(Locator!Name(d).fields)
  <2>1. ASSUME NEW d \in Devices, InFull(d) \/ InShort(d)  PROVE d \in Locator!EfiFinds
    BY <2>1, EfiReadsNames DEF Locator!EfiFinds
  <2>2. ASSUME NEW d \in Devices, Named(d)  PROVE InFull(d) \/ InShort(d)
    <3>1. CASE full = Locator!Name(d)
      BY <3>1 DEF InFull, Locator!Name
    <3>2. CASE d[1] = 0 /\ ~tail /\ seps = <<":", ".">> /\ fields = Tail(Locator!Name(d).fields)
      <4>1. Tail([k \in 1 .. 4 |-> Locator!Written(d[k], Width[k])])
              = [k \in 1 .. 3 |-> Locator!Written(d[k + 1], Width[k + 1])]
        OBVIOUS
      <4> QED
        BY <3>2, <4>1 DEF InShort, Locator!Name
    <3> QED
      BY <2>2, <3>1, <3>2
  <2>3. ASSUME NEW d \in Locator!EfiFinds
        PROVE  [k \in DOMAIN fields |-> fields[k].v] \in {d, Tail(d)}
    <3> DEFINE n == nitems
    <3>1. /\ efi = "parsed" /\ d = Locator!Location /\ Len(items) = n /\ n \in {3, 4}
          /\ items \in Seq(Nat) /\ n <= Len(fields)
      BY <2>3 DEF Locator!EfiFinds, LocatorInv
    <3>2. n \in 1 .. Len(items)
      BY <3>1
    <3>3. Locator!Behind(n) \in Locator!Expected(n, n)
      BY <3>1, <3>2 DEF LocatorInv, ItemFits
    <3>4. Locator!Expected(n, n) = {"end"}
      BY <3>1 DEF Locator!Expected
    <3>5. ~(n <= Len(seps))
      <4>1. CASE n <= Len(seps)
        <5>1. seps[n] \in {":", "."}
          BY <3>1, <4>1 DEF LocatorInv
        <5> QED
          BY <3>3, <3>4, <4>1, <5>1 DEF Locator!Behind
      <4> QED
        BY <4>1
    <3>6. DOMAIN fields = 1 .. n
      <4>1. Len(fields) = Len(seps) + 1 /\ Len(seps) \in Nat /\ DOMAIN fields = 1 .. Len(fields)
        BY LenProperties DEF LocatorInv
      <4> QED
        BY <3>1, <3>5, <4>1
    <3>7. items = [k \in DOMAIN fields |-> fields[k].v]
      <4>1. \A k \in 1 .. n : items[k] = fields[k].v
        BY <3>1 DEF LocatorInv
      <4>2. items \in [1 .. n -> Nat]
        BY <3>1, LenProperties
      <4> QED
        BY <3>6, <4>1, <4>2
    <3>8. items = Tail(<<0>> \o items)
      BY <3>1
    <3> QED
      BY <3>1, <3>7, <3>8 DEF Locator!Location
  <2>4. Locator!LinuxFinds \subseteq Devices
    BY DEF Locator!LinuxFinds
  <2>5. ASSUME NEW d \in Devices, Named(d)  PROVE d \in Locator!LinuxFinds \cap Locator!EfiFinds
    BY <2>1, <2>2, <2>5, LinuxFindsNames
  <2>6. Locator!LinuxFinds \subseteq Locator!EfiFinds
    BY <2>1, <2>4, LinuxFindsNames
  <2> QED
    BY <2>3, <2>5, <2>6 DEF Locator!LocatorsAgree
<1> QED
  BY <1>1, LocatorInvariant, PTL
=============================================================================
