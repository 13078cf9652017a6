------------------------------- MODULE PciEfi -------------------------------
(***************************************************************************)
(* ggl_pci_open and ggl_pci_close of efi/ggl_pci.c: a PCI device is found  *)
(* by asking every handle with a PCI I/O protocol for its location.  Each  *)
(* step may fail; whatever happens, the protocols opened on other handles  *)
(* are closed and the memory is freed.                                     *)
(***************************************************************************)
EXTENDS Integers

CONSTANTS
  NumHandles, \* the handles with the protocol are 1 .. NumHandles
  Locations,  \* domain:bus:device.function, as one value
  MaxDevices  \* bound on the devices the program has open

PciEfiAssumption ==
  MaxDevices \in Nat /\ NumHandles \in Nat

NULL == 0
Handle == 1 .. NumHandles

VARIABLES
  locationOf,  \* where the device of each handle is
  pc,          \* "idle", or the next step of the call in progress
  location,    \* pdev->location of the device being opened
  i,           \* the handle the loop of lookup_pci_device is at
  opened,      \* for each handle, how often the protocol is open
  buffer,      \* HandleBuffer is allocated
  blocks,      \* ggl_pci_devices allocated
  devices      \* the program's devices: handle -> how many

vars == <<locationOf, pc, location, i, opened, buffer, blocks, devices>>

Total(f) ==
  LET sum[k \in 0 .. NumHandles] == IF k = 0 THEN 0 ELSE sum[k - 1] + f[k]
  IN sum[NumHandles]

(* No two devices are at one place.                                        *)
Init ==
  /\ locationOf \in [Handle -> Locations]
  /\ \A h, g \in Handle : locationOf[h] = locationOf[g] => h = g
  /\ pc = "idle" /\ location \in Locations /\ i = NULL
  /\ opened = [h \in Handle |-> 0]
  /\ buffer = FALSE /\ blocks = 0
  /\ devices = [h \in Handle |-> 0]

(* malloc, and parse_pci_address of a locator for the place l.  If one     *)
(* fails nothing is left.                                                  *)
Open(l) ==
  /\ pc = "idle" /\ Total(devices) < MaxDevices
  /\ pc' = "locate" /\ location' = l /\ blocks' = blocks + 1
  /\ UNCHANGED <<locationOf, i, opened, buffer, devices>>

(* free(pdev), return NULL.                                                *)
GiveUp == pc' = "idle" /\ blocks' = blocks - 1

LocateHandleBuffer ==
  /\ pc = "locate"
  /\ \/ GiveUp /\ UNCHANGED <<i, buffer>>
     \/ pc' = "lookup" /\ i' = 1 /\ buffer' = TRUE /\ UNCHANGED blocks
  /\ UNCHANGED <<locationOf, location, opened, devices>>

(* OpenProtocol fails: the loop goes on.                                   *)
OpenProtocolFails ==
  /\ pc = "lookup" /\ i \in Handle
  /\ i' = i + 1
  /\ UNCHANGED <<locationOf, pc, location, opened, buffer, blocks, devices>>

LookupLeavesOpen ==
  /\ pc = "lookup" /\ i \in Handle
  /\ opened' = [opened EXCEPT ![i] = @ + 1]
  /\ IF locationOf[i] = location
     THEN pc' = "enable" /\ buffer' = FALSE /\ UNCHANGED i
     ELSE i' = i + 1 /\ UNCHANGED <<pc, buffer>>
  /\ UNCHANGED <<locationOf, location, blocks, devices>>

(* The handle opens.  If it tells its place and that is the one, it stays  *)
(* open and the loop ends; otherwise it is closed again.                   *)
Lookup ==
  /\ pc = "lookup" /\ i \in Handle
  /\ \/ /\ locationOf[i] = location
        /\ opened' = [opened EXCEPT ![i] = @ + 1]
        /\ pc' = "enable" /\ buffer' = FALSE
        /\ UNCHANGED i
     \/ /\ i' = i + 1
        /\ UNCHANGED <<pc, opened, buffer>>
  /\ UNCHANGED <<locationOf, location, blocks, devices>>

NotFound ==
  /\ pc = "lookup" /\ i \notin Handle
  /\ buffer' = FALSE
  /\ GiveUp
  /\ UNCHANGED <<locationOf, location, i, opened, devices>>

(* enable_pci_accesses() works and the program has its device, or it fails *)
(* and the device is closed.                                               *)
Enable ==
  /\ pc = "enable"
  /\ \/ /\ devices' = [devices EXCEPT ![i] = @ + 1]
        /\ pc' = "idle"
        /\ UNCHANGED <<opened, blocks>>
     \/ /\ opened' = [opened EXCEPT ![i] = @ - 1]
        /\ GiveUp
        /\ UNCHANGED devices
  /\ UNCHANGED <<locationOf, location, i, buffer>>

Close(h) ==
  /\ pc = "idle" /\ devices[h] > 0
  /\ opened' = [opened EXCEPT ![h] = @ - 1]
  /\ devices' = [devices EXCEPT ![h] = @ - 1]
  /\ blocks' = blocks - 1
  /\ UNCHANGED <<locationOf, pc, location, i, buffer>>

Next ==
  \/ \E l \in Locations : Open(l)
  \/ LocateHandleBuffer \/ OpenProtocolFails \/ Lookup \/ NotFound \/ Enable
  \/ \E h \in Handle : Close(h)

Spec == Init /\ [][Next]_vars

-----------------------------------------------------------------------------
(* Properties.                                                             *)

(* Between calls the protocol is open on the handles of the program's      *)
(* devices, once for each, and nowhere else, and there is a block for each *)
(* device and no handle buffer, wherever an open gave up.                  *)
Balanced ==
  pc = "idle" => opened = devices /\ blocks = Total(devices) /\ ~buffer
=============================================================================
