-------------------------------- MODULE Pci ---------------------------------
(***************************************************************************)
(* efi/ggl_pci.h and its two implementations: what a locator names to      *)
(* both, opening and closing devices under Linux and under EFI, accesses,  *)
(* and a poll of a register by either.  A program is built with one of     *)
(* them and its calls do not overlap, so a behaviour is of one of Parts,   *)
(* chosen at the start.                                                    *)
(***************************************************************************)
EXTENDS Integers, Sequences

CONSTANTS
  Parts,                                                          \* which components
  kMaxPciBars, SizeWord, Unsigned, BarSize, ConfigSize, Offsets,  \* of PciLinux
  NumHandles, Locations, MaxDevices,                              \* of PciEfi
  Impls, Bit, Timeouts, PollWord, MaxTime,                        \* of PciPoll
  Fields, Other, Width, Limit, LocatorWord, Devices,              \* of PciLocator
  Numbers, Poison, Size                                           \* of PciRegisters

VARIABLES part,
  wide, present, mappable, pc, bar_offset, bar_index, bars, live, fd, lost, mapped,
  access,
  locationOf, epc, location, i, opened, buffer, blocks, devices,
  impl, mask, expected_val, timeout_usecs, reg, readable, now, ppc, val, last_val,
  result,
  fields, seps, tail, items, nitems, efi,
  big, space, rval, op

Linux == INSTANCE PciLinux WITH Word <- SizeWord
Efi == INSTANCE PciEfi WITH pc <- epc
Poll == INSTANCE PciPoll WITH Word <- PollWord, pc <- ppc
Locator == INSTANCE PciLocator WITH Word <- LocatorWord
Registers == INSTANCE PciRegisters WITH val <- rval

ASSUME PciAssumption ==
  /\ Linux!PciLinuxAssumption /\ Efi!PciEfiAssumption /\ Poll!PciPollAssumption
  /\ Locator!PciLocatorAssumption /\ Registers!PciRegistersAssumption

linuxVars == <<wide, present, mappable, pc, bar_offset, bar_index, bars, live, fd, lost,
               mapped, access>>
efiVars == <<locationOf, epc, location, i, opened, buffer, blocks, devices>>
pollVars == <<impl, mask, expected_val, timeout_usecs, reg, readable, now, ppc, val,
              last_val, result>>
locatorVars == <<fields, seps, tail, items, nitems, efi>>
registerVars == <<big, space, rval, op>>
vars == <<part, linuxVars, efiVars, pollVars, locatorVars, registerVars>>
Off == "off"

LinuxOff ==
  /\ wide = Off /\ present = Off /\ mappable = Off /\ pc = Off /\ bar_offset = Off
  /\ bar_index = Off /\ bars = Off /\ live = Off /\ fd = Off /\ lost = Off
  /\ mapped = Off /\ access = Off
EfiOff ==
  /\ locationOf = Off /\ epc = Off /\ location = Off /\ i = Off /\ opened = Off
  /\ buffer = Off /\ blocks = Off /\ devices = Off
PollOff ==
  /\ impl = Off /\ mask = Off /\ expected_val = Off /\ timeout_usecs = Off /\ reg = Off
  /\ readable = Off /\ now = Off /\ ppc = Off /\ val = Off /\ last_val = Off
  /\ result = Off

LocatorOff ==
  /\ fields = Off /\ seps = Off /\ tail = Off /\ items = Off /\ nitems = Off /\ efi = Off
RegistersOff == big = Off /\ space = Off /\ rval = Off /\ op = Off

Init ==
  /\ part \in Parts
  /\ IF part = "linux" THEN Linux!Init ELSE LinuxOff
  /\ IF part = "efi" THEN Efi!Init ELSE EfiOff
  /\ IF part = "poll" THEN Poll!Init ELSE PollOff
  /\ IF part = "locator" THEN Locator!Init ELSE LocatorOff
  /\ IF part = "registers" THEN Registers!Init ELSE RegistersOff

LinuxStep ==
  /\ part = "linux" /\ Linux!Next
  /\ UNCHANGED <<part, efiVars, pollVars, locatorVars, registerVars>>
EfiStep ==
  /\ part = "efi" /\ Efi!Next
  /\ UNCHANGED <<part, linuxVars, pollVars, locatorVars, registerVars>>
PollStep ==
  /\ part = "poll" /\ Poll!Next
  /\ UNCHANGED <<part, linuxVars, efiVars, locatorVars, registerVars>>
LocatorStep ==
  /\ part = "locator" /\ Locator!Next
  /\ UNCHANGED <<part, linuxVars, efiVars, pollVars, registerVars>>
RegistersStep ==
  /\ part = "registers" /\ Registers!Next
  /\ UNCHANGED <<part, linuxVars, efiVars, pollVars, locatorVars>>

Next == LinuxStep \/ EfiStep \/ PollStep \/ LocatorStep \/ RegistersStep

(* The loop of a poll runs on, and so does time.                           *)
Spec ==
  /\ Init /\ [][Next]_vars
  /\ WF_vars(PollStep /\ (Poll!Call \/ Poll!Read \/ Poll!Check))
  /\ WF_vars(PollStep /\ Poll!Tick)

(* BARs are found at the ordinal EFI gives them.                           *)
BarsByOrdinal == part = "linux" => Linux!BarsByOrdinal

(* Exactly the BARs of the open device are mapped.                         *)
MappingsOfDevice == part = "linux" => Linux!MappingsOfDevice

(* Under Linux a successful access touches open config space or a mapped   *)
(* BAR, and nothing past its end but where an offset of 64 bits wraps;     *)
(* under EFI it touches the register it says, in the right byte order.     *)
AccessInside ==
  /\ Linux!AccessInside
  /\ [][part = "registers" => Registers!AccessTrue]_vars

(* Both implementations take a locator for the same device.                *)
LocatorsAgree == part = "locator" => Locator!LocatorsAgree

(* Whatever fails, protocols are closed and memory is freed.               *)
Balanced == part = "efi" => Efi!Balanced

(* 0 and 1 tell truly whether a value read was as expected.                *)
ResultTellsValue == part = "poll" => Poll!ResultTellsValue

(* A poll does not give up before its timeout.                             *)
NotBeforeTimeout == part = "poll" => Poll!NotBeforeTimeout

(* A poll returns.                                                         *)
Returns == <>(part = "poll" => ppc = "done")
=============================================================================
