------------------------------ MODULE PciPoll -------------------------------
(***************************************************************************)
(* ggl_pci_mpoll32 of efi/ggl_pci_linux.cc and of efi/ggl_pci.c: reading a *)
(* register until it has an expected value under a mask or time is up,     *)
(* while the device changes the register and time passes.  On Linux the    *)
(* loop is in the function, under EFI it is the firmware's PollMem.  A     *)
(* 32-bit value is the set of its bits that are 1.                         *)
(***************************************************************************)
EXTENDS Integers

CONSTANTS
  Impls,     \* the implementations: a subset of {"linux", "efi"}
  Bit,       \* the bits of a register
  Timeouts,  \* the values of timeout_usecs
  Word,      \* number of values of unsigned int
  MaxTime    \* bound on the time that passes, in microseconds

PciPollAssumption ==
  /\ Impls \subseteq {"linux", "efi"} /\ Bit \subseteq Nat
  /\ Word \in Nat \ {0} /\ MaxTime \in Nat
  /\ Timeouts \subseteq 0 .. (Word - 1)

Value == SUBSET Bit
Unset == {-1}   \* no value yet
Running == -2

VARIABLES
  impl, mask, expected_val, timeout_usecs,
  reg,       \* the register
  readable,  \* reading it works
  now,       \* time since the call, in units of 100 ns
  pc,        \* "call", "read", "check", "done"
  val,       \* the value read last
  last_val,  \* the caller's variable
  result     \* the value returned

vars == <<impl, mask, expected_val, timeout_usecs, reg, readable, now, pc, val,
          last_val, result>>
args == <<impl, mask, expected_val, timeout_usecs>>

Init ==
  /\ impl \in Impls /\ mask \in Value /\ expected_val \in Value
  /\ timeout_usecs \in Timeouts
  /\ reg \in Value /\ readable \in BOOLEAN
  /\ now = 0 /\ pc = "call"
  /\ val = Unset /\ last_val = Unset /\ result = Running

Return(v) == pc' = "done" /\ result' = v

(* The Linux function refuses an expected value with bits outside of the   *)
(* mask; the EFI one masks it.                                             *)
Call ==
  /\ pc = "call"
  /\ IF impl = "linux" /\ ~(expected_val \subseteq mask)
     THEN Return(-1) ELSE pc' = "read" /\ UNCHANGED result
  /\ UNCHANGED <<args, reg, readable, now, val, last_val>>

MatchesUnmasked(v) == v = expected_val

Matches(v) == v \cap mask = expected_val \cap mask

DeadlineRestarted == now + timeout_usecs * 10

(* PollMem is given the timeout in units of 100 ns, computed in 32 bits;   *)
(* the deadline of the Linux function is a 64-bit time.                    *)
Deadline ==
  IF impl = "linux" THEN timeout_usecs * 10 ELSE (timeout_usecs * 10) % Word

(* *last_val = Result under EFI, whatever happened; on Linux only when the *)
(* value has matched.                                                      *)
StoreLast(stored, v) == last_val' = IF stored THEN v ELSE last_val

Read ==
  /\ pc = "read"
  /\ IF ~readable
     THEN /\ Return(-1) /\ UNCHANGED val
          /\ StoreLast(impl = "efi", Bit)   \* Result is still ~0
     ELSE /\ val' = reg
          /\ IF Matches(reg)
             THEN Return(0) /\ StoreLast(TRUE, reg)
             ELSE /\ pc' = "check"
                  /\ UNCHANGED <<result, last_val>>
  /\ UNCHANGED <<args, reg, readable, now>>

CheckEarly ==
  /\ pc = "check"
  /\ IF now >= Deadline - 10
     THEN Return(1) /\ StoreLast(impl = "efi", val)
     ELSE pc' = "read" /\ UNCHANGED <<result, last_val>>
  /\ UNCHANGED <<args, reg, readable, now, val>>

Check ==
  /\ pc = "check"
  /\ IF now > Deadline
     THEN Return(1) /\ StoreLast(impl = "efi", val)
     ELSE pc' = "read" /\ UNCHANGED <<result, last_val>>
  /\ UNCHANGED <<args, reg, readable, now, val>>

(* The device, at any time; it may also stop answering.                    *)
DeviceChanges ==
  /\ pc \in {"read", "check"}
  /\ reg' \in Value \ {reg}
  /\ UNCHANGED <<args, readable, now, pc, val, last_val, result>>

DeviceFails ==
  /\ pc \in {"read", "check"} /\ readable
  /\ readable' = FALSE
  /\ UNCHANGED <<args, reg, now, pc, val, last_val, result>>

Tick ==
  /\ pc \in {"read", "check"} /\ now < 10 * MaxTime
  /\ now' = now + 5
  /\ UNCHANGED <<args, reg, readable, pc, val, last_val, result>>

Next == Call \/ Read \/ Check \/ DeviceChanges \/ DeviceFails \/ Tick

(* The loop runs on, and so does time.                                     *)
Spec == Init /\ [][Next]_vars /\ WF_vars(Call \/ Read \/ Check) /\ WF_vars(Tick)

-----------------------------------------------------------------------------
(* Properties.                                                             *)

(* ggl_pci.h:104-109: 0 means that a value was read that is as expected    *)
(* under the mask, 1 that none of the values read was, to the last.        *)
ResultTellsValue ==
  /\ result = 0 => /\ val # Unset /\ val \cap mask = expected_val \cap mask
                   /\ last_val = val
  /\ result = 1 => val # Unset /\ val \cap mask # expected_val \cap mask

(* The call does not give up before timeout_usecs are over.                *)
NotBeforeTimeout == result = 1 => now >= 10 * timeout_usecs

(* The call returns even if the device never shows the expected value.     *)
Returns == <>(pc = "done")
=============================================================================
