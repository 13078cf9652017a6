----------------------------- MODULE PciLocator -----------------------------
(***************************************************************************)
(* The locator of a PCI device, "DDDD:BB:dd.f" or "BB:dd.f", as both       *)
(* implementations of ggl_pci_open read it: under EFI it is parsed item by *)
(* item, under Linux it becomes a path that exists in sysfs or not.        *)
(***************************************************************************)
EXTENDS Integers, Sequences, FiniteSets

CONSTANTS
  Fields,   \* numbers as they may be written: [v: value, w: digits]; w = 0
            \* is no digit at all, and Other another way to write it
  Other,    \* w of a number in capitals, or behind 0x
  Width,    \* digits of an item in a sysfs name: domain, bus, device, function
  Limit,    \* the largest value of each
  Word,     \* the values of an unsigned int, of which the masks are made
  Devices   \* places of the devices there are

PciLocatorAssumption ==
  /\ Fields \subseteq [v : Nat, w : Nat] /\ Word \in Nat
  /\ Width \in [1 .. 4 -> Nat \ {0}] /\ Limit \in [1 .. 4 -> 0 .. (Word - 1)]
  /\ Devices \subseteq [1 .. 4 -> Nat] /\ \A d \in Devices, j \in 1 .. 4 : d[j] <= Limit[j]

VARIABLES
  fields, seps, \* the locator: fields with separators between them
  tail,         \* whether more (not a "/") follows the last one
  items,        \* what parse_pci_address has read
  nitems,       \* the items it expects
  efi           \* "parsing", "failed", or "parsed"

vars == <<fields, seps, tail, items, nitems, efi>>

Init ==
  \E n \in 0 .. 3 :
    /\ seps \in [1 .. n -> {":", "."}]
    /\ fields \in [1 .. (n + 1) -> Fields]
    /\ tail \in BOOLEAN
    /\ items = << >> /\ nitems = 3 /\ efi = "parsing"

-----------------------------------------------------------------------------
(* EFI.                                                                    *)

(* What *endptr is behind item k.                                          *)
Behind(k) == IF k <= Len(seps) THEN seps[k] ELSE IF tail THEN "more" ELSE "end"

(* What it may be for the parsing to go on, n items expected.              *)
Expected(k, n) ==
  CASE k = 1 -> {":"}
    [] k = 2 -> {":", "."}
    [] k = 3 -> IF n = 3 THEN {"end"} ELSE {"."}
    [] k = 4 -> {"end"}

(* A digit, then strtoul in base 16, which takes a 0x as well.             *)
Item ==
  /\ efi = "parsing" /\ Len(items) < nitems
  /\ LET k == Len(items) + 1
         colons == k = 2 /\ Behind(k) = ":"
     IN IF fields[k].w > 0 /\ Behind(k) \in Expected(k, nitems)
        THEN /\ items' = Append(items, fields[k].v)
             /\ nitems' = IF colons THEN 4 ELSE nitems
             /\ UNCHANGED efi
        ELSE efi' = "failed" /\ UNCHANGED <<items, nitems>>
  /\ UNCHANGED <<fields, seps, tail>>

LocationDomainLast == IF nitems = 3 THEN Append(items, 0) ELSE items
Location == IF nitems = 3 THEN <<0>> \o items ELSE items

(* result->domain & ~0xffffU and so on.                                    *)
Valid(l) == \A j \in 1 .. 4 : l[j] % Word <= Limit[j]

Check ==
  /\ efi = "parsing" /\ Len(items) = nitems
  /\ efi' = IF Valid(Location) THEN "parsed" ELSE "failed"
  /\ UNCHANGED <<fields, seps, tail, items, nitems>>

Next == Item \/ Check

Spec == Init /\ [][Next]_vars

EfiFinds == {d \in Devices : efi = "parsed" /\ d = Location}

-----------------------------------------------------------------------------
(* Linux.                                                                  *)

Written(v, w) == [v |-> v, w |-> w]
Name(d) == [fields |-> [j \in 1 .. 4 |-> Written(d[j], Width[j])], seps |-> <<":", ":", ".">>,
            tail |-> FALSE]

LocatorParts == Cardinality({j \in DOMAIN seps : seps[j] = ":"}) + 1

(* The name in sysfs a locator is taken for; domain 0 if it has two parts. *)
Path ==
  IF LocatorParts = 2
  THEN [fields |-> <<Written(0, Width[1])>> \o fields, seps |-> <<":">> \o seps, tail |-> tail]
  ELSE [fields |-> fields, seps |-> seps, tail |-> tail]

LinuxFinds == {d \in Devices : LocatorParts \in {2, 3} /\ Path = Name(d)}

-----------------------------------------------------------------------------
(* Properties.                                                             *)

(* ggl_pci.h:50-54: the formats DDDD:BB:dd.f and BB:dd.f are supported.    *)
(* Every device is found under both its names by both implementations (the *)
(* short one for domain 0), what one of them finds is the device the       *)
(* numbers of the locator say, and what Linux finds EFI finds too.         *)
LocatorsAgree ==
  efi \in {"parsed", "failed"} =>
    /\ LinuxFinds \subseteq EfiFinds
    /\ \A d \in Devices :
         LET long == [fields |-> fields, seps |-> seps, tail |-> tail] = Name(d)
             short == d[1] = 0 /\ ~tail /\ seps = <<":", ".">>
                        /\ fields = Tail(Name(d).fields)
         IN long \/ short => d \in LinuxFinds \cap EfiFinds
    /\ \A d \in EfiFinds : [j \in DOMAIN fields |-> fields[j].v] \in {d, Tail(d)}
=============================================================================
