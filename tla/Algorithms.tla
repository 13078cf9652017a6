----------------------------- MODULE Algorithms -----------------------------
(***************************************************************************)
(* The functions of libC that keep little or nothing between calls: time,  *)
(* string to integer, strtok, memmove, the loops over strings, sleeping    *)
(* and what is not supported.  They do not meet, so a behaviour is of one  *)
(* of Parts, chosen at the start.                                          *)
(***************************************************************************)
EXTENDS Integers, Sequences

CONSTANTS
  Parts,                                                  \* which functions
  Years, Months, Days, TimesOfDay, Zones, UNSPECIFIED,    \* of Clock
  Numerals, Bases, Word,                                  \* of Strtox
  Strs, Texts, Delims, NUL,                               \* of Strtok
  Top,                                                    \* of Memmove
  Bytes, Sought, MaxLen,                                  \* of CString
  MaxCalls,                                               \* of Unsup
  USECS, Seconds, Micros                                  \* of Sleep

VARIABLES part,
  date, fun, failed, told,
  nptr, unsigned, base0, xpc, upto, base, positive, absval, overflow, endc, value,
  text, chars, saveptr, current, tokens, ended,
  mem, was, dst, src, size, todo,
  call, array, ci, ck, cpc, ret,
  warned, stderr, errno, optind, calls,
  runtime, asked, slept, interrupted, spc, left

Clock == INSTANCE Clock WITH t <- date, fn <- fun
Strtox == INSTANCE Strtox WITH Texts <- Numerals, pc <- xpc, s <- upto
Strtok == INSTANCE Strtok WITH Str <- Strs, mem <- chars
Memmove == INSTANCE Memmove WITH n <- todo
CString == INSTANCE CString WITH a <- array, i <- ci, k <- ck, pc <- cpc
Unsup == INSTANCE Unsup
Sleep == INSTANCE Sleep WITH pc <- spc

ASSUME AlgorithmsAssumption ==
  /\ Clock!ClockAssumption /\ Strtox!StrtoxAssumption /\ Strtok!StrtokAssumption
  /\ Memmove!MemmoveAssumption /\ CString!CStringAssumption
  /\ Unsup!UnsupAssumption /\ Sleep!SleepAssumption

clockVars == <<date, fun, failed, told>>
strtoxVars == <<nptr, unsigned, base0, xpc, upto, base, positive, absval, overflow, endc,
                value>>
strtokVars == <<text, chars, saveptr, current, tokens, ended>>
memmoveVars == <<mem, was, dst, src, size, todo>>
cstringVars == <<call, array, ci, ck, cpc, ret>>
unsupVars == <<warned, stderr, errno, optind, calls>>
sleepVars == <<runtime, asked, slept, interrupted, spc, left>>
vars == <<part, clockVars, strtoxVars, strtokVars, memmoveVars, cstringVars, unsupVars,
          sleepVars>>
Off == "off"

ClockOff == date = Off /\ fun = Off /\ failed = Off /\ told = Off
StrtoxOff ==
  /\ nptr = Off /\ unsigned = Off /\ base0 = Off /\ xpc = Off /\ upto = Off /\ base = Off
  /\ positive = Off /\ absval = Off /\ overflow = Off /\ endc = Off /\ value = Off
StrtokOff ==
  /\ text = Off /\ chars = Off /\ saveptr = Off /\ current = Off /\ tokens = Off
  /\ ended = Off
MemmoveOff ==
  /\ mem = Off /\ was = Off /\ dst = Off /\ src = Off /\ size = Off /\ todo = Off
CStringOff ==
  /\ call = Off /\ array = Off /\ ci = Off /\ ck = Off /\ cpc = Off /\ ret = Off
UnsupOff == warned = Off /\ stderr = Off /\ errno = Off /\ optind = Off /\ calls = Off
SleepOff ==
  /\ runtime = Off /\ asked = Off /\ slept = Off /\ interrupted = Off /\ spc = Off
  /\ left = Off

Init ==
  /\ part \in Parts
  /\ IF part = "clock" THEN Clock!Init ELSE ClockOff
  /\ IF part = "strtox" THEN Strtox!Init ELSE StrtoxOff
  /\ IF part = "strtok" THEN Strtok!Init ELSE StrtokOff
  /\ IF part = "memmove" THEN Memmove!Init ELSE MemmoveOff
  /\ IF part = "cstring" THEN CString!Init ELSE CStringOff
  /\ IF part = "unsup" THEN Unsup!Init ELSE UnsupOff
  /\ IF part = "sleep" THEN Sleep!Init ELSE SleepOff

ClockStep ==
  /\ part = "clock" /\ Clock!Next
  /\ UNCHANGED <<part, strtoxVars, strtokVars, memmoveVars,
                 cstringVars, unsupVars, sleepVars>>
StrtoxStep ==
  /\ part = "strtox" /\ Strtox!Next
  /\ UNCHANGED <<part, clockVars, strtokVars, memmoveVars,
                 cstringVars, unsupVars, sleepVars>>
StrtokStep ==
  /\ part = "strtok" /\ Strtok!Next
  /\ UNCHANGED <<part, clockVars, strtoxVars, memmoveVars,
                 cstringVars, unsupVars, sleepVars>>
MemmoveStep ==
  /\ part = "memmove" /\ Memmove!Next
  /\ UNCHANGED <<part, clockVars, strtoxVars, strtokVars,
                 cstringVars, unsupVars, sleepVars>>
CStringStep ==
  /\ part = "cstring" /\ CString!Next
  /\ UNCHANGED <<part, clockVars, strtoxVars, strtokVars,
                 memmoveVars, unsupVars, sleepVars>>
UnsupStep ==
  /\ part = "unsup" /\ Unsup!Next
  /\ UNCHANGED <<part, clockVars, strtoxVars, strtokVars,
                 memmoveVars, cstringVars, sleepVars>>
SleepStep ==
  /\ part = "sleep" /\ Sleep!Next
  /\ UNCHANGED <<part, clockVars, strtoxVars, strtokVars,
                 memmoveVars, cstringVars, unsupVars>>

Next ==
  \/ ClockStep \/ StrtoxStep \/ StrtokStep \/ MemmoveStep
  \/ CStringStep \/ UnsupStep \/ SleepStep

Spec == Init /\ [][Next]_vars

(* c/libc.h:52-54: the wall clock of EFI counts from 1970.                 *)
ClockTrue == part = "clock" => Clock!ClockTrue

(* A string is converted to the value it begins with, clamped to the type. *)
ConvertsValue == part = "strtox" => Strtox!ConvertsValue

(* strtok returns the tokens of the string begun last, all and in order.   *)
TokensInOrder == part = "strtok" => Strtok!TokensInOrder

(* memmove moves a block exactly, wherever it overlaps its destination.    *)
MoveExact == part = "memmove" => Memmove!MoveExact

(* The loops over strings stay in their arrays and do what C says.         *)
StringsExact == part = "cstring" => CString!StringsExact

(* Each function that is not supported warns once.                         *)
WarnsOnce == part = "unsup" => Unsup!WarnsOnce

(* An interrupted sleep tells what is left of its whole seconds.           *)
SecondsTold == part = "sleep" => Sleep!SecondsTold

(* c/libc.h:46: it tells what is left.                                     *)
LeftTold == part = "sleep" => Sleep!LeftTold
=============================================================================
