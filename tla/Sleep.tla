------------------------------- MODULE Sleep -------------------------------
(***************************************************************************)
(* Sleeping: sleep() and usleep() of c/stdlib.c over the usleep hook, of   *)
(* the native runtime (native/start_main.c) or of EFI (efi/start_main.c).  *)
(* A signal may interrupt the system's sleep() and usleep(), which the     *)
(* native hook calls one after the other.                                  *)
(***************************************************************************)
EXTENDS Integers

CONSTANTS
  USECS,   \* NNLC_USECS_IN_ONE_SEC
  Seconds, \* arguments of sleep()
  Micros   \* arguments of usleep()

SleepAssumption == USECS \in Nat \ {0} /\ Seconds \subseteq Nat /\ Micros \subseteq Nat

VARIABLES
  runtime,     \* "native" or "efi"
  asked,       \* microseconds the hook was asked for
  slept,       \* microseconds gone since
  interrupted, \* a signal has come
  pc,
  left         \* what the hook has returned

vars == <<runtime, asked, slept, interrupted, pc, left>>

Init ==
  /\ runtime \in {"native", "efi"}
  /\ asked = 0 /\ slept = 0 /\ interrupted = FALSE /\ pc = "idle" /\ left = 0

(* sleep(s) is usleep(s * 1000000) of the hook, usleep(u) is usleep(u).    *)
Call ==
  /\ pc = "idle"
  /\ asked' \in {s * USECS : s \in Seconds} \cup Micros
  /\ pc' = IF runtime = "efi" THEN "stall"
           ELSE IF asked' >= USECS THEN "sleep" ELSE "usleep"
  /\ UNCHANGED <<runtime, slept, interrupted, left>>

Return(l) == pc' = "returned" /\ left' = l

(* BS->Stall() is not interrupted.                                         *)
Stall ==
  /\ pc = "stall"
  /\ slept' = asked /\ Return(0)
  /\ UNCHANGED <<runtime, asked, interrupted>>

Whole == (asked \div USECS) * USECS

SecondsSlept ==
  /\ pc = "sleep"
  /\ slept' = Whole
  /\ pc' = "usleep" /\ UNCHANGED <<runtime, asked, interrupted, left>>

SecondsInterruptedAsZero ==
  /\ pc = "sleep"
  /\ \E time \in 0 .. (Whole - 1) : slept' = time
  /\ pc' = "usleep" /\ interrupted' = TRUE
  /\ UNCHANGED <<runtime, asked, left>>

(* sleep() tells the whole seconds left, cut off or rounded up: perhaps    *)
(* none, and then the rest is slept.                                       *)
SecondsInterrupted ==
  /\ pc = "sleep"
  /\ \E time \in 0 .. (Whole - 1), up \in {0, USECS - 1} :
       LET rv == (Whole - time + up) \div USECS IN
       /\ slept' = time
       /\ IF rv > 0 THEN Return(rv * USECS) ELSE pc' = "usleep" /\ UNCHANGED left
  /\ interrupted' = TRUE
  /\ UNCHANGED <<runtime, asked>>

(* What usleep() returns is not looked at: 0 is returned.                  *)
MicrosSlept ==
  /\ pc = "usleep"
  /\ \E time \in 0 .. (asked % USECS) :
       /\ slept' = slept + time
       /\ interrupted' = (interrupted \/ time < asked % USECS)
  /\ Return(0)
  /\ UNCHANGED <<runtime, asked>>

Next == Call \/ Stall \/ SecondsSlept \/ SecondsInterrupted \/ MicrosSlept

Spec == Init /\ [][Next]_vars

-----------------------------------------------------------------------------
(* Properties.                                                             *)

(* Without a signal the time asked for has passed and 0 is returned.  An   *)
(* interrupted native hook tells what is left of the whole seconds, within *)
(* a second, and nothing of the microseconds behind them: once less than a *)
(* second of the whole ones is left it may return 0, wherever signals come *)
(* in its two sleeps (native/start_main.c:55-63).                          *)
SecondsTold ==
  pc = "returned" =>
    /\ ~interrupted => slept = asked /\ left = 0
    /\ left = 0 => slept + USECS > Whole
    /\ left # 0 => /\ slept < Whole
                   /\ slept + left + USECS > Whole /\ slept + left < Whole + USECS

(* c/libc.h:46, "return us left to sleep when interrupted".                *)
LeftTold == pc = "returned" /\ interrupted => left = asked - slept
=============================================================================
