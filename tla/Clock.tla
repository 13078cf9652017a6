------------------------------- MODULE Clock --------------------------------
(***************************************************************************)
(* c/time.c over the clock hook of EFI, efi_gettime_wall() in              *)
(* efi/start_main.c, which makes seconds since 1970 of the date and time   *)
(* the firmware tells, in the narrow fields of an EFI_TIME.  Times are     *)
(* kept in minutes and seconds, so that they stay small.                   *)
(***************************************************************************)
EXTENDS Integers

CONSTANTS
  Years, Months, Days,  \* the dates the firmware may tell
  TimesOfDay,           \* <<hour, minute, second>>
  Zones,                \* values of TimeZone, in minutes
  UNSPECIFIED           \* EFI_UNSPECIFIED_TIMEZONE

ClockAssumption ==
  /\ Years \subseteq 1970 .. 9999 /\ Months \subseteq 1 .. 12 /\ Days \subseteq 1 .. 31
  /\ TimesOfDay \subseteq Nat \X Nat \X Nat /\ Zones \subseteq Int

VARIABLES
  t,       \* the firmware's time
  fn,      \* the function called, or "none" before the call
  failed,  \* it has returned -1
  told     \* the time it has returned or stored, as a set of at most one

vars == <<t, fn, failed, told>>

-----------------------------------------------------------------------------
(* The calendar.                                                           *)

Leap(y) == y % 4 = 0 /\ (y % 100 # 0 \/ y % 400 = 0)

MonthLength(y, m) ==
  CASE m = 2 -> IF Leap(y) THEN 29 ELSE 28
    [] m \in {4, 6, 9, 11} -> 30
    [] OTHER -> 31

DaysToYear(y) ==
  LET to[x \in 1970 .. y] == IF x = 1970 THEN 0
                             ELSE to[x - 1] + IF Leap(x - 1) THEN 366 ELSE 365
  IN to[y]

DaysToMonth(y, m) ==
  LET to[k \in 1 .. m] == IF k = 1 THEN 0 ELSE to[k - 1] + MonthLength(y, k - 1)
  IN to[m]

(* Minutes and seconds from 1970 to a date.                                *)
UnixTime(d) ==
  LET days == DaysToYear(d.Year) + DaysToMonth(d.Year, d.Month) + d.Day - 1 IN
  <<(days * 24 + d.Hour) * 60 + d.Minute
      + IF d.TimeZone = UNSPECIFIED THEN 0 ELSE d.TimeZone,
    d.Second>>

-----------------------------------------------------------------------------
(* The code.                                                               *)

EfiTime ==
  {[Year |-> y, Month |-> m, Day |-> d, Hour |-> c[1], Minute |-> c[2], Second |-> c[3],
    TimeZone |-> z] : y \in Years, m \in Months, d \in Days, c \in TimesOfDay, z \in Zones}

Init ==
  /\ t \in {d \in EfiTime : d.Day <= MonthLength(d.Year, d.Month)}
  /\ fn = "none" /\ failed = FALSE /\ told = {}

FromMarchOfThisYear(d) ==
  LET month == (d.Month - 2) % 256 IN
  IF month > 0 THEN [d EXCEPT !.Month = month] ELSE [d EXCEPT !.Month = month + 12]

(* The year that begins in March; Month has 8 bits, Year 16.               *)
FromMarch(d) ==
  LET month == (d.Month - 2) % 256 IN
  IF month > 0 THEN [d EXCEPT !.Month = month]
  ELSE [d EXCEPT !.Month = month + 12, !.Year = (@ - 1) % 65536]

(* *secs of efi_gettime_wall.                                              *)
Wall(d) ==
  LET e == FromMarch(d)
      days == e.Year \div 4 - e.Year \div 100 + e.Year \div 400
                + (367 * e.Month) \div 12 + e.Day + e.Year * 365 - 719499
  IN <<(days * 24 + e.Hour) * 60 + e.Minute
         + IF e.TimeZone # UNSPECIFIED THEN e.TimeZone ELSE 0,
       e.Second>>

Returns(f, fails, times) ==
  fn = "none" /\ fn' = f /\ failed' = fails /\ told' = times /\ UNCHANGED t

(* GetTime of the firmware fails: time() returns (time_t) -1, the others   *)
(* what the hook returned, and nothing is stored.                          *)
GetTimeFails(f) == Returns(f, TRUE, {})

(* time(), with a place to store the time in too or not.                   *)
Time == GetTimeFails("time") \/ Returns("time", FALSE, {Wall(t)})

(* clock_gettime() of the two clocks, which are one under EFI.             *)
ClockGettime ==
  \/ GetTimeFails("clock_gettime") \/ Returns("clock_gettime", FALSE, {Wall(t)})

(* A NULL timespec, or a clock that is not supported.                      *)
ClockUnsupported == Returns("clock_gettime", TRUE, {})

(* gettimeofday(), with or without a timeval; a time zone is refused, but  *)
(* only after the time was stored.                                         *)
Gettimeofday ==
  \/ GetTimeFails("gettimeofday")
  \/ \E refused \in BOOLEAN, times \in {{}, {Wall(t)}} :
       Returns("gettimeofday", refused, times)

Next == Time \/ ClockGettime \/ ClockUnsupported \/ Gettimeofday

Spec == Init /\ [][Next]_vars

-----------------------------------------------------------------------------
(* Properties.                                                             *)

(* c/libc.h:52-54: the epoch is 1970-01-01 00:00:00 UTC.  Whatever a       *)
(* function returns or stores is the firmware's time, counted from there,  *)
(* over leap years, centuries and the ends of months; a function that      *)
(* fails stores nothing, but for gettimeofday.                             *)
ClockTrue ==
  /\ told \subseteq {UnixTime(t)}
  /\ failed /\ fn # "gettimeofday" => told = {}
=============================================================================
