------------------------------- MODULE Unsup -------------------------------
(***************************************************************************)
(* The functions libC publishes but does not support (c/unsup.c, and the   *)
(* two warnings of c/time.c): each warns the first time it is called, with *)
(* a flag of its own (c/nostd/google_warn.h), and fails.                   *)
(***************************************************************************)
EXTENDS Integers, Sequences, SequencesExt

CONSTANT MaxCalls  \* bound on the calls of a behaviour

UnsupAssumption == MaxCalls \in Nat

Kept == "kept"     \* errno is not set

(* What each function returns, and the errno it sets.                      *)
Early ==
  [getenv |-> <<"NULL", Kept>>,     qsort |-> <<"void", "EINVAL">>,
   signal |-> <<"NULL", "EINVAL">>, raise |-> <<"-1", Kept>>,
   fopen |-> <<"NULL", "ENOENT">>,  fclose |-> <<"-1", "EBADF">>,
   fread |-> <<"0", Kept>>,         fseek |-> <<"-1", "EBADF">>,
   ftell |-> <<"-1", "EBADF">>,     rewind |-> <<"void", Kept>>,
   sscanf |-> <<"-1", Kept>>,       scanf |-> <<"-1", "EBADF">>,
   strtof |-> <<"0", "EOPNOTSUPP">>, strtod |-> <<"0", "EOPNOTSUPP">>,
   fgets |-> <<"NULL", Kept>>]

Late ==
  [localtime |-> <<"NULL", Kept>>,  isatty |-> <<"0", "EBADF">>,
   getopt |-> <<"-1", Kept>>,       clock |-> <<"0", Kept>>,
   inet_aton |-> <<"-1", Kept>>,    inet_pton |-> <<"-1", Kept>>,
   read |-> <<"0", Kept>>]
  @@ [f \in {"ceilf", "ceil", "floorf", "floor", "truncf", "trunc", "sqrtf", "sqrt",
             "rintf", "rint"} |-> <<"NAN", Kept>>]

(* clock_gettime of another clock, gettimeofday with a time zone.          *)
Times == [clock_gettime |-> <<"-1", Kept>>, gettimeofday |-> <<"-1", Kept>>]

Table == Early @@ Late @@ Times
Function == DOMAIN Table

VARIABLES
  warned,  \* _warned of each function
  stderr,  \* the warnings printed: the functions they name
  errno,
  optind,  \* getopt's index, which the program may set
  calls    \* the calls so far: <<function, whether stderr then takes output>>

vars == <<warned, stderr, errno, optind, calls>>

Init ==
  /\ warned = [f \in Function |-> FALSE]
  /\ stderr = << >> /\ errno = "0" /\ optind = 1 /\ calls = << >>

FlagsShared(f) == Function

(* The flag of a function's own warning.                                   *)
Flags(f) == {f}

(* _ggl_warn_once(); whether the warning could be printed is not looked at.*)
WarnOnce(f, ok) ==
  /\ stderr' = IF ~warned[f] /\ ok THEN Append(stderr, f) ELSE stderr
  /\ warned' = [g \in Function |-> warned[g] \/ g \in Flags(f)]

Call(f, ok) ==
  /\ Len(calls) < MaxCalls
  /\ WarnOnce(f, ok)
  /\ errno' = IF Table[f][2] = Kept THEN errno ELSE Table[f][2]
  /\ optind' = IF f = "getopt" THEN 1 ELSE optind
  /\ calls' = Append(calls, <<f, ok>>)

(* The program sets what getopt is to begin with.                          *)
SetOptind == optind' = 2 /\ UNCHANGED <<warned, stderr, errno, calls>>

Next == SetOptind \/ \E f \in Function, ok \in BOOLEAN : Call(f, ok)

Spec == Init /\ [][Next]_vars

-----------------------------------------------------------------------------
(* Properties.                                                             *)

(* google_warn.h:36: "Print "unsupported" warning the first time the       *)
(* parent function is called".  However the calls of several functions are *)
(* mixed, the warnings are those of the functions called, in the order of  *)
(* their first calls, one each, and none for a function whose first call   *)
(* found stderr failing; errno is what the last call that sets it set.     *)
WarnsOnce ==
  LET first(j) == \A l \in 1 .. (j - 1) : calls[l][1] # calls[j][1]
      printed == {j \in DOMAIN calls : first(j) /\ calls[j][2]}
      setting == {j \in DOMAIN calls : Table[calls[j][1]][2] # Kept}
  IN /\ Len(stderr) = Cardinality(printed)
     /\ \A j \in printed : stderr[Cardinality({l \in printed : l <= j})] = calls[j][1]
     /\ IF setting = {} THEN errno = "0"
        ELSE \E j \in setting : /\ \A l \in setting : l <= j
                                /\ errno = Table[calls[j][1]][2]
=============================================================================
