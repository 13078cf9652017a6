------------------------------ MODULE Snprintf ------------------------------
(***************************************************************************)
(* vsnprintf and vsprintf (c/stdio.c): tfp_format sends the formatted text *)
(* character by character to a callback that stores it in the caller's     *)
(* buffer, as far as the buffer goes, and counts it.                       *)
(***************************************************************************)
EXTENDS Integers, Sequences

CONSTANTS
  Texts,   \* what tfp_format emits
  Sizes,   \* the sizes the caller passes
  NUL,     \* the terminating character
  Canary,  \* what the caller's memory holds before the call
  Memory   \* the buffer is followed by the caller's own data up to here

SnprintfAssumption ==
  /\ Memory \in Nat /\ Sizes \subseteq 0 .. Memory
  /\ \A t \in Texts : Len(t) \in 0 .. Memory - 1

VARIABLES
  fn,         \* the function in progress: "vsnprintf" or "vsprintf"
  size,       \* its size argument
  text,       \* what the format and its arguments stand for
  dest,       \* the caller's memory: offset -> character
  dest_used,  \* characters emitted so far
  retval      \* the value returned, or -1 while the call is in progress

vars == <<fn, size, text, dest, dest_used, retval>>

Init ==
  /\ fn \in {"vsnprintf", "vsprintf"}
  /\ size \in Sizes
  /\ text \in Texts
  /\ dest = [i \in 0 .. Memory |-> Canary]
  /\ dest_used = 0
  /\ retval = -1

(* _vsnprintf_putcf stores within dest_capacity, _vsprintf_putcf always.   *)
Room == fn = "vsnprintf" => dest_used < size

Putcf ==
  /\ retval = -1 /\ dest_used < Len(text)
  /\ dest' = IF Room THEN [dest EXCEPT ![dest_used] = text[dest_used + 1]] ELSE dest
  /\ dest_used' = dest_used + 1
  /\ UNCHANGED <<fn, size, text, retval>>

TerminatedPastEnd == [dest EXCEPT ![dest_used] = NUL]

(* The end of the string: behind the text, or on its last character that   *)
(* fits when it was cut.                                                   *)
Terminated ==
  IF fn = "vsprintf" \/ dest_used < size THEN [dest EXCEPT ![dest_used] = NUL]
  ELSE IF size > 0 THEN [dest EXCEPT ![size - 1] = NUL]
  ELSE dest

Return ==
  /\ retval = -1 /\ dest_used = Len(text)
  /\ dest' = Terminated
  /\ retval' = dest_used
  /\ UNCHANGED <<fn, size, text, dest_used>>

Next == Putcf \/ Return

Spec == Init /\ [][Next]_vars

-----------------------------------------------------------------------------
(* Properties.                                                             *)

(* vsnprintf never stores at or past size, at any moment of the call.      *)
StaysInBuffer ==
  fn = "vsnprintf" => \A i \in size .. Memory : dest[i] = Canary

Kept == IF fn = "vsnprintf" /\ Len(text) >= size THEN size - 1 ELSE Len(text)

(* When the call returns the buffer holds the text, cut to size - 1        *)
(* characters by vsnprintf, and a NUL, and the value is the length the     *)
(* text would have had uncut.                                              *)
ReturnsText ==
  retval >= 0 =>
    /\ retval = Len(text)
    /\ fn = "vsprintf" \/ size > 0 =>
         /\ dest[Kept] = NUL
         /\ \A i \in 0 .. Kept - 1 : dest[i] = text[i + 1]

(* Both: the caller's buffer is kept to, and holds what was asked for.     *)
BufferHoldsText == StaysInBuffer /\ ReturnsText
=============================================================================
