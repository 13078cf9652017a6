------------------------------- MODULE Output -------------------------------
(***************************************************************************)
(* c/stdio.c: a program prints through the streams, over the runtime of a  *)
(* native process or over that of EFI, or formats into its own memory.     *)
(* Printing and formatting share no state, so a behaviour is of one of     *)
(* them, chosen at the start.                                              *)
(***************************************************************************)
EXTENDS Integers, Sequences

CONSTANTS
  Texts, Newline, ItemSizes, Capacity,     \* of Stdio
  NUL, Piece,                              \* of its write hooks
  Formatted, Sizes, Canary, Memory         \* of Snprintf

VARIABLES part, call, last, short, aborted,
          formatter, dest_capacity, formatted, dest, dest_used, retval

Stream == INSTANCE Stdio WITH runtime <- part
Buffer == INSTANCE Snprintf WITH Texts <- Formatted, fn <- formatter, size <- dest_capacity,
                                 text <- formatted

ASSUME OutputAssumption == Stream!StdioAssumption /\ Buffer!SnprintfAssumption

streamVars == <<call, last, short, aborted>>
bufferVars == <<formatter, dest_capacity, formatted, dest, dest_used, retval>>
vars == <<part, streamVars, bufferVars>>
Off == "off"

StreamOff == call = Stream!None /\ last = Stream!None /\ short = FALSE /\ aborted = FALSE
BufferOff ==
  /\ formatter = Off /\ dest_capacity = Off /\ formatted = Off
  /\ dest = Off /\ dest_used = Off /\ retval = Off

Init ==
  /\ part \in Stream!Runtimes \cup {"buffer"}
  /\ IF part = "buffer" THEN StreamOff ELSE Stream!Init
  /\ IF part = "buffer" THEN Buffer!Init ELSE BufferOff

StreamStep == part \in Stream!Runtimes /\ Stream!Next /\ UNCHANGED <<part, bufferVars>>
BufferStep == part = "buffer" /\ Buffer!Next /\ UNCHANGED <<part, streamVars>>

Next == StreamStep \/ BufferStep

(* A call that has begun goes on by itself.                                *)
Spec == Init /\ [][Next]_vars /\ WF_vars(StreamStep /\ call # Stream!None)

(* vfprintf's buffer has room for every character it is sent.              *)
NeverAborts == Stream!NeverAborts

(* What a function returns tells how much has been printed, and only       *)
(* vfprintf leaves gaps, over a runtime that says what it has printed.     *)
CountIsTrue == part = "native" => Stream!CountIsTrue /\ Stream!StopsWhenShort

(* Characters come out in order, and all of them if the runtime prints all *)
(* it is given, whatever it says.                                          *)
PrintedInOrder == Stream!PrintedInOrder

(* Every call returns.                                                     *)
CallsReturn == Stream!CallsReturn

(* vsnprintf never stores past the size it was given; it returns the full  *)
(* length and leaves the text, cut and terminated.                         *)
BufferHoldsText == part = "buffer" => Buffer!BufferHoldsText
=============================================================================
