----------------------------- MODULE EfiConsole -----------------------------
(***************************************************************************)
(* efi/start_main.c: how write_stdout and write_stderr print a buffer of   *)
(* bytes on a UEFI console, which takes NUL-terminated UCS-2 strings and   *)
(* wants \r\n at the end of a line.  The buffer is converted and printed   *)
(* in chunks, through a buffer of wide characters on the stack.            *)
(***************************************************************************)
EXTENDS Integers, Sequences, SequencesExt

CONSTANTS
  Chunk,  \* _EFI_IO_CHUNK8_SIZE
  Texts   \* the buffers written, and the memory behind them

CR == "\r"
LF == "\n"
NUL == "NUL"

EfiConsoleAssumption == Chunk \in Nat \ {0} /\ \A x \in Texts : x \in Seq(ToSet(x))

VARIABLES
  s8,       \* the memory the caller's pointer points to
  size,     \* the size the caller passed
  pos,      \* characters of it converted so far
  s16,      \* the wide string of the last chunk, NUL included
  console,  \* what the console has shown
  taken,    \* the console has taken every string so far
  result    \* the value returned, or -1 while in progress

vars == <<s8, size, pos, s16, console, taken, result>>

Init ==
  /\ s8 \in Texts
  /\ size \in 0 .. Len(s8)
  /\ pos = 0
  /\ s16 = << >>
  /\ console = << >>
  /\ taken = TRUE
  /\ result = -1

Smaller(m, n) == IF m < n THEN m ELSE n

(* The number of characters conio_a2u converts of the len at s8 + pos: it  *)
(* stops at a NUL.                                                         *)
Converted(len) ==
  CHOOSE n \in 0 .. len :
    /\ \A i \in 1 .. n : s8[pos + i] # NUL
    /\ n < len => s8[pos + n + 1] = NUL

WideDoubled(c) == IF c = LF THEN <<CR, CR, LF>> ELSE <<c>>

(* One character as conio_a2u stores it.                                   *)
Wide(c) == IF c = LF THEN <<CR, LF>> ELSE <<c>>

WideString(chars) == FlattenSeq([i \in 1 .. Len(chars) |-> Wide(chars[i])])

(* The size of the next chunk.                                             *)
Ask == Smaller(Chunk, size - pos)

(* writer() has no result: a console that fails is not noticed.            *)
Writer(s) ==
  \/ console' = console \o s /\ UNCHANGED taken
  \/ taken' = FALSE /\ UNCHANGED console

AdvanceByChunk(n) == pos' = pos + Chunk

(* s8 += converted, sz -= converted.                                       *)
Advance(n) == pos' = pos + n

(* One turn of the loop of efi_conio_write.                                *)
WriteChunk ==
  LET n == Converted(Ask)
      wide == WideString(SubSeq(s8, pos + 1, pos + n))
  IN
  /\ result = -1 /\ pos < size /\ n > 0
  /\ s16' = Append(wide, NUL)
  /\ Writer(wide)
  /\ Advance(n)
  /\ UNCHANGED <<s8, size, result>>

ReturnAtEnd ==
  /\ result = -1 /\ pos = size
  /\ result' = size
  /\ UNCHANGED <<s8, size, pos, s16, console, taken>>

(* Nothing left, or a NUL at the start of a chunk: write_stdout returns sz.*)
Return ==
  /\ result = -1
  /\ pos < size => Converted(Ask) = 0
  /\ result' = size
  /\ UNCHANGED <<s8, size, pos, s16, console, taken>>

Next == WriteChunk \/ Return

Spec == Init /\ [][Next]_vars /\ WF_vars(Next)

-----------------------------------------------------------------------------
(* Properties.                                                             *)

(* start_main.c:59-65, 82: what conio_a2u stores fits in s16, also when    *)
(* every character of the chunk is a newline, and is a string the console  *)
(* prints to its end: it holds one NUL, the last character.                *)
WideStringOK ==
  /\ Len(s16) <= 2 * Chunk + 1
  /\ s16 # << >> => \A i \in 1 .. Len(s16) : s16[i] = NUL <=> i = Len(s16)

Hook == INSTANCE WriteHook WITH Piece <- Chunk

(* The hook does what c/stdio.c is checked over (WriteHook): wherever the  *)
(* chunks fall, the console shows the text up to its first NUL, with \r\n  *)
(* for \n, and nothing of the memory behind it; chunks may be missing, in  *)
(* the middle too, but only if the console has refused them.               *)
ShowsText ==
  result >= 0 =>
    LET text == SubSeq(s8, 1, size) IN
    /\ \E o \in Hook!ConsoleOutcomes(text) :
         result = o.ret /\ console = WideString(o.printed)
    /\ taken => console = WideString(Hook!UpToNul(text))

(* write_stdout returns, whatever is in the buffer.                        *)
Returns == <>(result >= 0)
=============================================================================
