------------------------------- MODULE Stdio --------------------------------
(***************************************************************************)
(* c/stdio.c and write() of c/unistd.c: the output functions, down to the  *)
(* write hook of the stream (write_stdout, write_stderr of the runtime the *)
(* program is linked with), which may take less than it is given or fail.  *)
(*                                                                         *)
(* One call is in progress at a time.  The functions that hand their data  *)
(* straight to the hook differ in how they cut it into writes and stop at  *)
(* the first one that falls short; vfprintf collects what tfp_format sends *)
(* its callback in a buffer on the stack and never stops.                  *)
(***************************************************************************)
EXTENDS Integers, Sequences, SequencesExt

CONSTANTS
  Texts,       \* the data the program prints: sequences of characters
  Newline,     \* the character puts() adds
  ItemSizes,   \* the sizes of an item passed to fwrite
  Capacity,    \* sizeof(buff) in vfprintf
  NUL, Piece   \* of WriteHook

Hook == INSTANCE WriteHook

StdioAssumption ==
  /\ Capacity \in Nat \ {0} /\ ItemSizes \subseteq Nat \ {0}
  /\ \A x \in Texts : x \in Seq(ToSet(x))
  /\ Hook!WriteHookAssumption

EOF == -1
None == [fn |-> "none"]

(* stdin has no write hook (c/libc.c:31); "bad" is a FILE* that is NULL or *)
(* has a wrong magic.                                                      *)
Stream == {"stdin", "stdout", "stderr", "bad"}
IsValidFILE(stream) == stream # "bad"
HasWrite(stream) == stream \in {"stdout", "stderr"}
Writable(stream) == IsValidFILE(stream) /\ HasWrite(stream)

VARIABLES
  runtime, \* whose hooks the streams write with
  call,    \* the call in progress, or None
  last,    \* the last call, its result, and what the runtime printed for it
  short,   \* the runtime has not printed all of a write of the last call
  aborted  \* the sanity check of _vprintf_putcf has called abort()

vars == <<runtime, call, last, short, aborted>>

Runtimes == {"native", "efi"}

(* What write(s) may do: a set of [ret, printed].                          *)
Outcomes(s) ==
  IF runtime = "native" THEN Hook!NativeOutcomes(s) ELSE Hook!ConsoleOutcomes(s)

(* The functions that pass their data straight on, and how each cuts it.   *)
Direct == {"fputc", "fputs", "putchar", "puts", "fwrite"}

Items(text, size) ==
  [i \in 1 .. (Len(text) \div size) |-> SubSeq(text, (i - 1) * size + 1, i * size)]

Init ==
  /\ runtime \in Runtimes
  /\ call = None
  /\ last = None
  /\ short = FALSE
  /\ aborted = FALSE

(* The runtime is given the characters s and does o with them.             *)
Written(s, o) == short' = (short \/ o.printed # s)

Return(fn, text, size, printed, value) ==
  /\ call' = None
  /\ last' = [fn |-> fn, text |-> text, size |-> size, printed |-> printed, value |-> value]
  /\ UNCHANGED aborted

(* A direct function is entered: chunks are the writes it will make.       *)
Enter(fn, text, size, chunks) ==
  /\ call' = [fn |-> fn, text |-> text, size |-> size, todo |-> chunks,
              done |-> 0, printed |-> << >>]
  /\ UNCHANGED <<last, aborted>>

Fputc(c, stream) ==
  IF Writable(stream) THEN Enter("fputc", <<c>>, 1, <<<<c>>>>)
                      ELSE Return("fputc", <<c>>, 1, << >>, EOF)

Fputs(s, stream) ==
  IF Writable(stream) THEN Enter("fputs", s, Len(s), <<s>>)
                      ELSE Return("fputs", s, Len(s), << >>, EOF)

Putchar(c) == Enter("putchar", <<c>>, 1, <<<<c>>>>)

Puts(s) == Enter("puts", Append(s, Newline), Len(s), <<s, <<Newline>>>>)

(* fwrite(), and write() of unistd.h with items of one byte.               *)
Fwrite(data, size, stream) ==
  IF Writable(stream) THEN Enter("fwrite", data, size, Items(data, size))
                      ELSE Return("fwrite", data, size, << >>, 0)

ResultAlwaysItems(fn, ok, done) == IF fn = "fwrite" THEN done + 1 ELSE IF ok THEN 1 ELSE EOF

(* What a direct function returns after done complete writes: 1 stands for *)
(* what is not EOF, which is 1, or the character, if it is that of fputc() *)
(* and putchar().                                                          *)
Result(fn, ok, done) == IF fn = "fwrite" THEN done ELSE IF ok THEN 1 ELSE EOF

WriteChunk ==
  /\ call.fn \in Direct
  /\ call.todo # << >>
  /\ \E o \in Outcomes(Head(call.todo)) :
       LET printed == call.printed \o o.printed IN
       /\ Written(Head(call.todo), o)
       /\ IF o.ret = Len(Head(call.todo))
          THEN /\ call' = [call EXCEPT !.todo = Tail(@), !.done = @ + 1, !.printed = printed]
               /\ UNCHANGED <<last, aborted>>
          ELSE Return(call.fn, call.text, call.size, printed,
                      Result(call.fn, FALSE, call.done))

DirectReturns ==
  /\ call.fn \in Direct
  /\ call.todo = << >>
  /\ Return(call.fn, call.text, call.size, call.printed, Result(call.fn, TRUE, call.done))
  /\ UNCHANGED short

(* vfprintf(), and fprintf, vprintf, printf, perror in terms of it.        *)
Vfprintf(text, stream) ==
  IF Writable(stream)
  THEN /\ call' = [fn |-> "vfprintf", text |-> text, todo |-> text, buff |-> << >>,
                   total |-> 0, printed |-> << >>]
       /\ UNCHANGED <<last, aborted>>
  ELSE Return("vfprintf", text, 1, << >>, -1)

Counted(total, n) == IF n > 0 THEN total + n ELSE total

SentAgain(c, o) ==
  IF o.ret <= 0 THEN [c EXCEPT !.buff = << >>, !.todo = c.buff \o @]
  ELSE [c EXCEPT !.buff = << >>, !.printed = @ \o o.printed, !.total = @ + o.ret]

(* The call c after a write of its buffer with the outcome o.              *)
Sent(c, o) ==
  [c EXCEPT !.buff = << >>, !.printed = @ \o o.printed, !.total = Counted(@, o.ret)]

FlushLate(c) == Len(c.buff) > Capacity

(* The buffer of the call c is to be written out.                          *)
Flush(c) == Len(c.buff) >= Capacity

(* _vprintf_putcf(): tfp_format emits the next character.                  *)
Putcf ==
  /\ call.fn = "vfprintf"
  /\ call.todo # << >>
  /\ IF Len(call.buff) >= Capacity
     THEN aborted' = TRUE /\ UNCHANGED <<call, last, short>>
     ELSE LET c == [call EXCEPT !.todo = Tail(@), !.buff = Append(@, Head(call.todo))] IN
          /\ \/ /\ Flush(c)
                /\ \E o \in Outcomes(c.buff) : call' = Sent(c, o) /\ Written(c.buff, o)
             \/ ~Flush(c) /\ call' = c /\ UNCHANGED short
          /\ UNCHANGED <<last, aborted>>

VfprintfReturnsUnflushed ==
  /\ call.fn = "vfprintf" /\ call.todo = << >>
  /\ Return("vfprintf", call.text, 1, call.printed, call.total)
  /\ UNCHANGED short

(* tfp_format is done: what is left in the buffer goes out.                *)
VfprintfReturns ==
  /\ call.fn = "vfprintf" /\ call.todo = << >>
  /\ \/ /\ call.buff = << >>
        /\ Return("vfprintf", call.text, 1, call.printed, call.total)
        /\ UNCHANGED short
     \/ /\ call.buff # << >>
        /\ \E o \in Outcomes(call.buff) :
             /\ Return("vfprintf", call.text, 1, call.printed \o o.printed,
                       Counted(call.total, o.ret))
             /\ Written(call.buff, o)

Continue == WriteChunk \/ DirectReturns \/ Putcf \/ VfprintfReturns

Call ==
  /\ call = None
  /\ short' = FALSE
  /\ \/ \E s \in Texts, stream \in Stream : s # << >> /\ Fputc(Head(s), stream)
     \/ \E s \in Texts, stream \in Stream : Fputs(s, stream)
     \/ \E s \in Texts : s # << >> /\ Putchar(Head(s))
     \/ \E s \in Texts : Puts(s)
     \/ \E s \in Texts, size \in ItemSizes, stream \in Stream :
          Len(s) % size = 0 /\ Fwrite(s, size, stream)
     \/ \E s \in Texts, stream \in Stream : Vfprintf(s, stream)

Next == ~aborted /\ (Call \/ Continue) /\ UNCHANGED runtime

(* A call that has begun goes on by itself; the program need not make one. *)
Spec == Init /\ [][Next]_vars /\ WF_vars(~aborted /\ Continue)

-----------------------------------------------------------------------------
(* Properties.                                                             *)

(* c/stdio.c:109-110: the buffer of vfprintf always has room for the next  *)
(* character, however the writes in between went.                          *)
NeverAborts == ~aborted

(* p is t with some of its characters left out.                            *)
Embeds(p, t) ==
  \E f \in [1 .. Len(p) -> 1 .. Len(t)] :
    /\ \A i, j \in 1 .. Len(p) : i < j => f[i] < f[j]
    /\ \A i \in 1 .. Len(p) : p[i] = t[f[i]]

(* The value a function returns tells how much was printed, whatever the   *)
(* runtime took of each write: vfprintf the characters, fwrite the items   *)
(* that went out whole, the others success only if everything did.         *)
CountIsTrue ==
  last # None =>
    CASE last.fn = "vfprintf" ->
           IF last.value = -1 THEN last.printed = << >>
                              ELSE last.value = Len(last.printed)
      [] last.fn = "fwrite" ->
           /\ last.value * last.size <= Len(last.printed)
           /\ Len(last.printed) < (last.value + 1) * last.size
      [] OTHER -> last.value # EOF => last.printed = last.text

(* All functions but vfprintf stop at the first write that falls short, so *)
(* they print a prefix.                                                    *)
StopsWhenShort ==
  last # None /\ last.fn # "vfprintf" => IsPrefix(last.printed, last.text)

(* The characters come out in the order they were printed in, though some  *)
(* may be missing.  If the runtime has printed all it was given,           *)
(* everything is printed when a call returns that could write: nothing     *)
(* stays in vfprintf's buffer.                                             *)
PrintedInOrder ==
  last # None =>
    /\ Embeds(last.printed, last.text)
    /\ call = None /\ ~short =>
         \/ last.printed = last.text \/ last.value = EOF
         \/ last.fn = "fwrite" /\ last.value = 0

(* Every call returns.                                                     *)
CallsReturn == call # None ~> call = None
=============================================================================
