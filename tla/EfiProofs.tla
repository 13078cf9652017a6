----------------------------- MODULE EfiProofs ------------------------------
(***************************************************************************)
(* Proofs about Efi.                                                       *)
(***************************************************************************)
EXTENDS Efi, Induction

-----------------------------------------------------------------------------
(* The life of an image.                                                   *)

Statuses == {"EFI_SUCCESS", "EFI_UNSUPPORTED"}

(* The four stacks there are, and the frame of the last TRY in each: it is *)
(* alive wherever libC code runs that may call exit().                     *)
StackOK ==
  \/ frames = << >> /\ status # "running"
  \/ frames = <<"start">> /\ status = "running"
  \/ /\ frames = <<"start", "call_main", "main">> /\ status = "running"
     /\ exc_jmp_buf = 2 /\ ended = {}
  \/ frames = <<"method", "fct">> /\ status \in Statuses /\ exc_jmp_buf = 1

(* What main() ended with is kept until the status is made of it.          *)
ResultKept ==
  /\ exc_jmp_buf \in -1 .. 2
  /\ status = "running" /\ ended # {} => ended = {main_retval}
  /\ status \in Statuses => (status = "EFI_SUCCESS" <=> ended = {0})

StartInv == StackOK /\ ResultKept /\ ~crashed

USE DEF Start!EFI_SUCCESS, Start!EFI_UNSUPPORTED, Start!EFI_OUT_OF_RESOURCES,
        Start!EXIT_SUCCESS, Start!Running, Start!DEAD, Start!UNSET, Statuses

(* What is left of each stack when frames return.                          *)
LEMMA Popped ==
  /\ SubSeq(<<"start">>, 1, 0) = << >>
  /\ SubSeq(<<"start", "call_main", "main">>, 1, 1) = <<"start">>
  /\ SubSeq(<<"method", "fct">>, 1, 0) = << >>
  /\ Len(<<"start", "call_main", "main">>) = 3
  /\ Len(<<"method", "fct">>) = 2
  /\ << >> \o <<"method", "fct">> = <<"method", "fct">>
<1>1. ASSUME NEW s \in Seq({"start", "call_main", "main", "method", "fct"})
      PROVE  SubSeq(s, 1, 0) = << >>
  OBVIOUS
<1>2. SubSeq(<<"start">>, 1, 0) = << >> /\ SubSeq(<<"method", "fct">>, 1, 0) = << >>
  BY <1>1
<1>3. SubSeq(<<"start", "call_main", "main">>, 1, 1) = <<"start">>
  <2> DEFINE s == <<"start", "call_main", "main">>
             t == SubSeq(s, 1, 1)
  <2>1. \A k \in 1 .. 1 : s[k] \in {"start"}
    OBVIOUS
  <2>2. t \in Seq({"start"}) /\ Len(t) = 1 /\ t[1] = s[1]
    <3> HIDE DEF s
    <3> QED
      BY <2>1, SubSeqProperties
  <2> HIDE DEF t
  <2>3. t = <<"start">>
    BY <2>2
  <2> QED
    BY <2>3 DEF t
<1>4. Len(<<"start", "call_main", "main">>) = 3 /\ Len(<<"method", "fct">>) = 2
  OBVIOUS
<1>5. << >> \o <<"method", "fct">> = <<"method", "fct">>
  OBVIOUS
<1> QED
  BY <1>2, <1>3, <1>4, <1>5

(* The image starts with one frame and no TRY.                             *)
LEMMA StartInitially == Init => StartInv
  BY DEF Init, Start!Init, StartInv, StackOK, ResultKept

(* exit() is called on one of two stacks, and leaves the TRY's caller.     *)
LEMMA ExitCaught ==
  ASSUME StartInv, NEW v, Start!Exit(v)
  PROVE  /\ StartInv'
         /\ \/ /\ frames = <<"start", "call_main", "main">> /\ frames' = <<"start">>
               /\ ended' = {v} /\ main_retval' = v
            \/ frames = <<"method", "fct">> /\ frames' = << >>
<1>1. CASE frames = <<"start", "call_main", "main">> 
  <2>1. exc_jmp_buf = 2 /\ status = "running" /\ ended' = {v} /\ main_retval' = v
    BY <1>1 DEF StartInv, StackOK, Start!Exit, Start!Top
  <2>2. frames' = <<"start">> /\ exc_jmp_buf' = -1 /\ crashed' = crashed /\ status' = status
    BY <1>1, <2>1, Popped DEF Start!Exit, Start!Throw, Start!PopTo
  <2> QED
    BY <1>1, <2>1, <2>2 DEF StartInv, StackOK, ResultKept
<1>2. CASE frames = <<"method", "fct">>
  <2>1. exc_jmp_buf = 1 /\ status \in Statuses /\ ended' = ended
    BY <1>2 DEF StartInv, StackOK, Start!Exit, Start!Top
  <2>2. frames' = << >> /\ exc_jmp_buf' = -1 /\ crashed' = crashed /\ status' = status
    BY <1>2, <2>1, Popped DEF Start!Exit, Start!Throw, Start!PopTo
  <2> QED
    BY <1>2, <2>1, <2>2 DEF StartInv, StackOK, ResultKept
<1> QED
  BY <1>1, <1>2 DEF StartInv, StackOK, Start!Exit, Start!Top

(* The image ends main() once, by a return or by an exit().                *)
LEMMA MainCaught ==
  ASSUME StartInv, NEW v, Start!MainReturns(v)
  PROVE  StartInv' /\ frames' = <<"start">> /\ Start!Top = "main"
<1>1. frames = <<"start", "call_main", "main">>
  BY DEF StartInv, StackOK, Start!MainReturns, Start!Top
<1>2. /\ frames' = <<"start">> /\ exc_jmp_buf' = -1 /\ status = "running"
      /\ main_retval' = v /\ ended' = {v} /\ UNCHANGED <<status, crashed>>
  BY <1>1, Popped DEF StartInv, StackOK, Start!MainReturns, Start!PopTo
<1> QED
  BY <1>1, <1>2 DEF StartInv, StackOK, ResultKept, Start!MainReturns

(* libnanolibc_start() tells what call_main() kept for it.                 *)
LEMMA StatusTold ==
  ASSUME StartInv, Start!NoConsole \/ Start!StartReturns
  PROVE  StartInv' /\ frames = <<"start">> /\ frames' = << >>
<1>1. frames = <<"start">> /\ status = "running" /\ exc_jmp_buf \in -1 .. 2
  BY SMTT(60) DEF StartInv, StackOK, ResultKept, Start!NoConsole, Start!StartReturns
<1>2. frames' = << >> /\ exc_jmp_buf' \in -1 .. 2 /\ UNCHANGED <<main_retval, ended, crashed>>
  BY <1>1, Popped DEF Start!NoConsole, Start!StartReturns, Start!PopTo
<1>3. CASE Start!NoConsole
  BY <1>2, <1>3 DEF StartInv, StackOK, ResultKept, Start!NoConsole
<1>4. CASE Start!StartReturns
  <2>1. ended = {main_retval} /\ status' = Start!Status
    BY <1>1, <1>4 DEF StartInv, ResultKept, Start!StartReturns
  <2> QED
    BY <1>1, <1>2, <2>1 DEF StartInv, StackOK, ResultKept, Start!Status
<1> QED
  BY <1>1, <1>2, <1>3, <1>4

(* A method's function returns to the firmware.                            *)
LEMMA FctCaught ==
  ASSUME StartInv, NEW v, Start!FctReturns(v)
  PROVE  StartInv' /\ Start!Top = "fct" /\ Len(frames') = Len(frames) - 2
<1>1. frames = <<"method", "fct">>
  BY DEF StartInv, StackOK, Start!FctReturns, Start!Top
<1>2. /\ frames' = << >> /\ exc_jmp_buf' = -1 /\ status \in Statuses
      /\ UNCHANGED <<main_retval, ended, status, crashed>>
  BY <1>1, Popped DEF StartInv, StackOK, Start!FctReturns, Start!PopTo
<1> QED
  BY <1>1, <1>2, Popped DEF StartInv, StackOK, ResultKept, Start!FctReturns

(* Frames that are entered.                                                *)
LEMMA Entered ==
  ASSUME StartInv, Start!Initialize \/ Start!CallMain \/ Start!MethodCalled
  PROVE  StartInv' /\ Len(frames') >= Len(frames)
<1>1. CASE Start!Initialize
  BY <1>1 DEF StartInv, StackOK, ResultKept, Start!Initialize
<1>2. CASE Start!CallMain
  BY <1>2 DEF StartInv, StackOK, ResultKept, Start!CallMain
<1>3. CASE Start!MethodCalled
  BY <1>3, Popped DEF StartInv, StackOK, ResultKept, Start!MethodCalled, Start!Idle
<1> QED
  BY <1>1, <1>2, <1>3

(* What CaughtByOwnTry says of a step.                                     *)
Caught ==
  /\ ~crashed'
  /\ frames # << >> /\ Len(frames') < Len(frames) =>
       \/ Start!Top = "fct" /\ Len(frames') = Len(frames) - 2
       \/ Start!Top = "main" /\ frames' = <<"start">>
       \/ Start!Top = "start" /\ frames' = << >>

(* Every step of the image.                                                *)
LEMMA StartStepCaught ==
  ASSUME StartInv, Start!Next
  PROVE  StartInv' /\ Caught
<1>1. ASSUME NEW v, Start!MainReturns(v)  PROVE StartInv' /\ Caught
  BY <1>1, MainCaught DEF Caught, StartInv
<1>2. ASSUME NEW v, Start!Exit(v)  PROVE StartInv' /\ Caught
  BY <1>2, ExitCaught, Popped DEF Caught, StartInv, Start!Top
<1>3. ASSUME NEW v, Start!FctReturns(v)  PROVE StartInv' /\ Caught
  BY <1>3, FctCaught DEF Caught, StartInv
<1>4. CASE Start!NoConsole \/ Start!StartReturns
  BY <1>4, StatusTold DEF Caught, StartInv, Start!Top
<1>5. CASE Start!Initialize \/ Start!CallMain \/ Start!MethodCalled
  <2>1. StartInv' /\ Len(frames') >= Len(frames)
    BY <1>5, Entered
  <2>2. Len(frames) \in Nat /\ Len(frames') \in Nat
    BY <2>1, Popped DEF StartInv, StackOK
  <2> QED
    BY <2>1, <2>2 DEF Caught, StartInv
<1> QED
  BY <1>1, <1>2, <1>3, <1>4, <1>5 DEF Start!Next

(* The other parts do not touch the image.                                 *)
LEMMA StartKept ==
  ASSUME StartInv, [Next]_vars
  PROVE  StartInv' /\ (Caught \/ UNCHANGED startVars)
<1>1. CASE StartStep
  BY <1>1, StartStepCaught DEF StartStep
<1>2. CASE UNCHANGED startVars
  BY <1>2 DEF startVars, StartInv, StackOK, ResultKept
<1> QED
  BY <1>1, <1>2 DEF Next, vars, ConsoleStep, ArgvStep

(* The stack and the result kept of main() are as described.               *)
THEOREM StartInvariant == Spec => []StartInv
<1> QED
  BY StartInitially, StartKept, PTL DEF Spec

(* The EFI status is success exactly if main() ended with EXIT_SUCCESS, by *)
(* returning or by exit(), for all the codes there are.                    *)
THEOREM StatusTrue == Spec => []StatusTellsResult
<1>1. StartInv => StatusTellsResult
  BY DEF StartInv, ResultKept, StatusTellsResult, Start!StatusTellsResult,
         Start!EFI_SUCCESS, Start!EFI_UNSUPPORTED
<1> QED
  BY <1>1, StartInvariant, PTL

(* exit() is caught by the TRY of the call it was made in, which is alive, *)
(* in each of the stacks an image has: TRY "CAN NOT BE NESTED"             *)
(* (gnu_efi_crt.h:47).                                                     *)
THEOREM ExitsCaught == Spec => CaughtByOwnTry
<1> DEFINE startV == <<frames, exc_jmp_buf, main_retval, err, status, methods, ended, crashed>>
<1>1. StartInv /\ [Next]_vars => [Caught]_startV
  BY StartKept DEF startVars
<1> QED
  BY <1>1, StartInvariant, PTL DEF Spec, CaughtByOwnTry, Start!CaughtByOwnTry, Caught, Start!vars

-----------------------------------------------------------------------------
(* What the console shows.                                                 *)

(* The characters there are, and those of a wide string before its NUL.    *)
Written == UNION {Console!ToSet(x) : x \in Texts}
Chars == Written \cup {Console!CR, Console!LF}
Visible == Chars \ {Console!NUL}

(* The library's operator, as EfiConsole and WriteHook see it.             *)
LEMMA SameFlatten ==
  \A x : Console!FlattenSeq(x) = FlattenSeq(x) /\ Console!Hook!FlattenSeq(x) = FlattenSeq(x)
  BY DEF FlattenSeq, Console!FlattenSeq, Console!Hook!FlattenSeq

(* The wide characters of each character of a text.                        *)
WideParts(x) == [j \in 1 .. Len(x) |-> Console!Wide(x[j])]

(* One character becomes one or two, none of which is a NUL if it is none. *)
LEMMA WideTrue ==
  ASSUME NEW c \in Chars
  PROVE  /\ Console!Wide(c) \in Seq(Chars) /\ Len(Console!Wide(c)) <= 2
         /\ Len(Console!Wide(c)) \in Nat
         /\ c \in Visible => Console!Wide(c) \in Seq(Visible)
<1>1. CASE c = Console!LF
  <2>1. Console!Wide(c) = <<Console!CR, Console!LF>>
    BY <1>1 DEF Console!Wide
  <2>2. {Console!CR, Console!LF} \subseteq Visible
    <3>1. Console!CR \in Chars /\ Console!LF \in Chars
      BY DEF Chars
    <3>2. Console!CR # Console!NUL /\ Console!LF # Console!NUL
      BY DEF Console!LF, Console!CR, Console!NUL
    <3> QED
      BY <3>1, <3>2 DEF Visible
  <2> HIDE DEF Visible
  <2>3. /\ Len(Console!Wide(c)) = 2 /\ Console!Wide(c) \in Seq(Visible)
        /\ Console!Wide(c) \in Seq(Chars)
    BY <2>1, <2>2 DEF Visible
  <2> QED
    BY <2>3
<1>2. CASE c # Console!LF
  <2>1. Console!Wide(c) = <<c>>
    BY <1>2 DEF Console!Wide
  <2>2. /\ Len(Console!Wide(c)) = 1 /\ Console!Wide(c) \in Seq(Chars)
        /\ c \in Visible => Console!Wide(c) \in Seq(Visible)
    BY <2>1
  <2> QED
    BY <2>2
<1> QED
  BY <1>1, <1>2

(* The parts of a text.                                                    *)
LEMMA WidePartsTrue ==
  ASSUME NEW x \in Seq(Chars)
  PROVE  /\ WideParts(x) \in Seq(Seq(Chars)) /\ Len(WideParts(x)) = Len(x)
         /\ x \in Seq(Visible) => WideParts(x) \in Seq(Seq(Visible))
         /\ Console!WideString(x) = FlattenSeq(WideParts(x))
<1> DEFINE n == Len(x)
           w == WideParts(x)
<1>1. n \in Nat /\ \A j \in 1 .. n : x[j] \in Chars
  BY LenProperties, ElementOfSeq
<1>2. w \in [1 .. n -> Seq(Chars)]
  BY <1>1, WideTrue DEF WideParts
<1>3. x \in Seq(Visible) => w \in [1 .. n -> Seq(Visible)]
  <2> SUFFICES ASSUME x \in Seq(Visible) PROVE w \in [1 .. n -> Seq(Visible)]
    OBVIOUS
  <2>1. \A j \in 1 .. n : x[j] \in Visible
    BY LenProperties, ElementOfSeq
  <2> QED
    BY <1>1, <2>1, WideTrue DEF WideParts
<1>4. Console!WideString(x) = FlattenSeq(WideParts(x))
  BY SameFlatten DEF Console!WideString, WideParts
<1> HIDE DEF n, w
<1>5. w \in Seq(Seq(Chars)) /\ Len(w) = n
  BY <1>1, <1>2, SeqDef
<1>6. x \in Seq(Visible) => w \in Seq(Seq(Visible))
  BY <1>1, <1>3, SeqDef
<1> QED
  BY <1>4, <1>5, <1>6 DEF n, w

(* The wide string of a text, and of no text.                              *)
LEMMA WideStringTrue ==
  ASSUME NEW x \in Seq(Chars)
  PROVE  /\ Console!WideString(x) \in Seq(Chars)
         /\ x \in Seq(Visible) => Console!WideString(x) \in Seq(Visible)
         /\ Console!WideString(<< >>) = << >>
<1>1. Console!WideString(x) \in Seq(Chars)
  BY WidePartsTrue, FlattenInSeq
<1>2. x \in Seq(Visible) => Console!WideString(x) \in Seq(Visible)
  BY WidePartsTrue, FlattenInSeq
<1>3. Console!WideString(<< >>) = << >>
  <2>1. << >> \in Seq(Chars) /\ Len(<< >>) = 0
    OBVIOUS
  <2>2. WideParts(<< >>) = << >>
    BY <2>1, WidePartsTrue, EmptySeq
  <2> QED
    BY <2>1, <2>2, WidePartsTrue, FlattenEmpty
<1> QED
  BY <1>1, <1>2, <1>3

(* Two texts one behind the other, in chunks or not.                       *)
LEMMA WideConcat ==
  ASSUME NEW x \in Seq(Chars), NEW y \in Seq(Chars)
  PROVE  Console!WideString(x \o y) = Console!WideString(x) \o Console!WideString(y)
<1> DEFINE z == x \o y
           a == WideParts(x)
           b == WideParts(y)
           c == WideParts(z)
           m == Len(x)
           n == Len(y)
<1>1. /\ z \in Seq(Chars) /\ Len(z) = m + n /\ m \in Nat /\ n \in Nat
      /\ \A j \in 1 .. (m + n) : z[j] = IF j <= m THEN x[j] ELSE y[j - m]
  BY ConcatProperties, LenProperties
<1>2. /\ a \in Seq(Seq(Chars)) /\ Len(a) = m /\ b \in Seq(Seq(Chars)) /\ Len(b) = n
      /\ c \in Seq(Seq(Chars)) /\ Len(c) = m + n
  BY <1>1, WidePartsTrue
<1>3. /\ \A j \in 1 .. m : a[j] = Console!Wide(x[j])
      /\ \A j \in 1 .. n : b[j] = Console!Wide(y[j])
      /\ \A j \in 1 .. (m + n) : c[j] = Console!Wide(z[j])
  BY <1>1 DEF WideParts
<1> HIDE DEF a, b, c, z, m, n
<1>4. /\ a \o b \in Seq(Seq(Chars)) /\ Len(a \o b) = m + n
      /\ \A j \in 1 .. (m + n) : (a \o b)[j] = IF j <= m THEN a[j] ELSE b[j - m]
  BY <1>2, ConcatProperties
<1>5. ASSUME NEW j \in 1 .. (m + n)  PROVE (a \o b)[j] = c[j]
  <2>1. CASE j <= m
    BY <1>1, <1>3, <1>4, <2>1, SMTT(60)
  <2>2. CASE ~(j <= m)
    <3>1. j - m \in 1 .. n
      BY <1>1, <2>2
    <3> QED
      BY <1>1, <1>3, <1>4, <2>2, <3>1
  <2> QED
    BY <2>1, <2>2
<1>6. a \o b = c
  BY <1>2, <1>4, <1>5, SeqEqual
<1>7. FlattenSeq(a \o b) = FlattenSeq(a) \o FlattenSeq(b)
  BY <1>2, FlattenConcat
<1> QED
  BY <1>1, <1>6, <1>7, WidePartsTrue DEF a, b, c, z

(* A wide string is at most twice as long as its text.                     *)
LEMMA WideBound ==
  ASSUME NEW x \in Seq(Chars)
  PROVE  Len(Console!WideString(x)) \in Nat /\ Len(Console!WideString(x)) <= 2 * Len(x)
<1> DEFINE n == Len(x)
           w == WideParts(x)
<1>1. n \in Nat /\ w \in Seq(Seq(Chars)) /\ Len(w) = n /\ Console!WideString(x) = FlattenSeq(w)
  BY WidePartsTrue, LenProperties
<1>2. \A j \in 1 .. n : w[j] \in Seq(Chars) /\ Len(w[j]) \in Nat /\ Len(w[j]) <= 2
  <2> SUFFICES ASSUME NEW j \in 1 .. n
               PROVE  w[j] \in Seq(Chars) /\ Len(w[j]) \in Nat /\ Len(w[j]) <= 2
    OBVIOUS
  <2>1. x[j] \in Chars /\ w[j] = Console!Wide(x[j])
    BY ElementOfSeq DEF WideParts
  <2> QED
    BY <2>1, WideTrue
<1> HIDE DEF n, w
<1>3. CASE w = << >>
  BY <1>1, <1>3, FlattenEmpty
<1>4. CASE w # << >>
  <2>1. n # 0
    BY <1>1, <1>4, EmptySeq
  <2>2. PICK f \in [1 .. n -> Seq(Chars)] :
          /\ f[1] = w[1]
          /\ \A j \in 2 .. n : f[j] = f[j - 1] \o w[j]
          /\ FlattenSeq(w) = f[n]
    BY <1>1, <1>4, FlattenSteps
  <2> DEFINE P == {k \in 0 .. n : k = 0 \/ Len(f[k]) <= 2 * k}
  <2>3. ASSUME NEW k \in 0 .. (n - 1), k \in P  PROVE k + 1 \in P
    <3>1. k + 1 \in 1 .. n
      BY <1>1
    <3>2. CASE k = 0
      BY <1>2, <2>2, <3>1, <3>2
    <3>3. CASE k # 0
      <4>1. k \in 1 .. n /\ k + 1 \in 2 .. n /\ (k + 1) - 1 = k
        BY <1>1, <3>3
      <4>2. f[k + 1] = f[k] \o w[k + 1] /\ f[k] \in Seq(Chars) /\ w[k + 1] \in Seq(Chars)
        BY <1>2, <2>2, <3>1, <4>1
      <4>3. Len(f[k + 1]) = Len(f[k]) + Len(w[k + 1]) /\ Len(f[k]) \in Nat
        BY <4>2, ConcatProperties
      <4>4. Len(f[k]) <= 2 * k /\ Len(w[k + 1]) \in Nat /\ Len(w[k + 1]) <= 2
        BY <1>2, <2>3, <3>1, <3>3
      <4>5. Len(f[k + 1]) <= 2 * (k + 1)
        <5> DEFINE a == Len(f[k + 1])
                   b == Len(f[k])
                   c == Len(w[k + 1])
        <5>1. a = b + c /\ b \in Nat /\ b <= 2 * k /\ c \in Nat /\ c <= 2 /\ k \in Nat
          BY <4>1, <4>3, <4>4
        <5> HIDE DEF a, b, c
        <5>2. a <= 2 * (k + 1)
          BY <5>1
        <5> QED
          BY <5>2 DEF a
      <4> QED
        BY <3>1, <4>5
    <3> QED
      BY <3>2, <3>3
  <2>4. 0 \in P
    BY <1>1
  <2> HIDE DEF P
  <2>5. \A k \in 0 .. n : k \in P
    BY <1>1, <2>3, <2>4, UpTo
  <2>6. Len(f[n]) <= 2 * n /\ f[n] \in Seq(Chars)
    BY <1>1, <2>1, <2>2, <2>5, LenProperties DEF P
  <2> QED
    BY <1>1, <2>2, <2>6, LenProperties DEF n
<1> QED
  BY <1>3, <1>4

(* The j-th chunk of a text that is shown to its n-th character.           *)
ChunkOf(x, n, j) == SubSeq(x, (j - 1) * Chunk + 1, IF j * Chunk < n THEN j * Chunk ELSE n)

(* The chunks of the first m characters of x, some of them left out.       *)
Chunked(p, x, m) == \A j \in 1 .. Len(p) : p[j] = << >> \/ p[j] = ChunkOf(x, m, j)

(* The console shows a text in chunks p, of which it may have refused some.*)
InChunks(p) ==
  /\ p \in Seq(Seq(Chars))
  /\ console = Console!WideString(FlattenSeq(p))
  /\ Chunked(p, s8, pos)

(* There is nothing behind the cursor that conio_a2u would convert.        *)
AtEnd == pos < size => s8[pos + 1] = Console!NUL

(* What a write has done so far.                                           *)
ConsoleInv ==
  /\ s8 \in Texts /\ size \in 0 .. Len(s8) /\ pos \in 0 .. size
  /\ result = -1 \/ (result = size /\ AtEnd)
  /\ \A j \in 1 .. pos : s8[j] # Console!NUL
  /\ Console!WideStringOK
  /\ \E p : /\ InChunks(p)
            /\ pos <= Len(p) * Chunk /\ Len(p) * Chunk < pos + Chunk
            /\ pos = Len(p) * Chunk \/ AtEnd
  /\ taken => console = Console!WideString(SubSeq(s8, 1, pos))

(* The texts are sequences of characters.                                  *)
LEMMA TextsOfChars ==
  ASSUME NEW x \in Texts
  PROVE  /\ x \in Seq(Chars) /\ Len(x) \in Nat /\ \A j \in 1 .. Len(x) : x[j] \in Chars
         /\ Chunk \in Nat /\ Chunk >= 1
<1>1. x \in Seq(Console!ToSet(x)) /\ Chunk \in Nat \ {0}
  BY EfiAssumption DEF Console!EfiConsoleAssumption
<1>2. Console!ToSet(x) \subseteq Chars
  BY DEF Chars, Written
<1>3. x \in Seq(Chars)
  BY <1>1, <1>2, SeqMonotonic
<1> QED
  BY <1>1, <1>3, LenProperties, ElementOfSeq

(* A part of a text.                                                       *)
LEMMA PartOfText ==
  ASSUME NEW x \in Seq(Chars), NEW a \in 1 .. (Len(x) + 1), NEW b \in (a - 1) .. Len(x)
  PROVE  /\ SubSeq(x, a, b) \in Seq(Chars) /\ Len(SubSeq(x, a, b)) = b - a + 1
         /\ \A j \in 1 .. (b - a + 1) : SubSeq(x, a, b)[j] = x[a + j - 1]
         /\ (\A j \in a .. b : x[j] # Console!NUL) => SubSeq(x, a, b) \in Seq(Visible)
<1>1. /\ Len(x) \in Nat /\ a \in Int /\ b \in Int /\ \A j \in a .. b : x[j] \in Chars
      /\ (IF a <= b THEN b - a + 1 ELSE 0) = b - a + 1
  BY LenProperties, ElementOfSeq
<1>2. SubSeq(x, a, b) \in Seq(Chars) /\ Len(SubSeq(x, a, b)) = b - a + 1
  BY <1>1, SubSeqProperties
<1>3. \A j \in 1 .. (b - a + 1) : SubSeq(x, a, b)[j] = x[a + j - 1]
  BY <1>1, SubSeqProperties
<1>4. ASSUME \A j \in a .. b : x[j] # Console!NUL  PROVE SubSeq(x, a, b) \in Seq(Visible)
  <2>1. \A j \in a .. b : x[j] \in Visible
    BY <1>1, <1>4 DEF Visible
  <2> QED
    BY <1>1, <2>1, SubSeqProperties
<1> QED
  BY <1>2, <1>3, <1>4

(* conio_a2u stops at a NUL, or at the end of what it was asked to convert.*)
LEMMA ConvertedTrue ==
  ASSUME NEW len \in Nat, pos \in Nat
  PROVE  /\ Console!Converted(len) \in 0 .. len
         /\ \A j \in 1 .. Console!Converted(len) : s8[pos + j] # Console!NUL
         /\ Console!Converted(len) < len => s8[pos + Console!Converted(len) + 1] = Console!NUL
<1> DEFINE T == {k \in 0 .. len : k = len \/ s8[pos + k + 1] = Console!NUL}
<1>1. PICK n \in T : \A k \in T : n <= k
  <2>1. T \subseteq Nat /\ len \in T
    OBVIOUS
  <2> HIDE DEF T
  <2> QED
    BY <2>1, LeastNat
<1>2. n \in 0 .. len /\ (n < len => s8[pos + n + 1] = Console!NUL)
  BY <1>1
<1>3. ASSUME NEW j \in 1 .. n  PROVE s8[pos + j] # Console!NUL
  <2>1. j - 1 \in 0 .. len /\ ~(n <= j - 1) /\ j - 1 # len /\ pos + (j - 1) + 1 = pos + j
    BY <1>2
  <2>2. j - 1 \notin T
    BY <1>1, <2>1
  <2> QED
    BY <2>1, <2>2
<1>4. \E k \in 0 .. len : /\ \A j \in 1 .. k : s8[pos + j] # Console!NUL
                          /\ k < len => s8[pos + k + 1] = Console!NUL
  BY <1>2, <1>3
<1> QED
  BY <1>4 DEF Console!Converted

(* conio_a2u's next chunk, when the cursor is not at the end of the text.  *)
LEMMA ChunkTrue ==
  ASSUME ConsoleInv, pos < size, Console!Converted(Console!Ask) > 0
  PROVE  /\ Console!Converted(Console!Ask) \in 1 .. Chunk
         /\ pos + Console!Converted(Console!Ask) <= size
         /\ ~AtEnd
         /\ \A j \in 1 .. (pos + Console!Converted(Console!Ask)) : s8[j] # Console!NUL
         /\ \/ Console!Converted(Console!Ask) = Chunk
            \/ pos + Console!Converted(Console!Ask) < size =>
                 s8[(pos + Console!Converted(Console!Ask)) + 1] = Console!NUL
<1> DEFINE ask == Console!Ask
           n == Console!Converted(ask)
<1>1. Chunk \in Nat /\ Chunk >= 1 /\ Len(s8) \in Nat
  BY TextsOfChars DEF ConsoleInv
<1>2. pos \in Nat /\ size \in Nat /\ \A j \in 1 .. pos : s8[j] # Console!NUL
  BY <1>1 DEF ConsoleInv
<1>3. ask \in Nat /\ ask <= Chunk /\ ask <= size - pos /\ (ask = Chunk \/ ask = size - pos)
  BY <1>1, <1>2 DEF Console!Ask, Console!Smaller
<1> HIDE DEF ask
<1>4. /\ n \in 0 .. ask /\ n > 0
      /\ \A j \in 1 .. n : s8[pos + j] # Console!NUL
      /\ n < ask => s8[pos + n + 1] = Console!NUL
  BY <1>2, <1>3, ConvertedTrue DEF ask
<1> HIDE DEF n
<1>5. ~AtEnd
  <2>1. 1 \in 1 .. n
    BY <1>3, <1>4
  <2> QED
    BY <1>4, <2>1 DEF AtEnd
<1>6. \A j \in 1 .. (pos + n) : s8[j] # Console!NUL
  <2> SUFFICES ASSUME NEW j \in 1 .. (pos + n), ~(j <= pos) PROVE s8[j] # Console!NUL
    BY <1>2
  <2>1. j - pos \in 1 .. n /\ pos + (j - pos) = j
    BY <1>2, <1>3, <1>4
  <2>2. s8[pos + (j - pos)] # Console!NUL
    BY <1>4, <2>1
  <2> QED
    BY <2>1, <2>2
<1>7. n = Chunk \/ (pos + n < size => s8[(pos + n) + 1] = Console!NUL)
  <2>1. n # Chunk /\ pos + n < size => n < ask
    BY <1>1, <1>2, <1>3, <1>4
  <2> QED
    BY <1>4, <2>1
<1>8. n \in 1 .. Chunk /\ pos + n <= size
  BY <1>1, <1>2, <1>3, <1>4
<1> QED
  BY <1>5, <1>6, <1>7, <1>8 DEF n, ask

(* Products that the prover needs.                                         *)
LEMMA Products ==
  ASSUME NEW a \in Nat, NEW b \in Nat, NEW c \in Nat, a <= b
  PROVE  a * c <= b * c /\ a * c \in Nat /\ (b + 1) * c = b * c + c
  OBVIOUS

(* One more chunk, whether the console takes it or not.                    *)
LEMMA OneMoreChunk ==
  ASSUME NEW x \in Seq(Chars), NEW m \in Nat, NEW n \in 1 .. Chunk, NEW p \in Seq(Seq(Chars)),
         Chunk \in Nat, m + n <= Len(x), m = Len(p) * Chunk,
         Chunked(p, x, m), NEW s \in {<< >>, SubSeq(x, m + 1, m + n)}
  PROVE  /\ Append(p, s) \in Seq(Seq(Chars)) /\ Len(Append(p, s)) = Len(p) + 1
         /\ FlattenSeq(Append(p, s)) = FlattenSeq(p) \o s
         /\ Chunked(Append(p, s), x, m + n)
<1> DEFINE t == Len(p)
           q == Append(p, s)
<1>1. t \in Nat /\ Len(x) \in Nat /\ s \in Seq(Chars)
  <2>1. SubSeq(x, m + 1, m + n) \in Seq(Chars)
    <3>1. m + 1 \in 1 .. (Len(x) + 1) /\ m + n \in ((m + 1) - 1) .. Len(x)
      BY LenProperties
    <3> QED
      BY <3>1, PartOfText
  <2>2. << >> \in Seq(Chars)
    OBVIOUS
  <2>3. s \in Seq(Chars)
    BY <2>1, <2>2, Zenon
  <2> QED
    BY <2>3, LenProperties
<1>2. /\ q \in Seq(Seq(Chars)) /\ Len(q) = t + 1 /\ q[t + 1] = s
      /\ \A j \in 1 .. t : q[j] = p[j]
  BY <1>1, AppendProperties
<1>3. FlattenSeq(q) = FlattenSeq(p) \o s
  BY <1>1, FlattenAppend
<1> HIDE DEF q, t
<1>4. ASSUME NEW j \in 1 .. t  PROVE q[j] = << >> \/ q[j] = ChunkOf(x, m + n, j)
  <2>1. j * Chunk <= m /\ j * Chunk \in Int
    <3>1. j \in Nat /\ t \in Nat /\ j <= t /\ Chunk \in Nat
      BY <1>1
    <3>2. j * Chunk <= t * Chunk /\ j * Chunk \in Nat
      BY <3>1, Products
    <3> QED
      BY <3>2 DEF t
  <2>2. ChunkOf(x, m, j) = ChunkOf(x, m + n, j)
    <3> DEFINE c == j * Chunk
    <3>1. c \in Int /\ c <= m
      BY <2>1
    <3> HIDE DEF c
    <3>2. (IF c < m THEN c ELSE m) = c /\ (IF c < m + n THEN c ELSE m + n) = c
      BY <3>1
    <3> QED
      BY <3>2 DEF ChunkOf, c
  <2> QED
    BY <1>2, <2>2 DEF t, Chunked
<1>5. q[t + 1] = << >> \/ q[t + 1] = ChunkOf(x, m + n, t + 1)
  <2>1. (t + 1) * Chunk = m + Chunk /\ ((t + 1) - 1) * Chunk = m
    BY <1>1, Products DEF t
  <2>2. (IF (t + 1) * Chunk < m + n THEN (t + 1) * Chunk ELSE m + n) = m + n
    BY <2>1
  <2>3. ChunkOf(x, m + n, t + 1) = SubSeq(x, m + 1, m + n)
    BY <2>1, <2>2 DEF ChunkOf
  <2> QED
    BY <1>2, <2>3
<1>6. \A j \in 1 .. (t + 1) : q[j] = << >> \/ q[j] = ChunkOf(x, m + n, j)
  <2>1. \A j \in 1 .. (t + 1) : j \in 1 .. t \/ j = t + 1
    BY <1>1
  <2> QED
    BY <1>4, <1>5, <2>1
<1>7. Chunked(q, x, m + n)
  BY <1>2, <1>6 DEF Chunked
<1> QED
  BY <1>2, <1>3, <1>7 DEF q, t

(* A wide string ends with its one NUL, in the buffer on the stack.        *)
LEMMA WideTerminated ==
  ASSUME NEW x \in Seq(Visible), Chunk \in Nat, Len(x) <= Chunk,
         s16' = Append(Console!WideString(x), Console!NUL)
  PROVE  Console!WideStringOK'
<1> DEFINE w == Console!WideString(x)
           n == Len(w)
<1>1. x \in Seq(Chars) /\ Len(x) \in Nat
  BY SeqMonotonic, LenProperties DEF Visible
<1>2. w \in Seq(Visible) /\ n \in Nat /\ n <= 2 * Len(x)
  BY <1>1, WideStringTrue, WideBound
<1> HIDE DEF w
<1>3. /\ Len(Append(w, Console!NUL)) = n + 1
      /\ \A j \in 1 .. n : Append(w, Console!NUL)[j] = w[j]
      /\ Append(w, Console!NUL)[n + 1] = Console!NUL
  <2>1. w \in Seq(Visible \cup {Console!NUL})
    BY <1>2, SeqMonotonic
  <2> QED
    BY <2>1, AppendProperties
<1>4. \A j \in 1 .. n : w[j] # Console!NUL
  BY <1>2, ElementOfSeq DEF Visible
<1>5. s16' = Append(w, Console!NUL)
  BY DEF w
<1> HIDE DEF n
<1>6. Len(s16') = n + 1 /\ n + 1 <= 2 * Chunk + 1
  BY <1>1, <1>2, <1>3, <1>5
<1>7. ASSUME NEW j \in 1 .. (n + 1)  PROVE s16'[j] = Console!NUL <=> j = n + 1
  <2>1. j \in 1 .. n \/ j = n + 1
    BY <1>2
  <2> QED
    BY <1>2, <1>3, <1>4, <1>5, <2>1
<1> QED
  BY <1>6, <1>7 DEF Console!WideStringOK

(* A turn of the loop of efi_conio_write.                                  *)
LEMMA WriteChunkTrue ==
  ASSUME ConsoleInv, Console!WriteChunk
  PROVE  ConsoleInv'
<1> DEFINE n == Console!Converted(Console!Ask)
           part1 == SubSeq(s8, pos + 1, pos + n)
           wide == Console!WideString(part1)
<1>1. /\ pos < size /\ n > 0 /\ result = -1 /\ s16' = Append(wide, Console!NUL)
      /\ Console!Writer(wide) /\ pos' = pos + n /\ UNCHANGED <<s8, size, result>>
  BY DEF Console!WriteChunk, Console!Advance
<1>2. /\ s8 \in Seq(Chars) /\ s8 \in Texts /\ Len(s8) \in Nat /\ Chunk \in Nat /\ Chunk >= 1
      /\ pos \in Nat /\ size \in 0 .. Len(s8)
  BY TextsOfChars DEF ConsoleInv
<1>3. /\ n \in 1 .. Chunk /\ pos + n <= size /\ ~AtEnd
      /\ \A j \in 1 .. (pos + n) : s8[j] # Console!NUL
      /\ n = Chunk \/ (pos + n < size => s8[(pos + n) + 1] = Console!NUL)
  BY <1>1, ChunkTrue
<1> HIDE DEF n
<1>4. part1 \in Seq(Chars) /\ Len(part1) = n /\ part1 \in Seq(Visible)
  <2>1. /\ pos + 1 \in 1 .. (Len(s8) + 1) /\ pos + n \in ((pos + 1) - 1) .. Len(s8)
        /\ (pos + n) - (pos + 1) + 1 = n
        /\ \A j \in (pos + 1) .. (pos + n) : j \in 1 .. (pos + n)
    BY <1>2, <1>3
  <2>2. \A j \in (pos + 1) .. (pos + n) : s8[j] # Console!NUL
    BY <1>3, <2>1
  <2> QED
    BY <1>2, <2>1, <2>2, PartOfText
<1>5. Console!WideStringOK'
  <2>1. /\ part1 \in Seq(Visible) /\ Chunk \in Nat /\ Len(part1) <= Chunk
        /\ s16' = Append(Console!WideString(part1), Console!NUL)
    BY <1>1, <1>2, <1>3, <1>4
  <2> HIDE DEF part1
  <2> QED
    BY <2>1, WideTerminated
<1>6. PICK p : /\ InChunks(p)
               /\ pos <= Len(p) * Chunk /\ Len(p) * Chunk < pos + Chunk
               /\ pos = Len(p) * Chunk
  BY <1>3 DEF ConsoleInv
<1>7. p \in Seq(Seq(Chars)) /\ Len(p) \in Nat /\ FlattenSeq(p) \in Seq(Chars)
  BY <1>6, FlattenInSeq, LenProperties DEF InChunks
<1>8. PICK s \in {<< >>, part1} : console' = Console!WideString(FlattenSeq(p) \o s)
  <2>1. CASE console' = console \o wide
    <3>1. Console!WideString(FlattenSeq(p) \o part1) = console \o wide
      BY <1>4, <1>6, <1>7, WideConcat DEF InChunks
    <3> QED
      BY <2>1, <3>1
  <2>2. CASE console' = console
    <3>1. FlattenSeq(p) \o << >> = FlattenSeq(p)
      BY <1>7, ConcatEmptySeq
    <3> QED
      BY <1>6, <2>2, <3>1 DEF InChunks
  <2> QED
    BY <1>1, <2>1, <2>2 DEF Console!Writer
<1> DEFINE q == Append(p, s)
<1>9. /\ q \in Seq(Seq(Chars)) /\ Len(q) = Len(p) + 1
      /\ FlattenSeq(q) = FlattenSeq(p) \o s /\ Chunked(q, s8, pos + n)
  <2>1. /\ s8 \in Seq(Chars) /\ pos \in Nat /\ n \in 1 .. Chunk /\ p \in Seq(Seq(Chars))
        /\ Chunk \in Nat /\ pos + n <= Len(s8) /\ pos = Len(p) * Chunk
        /\ Chunked(p, s8, pos) /\ s \in {<< >>, SubSeq(s8, pos + 1, pos + n)}
    BY <1>2, <1>3, <1>6, <1>7 DEF InChunks
  <2> HIDE DEF part1, q
  <2>2. /\ Append(p, s) \in Seq(Seq(Chars)) /\ Len(Append(p, s)) = Len(p) + 1
        /\ FlattenSeq(Append(p, s)) = FlattenSeq(p) \o s
        /\ Chunked(Append(p, s), s8, pos + n)
    BY <2>1, OneMoreChunk, ZenonT(60)
  <2> QED
    BY <2>2 DEF q
<1> HIDE DEF q
<1>10. InChunks(q)'
  BY <1>1, <1>8, <1>9 DEF InChunks
<1>11. /\ pos' <= Len(q) * Chunk /\ Len(q) * Chunk < pos' + Chunk
       /\ pos' = Len(q) * Chunk \/ AtEnd'
  <2>1. Len(q) * Chunk = pos + Chunk
    BY <1>2, <1>6, <1>7, <1>9, Products
  <2>2. n = Chunk \/ AtEnd'
    BY <1>1, <1>3 DEF AtEnd
  <2> QED
    BY <1>1, <1>2, <1>3, <2>1, <2>2
<1>12. taken' => console' = Console!WideString(SubSeq(s8, 1, pos + n))
  <2> SUFFICES ASSUME taken' PROVE console' = Console!WideString(SubSeq(s8, 1, pos + n))
    OBVIOUS
  <2>1. taken /\ console' = console \o wide
    BY <1>1 DEF Console!Writer
  <2>2. console = Console!WideString(SubSeq(s8, 1, pos))
    BY <2>1 DEF ConsoleInv
  <2>3. /\ 1 \in 1 .. (Len(s8) + 1) /\ pos \in (1 - 1) .. Len(s8) /\ pos + n \in pos .. Len(s8)
    BY <1>2, <1>3
  <2>4. SubSeq(s8, 1, pos) \o part1 = SubSeq(s8, 1, pos + n) /\ SubSeq(s8, 1, pos) \in Seq(Chars)
    BY <1>2, <2>3, ConcatAdjacentSubSeq, PartOfText
  <2>5. Console!WideString(SubSeq(s8, 1, pos) \o part1) = console \o wide
    BY <1>4, <2>2, <2>4, WideConcat
  <2> QED
    BY <2>1, <2>4, <2>5
<1>13. /\ s8' \in Texts /\ size' \in 0 .. Len(s8') /\ pos' \in 0 .. size'
       /\ \A j \in 1 .. pos' : s8'[j] # Console!NUL
       /\ result' = -1
  BY <1>1, <1>2, <1>3
<1> QED
  BY <1>1, <1>5, <1>10, <1>11, <1>12, <1>13 DEF ConsoleInv

(* Before a write, nothing is shown.                                       *)
LEMMA ConsoleInitially == Console!Init => ConsoleInv
<1> SUFFICES ASSUME Console!Init PROVE ConsoleInv
  OBVIOUS
<1>1. /\ s8 \in Texts /\ size \in 0 .. Len(s8) /\ pos = 0 /\ s16 = << >> /\ console = << >>
      /\ result = -1
  BY DEF Console!Init
<1>2. Len(s8) \in Nat /\ Chunk \in Nat /\ Chunk >= 1
  BY <1>1, TextsOfChars
<1>3. /\ << >> \in Seq(Chars) /\ << >> \in Seq(Seq(Chars)) /\ Len(<< >>) = 0
  OBVIOUS
<1>4. Console!WideString(<< >>) = << >>
  BY <1>3, WideStringTrue
<1>5. InChunks(<< >>)
  BY <1>1, <1>3, <1>4, FlattenEmpty DEF InChunks, Chunked
<1>6. \E p : /\ InChunks(p)
             /\ pos <= Len(p) * Chunk /\ Len(p) * Chunk < pos + Chunk
             /\ pos = Len(p) * Chunk \/ AtEnd
  <2>1. 0 * Chunk = 0
    BY <1>2
  <2> QED
    BY <1>1, <1>2, <1>3, <1>5, <2>1
<1>7. Console!WideStringOK
  BY <1>1, <1>2, <1>3 DEF Console!WideStringOK
<1>8. SubSeq(s8, 1, pos) = << >>
  BY <1>1, SubSeqEmpty
<1>9. console = Console!WideString(SubSeq(s8, 1, pos))
  BY <1>1, <1>4, <1>8
<1>10. /\ pos \in 0 .. size /\ \A j \in 1 .. pos : s8[j] # Console!NUL
  BY <1>1, <1>2
<1> QED
  BY <1>1, <1>6, <1>7, <1>9, <1>10 DEF ConsoleInv

(* The loop ends where there is nothing to convert.                        *)
LEMMA ReturnTrue ==
  ASSUME ConsoleInv, Console!Return
  PROVE  ConsoleInv'
<1>1. /\ pos < size => Console!Converted(Console!Ask) = 0
      /\ result' = size /\ UNCHANGED <<s8, size, pos, s16, console, taken>>
  BY DEF Console!Return
<1>2. /\ Len(s8) \in Nat /\ Chunk \in Nat /\ Chunk >= 1 /\ pos \in Nat /\ size \in Nat
  BY TextsOfChars DEF ConsoleInv
<1>3. AtEnd
  <2> SUFFICES ASSUME pos < size PROVE s8[pos + 1] = Console!NUL
    BY DEF AtEnd
  <2>1. Console!Ask \in Nat /\ 0 < Console!Ask
    BY <1>2 DEF Console!Ask, Console!Smaller
  <2>2. Console!Converted(Console!Ask) = 0
    BY <1>1
  <2>3. s8[pos + 0 + 1] = Console!NUL
    BY <1>2, <2>1, <2>2, ConvertedTrue
  <2> QED
    BY <1>2, <2>3
<1>4. AtEnd' /\ (Console!WideStringOK)' /\ \A p : InChunks(p)' <=> InChunks(p)
  BY <1>1, <1>3 DEF AtEnd, ConsoleInv, Console!WideStringOK, InChunks
<1> QED
  BY <1>1, <1>4 DEF ConsoleInv

(* What is known of a write holds in every state.                          *)
LEMMA ConsoleInvariant == Spec => [](part = "console" => ConsoleInv)
<1>1. Init => (part = "console" => ConsoleInv)
  BY ConsoleInitially DEF Init
<1>2. (part = "console" => ConsoleInv) /\ [Next]_vars => (part = "console" => ConsoleInv)'
  <2> SUFFICES ASSUME part = "console" => ConsoleInv, [Next]_vars, part' = "console"
               PROVE  ConsoleInv'
    OBVIOUS
  <2>1. part = "console"
    BY DEF Next, vars, ConsoleStep, StartStep, ArgvStep
  <2>2. CASE ConsoleStep
    BY <2>1, <2>2, WriteChunkTrue, ReturnTrue DEF ConsoleStep, Console!Next
  <2>3. CASE UNCHANGED consoleVars
    <3>1. \A p : InChunks(p)' <=> InChunks(p)
      BY <2>3 DEF consoleVars, InChunks
    <3>2. (Console!WideStringOK)' /\ (AtEnd' <=> AtEnd)
      BY <2>1, <2>3 DEF consoleVars, ConsoleInv, Console!WideStringOK, AtEnd
    <3> QED
      BY <2>1, <2>3, <3>1, <3>2 DEF consoleVars, ConsoleInv
  <2> QED
    BY <2>2, <2>3 DEF Next, vars, StartStep, ArgvStep
<1> QED
  BY <1>1, <1>2, PTL DEF Spec

(* The wide string of a chunk of any text fits in the buffer on the stack, *)
(* which is twice as long and one more, and ends with its only NUL.        *)
THEOREM WideStringsFit == Spec => []WideStringOK
<1>1. (part = "console" => ConsoleInv) => WideStringOK
  BY DEF ConsoleInv, WideStringOK
<1> QED
  BY <1>1, ConsoleInvariant, PTL

(* The text to its first NUL is what the cursor has passed at the end.     *)
LEMMA UpToNulTrue ==
  ASSUME ConsoleInv, AtEnd
  PROVE  Console!Hook!UpToNul(SubSeq(s8, 1, size)) = SubSeq(s8, 1, pos)
<1> DEFINE x == SubSeq(s8, 1, size)
           y == Append(x, Console!NUL)
           I == {k \in 1 .. Len(y) : y[k] = Console!NUL}
<1>1. /\ s8 \in Seq(Chars) /\ Len(s8) \in Nat /\ size \in 0 .. Len(s8) /\ pos \in 0 .. size
      /\ \A j \in 1 .. pos : s8[j] # Console!NUL
  BY TextsOfChars DEF ConsoleInv
<1>2. x \in Seq(Chars) /\ Len(x) = size /\ \A j \in 1 .. size : x[j] = s8[j]
  <2>1. 1 \in 1 .. (Len(s8) + 1) /\ size \in (1 - 1) .. Len(s8) /\ size - 1 + 1 = size
    BY <1>1
  <2>2. x \in Seq(Chars) /\ Len(x) = size /\ \A j \in 1 .. size : x[j] = s8[1 + j - 1]
    BY <1>1, <2>1, PartOfText
  <2>3. \A j \in 1 .. size : 1 + j - 1 = j
    BY <1>1
  <2> QED
    BY <2>2, <2>3
<1> HIDE DEF x
<1>3. Len(y) = size + 1 /\ y[size + 1] = Console!NUL /\ \A j \in 1 .. size : y[j] = s8[j]
  <2>1. x \in Seq(Chars \cup {Console!NUL})
    BY <1>2, SeqMonotonic
  <2> QED
    BY <1>2, <2>1, AppendProperties
<1> HIDE DEF y
<1>4. pos + 1 \in I
  <2>1. CASE pos < size
    BY <1>1, <1>3, <2>1 DEF AtEnd
  <2>2. CASE pos = size
    BY <1>1, <1>3, <2>2
  <2> QED
    BY <1>1, <2>1, <2>2
<1>5. \A k \in I : k \in Int /\ pos + 1 <= k
  BY <1>1, <1>3
<1> HIDE DEF I
<1>6. (CHOOSE k \in I : \A j \in I : k <= j) = pos + 1
  <2>1. \A k \in I : (\A j \in I : k <= j) => k = pos + 1
    BY <1>1, <1>4, <1>5
  <2> QED
    BY <1>4, <1>5, <2>1
<1>7. Console!Hook!UpToNul(x) =
        SubSeq(x, 1, (IF I # {} THEN CHOOSE k \in I : \A j \in I : k <= j ELSE 0) - 1)
  BY DEF Console!Hook!UpToNul, Console!Hook!SelectInSeq, Console!Hook!Min, I, y
<1>8. Console!Hook!UpToNul(x) = SubSeq(x, 1, pos)
  <2>1. (pos + 1) - 1 = pos /\ I # {}
    BY <1>1, <1>4
  <2> QED
    BY <1>6, <1>7, <2>1
<1>9. SubSeq(x, 1, pos) = SubSeq(s8, 1, pos)
  <2>1. \A k \in 1 .. pos : x[k] = s8[k] /\ x[k] \in Chars /\ s8[k] \in Chars
    BY <1>1, <1>2, ElementOfSeq
  <2>2. /\ SubSeq(x, 1, pos) \in Seq(Chars) /\ SubSeq(s8, 1, pos) \in Seq(Chars)
        /\ Len(SubSeq(x, 1, pos)) = pos /\ Len(SubSeq(s8, 1, pos)) = pos
        /\ \A k \in 1 .. pos : SubSeq(x, 1, pos)[k] = x[k] /\ SubSeq(s8, 1, pos)[k] = s8[k]
    BY <1>1, <2>1, SubSeqProperties
  <2> QED
    BY <2>1, <2>2, SeqEqual
<1> QED
  BY <1>8, <1>9 DEF x

(* Division, by what it is for.                                            *)
LEMMA Quotient ==
  ASSUME NEW t \in Nat, NEW c \in Nat, c >= 1, NEW x \in Nat, t * c <= x, x < t * c + c
  PROVE  x \div c = t
<1> DEFINE q == x \div c
<1>1. q \in Int /\ c * q <= x /\ x < c * q + c
  OBVIOUS
<1> HIDE DEF q
<1>2. ASSUME q < t  PROVE FALSE
  <2>1. q + 1 <= t /\ (q + 1) * c <= t * c
    BY <1>1, <1>2
  <2> QED
    BY <1>1, <2>1
<1>3. ASSUME t < q  PROVE FALSE
  <2>1. t + 1 <= q /\ (t + 1) * c <= q * c
    BY <1>1, <1>3
  <2> QED
    BY <1>1, <2>1
<1> QED
  BY <1>1, <1>2, <1>3 DEF q

(* The pieces of WriteHook are the chunks of the text that is shown.       *)
LEMMA PiecesTrue ==
  ASSUME NEW x, NEW n \in Nat, NEW t \in Nat, NEW y \in Seq(Chars), n <= Len(y),
         Console!Hook!UpToNul(x) = SubSeq(y, 1, n), Chunk \in Nat, Chunk >= 1,
         n <= t * Chunk, t * Chunk < n + Chunk
  PROVE  /\ DOMAIN Console!Hook!Pieces(x) = 1 .. t
         /\ \A j \in 1 .. t : Console!Hook!Pieces(x)[j] = ChunkOf(y, n, j)
<1> DEFINE z == SubSeq(y, 1, n)
<1>1. Len(y) \in Nat /\ z \in Seq(Chars) /\ Len(z) = n /\ \A j \in 1 .. n : z[j] = y[j]
  <2>1. Len(y) \in Nat /\ 1 \in 1 .. (Len(y) + 1) /\ n \in (1 - 1) .. Len(y) /\ n - 1 + 1 = n
    BY LenProperties
  <2>2. z \in Seq(Chars) /\ Len(z) = n /\ \A j \in 1 .. n : z[j] = y[1 + j - 1]
    BY <2>1, PartOfText
  <2>3. \A j \in 1 .. n : 1 + j - 1 = j
    OBVIOUS
  <2> QED
    BY <2>1, <2>2, <2>3
<1>2. (n + Chunk - 1) \div Chunk = t
  <2>1. n + Chunk - 1 \in Nat /\ t * Chunk <= n + Chunk - 1 /\ n + Chunk - 1 < t * Chunk + Chunk
    <3> DEFINE m == t * Chunk
    <3>1. m \in Nat
      BY Products
    <3> HIDE DEF m
    <3>2. n + Chunk - 1 \in Nat /\ m <= n + Chunk - 1 /\ n + Chunk - 1 < m + Chunk
      BY <3>1 DEF m
    <3> QED
      BY <3>2 DEF m
  <2> QED
    BY <2>1, Quotient
<1>3. Console!Hook!UpToNul(x) = z
  OBVIOUS
<1> HIDE DEF z
<1>4. Console!Hook!Pieces(x) =
        [j \in 1 .. t |-> SubSeq(z, (j - 1) * Chunk + 1, IF j * Chunk < n THEN j * Chunk ELSE n)]
  BY <1>1, <1>2, <1>3 DEF Console!Hook!Pieces
<1>5. ASSUME NEW j \in 1 .. t
      PROVE  SubSeq(z, (j - 1) * Chunk + 1, IF j * Chunk < n THEN j * Chunk ELSE n)
               = ChunkOf(y, n, j)
  <2> DEFINE a == (j - 1) * Chunk
             b == IF j * Chunk < n THEN j * Chunk ELSE n
             m == t * Chunk
  <2>1. a \in Nat /\ j * Chunk = a + Chunk /\ j * Chunk <= m /\ m \in Nat
    <3>1. j - 1 \in Nat /\ j - 1 <= j /\ j \in Nat /\ j <= t
      OBVIOUS
    <3>2. (j - 1) * Chunk \in Nat /\ j * Chunk <= t * Chunk /\ t * Chunk \in Nat
      BY <3>1, Products
    <3>3. ((j - 1) + 1) * Chunk = (j - 1) * Chunk + Chunk
      BY <3>1, Products
    <3> QED
      BY <3>2, <3>3
  <2>2. m < n + Chunk
    OBVIOUS
  <2>3. b \in Int /\ b <= n
    BY <2>1
  <2> HIDE DEF a, b, m
  <2>4. \A k \in (a + 1) .. b : k \in 1 .. n
    BY <2>1, <2>3
  <2>5. \A k \in (a + 1) .. b : z[k] = y[k] /\ z[k] \in Chars /\ y[k] \in Chars
    BY <1>1, <2>4, ElementOfSeq
  <2>6. a + 1 \in Int
    BY <2>1
  <2> DEFINE l == IF a + 1 <= b THEN b - (a + 1) + 1 ELSE 0
  <2>7. /\ SubSeq(z, a + 1, b) \in Seq(Chars) /\ SubSeq(y, a + 1, b) \in Seq(Chars)
        /\ Len(SubSeq(z, a + 1, b)) = l /\ Len(SubSeq(y, a + 1, b)) = l
        /\ \A k \in 1 .. (b - (a + 1) + 1) : /\ SubSeq(z, a + 1, b)[k] = z[(a + 1) + k - 1]
                                             /\ SubSeq(y, a + 1, b)[k] = y[(a + 1) + k - 1]
    BY <2>3, <2>5, <2>6, SubSeqProperties
  <2>8. \A k \in 1 .. l : SubSeq(z, a + 1, b)[k] = SubSeq(y, a + 1, b)[k]
    <3> SUFFICES ASSUME NEW k \in 1 .. l PROVE SubSeq(z, a + 1, b)[k] = SubSeq(y, a + 1, b)[k]
      OBVIOUS
    <3>1. k \in 1 .. (b - (a + 1) + 1) /\ (a + 1) + k - 1 \in (a + 1) .. b
      BY <2>1, <2>3
    <3> QED
      BY <2>5, <2>7, <3>1
  <2> HIDE DEF l
  <2>9. SubSeq(z, a + 1, b) = SubSeq(y, a + 1, b)
    BY <2>7, <2>8, SeqEqual
  <2> QED
    BY <2>9 DEF ChunkOf, a, b
<1> QED
  BY <1>4, <1>5

(* A write that returns has shown what WriteHook says.                     *)
LEMMA Shown ==
  ASSUME ConsoleInv
  PROVE  Console!ShowsText
<1> SUFFICES ASSUME result >= 0
             PROVE  LET x == SubSeq(s8, 1, size) IN
                    /\ \E o \in Console!Hook!ConsoleOutcomes(x) :
                         result = o.ret /\ console = Console!WideString(o.printed)
                    /\ taken => console = Console!WideString(Console!Hook!UpToNul(x))
  BY DEF Console!ShowsText
<1> DEFINE x == SubSeq(s8, 1, size)
           pieces == Console!Hook!Pieces(x)
<1>1. result = size /\ AtEnd
  BY DEF ConsoleInv
<1>2. Console!Hook!UpToNul(x) = SubSeq(s8, 1, pos)
  BY <1>1, UpToNulTrue
<1>3. /\ s8 \in Seq(Chars) /\ Len(s8) \in Nat /\ size \in 0 .. Len(s8) /\ pos \in 0 .. size
      /\ Chunk \in Nat /\ Chunk >= 1
  BY TextsOfChars DEF ConsoleInv
<1>4. Len(x) = size
  <2>1. 1 \in 1 .. (Len(s8) + 1) /\ size \in (1 - 1) .. Len(s8) /\ size - 1 + 1 = size
    BY <1>3
  <2> QED
    BY <1>3, <2>1, PartOfText
<1>5. PICK p : InChunks(p) /\ pos <= Len(p) * Chunk /\ Len(p) * Chunk < pos + Chunk
  BY DEF ConsoleInv
<1> DEFINE t == Len(p)
           kept == {j \in 1 .. t : p[j] = ChunkOf(s8, pos, j)}
<1>6. t \in Nat /\ p \in Seq(Seq(Chars)) /\ console = Console!WideString(FlattenSeq(p))
      /\ \A j \in 1 .. t : p[j] = << >> \/ p[j] = ChunkOf(s8, pos, j)
  BY <1>5, LenProperties DEF InChunks, Chunked
<1> HIDE DEF x
<1>7. DOMAIN pieces = 1 .. t /\ \A j \in 1 .. t : pieces[j] = ChunkOf(s8, pos, j)
  <2>1. /\ pos \in Nat /\ t \in Nat /\ pos <= Len(s8) /\ pos <= t * Chunk
        /\ t * Chunk < pos + Chunk
    BY <1>3, <1>5, <1>6
  <2> HIDE DEF t
  <2> QED
    BY <1>2, <1>3, <2>1, PiecesTrue
<1> HIDE DEF pieces
<1>8. [j \in DOMAIN pieces |-> IF j \in kept THEN pieces[j] ELSE << >>] = p
  <2>1. DOMAIN p = 1 .. t
    BY <1>6, LenProperties
  <2>2. \A j \in 1 .. t : p[j] = IF j \in kept THEN pieces[j] ELSE << >>
    BY <1>6, <1>7
  <2>3. p = [j \in 1 .. t |-> p[j]]
    BY <1>6, <2>1
  <2> HIDE DEF kept, t
  <2> QED
    BY <1>7, <2>2, <2>3
<1>9. kept \in SUBSET (DOMAIN pieces)
  BY <1>7
<1> HIDE DEF kept, t
<1> DEFINE o == [ret |-> Len(x), printed |-> FlattenSeq(p)]
<1>10. o \in Console!Hook!ConsoleOutcomes(x)
  BY <1>8, <1>9, SameFlatten DEF Console!Hook!ConsoleOutcomes, pieces
<1>11. result = o.ret /\ console = Console!WideString(o.printed)
  BY <1>1, <1>4, <1>6
<1>12. taken => console = Console!WideString(Console!Hook!UpToNul(x))
  BY <1>2 DEF ConsoleInv
<1> QED
  BY <1>10, <1>11, <1>12 DEF x

(* Whatever the text, wherever its chunks fall and its newlines and NULs   *)
(* are, the console shows it to its first NUL, \n as \r\n, but for chunks  *)
(* that it has refused: the outcomes over which stdio is checked.          *)
THEOREM TextShown == Spec => []ShowsText
<1>1. (part = "console" => ConsoleInv) => ShowsText
  BY Shown DEF ShowsText
<1> QED
  BY <1>1, ConsoleInvariant, PTL

-----------------------------------------------------------------------------
(* The arguments of main().                                                *)

(* retrieve_argv() narrows the shell's 16-bit characters to bytes: what it *)
(* promises about them is about characters that are bytes.                 *)
ArgumentsOfBytes == \A x \in Argvs : x \in Seq(Seq(1 .. 255))

(* The strings of the block: all of them, and the first k.                 *)
Strings == [j \in DOMAIN Argv |-> Append(Argv[j], 0)]
Shell == FlattenSeq(Strings)
First(k) == FlattenSeq(SubSeq(Strings, 1, k))

(* The strings have their NUL, and bytes.                                  *)
LEMMA StringsTrue ==
  ASSUME Argv \in Seq(Seq(1 .. 255))
  PROVE  /\ Len(Argv) \in Nat /\ Strings \in Seq(Seq(0 .. 255)) /\ Len(Strings) = Len(Argv)
         /\ \A j \in 1 .. Len(Argv) :
              /\ Argv[j] \in Seq(1 .. 255) /\ Strings[j] = Append(Argv[j], 0)
              /\ Strings[j] \in Seq(0 .. 255) /\ Len(Strings[j]) \in Nat \ {0}
<1> DEFINE n == Len(Argv)
<1>1. n \in Nat /\ DOMAIN Argv = 1 .. n /\ \A j \in 1 .. n : Argv[j] \in Seq(1 .. 255)
  BY LenProperties, ElementOfSeq
<1>2. ASSUME NEW j \in 1 .. n
      PROVE  /\ Append(Argv[j], 0) \in Seq(0 .. 255)
             /\ Len(Append(Argv[j], 0)) \in Nat \ {0}
  <2>1. Argv[j] \in Seq(0 .. 255) /\ 0 \in 0 .. 255
    BY <1>1, SeqMonotonic
  <2> QED
    BY <2>1, AppendProperties, LenProperties
<1>3. Strings \in [1 .. n -> Seq(0 .. 255)] /\ \A j \in 1 .. n : Strings[j] = Append(Argv[j], 0)
  BY <1>1, <1>2 DEF Strings
<1> HIDE DEF n
<1>4. Strings \in Seq(Seq(0 .. 255)) /\ Len(Strings) = n
  BY <1>1, <1>3, SeqDef
<1> QED
  BY <1>1, <1>2, <1>3, <1>4 DEF n

(* The strings one behind the other.                                       *)
LEMMA FirstTrue ==
  ASSUME Argv \in Seq(Seq(1 .. 255)), NEW k \in 0 .. Len(Argv)
  PROVE  /\ First(k) \in Seq(0 .. 255) /\ Len(First(k)) \in Nat
         /\ Shell \in Seq(0 .. 255) /\ Len(Shell) \in Nat /\ Len(First(k)) <= Len(Shell)
         /\ \A c \in 1 .. Len(First(k)) : Shell[c] = First(k)[c]
         /\ k < Len(Argv) =>
              /\ First(k + 1) = First(k) \o Strings[k + 1]
              /\ Len(First(k + 1)) = Len(First(k)) + Len(Strings[k + 1])
         /\ First(0) = << >> /\ First(Len(Argv)) = Shell
<1> DEFINE n == Len(Argv)
           a == SubSeq(Strings, 1, k)
           b == SubSeq(Strings, k + 1, n)
<1>1. n \in Nat /\ Strings \in Seq(Seq(0 .. 255)) /\ Len(Strings) = n
  BY StringsTrue
<1>2. a \in Seq(Seq(0 .. 255)) /\ b \in Seq(Seq(0 .. 255)) /\ a \o b = Strings
  <2>1. \A j \in 1 .. n : Strings[j] \in Seq(0 .. 255)
    BY <1>1, ElementOfSeq
  <2>2. a \in Seq(Seq(0 .. 255)) /\ b \in Seq(Seq(0 .. 255))
    BY <1>1, <2>1, SubSeqProperties
  <2>3. /\ 1 \in 1 .. (Len(Strings) + 1) /\ k \in (1 - 1) .. Len(Strings)
        /\ n \in k .. Len(Strings)
    BY <1>1
  <2>4. a \o b = SubSeq(Strings, 1, n)
    BY <1>1, <2>3, ConcatAdjacentSubSeq
  <2> QED
    BY <1>1, <2>2, <2>4, SubSeqFull
<1>3. /\ First(k) = FlattenSeq(a) /\ FlattenSeq(a) \in Seq(0 .. 255)
      /\ FlattenSeq(b) \in Seq(0 .. 255) /\ Shell = FlattenSeq(a) \o FlattenSeq(b)
  BY <1>2, FlattenInSeq, FlattenConcat, ZenonT(60) DEF First, Shell
<1>4. /\ First(k) \in Seq(0 .. 255) /\ Len(First(k)) \in Nat /\ Len(FlattenSeq(b)) \in Nat
      /\ Shell \in Seq(0 .. 255) /\ Len(Shell) = Len(First(k)) + Len(FlattenSeq(b))
      /\ \A c \in 1 .. Len(First(k)) + Len(FlattenSeq(b)) :
           Shell[c] = IF c <= Len(First(k)) THEN First(k)[c]
                      ELSE FlattenSeq(b)[c - Len(First(k))]
  <2> DEFINE x == FlattenSeq(a)
             y == FlattenSeq(b)
  <2>1. x \in Seq(0 .. 255) /\ y \in Seq(0 .. 255) /\ Shell = x \o y /\ First(k) = x
    BY <1>3
  <2> HIDE DEF x, y
  <2> QED
    BY <2>1, ConcatProperties, LenProperties DEF y
<1>5. ASSUME k < n
      PROVE  /\ First(k + 1) = First(k) \o Strings[k + 1]
             /\ Len(First(k + 1)) = Len(First(k)) + Len(Strings[k + 1])
  <2>1. k + 1 \in 1 .. n /\ Strings[k + 1] \in Seq(0 .. 255)
    BY <1>1, <1>5, ElementOfSeq
  <2>2. SubSeq(Strings, 1, k + 1) = Append(a, Strings[k + 1])
    <3>1. k \in 0 .. (Len(Strings) - 1)
      BY <1>1, <1>5
    <3> QED
      BY <1>1, <3>1, SubSeqGrows
  <2>3. First(k + 1) = First(k) \o Strings[k + 1]
    BY <1>2, <1>3, <2>1, <2>2, FlattenAppend, ZenonT(60) DEF First
  <2> DEFINE x == First(k)
             y == Strings[k + 1]
             z == First(k + 1)
  <2>4. x \in Seq(0 .. 255) /\ y \in Seq(0 .. 255) /\ z = x \o y
    BY <1>4, <2>1, <2>3
  <2> HIDE DEF x, y, z
  <2>5. Len(z) = Len(x) + Len(y)
    BY <2>4, ConcatProperties
  <2> QED
    BY <2>3, <2>5 DEF x, y, z
<1>6. First(0) = << >> /\ First(n) = Shell
  <2>1. SubSeq(Strings, 1, 0) = << >> /\ SubSeq(Strings, 1, n) = Strings
    BY <1>1, SubSeqEmpty, SubSeqFull
  <2> QED
    BY <2>1, FlattenEmpty DEF First, Shell
<1> HIDE DEF n, a, b
<1>7. /\ Len(Shell) \in Nat /\ Len(First(k)) <= Len(Shell)
      /\ \A c \in 1 .. Len(First(k)) : Shell[c] = First(k)[c]
  <2> DEFINE p == Len(First(k))
             q == Len(FlattenSeq(b))
             r == Len(Shell)
  <2>1. /\ p \in Nat /\ q \in Nat /\ r = p + q
        /\ \A c \in 1 .. p + q : Shell[c] = IF c <= p THEN First(k)[c] ELSE FlattenSeq(b)[c - p]
    BY <1>4
  <2> HIDE DEF p, q, r
  <2>2. r \in Nat /\ p <= r
    BY <2>1
  <2>3. ASSUME NEW c \in 1 .. p  PROVE Shell[c] = First(k)[c]
    <3>1. c \in 1 .. p + q /\ c <= p
      BY <2>1
    <3> QED
      BY <2>1, <3>1
  <2> QED
    BY <2>2, <2>3 DEF p, r
<1> QED
  BY <1>4, <1>5, <1>6, <1>7 DEF n

(* The blocks of n cells, and what a store leaves in them.                 *)
Blocks(n) == [1 .. n -> Int]
StoredIn(b, n, c, x, y) ==
  \A k \in 1 .. n : y[k] = IF k \in c .. (c + Len(x) - 1) THEN x[k - c + 1] ELSE b[k]

(* A store inside the block.                                               *)
LEMMA StoreInBlock ==
  ASSUME NEW n \in Nat, NEW b \in Blocks(n), NEW c \in 1 .. n, NEW x \in Seq(Int),
         Len(x) >= 1, c + Len(x) - 1 <= n
  PROVE  /\ Arguments!Stored(b, c, x) \in Blocks(n)
         /\ StoredIn(b, n, c, x, Arguments!Stored(b, c, x))
<1> USE DEF Blocks
<1> DEFINE m == Len(x)
<1>1. m \in Nat /\ \A k \in 1 .. m : x[k] \in Int
  BY LenProperties, ElementOfSeq
<1>2. Len(b) = n
  <2>1. b \in Seq(Int)
    BY SeqDef
  <2> QED
    BY <2>1, LenProperties
<1> HIDE DEF m
<1>3. (IF c + m - 1 > Len(b) THEN c + m - 1 ELSE Len(b)) = n
  BY <1>1, <1>2 DEF m
<1>4. Arguments!Stored(b, c, x) =
        [k \in 1 .. n |-> IF k \in c .. (c + m - 1) THEN x[k - c + 1] ELSE b[k]]
  BY <1>3 DEF Arguments!Stored, m
<1>5. \A k \in 1 .. n : (IF k \in c .. (c + m - 1) THEN x[k - c + 1] ELSE b[k]) \in Int
  <2> SUFFICES ASSUME NEW k \in 1 .. n, k \in c .. (c + m - 1) PROVE x[k - c + 1] \in Int
    OBVIOUS
  <2>1. k - c + 1 \in 1 .. m
    BY <1>1
  <2> QED
    BY <1>1, <2>1
<1> QED
  BY <1>4, <1>5 DEF m, StoredIn

(* The cells of the pointers are apart, and before the strings.            *)
LEMMA SlotsApart ==
  ASSUME NEW n \in Nat, NEW j \in 0 .. n, NEW k \in 0 .. n, NEW w \in Nat, w >= 1, NEW c \in 1 .. w
  PROVE  /\ j * w \in Nat /\ k * w \in Nat /\ (n + 1) * w \in Nat
         /\ j * w + w <= (n + 1) * w /\ j * w + c \in 1 .. (n + 1) * w
         /\ j * w + c \in (k * w + 1) .. (k * w + w) => j = k
<1>1. j * w \in Nat /\ k * w \in Nat /\ n * w \in Nat /\ j * w <= n * w
      /\ (n + 1) * w = n * w + w /\ (j + 1) * w = j * w + w /\ (k + 1) * w = k * w + w
  BY Products
<1>2. ASSUME j < k  PROVE j * w + w <= k * w
  <2>1. j + 1 <= k /\ j + 1 \in Nat /\ k \in Nat
    BY <1>2
  <2>2. (j + 1) * w <= k * w
    BY <2>1, Products
  <2> QED
    BY <1>1, <2>2
<1>3. ASSUME k < j  PROVE k * w + w <= j * w
  <2>1. k + 1 <= j /\ k + 1 \in Nat /\ j \in Nat
    BY <1>3
  <2>2. (k + 1) * w <= j * w
    BY <2>1, Products
  <2> QED
    BY <1>1, <2>2
<1> DEFINE a == j * w
           b == k * w
           d == n * w
           e == (n + 1) * w
<1>4. /\ a \in Nat /\ b \in Nat /\ e \in Nat /\ a <= d /\ e = d + w /\ d \in Nat
      /\ j < k => a + w <= b
      /\ k < j => b + w <= a
  BY <1>1, <1>2, <1>3
<1> HIDE DEF a, b, d, e
<1>5. /\ a + w <= e /\ a + c \in 1 .. e
      /\ a + c \in (b + 1) .. (b + w) => j = k
  BY <1>4
<1> QED
  BY <1>4, <1>5 DEF a, b, e

(* Where the strings begin.                                                *)
Pointers == Arguments!PtrsSize

(* The block with the first m strings and the pointers to them.            *)
Filled(x, m) ==
  /\ x \in [1 .. (Pointers + Len(Shell)) -> Int]
  /\ \A c \in 1 .. Len(First(m)) : x[Pointers + c] = Shell[c]
  /\ \A j \in 0 .. (m - 1) : \A c \in 1 .. PtrSize :
       x[j * PtrSize + c] = Pointers + 1 + Len(First(j))

(* What retrieve_argv() has done so far.                                   *)
ArgvInv ==
  /\ Argv \in Argvs
  /\ step \in {"ask", "copy", "returned"}
  /\ step = "ask" => data = << >> /\ argv = 0
  /\ step = "copy" =>
       i \in 0 .. Len(Argv) /\ buff = Pointers + 1 + Len(First(i)) /\ Filled(data, i)
  /\ step = "returned" =>
       \/ argc = -1 /\ argv = 0 /\ data = << >>
       \/ /\ argc = Len(Argv) /\ Filled(data, argc)
          /\ \A c \in 1 .. PtrSize : data[argc * PtrSize + c] = 0

(* The numbers of the block.                                               *)
LEMMA BlockTrue ==
  ASSUME ArgumentsOfBytes, ArgvInv
  PROVE  /\ Argv \in Seq(Seq(1 .. 255)) /\ PtrSize \in Nat /\ PtrSize >= 1 /\ Len(Argv) \in Nat
         /\ Pointers = (Len(Argv) + 1) * PtrSize /\ Pointers \in Nat /\ Pointers >= 1
         /\ Len(Shell) \in Nat /\ Shell \in Seq(0 .. 255)
<1>1. Argv \in Seq(Seq(1 .. 255)) /\ PtrSize \in Nat \ {0}
  <2>1. Argv \in Argvs
    BY DEF ArgvInv
  <2>2. PtrSize \in Nat \ {0}
    <3>1. Arguments!EfiArgvAssumption
      BY EfiAssumption
    <3>2. Arguments!EfiArgvAssumption => PtrSize \in Nat \ {0}
      BY SMTT(30) DEF Arguments!EfiArgvAssumption
    <3> QED
      BY <3>1, <3>2
  <2>3. Argv \in Seq(Seq(1 .. 255))
    BY <2>1, Zenon DEF ArgumentsOfBytes
  <2> QED
    BY <2>2, <2>3
<1>2. Len(Argv) \in Nat /\ 0 \in 0 .. Len(Argv)
  BY <1>1, StringsTrue
<1>3. Pointers = (Len(Argv) + 1) * PtrSize
  BY DEF Pointers, Arguments!PtrsSize
<1>4. Len(Shell) \in Nat /\ Shell \in Seq(0 .. 255)
  BY <1>1, <1>2, FirstTrue
<1>5. 0 * PtrSize + 1 \in 1 .. (Len(Argv) + 1) * PtrSize /\ (Len(Argv) + 1) * PtrSize \in Nat
  <2> DEFINE n == Len(Argv)
  <2>1. n \in Nat /\ 0 \in 0 .. n /\ PtrSize \in Nat /\ PtrSize >= 1 /\ 1 \in 1 .. PtrSize
    BY <1>1, <1>2
  <2> HIDE DEF n
  <2>2. 0 * PtrSize + 1 \in 1 .. (n + 1) * PtrSize /\ (n + 1) * PtrSize \in Nat
    BY <2>1, SlotsApart
  <2> QED
    BY <2>2 DEF n
<1>6. PtrSize \in Nat /\ PtrSize >= 1 /\ 0 * PtrSize + 1 = 1
  BY <1>1
<1> QED
  BY <1>1, <1>2, <1>3, <1>4, <1>5, <1>6

(* A string and the pointer to it are added to the block.                  *)
LEMMA OneMoreString ==
  ASSUME ArgumentsOfBytes, ArgvInv, NEW m \in Nat, m < Len(Argv), Filled(data, m),
         NEW b, b = Pointers + 1 + Len(First(m))
  PROVE  /\ Filled(Arguments!Stored(Arguments!Stored(data, m * PtrSize + 1, Arguments!Pointer(b)),
                                    b, Strings[m + 1]), m + 1)
         /\ b + Len(Strings[m + 1]) = Pointers + 1 + Len(First(m + 1))
<1> DEFINE N == Len(Argv)
           P == Pointers
           S == Len(Shell)
           f == Len(First(m))
           g == Len(First(m + 1))
           s == Strings[m + 1]
           l == Len(s)
           a == m * PtrSize + 1
           x1 == Arguments!Stored(data, a, Arguments!Pointer(b))
           x2 == Arguments!Stored(x1, b, s)
<1>1. /\ Argv \in Seq(Seq(1 .. 255)) /\ PtrSize \in Nat /\ PtrSize >= 1 /\ N \in Nat
      /\ P = (N + 1) * PtrSize /\ P \in Nat /\ P >= 1 /\ S \in Nat
  BY BlockTrue
<1>2. m \in 0 .. N /\ m + 1 \in 0 .. N /\ m + 1 \in 1 .. N
  BY <1>1
<1>3. /\ First(m) \in Seq(0 .. 255) /\ f \in Nat /\ f <= S
      /\ \A c \in 1 .. f : Shell[c] = First(m)[c]
      /\ First(m + 1) = First(m) \o s /\ g = f + l
  BY <1>1, <1>2, FirstTrue, SMTT(60)
<1>4. g \in Nat /\ g <= S /\ \A c \in 1 .. g : Shell[c] = First(m + 1)[c]
  BY <1>1, <1>2, FirstTrue
<1>5. s \in Seq(0 .. 255) /\ l \in Nat /\ l >= 1
  BY <1>1, <1>2, StringsTrue
<1>6. \A c \in 1 .. l : First(m + 1)[f + c] = s[c]
  <2> SUFFICES ASSUME NEW c \in 1 .. l PROVE (First(m) \o s)[f + c] = s[c]
    BY <1>3
  <2>1. f + c \in 1 .. Len(First(m)) + Len(s) /\ ~(f + c <= Len(First(m))) /\ (f + c) - f = c
    BY <1>3, <1>5
  <2> QED
    BY <1>3, <1>5, <2>1, ConcatProperties
<1>7. /\ data \in [1 .. (P + S) -> Int] /\ \A c \in 1 .. f : data[P + c] = Shell[c]
      /\ \A j \in 0 .. (m - 1) : \A c \in 1 .. PtrSize :
           data[j * PtrSize + c] = P + 1 + Len(First(j))
  BY DEF Filled
<1>8. a \in Nat /\ a >= 1 /\ a + PtrSize - 1 <= P
  <2>1. /\ N \in Nat /\ m \in 0 .. N /\ PtrSize \in Nat /\ PtrSize >= 1 /\ 1 \in 1 .. PtrSize
    BY <1>1, <1>2
  <2> HIDE DEF N
  <2>2. m * PtrSize \in Nat /\ m * PtrSize + PtrSize <= (N + 1) * PtrSize
    BY <2>1, SlotsApart
  <2> DEFINE d == m * PtrSize
  <2>3. d \in Nat /\ d + PtrSize <= P /\ a = d + 1
    BY <1>1, <2>2
  <2> HIDE DEF a, d, P
  <2> QED
    BY <1>1, <2>3
<1>9. b = P + 1 + f /\ b \in Nat
  BY <1>1, <1>3
<1>10. /\ Arguments!Pointer(b) \in Seq(Int) /\ Len(Arguments!Pointer(b)) = PtrSize
       /\ \A c \in 1 .. PtrSize : Arguments!Pointer(b)[c] = b
  <2>1. Arguments!Pointer(b) = [c \in 1 .. PtrSize |-> b]
    BY DEF Arguments!Pointer
  <2>2. Arguments!Pointer(b) \in [1 .. PtrSize -> Int]
    BY <1>9, <2>1
  <2>3. Arguments!Pointer(b) \in Seq(Int)
    BY <1>1, <2>2, SeqDef
  <2> QED
    BY <1>1, <2>1, <2>2, <2>3, LenProperties
<1> HIDE DEF N, P, S, f, g, s, l, a, x1, x2
<1>n. /\ P \in Nat /\ P >= 1 /\ S \in Nat /\ f \in Nat /\ f <= S /\ g \in Nat /\ g <= S
      /\ g = f + l /\ l \in Nat /\ l >= 1 /\ b = P + 1 + f /\ b \in Nat
      /\ a \in Nat /\ a >= 1 /\ a + PtrSize - 1 <= P /\ PtrSize \in Nat /\ PtrSize >= 1
  BY <1>1, <1>3, <1>4, <1>5, <1>8, <1>9
<1>11. /\ x1 \in [1 .. (P + S) -> Int]
       /\ \A k \in 1 .. (P + S) : x1[k] = IF k \in a .. (a + PtrSize - 1) THEN b ELSE data[k]
  <2>1. /\ P + S \in Nat /\ a \in 1 .. (P + S) /\ a + Len(Arguments!Pointer(b)) - 1 <= P + S
        /\ Len(Arguments!Pointer(b)) >= 1 /\ data \in [1 .. (P + S) -> Int]
        /\ Arguments!Pointer(b) \in Seq(Int)
    BY <1>n, <1>7, <1>10
  <2>2. /\ x1 \in [1 .. (P + S) -> Int]
        /\ \A k \in 1 .. (P + S) : x1[k] = IF k \in a .. (a + Len(Arguments!Pointer(b)) - 1)
                                           THEN Arguments!Pointer(b)[k - a + 1] ELSE data[k]
    <3> DEFINE n == P + S
               ptr == Arguments!Pointer(b)
               h == Len(ptr)
    <3>1. /\ n \in Nat /\ a \in 1 .. n /\ data \in [1 .. n -> Int] /\ ptr \in Seq(Int)
          /\ h = Len(ptr) /\ Len(ptr) >= 1 /\ a + Len(ptr) - 1 <= n
      BY <2>1
    <3> HIDE DEF n, ptr, h
    <3>5. data \in Blocks(n)
      BY <3>1 DEF Blocks
    <3>2. /\ Arguments!Stored(data, a, ptr) \in Blocks(n)
          /\ StoredIn(data, n, a, ptr, Arguments!Stored(data, a, ptr))
      BY <3>1, <3>5, StoreInBlock
    <3>3. x1 = Arguments!Stored(data, a, ptr)
      BY DEF x1, ptr
    <3>4. /\ x1 \in [1 .. n -> Int]
          /\ \A k \in 1 .. n : x1[k] = IF k \in a .. (a + Len(ptr) - 1)
                                        THEN ptr[k - a + 1] ELSE data[k]
      BY <3>2, <3>3 DEF Blocks, StoredIn
    <3> QED
      BY <3>4 DEF n, ptr
  <2>3. \A k \in a .. (a + PtrSize - 1) : k - a + 1 \in 1 .. PtrSize
    BY <1>1, <1>8
  <2> QED
    BY <1>10, <2>2, <2>3
<1>12. /\ x2 \in [1 .. (P + S) -> Int]
       /\ \A k \in 1 .. (P + S) : x2[k] = IF k \in b .. (b + l - 1) THEN s[k - b + 1] ELSE x1[k]
  <2>1. s \in Seq(Int)
    <3>1. 0 .. 255 \subseteq Int /\ s \in Seq(0 .. 255)
      BY <1>5
    <3> QED
      BY <3>1, SeqMonotonic
  <2>2. P + S \in Nat /\ b \in 1 .. (P + S) /\ b + l - 1 <= P + S /\ l >= 1
    BY <1>n
  <2>3. /\ P + S \in Nat /\ b \in 1 .. (P + S) /\ b + Len(s) - 1 <= P + S /\ Len(s) >= 1
        /\ x1 \in [1 .. (P + S) -> Int]
    BY <1>11, <2>2 DEF l
  <2>4. /\ x2 \in [1 .. (P + S) -> Int]
        /\ \A k \in 1 .. (P + S) : x2[k] = IF k \in b .. (b + Len(s) - 1)
                                            THEN s[k - b + 1] ELSE x1[k]
    <3> DEFINE n == P + S
    <3>1. /\ n \in Nat /\ b \in 1 .. n /\ x1 \in [1 .. n -> Int] /\ s \in Seq(Int)
          /\ Len(s) >= 1 /\ b + Len(s) - 1 <= n
      BY <2>1, <2>3
    <3> HIDE DEF n
    <3>5. x1 \in Blocks(n)
      BY <3>1 DEF Blocks
    <3>2. /\ Arguments!Stored(x1, b, s) \in Blocks(n)
          /\ StoredIn(x1, n, b, s, Arguments!Stored(x1, b, s))
      BY <3>1, <3>5, StoreInBlock
    <3>3. x2 = Arguments!Stored(x1, b, s)
      BY DEF x2
    <3>4. /\ x2 \in [1 .. n -> Int]
          /\ \A k \in 1 .. n : x2[k] = IF k \in b .. (b + Len(s) - 1)
                                        THEN s[k - b + 1] ELSE x1[k]
      BY <3>2, <3>3 DEF Blocks, StoredIn
    <3> QED
      BY <3>4 DEF n
  <2> QED
    BY <2>4 DEF l
<1>13. ASSUME NEW c \in 1 .. g  PROVE x2[P + c] = Shell[c]
  <2>1. P + c \in 1 .. (P + S)
    BY <1>1, <1>4
  <2>2. CASE c <= f
    <3>1. ~(P + c \in b .. (b + l - 1)) /\ ~(P + c \in a .. (a + PtrSize - 1))
      BY <1>1, <1>3, <1>5, <1>8, <1>9, <2>2, SMTT(60)
    <3> QED
      BY <1>7, <1>11, <1>12, <2>1, <2>2, <3>1
  <2>3. CASE ~(c <= f)
    <3>1. /\ P + c \in b .. (b + l - 1) /\ (P + c) - b + 1 = c - f /\ c - f \in 1 .. l
          /\ f + (c - f) = c
      BY <1>n, <2>3
    <3>2. x2[P + c] = s[c - f]
      BY <1>12, <2>1, <3>1
    <3>3. First(m + 1)[c] = s[c - f]
      BY <1>6, <3>1
    <3> QED
      BY <1>4, <3>2, <3>3
  <2> QED
    BY <2>2, <2>3
<1>14. ASSUME NEW j \in 0 .. m, NEW c \in 1 .. PtrSize
       PROVE  x2[j * PtrSize + c] = P + 1 + Len(First(j))
  <2> DEFINE q == j * PtrSize + c
  <2>1. q \in 1 .. P /\ (q \in a .. (a + PtrSize - 1) => j = m)
    <3>1. j \in 0 .. N /\ m \in 0 .. N /\ N \in Nat
      BY <1>1, <1>2
    <3>2. /\ j * PtrSize + c \in 1 .. (N + 1) * PtrSize /\ m * PtrSize \in Nat
          /\ j * PtrSize + c \in (m * PtrSize + 1) .. (m * PtrSize + PtrSize) => j = m
      BY <1>1, <3>1, SlotsApart
    <3>3. a + PtrSize - 1 = m * PtrSize + PtrSize
      BY <1>1, <3>2 DEF a
    <3> QED
      BY <1>1, <3>2, <3>3 DEF a
  <2>2. q \in 1 .. (P + S) /\ ~(q \in b .. (b + l - 1))
    BY <1>1, <1>3, <1>9, <2>1
  <2>3. x2[q] = IF q \in a .. (a + PtrSize - 1) THEN b ELSE data[q]
    BY <1>11, <1>12, <2>2
  <2>4. CASE j = m
    <3>1. q \in a .. (a + PtrSize - 1)
      <4>1. m * PtrSize \in Nat
        BY <1>1, Products
      <4> QED
        BY <1>1, <2>4, <4>1 DEF a
    <3> QED
      BY <1>9, <2>3, <2>4, <3>1 DEF f
  <2>5. CASE j # m
    <3>1. j \in 0 .. (m - 1)
      BY <2>5
    <3> QED
      BY <1>7, <2>1, <2>3, <2>5, <3>1
  <2> QED
    BY <2>4, <2>5
<1>15. Filled(x2, m + 1)
  <2>1. \A j \in 0 .. ((m + 1) - 1) : j \in 0 .. m
    OBVIOUS
  <2> QED
    BY <1>12, <1>13, <1>14, <2>1 DEF Filled, P, S, g
<1>16. b + l = P + 1 + g
  BY <1>n
<1> QED
  BY <1>15, <1>16 DEF x1, x2, a, s, l, P, g

(* The block is the same under another name.                               *)
LEMMA FilledKept ==
  ASSUME Argv' = Argv, NEW x, NEW m
  PROVE  Filled(x, m)' <=> Filled(x', m')
  BY DEF Filled, Pointers, Arguments!PtrsSize, Shell, First, Strings

(* A string that was copied.                                               *)
LEMMA CopyStringTrue ==
  ASSUME ArgumentsOfBytes, ArgvInv, Arguments!CopyString
  PROVE  ArgvInv'
<1> DEFINE bytes == [j \in DOMAIN Argv[i + 1] |-> Argv[i + 1][j] % 256]
<1>1. /\ step = "copy" /\ i < Len(Argv)
      /\ data' = Arguments!Stored(Arguments!Stored(data, i * PtrSize + 1, Arguments!Pointer(buff)),
                                  buff, Append(bytes, 0))
      /\ buff' = buff + Len(bytes) + 1 /\ i' = i + 1 /\ Argv' = Argv /\ step' = step
  BY DEF Arguments!CopyString
<1>2. Argv \in Seq(Seq(1 .. 255)) /\ Len(Argv) \in Nat /\ Pointers \in Nat
  BY BlockTrue
<1>3. i \in 0 .. Len(Argv) /\ buff = Pointers + 1 + Len(First(i)) /\ Filled(data, i)
  BY <1>1 DEF ArgvInv
<1>4. i \in Nat /\ i + 1 \in 1 .. Len(Argv) /\ i + 1 \in 0 .. Len(Argv)
  BY <1>1, <1>2, <1>3
<1>5. Argv[i + 1] \in Seq(1 .. 255) /\ Strings[i + 1] = Append(Argv[i + 1], 0)
  BY <1>2, <1>4, StringsTrue
<1>6. bytes = Argv[i + 1]
  <2> DEFINE s == Argv[i + 1]
  <2>1. s \in Seq(1 .. 255)
    BY <1>5
  <2> HIDE DEF s
  <2>2. \A j \in DOMAIN s : s[j] \in 1 .. 255
    BY <2>1, LenProperties, ElementOfSeq, ZenonT(60)
  <2>3. \A y \in 1 .. 255 : y % 256 = y
    OBVIOUS
  <2>4. [j \in DOMAIN s |-> s[j] % 256] = s
    <3>1. s = [j \in DOMAIN s |-> s[j]]
      BY <2>1, LenProperties
    <3> QED
      BY <2>2, <2>3, <3>1
  <2> QED
    BY <2>4 DEF s
<1>7. Append(bytes, 0) = Strings[i + 1] /\ Len(Strings[i + 1]) = Len(bytes) + 1
      /\ Len(bytes) \in Nat
  BY <1>5, <1>6, AppendProperties, LenProperties
<1> HIDE DEF bytes
<1>8. /\ Filled(data', i + 1)
      /\ buff + Len(Strings[i + 1]) = Pointers + 1 + Len(First(i + 1))
  BY <1>1, <1>3, <1>4, <1>7, OneMoreString
<1>9. Filled(data, i)'
  BY <1>1, <1>8, FilledKept
<1>10. buff' = Pointers + 1 + Len(First(i + 1))
  <2>1. buff \in Nat
    <3>1. Len(First(i)) \in Nat
      BY <1>2, <1>3, FirstTrue
    <3> QED
      BY <1>2, <1>3, <3>1
  <2> QED
    BY <1>1, <1>7, <1>8, <2>1
<1>11. (buff = Pointers + 1 + Len(First(i)))'
  BY <1>1, <1>10 DEF Pointers, Arguments!PtrsSize, First, Strings
<1>12. Argv' \in Argvs /\ step' = "copy" /\ i' \in 0 .. Len(Argv')
  BY <1>1, <1>4 DEF ArgvInv
<1> QED
  BY <1>9, <1>11, <1>12 DEF ArgvInv

(* The block that malloc gives, if the shell has arguments and it does.    *)
LEMMA AllocateTrue ==
  ASSUME ArgumentsOfBytes, ArgvInv, Arguments!Allocate
  PROVE  ArgvInv'
<1>1. step = "ask" /\ Argv' = Argv /\ Argv \in Argvs /\ data = << >> /\ argv = 0
  BY DEF Arguments!Allocate, ArgvInv
<1>2. CASE Arguments!Fail
  BY <1>1, <1>2 DEF Arguments!Fail, ArgvInv
<1>3. CASE ~Arguments!Fail
  <2> DEFINE sz == Len(Arguments!FlattenSeq([j \in DOMAIN Argv |-> Append(Argv[j], 0)]))
  <2>1. /\ data' = [c \in 1 .. (Arguments!PtrsSize + sz) |-> Arguments!Garbage]
        /\ buff' = Arguments!PtrsSize + 1 /\ i' = 0 /\ step' = "copy"
    BY <1>3 DEF Arguments!Allocate
  <2>2. sz = Len(Shell)
    BY DEF Shell, Strings, FlattenSeq, Arguments!FlattenSeq
  <2> HIDE DEF sz
  <2>3. /\ Argv \in Seq(Seq(1 .. 255)) /\ Len(Argv) \in Nat /\ Pointers \in Nat
        /\ Len(Shell) \in Nat
    BY BlockTrue
  <2>4. First(0) = << >> /\ Len(First(0)) = 0
    BY <2>3, FirstTrue
  <2>5. data' \in [1 .. (Pointers + Len(Shell)) -> Int]
    BY <2>1, <2>2 DEF Pointers, Arguments!Garbage
  <2>6. Filled(data', 0)
    <3>1. 1 .. Len(First(0)) = {} /\ 0 .. (0 - 1) = {}
      BY <2>4
    <3> QED
      BY <2>5, <3>1 DEF Filled
  <2>7. Filled(data, i)'
    BY <1>1, <2>1, <2>6, FilledKept
  <2>8. buff' = Pointers + 1 + Len(First(0))
    BY <2>1, <2>3, <2>4 DEF Pointers
  <2>9. (buff = Pointers + 1 + Len(First(i)))'
    BY <1>1, <2>1, <2>8 DEF Pointers, Arguments!PtrsSize, First, Strings
  <2>10. i' \in 0 .. Len(Argv')
    BY <1>1, <2>1, <2>3
  <2> QED
    BY <1>1, <2>1, <2>7, <2>9, <2>10 DEF ArgvInv
<1> QED
  BY <1>2, <1>3

(* The NULL behind the last pointer.                                       *)
LEMMA FinishTrue ==
  ASSUME ArgumentsOfBytes, ArgvInv, Arguments!Finish
  PROVE  ArgvInv'
<1> DEFINE N == Len(Argv)
           n == Pointers + Len(Shell)
           a == N * PtrSize + 1
           ptr == Arguments!Pointer(0)
<1>1. /\ step = "copy" /\ i = N /\ data' = Arguments!Stored(data, a, ptr)
      /\ argc' = N /\ step' = "returned" /\ Argv' = Argv /\ Argv \in Argvs
  BY DEF Arguments!Finish, Arguments!NULL, ArgvInv
<1>2. /\ N \in Nat /\ PtrSize \in Nat /\ PtrSize >= 1 /\ Pointers = (N + 1) * PtrSize
      /\ Pointers \in Nat /\ Len(Shell) \in Nat /\ Argv \in Seq(Seq(1 .. 255))
  BY BlockTrue
<1>3. Filled(data, N)
  BY <1>1 DEF ArgvInv
<1>4. /\ data \in [1 .. n -> Int] /\ \A c \in 1 .. Len(First(N)) : data[Pointers + c] = Shell[c]
      /\ \A j \in 0 .. (N - 1) : \A c \in 1 .. PtrSize :
           data[j * PtrSize + c] = Pointers + 1 + Len(First(j))
  BY <1>3 DEF Filled
<1>5. N * PtrSize \in Nat /\ N * PtrSize + PtrSize = Pointers
  BY <1>2, Products
<1>6. /\ ptr \in Seq(Int) /\ Len(ptr) = PtrSize /\ \A c \in 1 .. PtrSize : ptr[c] = 0
  <2>1. ptr = [c \in 1 .. PtrSize |-> 0]
    BY DEF Arguments!Pointer
  <2> HIDE DEF ptr
  <2>2. ptr \in [1 .. PtrSize -> Int]
    BY <2>1
  <2>3. ptr \in Seq(Int)
    BY <1>2, <2>2, SeqDef
  <2> QED
    BY <1>2, <2>1, <2>2, <2>3, LenProperties
<1>7. N \in 0 .. N /\ First(N) = Shell
  BY <1>2, FirstTrue
<1> HIDE DEF N, n, a, ptr
<1>8. /\ n \in Nat /\ a \in 1 .. n /\ a + PtrSize - 1 = Pointers /\ a + PtrSize - 1 <= n
      /\ a = N * PtrSize + 1 /\ N * PtrSize \in Nat
  <2> DEFINE y == N * PtrSize
             p == Pointers
             r == Len(Shell)
  <2>1. /\ y \in Nat /\ y + PtrSize = p /\ PtrSize \in Nat /\ PtrSize >= 1 /\ p \in Nat
        /\ r \in Nat /\ a = y + 1 /\ n = p + r
    BY <1>2, <1>5 DEF n, a
  <2> HIDE DEF y, p, r
  <2>2. /\ n \in Nat /\ a \in 1 .. n /\ a + PtrSize - 1 = p /\ a + PtrSize - 1 <= n
        /\ a = y + 1 /\ y \in Nat
    BY <2>1
  <2> QED
    BY <2>2 DEF y, p
<1>9. /\ data' \in [1 .. n -> Int]
      /\ \A k \in 1 .. n : data'[k] = IF k \in a .. (a + PtrSize - 1) THEN 0 ELSE data[k]
  <2>1. /\ n \in Nat /\ a \in 1 .. n /\ data \in [1 .. n -> Int] /\ ptr \in Seq(Int)
        /\ Len(ptr) >= 1 /\ a + Len(ptr) - 1 <= n
    BY <1>2, <1>4, <1>6, <1>8
  <2>6. data \in Blocks(n)
    BY <2>1 DEF Blocks
  <2>2. /\ Arguments!Stored(data, a, ptr) \in Blocks(n)
        /\ StoredIn(data, n, a, ptr, Arguments!Stored(data, a, ptr))
    BY <2>1, <2>6, StoreInBlock
  <2>3. \A k \in a .. (a + PtrSize - 1) : k - a + 1 \in 1 .. PtrSize
    BY <1>2, <1>8
  <2>4. \A k \in a .. (a + PtrSize - 1) : ptr[k - a + 1] = 0
    BY <1>6, <2>3
  <2>5. /\ data' \in [1 .. n -> Int]
        /\ \A k \in 1 .. n : data'[k] = IF k \in a .. (a + Len(ptr) - 1)
                                          THEN ptr[k - a + 1] ELSE data[k]
    BY <1>1, <2>2 DEF Blocks, StoredIn
  <2> QED
    BY <1>6, <2>4, <2>5
<1>10. Filled(data', N)
  <2>1. ASSUME NEW c \in 1 .. Len(First(N))  PROVE data'[Pointers + c] = Shell[c]
    <3>1. Len(First(N)) = Len(Shell)
      BY <1>7
    <3>2. Pointers + c \in 1 .. n /\ ~(Pointers + c \in a .. (a + PtrSize - 1))
      BY <1>2, <1>8, <3>1 DEF n
    <3>3. data'[Pointers + c] = data[Pointers + c]
      BY <1>9, <3>2
    <3> QED
      BY <1>4, <3>3
  <2>2. ASSUME NEW j \in 0 .. (N - 1), NEW c \in 1 .. PtrSize
        PROVE  data'[j * PtrSize + c] = Pointers + 1 + Len(First(j))
    <3>1. j \in 0 .. N /\ j # N /\ N \in 0 .. N
      BY <1>2
    <3>2. /\ j * PtrSize + c \in 1 .. (N + 1) * PtrSize
          /\ j * PtrSize + c \in (N * PtrSize + 1) .. (N * PtrSize + PtrSize) => j = N
      BY <1>2, <3>1, SlotsApart
    <3> DEFINE q == j * PtrSize + c
    <3>3. q \in 1 .. Pointers /\ ~(q \in (N * PtrSize + 1) .. (N * PtrSize + PtrSize))
      BY <1>2, <3>1, <3>2
    <3>4. q \in 1 .. n /\ ~(q \in a .. (a + PtrSize - 1))
      <4> HIDE DEF q
      <4>1. a = N * PtrSize + 1 /\ a + PtrSize - 1 = N * PtrSize + PtrSize
        <5> DEFINE y == N * PtrSize
        <5>1. y \in Nat /\ y + PtrSize = Pointers /\ a = y + 1
          BY <1>5, <1>8
        <5> HIDE DEF y
        <5>2. a = y + 1 /\ a + PtrSize - 1 = y + PtrSize
          BY <1>2, <5>1
        <5> QED
          BY <5>2 DEF y
      <4>2. q \in 1 .. n
        BY <1>2, <3>3 DEF n
      <4> QED
        BY <3>3, <4>1, <4>2
    <3>5. data'[q] = data[q]
      BY <1>9, <3>4
    <3> QED
      BY <1>4, <3>5
  <2>3. data' \in [1 .. (Pointers + Len(Shell)) -> Int]
    BY <1>9 DEF n
  <2> QED
    BY <2>1, <2>2, <2>3 DEF Filled
<1>11. ASSUME NEW c \in 1 .. PtrSize  PROVE data'[N * PtrSize + c] = 0
  <2> DEFINE q == N * PtrSize + c
             y == N * PtrSize
  <2>1. y \in Nat /\ q = y + c /\ a = y + 1 /\ a + PtrSize - 1 <= n
    BY <1>8
  <2> HIDE DEF q, y
  <2>2. q \in 1 .. n /\ q \in a .. (a + PtrSize - 1)
    BY <1>2, <1>8, <2>1
  <2>3. data'[q] = 0
    BY <1>9, <2>2
  <2> QED
    BY <2>3 DEF q
<1>12. /\ (Filled(data, argc))'
       /\ (argc = Len(Argv))' /\ (\A c \in 1 .. PtrSize : data[argc * PtrSize + c] = 0)'
  <2>1. Filled(data, argc)' <=> Filled(data', argc')
    BY <1>1 DEF Filled, Pointers, Arguments!PtrsSize, Shell, First, Strings
  <2> QED
    BY <1>1, <1>10, <1>11, <2>1 DEF N
<1> QED
  BY <1>1, <1>12 DEF ArgvInv

(* What is known of the arguments holds in every state.                    *)
LEMMA ArgvInvariant == ArgumentsOfBytes => (Spec => [](part = "argv" => ArgvInv))
<1>1. ArgumentsOfBytes /\ Init => (part = "argv" => ArgvInv)
  BY DEF Init, Arguments!Init, ArgvInv, Arguments!NULL
<1>2. ArgumentsOfBytes /\ (part = "argv" => ArgvInv) /\ [Next]_vars
      => (part = "argv" => ArgvInv)'
  <2> SUFFICES ASSUME ArgumentsOfBytes, part = "argv" => ArgvInv, [Next]_vars, part' = "argv"
               PROVE  ArgvInv'
    OBVIOUS
  <2>1. part = "argv"
    BY DEF Next, vars, ConsoleStep, StartStep, ArgvStep
  <2>2. CASE ArgvStep
    BY <2>1, <2>2, AllocateTrue, CopyStringTrue, FinishTrue DEF ArgvStep, Arguments!Next
  <2>3. CASE UNCHANGED argvVars
    <3>1. /\ Argv' = Argv /\ data' = data /\ i' = i /\ buff' = buff /\ argc' = argc
          /\ argv' = argv /\ step' = step
      BY <2>3 DEF argvVars
    <3>2. \A m : Filled(data, m)' <=> Filled(data, m)
      BY <3>1 DEF Filled, Pointers, Arguments!PtrsSize, Shell, First, Strings
    <3>3. Filled(data, i)' <=> Filled(data, i)
      BY <3>1 DEF Filled, Pointers, Arguments!PtrsSize, Shell, First, Strings
    <3>4. Filled(data, argc)' <=> Filled(data, argc)
      BY <3>1 DEF Filled, Pointers, Arguments!PtrsSize, Shell, First, Strings
    <3>5. (buff = Pointers + 1 + Len(First(i)))' <=> buff = Pointers + 1 + Len(First(i))
      BY <3>1 DEF Pointers, Arguments!PtrsSize, First, Strings
    <3> QED
      BY <2>1, <3>1, <3>3, <3>4, <3>5 DEF ArgvInv
  <2> QED
    BY <2>2, <2>3 DEF Next, vars, ConsoleStep, StartStep
<1>3. CASE ArgumentsOfBytes
  BY <1>1, <1>2, <1>3, PTL DEF Spec
<1> QED
  BY <1>3

(* Two sequences that begin alike.                                         *)
Alike(x, y, l, S) == \A k \in 1 .. l : y[k] = x[k] /\ x[k] \in S

(* Their first cells are the same sequence.                                *)
LEMMA SamePrefix ==
  ASSUME NEW S, NEW x, NEW y, NEW l \in Nat, Alike(x, y, l, S)
  PROVE  SubSeq(x, 1, l) = SubSeq(y, 1, l)
<1> DEFINE u == SubSeq(x, 1, l)
           v == SubSeq(y, 1, l)
<1>1. \A k \in 1 .. l : y[k] = x[k] /\ x[k] \in S /\ y[k] \in S
  BY DEF Alike
<1>2. /\ u \in Seq(S) /\ Len(u) = IF 1 <= l THEN l - 1 + 1 ELSE 0
      /\ \A k \in 1 .. l - 1 + 1 : u[k] = x[1 + k - 1]
  BY <1>1, SubSeqProperties
<1>3. /\ v \in Seq(S) /\ Len(v) = IF 1 <= l THEN l - 1 + 1 ELSE 0
      /\ \A k \in 1 .. l - 1 + 1 : v[k] = y[1 + k - 1]
  BY <1>1, SubSeqProperties
<1> HIDE DEF u, v
<1>4. Len(u) = l /\ Len(v) = l
  BY <1>2, <1>3
<1>5. ASSUME NEW k \in 1 .. l  PROVE u[k] = v[k]
  <2>1. k \in 1 .. l - 1 + 1 /\ 1 + k - 1 = k
    OBVIOUS
  <2> QED
    BY <1>1, <1>2, <1>3, <2>1
<1>6. u = v
  BY <1>2, <1>3, <1>4, <1>5, SeqEqual
<1> QED
  BY <1>6 DEF u, v

(* The block that is handed out is what C says.                            *)
LEMMA BlockExact ==
  ASSUME ArgumentsOfBytes, ArgvInv, step = "returned", argc # -1
  PROVE  Arguments!ArgvExact
<1> DEFINE N == Len(Argv)
           S == Len(Shell)
           P == Pointers
           n == P + S
<1>1. /\ argc = N /\ Filled(data, N) /\ \A c \in 1 .. PtrSize : data[N * PtrSize + c] = 0
  BY DEF ArgvInv
<1>2. /\ N \in Nat /\ PtrSize \in Nat /\ PtrSize >= 1 /\ P = (N + 1) * PtrSize
      /\ P \in Nat /\ S \in Nat /\ Argv \in Seq(Seq(1 .. 255)) /\ Shell \in Seq(0 .. 255)
  BY BlockTrue
<1>3. First(N) = Shell
  <2>1. N \in 0 .. N
    BY <1>2
  <2> QED
    BY <1>2, <2>1, FirstTrue
<1>4. /\ data \in [1 .. n -> Int] /\ \A c \in 1 .. S : data[P + c] = Shell[c]
      /\ \A j \in 0 .. (N - 1) : \A c \in 1 .. PtrSize :
           data[j * PtrSize + c] = P + 1 + Len(First(j))
  BY <1>1, <1>3 DEF Filled
<1>5. Shell = Arguments!FlattenSeq([j \in DOMAIN Argv |-> Append(Argv[j], 0)])
  BY DEF Shell, Strings, FlattenSeq, Arguments!FlattenSeq
<1>6. (N + 1) * PtrSize = P /\ n \in Nat /\ n = P + S
  BY <1>2
<1> HIDE DEF N, S, P, n
<1>7. data \in Seq(Int) /\ Len(data) = n /\ DOMAIN data = 1 .. n
  <2>1. data \in Seq(Int)
    BY <1>4, <1>6, SeqDef
  <2> QED
    BY <1>4, <1>6, <2>1, LenProperties
<1>8. SubSeq(data, P + 1, n) = Shell
  <2> DEFINE t == SubSeq(data, P + 1, n)
  <2>1. P + 1 \in Int /\ n \in Int /\ \A k \in (P + 1) .. n : data[k] \in Int
    <3>1. P \in Nat /\ S \in Nat /\ n = P + S /\ n \in Nat
      BY <1>2, <1>6
    <3>2. P + 1 \in Int /\ n \in Int /\ \A k \in (P + 1) .. n : k \in 1 .. n
      BY <3>1
    <3> QED
      BY <1>4, <3>2
  <2>2. /\ t \in Seq(Int) /\ Len(t) = IF P + 1 <= n THEN n - (P + 1) + 1 ELSE 0
        /\ \A k \in 1 .. n - (P + 1) + 1 : t[k] = data[P + 1 + k - 1]
    BY <2>1, SubSeqProperties
  <2> HIDE DEF t
  <2>3. Len(t) = S /\ n - (P + 1) + 1 = S
    BY <1>2, <1>6, <2>2
  <2>4. \A k \in 1 .. S : t[k] = Shell[k]
    <3> SUFFICES ASSUME NEW k \in 1 .. S PROVE t[k] = Shell[k]
      OBVIOUS
    <3>1. P + 1 + k - 1 = P + k
      BY <1>2
    <3> QED
      BY <1>4, <2>2, <2>3, <3>1
  <2>5. Shell \in Seq(Int) /\ Len(Shell) = S
    <3>1. 0 .. 255 \subseteq Int
      OBVIOUS
    <3> QED
      BY <1>2, <3>1, SeqMonotonic DEF S
  <2>6. t = Shell
    BY <2>2, <2>3, <2>4, <2>5, SeqEqual
  <2> QED
    BY <2>6 DEF t
<1>9. ASSUME NEW j \in 0 .. (N - 1)
      PROVE  /\ data[j * PtrSize + 1] = P + 1 + Len(First(j))
             /\ IsPrefix(Append(Argv[j + 1], 0), SubSeq(data, P + 1 + Len(First(j)), n))
  <2> DEFINE s == Strings[j + 1]
             l == Len(s)
             f == Len(First(j))
             d == P + 1 + f
             t == SubSeq(data, d, n)
  <2>1. j \in 0 .. N /\ j + 1 \in 0 .. N /\ j + 1 \in 1 .. N /\ j < N /\ 1 \in 1 .. PtrSize
    BY <1>2
  <2>2. s = Append(Argv[j + 1], 0) /\ s \in Seq(0 .. 255) /\ l \in Nat
    BY <1>2, <2>1, StringsTrue DEF N
  <2>3. /\ First(j) \in Seq(0 .. 255) /\ f \in Nat /\ f <= S
        /\ First(j + 1) = First(j) \o s /\ Len(First(j + 1)) = f + l
    BY <1>2, <2>1, FirstTrue DEF N, S
  <2>4. /\ f + l <= S /\ \A c \in 1 .. f + l : Shell[c] = First(j + 1)[c]
    <3>1. /\ Len(First(j + 1)) <= S
          /\ \A c \in 1 .. Len(First(j + 1)) : Shell[c] = First(j + 1)[c]
      BY <1>2, <2>1, FirstTrue DEF N, S
    <3> QED
      BY <2>3, <3>1
  <2>5. \A c \in 1 .. l : Shell[f + c] = s[c]
    <3> SUFFICES ASSUME NEW c \in 1 .. l PROVE (First(j) \o s)[f + c] = s[c] /\ f + c \in 1 .. f + l
      BY <2>3, <2>4
    <3>1. f + c \in 1 .. Len(First(j)) + Len(s) /\ ~(f + c <= Len(First(j))) /\ (f + c) - f = c
      BY <2>2, <2>3
    <3> QED
      BY <2>2, <2>3, <3>1, ConcatProperties
  <2> HIDE DEF s, l, f, t, d
  <2>6. d \in Nat /\ d >= 1 /\ d = P + 1 + f /\ n - d + 1 = S - f /\ n - d + 1 >= l
    <3>1. /\ P \in Nat /\ S \in Nat /\ n = P + S /\ f \in Nat /\ l \in Nat /\ f + l <= S
          /\ d = P + 1 + f
      BY <1>2, <1>6, <2>2, <2>3, <2>4 DEF d
    <3> QED
      BY <3>1
  <2>7. /\ Len(t) = IF d <= n THEN n - d + 1 ELSE 0
        /\ \A k \in 1 .. n - d + 1 : t[k] = data[d + k - 1]
    <3>1. \A k \in d .. n : data[k] \in Int
      BY <1>4, <1>6, <2>6
    <3>2. d \in Int /\ n \in Int
      BY <1>6, <2>6
    <3> QED
      BY <3>1, <3>2, SubSeqProperties DEF t
  <2>8. l <= Len(t)
    BY <1>6, <2>2, <2>6, <2>7
  <2>9. ASSUME NEW c \in 1 .. l  PROVE t[c] = s[c]
    <3>1. c \in 1 .. n - d + 1 /\ d + c - 1 = P + (f + c) /\ f + c \in 1 .. S
      BY <1>2, <2>2, <2>3, <2>4, <2>6
    <3>2. t[c] = data[P + (f + c)]
      BY <2>7, <3>1
    <3> QED
      BY <1>4, <2>5, <3>1, <3>2
  <2>10. SubSeq(s, 1, l) = SubSeq(t, 1, l)
    <3>1. \A k \in 1 .. l : s[k] \in 0 .. 255
      BY <2>2, ElementOfSeq DEF l
    <3>2. l \in Nat /\ Alike(s, t, l, 0 .. 255)
      BY <2>2, <2>9, <3>1 DEF Alike
    <3> QED
      BY <3>2, SamePrefix
  <2>11. IsPrefix(s, t)
    BY <2>8, <2>10 DEF IsPrefix, l
  <2>12. data[j * PtrSize + 1] = d
    BY <1>4, <2>1 DEF d, f
  <2> QED
    BY <2>2, <2>11, <2>12 DEF t, d, f
<1>10. ASSUME NEW c \in 1 .. n  PROVE data[c] # -1
  <2>1. CASE c > P
    <3>1. c - P \in 1 .. S /\ P + (c - P) = c
      BY <1>2, <1>6, <2>1
    <3>2. data[c] = Shell[c - P] /\ Shell[c - P] \in 0 .. 255
      BY <1>2, <1>4, <3>1, ElementOfSeq, SMTT(60) DEF S
    <3> QED
      BY <3>2
  <2>2. CASE ~(c > P)
    <3>1. PICK j \in 0 .. N, e \in 1 .. PtrSize : c = j * PtrSize + e
      <4> DEFINE x == c - 1
                 w == PtrSize
                 q == x \div w
                 r == x % w
      <4>1. x \in Nat /\ c = x + 1 /\ x < (N + 1) * w /\ w \in Nat /\ w >= 1 /\ N \in Nat
        BY <1>2, <1>6, <2>2
      <4> HIDE DEF x, w
      <4>2. q \in Int /\ r \in 0 .. (w - 1) /\ x = w * q + r
        BY <4>1
      <4> HIDE DEF q, r
      <4>3. q >= 0
        <5> SUFFICES ASSUME q + 1 <= 0 PROVE FALSE
          BY <4>2
        <5>1. w * (q + 1) <= 0
          BY <4>1, <4>2
        <5>2. w * (q + 1) = w * q + w
          BY <4>1, <4>2
        <5> QED
          BY <4>1, <4>2, <5>1, <5>2
      <4>4. q <= N
        <5> SUFFICES ASSUME N + 1 <= q PROVE FALSE
          BY <4>1, <4>2
        <5>1. (N + 1) * w <= q * w
          <6>1. N + 1 \in Nat /\ q \in Nat /\ w \in Nat
            BY <4>1, <4>2, <4>3
          <6> QED
            BY <6>1, Products
        <5>2. q * w = w * q
          BY <4>1, <4>2
        <5> QED
          BY <4>1, <4>2, <5>1, <5>2
      <4>5. q \in 0 .. N /\ r + 1 \in 1 .. w /\ c = q * w + (r + 1)
        <5>1. q * w = w * q
          BY <4>1, <4>2
        <5>2. c = w * q + (r + 1)
          BY <4>1, <4>2
        <5> QED
          BY <4>1, <4>2, <4>3, <4>4, <5>1, <5>2
      <4> QED
        BY <4>5 DEF w
    <3>2. CASE j = N
      BY <1>1, <3>1, <3>2 DEF N
    <3>3. CASE j # N
      <4>1. j \in 0 .. (N - 1)
        BY <1>2, <3>3
      <4>2. data[c] = P + 1 + Len(First(j))
        BY <1>4, <3>1, <4>1
      <4> DEFINE f == Len(First(j))
      <4>3. f \in Nat /\ P \in Nat /\ data[c] = P + 1 + f
        BY <1>2, <4>2, FirstTrue DEF N
      <4> HIDE DEF f
      <4> QED
        BY <4>3
    <3> QED
      BY <3>2, <3>3
  <2> QED
    BY <2>1, <2>2
<1>11. /\ argc = N /\ data[argc * PtrSize + 1] = 0
       /\ SubSeq(data, (argc + 1) * PtrSize + 1, Len(data)) = Shell
  <2>1. 1 \in 1 .. PtrSize
    BY <1>2
  <2> QED
    BY <1>1, <1>6, <1>7, <1>8, <2>1 DEF N
<1>12. ASSUME NEW j \in 0 .. (argc - 1)
       PROVE  Arguments!IsPrefix(Append(Argv[j + 1], 0), SubSeq(data, data[j * PtrSize + 1], Len(data)))
  <2>1. \A x, y : Arguments!IsPrefix(x, y) <=> IsPrefix(x, y)
    BY DEF IsPrefix, Arguments!IsPrefix
  <2> QED
    BY <1>7, <1>9, <1>11, <2>1
<1>13. \A c \in DOMAIN data : data[c] # Arguments!Garbage
  BY <1>7, <1>10 DEF Arguments!Garbage
<1> QED
  BY <1>5, <1>11, <1>12, <1>13 DEF Arguments!ArgvExact, Arguments!NULL, N

(* main() gets argc and argv as C says, for any arguments of bytes and any *)
(* size of a pointer.                                                      *)
THEOREM ArgumentsExact == ArgumentsOfBytes => (Spec => []ArgvExact)
<1>1. ArgumentsOfBytes /\ (part = "argv" => ArgvInv) => ArgvExact
  <2> SUFFICES ASSUME ArgumentsOfBytes, ArgvInv, step = "returned" PROVE Arguments!ArgvExact
    BY DEF ArgvExact, Arguments!ArgvExact
  <2>1. CASE argc = -1
    <3>1. argv = 0 /\ data = << >>
      BY <2>1, BlockTrue DEF ArgvInv
    <3> QED
      BY <2>1, <3>1 DEF Arguments!ArgvExact, Arguments!NULL
  <2> QED
    BY <2>1, BlockExact
<1>2. CASE ArgumentsOfBytes
  BY <1>1, <1>2, ArgvInvariant, PTL
<1> QED
  BY <1>2
=============================================================================
