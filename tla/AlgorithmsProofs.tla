-------------------------- MODULE AlgorithmsProofs --------------------------
(***************************************************************************)
(* Proofs about Algorithms.                                                *)
(***************************************************************************)
EXTENDS Algorithms, Induction

(* A step is one of the part the behaviour is of.                          *)
LEMMA Separate ==
  ASSUME [Next]_vars
  PROVE  /\ part' = part
         /\ part = "clock" => Clock!Next \/ UNCHANGED clockVars
         /\ part = "strtox" => Strtox!Next \/ UNCHANGED strtoxVars
         /\ part = "strtok" => Strtok!Next \/ UNCHANGED strtokVars
         /\ part = "memmove" => Memmove!Next \/ UNCHANGED memmoveVars
         /\ part = "cstring" => CString!Next \/ UNCHANGED cstringVars
         /\ part = "unsup" => Unsup!Next \/ UNCHANGED unsupVars
         /\ part = "sleep" => Sleep!Next \/ UNCHANGED sleepVars
BY DEF Next, vars, ClockStep, StrtoxStep, StrtokStep, MemmoveStep, CStringStep, UnsupStep,
       SleepStep

-----------------------------------------------------------------------------
(* memmove: the invariant says what has been copied so far, in either      *)
(* direction; the byte read next has not been overwritten yet, because of  *)
(* the direction memmove chose.                                            *)

MemArgs ==
  /\ dst \in Nat /\ src \in Nat /\ size \in Nat
  /\ dst + size <= Top /\ src + size <= Top
  /\ todo \in 0 .. size
  /\ was \in [Memmove!Addr -> Memmove!Addr]

(* The addresses of the destination written so far.                        *)
Done == IF Memmove!Up THEN dst .. (dst + (size - todo) - 1)
              ELSE (dst + todo) .. (dst + size - 1)

Copied == mem = [a \in Memmove!Addr |-> IF a \in Done THEN was[a - dst + src] ELSE was[a]]

MemInv == MemArgs /\ Copied

(* Before the first byte nothing has been copied.                          *)
LEMMA MemInitially ==
  ASSUME Memmove!Init
  PROVE  MemInv
<1>1. MemArgs
  BY AlgorithmsAssumption DEF Memmove!MemmoveAssumption, Memmove!Init, MemArgs, Memmove!Addr
<1>2. Done = {}
  BY <1>1 DEF Memmove!Init, Done, MemArgs
<1>3. Copied
  BY <1>2 DEF Memmove!Init, Copied
<1> QED
  BY <1>1, <1>3 DEF MemInv

(* The byte copied next is one that has not been overwritten, so it still  *)
(* is what it was; copying it extends what is done by one address.         *)
LEMMA CopyKeepsInv ==
  ASSUME MemInv, Memmove!CopyByte
  PROVE  MemInv'
<1> USE AlgorithmsAssumption DEF Memmove!MemmoveAssumption
<1>1. MemArgs'
  BY DEF MemInv, Memmove!CopyByte, MemArgs
<1>2. /\ Memmove!Index \in 0 .. (size - 1)
      /\ dst + Memmove!Index \in Memmove!Addr /\ src + Memmove!Index \in Memmove!Addr
  <2>1. /\ dst \in Nat /\ src \in Nat /\ size \in Nat /\ todo \in 1 .. size
        /\ dst + size <= Top /\ src + size <= Top
    BY DEF MemInv, Memmove!CopyByte, MemArgs
  <2>2. Memmove!Index \in 0 .. (size - 1)
    BY <2>1 DEF Memmove!Index
  <2> QED
    BY <2>1, <2>2 DEF Memmove!Addr
<1>3. src + Memmove!Index \notin Done
  BY DEF MemInv, Memmove!CopyByte, MemArgs, Memmove!Index, Done, Memmove!Up
<1>4. mem[src + Memmove!Index] = was[src + Memmove!Index]
  BY <1>2, <1>3 DEF MemInv, Copied
<1>5. Done' = Done \cup {dst + Memmove!Index}
  BY DEF MemInv, Memmove!CopyByte, MemArgs, Memmove!Index, Done, Memmove!Up
<1>6. mem' = [a \in Memmove!Addr |-> IF a \in Done' THEN was[a - dst + src] ELSE was[a]]
  <2>1. mem' = [a \in Memmove!Addr |-> IF a = dst + Memmove!Index THEN was[src + Memmove!Index] ELSE mem[a]]
    BY <1>2, <1>4 DEF MemInv, Copied, Memmove!CopyByte
  <2>2. (dst + Memmove!Index) - dst + src = src + Memmove!Index
    BY <1>2 DEF MemInv, MemArgs, Memmove!Addr
  <2>3. \A a \in Memmove!Addr : mem[a] = IF a \in Done THEN was[a - dst + src] ELSE was[a]
    BY DEF MemInv, Copied
  <2>4. ASSUME NEW a \in Memmove!Addr
        PROVE (IF a = dst + Memmove!Index THEN was[src + Memmove!Index] ELSE mem[a])
                = IF a \in Done' THEN was[a - dst + src] ELSE was[a]
    <3>1. CASE a = dst + Memmove!Index
      BY <3>1, <2>2, <1>5
    <3>2. CASE a # dst + Memmove!Index
      BY <3>2, <2>3, <1>5
    <3> QED
      BY <3>1, <3>2
  <2> QED
    BY <2>1, <2>4
<1>7. Copied'
  BY <1>6 DEF Copied, Memmove!CopyByte
<1> QED
  BY <1>1, <1>7 DEF MemInv

(* What has been copied at any moment of memmove, for every memory.        *)
THEOREM CopiedSoFar == Spec => [](part = "memmove" => MemInv)
<1>1. Init => (part = "memmove" => MemInv)
  BY MemInitially DEF Init
<1>2. (part = "memmove" => MemInv) /\ [Next]_vars => (part = "memmove" => MemInv)'
  <2>1. MemInv /\ UNCHANGED memmoveVars => MemInv'
    BY DEF MemInv, MemArgs, Copied, Done, Memmove!Up, memmoveVars
  <2> QED
    BY <2>1, Separate, CopyKeepsInv DEF Memmove!Next
<1> QED
  BY <1>1, <1>2, PTL DEF Spec

(* string.c:62-76: memmove moves a block of any size exactly, wherever the *)
(* destination overlaps the source, and touches nothing else.              *)
THEOREM MovesExactly == Spec => []MoveExact
<1>1. (part = "memmove" => MemInv) => MoveExact
  <2> SUFFICES ASSUME MemInv, todo = 0
               PROVE  mem = [a \in Memmove!Addr |-> IF a \in dst .. (dst + size - 1)
                                                    THEN was[a - dst + src] ELSE was[a]]
    BY DEF MoveExact, Memmove!MoveExact
  <2>1. Done = dst .. (dst + size - 1)
    BY DEF MemInv, MemArgs, Done
  <2> QED
    BY <2>1 DEF MemInv, Copied
<1> QED
  BY <1>1, CopiedSoFar, PTL

-----------------------------------------------------------------------------
(* Sleep.                                                                  *)

(* How long has been slept where the hook is, and without a signal.        *)
SleepInv ==
  /\ runtime \in {"native", "efi"}
  /\ spc \in {"idle", "stall", "sleep", "usleep", "returned"}
  /\ asked \in Nat /\ slept \in Nat /\ left \in Nat
  /\ spc \in {"idle", "stall", "sleep", "usleep"} => left = 0
  /\ spc \in {"idle", "stall", "sleep"} => slept = 0 /\ ~interrupted
  /\ spc = "usleep" => /\ slept <= Sleep!Whole /\ slept + USECS > Sleep!Whole
                       /\ ~interrupted => slept = Sleep!Whole
  /\ Sleep!SecondsTold

(* A number of microseconds is whole seconds and less than one more.       *)
LEMMA WholeSeconds ==
  ASSUME NEW us \in Nat
  PROVE  /\ us \div USECS \in Nat /\ us % USECS \in 0 .. (USECS - 1)
         /\ (us \div USECS) * USECS \in Nat
         /\ us = (us \div USECS) * USECS + (us % USECS)
<1>1. USECS \in Nat /\ USECS > 0
  BY AlgorithmsAssumption DEF Sleep!SleepAssumption
<1> QED
  BY <1>1

(* Each step of the two sleeps keeps account of what has been slept.       *)
LEMMA SleepStepKeepsInv ==
  ASSUME SleepInv, Sleep!Next
  PROVE  SleepInv'
<1>1. USECS \in Nat /\ USECS > 0 /\ Seconds \subseteq Nat /\ Micros \subseteq Nat
  BY AlgorithmsAssumption DEF Sleep!SleepAssumption
<1>2. /\ asked \in Nat /\ slept \in Nat /\ left \in Nat
      /\ Sleep!Whole \in Nat /\ asked % USECS \in 0 .. (USECS - 1)
      /\ asked = Sleep!Whole + (asked % USECS)
  BY WholeSeconds DEF SleepInv, Sleep!Whole
<1>3. CASE Sleep!Call
  <2>1. /\ asked' \in Nat /\ slept' = 0 /\ ~interrupted' /\ left' \in Nat
        /\ spc' \in {"stall", "sleep", "usleep"} /\ left' = 0 /\ runtime' = runtime
    <3>1. \A x \in Seconds : x * USECS \in Nat
      BY <1>1
    <3> QED
      BY <1>1, <1>3, <3>1 DEF SleepInv, Sleep!Call
  <2>2. spc' = "usleep" => Sleep!Whole' = 0
    <3>1. ASSUME NEW us \in Nat, us < USECS  PROVE us \div USECS = 0
      BY <1>1, <3>1
    <3>2. 0 * USECS = 0
      BY <1>1
    <3>3. spc' = "usleep" => asked' < USECS
      BY <1>1, <1>3, <2>1 DEF Sleep!Call
    <3> QED
      BY <2>1, <3>1, <3>2, <3>3 DEF Sleep!Whole
  <2> QED
    <3>1. runtime' \in {"native", "efi"}
      BY <2>1 DEF SleepInv
    <3>2. spc' = "usleep" => /\ slept' <= Sleep!Whole' /\ slept' + USECS > Sleep!Whole'
                            /\ slept' = Sleep!Whole'
      BY <1>1, <2>1, <2>2
    <3> QED
      BY <2>1, <3>1, <3>2 DEF SleepInv, Sleep!SecondsTold
<1>4. CASE Sleep!Stall
  <2>1. /\ spc' = "returned" /\ slept' = asked /\ left' = 0 /\ UNCHANGED <<runtime, asked, interrupted>>
        /\ Sleep!Whole' = Sleep!Whole
    BY <1>4 DEF Sleep!Stall, Sleep!Return, Sleep!Whole
  <2>2. slept' + USECS > Sleep!Whole
    BY <1>1, <1>2, <2>1
  <2> QED
    BY <1>2, <2>1, <2>2 DEF SleepInv, Sleep!SecondsTold
<1>5. CASE Sleep!SecondsSlept
  BY <1>1, <1>2, <1>5 DEF SleepInv, Sleep!SecondsSlept, Sleep!Whole, Sleep!SecondsTold
<1>6. CASE Sleep!SecondsInterrupted
  <2>1. PICK time \in 0 .. (Sleep!Whole - 1), up \in {0, USECS - 1} :
          LET rv == (Sleep!Whole - time + up) \div USECS IN
          /\ slept' = time
          /\ IF rv > 0 THEN Sleep!Return(rv * USECS) ELSE spc' = "usleep" /\ UNCHANGED left
    BY <1>6 DEF Sleep!SecondsInterrupted
  <2> DEFINE more == (Sleep!Whole - time) + up
             rv == more \div USECS
             kept == rv * USECS
  <2>2. more \in Nat /\ time \in Nat /\ time < Sleep!Whole
    BY <1>1, <1>2
  <2>3. rv \in Nat /\ kept \in Nat /\ more = kept + (more % USECS) /\ more % USECS \in 0 .. (USECS - 1)
    BY <2>2, WholeSeconds
  <2>4. rv = 0 => kept = 0
    BY <1>1
  <2>5. /\ slept' = time /\ interrupted' /\ UNCHANGED <<runtime, asked, Sleep!Whole>>
        /\ \/ rv > 0 /\ spc' = "returned" /\ left' = kept
           \/ ~(rv > 0) /\ spc' = "usleep" /\ left' = left
        /\ left = 0 /\ spc = "sleep"
    BY <1>6, <2>1 DEF Sleep!SecondsInterrupted, Sleep!Return, Sleep!Whole, SleepInv
  <2>6. \/ kept <= Sleep!Whole - time /\ Sleep!Whole - time < kept + USECS
        \/ kept < (Sleep!Whole - time) + USECS /\ Sleep!Whole - time <= kept
    <3> HIDE DEF rv
    <3> QED
      BY <1>1, <1>2, <2>2, <2>3
  <2> HIDE DEF more, rv, kept
  <2> QED
    BY <1>1, <1>2, <2>2, <2>3, <2>4, <2>5, <2>6 DEF SleepInv, Sleep!SecondsTold
<1>7. CASE Sleep!MicrosSlept
  <2>1. PICK time \in 0 .. (asked % USECS) :
          /\ slept' = slept + time
          /\ interrupted' = (interrupted \/ time < asked % USECS)
    BY <1>7 DEF Sleep!MicrosSlept
  <2>2. ~interrupted' => ~interrupted /\ ~(time < asked % USECS)
    BY <2>1, Zenon
  <2>3. spc = "usleep" /\ spc' = "returned" /\ left' = 0 /\ UNCHANGED <<runtime, asked>>
    BY <1>7 DEF Sleep!MicrosSlept, Sleep!Return
  <2>4. slept' = slept + time
    BY <2>1
  <2>5. Sleep!Whole' = Sleep!Whole
    BY <2>3 DEF Sleep!Whole
  <2>6. slept' \in Nat /\ slept' + USECS > Sleep!Whole /\ (~interrupted' => slept' = asked)
    BY <1>1, <1>2, <2>2, <2>3, <2>4 DEF SleepInv
  <2> QED
    BY <1>2, <2>3, <2>5, <2>6 DEF SleepInv, Sleep!SecondsTold
<1> QED
  BY <1>3, <1>4, <1>5, <1>6, <1>7 DEF Sleep!Next

(* Wherever signals come in the two sleeps of the native hook, what it     *)
(* returns is what is left of the whole seconds, within one, and 0 once    *)
(* less than one of them is left; without a signal the time asked for has  *)
(* passed (native/start_main.c:51-66).                                     *)
THEOREM SecondsAreTold == Spec => []SecondsTold
<1>1. Init => (part = "sleep" => SleepInv)
  <2>1. Sleep!Init => SleepInv
    BY DEF Sleep!Init, SleepInv, Sleep!SecondsTold
  <2> QED
    BY <2>1 DEF Init
<1>2. (part = "sleep" => SleepInv) /\ [Next]_vars => (part = "sleep" => SleepInv)'
  <2>1. SleepInv /\ UNCHANGED sleepVars => SleepInv'
    BY DEF SleepInv, sleepVars, Sleep!Whole, Sleep!SecondsTold
  <2> QED
    BY <2>1, Separate, SleepStepKeepsInv
<1>3. (part = "sleep" => SleepInv) => SecondsTold
  BY DEF SleepInv, SecondsTold
<1> QED
  BY <1>1, <1>2, <1>3, PTL DEF Spec

-----------------------------------------------------------------------------
(* Unsupported functions.                                                  *)

(* Which of the calls c are the first of their functions and print their   *)
(* warning, and which set errno.                                           *)
FirstIn(c, j) == \A l \in 1 .. (j - 1) : c[l][1] # c[j][1]
Printing(c) == {j \in DOMAIN c : FirstIn(c, j) /\ c[j][2]}
Setting(c) == {j \in DOMAIN c : Unsup!Table[c[j][1]][2] # Unsup!Kept}

(* The warnings w are those of the calls c.                                *)
Warned(w, c) ==
  /\ Len(w) = Cardinality(Printing(c))
  /\ \A j \in Printing(c) : w[Cardinality({l \in Printing(c) : l <= j})] = c[j][1]

(* errno is x after the calls c.                                           *)
SetTo(x, c) ==
  IF Setting(c) = {} THEN x = "0"
  ELSE \E j \in Setting(c) : /\ \A l \in Setting(c) : l <= j
                             /\ x = Unsup!Table[c[j][1]][2]

Calls == Seq(Unsup!Function \X BOOLEAN)

UnsupInv ==
  /\ calls \in Calls /\ stderr \in Seq(Unsup!Function)
  /\ \A f \in Unsup!Function : warned[f] <=> \E j \in 1 .. Len(calls) : calls[j][1] = f
  /\ Warned(stderr, calls) /\ SetTo(errno, calls)

(* What one more call adds.                                                *)
OneMore(c, f, ok, d, m) ==
  /\ d \in Calls /\ m \in Nat /\ Len(d) = m + 1
  /\ DOMAIN c = 1 .. m /\ DOMAIN d = 1 .. (m + 1)
  /\ \A j \in 1 .. m : d[j] = c[j]
  /\ d[m + 1] = <<f, ok>>
  /\ \A j \in 1 .. m : FirstIn(d, j) <=> FirstIn(c, j)
  /\ FirstIn(d, m + 1) <=> ~\E j \in 1 .. m : c[j][1] = f

(* It does: the calls before stay the first of their functions or not.     *)
LEMMA OneCallMore ==
  ASSUME NEW c \in Calls, NEW f \in Unsup!Function, NEW ok \in BOOLEAN,
         NEW d, d = Append(c, <<f, ok>>), NEW m, m = Len(c)
  PROVE  OneMore(c, f, ok, d, m)
<1>1. /\ d \in Calls /\ m \in Nat /\ Len(d) = m + 1
      /\ DOMAIN c = 1 .. m /\ DOMAIN d = 1 .. (m + 1)
      /\ \A j \in 1 .. m : d[j] = c[j]
      /\ d[m + 1] = <<f, ok>>
  <2> DEFINE S == Unsup!Function \X BOOLEAN
             e == <<f, ok>>
  <2>1. e \in S /\ c \in Seq(S) /\ d = Append(c, e)
    BY DEF Calls
  <2> HIDE DEF S, e
  <2>2. d \in Seq(S) /\ m \in Nat /\ Len(d) = m + 1
        /\ DOMAIN c = 1 .. m /\ DOMAIN d = 1 .. (m + 1)
        /\ (\A j \in 1 .. m : d[j] = c[j]) /\ d[m + 1] = e
    BY <2>1, SMTT(60)
  <2> QED
    BY <2>2 DEF S, e, Calls
<1>2. \A j \in 1 .. m : FirstIn(d, j) <=> FirstIn(c, j)
  <2>1. \A j \in 1 .. m : \A l \in 1 .. (j - 1) : l \in 1 .. m
    BY <1>1
  <2> QED
    BY <1>1, <2>1 DEF FirstIn
<1>3. FirstIn(d, m + 1) <=> ~\E j \in 1 .. m : c[j][1] = f
  <2>1. 1 .. ((m + 1) - 1) = 1 .. m /\ d[m + 1][1] = f
    BY <1>1
  <2> QED
    BY <1>1, <2>1 DEF FirstIn
<1> QED
  BY <1>1, <1>2, <1>3 DEF OneMore

(* What that does to a set of calls, where the last may be one of them.    *)
LEMMA LastPlace ==
  ASSUME NEW m \in Nat, NEW P, P \subseteq 1 .. m, NEW Q, Q \subseteq 1 .. (m + 1),
         \A j \in 1 .. m : j \in Q <=> j \in P
  PROVE  /\ m + 1 \notin P
         /\ m + 1 \notin Q => Q = P
         /\ m + 1 \in Q => Q = P \cup {m + 1}
         /\ {l \in Q : l <= m + 1} = Q
         /\ \A j \in P : {l \in Q : l <= j} = {l \in P : l <= j}
<1>1. 1 .. (m + 1) = (1 .. m) \cup {m + 1} /\ m + 1 \notin 1 .. m
  OBVIOUS
<1>2. \A l \in Q : l \in P \/ l = m + 1
  BY <1>1
<1>3. \A j \in P : j \in Q /\ j \in 1 .. m
  OBVIOUS
<1>4. \A l \in Q : l <= m + 1
  OBVIOUS
<1>5. \A j \in P : ~(m + 1 <= j)
  BY <1>3
<1> QED
  BY <1>1, <1>2, <1>3, <1>4, <1>5

(* A call that prints adds the last warning.                               *)
LEMMA WarningAdded ==
  ASSUME NEW c \in Calls, NEW f \in Unsup!Function, NEW ok \in BOOLEAN,
         NEW d, d = Append(c, <<f, ok>>), NEW w \in Seq(Unsup!Function), Warned(w, c),
         NEW x, x = IF ok /\ ~\E j \in 1 .. Len(c) : c[j][1] = f THEN Append(w, f) ELSE w
  PROVE  Warned(x, d) /\ x \in Seq(Unsup!Function)
<1> DEFINE new == ok /\ ~\E j \in 1 .. Len(c) : c[j][1] = f
<1> HIDE DEF new
<1>0. PICK m, P, Q : m = Len(c) /\ P = Printing(c) /\ Q = Printing(d)
  OBVIOUS
<1>1. /\ d \in Calls /\ m \in Nat /\ Len(d) = m + 1
      /\ DOMAIN c = 1 .. m /\ DOMAIN d = 1 .. (m + 1)
      /\ \A j \in 1 .. m : d[j] = c[j]
      /\ d[m + 1] = <<f, ok>>
      /\ \A j \in 1 .. m : FirstIn(d, j) <=> FirstIn(c, j)
      /\ FirstIn(d, m + 1) <=> ~\E j \in 1 .. m : c[j][1] = f
  <2>1. OneMore(c, f, ok, d, m)
    BY <1>0, OneCallMore
  <2> QED
    BY <2>1 DEF OneMore
<1>2. P \subseteq 1 .. m /\ IsFiniteSet(P) /\ Cardinality(P) \in Nat
  <2>1. P \subseteq 1 .. m
    BY <1>0, <1>1 DEF Printing
  <2> QED
    <3>1. IsFiniteSet(1 .. m)
      BY <1>1, FS_Interval
    <3> QED
      BY <2>1, <3>1, FS_Subset, FS_CardinalityType
<1>3. ASSUME NEW j \in 1 .. m  PROVE j \in Q <=> j \in P
  <2>1. /\ j \in DOMAIN c /\ j \in DOMAIN d /\ d[j] = c[j]
        /\ FirstIn(d, j) <=> FirstIn(c, j)
    <3>1. FirstIn(d, j) <=> FirstIn(c, j)
      BY <1>1, Zenon
    <3>2. j \in DOMAIN c /\ j \in DOMAIN d /\ d[j] = c[j]
      BY <1>1
    <3> QED
      BY <3>1, <3>2
  <2> QED
    BY <1>0, <2>1, Zenon DEF Printing
<1>4. m + 1 \in Q <=> new
  <2>1. d[m + 1][2] <=> ok
    BY <1>1
  <2> QED
    BY <1>0, <1>1, <2>1 DEF Printing, new
<1>5. Q \subseteq 1 .. (m + 1)
  BY <1>0, <1>1 DEF Printing
<1>6. Len(w) = Cardinality(P) /\ \A j \in P : w[Cardinality({l \in P : l <= j})] = c[j][1]
  BY <1>0 DEF Warned
<1>7. \A j \in P : /\ {l \in Q : l <= j} = {l \in P : l <= j}
                   /\ Cardinality({l \in P : l <= j}) \in 1 .. Cardinality(P)
  <2> TAKE j \in P
  <2> DEFINE B == {l \in P : l <= j}
  <2>1. B \subseteq P /\ j \in B
    BY <1>1, <1>2
  <2>2. {l \in Q : l <= j} = B
    <3>1. \A k \in P : {l \in Q : l <= k} = {l \in P : l <= k}
      BY <1>1, <1>2, <1>3, <1>5, LastPlace
    <3> QED
      BY <3>1
  <2> HIDE DEF B
  <2>3. IsFiniteSet(B) /\ Cardinality(B) \in Nat /\ Cardinality(B) <= Cardinality(P)
    BY <1>2, <2>1, FS_Subset, FS_CardinalityType
  <2>4. Cardinality(B) # 0
    BY <2>1, <2>3, FS_EmptySet
  <2> QED
    BY <1>2, <2>2, <2>3, <2>4 DEF B
<1>8. CASE ~new
  <2>1. Q = P /\ x = w
    <3>1. Q = P
      BY <1>1, <1>2, <1>3, <1>4, <1>5, <1>8, LastPlace
    <3>2. x = w
      BY <1>8 DEF new
    <3> QED
      BY <3>1, <3>2
  <2> QED
    BY <1>0, <1>1, <1>2, <1>6, <2>1 DEF Warned
<1>9. CASE new
  <2>1. x = Append(w, f) /\ x \in Seq(Unsup!Function) /\ Len(x) = Cardinality(P) + 1
        /\ (\A k \in 1 .. Cardinality(P) : x[k] = w[k]) /\ x[Cardinality(P) + 1] = f
    BY <1>6, <1>9 DEF new
  <2>2. Q = P \cup {m + 1} /\ m + 1 \notin P
    <3>1. m + 1 \in Q
      BY <1>4, <1>9
    <3>2. m + 1 \in Q => Q = P \cup {m + 1}
      BY <1>1, <1>2, <1>3, <1>5, LastPlace
    <3>3. m + 1 \notin P
      BY <1>1, <1>2, <1>3, <1>5, LastPlace
    <3> QED
      BY <3>1, <3>2, <3>3
  <2>3. Cardinality(Q) = Cardinality(P) + 1
    BY <1>2, <2>2, FS_AddElement
  <2>4. {l \in Q : l <= m + 1} = Q
    BY <1>1, <1>2, <1>3, <1>5, LastPlace
  <2>5. ASSUME NEW j \in Q  PROVE x[Cardinality({l \in Q : l <= j})] = d[j][1]
    <3>1. CASE j = m + 1
      <4>1. {l \in Q : l <= j} = Q
        BY <2>4, <3>1
      <4>2. x[Cardinality(Q)] = d[j][1]
        BY <1>1, <2>1, <2>3, <3>1
      <4> QED
        BY <4>1, <4>2
    <3>2. CASE j \in P
      <4>1. PICK r : r = Cardinality({l \in P : l <= j})
        OBVIOUS
      <4>2. r \in 1 .. Cardinality(P) /\ w[r] = c[j][1] /\ r = Cardinality({l \in Q : l <= j})
        BY <1>6, <1>7, <3>2, <4>1
      <4>3. d[j] = c[j]
        BY <1>1, <1>2, <3>2
      <4> QED
        BY <2>1, <4>2, <4>3
    <3> QED
      BY <2>2, <3>1, <3>2
  <2> QED
    BY <1>0, <2>1, <2>3, <2>5 DEF Warned
<1> QED
  BY <1>8, <1>9

(* A call of f when errno was e sets it so, or leaves it.                  *)
ErrnoAfter(e, f) == IF Unsup!Table[f][2] = Unsup!Kept THEN e ELSE Unsup!Table[f][2]

(* errno is set by the last call that sets it.                             *)
LEMMA ErrnoSet ==
  ASSUME NEW c \in Calls, NEW f \in Unsup!Function, NEW ok \in BOOLEAN,
         NEW d, d = Append(c, <<f, ok>>), NEW e, SetTo(e, c),
         NEW x, x = ErrnoAfter(e, f)
  PROVE  SetTo(x, d)
<1> DEFINE sets == Unsup!Table[f][2] # Unsup!Kept
<1> HIDE DEF sets, ErrnoAfter
<1>0. PICK m, P, Q : m = Len(c) /\ P = Setting(c) /\ Q = Setting(d)
  OBVIOUS
<1>1. /\ m \in Nat /\ DOMAIN c = 1 .. m /\ DOMAIN d = 1 .. (m + 1)
      /\ \A j \in 1 .. m : d[j] = c[j]
      /\ d[m + 1] = <<f, ok>>
  BY <1>0, OneCallMore DEF OneMore
<1>2. /\ P \subseteq 1 .. m /\ Q \subseteq 1 .. (m + 1)
      /\ \A j \in 1 .. m : j \in Q <=> j \in P
      /\ m + 1 \in Q <=> sets
  BY <1>0, <1>1 DEF Setting, sets
<1>3. CASE sets
  <2>1. m + 1 \in Q /\ (\A l \in Q : l <= m + 1) /\ x = Unsup!Table[d[m + 1][1]][2]
    BY <1>1, <1>2, <1>3 DEF sets, ErrnoAfter
  <2> QED
    BY <1>0, <2>1 DEF SetTo
<1>4. CASE ~sets
  <2>1. Q = P /\ x = e
    <3>1. Q = P
      BY <1>1, <1>2, <1>4, LastPlace
    <3>2. x = e
      BY <1>4 DEF sets, ErrnoAfter
    <3> QED
      BY <3>1, <3>2
  <2>2. \A j \in P : d[j] = c[j]
    BY <1>1, <1>2
  <2> QED
    BY <1>0, <2>1, <2>2 DEF SetTo
<1> QED
  BY <1>3, <1>4

(* A call keeps what the warnings and errno tell of the calls.             *)
LEMMA UnsupStepKeepsInv ==
  ASSUME UnsupInv, Unsup!Next
  PROVE  UnsupInv'
<1>1. CASE Unsup!SetOptind
  BY <1>1 DEF UnsupInv, Unsup!SetOptind
<1>2. ASSUME NEW f \in Unsup!Function, NEW ok \in BOOLEAN, Unsup!Call(f, ok)
      PROVE  UnsupInv'
  <2>1. /\ calls \in Calls /\ calls' = Append(calls, <<f, ok>>)
        /\ stderr \in Seq(Unsup!Function) /\ Warned(stderr, calls) /\ SetTo(errno, calls)
        /\ errno' = IF Unsup!Table[f][2] = Unsup!Kept THEN errno ELSE Unsup!Table[f][2]
    BY <1>2 DEF UnsupInv, Unsup!Call
  <2>2. stderr' = IF ok /\ ~\E j \in 1 .. Len(calls) : calls[j][1] = f
                  THEN Append(stderr, f) ELSE stderr
    BY <1>2 DEF UnsupInv, Unsup!Call, Unsup!WarnOnce
  <2>3. Warned(stderr', calls') /\ stderr' \in Seq(Unsup!Function)
    BY <2>1, <2>2, WarningAdded
  <2>4. SetTo(errno', calls')
    <3>1. PICK c, d, e, x : c = calls /\ d = calls' /\ e = errno /\ x = errno'
      OBVIOUS
    <3>2. /\ c \in Calls /\ d = Append(c, <<f, ok>>) /\ SetTo(e, c)
          /\ x = ErrnoAfter(e, f)
      BY <2>1, <3>1 DEF ErrnoAfter
    <3>3. SetTo(x, d)
      BY <3>2, ErrnoSet
    <3> QED
      BY <3>1, <3>3
  <2>5. ASSUME NEW g \in Unsup!Function
        PROVE  warned'[g] <=> \E j \in 1 .. Len(calls') : calls'[j][1] = g
    <3>1. warned'[g] <=> warned[g] \/ g = f
      BY <1>2 DEF Unsup!Call, Unsup!WarnOnce, Unsup!Flags
    <3>2. warned[g] <=> \E j \in 1 .. Len(calls) : calls[j][1] = g
      BY DEF UnsupInv
    <3>3. (\E j \in 1 .. Len(calls') : calls'[j][1] = g)
            <=> (\E j \in 1 .. Len(calls) : calls[j][1] = g) \/ g = f
      <4> DEFINE c == calls
                 d == calls'
      <4>1. /\ Len(c) \in Nat /\ Len(d) = Len(c) + 1
            /\ \A j \in 1 .. Len(c) : d[j] = c[j]
            /\ d[Len(c) + 1] = <<f, ok>>
        BY <2>1, OneCallMore DEF OneMore
      <4> HIDE DEF c, d
      <4> QED
        BY <4>1 DEF c, d
    <3> QED
      BY <3>1, <3>2, <3>3
  <2>6. calls' \in Calls
    BY <2>1, OneCallMore DEF OneMore
  <2> QED
    BY <2>3, <2>4, <2>5, <2>6 DEF UnsupInv
<1> QED
  BY <1>1, <1>2 DEF Unsup!Next

(* google_warn.h:36: each function warns the first time it is called,      *)
(* however the calls of several are mixed, and none again when stderr was  *)
(* failing; errno is what the last call that sets it set.                  *)
THEOREM WarnedOnce == Spec => []WarnsOnce
<1>1. Init => (part = "unsup" => UnsupInv)
  <2> SUFFICES ASSUME Unsup!Init PROVE UnsupInv
    BY DEF Init
  <2>1. calls = << >> /\ stderr = << >> /\ errno = "0" /\ warned = [f \in Unsup!Function |-> FALSE]
    BY DEF Unsup!Init
  <2>2. Printing(calls) = {} /\ Setting(calls) = {}
    BY <2>1 DEF Printing, Setting
  <2> QED
    BY <2>1, <2>2, FS_EmptySet DEF UnsupInv, Warned, SetTo, Calls
<1>2. (part = "unsup" => UnsupInv) /\ [Next]_vars => (part = "unsup" => UnsupInv)'
  <2>1. UnsupInv /\ UNCHANGED unsupVars => UnsupInv'
    BY DEF UnsupInv, unsupVars
  <2> QED
    BY <2>1, Separate, UnsupStepKeepsInv
<1>3. (part = "unsup" => UnsupInv) => WarnsOnce
  <2>1. Warned(stderr, calls) /\ SetTo(errno, calls) => Unsup!WarnsOnce
    BY Zenon DEF Warned, SetTo, Printing, Setting, FirstIn, Unsup!WarnsOnce,
                 Unsup!Cardinality, Cardinality
  <2> QED
    BY <2>1 DEF UnsupInv, WarnsOnce
<1> QED
  BY <1>1, <1>2, <1>3, PTL DEF Spec
-----------------------------------------------------------------------------
(* Time: sums over years and months in closed form, as the code has them.  *)

(* The leap days of year y, those up to its end, the days before it and    *)
(* the days of year y before month m.                                      *)
LeapDays(y) == IF Clock!Leap(y) THEN 1 ELSE 0
Leaps(y) == ((y \div 4) - (y \div 100)) + (y \div 400)
YearDays(y) == ((y - 1970) * 365 + Leaps(y - 1)) - Leaps(1969)
MonthDays(y, m) ==
  IF m = 1 THEN 0 ELSE IF m = 2 THEN 31 ELSE (((367 * (m - 2)) \div 12) + 29) + LeapDays(y)

(* f sums up s from a on.                                                  *)
Sums(f, s, a, b) == \A x \in a .. b : f[x] = IF x = a THEN 0 ELSE f[x - 1] + s[x]

(* Two functions that sum up the same agree.                               *)
LEMMA SumsAgree ==
  ASSUME NEW a \in Int, NEW b \in Int, a <= b, NEW s, NEW f, NEW g,
         Sums(f, s, a, b), Sums(g, s, a, b)
  PROVE  f[b] = g[b]
<1> DEFINE P == {k \in 0 .. (b - a) : f[a + k] = g[a + k]}
<1>1. 0 \in P
  <2>1. a \in a .. b /\ a + 0 = a /\ 0 \in 0 .. (b - a)
    OBVIOUS
  <2> QED
    BY <2>1 DEF Sums
<1>2. ASSUME NEW k \in 0 .. ((b - a) - 1), k \in P  PROVE k + 1 \in P
  <2>1. /\ a + (k + 1) \in a .. b /\ a + (k + 1) # a /\ (a + (k + 1)) - 1 = a + k
        /\ k + 1 \in 0 .. (b - a)
    OBVIOUS
  <2>2. f[a + (k + 1)] = f[a + k] + s[a + (k + 1)] /\ g[a + (k + 1)] = g[a + k] + s[a + (k + 1)]
    <3>1. PICK x : x = a + (k + 1)
      OBVIOUS
    <3>2. x \in a .. b /\ x # a /\ x - 1 = a + k
      BY <2>1, <3>1
    <3>3. f[x] = f[x - 1] + s[x] /\ g[x] = g[x - 1] + s[x]
      BY <3>2 DEF Sums
    <3> QED
      BY <3>1, <3>2, <3>3
  <2>3. f[a + k] = g[a + k]
    BY <1>2
  <2> QED
    BY <2>1, <2>2, <2>3
<1>3. b - a \in Nat /\ a + (b - a) = b
  OBVIOUS
<1> HIDE DEF P
<1>4. b - a \in P
  <2>1. \A k \in 0 .. (b - a) : k \in P
    BY <1>1, <1>2, <1>3, UpTo
  <2> QED
    BY <1>3, <2>1
<1> QED
  BY <1>3, <1>4 DEF P

(* A leap year has one leap day more than the years before it.             *)
LEMMA LeapDay ==
  ASSUME NEW y \in Nat, y > 0
  PROVE  Leaps(y) = Leaps(y - 1) + LeapDays(y)
<1>1. /\ y \div 4 = IF y % 4 = 0 THEN ((y - 1) \div 4) + 1 ELSE (y - 1) \div 4
      /\ (y - 1) \div 4 \in Int
  OBVIOUS
<1>2. /\ y \div 100 = IF y % 100 = 0 THEN ((y - 1) \div 100) + 1 ELSE (y - 1) \div 100
      /\ (y - 1) \div 100 \in Int
  OBVIOUS
<1>3. /\ y \div 400 = IF y % 400 = 0 THEN ((y - 1) \div 400) + 1 ELSE (y - 1) \div 400
      /\ (y - 1) \div 400 \in Int
  OBVIOUS
<1>4. y % 100 = 0 => y % 4 = 0
  OBVIOUS
<1>5. y % 400 = 0 => y % 100 = 0
  OBVIOUS
<1>6. LeapDays(y) = IF y % 4 = 0 /\ (y % 100 # 0 \/ y % 400 = 0) THEN 1 ELSE 0
  BY DEF LeapDays, Clock!Leap
<1> QED
  BY <1>1, <1>2, <1>3, <1>4, <1>5, <1>6 DEF Leaps

(* What DaysToYear sums up.                                                *)
LEMMA YearsClosed ==
  ASSUME NEW y \in Nat, y >= 1970
  PROVE  Clock!DaysToYear(y) = YearDays(y)
<1> DEFINE D == 1970 .. y
           s == [x \in D |-> IF Clock!Leap(x - 1) THEN 366 ELSE 365]
           g == [x \in D |-> YearDays(x)]
           to == CHOOSE f : f = [x \in D |-> IF x = 1970 THEN 0
                                             ELSE f[x - 1] + IF Clock!Leap(x - 1) THEN 366 ELSE 365]
<1>1. Sums(g, s, 1970, y)
  <2>1. YearDays(1970) = 0
    BY DEF YearDays, Leaps
  <2>2. ASSUME NEW x \in D, x # 1970
        PROVE  YearDays(x) = YearDays(x - 1) + s[x]
    <3>1. x - 1 \in Nat /\ x - 1 > 0 /\ (x - 1) - 1970 = (x - 1970) - 1 /\ x \in Int
      BY <2>2
    <3>2. PICK z : z = x - 1
      OBVIOUS
    <3>3. Leaps(z) = Leaps(z - 1) + LeapDays(z)
      BY <3>1, <3>2, LeapDay
    <3>4. s[x] = 365 + LeapDays(z)
      BY <3>2 DEF LeapDays
    <3>5. LeapDays(z) \in Int /\ Leaps(z) \in Int /\ Leaps(z - 1) \in Int /\ Leaps(1969) \in Int
      BY <3>1, <3>2 DEF LeapDays, Leaps
    <3>6. YearDays(x) = ((x - 1970) * 365 + Leaps(z)) - Leaps(1969)
      BY <3>2 DEF YearDays
    <3>7. YearDays(x - 1) = (((x - 1970) - 1) * 365 + Leaps(z - 1)) - Leaps(1969)
      BY <3>1, <3>2 DEF YearDays
    <3> HIDE DEF s, g, to
    <3> QED
      BY <3>1, <3>3, <3>4, <3>5, <3>6, <3>7
  <2>3. \A x \in D : x # 1970 => x - 1 \in D
    OBVIOUS
  <2> HIDE DEF s, to
  <2>4. \A x \in D : g[x] = IF x = 1970 THEN 0 ELSE g[x - 1] + s[x]
    <3> HIDE DEF D
    <3> QED
      BY <2>1, <2>2, <2>3
  <2> HIDE DEF g
  <2> QED
    BY <2>4 DEF Sums
<1>2. to = [x \in D |-> IF x = 1970 THEN 0
                        ELSE to[x - 1] + IF Clock!Leap(x - 1) THEN 366 ELSE 365]
  <2>1. g = [x \in D |-> IF x = 1970 THEN 0
                         ELSE g[x - 1] + IF Clock!Leap(x - 1) THEN 366 ELSE 365]
    <3>1. \A x \in D : g[x] = IF x = 1970 THEN 0 ELSE g[x - 1] + s[x]
      <4> HIDE DEF g, s, to
      <4> QED
        BY <1>1 DEF Sums
    <3>2. g = [x \in D |-> g[x]]
      OBVIOUS
    <3> HIDE DEF g, to, D
    <3> QED
      BY <3>1, <3>2
  <2> HIDE DEF g, D
  <2> QED
    BY <2>1
<1>3. Clock!DaysToYear(y) = to[y]
  BY DEF Clock!DaysToYear
<1>4. Sums(to, s, 1970, y)
  <2> HIDE DEF to
  <2> QED
    BY <1>2 DEF Sums
<1>5. to[y] = g[y]
  <2> HIDE DEF to, s, g
  <2>1. 1970 \in Int /\ y \in Int /\ 1970 <= y
    OBVIOUS
  <2> QED
    BY <1>1, <1>4, <2>1, SumsAgree
<1>6. g[y] = YearDays(y)
  OBVIOUS
<1> QED
  BY <1>3, <1>5, <1>6

(* What DaysToMonth sums up: the code's 367/12 of a month has the lengths  *)
(* of the months of a year that begins in March.                           *)
LEMMA MonthsClosed ==
  ASSUME NEW y \in Nat, NEW m \in 1 .. 12
  PROVE  Clock!DaysToMonth(y, m) = MonthDays(y, m)
<1> DEFINE D == 1 .. m
           s == [k \in D |-> Clock!MonthLength(y, k - 1)]
           g == [k \in D |-> MonthDays(y, k)]
           to == CHOOSE f : f = [k \in D |-> IF k = 1 THEN 0
                                             ELSE f[k - 1] + Clock!MonthLength(y, k - 1)]
<1>1. Sums(g, s, 1, m)
  <2>1. MonthDays(y, 1) = 0
    BY DEF MonthDays
  <2>2. ASSUME NEW k \in D, k # 1
        PROVE  MonthDays(y, k) = MonthDays(y, k - 1) + s[k]
    <3>1. PICK leap \in {0, 1} : leap = LeapDays(y)
      BY DEF LeapDays
    <3>2. MonthDays(y, k) = IF k = 2 THEN 31 ELSE (((367 * (k - 2)) \div 12) + 29) + leap
      BY <2>2, <3>1 DEF MonthDays
    <3>3. MonthDays(y, k - 1) =
            IF k = 2 THEN 0 ELSE IF k = 3 THEN 31 ELSE (((367 * (k - 3)) \div 12) + 29) + leap
      BY <2>2, <3>1 DEF MonthDays
    <3>4. s[k] = IF k = 3 THEN 28 + leap ELSE IF k \in {5, 7, 10, 12} THEN 30 ELSE 31
      <4>1. s[k] = Clock!MonthLength(y, k - 1)
        OBVIOUS
      <4>2. leap = IF Clock!Leap(y) THEN 1 ELSE 0
        BY <3>1 DEF LeapDays
      <4>3. k \in Int
        OBVIOUS
      <4> HIDE DEF s, g, to, D
      <4> QED
        BY <4>1, <4>2, <4>3 DEF Clock!MonthLength
    <3>5. k \in {2, 3, 4, 5, 6, 7, 8, 9, 10, 11, 12}
      BY <2>2
    <3> HIDE DEF s, g, to, D
    <3> QED
      BY <3>2, <3>3, <3>4, <3>5
  <2>3. \A k \in D : k # 1 => k - 1 \in D
    OBVIOUS
  <2> HIDE DEF s, to
  <2>4. \A k \in D : g[k] = IF k = 1 THEN 0 ELSE g[k - 1] + s[k]
    <3> HIDE DEF D
    <3> QED
      BY <2>1, <2>2, <2>3
  <2> HIDE DEF g
  <2> QED
    BY <2>4 DEF Sums
<1>2. to = [k \in D |-> IF k = 1 THEN 0 ELSE to[k - 1] + Clock!MonthLength(y, k - 1)]
  <2>1. g = [k \in D |-> IF k = 1 THEN 0 ELSE g[k - 1] + Clock!MonthLength(y, k - 1)]
    <3>1. \A k \in D : g[k] = IF k = 1 THEN 0 ELSE g[k - 1] + s[k]
      <4> HIDE DEF g, s, to
      <4> QED
        BY <1>1 DEF Sums
    <3>2. g = [k \in D |-> g[k]]
      OBVIOUS
    <3> HIDE DEF g, to, D
    <3> QED
      BY <3>1, <3>2
  <2> HIDE DEF g, D
  <2> QED
    BY <2>1
<1>3. Clock!DaysToMonth(y, m) = to[m]
  BY DEF Clock!DaysToMonth
<1>4. Sums(to, s, 1, m)
  <2> HIDE DEF to
  <2> QED
    BY <1>2 DEF Sums
<1>5. to[m] = g[m]
  <2> HIDE DEF to, s, g
  <2> QED
    BY <1>1, <1>4, SumsAgree
<1>6. g[m] = MonthDays(y, m)
  OBVIOUS
<1> QED
  BY <1>3, <1>5, <1>6

(* The days the code counts up to day d of month m of year y, as numbered  *)
(* from March, and those of the calendar.                                  *)
MarchDays(y, m, d) ==
  y \div 4 - y \div 100 + y \div 400 + (367 * m) \div 12 + d + y * 365 - 719499
CivilDays(y, m, d) == Clock!DaysToYear(y) + Clock!DaysToMonth(y, m) + d - 1

(* Out of January they are the same.                                       *)
LEMMA DaysCounted ==
  ASSUME NEW y \in Nat, y >= 1970, NEW m \in 2 .. 12, NEW d \in Int,
         NEW y2, NEW m2, m > 2 => y2 = y /\ m2 = m - 2, m = 2 => y2 = y - 1 /\ m2 = 12
  PROVE  MarchDays(y2, m2, d) = CivilDays(y, m, d)
<1>1. Clock!DaysToYear(y) = YearDays(y)
  BY YearsClosed
<1>2. Clock!DaysToMonth(y, m) = MonthDays(y, m)
  <2>1. m \in 1 .. 12
    OBVIOUS
  <2> QED
    BY <2>1, MonthsClosed
<1>3. PICK leap \in {0, 1} : leap = LeapDays(y)
  BY DEF LeapDays
<1>4. YearDays(y) = ((y - 1970) * 365 + Leaps(y - 1)) - 477
  <2>1. Leaps(1969) = 477
    BY DEF Leaps
  <2> QED
    BY <2>1 DEF YearDays
<1>5. Leaps(y) = Leaps(y - 1) + leap
  BY <1>3, LeapDay
<1>6. /\ Leaps(y) = ((y \div 4) - (y \div 100)) + (y \div 400)
      /\ Leaps(y - 1) = (((y - 1) \div 4) - ((y - 1) \div 100)) + ((y - 1) \div 400)
  BY DEF Leaps
<1>7. MonthDays(y, m) = IF m = 2 THEN 31 ELSE (((367 * (m - 2)) \div 12) + 29) + leap
  BY <1>3 DEF MonthDays
<1>8. CASE m = 2
  <2>1. y2 = y - 1 /\ (367 * m2) \div 12 = 367
    BY <1>8
  <2>2. /\ (y - 1) \div 4 \in Int /\ (y - 1) \div 100 \in Int /\ (y - 1) \div 400 \in Int
        /\ y \in Int
    OBVIOUS
  <2> QED
    BY <1>1, <1>2, <1>4, <1>6, <1>7, <1>8, <2>1, <2>2 DEF MarchDays, CivilDays
<1>9. CASE m > 2
  <2>1. y2 = y /\ m2 = m - 2 /\ (367 * (m - 2)) \div 12 \in Int /\ m # 2
    BY <1>9
  <2>2. y \div 4 \in Int /\ y \div 100 \in Int /\ y \div 400 \in Int /\ y \in Int
    OBVIOUS
  <2>3. Leaps(y - 1) = Leaps(y) - leap /\ Leaps(y) \in Int
    BY <1>5, <1>6 DEF Leaps
  <2> QED
    BY <1>1, <1>2, <1>4, <1>6, <1>7, <2>1, <2>2, <2>3 DEF MarchDays, CivilDays
<1> QED
  BY <1>8, <1>9

(* No date the firmware tells is in January.                               *)
NoJanuary == 1 \notin Months

(* The time efi_gettime_wall makes of a date is the time since 1970.       *)
LEMMA WallTrue ==
  ASSUME NoJanuary, NEW e \in Clock!EfiTime
  PROVE  Clock!Wall(e) = Clock!UnixTime(e)
<1>1. PICK y \in Years, m \in Months, d \in Days, c \in TimesOfDay, z \in Zones :
        e = [Year |-> y, Month |-> m, Day |-> d, Hour |-> c[1], Minute |-> c[2],
             Second |-> c[3], TimeZone |-> z]
  BY DEF Clock!EfiTime
<1>2. /\ y \in 1970 .. 9999 /\ m \in 2 .. 12 /\ d \in Int
      /\ c[1] \in Int /\ c[2] \in Int /\ z \in Int
  <2>1. /\ Years \subseteq 1970 .. 9999 /\ Months \subseteq 1 .. 12 /\ Days \subseteq 1 .. 31
        /\ TimesOfDay \subseteq Nat \X Nat \X Nat /\ Zones \subseteq Int
    BY AlgorithmsAssumption DEF Clock!ClockAssumption
  <2>2. m \in 2 .. 12
    <3>1. m # 1
      BY DEF NoJanuary
    <3>2. m \in 1 .. 12
      BY <2>1
    <3> QED
      BY <3>1, <3>2
  <2>3. c \in Nat \X Nat \X Nat
    BY <2>1
  <2> QED
    BY <2>1, <2>2, <2>3
<1> DEFINE f == Clock!FromMarch(e)
<1>3. /\ f.Day = d /\ f.Hour = c[1] /\ f.Minute = c[2] /\ f.Second = c[3] /\ f.TimeZone = z
      /\ m > 2 => f.Year = y /\ f.Month = m - 2
      /\ m = 2 => f.Year = y - 1 /\ f.Month = 12
  <2>1. (m - 2) % 256 = m - 2
    BY <1>2
  <2>2. (y - 1) % 65536 = y - 1
    <3>1. PICK v : v = y - 1
      OBVIOUS
    <3>2. v \in Nat /\ v < 65536
      BY <1>2, <3>1
    <3>3. v % 65536 = v
      BY <3>2
    <3> QED
      BY <3>1, <3>3
  <2> QED
    BY <1>1, <1>2, <2>1, <2>2 DEF Clock!FromMarch
<1> DEFINE days == MarchDays(f.Year, f.Month, f.Day)
           true == CivilDays(y, m, d)
<1>4. Clock!Wall(e) = <<(days * 24 + f.Hour) * 60 + f.Minute
                          + IF f.TimeZone # UNSPECIFIED THEN f.TimeZone ELSE 0, f.Second>>
  BY DEF Clock!Wall, MarchDays
<1>5. Clock!UnixTime(e) = <<(true * 24 + c[1]) * 60 + c[2]
                              + IF z = UNSPECIFIED THEN 0 ELSE z, c[3]>>
  BY <1>1 DEF Clock!UnixTime, CivilDays
<1> HIDE DEF f
<1>6. days = true
  <2>1. y \in Nat /\ y >= 1970
    BY <1>2
  <2>2. PICK y2, m2 : y2 = f.Year /\ m2 = f.Month
    OBVIOUS
  <2>3. MarchDays(y2, m2, d) = CivilDays(y, m, d)
    BY <1>2, <1>3, <2>1, <2>2, DaysCounted
  <2> QED
    BY <1>3, <2>2, <2>3
<1> HIDE DEF days, true
<1> QED
  BY <1>3, <1>4, <1>5, <1>6

(* c/libc.h:52-54: the epoch is 1970-01-01 00:00:00 UTC, for every year and*)
(* zone and every month but January, over leap years and centuries.        *)
THEOREM ClocksTrue == NoJanuary => (Spec => []ClockTrue)
<1> SUFFICES ASSUME NoJanuary  PROVE Spec => []ClockTrue
  OBVIOUS
<1> DEFINE Inv == date \in Clock!EfiTime /\ Clock!ClockTrue
<1>1. Init => (part = "clock" => Inv)
  <2>1. Clock!Init => Inv
    BY DEF Clock!Init, Clock!ClockTrue
  <2> HIDE DEF Inv
  <2> QED
    BY <2>1 DEF Init
<1>2. ASSUME [Next]_vars, part = "clock" => Inv
      PROVE  (part = "clock" => Inv)'
  <2>1. part' = part /\ (part = "clock" => Clock!Next \/ UNCHANGED clockVars)
    BY <1>2, Separate
  <2>2. CASE part = "clock" /\ UNCHANGED clockVars
    BY <1>2, <2>1, <2>2 DEF clockVars, Clock!ClockTrue
  <2>3. CASE part = "clock" /\ Clock!Next
    <3>1. Clock!Wall(date) = Clock!UnixTime(date)
      <4>1. PICK e \in Clock!EfiTime : e = date
        BY <1>2, <2>3
      <4> QED
        BY <1>2, <4>1, WallTrue
    <3>2. /\ UNCHANGED date /\ fun' # "none"
          /\ told' \in {{}, {Clock!Wall(date)}}
          /\ failed' => fun' = "gettimeofday" \/ told' = {}
      BY <2>3 DEF Clock!Next, Clock!Time, Clock!ClockGettime, Clock!ClockUnsupported,
                  Clock!Gettimeofday, Clock!GetTimeFails, Clock!Returns
    <3> QED
      BY <1>2, <2>1, <2>3, <3>1, <3>2 DEF Clock!ClockTrue
  <2> QED
    BY <2>1, <2>2, <2>3
<1>3. (part = "clock" => Inv) => ClockTrue
  BY DEF ClockTrue
<1>4. (part = "clock" => Inv) /\ [Next]_vars => (part = "clock" => Inv)'
  BY <1>2
<1> QED
  BY <1>1, <1>3, <1>4, PTL DEF Spec
-----------------------------------------------------------------------------
(* strtok: the invariant says how far the string begun last is cut, and    *)
(* that the tokens returned are those that begin before.                   *)

(* The elements of P that 1, 2, ... are, up to n at most, come to an end.  *)
LEMMA RunEnds ==
  ASSUME NEW n \in Nat, NEW P
  PROVE  \E k \in 0 .. n : (\A j \in 1 .. k : j \in P) /\ (k < n => k + 1 \notin P)
<1> DEFINE T == {k \in 0 .. n : k = n \/ k + 1 \notin P}
<1>1. PICK k \in T : \A j \in T : k <= j
  <2>1. T \subseteq Nat /\ n \in T
    OBVIOUS
  <2> HIDE DEF T
  <2> QED
    BY <2>1, LeastNat
<1>2. ASSUME NEW j \in 1 .. k  PROVE j \in P
  <2>1. j - 1 \in 0 .. n /\ j - 1 # n /\ (j - 1) + 1 = j /\ ~(k <= j - 1)
    BY <1>1
  <2>2. j - 1 \notin T
    <3> HIDE DEF T
    <3> QED
      BY <1>1, <2>1
  <2> QED
    BY <2>1, <2>2
<1> QED
  BY <1>1, <1>2

(* What strspn returns, and strpbrk or the length.                         *)
Spanned(s, n) ==
  /\ n \in 0 .. Len(s) /\ \A k \in 1 .. n : s[k] \in Delims
  /\ n < Len(s) => s[n + 1] \notin Delims
Broken(s, n) ==
  /\ n \in 0 .. Len(s) /\ \A k \in 1 .. n : s[k] \notin Delims
  /\ n < Len(s) => s[n + 1] \in Delims

(* strspn counts all delimiters a string begins with.                      *)
LEMMA StrspnIs ==
  ASSUME NEW S, NEW s \in Seq(S)
  PROVE  Spanned(s, Strtok!Strspn(s))
<1>1. \E n \in 0 .. Len(s) : /\ \A k \in 1 .. n : s[k] \in Delims
                             /\ n < Len(s) => s[n + 1] \notin Delims
  <2> DEFINE P == {k \in 1 .. Len(s) : s[k] \in Delims}
  <2>1. PICK n \in 0 .. Len(s) : (\A k \in 1 .. n : k \in P) /\ (n < Len(s) => n + 1 \notin P)
    <3> HIDE DEF P
    <3>1. Len(s) \in Nat
      OBVIOUS
    <3> QED
      BY <3>1, RunEnds
  <2>2. n < Len(s) => n + 1 \in 1 .. Len(s)
    OBVIOUS
  <2> QED
    BY <2>1, <2>2
<1> QED
  BY <1>1 DEF Strtok!Strspn, Spanned

(* strpbrk stops at the first delimiter.                                   *)
LEMMA BeforeDelimIs ==
  ASSUME NEW S, NEW s \in Seq(S)
  PROVE  Broken(s, Strtok!BeforeDelim(s))
<1>1. \E n \in 0 .. Len(s) : /\ \A k \in 1 .. n : s[k] \notin Delims
                             /\ n < Len(s) => s[n + 1] \in Delims
  <2> DEFINE P == {k \in 1 .. Len(s) : s[k] \notin Delims}
  <2>1. PICK n \in 0 .. Len(s) : (\A k \in 1 .. n : k \in P) /\ (n < Len(s) => n + 1 \notin P)
    <3> HIDE DEF P
    <3>1. Len(s) \in Nat
      OBVIOUS
    <3> QED
      BY <3>1, RunEnds
  <2>2. n < Len(s) => n + 1 \in 1 .. Len(s)
    OBVIOUS
  <2> QED
    BY <2>1, <2>2
<1> QED
  BY <1>1 DEF Strtok!BeforeDelim, Broken

(* The characters of the strings, and those with the NUL behind them.      *)
Letters == (UNION {{s[k] : k \in DOMAIN s} : s \in Texts}) \ {NUL}
Cells == Letters \cup {NUL}

(* The string m was t when it was begun, ends where t did, and has been    *)
(* cut at delimiters before position p, where the next token is looked for.*)
Cut(m, t, p) ==
  /\ m \in Seq(Cells) /\ t \in Seq(Letters) /\ p \in 1 .. (Len(t) + 1)
  /\ Len(t) < Len(m) /\ m[Len(m)] = NUL /\ m[Len(t) + 1] = NUL
  /\ \A k \in 1 .. Len(t) : m[k] = t[k] \/ (m[k] = NUL /\ t[k] \in Delims)
  /\ \A k \in p .. Len(t) : m[k] = t[k]
  /\ p = 1 \/ p = Len(t) + 1 \/ t[p - 1] \in Delims

(* A is the text t from position q on.                                     *)
Remains(A, t, q) ==
  /\ A = SubSeq(t, q, Len(t)) /\ A \in Seq(Letters) /\ Len(A) = (Len(t) - q) + 1
  /\ \A k \in 1 .. ((Len(t) - q) + 1) : A[k] = t[(q + k) - 1]

(* What is read from a position that is not yet cut is the text from there.*)
LEMMA AtIs ==
  ASSUME NEW m, NEW t, NEW p, Cut(m, t, p), NEW q \in p .. (Len(t) + 1)
  PROVE  Remains(Strtok!At(m, q), t, q)
<1> DEFINE E(k) == k \in q .. Len(m) /\ m[k] = NUL /\ \A j \in q .. (k - 1) : m[j] # NUL
           end == CHOOSE k \in q .. Len(m) : m[k] = NUL /\ \A j \in q .. (k - 1) : m[j] # NUL
<1>0. /\ m \in Seq(Cells) /\ t \in Seq(Letters) /\ Len(t) \in Nat /\ Len(m) \in Nat
      /\ q \in 1 .. (Len(t) + 1) /\ Len(t) < Len(m) /\ m[Len(t) + 1] = NUL
  BY DEF Cut
<1>1. ASSUME NEW k \in q .. Len(t)
      PROVE  m[k] = t[k] /\ m[k] \in Letters /\ m[k] # NUL
  <2>1. k \in p .. Len(t) /\ k \in 1 .. Len(t)
    BY DEF Cut
  <2>2. t[k] \in Letters
    BY <1>0, <2>1
  <2>3. m[k] = t[k]
    BY <2>1 DEF Cut
  <2>4. NUL \notin Letters
    BY DEF Letters
  <2> QED
    BY <2>2, <2>3, <2>4
<1>2. E(Len(t) + 1)
  BY <1>0, <1>1
<1>3. E(end)
  BY <1>2
<1>4. end = Len(t) + 1
  <2> HIDE DEF end
  <2>1. ~(end < Len(t) + 1)
    BY <1>0, <1>1, <1>3
  <2>2. ~(Len(t) + 1 < end)
    BY <1>0, <1>3
  <2> QED
    BY <1>0, <1>3, <2>1, <2>2
<1>5. Strtok!At(m, q) = SubSeq(m, q, Len(t))
  <2>1. Strtok!At(m, q) = SubSeq(m, q, end - 1)
    BY DEF Strtok!At
  <2> HIDE DEF end
  <2> QED
    BY <1>0, <1>4, <2>1
<1>6. PICK l : l = Len(t)
  OBVIOUS
<1>7. /\ SubSeq(m, q, l) \in Seq(Letters) /\ Len(SubSeq(m, q, l)) = (l - q) + 1
      /\ \A k \in 1 .. ((l - q) + 1) : SubSeq(m, q, l)[k] = m[(q + k) - 1]
  <2>1. q \in Int /\ l \in Int /\ (q <= l \/ (l - q) + 1 = 0) /\ (l - q) + 1 \in Nat
    BY <1>0, <1>6
  <2>2. \A k \in q .. l : m[k] \in Letters
    BY <1>1, <1>6
  <2>3. /\ SubSeq(m, q, l) \in Seq(Letters)
        /\ Len(SubSeq(m, q, l)) = IF q <= l THEN (l - q) + 1 ELSE 0
        /\ \A k \in 1 .. ((l - q) + 1) : SubSeq(m, q, l)[k] = m[(q + k) - 1]
    BY <2>1, <2>2, SubSeqProperties
  <2> QED
    BY <2>1, <2>3
<1>8. /\ SubSeq(t, q, l) \in Seq(Letters) /\ Len(SubSeq(t, q, l)) = (l - q) + 1
      /\ \A k \in 1 .. ((l - q) + 1) : SubSeq(t, q, l)[k] = t[(q + k) - 1]
  <2>1. q \in Int /\ l \in Int /\ (q <= l \/ (l - q) + 1 = 0) /\ (l - q) + 1 \in Nat
    BY <1>0, <1>6
  <2>2. \A k \in q .. l : t[k] \in Letters
    BY <1>0, <1>1, <1>6
  <2>3. /\ SubSeq(t, q, l) \in Seq(Letters)
        /\ Len(SubSeq(t, q, l)) = IF q <= l THEN (l - q) + 1 ELSE 0
        /\ \A k \in 1 .. ((l - q) + 1) : SubSeq(t, q, l)[k] = t[(q + k) - 1]
    BY <2>1, <2>2, SubSeqProperties
  <2> QED
    BY <2>1, <2>3
<1>9. \A k \in 1 .. ((l - q) + 1) : m[(q + k) - 1] = t[(q + k) - 1]
  <2>1. \A k \in 1 .. ((l - q) + 1) : (q + k) - 1 \in q .. l
    BY <1>0, <1>6
  <2> QED
    BY <1>1, <1>6, <2>1
<1>10. SubSeq(m, q, l) = SubSeq(t, q, l)
  BY <1>7, <1>8, <1>9
<1> QED
  BY <1>5, <1>6, <1>8, <1>10 DEF Remains

(* The first characters of tokens before position p, and up to k.          *)
Below(t, p) == {k \in Strtok!Starts(t) : k < p}
Upto(t, k) == {j \in Strtok!Starts(t) : j <= k}

(* Starts are positions.                                                   *)
LEMMA StartsIn ==
  ASSUME NEW t
  PROVE  Strtok!Starts(t) \subseteq 1 .. Len(t)
BY DEF Strtok!Starts

(* There are finitely many of them.                                        *)
LEMMA StartsFinite ==
  ASSUME NEW t \in Seq(Letters), NEW p
  PROVE  /\ IsFiniteSet(Strtok!Starts(t))
         /\ IsFiniteSet(Below(t, p)) /\ Cardinality(Below(t, p)) \in Nat
         /\ IsFiniteSet(Upto(t, p)) /\ Cardinality(Upto(t, p)) \in Nat
<1>1. Strtok!Starts(t) \subseteq 1 .. Len(t)
  BY StartsIn
<1>2. IsFiniteSet(Strtok!Starts(t))
  <2>1. IsFiniteSet(1 .. Len(t))
    <3>1. Len(t) \in Nat
      OBVIOUS
    <3> QED
      BY <3>1, FS_Interval
  <2> QED
    BY <1>1, <2>1, FS_Subset
<1>3. Below(t, p) \in SUBSET Strtok!Starts(t) /\ Upto(t, p) \in SUBSET Strtok!Starts(t)
  BY DEF Below, Upto
<1>4. IsFiniteSet(Below(t, p)) /\ IsFiniteSet(Upto(t, p))
  BY <1>2, <1>3, FS_Subset
<1> QED
  BY <1>1, <1>2, <1>4, FS_CardinalityType

(* From p on, the next token begins at q, or there is none.                *)
NextStart(t, p, q) ==
  /\ q \in p .. (Len(t) + 1) /\ Below(t, q) = Below(t, p)
  /\ q <= Len(t) => q \in Strtok!Starts(t)

(* Where the delimiters end the next token begins.                         *)
LEMMA StartFound ==
  ASSUME NEW m, NEW t, NEW p, Cut(m, t, p),
         NEW q, q = p + Strtok!Strspn(Strtok!At(m, p))
  PROVE  NextStart(t, p, q)
<1>1. t \in Seq(Letters) /\ Len(t) \in Nat /\ p \in 1 .. (Len(t) + 1)
  BY DEF Cut
<1>2. PICK A, n : A = Strtok!At(m, p) /\ n = Strtok!Strspn(A)
  OBVIOUS
<1>3. /\ A \in Seq(Letters) /\ Len(A) = (Len(t) - p) + 1
      /\ \A k \in 1 .. ((Len(t) - p) + 1) : A[k] = t[(p + k) - 1]
  <2>1. p \in p .. (Len(t) + 1)
    BY <1>1
  <2>2. Remains(A, t, p)
    BY <1>2, <2>1, AtIs
  <2> QED
    BY <2>2 DEF Remains
<1>4. /\ n \in 0 .. Len(A) /\ \A k \in 1 .. n : A[k] \in Delims
      /\ n < Len(A) => A[n + 1] \notin Delims
  <2>1. Spanned(A, n)
    BY <1>2, <1>3, StrspnIs
  <2> QED
    BY <2>1 DEF Spanned
<1>5. q = p + n /\ q \in p .. (Len(t) + 1)
  BY <1>1, <1>2, <1>3, <1>4
<1>6. ASSUME NEW j \in p .. (q - 1)  PROVE t[j] \in Delims
  <2>1. /\ (j - p) + 1 \in 1 .. n /\ (j - p) + 1 \in 1 .. ((Len(t) - p) + 1)
        /\ (p + ((j - p) + 1)) - 1 = j
    BY <1>1, <1>3, <1>4, <1>5
  <2>2. A[(j - p) + 1] = t[(p + ((j - p) + 1)) - 1]
    BY <1>3, <2>1
  <2> QED
    BY <1>4, <2>1, <2>2
<1>7. Below(t, q) = Below(t, p)
  <2>1. \A j \in p .. (q - 1) : j \notin Strtok!Starts(t)
    BY <1>6 DEF Strtok!Starts
  <2>2. \A j \in Strtok!Starts(t) : j \in Int
    <3>1. Strtok!Starts(t) \subseteq 1 .. Len(t)
      BY StartsIn
    <3> QED
      BY <1>1, <3>1
  <2>3. \A j \in Strtok!Starts(t) : j < q <=> j < p
    BY <1>1, <1>5, <2>1, <2>2
  <2> QED
    BY <2>3 DEF Below
<1>8. ASSUME q <= Len(t)  PROVE q \in Strtok!Starts(t)
  <2>1. t[q] \notin Delims
    <3>1. n < Len(A) /\ n + 1 \in 1 .. ((Len(t) - p) + 1) /\ (p + (n + 1)) - 1 = q
      BY <1>1, <1>3, <1>4, <1>5, <1>8
    <3>2. A[n + 1] = t[(p + (n + 1)) - 1]
      BY <1>3, <3>1
    <3> QED
      BY <1>4, <3>1, <3>2
  <2>2. q = 1 \/ t[q - 1] \in Delims
    <3>1. CASE n = 0
      BY <1>1, <1>5, <1>8, <3>1 DEF Cut
    <3>2. CASE n # 0
      <4>1. q - 1 \in p .. (q - 1)
        BY <1>1, <1>4, <1>5, <3>2
      <4> QED
        BY <1>6, <4>1
    <3> QED
      BY <3>1, <3>2
  <2>3. q \in 1 .. Len(t)
    BY <1>1, <1>5, <1>8
  <2> QED
    BY <2>1, <2>2, <2>3 DEF Strtok!Starts
<1> QED
  BY <1>5, <1>7, <1>8 DEF NextStart

(* What strtok_r does to the token that begins at q.                       *)
Taken(m, q, token, end, m2, p2) ==
  /\ token = SubSeq(Strtok!At(m, q), 1, Strtok!BeforeDelim(Strtok!At(m, q)))
  /\ end = q + Len(token) /\ m2 = [m EXCEPT ![end] = NUL]
  /\ p2 = IF m[end] = NUL THEN end ELSE end + 1

(* m2 is m with the token that begins at q cut off, and p2 where to go on. *)
TokenCut(t, p, q, token, m2, p2) ==
  /\ Cut(m2, t, p2) /\ token = Strtok!TokenAt(t, q) /\ token \in Seq(Letters)
  /\ Below(t, p2) = Below(t, p) \cup {q}

(* The token reaches to the next delimiter or the end.                     *)
LEMMA CutOff ==
  ASSUME NEW m, NEW t, NEW p, Cut(m, t, p), NEW q, NextStart(t, p, q), m[q] # NUL,
         NEW token, NEW end, NEW m2, NEW p2, Taken(m, q, token, end, m2, p2)
  PROVE  TokenCut(t, p, q, token, m2, p2)
<1>1. /\ m \in Seq(Cells) /\ t \in Seq(Letters) /\ p \in 1 .. (Len(t) + 1)
      /\ Len(t) \in Nat /\ Len(m) \in Nat /\ Len(t) < Len(m)
      /\ m[Len(m)] = NUL /\ m[Len(t) + 1] = NUL
  BY DEF Cut
<1>2. q \in p .. (Len(t) + 1) /\ q \in 1 .. Len(t) /\ q \in Strtok!Starts(t)
  BY <1>1 DEF NextStart
<1>3. PICK A, b : A = Strtok!At(m, q) /\ b = Strtok!BeforeDelim(A)
  OBVIOUS
<1>4. /\ A \in Seq(Letters) /\ Len(A) = (Len(t) - q) + 1 /\ A = SubSeq(t, q, Len(t))
      /\ \A k \in 1 .. ((Len(t) - q) + 1) : A[k] = t[(q + k) - 1]
  <2>1. Remains(A, t, q)
    BY <1>2, <1>3, AtIs
  <2> QED
    BY <2>1 DEF Remains
<1>5. /\ b \in 0 .. Len(A) /\ \A k \in 1 .. b : A[k] \notin Delims
      /\ b < Len(A) => A[b + 1] \in Delims
  <2>1. Broken(A, b)
    BY <1>3, <1>4, BeforeDelimIs
  <2> QED
    BY <2>1 DEF Broken
<1>6. b >= 1
  <2>1. t[q] \notin Delims
    BY <1>2 DEF Strtok!Starts
  <2>2. 1 \in 1 .. ((Len(t) - q) + 1) /\ (q + 1) - 1 = q
    BY <1>1, <1>2
  <2>3. A[1] = t[q]
    BY <1>4, <2>2
  <2> QED
    BY <1>4, <1>5, <2>1, <2>2, <2>3
<1>7. /\ token \in Seq(Letters) /\ Len(token) = b
      /\ \A k \in 1 .. b : token[k] = t[(q + k) - 1]
  <2>1. 1 \in Int /\ b \in Int /\ \A k \in 1 .. b : A[k] \in Letters
    <3>1. \A k \in 1 .. Len(A) : A[k] \in Letters
      BY <1>4
    <3> QED
      BY <1>5, <3>1
  <2>2. /\ SubSeq(A, 1, b) \in Seq(Letters)
        /\ Len(SubSeq(A, 1, b)) = IF 1 <= b THEN (b - 1) + 1 ELSE 0
        /\ \A k \in 1 .. ((b - 1) + 1) : SubSeq(A, 1, b)[k] = A[(1 + k) - 1]
    BY <2>1, SubSeqProperties
  <2>3. token = SubSeq(A, 1, b)
    BY <1>3 DEF Taken
  <2>4. ASSUME NEW k \in 1 .. b  PROVE token[k] = t[(q + k) - 1]
    <3>1. (1 + k) - 1 = k /\ k \in 1 .. ((Len(t) - q) + 1) /\ k \in 1 .. ((b - 1) + 1)
      BY <1>4, <1>5
    <3>2. token[k] = A[k]
      BY <2>2, <2>3, <3>1
    <3> QED
      BY <1>4, <3>1, <3>2
  <2>5. (b - 1) + 1 = b
    BY <1>5
  <2> QED
    BY <1>6, <2>2, <2>3, <2>4, <2>5
<1>8. end = q + b /\ end \in (q + 1) .. (Len(t) + 1)
  <2>1. end = q + b
    BY <1>7 DEF Taken
  <2> QED
    BY <1>1, <1>2, <1>4, <1>5, <1>6, <2>1
<1>9. ASSUME NEW j \in q .. (end - 1)  PROVE j \in 1 .. Len(t) /\ t[j] \notin Delims
  <2>1. /\ (j - q) + 1 \in 1 .. b /\ (j - q) + 1 \in 1 .. ((Len(t) - q) + 1)
        /\ (q + ((j - q) + 1)) - 1 = j /\ j \in 1 .. Len(t)
    BY <1>1, <1>2, <1>4, <1>5, <1>8
  <2>2. A[(j - q) + 1] = t[(q + ((j - q) + 1)) - 1]
    BY <1>4, <2>1
  <2> QED
    BY <1>5, <2>1, <2>2
<1>10. token = Strtok!TokenAt(t, q)
  <2>1. PICK z : z = (q + b) - 1
    OBVIOUS
  <2>2. Strtok!TokenAt(t, q) = SubSeq(t, q, z)
    <3>1. b = Strtok!BeforeDelim(SubSeq(t, q, Len(t)))
      BY <1>3, <1>4
    <3>2. z = q + (Strtok!BeforeDelim(SubSeq(t, q, Len(t))) - 1)
      <4>1. z = q + (b - 1)
        BY <1>2, <1>5, <2>1
      <4> QED
        BY <3>1, <4>1
    <3> QED
      BY <3>2, Zenon DEF Strtok!TokenAt
  <2>3. q \in Int /\ z \in Int /\ q <= z /\ (z - q) + 1 = b
    BY <1>2, <1>5, <1>6, <2>1
  <2>4. \A k \in q .. z : t[k] \in Letters
    <3>1. \A k \in q .. z : k \in 1 .. Len(t)
      BY <1>1, <1>2, <1>8, <2>1
    <3> QED
      BY <1>1, <3>1
  <2>5. /\ SubSeq(t, q, z) \in Seq(Letters)
        /\ Len(SubSeq(t, q, z)) = IF q <= z THEN (z - q) + 1 ELSE 0
        /\ \A k \in 1 .. ((z - q) + 1) : SubSeq(t, q, z)[k] = t[(q + k) - 1]
    BY <2>3, <2>4, SubSeqProperties
  <2> QED
    BY <1>7, <2>2, <2>3, <2>5
<1>11. /\ end <= Len(t) => t[end] \in Delims /\ p2 = end + 1
       /\ end = Len(t) + 1 => p2 = end
  <2>1. ASSUME end <= Len(t)  PROVE t[end] \in Delims /\ p2 = end + 1
    <3>1. b < Len(A) /\ b + 1 \in 1 .. ((Len(t) - q) + 1) /\ (q + (b + 1)) - 1 = end
      BY <1>1, <1>2, <1>4, <1>5, <1>8, <2>1
    <3>2. A[b + 1] = t[(q + (b + 1)) - 1]
      BY <1>4, <3>1
    <3>3. m[end] = t[end]
      <4>1. end \in p .. Len(t)
        BY <1>1, <1>2, <1>8, <2>1
      <4> QED
        BY <4>1 DEF Cut
    <3>4. t[end] # NUL
      <4>1. NUL \notin Delims
        BY AlgorithmsAssumption DEF Strtok!StrtokAssumption
      <4> QED
        BY <1>5, <3>1, <3>2, <4>1
    <3> QED
      BY <1>5, <3>1, <3>2, <3>3, <3>4 DEF Taken
  <2>2. end = Len(t) + 1 => p2 = end
    BY <1>1 DEF Taken
  <2> QED
    BY <2>1, <2>2
<1>12. /\ p2 \in (q + 1) .. (Len(t) + 1) /\ p2 \in end .. (end + 1)
       /\ p2 = Len(t) + 1 \/ (p2 = end + 1 /\ t[end] \in Delims)
  BY <1>1, <1>2, <1>8, <1>11
<1>13. Below(t, p2) = Below(t, p) \cup {q}
  <2>1. \A j \in (q + 1) .. (p2 - 1) : j \notin Strtok!Starts(t)
    <3>1. ASSUME NEW j \in (q + 1) .. (p2 - 1)  PROVE j \notin Strtok!Starts(t)
      <4>1. CASE j < end
        <5>1. t[j - 1] \notin Delims /\ j # 1
          <6>1. j - 1 \in q .. (end - 1) /\ j # 1
            BY <1>2, <1>8, <3>1, <4>1
          <6> QED
            BY <1>9, <6>1
        <5> QED
          BY <5>1 DEF Strtok!Starts
      <4>2. CASE ~(j < end)
        <5>1. j = end /\ p2 = end + 1
          BY <1>2, <1>8, <1>12, <3>1, <4>2
        <5>2. t[j] \in Delims \/ j = Len(t) + 1
          BY <1>8, <1>11, <5>1
        <5> QED
          BY <1>1, <5>2 DEF Strtok!Starts
      <4> QED
        BY <4>1, <4>2
    <3> QED
      BY <3>1
  <2>2. \A j \in Strtok!Starts(t) : j \in Int
    <3>1. Strtok!Starts(t) \subseteq 1 .. Len(t)
      BY StartsIn
    <3> QED
      BY <1>1, <3>1
  <2>3. ASSUME NEW j \in Strtok!Starts(t)  PROVE j < p2 <=> j < q \/ j = q
    <3>1. j \in Int /\ q \in Int /\ p2 \in Int /\ q < p2
      BY <1>2, <1>12, <2>2
    <3>2. j \notin (q + 1) .. (p2 - 1)
      BY <2>1
    <3> QED
      BY <3>1, <3>2
  <2>4. Below(t, q) = Below(t, p)
    BY DEF NextStart
  <2> QED
    BY <1>2, <2>3, <2>4 DEF Below
<1>14. Cut(m2, t, p2)
  <2>1. end \in 1 .. Len(m) /\ NUL \in Cells
    BY <1>1, <1>2, <1>8 DEF Cells
  <2>2. m2 \in Seq(Cells) /\ Len(m2) = Len(m) /\ m2[end] = NUL
        /\ \A k \in 1 .. Len(m) : k # end => m2[k] = m[k]
    <3>1. m2 = [m EXCEPT ![end] = NUL]
      BY DEF Taken
    <3>2. m2 \in Seq(Cells) /\ Len(m2) = Len(m)
      BY <1>1, <2>1, <3>1, ExceptSeq
    <3>3. m2[end] = NUL /\ \A k \in 1 .. Len(m) : k # end => m2[k] = m[k]
      BY <1>1, <2>1, <3>1
    <3> QED
      BY <3>2, <3>3
  <2>3. m2[Len(m2)] = NUL /\ m2[Len(t) + 1] = NUL
    BY <1>1, <2>1, <2>2
  <2>4. ASSUME NEW k \in 1 .. Len(t)
        PROVE  m2[k] = t[k] \/ (m2[k] = NUL /\ t[k] \in Delims)
    <3>1. CASE k = end
      BY <1>11, <2>2, <3>1
    <3>2. CASE k # end
      <4>1. m2[k] = m[k]
        BY <1>1, <2>2, <3>2
      <4> QED
        BY <4>1 DEF Cut
    <3> QED
      BY <3>1, <3>2
  <2>5. ASSUME NEW k \in p2 .. Len(t)  PROVE m2[k] = t[k]
    <3>1. k # end /\ k \in p .. Len(t) /\ k \in 1 .. Len(m)
      BY <1>1, <1>2, <1>8, <1>11, <1>12
    <3> QED
      BY <2>2, <3>1 DEF Cut
  <2>6. p2 \in 1 .. (Len(t) + 1) /\ (p2 = 1 \/ p2 = Len(t) + 1 \/ t[p2 - 1] \in Delims)
    <3>1. (end + 1) - 1 = end /\ p2 \in 1 .. (Len(t) + 1)
      BY <1>2, <1>8, <1>12
    <3> QED
      BY <1>12, <3>1
  <2> QED
    BY <1>1, <2>2, <2>3, <2>4, <2>5, <2>6 DEF Cut
<1> QED
  BY <1>7, <1>10, <1>13, <1>14 DEF TokenCut

(* tk is the tokens of t that begin before p.                              *)
Told(tk, t, p) ==
  /\ tk \in Seq(Seq(Letters)) /\ Len(tk) = Cardinality(Below(t, p))
  /\ \A i \in 1 .. Len(tk) :
       \E k \in Below(t, p) : Cardinality(Upto(t, k)) = i /\ tk[i] = Strtok!TokenAt(t, k)

(* A token that is cut off is told.                                        *)
LEMMA ToldMore ==
  ASSUME NEW t \in Seq(Letters), NEW p, NEW q, NextStart(t, p, q), q <= Len(t),
         NEW token, NEW m2, NEW p2, TokenCut(t, p, q, token, m2, p2),
         NEW tk, Told(tk, t, p), NEW tk2, tk2 = Append(tk, token)
  PROVE  Told(tk2, t, p2)
<1>1. /\ q \in Strtok!Starts(t) /\ Below(t, q) = Below(t, p)
  BY DEF NextStart
<1>2. PICK n, B : n = Len(tk) /\ B = Below(t, p)
  OBVIOUS
<1>3. /\ tk \in Seq(Seq(Letters)) /\ n \in Nat /\ n = Cardinality(B) /\ IsFiniteSet(B)
      /\ token \in Seq(Letters) /\ token = Strtok!TokenAt(t, q)
      /\ Below(t, p2) = B \cup {q}
  <2>1. tk \in Seq(Seq(Letters)) /\ n = Cardinality(B)
    BY <1>2 DEF Told
  <2>2. IsFiniteSet(B)
    BY <1>2, StartsFinite
  <2>3. /\ token \in Seq(Letters) /\ token = Strtok!TokenAt(t, q)
        /\ Below(t, p2) = B \cup {q}
    BY <1>2 DEF TokenCut
  <2>4. n \in Nat
    BY <1>2, <2>1, LenProperties
  <2> QED
    BY <2>1, <2>2, <2>3, <2>4
<1>4. /\ tk2 \in Seq(Seq(Letters)) /\ Len(tk2) = n + 1 /\ tk2[n + 1] = token
      /\ \A i \in 1 .. n : tk2[i] = tk[i]
  <2> DEFINE S == Seq(Letters)
  <2>1. tk \in Seq(S) /\ token \in S /\ tk2 = Append(tk, token) /\ n = Len(tk)
    BY <1>2, <1>3
  <2> HIDE DEF S
  <2>2. /\ tk2 \in Seq(S) /\ Len(tk2) = n + 1 /\ tk2[n + 1] = token
        /\ \A i \in 1 .. n : tk2[i] = tk[i]
    BY <2>1
  <2> QED
    BY <2>2 DEF S
<1>5. q \notin B /\ Upto(t, q) = B \cup {q}
  <2>1. q \in Int /\ \A j \in Strtok!Starts(t) : j \in Int
    <3>1. Strtok!Starts(t) \subseteq 1 .. Len(t)
      BY StartsIn
    <3> QED
      BY <1>1, <3>1
  <2>2. B = {j \in Strtok!Starts(t) : j < q}
    BY <1>1, <1>2 DEF Below
  <2>3. \A j \in Strtok!Starts(t) : j <= q <=> j < q \/ j = q
    BY <2>1
  <2>4. \A j : j \in Upto(t, q) <=> j \in B \cup {q}
    BY <1>1, <2>1, <2>2, <2>3 DEF Upto
  <2>5. q \notin B
    BY <2>1, <2>2
  <2> QED
    BY <2>4, <2>5
<1>6. Cardinality(B \cup {q}) = n + 1
  BY <1>3, <1>5, FS_AddElement
<1>7. ASSUME NEW i \in 1 .. (n + 1)
      PROVE  \E k \in B \cup {q} : Cardinality(Upto(t, k)) = i /\ tk2[i] = Strtok!TokenAt(t, k)
  <2>1. CASE i = n + 1
    BY <1>3, <1>4, <1>5, <1>6, <2>1
  <2>2. CASE i # n + 1
    <3>1. i \in 1 .. n
      BY <1>3, <2>2
    <3>2. \E k \in B : Cardinality(Upto(t, k)) = i /\ tk[i] = Strtok!TokenAt(t, k)
      BY <1>2, <3>1 DEF Told
    <3> QED
      BY <1>4, <3>1, <3>2
  <2> QED
    BY <2>1, <2>2
<1> QED
  BY <1>3, <1>4, <1>6, <1>7 DEF Told

(* No two tokens are the i-th.                                             *)
LEMMA PlaceUnique ==
  ASSUME NEW t \in Seq(Letters), NEW j \in Strtok!Starts(t), NEW k \in Strtok!Starts(t),
         Cardinality(Upto(t, j)) = Cardinality(Upto(t, k))
  PROVE  j = k
<1>1. ASSUME NEW a \in Strtok!Starts(t), NEW b \in Strtok!Starts(t), a < b,
             Cardinality(Upto(t, a)) = Cardinality(Upto(t, b))
      PROVE  FALSE
  <2>1. a \in Int /\ b \in Int /\ \A l \in Strtok!Starts(t) : l \in Int
    <3>1. Strtok!Starts(t) \subseteq 1 .. Len(t) /\ Len(t) \in Nat
      BY StartsIn
    <3> QED
      BY <3>1
  <2>2. Upto(t, a) \in SUBSET Upto(t, b)
    <3>1. \A l \in Strtok!Starts(t) : l <= a => l <= b
      BY <1>1, <2>1
    <3> QED
      BY <3>1 DEF Upto
  <2>3. b \in Upto(t, b) /\ b \notin Upto(t, a)
    BY <1>1, <2>1 DEF Upto
  <2>4. IsFiniteSet(Upto(t, b))
    BY StartsFinite
  <2>5. Upto(t, b) = Upto(t, a)
    BY <1>1, <2>2, <2>4, FS_Subset
  <2> QED
    BY <2>3, <2>5
<1>2. j \in Int /\ k \in Int
  <2>1. Strtok!Starts(t) \subseteq 1 .. Len(t)
    BY StartsIn
  <2> QED
    BY <2>1
<1>3. j < k \/ k < j \/ j = k
  BY <1>2
<1> QED
  BY <1>1, <1>3

(* The tokens told are the first of t, and all when p is the end.          *)
LEMMA ToldInOrder ==
  ASSUME NEW t \in Seq(Letters), NEW p, NEW tk, Told(tk, t, p)
  PROVE  /\ Strtok!IsPrefix(tk, Strtok!Tokens(t))
         /\ p = Len(t) + 1 => tk = Strtok!Tokens(t)
<1>1. PICK n, c, all : /\ n = Len(tk) /\ c = Cardinality(Strtok!Starts(t))
                       /\ all = Strtok!Tokens(t)
  OBVIOUS
<1>2. /\ tk \in Seq(Seq(Letters)) /\ n \in Nat /\ c \in Nat /\ n <= c
      /\ p = Len(t) + 1 => n = c
  <2>1. tk \in Seq(Seq(Letters)) /\ n = Cardinality(Below(t, p))
    BY <1>1 DEF Told
  <2>2. Below(t, p) \in SUBSET Strtok!Starts(t)
    BY DEF Below
  <2>3. IsFiniteSet(Strtok!Starts(t))
    BY StartsFinite
  <2>4. c \in Nat
    BY <1>1, <2>3, FS_CardinalityType
  <2>5. n <= c
    BY <1>1, <2>1, <2>2, <2>3, FS_Subset
  <2>6. ASSUME p = Len(t) + 1  PROVE n = c
    <3>1. Strtok!Starts(t) \subseteq 1 .. Len(t) /\ Len(t) \in Nat
      BY StartsIn
    <3>2. Below(t, p) = Strtok!Starts(t)
      BY <2>6, <3>1 DEF Below
    <3> QED
      BY <1>1, <2>1, <3>2
  <2> QED
    <3>1. n \in Nat
      BY <1>1, <2>1, LenProperties
    <3> QED
      BY <2>1, <2>4, <2>5, <2>6, <3>1
<1>3. all = [i \in 1 .. c |-> Strtok!TokenAt(t, CHOOSE k \in Strtok!Starts(t) :
                                                    Cardinality(Upto(t, k)) = i)]
  BY <1>1, Zenon DEF Strtok!Tokens, Upto, Strtok!Cardinality, Cardinality
<1>4. ASSUME NEW i \in 1 .. n  PROVE all[i] = tk[i]
  <2>1. PICK k \in Below(t, p) : Cardinality(Upto(t, k)) = i /\ tk[i] = Strtok!TokenAt(t, k)
    BY <1>1 DEF Told
  <2>2. k \in Strtok!Starts(t)
    BY DEF Below
  <2>3. PICK l : l = CHOOSE j \in Strtok!Starts(t) : Cardinality(Upto(t, j)) = i
    OBVIOUS
  <2>4. l \in Strtok!Starts(t) /\ Cardinality(Upto(t, l)) = i
    BY <2>1, <2>2, <2>3
  <2>5. l = k
    BY <2>1, <2>2, <2>4, PlaceUnique
  <2>6. i \in 1 .. c
    BY <1>2
  <2>7. all[i] = Strtok!TokenAt(t, l)
    BY <1>3, <2>3, <2>6
  <2> QED
    BY <2>1, <2>5, <2>7
<1>5. Len(all) = c
  BY <1>2, <1>3
<1>6. SubSeq(tk, 1, n) = SubSeq(all, 1, n)
  <2>1. 1 \in Int /\ n \in Int /\ \A i \in 1 .. n : tk[i] \in Seq(Letters)
    BY <1>1, <1>2
  <2>2. \A i \in 1 .. n : all[i] \in Seq(Letters)
    BY <1>4, <2>1
  <2>3. /\ SubSeq(tk, 1, n) \in Seq(Seq(Letters))
        /\ Len(SubSeq(tk, 1, n)) = IF 1 <= n THEN (n - 1) + 1 ELSE 0
        /\ \A i \in 1 .. ((n - 1) + 1) : SubSeq(tk, 1, n)[i] = tk[(1 + i) - 1]
    BY <2>1, SubSeqProperties
  <2>4. /\ SubSeq(all, 1, n) \in Seq(Seq(Letters))
        /\ Len(SubSeq(all, 1, n)) = IF 1 <= n THEN (n - 1) + 1 ELSE 0
        /\ \A i \in 1 .. ((n - 1) + 1) : SubSeq(all, 1, n)[i] = all[(1 + i) - 1]
    BY <2>1, <2>2, SubSeqProperties
  <2>5. (n - 1) + 1 = n
    BY <1>2
  <2>6. ASSUME NEW i \in 1 .. n  PROVE SubSeq(tk, 1, n)[i] = SubSeq(all, 1, n)[i]
    <3>1. (1 + i) - 1 = i
      OBVIOUS
    <3>2. SubSeq(tk, 1, n)[i] = tk[i] /\ SubSeq(all, 1, n)[i] = all[i]
      BY <2>3, <2>4, <2>5, <3>1
    <3> QED
      BY <1>4, <3>2
  <2>7. Len(SubSeq(tk, 1, n)) = n /\ Len(SubSeq(all, 1, n)) = n
    BY <1>2, <2>3, <2>4
  <2>8. PICK x, y : x = SubSeq(tk, 1, n) /\ y = SubSeq(all, 1, n)
    OBVIOUS
  <2>9. x \in Seq(Seq(Letters)) /\ y \in Seq(Seq(Letters)) /\ Len(x) = n /\ Len(y) = n
        /\ \A i \in 1 .. n : x[i] = y[i]
    BY <2>3, <2>4, <2>6, <2>7, <2>8
  <2>10. x = y
    BY <2>9
  <2> QED
    BY <2>8, <2>10
<1>7. ASSUME p = Len(t) + 1  PROVE tk = all
  <2>1. n = c /\ DOMAIN tk = 1 .. n /\ tk = [i \in 1 .. n |-> tk[i]]
    BY <1>1, <1>2, <1>7
  <2>2. DOMAIN all = 1 .. c /\ all = [i \in 1 .. c |-> all[i]]
    BY <1>3
  <2> QED
    BY <1>4, <2>1, <2>2
<1> QED
  BY <1>1, <1>2, <1>5, <1>6, <1>7 DEF Strtok!IsPrefix

(* A string in memory: its last character is a NUL.                        *)
Stored(m) == m \in Seq(Cells) /\ Len(m) > 0 /\ m[Len(m)] = NUL

(* tokens tk of the text t are told and string m is cut up to p.           *)
Begun(m, t, p, tk) == Cut(m, t, p) /\ Told(tk, t, p)

(* A string that is begun is not cut yet, and nothing of it is told.       *)
LEMMA BeginUncut ==
  ASSUME NEW m, Stored(m), NEW t, t = Strtok!At(m, 1)
  PROVE  t \in Seq(Letters) /\ Begun(m, t, 1, << >>)
<1> DEFINE E(k) == k \in 1 .. Len(m) /\ m[k] = NUL /\ \A j \in 1 .. (k - 1) : m[j] # NUL
           end == CHOOSE k \in 1 .. Len(m) : m[k] = NUL /\ \A j \in 1 .. (k - 1) : m[j] # NUL
<1>1. m \in Seq(Cells) /\ Len(m) \in Nat /\ Len(m) > 0 /\ m[Len(m)] = NUL
  BY DEF Stored
<1>2. \E k : E(k)
  <2> DEFINE P == {k \in 1 .. Len(m) : m[k] # NUL}
  <2>1. PICK k \in 0 .. Len(m) : (\A j \in 1 .. k : j \in P) /\ (k < Len(m) => k + 1 \notin P)
    <3> HIDE DEF P
    <3> QED
      BY <1>1, RunEnds
  <2>2. k < Len(m)
    <3>1. k # Len(m)
      BY <1>1, <2>1
    <3> QED
      BY <1>1, <3>1
  <2>3. k + 1 \in 1 .. Len(m) /\ (k + 1) - 1 = k
    BY <1>1, <2>2
  <2>4. m[k + 1] = NUL /\ \A j \in 1 .. k : m[j] # NUL
    BY <2>1, <2>2, <2>3
  <2>5. E(k + 1)
    BY <2>3, <2>4
  <2> HIDE DEF E
  <2> QED
    BY <2>5
<1>3. E(end)
  BY <1>2
<1>4. t = SubSeq(m, 1, end - 1)
  BY DEF Strtok!At
<1> HIDE DEF end
<1>5. PICK l : l = end - 1
  OBVIOUS
<1>6. l \in Nat /\ end = l + 1 /\ l < Len(m) /\ (1 <= l \/ l = 0)
  BY <1>1, <1>3, <1>5
<1>7. \A k \in 1 .. l : m[k] \in Letters /\ k \in 1 .. Len(m)
  <2>1. \A k \in 1 .. l : k \in 1 .. Len(m) /\ m[k] # NUL
    BY <1>1, <1>3, <1>5, <1>6
  <2>2. \A k \in 1 .. Len(m) : m[k] \in Cells
    BY <1>1
  <2> QED
    BY <2>1, <2>2 DEF Cells
<1>8. /\ t \in Seq(Letters) /\ Len(t) = l /\ \A k \in 1 .. l : t[k] = m[k]
  <2>1. 1 \in Int /\ l \in Int /\ (l - 1) + 1 = l
    BY <1>6
  <2>2. /\ SubSeq(m, 1, l) \in Seq(Letters)
        /\ Len(SubSeq(m, 1, l)) = IF 1 <= l THEN (l - 1) + 1 ELSE 0
        /\ \A k \in 1 .. ((l - 1) + 1) : SubSeq(m, 1, l)[k] = m[(1 + k) - 1]
    BY <1>7, <2>1, SubSeqProperties
  <2>3. t = SubSeq(m, 1, l)
    BY <1>4, <1>5
  <2>4. ASSUME NEW k \in 1 .. l  PROVE t[k] = m[k]
    <3>1. (1 + k) - 1 = k
      OBVIOUS
    <3> QED
      BY <2>1, <2>2, <2>3, <3>1
  <2> QED
    BY <1>6, <2>1, <2>2, <2>3, <2>4
<1>9. Cut(m, t, 1)
  <2>1. 1 \in 1 .. (Len(t) + 1) /\ Len(t) < Len(m) /\ m[Len(t) + 1] = NUL
    BY <1>3, <1>6, <1>8
  <2>2. \A k \in 1 .. Len(t) : m[k] = t[k]
    BY <1>8
  <2> QED
    BY <1>1, <1>8, <2>1, <2>2 DEF Cut
<1>10. Told(<< >>, t, 1)
  <2>1. Strtok!Starts(t) \subseteq 1 .. Len(t) /\ Len(t) \in Nat
    BY <1>8, StartsIn
  <2>2. Below(t, 1) = {}
    BY <2>1 DEF Below
  <2>3. Cardinality(Below(t, 1)) = 0
    BY <2>2, FS_EmptySet
  <2>4. Len(<< >>) = 0 /\ << >> \in Seq(Seq(Letters))
    OBVIOUS
  <2> QED
    BY <2>3, <2>4 DEF Told
<1> QED
  BY <1>8, <1>9, <1>10 DEF Begun

(* Nothing is left to look for.                                            *)
NoneLeft(m, t, q, tk) == Begun(m, t, q, tk) /\ q = Len(t) + 1

(* A call finds that nothing is left, or takes the next token.             *)
LEMMA TokenStep ==
  ASSUME NEW m, NEW t, NEW p, NEW tk, Begun(m, t, p, tk),
         NEW q, q = p + Strtok!Strspn(Strtok!At(m, p)),
         NEW token, NEW end, NEW m2, NEW p2, Taken(m, q, token, end, m2, p2),
         NEW tk2, tk2 = Append(tk, token)
  PROVE  /\ m[q] = NUL => NoneLeft(m, t, q, tk)
         /\ m[q] # NUL => Begun(m2, t, p2, tk2)
<1>1. Cut(m, t, p) /\ Told(tk, t, p)
  BY DEF Begun
<1>2. NextStart(t, p, q)
  BY <1>1, StartFound
<1>3. t \in Seq(Letters) /\ Len(t) \in Nat /\ p \in 1 .. (Len(t) + 1) /\ q \in p .. (Len(t) + 1)
  BY <1>1, <1>2 DEF Cut, NextStart
<1>4. ASSUME m[q] = NUL  PROVE NoneLeft(m, t, q, tk)
  <2>1. q = Len(t) + 1
    <3>1. ASSUME q \in p .. Len(t)  PROVE FALSE
      <4>1. m[q] = t[q] /\ q \in 1 .. Len(t)
        BY <1>1, <1>3, <3>1 DEF Cut
      <4>2. t[q] \in Letters /\ NUL \notin Letters
        BY <1>3, <4>1 DEF Letters
      <4> QED
        BY <1>4, <4>1, <4>2
    <3> QED
      BY <1>3, <3>1
  <2>2. Cut(m, t, q)
    BY <1>1, <1>3, <2>1 DEF Cut
  <2>3. Told(tk, t, q)
    <3>1. Below(t, q) = Below(t, p)
      BY <1>2 DEF NextStart
    <3> QED
      BY <1>1, <3>1 DEF Told
  <2> QED
    BY <2>1, <2>2, <2>3 DEF NoneLeft, Begun
<1>5. ASSUME m[q] # NUL  PROVE Begun(m2, t, p2, tk2)
  <2>1. TokenCut(t, p, q, token, m2, p2)
    BY <1>1, <1>2, <1>5, CutOff
  <2>2. q <= Len(t)
    <3>1. m[Len(t) + 1] = NUL
      BY <1>1 DEF Cut
    <3> QED
      BY <1>3, <1>5, <3>1
  <2>3. Told(tk2, t, p2)
    BY <1>1, <1>2, <1>3, <2>1, <2>2, ToldMore
  <2>4. Cut(m2, t, p2)
    BY <2>1 DEF TokenCut
  <2> QED
    BY <2>3, <2>4 DEF Begun
<1> QED
  BY <1>4, <1>5

(* Every string ends in a NUL, and the one begun last is cut up to saveptr *)
(* with its tokens before that told; all of it when NULL was returned.     *)
StringsStored ==
  /\ chars \in [Strs -> Seq(Cells)] /\ \A x \in Strs : Stored(chars[x])
  /\ text \in [Strs -> Seq(Letters)]
Place(x) ==
  /\ x \in Strs /\ saveptr[1] = x
  /\ Begun(chars[x], text[x], saveptr[2], tokens)
  /\ ended => saveptr[2] = Len(text[x]) + 1
StrtokInv == StringsStored /\ (current = Strtok!NULL \/ Place(current))

(* What a call to strtok_r leaves: where p is and which tokens are told.   *)
Called(x, t, m2, p2, tk2, done) ==
  /\ Stored(m2) /\ Begun(m2, t, p2, tk2)
  /\ done => p2 = Len(t) + 1

(* strtok_r cuts one token off, or none.                                   *)
LEMMA TokenCalled ==
  ASSUME StringsStored, NEW x \in Strs, NEW p, NEW t, NEW tk,
         Begun(chars[x], t, p, tk), Strtok!Token(x, p, tk)
  PROVE  \E m2, p2 :
            /\ chars' = [chars EXCEPT ![x] = m2] /\ saveptr' = <<x, p2>>
            /\ Called(x, t, m2, p2, tokens', ended')
<1>1. PICK m : m = chars[x]
  OBVIOUS
<1>2. PICK q : q = p + Strtok!Strspn(Strtok!At(m, p))
  OBVIOUS
<1>3. PICK token : token = SubSeq(Strtok!At(m, q), 1, Strtok!BeforeDelim(Strtok!At(m, q)))
  OBVIOUS
<1>4. PICK end : end = q + Len(token)
  OBVIOUS
<1>5. PICK m2 : m2 = [m EXCEPT ![end] = NUL]
  OBVIOUS
<1>6. PICK p2 : p2 = IF m[end] = NUL THEN end ELSE end + 1
  OBVIOUS
<1>7. PICK tk2 : tk2 = Append(tk, token)
  OBVIOUS
<1>8. Taken(m, q, token, end, m2, p2)
  BY <1>3, <1>4, <1>5, <1>6 DEF Taken
<1>9. Begun(m, t, p, tk) /\ Stored(m)
  BY <1>1 DEF StringsStored
<1>10. /\ m[q] = NUL => NoneLeft(m, t, q, tk)
       /\ m[q] # NUL => Begun(m2, t, p2, tk2)
  BY <1>2, <1>7, <1>8, <1>9, TokenStep
<1>11. CASE m[q] = NUL
  <2>1. chars' = chars /\ saveptr' = <<x, q>> /\ tokens' = tk /\ ended' = TRUE
    BY <1>1, <1>2, <1>11, Zenon DEF Strtok!Token
  <2>2. chars' = [chars EXCEPT ![x] = m]
    BY <1>1, <2>1 DEF StringsStored
  <2>3. Called(x, t, m, q, tokens', ended')
    BY <1>9, <1>10, <1>11, <2>1 DEF Called, NoneLeft
  <2> QED
    BY <2>1, <2>2, <2>3
<1>12. CASE m[q] # NUL
  <2>1. /\ chars' = [chars EXCEPT ![x][end] = NUL] /\ saveptr' = <<x, p2>>
        /\ tokens' = tk2 /\ ended' = FALSE
    BY <1>1, <1>2, <1>3, <1>4, <1>6, <1>7, <1>12, Zenon DEF Strtok!Token
  <2>2. chars' = [chars EXCEPT ![x] = m2]
    BY <1>1, <1>5, <2>1
  <2>3. Stored(m2)
    <3>1. Cut(m2, t, p2)
      BY <1>10, <1>12 DEF Begun
    <3> QED
      BY <3>1 DEF Cut, Stored
  <2>4. Called(x, t, m2, p2, tokens', ended')
    BY <1>10, <1>12, <2>1, <2>3 DEF Called
  <2> QED
    BY <2>1, <2>2, <2>4
<1> QED
  BY <1>11, <1>12

(* A call keeps the invariant for the string it goes on with.              *)
LEMMA CalledKeepsInv ==
  ASSUME StringsStored, NEW x \in Strs, NEW t \in Seq(Letters), NEW m2, NEW p2,
         chars' = [chars EXCEPT ![x] = m2], saveptr' = <<x, p2>>,
         Called(x, t, m2, p2, tokens', ended'),
         text' = [text EXCEPT ![x] = t], current' = x
  PROVE  StrtokInv'
<1>1. m2 \in Seq(Cells) /\ Stored(m2)
  BY DEF Called, Stored
<1>2. chars' \in [Strs -> Seq(Cells)] /\ text' \in [Strs -> Seq(Letters)]
  BY <1>1 DEF StringsStored
<1>3. chars'[x] = m2 /\ text'[x] = t
  BY DEF StringsStored
<1>4. ASSUME NEW y \in Strs  PROVE Stored(chars'[y])
  <2>1. CASE y = x
    BY <1>1, <1>3, <2>1
  <2>2. CASE y # x
    <3>1. chars'[y] = chars[y]
      BY <2>2 DEF StringsStored
    <3> QED
      BY <3>1 DEF StringsStored
  <2> QED
    BY <2>1, <2>2
<1>5. StringsStored'
  BY <1>2, <1>4 DEF StringsStored
<1>6. saveptr'[1] = x /\ saveptr'[2] = p2
  OBVIOUS
<1>7. Begun(m2, t, p2, tokens') /\ (ended' => p2 = Len(t) + 1)
  BY DEF Called
<1>8. Place(current)'
  BY <1>3, <1>6, <1>7 DEF Place
<1> QED
  BY <1>5, <1>8 DEF StrtokInv

(* strtok(x, delim) and strtok(NULL, delim) keep the invariant.            *)
LEMMA StrtokStepKeepsInv ==
  ASSUME StrtokInv, Strtok!Next
  PROVE  StrtokInv'
<1>1. ASSUME NEW x \in Strs, Strtok!Begin(x)  PROVE StrtokInv'
  <2>1. StringsStored /\ Stored(chars[x])
    BY DEF StrtokInv, StringsStored
  <2>2. PICK m, t : m = chars[x] /\ t = Strtok!At(m, 1)
    OBVIOUS
  <2>3. t \in Seq(Letters) /\ Begun(m, t, 1, << >>)
    BY <2>1, <2>2, BeginUncut
  <2>4. /\ Strtok!Token(x, 1, << >>) /\ text' = [text EXCEPT ![x] = t] /\ current' = x
    BY <1>1, <2>2 DEF Strtok!Begin
  <2>5. Begun(chars[x], t, 1, << >>)
    BY <2>2, <2>3
  <2>6. PICK m2, p2 :
          /\ chars' = [chars EXCEPT ![x] = m2] /\ saveptr' = <<x, p2>>
          /\ Called(x, t, m2, p2, tokens', ended')
    BY <2>1, <2>4, <2>5, TokenCalled
  <2> QED
    BY <2>1, <2>3, <2>4, <2>6, CalledKeepsInv
<1>2. ASSUME Strtok!Continue  PROVE StrtokInv'
  <2>1. StringsStored /\ Place(current)
    BY <1>2 DEF StrtokInv, Strtok!Continue
  <2>2. PICK x, p, t, tk : x = current /\ p = saveptr[2] /\ t = text[x] /\ tk = tokens
    OBVIOUS
  <2>3. x \in Strs /\ saveptr[1] = x /\ Begun(chars[x], t, p, tk)
    BY <2>1, <2>2 DEF Place
  <2>4. Strtok!Token(x, p, tk) /\ UNCHANGED <<text, current>>
    BY <1>2, <2>2, <2>3 DEF Strtok!Continue
  <2>5. t \in Seq(Letters) /\ text' = [text EXCEPT ![x] = t] /\ current' = x
    BY <2>1, <2>2, <2>3, <2>4 DEF StringsStored
  <2>6. PICK m2, p2 :
          /\ chars' = [chars EXCEPT ![x] = m2] /\ saveptr' = <<x, p2>>
          /\ Called(x, t, m2, p2, tokens', ended')
    BY <2>1, <2>3, <2>4, TokenCalled
  <2> QED
    BY <2>1, <2>3, <2>5, <2>6, CalledKeepsInv
<1> QED
  BY <1>1, <1>2 DEF Strtok!Next

(* The texts end before the NUL that is stored behind them.                *)
LEMMA StrtokInitially ==
  ASSUME Strtok!Init
  PROVE  StrtokInv
<1>1. /\ text \in [Strs -> Texts] /\ chars = [x \in Strs |-> Append(text[x], NUL)]
      /\ current = Strtok!NULL
  BY DEF Strtok!Init
<1>2. ASSUME NEW s \in Texts  PROVE s \in Seq(Letters)
  <2>1. s \in Seq({s[k] : k \in DOMAIN s} \ {NUL})
    BY AlgorithmsAssumption DEF Strtok!StrtokAssumption
  <2>2. {s[k] : k \in DOMAIN s} \ {NUL} \subseteq Letters
    BY DEF Letters
  <2> DEFINE S == {s[k] : k \in DOMAIN s} \ {NUL}
  <2>3. s \in Seq(S) /\ S \subseteq Letters
    BY <2>1, <2>2
  <2> HIDE DEF S
  <2> QED
    BY <2>3
<1>3. text \in [Strs -> Seq(Letters)]
  BY <1>1, <1>2
<1>4. ASSUME NEW x \in Strs
      PROVE  chars[x] \in Seq(Cells) /\ Stored(chars[x])
  <2>1. PICK s, m : s = text[x] /\ m = chars[x]
    OBVIOUS
  <2>2. s \in Seq(Cells) /\ NUL \in Cells /\ m = Append(s, NUL)
    <3>1. s \in Seq(Letters) /\ Letters \subseteq Cells /\ NUL \in Cells
      BY <1>3, <2>1 DEF Cells
    <3>2. s \in Seq(Cells)
      BY <3>1
    <3> QED
      BY <1>1, <2>1, <3>1, <3>2
  <2>3. m \in Seq(Cells) /\ Len(m) = Len(s) + 1 /\ m[Len(s) + 1] = NUL /\ Len(s) \in Nat
    BY <2>2
  <2> QED
    BY <2>1, <2>3 DEF Stored
<1>5. chars \in [Strs -> Seq(Cells)]
  BY <1>1, <1>4
<1> QED
  BY <1>1, <1>3, <1>4, <1>5 DEF StrtokInv, StringsStored

(* c/string.c:241-270: strtok returns the tokens of the string begun last, *)
(* all and in order, and changes nothing else of it.                       *)
THEOREM TokensTrue == Spec => []TokensInOrder
<1>1. Init => (part = "strtok" => StrtokInv)
  <2>1. Strtok!Init => StrtokInv
    BY StrtokInitially
  <2> QED
    BY <2>1 DEF Init
<1>2. ASSUME [Next]_vars, part = "strtok" => StrtokInv
      PROVE  (part = "strtok" => StrtokInv)'
  <2>1. part' = part /\ (part = "strtok" => Strtok!Next \/ UNCHANGED strtokVars)
    BY <1>2, Separate
  <2>2. CASE part = "strtok" /\ UNCHANGED strtokVars
    BY <1>2, <2>1, <2>2 DEF strtokVars, StrtokInv, StringsStored, Place
  <2>3. CASE part = "strtok" /\ Strtok!Next
    BY <1>2, <2>3, StrtokStepKeepsInv
  <2> QED
    BY <2>1, <2>2, <2>3
<1>3. (part = "strtok" => StrtokInv) => TokensInOrder
  <2>1. ASSUME StrtokInv, current # Strtok!NULL
        PROVE  /\ Strtok!IsPrefix(tokens, Strtok!Tokens(text[current]))
               /\ ended => tokens = Strtok!Tokens(text[current])
               /\ \A k \in 1 .. Len(text[current]) :
                    \/ chars[current][k] = text[current][k]
                    \/ chars[current][k] = NUL /\ text[current][k] \in Delims
    <3>1. StringsStored /\ Place(current)
      BY <2>1 DEF StrtokInv
    <3>2. PICK t, p, m, tk : t = text[current] /\ p = saveptr[2] /\ m = chars[current]
                             /\ tk = tokens
      OBVIOUS
    <3>3. /\ Cut(m, t, p) /\ Told(tk, t, p) /\ t \in Seq(Letters)
          /\ ended => p = Len(t) + 1
      BY <3>1, <3>2 DEF Place, Begun, Cut
    <3>4. /\ Strtok!IsPrefix(tk, Strtok!Tokens(t))
          /\ p = Len(t) + 1 => tk = Strtok!Tokens(t)
      BY <3>3, ToldInOrder
    <3>5. \A k \in 1 .. Len(t) : m[k] = t[k] \/ (m[k] = NUL /\ t[k] \in Delims)
      BY <3>3 DEF Cut
    <3> QED
      BY <3>2, <3>3, <3>4, <3>5
  <2> QED
    BY <2>1 DEF TokensInOrder, Strtok!TokensInOrder
<1>4. (part = "strtok" => StrtokInv) /\ [Next]_vars => (part = "strtok" => StrtokInv)'
  BY <1>2
<1> QED
  BY <1>1, <1>3, <1>4, PTL DEF Spec
-----------------------------------------------------------------------------
(* strtol: the invariant says what has been read up to s, and that the     *)
(* digits among it stand for absval, or for more than fits.                *)

Blank(c) == c = " "

(* What the digits are not.                                                *)
LEMMA DigitsAre ==
  /\ Strtox!Digits[1] = "0" /\ \A d \in 2 .. 36 : Strtox!Digits[d] # "0"
  /\ \A d \in 1 .. 36 : ~Blank(Strtox!Digits[d])
  /\ \A d \in 1 .. 36 : Strtox!Digits[d] # "+"
  /\ \A d \in 1 .. 36 : Strtox!Digits[d] # "-"
  /\ \A d \in 1 .. 36 : Strtox!Digits[d] # "NUL"
  /\ \A d \in 1 .. 16 : Strtox!Digits[d] # "x"
<1>1. Strtox!Digits[1] = "0"
  BY DEF Strtox!Digits
<1>2. ASSUME NEW d \in 2 .. 36  PROVE Strtox!Digits[d] # "0"
  BY DEF Strtox!Digits
<1>3. ASSUME NEW d \in 1 .. 36  PROVE ~Blank(Strtox!Digits[d])
  <2> DEFINE C == {"0", "1", "2", "3", "4", "5", "6", "7", "8", "9", "a", "b", "c", "d", "e",
                   "f", "g", "h", "i", "j", "k", "l", "m", "n", "o", "p", "q", "r", "s", "t",
                   "u", "v", "w", "x", "y", "z"}
  <2>1. Strtox!Digits[d] \in C
    BY DEF Strtox!Digits
  <2>2. \A c \in C : ~Blank(c)
    BY Zenon DEF Blank
  <2> QED
    BY <2>1, <2>2
<1>4. ASSUME NEW d \in 1 .. 36  PROVE Strtox!Digits[d] # "+"
  BY DEF Strtox!Digits
<1>5. ASSUME NEW d \in 1 .. 36  PROVE Strtox!Digits[d] # "-"
  BY DEF Strtox!Digits
<1>6. ASSUME NEW d \in 1 .. 36  PROVE Strtox!Digits[d] # "NUL"
  BY DEF Strtox!Digits
<1>7. ASSUME NEW d \in 1 .. 16  PROVE Strtox!Digits[d] # "x"
  BY DEF Strtox!Digits
<1> QED
  BY <1>1, <1>2, <1>3, <1>4, <1>5, <1>6, <1>7

(* The value of the digit c of base b.                                     *)
ValueOf(b, c) == (CHOOSE d \in 1 .. b : Strtox!Digits[d] = c) - 1

(* A digit of base b is less than b.                                       *)
LEMMA DigitValue ==
  ASSUME NEW b \in 2 .. 36, NEW c, Strtox!InBase(b, c)
  PROVE  /\ ValueOf(b, c) \in 0 .. (b - 1) /\ ~Blank(c) /\ c \notin {"+", "-", "NUL"}
         /\ b <= 16 => c # "x"
<1>1. PICK d \in 1 .. b : d = (CHOOSE e \in 1 .. b : Strtox!Digits[e] = c) /\ Strtox!Digits[d] = c
  BY DEF Strtox!InBase
<1>2. d \in 1 .. 36 /\ (b <= 16 => d \in 1 .. 16)
  BY <1>1
<1>3. ValueOf(b, c) \in 0 .. (b - 1)
  BY <1>1 DEF ValueOf
<1>4. ~Blank(c) /\ c # "+" /\ c # "-" /\ c # "NUL" /\ (b <= 16 => c # "x")
  BY <1>1, <1>2, DigitsAre, Zenon
<1> QED
  BY <1>3, <1>4

(* 0 is a digit of every base, and nothing.                                *)
LEMMA ZeroIs ==
  ASSUME NEW b \in 2 .. 36
  PROVE  Strtox!InBase(b, "0") /\ ValueOf(b, "0") = 0
<1>1. 1 \in 1 .. b /\ Strtox!Digits[1] = "0"
  BY DigitsAre
<1>2. ASSUME NEW d \in 1 .. b, Strtox!Digits[d] = "0"  PROVE d = 1
  <2>1. d = 1 \/ d \in 2 .. 36
    OBVIOUS
  <2> QED
    BY <1>2, <2>1, DigitsAre, Zenon
<1>3. (CHOOSE d \in 1 .. b : Strtox!Digits[d] = "0") = 1
  BY <1>1, <1>2
<1> QED
  BY <1>1, <1>3 DEF Strtox!InBase, ValueOf

(* One more digit passes the limit exactly when Overflows says so.         *)
LEMMA LimitPassed ==
  ASSUME NEW n \in Nat, NEW l \in Nat, NEW b \in 2 .. 36, NEW d \in 0 .. (b - 1)
  PROVE  /\ n * b + d \in Nat
         /\ n > (l \div b) \/ (n = l \div b /\ d > l % b) <=> n * b + d > l
         /\ n > l => n * b + d > l
<1>1. PICK q, r : q = l \div b /\ r = l % b
  OBVIOUS
<1>2. q \in Nat /\ r \in 0 .. (b - 1) /\ l = (b * q) + r
  BY <1>1, Z3
<1>3. n * b \in Nat /\ q * b \in Nat /\ b * q = q * b
  BY <1>2, Z3
<1>4. n * b + d \in Nat
  BY <1>3
<1>5. CASE n > q
  <2>1. n * b >= (q + 1) * b
    BY <1>2, <1>5, Z3
  <2>2. (q + 1) * b = (q * b) + b
    BY <1>2, Z3
  <2>3. n * b + d > l
    BY <1>2, <1>3, <2>1, <2>2
  <2> QED
    BY <1>1, <1>4, <1>5, <2>3
<1>6. CASE n = q
  <2>1. n * b + d > l <=> d > r
    BY <1>2, <1>3, <1>6
  <2>2. ~(n > l)
    <3>1. b * q >= q
      BY <1>2, Z3
    <3> QED
      BY <1>2, <1>6, <3>1
  <2> QED
    BY <1>1, <1>4, <1>6, <2>1, <2>2
<1>7. CASE n < q
  <2>1. (n + 1) * b <= q * b
    BY <1>2, <1>7, Z3
  <2>2. (n + 1) * b = (n * b) + b
    BY Z3
  <2>3. ~(n * b + d > l)
    BY <1>2, <1>3, <2>1, <2>2
  <2>4. ~(n > l)
    <3>1. b * q >= q
      BY <1>2, Z3
    <3> QED
      BY <1>2, <1>7, <3>1
  <2> QED
    BY <1>1, <1>2, <1>4, <1>7, <2>3, <2>4
<1> QED
  BY <1>2, <1>5, <1>6, <1>7

(* The characters of the strings.                                          *)
Symbols == UNION {{s[k] : k \in DOMAIN s} : s \in Numerals}

(* f counts characters m + 1 to n of x as digits of base b.                *)
Counts(f, x, m, n, b) ==
  /\ f \in [0 .. (n - m) -> Nat] /\ f[0] = 0
  /\ \A l \in 1 .. (n - m) : f[l] = f[l - 1] * b + ValueOf(b, x[m + l])

(* Before the first digit there is nothing.                                *)
LEMMA CountsNone ==
  ASSUME NEW x, NEW m \in Nat, NEW b
  PROVE  \E f : Counts(f, x, m, m, b) /\ f[m - m] = 0
<1> DEFINE f == [l \in 0 .. 0 |-> 0]
<1>1. m - m = 0 /\ f \in [0 .. 0 -> Nat] /\ f[0] = 0
  OBVIOUS
<1>2. Counts(f, x, m, m, b)
  BY <1>1 DEF Counts
<1> QED
  BY <1>1, <1>2

(* g counts one digit more than f.                                         *)
DigitMore(f, g, x, m, n, b) ==
  /\ Counts(g, x, m, n + 1, b)
  /\ g[(n + 1) - m] = f[n - m] * b + ValueOf(b, x[n + 1])

(* One more digit: the number is b times as big, and the digit more.       *)
LEMMA CountsMore ==
  ASSUME NEW x, NEW m \in Nat, NEW n \in Nat, m <= n, NEW b \in 2 .. 36,
         NEW f, Counts(f, x, m, n, b), Strtox!InBase(b, x[n + 1])
  PROVE  \E g : DigitMore(f, g, x, m, n, b)
<1>1. PICK h, d : h = n - m /\ d = ValueOf(b, x[n + 1])
  OBVIOUS
<1>2. h \in Nat /\ (n + 1) - m = h + 1 /\ m + (h + 1) = n + 1
  BY <1>1
<1>3. d \in 0 .. (b - 1)
  BY <1>1, DigitValue
<1>4. /\ f \in [0 .. h -> Nat] /\ f[0] = 0
      /\ \A l \in 1 .. h : f[l] = f[l - 1] * b + ValueOf(b, x[m + l])
  BY <1>1 DEF Counts
<1>5. PICK v : v = f[h] * b + d
  OBVIOUS
<1>6. v \in Nat
  <2>1. f[h] \in Nat
    BY <1>2, <1>4
  <2>2. PICK w : w = f[h]
    OBVIOUS
  <2>3. w * b \in Nat
    BY <2>1, <2>2, Z3
  <2> QED
    BY <1>3, <1>5, <2>2, <2>3
<1> DEFINE g == [l \in 0 .. (h + 1) |-> IF l = h + 1 THEN v ELSE f[l]]
<1>7. g \in [0 .. (h + 1) -> Nat]
  <2>1. ASSUME NEW l \in 0 .. (h + 1)  PROVE (IF l = h + 1 THEN v ELSE f[l]) \in Nat
    <3>1. l = h + 1 \/ l \in 0 .. h
      BY <1>2
    <3> QED
      BY <1>4, <1>6, <3>1
  <2> QED
    BY <2>1
<1>8. g[0] = 0 /\ g[h + 1] = v /\ \A l \in 0 .. h : g[l] = f[l]
  BY <1>2, <1>4
<1> HIDE DEF g
<1>9. ASSUME NEW l \in 1 .. (h + 1)
      PROVE  g[l] = g[l - 1] * b + ValueOf(b, x[m + l])
  <2>1. CASE l = h + 1
    <3>1. l - 1 = h /\ h \in 0 .. h /\ m + l = n + 1
      BY <1>2, <2>1
    <3>2. g[l - 1] = f[h] /\ ValueOf(b, x[m + l]) = d /\ g[l] = v
      BY <1>1, <1>8, <2>1, <3>1
    <3> QED
      BY <1>5, <3>2
  <2>2. CASE l # h + 1
    <3>1. l \in 1 .. h /\ l \in 0 .. h /\ l - 1 \in 0 .. h
      BY <1>2, <2>2
    <3>2. g[l] = f[l] /\ g[l - 1] = f[l - 1]
      BY <1>8, <3>1
    <3> QED
      BY <1>4, <3>1, <3>2
  <2> QED
    BY <2>1, <2>2
<1>10. Counts(g, x, m, n + 1, b)
  <2>1. \A l \in 1 .. (h + 1) : g[l] = g[l - 1] * b + ValueOf(b, x[m + l])
    BY <1>9
  <2> QED
    BY <1>2, <1>7, <1>8, <2>1 DEF Counts
<1>11. g[(n + 1) - m] = f[n - m] * b + ValueOf(b, x[n + 1])
  BY <1>1, <1>2, <1>5, <1>8
<1> QED
  BY <1>10, <1>11 DEF DigitMore

(* What a piece of a string is.                                            *)
LEMMA PieceIs ==
  ASSUME NEW x \in Seq(Symbols), NEW m \in Nat, NEW n \in Nat, m <= n, n <= Len(x),
         NEW t, t = SubSeq(x, m + 1, n)
  PROVE  t \in Seq(Symbols) /\ Len(t) = n - m /\ \A l \in 1 .. (n - m) : t[l] = x[m + l]
<1>1. PICK h : h = n - m
  OBVIOUS
<1>2. m + 1 \in Int /\ n \in Int /\ (n - (m + 1)) + 1 = h /\ (m + 1 <= n \/ h = 0) /\ h \in Nat
  BY <1>1
<1>3. \A l \in (m + 1) .. n : x[l] \in Symbols
  <2>1. \A l \in (m + 1) .. n : l \in 1 .. Len(x)
    OBVIOUS
  <2> QED
    BY <2>1
<1>4. /\ t \in Seq(Symbols) /\ Len(t) = IF m + 1 <= n THEN (n - (m + 1)) + 1 ELSE 0
      /\ \A l \in 1 .. ((n - (m + 1)) + 1) : t[l] = x[((m + 1) + l) - 1]
  BY <1>2, <1>3, SubSeqProperties
<1>5. Len(t) = h
  BY <1>2, <1>4
<1>6. ASSUME NEW l \in 1 .. h  PROVE t[l] = x[m + l]
  <2>1. ((m + 1) + l) - 1 = m + l
    BY <1>2
  <2> QED
    BY <1>2, <1>4, <2>1
<1> QED
  BY <1>1, <1>4, <1>5, <1>6

(* Number tells what the digits count.                                     *)
LEMMA NumberIs ==
  ASSUME NEW x \in Seq(Symbols), NEW m \in Nat, NEW n \in Nat, m <= n, n <= Len(x),
         NEW b, NEW f, Counts(f, x, m, n, b)
  PROVE  Strtox!Number(b, SubSeq(x, m + 1, n)) = f[n - m]
<1>1. PICK h, t : h = n - m /\ t = SubSeq(x, m + 1, n)
  OBVIOUS
<1>2. h \in Nat /\ Len(t) = h /\ \A l \in 1 .. h : t[l] = x[m + l]
  BY <1>1, PieceIs
<1> DEFINE D == 0 .. Len(t)
           of == CHOOSE g : g = [k \in D |-> IF k = 0 THEN 0
                                 ELSE g[k - 1] * b + ((CHOOSE d \in 1 .. b : Strtox!Digits[d] = t[k]) - 1)]
<1>3. /\ f \in [0 .. h -> Nat] /\ f[0] = 0
      /\ \A l \in 1 .. h : f[l] = f[l - 1] * b + ValueOf(b, x[m + l])
  BY <1>1 DEF Counts
<1>4. of = [k \in D |-> IF k = 0 THEN 0
                        ELSE of[k - 1] * b + ((CHOOSE d \in 1 .. b : Strtox!Digits[d] = t[k]) - 1)]
  <2>1. ASSUME NEW k \in D
        PROVE  f[k] = IF k = 0 THEN 0
                      ELSE f[k - 1] * b + ((CHOOSE d \in 1 .. b : Strtox!Digits[d] = t[k]) - 1)
    <3>1. CASE k = 0
      BY <1>3, <3>1
    <3>2. CASE k # 0
      <4>1. k \in 1 .. h
        BY <1>2, <3>2
      <4>2. f[k] = f[k - 1] * b + ValueOf(b, t[k])
        BY <1>2, <1>3, <4>1
      <4> QED
        BY <3>2, <4>2 DEF ValueOf
    <3> QED
      BY <3>1, <3>2
  <2>2. f = [k \in D |-> f[k]]
    BY <1>2, <1>3
  <2>3. f = [k \in D |-> IF k = 0 THEN 0
                         ELSE f[k - 1] * b + ((CHOOSE d \in 1 .. b : Strtox!Digits[d] = t[k]) - 1)]
    <3> HIDE DEF D
    <3> QED
      BY <2>1, <2>2
  <2> HIDE DEF D
  <2> QED
    BY <2>3
<1>5. Strtox!Number(b, t) = of[Len(t)]
  BY Zenon DEF Strtox!Number
<1> HIDE DEF of
<1>6. \A k \in 0 .. h : of[k] = f[k]
  <2> DEFINE P == {k \in 0 .. h : of[k] = f[k]}
  <2>1. 0 \in P
    BY <1>2, <1>3, <1>4
  <2>2. ASSUME NEW k \in 0 .. (h - 1), k \in P  PROVE k + 1 \in P
    <3>1. k + 1 \in 1 .. h /\ k + 1 \in D /\ k + 1 # 0 /\ (k + 1) - 1 = k /\ k + 1 \in 0 .. h
      BY <1>2
    <3>2. of[k + 1] = of[k] * b + ValueOf(b, t[k + 1])
      BY <1>4, <3>1 DEF ValueOf
    <3>3. f[k + 1] = f[k] * b + ValueOf(b, t[k + 1])
      BY <1>2, <1>3, <3>1
    <3>4. of[k] = f[k]
      BY <2>2
    <3> QED
      BY <3>1, <3>2, <3>3, <3>4
  <2> HIDE DEF P
  <2>3. \A k \in 0 .. h : k \in P
    BY <1>2, <2>1, <2>2, UpTo
  <2> QED
    BY <2>3 DEF P
<1> QED
  BY <1>1, <1>2, <1>5, <1>6

(* The first k characters of x are white space, and a sign behind j.       *)
Leading(x, j, k) ==
  /\ j \in 0 .. Len(x) /\ k \in {j, j + 1} /\ k <= Len(x)
  /\ \A l \in 1 .. j : Blank(x[l])
  /\ k > j => x[k] \in {"+", "-"}

(* There is no more white space, nor a sign.                               *)
WholeFront(x, j, k) ==
  /\ Leading(x, j, k)
  /\ k = j /\ k < Len(x) => ~Blank(x[k + 1]) /\ x[k + 1] \notin {"+", "-"}

(* Digits of base b are behind 0x.                                         *)
HexAt(x, m, b) == b = 16 /\ m >= 2 /\ x[m - 1] = "0" /\ x[m] = "x"

(* Characters m + 1 to n are a number of base b that the string x stands   *)
(* for when base b0 is passed.                                             *)
Reading(x, b0, m, n, b) ==
  /\ m \in 0 .. Len(x) /\ n \in (m + 1) .. Len(x) /\ b \in 2 .. 36
  /\ \A l \in (m + 1) .. n : Strtox!InBase(b, x[l])
  /\ \E j, k : Leading(x, j, k) /\ (k = m \/ (HexAt(x, m, b) /\ k = m - 2))
  /\ b0 = 0 => b = IF HexAt(x, m, b) THEN 16 ELSE IF x[m + 1] = "0" THEN 8 ELSE 10
  /\ b0 # 0 => b = b0

(* A digit comes behind the whole front only.                              *)
LEMMA FrontUnique ==
  ASSUME NEW x \in Seq(Symbols), NEW j, NEW k, WholeFront(x, j, k),
         NEW i, NEW h, Leading(x, i, h), h < Len(x),
         NEW b \in 2 .. 36, Strtox!InBase(b, x[h + 1])
  PROVE  h = k
<1>1. /\ ~Blank(x[h + 1]) /\ x[h + 1] # "+" /\ x[h + 1] # "-"
  BY DigitValue
<1>2. /\ Len(x) \in Nat /\ j \in 0 .. Len(x) /\ i \in 0 .. Len(x)
      /\ (k = j \/ k = j + 1) /\ (h = i \/ h = i + 1)
      /\ k <= Len(x) /\ \A l \in 1 .. j : Blank(x[l])
      /\ \A l \in 1 .. i : Blank(x[l])
      /\ k = j + 1 => x[k] = "+" \/ x[k] = "-"
      /\ h = i + 1 => x[h] = "+" \/ x[h] = "-"
      /\ k = j /\ k < Len(x) => ~Blank(x[k + 1]) /\ x[k + 1] # "+" /\ x[k + 1] # "-"
  BY DEF WholeFront, Leading
<1>3. ~Blank("+") /\ ~Blank("-")
  BY Zenon DEF Blank
<1>4. ~(j < i)
  <2>1. ASSUME j < i  PROVE FALSE
    <3>1. j + 1 \in 1 .. i
      BY <1>2, <2>1
    <3>2. Blank(x[j + 1])
      BY <1>2, <3>1
    <3>3. k = j
      BY <1>2, <1>3, <3>2
    <3>4. k < Len(x)
      BY <1>2, <2>1, <3>3
    <3> QED
      BY <1>2, <3>2, <3>3, <3>4
  <2> QED
    BY <2>1
<1>5. ~(i < j)
  <2>1. ASSUME i < j  PROVE FALSE
    <3>1. i + 1 \in 1 .. j
      BY <1>2, <2>1
    <3>2. Blank(x[i + 1])
      BY <1>2, <3>1
    <3>3. h = i + 1
      BY <1>1, <1>2, <3>2
    <3> QED
      BY <1>2, <1>3, <3>2, <3>3
  <2> QED
    BY <2>1
<1>6. i = j
  BY <1>2, <1>4, <1>5
<1>7. CASE k = j + 1 /\ h = i
  BY <1>1, <1>2, <1>6, <1>7
<1>8. CASE k = j /\ h = i + 1
  <2>1. k < Len(x)
    BY <1>2, <1>6, <1>8
  <2> QED
    BY <1>2, <1>6, <1>8, <2>1
<1> QED
  BY <1>2, <1>6, <1>7, <1>8

(* White space and a sign do not end in x.                                 *)
LEMMA FrontNoHex ==
  ASSUME NEW x, NEW j, NEW k, Leading(x, j, k), NEW b
  PROVE  ~HexAt(x, k, b)
<1> SUFFICES ASSUME HexAt(x, k, b)  PROVE FALSE
  OBVIOUS
<1>1. x[k] = "x" /\ k >= 2
  BY DEF HexAt
<1>2. ~Blank("x")
  BY Zenon DEF Blank
<1>3. CASE k = j
  <2>1. k \in 1 .. j
    BY <1>1, <1>3 DEF Leading
  <2>2. Blank(x[k])
    BY <2>1 DEF Leading
  <2> QED
    BY <1>1, <1>2, <2>2
<1>4. CASE k # j
  BY <1>1, <1>4 DEF Leading
<1> QED
  BY <1>3, <1>4

(* With base b0 the digits behind the first k characters have a prefix.    *)
Prefixed(x, b0, k) ==
  b0 \in {0, 16} /\ k + 2 <= Len(x) /\ x[k + 1] = "0" /\ x[k + 2] = "x"

(* Where the digits start, and their base.                                 *)
Start(x, b0, k, m, b) ==
  IF Prefixed(x, b0, k) THEN b = 16 /\ m = k + 2
  ELSE m = k /\ b = IF b0 # 0 THEN b0 ELSE IF k < Len(x) /\ x[k + 1] = "0" THEN 8 ELSE 10

(* There is no other number than that one, but the 0 of a prefix.          *)
LEMMA OnlyReading ==
  ASSUME NEW x \in Seq(Symbols), NEW j, NEW k, WholeFront(x, j, k),
         NEW b0, NEW m, NEW b, Start(x, b0, k, m, b),
         NEW h, NEW n, NEW c, Reading(x, b0, h, n, c)
  PROVE  (h = m /\ c = b) \/ (Prefixed(x, b0, k) /\ h = k /\ n = k + 1)
<1>1. /\ Len(x) \in Nat /\ h \in 0 .. Len(x) /\ n \in (h + 1) .. Len(x) /\ c \in 2 .. 36
      /\ \A l \in (h + 1) .. n : Strtox!InBase(c, x[l])
      /\ b0 = 0 => c = IF HexAt(x, h, c) THEN 16 ELSE IF x[h + 1] = "0" THEN 8 ELSE 10
      /\ b0 # 0 => c = b0
  BY DEF Reading
<1>2. PICK i, l : Leading(x, i, l) /\ (l = h \/ (HexAt(x, h, c) /\ l = h - 2))
  BY DEF Reading
<1>3. CASE l = h
  <2>1. h + 1 \in (h + 1) .. n /\ h < Len(x)
    BY <1>1
  <2>2. Strtox!InBase(c, x[h + 1])
    BY <1>1, <2>1
  <2>3. h = k
    BY <1>1, <1>2, <1>3, <2>1, <2>2, FrontUnique
  <2>4. ~HexAt(x, h, c)
    BY <1>2, <1>3, FrontNoHex
  <2>5. CASE Prefixed(x, b0, k)
    <3>1. c <= 16
      BY <1>1, <2>4, <2>5 DEF Prefixed
    <3>2. ~(k + 2 <= n)
      <4>1. ASSUME k + 2 <= n  PROVE FALSE
        <5>1. k + 2 \in (h + 1) .. n
          BY <1>1, <2>3, <4>1
        <5>2. Strtox!InBase(c, "x")
          BY <1>1, <2>5, <5>1 DEF Prefixed
        <5> QED
          BY <1>1, <3>1, <5>2, DigitValue
      <4> QED
        BY <4>1
    <3> QED
      BY <1>1, <2>3, <2>5, <3>2
  <2>6. CASE ~Prefixed(x, b0, k)
    BY <1>1, <2>1, <2>3, <2>4, <2>6 DEF Start
  <2> QED
    BY <2>5, <2>6
<1>4. CASE HexAt(x, h, c) /\ l = h - 2
  <2>1. c = 16 /\ l + 1 = h - 1 /\ l + 2 = h /\ x[l + 1] = "0" /\ x[l + 2] = "x" /\ l < Len(x)
    BY <1>1, <1>4 DEF HexAt
  <2>2. Strtox!InBase(c, x[l + 1])
    BY <1>1, <2>1, ZeroIs
  <2>3. l = k
    BY <1>1, <1>2, <2>1, <2>2, FrontUnique
  <2>4. b0 = 0 \/ b0 = 16
    BY <1>1, <2>1
  <2>5. Prefixed(x, b0, k)
    BY <1>1, <2>1, <2>3, <2>4 DEF Prefixed
  <2> QED
    BY <2>1, <2>3, <2>5 DEF Start
<1> QED
  BY <1>2, <1>3, <1>4

(* The digits that are read are a number.                                  *)
LEMMA StartReads ==
  ASSUME NEW x \in Seq(Symbols), NEW j, NEW k, WholeFront(x, j, k),
         NEW b0 \in {0} \cup 2 .. 36, NEW m, NEW b, Start(x, b0, k, m, b),
         NEW n \in (m + 1) .. Len(x), \A l \in (m + 1) .. n : Strtox!InBase(b, x[l])
  PROVE  Reading(x, b0, m, n, b)
<1>1. Leading(x, j, k) /\ k \in 0 .. Len(x) /\ Len(x) \in Nat
  BY DEF WholeFront, Leading
<1>2. CASE Prefixed(x, b0, k)
  <2>1. b = 16 /\ m = k + 2 /\ m - 1 = k + 1 /\ m - 2 = k /\ m >= 2 /\ m \in 0 .. Len(x)
    BY <1>1, <1>2 DEF Start, Prefixed
  <2>2. HexAt(x, m, b) /\ (b0 = 0 \/ b0 = 16)
    BY <1>2, <2>1 DEF HexAt, Prefixed
  <2> QED
    BY <1>1, <2>1, <2>2 DEF Reading
<1>3. CASE ~Prefixed(x, b0, k)
  <2>1. m = k /\ b = IF b0 # 0 THEN b0 ELSE IF k < Len(x) /\ x[k + 1] = "0" THEN 8 ELSE 10
    BY <1>3 DEF Start
  <2>2. ~HexAt(x, m, b)
    BY <1>1, <2>1, FrontNoHex
  <2>3. k < Len(x) /\ b \in 2 .. 36
    BY <1>1, <2>1
  <2> QED
    BY <1>1, <2>1, <2>2, <2>3 DEF Reading
<1> QED
  BY <1>2, <1>3

(* So is the 0 of a prefix.                                                *)
LEMMA ZeroReads ==
  ASSUME NEW x \in Seq(Symbols), NEW j, NEW k, WholeFront(x, j, k),
         NEW b0, Prefixed(x, b0, k)
  PROVE  \E b : Reading(x, b0, k, k + 1, b)
<1>1. Leading(x, j, k) /\ k \in 0 .. Len(x) /\ Len(x) \in Nat
  BY DEF WholeFront, Leading
<1>2. PICK b : b = IF b0 = 0 THEN 8 ELSE 16
  OBVIOUS
<1>3. ~HexAt(x, k, b)
  BY <1>1, FrontNoHex
<1>4. b \in 2 .. 36 /\ (b0 = 0 => b = 8) /\ (b0 # 0 => b = b0)
      /\ x[k + 1] = "0" /\ k + 1 \in (k + 1) .. Len(x)
  BY <1>1, <1>2 DEF Prefixed
<1>5. \A l \in (k + 1) .. (k + 1) : Strtox!InBase(b, x[l])
  <2>1. Strtox!InBase(b, "0")
    BY <1>4, ZeroIs
  <2>2. \A l \in (k + 1) .. (k + 1) : l = k + 1
    BY <1>1
  <2> QED
    BY <1>4, <2>1, <2>2
<1> QED
  BY <1>1, <1>3, <1>4, <1>5 DEF Reading

(* 0x before character m + 1.                                              *)
LEMMA HexIs ==
  ASSUME NEW x \in Seq(Symbols), NEW m \in 2 .. Len(x)
  PROVE  SubSeq(SubSeq(x, 1, m), m - 1, m) = << "0", "x" >> <=> x[m - 1] = "0" /\ x[m] = "x"
<1>0. Len(x) \in Nat /\ m \in Nat /\ m <= Len(x) /\ m >= 2
  BY LenProperties
<1>1. PICK y : y = SubSeq(x, 1, m)
  OBVIOUS
<1>2. y \in Seq(Symbols) /\ Len(y) = m /\ \A l \in 1 .. m : y[l] = x[l]
  <2>1. y = SubSeq(x, 0 + 1, m) /\ m - 0 = m /\ 0 \in Nat
    BY <1>0, <1>1
  <2>2. y \in Seq(Symbols) /\ Len(y) = m - 0 /\ \A l \in 1 .. (m - 0) : y[l] = x[0 + l]
    BY <1>0, <2>1, PieceIs
  <2>3. \A l \in 1 .. m : 0 + l = l
    OBVIOUS
  <2> QED
    BY <2>1, <2>2, <2>3
<1>3. PICK o : o = m - 2
  OBVIOUS
<1>4. PICK z : z = SubSeq(y, o + 1, m)
  OBVIOUS
<1>5. o \in Nat /\ o <= m /\ o + 1 = m - 1 /\ o + 2 = m /\ m - o = 2
  BY <1>0, <1>3
<1>6. z \in Seq(Symbols) /\ Len(z) = 2 /\ z[1] = x[m - 1] /\ z[2] = x[m]
  <2>1. z \in Seq(Symbols) /\ Len(z) = m - o /\ \A l \in 1 .. (m - o) : z[l] = y[o + l]
    BY <1>0, <1>2, <1>4, <1>5, PieceIs
  <2>2. z[1] = y[o + 1] /\ z[2] = y[o + 2]
    BY <1>5, <2>1
  <2> QED
    BY <1>0, <1>2, <1>5, <2>1, <2>2
<1>7. z = << "0", "x" >> <=> z[1] = "0" /\ z[2] = "x"
  BY <1>6
<1> QED
  BY <1>1, <1>4, <1>5, <1>6, <1>7

(* Readings are what they are said to be.                                  *)
LEMMA ReadsIs ==
  ASSUME nptr \in Seq(Symbols),
         NEW m \in 0 .. Len(nptr), NEW n \in 1 .. Len(nptr), m < n, NEW b \in 2 .. 36
  PROVE  Strtox!Reads(m, n, b) <=> Reading(nptr, base0, m, n, b)
<1>1. PICK x, b0 : x = nptr /\ b0 = base0
  OBVIOUS
<1>2. x \in Seq(Symbols) /\ Len(x) \in Nat /\ m \in 0 .. Len(x) /\ n \in (m + 1) .. Len(x)
  BY <1>1, LenProperties
<1>3. PICK hex : hex = (b = 16 /\ m >= 2 /\ SubSeq(SubSeq(x, 1, m), m - 1, m) = << "0", "x" >>)
  OBVIOUS
<1>4. hex \in BOOLEAN /\ (hex <=> HexAt(x, m, b))
  <2>1. ASSUME m >= 2
        PROVE SubSeq(SubSeq(x, 1, m), m - 1, m) = << "0", "x" >> <=> x[m - 1] = "0" /\ x[m] = "x"
    <3>1. m \in 2 .. Len(x)
      BY <1>2, <2>1
    <3> QED
      BY <1>2, <3>1, HexIs
  <2> QED
    BY <1>3, <2>1 DEF HexAt
<1>5. Strtox!IsNumber(b, SubSeq(x, m + 1, n)) <=> \A l \in (m + 1) .. n : Strtox!InBase(b, x[l])
  <2>1. PICK t : t = SubSeq(x, m + 1, n)
    OBVIOUS
  <2>2. PICK h : h = n - m
    OBVIOUS
  <2>3. t \in Seq(Symbols) /\ Len(t) = h /\ \A l \in 1 .. h : t[l] = x[m + l]
    <3>1. m \in Nat /\ n \in Nat /\ m <= n /\ n <= Len(x)
      BY <1>2
    <3> QED
      BY <1>2, <2>1, <2>2, <3>1, PieceIs
  <2>4. h \in Nat /\ h > 0 /\ n = m + h /\ m \in Nat
    BY <1>2, <2>2
  <2>5. t # << >>
    BY <2>3, <2>4
  <2>6. ASSUME \A l \in 1 .. h : Strtox!InBase(b, t[l])
        PROVE  \A l \in (m + 1) .. n : Strtox!InBase(b, x[l])
    <3>1. ASSUME NEW l \in (m + 1) .. n  PROVE Strtox!InBase(b, x[l])
      <4>1. PICK i : i = l - m
        OBVIOUS
      <4>2. i \in 1 .. h /\ m + i = l
        BY <2>4, <4>1
      <4> QED
        BY <2>3, <2>6, <4>2
    <3> QED
      BY <3>1
  <2>7. ASSUME \A l \in (m + 1) .. n : Strtox!InBase(b, x[l])
        PROVE  \A l \in 1 .. h : Strtox!InBase(b, t[l])
    <3>1. ASSUME NEW l \in 1 .. h  PROVE Strtox!InBase(b, t[l])
      <4>1. m + l \in (m + 1) .. n
        BY <2>4
      <4> QED
        BY <2>3, <2>7, <4>1
    <3> QED
      BY <3>1
  <2> QED
    BY <2>1, <2>3, <2>5, <2>6, <2>7 DEF Strtox!IsNumber
<1>6. Strtox!Reads(m, n, b) <=>
        /\ Strtox!IsNumber(b, SubSeq(x, m + 1, n))
        /\ \E k \in (IF hex THEN {m, m - 2} ELSE {m}) :
             \E j \in {k, k - 1} :
               /\ j >= 0 /\ \A l \in 1 .. j : Blank(x[l])
               /\ k > j => x[k] \in {"+", "-"}
        /\ b0 = 0 => b = (IF hex THEN 16 ELSE IF x[m + 1] = "0" THEN 8 ELSE 10)
        /\ b0 # 0 => b = b0
  BY <1>1, <1>3, ZenonT(60) DEF Strtox!Reads, Blank
<1>7. ASSUME NEW k \in (IF hex THEN {m, m - 2} ELSE {m}), NEW j \in {k, k - 1},
             j >= 0, \A l \in 1 .. j : Blank(x[l]), k > j => x[k] \in {"+", "-"}
      PROVE  Leading(x, j, k) /\ (k = m \/ (HexAt(x, m, b) /\ k = m - 2))
  <2>1. (k = m \/ (HexAt(x, m, b) /\ k = m - 2)) /\ k \in Int /\ k <= Len(x)
    BY <1>2, <1>4, <1>7
  <2>2. j \in 0 .. Len(x) /\ k \in {j, j + 1}
    BY <1>2, <1>7, <2>1
  <2> QED
    BY <1>7, <2>1, <2>2 DEF Leading
<1>8. ASSUME NEW j, NEW k, Leading(x, j, k), k = m \/ (HexAt(x, m, b) /\ k = m - 2)
      PROVE  /\ k \in (IF hex THEN {m, m - 2} ELSE {m}) /\ j \in {k, k - 1}
             /\ j >= 0 /\ \A l \in 1 .. j : Blank(x[l])
             /\ k > j => x[k] \in {"+", "-"}
  <2>1. /\ j \in 0 .. Len(x) /\ k \in {j, j + 1} /\ \A l \in 1 .. j : Blank(x[l])
        /\ k > j => x[k] \in {"+", "-"}
    BY <1>8 DEF Leading
  <2>2. j \in {k, k - 1} /\ j >= 0
    BY <1>2, <2>1
  <2>3. k \in (IF hex THEN {m, m - 2} ELSE {m})
    BY <1>4, <1>8
  <2> QED
    BY <2>1, <2>2, <2>3
<1>9. (\E k \in (IF hex THEN {m, m - 2} ELSE {m}) :
         \E j \in {k, k - 1} :
           /\ j >= 0 /\ \A l \in 1 .. j : Blank(x[l])
           /\ k > j => x[k] \in {"+", "-"})
      <=> \E j, k : Leading(x, j, k) /\ (k = m \/ (HexAt(x, m, b) /\ k = m - 2))
  BY <1>7, <1>8, ZenonT(60)
<1>10. (IF hex THEN 16 ELSE IF x[m + 1] = "0" THEN 8 ELSE 10)
       = IF HexAt(x, m, b) THEN 16 ELSE IF x[m + 1] = "0" THEN 8 ELSE 10
  BY <1>4
<1>11. Reading(x, b0, m, n, b) <=>
         /\ \A l \in (m + 1) .. n : Strtox!InBase(b, x[l])
         /\ \E j, k : Leading(x, j, k) /\ (k = m \/ (HexAt(x, m, b) /\ k = m - 2))
         /\ b0 = 0 => b = IF HexAt(x, m, b) THEN 16 ELSE IF x[m + 1] = "0" THEN 8 ELSE 10
         /\ b0 # 0 => b = b0
  BY <1>2 DEF Reading
<1> DEFINE F == \E k \in (IF hex THEN {m, m - 2} ELSE {m}) :
                  \E j \in {k, k - 1} :
                    /\ j >= 0 /\ \A l \in 1 .. j : Blank(x[l])
                    /\ k > j => x[k] \in {"+", "-"}
           G == \E j, k : Leading(x, j, k) /\ (k = m \/ (HexAt(x, m, b) /\ k = m - 2))
           D == \A l \in (m + 1) .. n : Strtox!InBase(b, x[l])
           V == IF hex THEN 16 ELSE IF x[m + 1] = "0" THEN 8 ELSE 10
           W == IF HexAt(x, m, b) THEN 16 ELSE IF x[m + 1] = "0" THEN 8 ELSE 10
<1>12. Strtox!Reads(m, n, b) <=> Reading(x, b0, m, n, b)
  <2>1. Strtox!Reads(m, n, b) <=>
          /\ Strtox!IsNumber(b, SubSeq(x, m + 1, n)) /\ F
          /\ b0 = 0 => b = V
          /\ b0 # 0 => b = b0
    BY <1>6
  <2>2. Reading(x, b0, m, n, b) <=> D /\ G /\ (b0 = 0 => b = W) /\ (b0 # 0 => b = b0)
    BY <1>11
  <2>3. /\ Strtox!IsNumber(b, SubSeq(x, m + 1, n)) <=> D
        /\ F <=> G
        /\ V = W
    BY <1>5, <1>9, <1>10
  <2> HIDE DEF F, G, D, V, W
  <2> QED
    BY <2>1, <2>2, <2>3
<1> QED
  BY <1>1, <1>12

(* The largest number that is not clamped, the result, and what it is to   *)
(* be, from the variables.                                                 *)
LimitOf(u, p) == IF p \/ u THEN Strtox!INTMAX(u) ELSE -Strtox!INTMIN
Wrapped(u, n) ==
  IF u \/ n % Word <= Strtox!INTMAX(FALSE) THEN n % Word ELSE (n % Word) - Word
ResultOf(u, p, n, o) ==
  IF o THEN IF ~p /\ ~u THEN Strtox!INTMIN ELSE Strtox!INTMAX(u)
  ELSE IF p THEN Wrapped(u, n) ELSE Wrapped(u, -n)
ClampedOf(u, n, minus) ==
  IF u THEN IF n > Word - 1 THEN Word - 1 ELSE IF minus THEN (-n) % Word ELSE n
  ELSE IF minus THEN (IF -n < Strtox!INTMIN THEN Strtox!INTMIN ELSE -n)
       ELSE IF n > Strtox!INTMAX(FALSE) THEN Strtox!INTMAX(FALSE) ELSE n

(* The limits in half words.                                               *)
LEMMA HalfWord ==
  \E h \in Nat : /\ h > 0 /\ Word = 2 * h /\ Strtox!INTMIN = -h
                 /\ Strtox!INTMAX(FALSE) = h - 1
                 /\ \A u \in BOOLEAN : Strtox!INTMAX(u) = IF u THEN 2 * h - 1 ELSE h - 1
                 /\ \A u, p \in BOOLEAN :
                      LimitOf(u, p) = IF u THEN 2 * h - 1 ELSE IF p THEN h - 1 ELSE h
<1>1. Word \in Nat /\ Word # 0 /\ Word % 2 = 0
  BY AlgorithmsAssumption DEF Strtox!StrtoxAssumption
<1>2. PICK h : h = Word \div 2
  OBVIOUS
<1>3. h \in Nat /\ h > 0 /\ Word = 2 * h
  BY <1>1, <1>2
<1>4. Strtox!INTMIN = -h /\ -Strtox!INTMIN = h
  BY <1>2, <1>3 DEF Strtox!INTMIN
<1>5. ASSUME NEW u \in BOOLEAN
      PROVE  Strtox!INTMAX(u) = IF u THEN 2 * h - 1 ELSE h - 1
  BY <1>2, <1>3 DEF Strtox!INTMAX
<1>6. Strtox!INTMAX(FALSE) = h - 1
  BY <1>2 DEF Strtox!INTMAX
<1>7. ASSUME NEW u \in BOOLEAN, NEW p \in BOOLEAN
      PROVE  LimitOf(u, p) = IF u THEN 2 * h - 1 ELSE IF p THEN h - 1 ELSE h
  <2>1. PICK i : i = Strtox!INTMAX(u)
    OBVIOUS
  <2>2. LimitOf(u, p) = IF p \/ u THEN i ELSE h
    BY <1>4, <2>1, Zenon DEF LimitOf
  <2>3. i = IF u THEN 2 * h - 1 ELSE h - 1
    BY <1>5, <2>1
  <2> QED
    BY <2>2, <2>3
<1> QED
  BY <1>3, <1>4, <1>5, <1>6, <1>7

(* Numbers that are not clamped are less than Word.                        *)
LEMMA LimitIs ==
  ASSUME NEW u \in BOOLEAN, NEW p \in BOOLEAN
  PROVE  LimitOf(u, p) \in Nat /\ LimitOf(u, p) < Word
<1>1. PICK h \in Nat : /\ h > 0 /\ Word = 2 * h /\ Strtox!INTMIN = -h
                       /\ LimitOf(u, p) = IF u THEN 2 * h - 1 ELSE IF p THEN h - 1 ELSE h
  BY HalfWord
<1> QED
  BY <1>1

(* What a word holds of a number, or of its negation.                      *)
LEMMA WordHolds ==
  ASSUME NEW h \in Nat, h > 0, Word = 2 * h, NEW n \in Nat, n < 2 * h
  PROVE  n % Word = n /\ (-n) % Word = IF n = 0 THEN 0 ELSE 2 * h - n
<1>1. PICK w : w = 2 * h
  OBVIOUS
<1>2. w \in Nat /\ w > 0 /\ n < w
  BY <1>1
<1>3. n % w = n
  BY <1>2, Z3
<1>4. n = 0 => (-n) % w = 0
  BY <1>2, <1>3
<1>5. ASSUME n # 0  PROVE (-n) % w = w - n
  <2>1. PICK q, r : q = (-n) \div w /\ r = (-n) % w
    OBVIOUS
  <2>2. q \in Int /\ r \in 0 .. (w - 1) /\ -n = (w * q) + r
    BY <1>2, <2>1, Z3
  <2>3. q = -1
    <3>1. q >= 0 => w * q >= 0
      BY <1>2, <2>2, Z3
    <3>2. q <= -2 => w * q <= w * (-2)
      BY <1>2, <2>2, Z3
    <3> QED
      BY <1>2, <1>5, <2>2, <3>1, <3>2
  <2>4. w * q = -w
    BY <1>2, <2>3
  <2> QED
    BY <1>2, <2>1, <2>2, <2>4
<1> QED
  BY <1>1, <1>3, <1>4, <1>5

(* What is returned is the number, clamped.                                *)
LEMMA ResultClamped ==
  ASSUME NEW u \in BOOLEAN, NEW p \in BOOLEAN, NEW o \in BOOLEAN, NEW n \in Nat, NEW a,
         o => n > LimitOf(u, p), ~o => a = n /\ n <= LimitOf(u, p)
  PROVE  ResultOf(u, p, a, o) = ClampedOf(u, n, ~p)
<1>1. PICK h \in Nat : /\ h > 0 /\ Word = 2 * h /\ Strtox!INTMIN = -h
                       /\ Strtox!INTMAX(FALSE) = h - 1
                       /\ Strtox!INTMAX(u) = IF u THEN 2 * h - 1 ELSE h - 1
                       /\ LimitOf(u, p) = IF u THEN 2 * h - 1 ELSE IF p THEN h - 1 ELSE h
  BY HalfWord
<1>2. CASE o
  <2>1. PICK l, i : l = LimitOf(u, p) /\ i = Strtox!INTMAX(u)
    OBVIOUS
  <2>2. ResultOf(u, p, a, o) = IF ~p /\ ~u THEN -h ELSE i
    BY <1>1, <1>2, <2>1 DEF ResultOf
  <2>3. n > l
    BY <1>2, <2>1
  <2>4. CASE u
    <3>1. n > Word - 1 /\ i = Word - 1
      BY <1>1, <2>1, <2>3, <2>4
    <3>2. ClampedOf(u, n, ~p) = Word - 1
      BY <2>4, <3>1 DEF ClampedOf
    <3> QED
      BY <2>2, <2>4, <3>1, <3>2
  <2>5. CASE ~u /\ p
    <3>1. n > Strtox!INTMAX(FALSE) /\ i = Strtox!INTMAX(FALSE)
      BY <1>1, <2>1, <2>3, <2>5
    <3>2. ClampedOf(u, n, ~p) = Strtox!INTMAX(FALSE)
      BY <2>5, <3>1 DEF ClampedOf
    <3> QED
      BY <2>2, <2>5, <3>1, <3>2
  <2>6. CASE ~u /\ ~p
    <3>1. -n < Strtox!INTMIN
      BY <1>1, <2>1, <2>3, <2>6
    <3>2. ClampedOf(u, n, ~p) = Strtox!INTMIN
      BY <2>6, <3>1 DEF ClampedOf
    <3> QED
      BY <1>1, <2>2, <2>6, <3>2
  <2> QED
    BY <2>4, <2>5, <2>6
<1>3. CASE ~o
  <2> DEFINE l == LimitOf(u, p)
  <2>0. /\ l = IF u THEN 2 * h - 1 ELSE IF p THEN h - 1 ELSE h
        /\ a = n /\ n <= l
    BY <1>1, <1>3
  <2> HIDE DEF l
  <2>1. /\ a = n /\ n <= l /\ n < 2 * h
        /\ u => n <= 2 * h - 1
        /\ ~u => n <= IF p THEN h - 1 ELSE h
    BY <1>1, <2>0
  <2>2. n % Word = n /\ (-n) % Word = IF n = 0 THEN 0 ELSE 2 * h - n
    BY <1>1, <2>1, WordHolds
  <2>3. CASE p
    <3>1. ResultOf(u, p, a, o) = Wrapped(u, n)
      BY <1>3, <2>1, <2>3 DEF ResultOf
    <3>2. Wrapped(u, n) = n
      BY <1>1, <2>1, <2>2, <2>3 DEF Wrapped
    <3>3. ClampedOf(u, n, ~p) = n
      <4>1. (u => ~(n > Word - 1)) /\ (~u => ~(n > Strtox!INTMAX(FALSE)))
        <5>1. PICK w, i : w = Word /\ i = Strtox!INTMAX(FALSE)
          OBVIOUS
        <5>2. w = 2 * h /\ i = h - 1
          BY <1>1, <5>1
        <5>3. (u => n <= 2 * h - 1) /\ (~u => n <= h - 1)
          BY <2>1, <2>3
        <5>4. (u => ~(n > w - 1)) /\ (~u => ~(n > i))
          BY <5>2, <5>3
        <5> QED
          BY <5>1, <5>4
      <4> QED
        BY <2>3, <4>1, Zenon DEF ClampedOf
    <3> QED
      BY <3>1, <3>2, <3>3
  <2>4. CASE ~p
    <3>1. ResultOf(u, p, a, o) = Wrapped(u, -n)
      BY <1>3, <2>1, <2>4 DEF ResultOf
    <3>2. CASE u
      BY <1>1, <2>1, <2>2, <2>4, <3>1, <3>2 DEF Wrapped, ClampedOf
    <3>3. CASE ~u
      <4>1. n <= h
        BY <1>1, <2>1, <2>4, <3>3
      <4>2. Wrapped(u, -n) = -n
        <5>1. PICK r : r = (-n) % Word
          OBVIOUS
        <5>2. Wrapped(u, -n) = IF r <= h - 1 THEN r ELSE r - Word
          BY <1>1, <3>3, <5>1, Zenon DEF Wrapped
        <5>3. r = IF n = 0 THEN 0 ELSE 2 * h - n
          BY <2>2, <5>1
        <5>4. CASE n = 0
          BY <1>1, <5>2, <5>3, <5>4
        <5>5. CASE n # 0
          <6>1. r = 2 * h - n /\ ~(r <= h - 1)
            BY <1>1, <4>1, <5>3, <5>5
          <6> QED
            BY <1>1, <5>2, <6>1
        <5> QED
          BY <5>4, <5>5
      <4> QED
        BY <1>1, <2>4, <3>1, <3>3, <4>1, <4>2 DEF ClampedOf
    <3> QED
      BY <3>2, <3>3
  <2> QED
    BY <2>3, <2>4
<1> QED
  BY <1>2, <1>3

(* Nothing is nothing, however it is clamped.                              *)
LEMMA ClampedZero ==
  ASSUME NEW u \in BOOLEAN, NEW minus \in BOOLEAN
  PROVE  ClampedOf(u, 0, minus) = 0
<1>1. PICK h \in Nat : /\ h > 0 /\ Word = 2 * h /\ Strtox!INTMIN = -h
                       /\ Strtox!INTMAX(FALSE) = h - 1
  BY HalfWord
<1>2. PICK z : z = 0
  OBVIOUS
<1>3. (-z) % Word = 0 /\ -z = 0
  <2>1. z \in Nat /\ z < 2 * h
    BY <1>1, <1>2
  <2>2. (-z) % Word = IF z = 0 THEN 0 ELSE 2 * h - z
    BY <1>1, <2>1, WordHolds
  <2>3. -z = 0
    <3>1. \A y \in Int : -y = 0 - y
      OBVIOUS
    <3>2. z \in Int /\ 0 - z = 0
      BY <1>2
    <3> QED
      BY <3>1, <3>2, Zenon
  <2>4. (-z) % Word = 0
    BY <1>2, <2>2, Zenon
  <2> QED
    BY <2>3, <2>4
<1>4. ClampedOf(u, z, minus) = z
  BY <1>1, <1>2, <1>3 DEF ClampedOf
<1> QED
  BY <1>2, <1>4

(* What is read at position s.                                             *)
CharAt(x, s) == IF s < Len(x) THEN x[s + 1] ELSE "NUL"

(* The digits from m to s count n, or when o more than l.                  *)
Reached(x, m, s, b, l, n, o) ==
  \E f : /\ Counts(f, x, m, s, b)
         /\ o => f[s - m] > l
         /\ ~o => n = f[s - m] /\ n <= l

(* The digits of x are read up to s, and endc is e: front, base and the    *)
(* number so far are as the variables say.                                 *)
ReadTo(x, u, b0, s, b, p, n, o, e, j, k, m) ==
  /\ WholeFront(x, j, k) /\ (p <=> ~(k > j /\ x[k] = "-"))
  /\ Start(x, b0, k, m, b) /\ s \in m .. Len(x)
  /\ \A l \in (m + 1) .. s : Strtox!InBase(b, x[l])
  /\ Reached(x, m, s, b, LimitOf(u, p), n, o)
  /\ e = IF s > m THEN s ELSE IF m = k + 2 THEN k + 1 ELSE 0
ReadOut(x, u, b0, s, b, p, n, o, e) ==
  /\ p \in BOOLEAN /\ o \in BOOLEAN /\ b0 \in {0} \cup 2 .. 36
  /\ \E j, k, m : ReadTo(x, u, b0, s, b, p, n, o, e, j, k, m)

(* Where the digits start, and in which base.                              *)
Placed(x, b0, k, m, b) ==
  /\ k \in 0 .. Len(x) /\ m \in k .. Len(x) /\ b \in 2 .. 36
  /\ Prefixed(x, b0, k) => m = k + 2 /\ x[k + 1] = "0" /\ x[k + 2] = "x"
  /\ ~Prefixed(x, b0, k) => m = k

(* It is behind the front, in a base that has digits.                      *)
LEMMA StartIn ==
  ASSUME NEW x \in Seq(Symbols), NEW j, NEW k, WholeFront(x, j, k),
         NEW b0, b0 \in {0} \cup 2 .. 36, NEW m, NEW b, Start(x, b0, k, m, b)
  PROVE  Placed(x, b0, k, m, b)
<1>1. k \in 0 .. Len(x) /\ Len(x) \in Nat
  BY LenProperties DEF WholeFront, Leading
<1>2. CASE Prefixed(x, b0, k)
  BY <1>1, <1>2 DEF Start, Prefixed, Placed
<1>3. CASE ~Prefixed(x, b0, k)
  <2>1. m = k /\ b = IF b0 # 0 THEN b0 ELSE IF k < Len(x) /\ x[k + 1] = "0" THEN 8 ELSE 10
    BY <1>3 DEF Start
  <2>2. b \in 2 .. 36
    BY <2>1
  <2>3. m \in k .. Len(x)
    BY <1>1, <2>1
  <2> QED
    BY <1>1, <1>3, <2>1, <2>2, <2>3 DEF Placed
<1> QED
  BY <1>1, <1>2, <1>3

(* Only the sign of the front is a minus.                                  *)
LEMMA SignIs ==
  ASSUME NEW x \in Seq(Symbols), NEW j, NEW k, WholeFront(x, j, k),
         NEW m, m = k \/ (m = k + 2 /\ x[k + 1] = "0" /\ x[k + 2] = "x")
  PROVE  (\E l \in 1 .. m : x[l] = "-") <=> k > j /\ x[k] = "-"
<1>1. /\ j \in Nat /\ k \in Nat /\ (k = j \/ k = j + 1)
      /\ \A l \in 1 .. j : Blank(x[l])
  BY DEF WholeFront, Leading
<1>2. ~Blank("-")
  BY Zenon DEF Blank
<1>3. ASSUME NEW l \in 1 .. m, x[l] = "-"  PROVE k > j /\ x[k] = "-"
  <2>1. ~(l \in 1 .. j)
    BY <1>1, <1>2, <1>3
  <2>2. (l # k + 1 /\ l # k + 2) \/ m = k
    BY <1>3
  <2>3. l = k
    BY <1>1, <2>1, <2>2
  <2> QED
    BY <1>1, <1>3, <2>1, <2>3
<1>4. ASSUME k > j, x[k] = "-"  PROVE \E l \in 1 .. m : x[l] = "-"
  <2>1. k \in 1 .. m
    BY <1>1, <1>4
  <2> QED
    BY <1>4, <2>1
<1> QED
  BY <1>3, <1>4

(* The readings, as a set.                                                 *)
LEMMA ReadingsAre ==
  ASSUME nptr \in Seq(Symbols), base0 \in Bases
  PROVE  /\ \A m, n, b : Reading(nptr, base0, m, n, b) => << m, n, b >> \in Strtox!Readings
         /\ \A r \in Strtox!Readings :
              Reading(nptr, base0, r[1], r[2], r[3]) /\ r = << r[1], r[2], r[3] >>
<1>0. Len(nptr) \in Nat
  BY LenProperties
<1>1. ASSUME NEW m, NEW n, NEW b, Reading(nptr, base0, m, n, b)
      PROVE  << m, n, b >> \in Strtox!Readings
  <2>1. /\ m \in 0 .. Len(nptr) /\ n \in 1 .. Len(nptr) /\ m < n /\ b \in 2 .. 36
    BY <1>0, <1>1 DEF Reading
  <2>2. b \in {8, 10, 16} \cup Bases
    BY <1>1 DEF Reading
  <2>3. Strtox!Reads(m, n, b)
    BY <1>1, <2>1, ReadsIs
  <2>4. PICK r : r = << m, n, b >>
    OBVIOUS
  <2>5. /\ r \in (0 .. Len(nptr)) \X (1 .. Len(nptr)) \X ({8, 10, 16} \cup Bases)
        /\ r[1] = m /\ r[2] = n /\ r[3] = b
    BY <2>1, <2>2, <2>4
  <2> QED
    BY <2>1, <2>3, <2>4, <2>5 DEF Strtox!Readings
<1>2. ASSUME NEW r \in Strtox!Readings
      PROVE  Reading(nptr, base0, r[1], r[2], r[3]) /\ r = << r[1], r[2], r[3] >>
  <2>1. /\ r \in (0 .. Len(nptr)) \X (1 .. Len(nptr)) \X ({8, 10, 16} \cup Bases)
        /\ r[1] < r[2] /\ r[3] \in 2 .. 36 /\ Strtox!Reads(r[1], r[2], r[3])
    BY DEF Strtox!Readings
  <2>2. PICK m, n, b : m = r[1] /\ n = r[2] /\ b = r[3]
    OBVIOUS
  <2>3. /\ m \in 0 .. Len(nptr) /\ n \in 1 .. Len(nptr) /\ m < n /\ b \in 2 .. 36
        /\ Strtox!Reads(m, n, b) /\ r = << m, n, b >>
    BY <2>1, <2>2
  <2>4. Reading(nptr, base0, m, n, b)
    BY <2>3, ReadsIs
  <2> QED
    BY <2>2, <2>3, <2>4
<1> QED
  BY <1>1, <1>2

(* A reading that no other is longer than is chosen.                       *)
LEMMA LongestIs ==
  ASSUME NEW R, NEW w \in R, \A q \in R : q[2] <= w[2]
  PROVE  Strtox!Longest(R) \in R /\ \A q \in R : q[2] <= Strtox!Longest(R)[2]
BY DEF Strtox!Longest

(* When digits were read, they are the longest number.                     *)
LEMMA DigitsLongest ==
  ASSUME nptr \in Seq(Symbols), base0 \in Bases, base0 \in {0} \cup 2 .. 36,
         NEW j, NEW k, WholeFront(nptr, j, k),
         NEW m, NEW b, Start(nptr, base0, k, m, b),
         NEW s \in m .. Len(nptr), \A l \in (m + 1) .. s : Strtox!InBase(b, nptr[l]),
         ~Strtox!InBase(b, CharAt(nptr, s)), s > m
  PROVE  /\ Strtox!Readings # {}
         /\ Strtox!Longest(Strtox!Readings) = << m, s, b >>
<1>1. PICK x, b0 : x = nptr /\ b0 = base0
  OBVIOUS
<1>2. PICK R : R = Strtox!Readings
  OBVIOUS
<1>3. /\ x \in Seq(Symbols) /\ Len(x) \in Nat /\ WholeFront(x, j, k)
      /\ Start(x, b0, k, m, b) /\ b0 \in {0} \cup 2 .. 36
  BY <1>1, LenProperties
<1>4. /\ \A h, n, c : Reading(x, b0, h, n, c) => << h, n, c >> \in R
      /\ \A r \in R : Reading(x, b0, r[1], r[2], r[3]) /\ r = << r[1], r[2], r[3] >>
  BY <1>1, <1>2, ReadingsAre
<1>5. /\ k \in 0 .. Len(x) /\ m \in k .. Len(x) /\ b \in 2 .. 36 /\ s \in (m + 1) .. Len(x)
      /\ Prefixed(x, b0, k) => m = k + 2
  <2>0. Placed(x, b0, k, m, b)
    BY <1>3, StartIn
  <2>1. /\ k \in 0 .. Len(x) /\ m \in k .. Len(x) /\ b \in 2 .. 36
        /\ Prefixed(x, b0, k) => m = k + 2
    BY <2>0 DEF Placed
  <2>2. s \in m .. Len(x) /\ s > m
    BY <1>1
  <2>3. s \in (m + 1) .. Len(x)
    BY <1>3, <2>1, <2>2
  <2> QED
    BY <2>1, <2>3
<1>6. PICK w : w = << m, s, b >>
  OBVIOUS
<1>7. w \in R
  <2>1. Reading(x, b0, m, s, b)
    BY <1>1, <1>3, <1>5, StartReads
  <2> QED
    BY <1>4, <1>6, <2>1
<1>8. ASSUME NEW q \in R
      PROVE  q[2] <= s /\ (q[2] = s => q = w)
  <2>1. PICK h, n, c : h = q[1] /\ n = q[2] /\ c = q[3]
    OBVIOUS
  <2>2. Reading(x, b0, h, n, c) /\ q = << h, n, c >>
    BY <1>4, <2>1
  <2>3. (h = m /\ c = b) \/ (Prefixed(x, b0, k) /\ h = k /\ n = k + 1)
    BY <1>3, <2>2, OnlyReading
  <2>4. CASE h = m /\ c = b
    <3>1. n \in (m + 1) .. Len(x) /\ \A l \in (m + 1) .. n : Strtox!InBase(b, x[l])
      BY <2>2, <2>4 DEF Reading
    <3>2. ~(s < n)
      <4>1. ASSUME s < n  PROVE FALSE
        <5>1. s + 1 \in (m + 1) .. n /\ s < Len(x)
          BY <1>3, <1>5, <3>1, <4>1
        <5>2. CharAt(nptr, s) = x[s + 1]
          BY <1>1, <5>1 DEF CharAt
        <5> QED
          BY <3>1, <5>1, <5>2
      <4> QED
        BY <4>1
    <3> QED
      BY <1>5, <1>6, <2>1, <2>2, <2>4, <3>1, <3>2
  <2>5. CASE Prefixed(x, b0, k) /\ h = k /\ n = k + 1
    <3>1. n < s
      BY <1>5, <2>5
    <3> QED
      BY <1>5, <2>1, <2>5, <3>1
  <2> QED
    BY <2>3, <2>4, <2>5
<1>9. Strtox!Longest(R) \in R /\ \A q \in R : q[2] <= Strtox!Longest(R)[2]
  <2>1. w[2] = s
    BY <1>6
  <2>2. \A q \in R : q[2] <= w[2]
    BY <1>8, <2>1
  <2> QED
    BY <1>7, <2>2, LongestIs
<1>10. PICK r : r = Strtox!Longest(R)
  OBVIOUS
<1>11. r \in R /\ s <= r[2] /\ r[2] <= s /\ r[2] \in Int
  <2>1. r \in R /\ w[2] <= r[2] /\ w[2] = s
    BY <1>6, <1>7, <1>9, <1>10
  <2>2. PICK n : n = r[2]
    OBVIOUS
  <2>3. Reading(x, b0, r[1], n, r[3])
    BY <1>4, <2>1, <2>2
  <2>4. n \in Int
    BY <2>3 DEF Reading
  <2> QED
    BY <1>8, <2>1, <2>2, <2>4
<1>12. r = w
  BY <1>5, <1>8, <1>11
<1> QED
  BY <1>2, <1>6, <1>7, <1>10, <1>12

(* When none was read, the 0 of a prefix is the longest number, or there is*)
(* none.                                                                   *)
LEMMA NoDigits ==
  ASSUME nptr \in Seq(Symbols), base0 \in Bases, base0 \in {0} \cup 2 .. 36,
         NEW j, NEW k, WholeFront(nptr, j, k),
         NEW m \in Nat, NEW b, Start(nptr, base0, k, m, b),
         ~Strtox!InBase(b, CharAt(nptr, m))
  PROVE  /\ ~Prefixed(nptr, base0, k) => Strtox!Readings = {}
         /\ Prefixed(nptr, base0, k) =>
              /\ Strtox!Readings # {}
              /\ \E c \in 2 .. 36 : Strtox!Longest(Strtox!Readings) = << k, k + 1, c >>
<1>1. PICK x, b0 : x = nptr /\ b0 = base0
  OBVIOUS
<1>2. PICK R : R = Strtox!Readings
  OBVIOUS
<1>3. /\ x \in Seq(Symbols) /\ Len(x) \in Nat /\ WholeFront(x, j, k)
      /\ Start(x, b0, k, m, b) /\ b0 \in {0} \cup 2 .. 36
  BY <1>1, LenProperties
<1>4. /\ \A h, n, c : Reading(x, b0, h, n, c) => << h, n, c >> \in R
      /\ \A r \in R : Reading(x, b0, r[1], r[2], r[3]) /\ r = << r[1], r[2], r[3] >>
  BY <1>1, <1>2, ReadingsAre
<1>5. ASSUME NEW q \in R
      PROVE  Prefixed(x, b0, k) /\ \E c \in 2 .. 36 : q = << k, k + 1, c >>
  <2>1. PICK h, n, c : h = q[1] /\ n = q[2] /\ c = q[3]
    OBVIOUS
  <2>2. Reading(x, b0, h, n, c) /\ q = << h, n, c >>
    BY <1>4, <2>1
  <2>3. /\ c \in 2 .. 36 /\ n \in (h + 1) .. Len(x) /\ h \in Nat
        /\ \A l \in (h + 1) .. n : Strtox!InBase(c, x[l])
    BY <2>2 DEF Reading
  <2>4. ~(h = m /\ c = b)
    <3>1. ASSUME h = m, c = b  PROVE FALSE
      <4>1. m + 1 \in (h + 1) .. n /\ m < Len(x)
        BY <1>3, <2>3, <3>1
      <4>2. CharAt(nptr, m) = x[m + 1]
        BY <1>1, <4>1 DEF CharAt
      <4> QED
        BY <2>3, <3>1, <4>1, <4>2
    <3> QED
      BY <3>1
  <2>5. (h = m /\ c = b) \/ (Prefixed(x, b0, k) /\ h = k /\ n = k + 1)
    BY <1>3, <2>2, OnlyReading
  <2> QED
    BY <2>2, <2>3, <2>4, <2>5
<1>6. ASSUME Prefixed(x, b0, k)
      PROVE  R # {} /\ \E c \in 2 .. 36 : Strtox!Longest(R) = << k, k + 1, c >>
  <2>1. PICK c : Reading(x, b0, k, k + 1, c)
    BY <1>3, <1>6, ZeroReads
  <2>2. PICK w : w = << k, k + 1, c >>
    OBVIOUS
  <2>3. w \in R /\ w[2] = k + 1
    BY <1>4, <2>1, <2>2
  <2>4. \A q \in R : q[2] <= w[2]
    <3>1. k + 1 \in Int
      <4>1. k \in Int
        BY <1>3 DEF WholeFront, Leading
      <4> QED
        BY <4>1
    <3>2. \A q \in R : q[2] = k + 1
      BY <1>5
    <3> QED
      BY <2>3, <3>1, <3>2
  <2>5. Strtox!Longest(R) \in R
    BY <2>3, <2>4, LongestIs
  <2> QED
    BY <1>5, <2>3, <2>5
<1> QED
  BY <1>1, <1>2, <1>5, <1>6

(* When the digits end, what is returned is the longest number.            *)
LEMMA ReadOutConverts ==
  ASSUME nptr \in Seq(Symbols), base0 \in Bases, unsigned \in BOOLEAN,
         ReadOut(nptr, unsigned, base0, upto, base, positive, absval, overflow, endc),
         ~Strtox!InBase(base, CharAt(nptr, upto)),
         value = ResultOf(unsigned, positive, absval, overflow)
  PROVE  IF Strtox!Readings = {} THEN value = 0 /\ endc = 0
         ELSE LET r == Strtox!Longest(Strtox!Readings) IN
              /\ endc = r[2]
              /\ value = Strtox!Clamped(Strtox!Number(r[3], SubSeq(nptr, r[1] + 1, r[2])),
                                        Strtox!Negative(r[1]))
<1>1. positive \in BOOLEAN /\ overflow \in BOOLEAN /\ base0 \in {0} \cup 2 .. 36
  BY DEF ReadOut
<1>2. PICK j, k, m : ReadTo(nptr, unsigned, base0, upto, base, positive, absval, overflow,
                            endc, j, k, m)
  BY DEF ReadOut
<1>3. PICK x, u, s, b, p, n, o :
        /\ x = nptr /\ u = unsigned /\ s = upto /\ b = base
        /\ p = positive /\ n = absval /\ o = overflow
  OBVIOUS
<1>4. /\ WholeFront(x, j, k) /\ (p <=> ~(k > j /\ x[k] = "-"))
      /\ Start(x, base0, k, m, b) /\ s \in m .. Len(x)
      /\ \A l \in (m + 1) .. s : Strtox!InBase(b, x[l])
      /\ Reached(x, m, s, b, LimitOf(u, p), n, o)
      /\ endc = IF s > m THEN s ELSE IF m = k + 2 THEN k + 1 ELSE 0
      /\ ~Strtox!InBase(b, CharAt(x, s)) /\ x \in Seq(Symbols) /\ Len(x) \in Nat
  BY <1>2, <1>3, LenProperties DEF ReadTo
<1>5. /\ k \in 0 .. Len(x) /\ m \in k .. Len(x) /\ b \in 2 .. 36
      /\ Prefixed(x, base0, k) => m = k + 2 /\ x[k + 1] = "0" /\ x[k + 2] = "x"
      /\ ~Prefixed(x, base0, k) => m = k
  <2>1. PICK b0 : b0 = base0
    OBVIOUS
  <2>2. b0 \in {0} \cup 2 .. 36 /\ Start(x, b0, k, m, b)
    BY <1>1, <1>4, <2>1
  <2>3. Placed(x, b0, k, m, b)
    BY <1>4, <2>2, StartIn
  <2> QED
    BY <2>1, <2>3 DEF Placed
<1>6. PICK f : /\ Counts(f, x, m, s, b)
               /\ o => f[s - m] > LimitOf(u, p)
               /\ ~o => n = f[s - m] /\ n <= LimitOf(u, p)
  BY <1>4 DEF Reached
<1>7. PICK number : number = f[s - m]
  OBVIOUS
<1>8. number \in Nat
  <2>1. s - m \in 0 .. (s - m)
    BY <1>4, <1>5
  <2> QED
    BY <1>6, <1>7, <2>1 DEF Counts
<1>9. ResultOf(u, p, n, o) = ClampedOf(u, number, ~p)
  <2>1. u \in BOOLEAN /\ p \in BOOLEAN /\ o \in BOOLEAN
    BY <1>1, <1>3
  <2> QED
    BY <1>6, <1>7, <1>8, <2>1, ResultClamped
<1>10. value = ResultOf(u, p, n, o)
  BY <1>3
<1>11. ASSUME NEW a, NEW minus  PROVE Strtox!Clamped(a, minus) = ClampedOf(u, a, minus)
  BY <1>3, Zenon DEF Strtox!Clamped, ClampedOf
<1>12. CASE s > m
  <2>1. Strtox!Readings # {} /\ Strtox!Longest(Strtox!Readings) = << m, s, b >>
    BY <1>1, <1>3, <1>4, <1>12, DigitsLongest
  <2>2. Strtox!Number(b, SubSeq(x, m + 1, s)) = number
    <3>1. m \in Nat /\ s \in Nat /\ m <= s /\ s <= Len(x)
      BY <1>4, <1>5
    <3> QED
      BY <1>4, <1>6, <1>7, <3>1, NumberIs
  <2>3. Strtox!Negative(m) = ~p
    <3>1. Strtox!Negative(m) <=> k > j /\ x[k] = "-"
      <4>1. m = k \/ (m = k + 2 /\ x[k + 1] = "0" /\ x[k + 2] = "x")
        BY <1>5
      <4>2. (\E l \in 1 .. m : x[l] = "-") <=> k > j /\ x[k] = "-"
        BY <1>4, <4>1, SignIs
      <4> QED
        BY <1>3, <4>2 DEF Strtox!Negative
    <3>2. Strtox!Negative(m) \in BOOLEAN
      BY DEF Strtox!Negative
    <3> QED
      BY <1>1, <1>3, <1>4, <3>1, <3>2
  <2>4. Strtox!Clamped(number, ~p) = ClampedOf(u, number, ~p)
    BY <1>11
  <2>5. endc = s
    BY <1>4, <1>12
  <2>6. value = Strtox!Clamped(Strtox!Number(b, SubSeq(nptr, m + 1, s)), Strtox!Negative(m))
    <3>1. Strtox!Number(b, SubSeq(nptr, m + 1, s)) = number
      BY <1>3, <2>2
    <3> QED
      BY <1>9, <1>10, <2>3, <2>4, <3>1, Zenon
  <2>7. PICK r : r = << m, s, b >>
    OBVIOUS
  <2>8. r[1] = m /\ r[2] = s /\ r[3] = b
    BY <2>7
  <2> QED
    BY <2>1, <2>5, <2>6, <2>7, <2>8, Zenon
<1>13. CASE ~(s > m)
  <2>1. s = m
    BY <1>4, <1>5, <1>13
  <2>2. number = 0
    BY <1>5, <1>6, <1>7, <2>1 DEF Counts
  <2>3. value = 0
    BY <1>1, <1>3, <1>9, <1>10, <2>2, ClampedZero
  <2>4. /\ ~Prefixed(x, base0, k) => Strtox!Readings = {}
        /\ Prefixed(x, base0, k) =>
             /\ Strtox!Readings # {}
             /\ \E c \in 2 .. 36 : Strtox!Longest(Strtox!Readings) = << k, k + 1, c >>
    <3>1. m \in Nat
      BY <1>5
    <3> QED
      BY <1>1, <1>3, <1>4, <2>1, <3>1, NoDigits
  <2>5. CASE ~Prefixed(x, base0, k)
    BY <1>4, <1>5, <1>13, <2>3, <2>4, <2>5
  <2>6. CASE Prefixed(x, base0, k)
    <3>1. PICK c \in 2 .. 36 : Strtox!Longest(Strtox!Readings) = << k, k + 1, c >>
      BY <2>4, <2>6
    <3>2. endc = k + 1 /\ x[k + 1] = "0" /\ k \in Nat /\ k + 1 \in Nat /\ k + 1 <= Len(x)
      BY <1>4, <1>5, <1>13, <2>6
    <3>3. Strtox!Number(c, SubSeq(x, k + 1, k + 1)) = 0
      <4>1. PICK g : Counts(g, x, k, k, c) /\ g[k - k] = 0
        BY <3>2, CountsNone
      <4>2. Strtox!InBase(c, "0") /\ ValueOf(c, "0") = 0
        BY <3>1, ZeroIs
      <4>3. PICK h : DigitMore(g, h, x, k, k, c)
        <5>1. Strtox!InBase(c, x[k + 1]) /\ k <= k
          BY <3>2, <4>2
        <5> QED
          BY <3>1, <3>2, <4>1, <5>1, CountsMore
      <4>4. h[(k + 1) - k] = 0
        BY <3>1, <3>2, <4>1, <4>2, <4>3 DEF DigitMore
      <4>5. Strtox!Number(c, SubSeq(x, k + 1, k + 1)) = h[(k + 1) - k]
        <5>1. PICK k1 : k1 = k + 1
          OBVIOUS
        <5>2. Counts(h, x, k, k1, c)
          BY <4>3, <5>1 DEF DigitMore
        <5>3. k \in Nat /\ k1 \in Nat /\ k <= k1 /\ k1 <= Len(x)
          BY <3>2, <5>1
        <5>4. Strtox!Number(c, SubSeq(x, k + 1, k1)) = h[k1 - k]
          BY <1>4, <5>2, <5>3, NumberIs
        <5> QED
          BY <5>1, <5>4
      <4> QED
        BY <4>4, <4>5
    <3>4. Strtox!Clamped(0, Strtox!Negative(k)) = 0
      <4>1. Strtox!Negative(k) \in BOOLEAN
        BY DEF Strtox!Negative
      <4>2. PICK minus \in BOOLEAN : minus = Strtox!Negative(k)
        BY <4>1
      <4>3. ClampedOf(u, 0, minus) = 0
        BY <1>3, ClampedZero
      <4> QED
        BY <1>11, <4>2, <4>3
    <3>5. PICK r : r = << k, k + 1, c >>
      OBVIOUS
    <3>6. r[1] = k /\ r[2] = k + 1 /\ r[3] = c
      BY <3>5
    <3>7. value = Strtox!Clamped(Strtox!Number(c, SubSeq(nptr, k + 1, k + 1)),
                                 Strtox!Negative(k))
      BY <1>3, <2>3, <3>3, <3>4, Zenon
    <3> QED
      BY <2>4, <2>6, <3>1, <3>2, <3>5, <3>6, <3>7, Zenon
  <2> QED
    BY <2>5, <2>6
<1> QED
  BY <1>12, <1>13

-----------------------------------------------------------------------------
(* What is read of the string before each step: white space, then a sign,  *)
(* then digits.                                                            *)
SpacesRead(x, s) == s \in 0 .. Len(x) /\ \A l \in 1 .. s : Blank(x[l])
SignRead(x, s, p) ==
  p \in BOOLEAN /\ \E j : WholeFront(x, j, s) /\ (p <=> ~(s > j /\ x[s] = "-"))
Untouched == base = base0 /\ absval = 0 /\ overflow = FALSE /\ endc = 0
Converted ==
  /\ ReadOut(nptr, unsigned, base0, upto, base, positive, absval, overflow, endc)
  /\ ~Strtox!InBase(base, CharAt(nptr, upto))
  /\ value = ResultOf(unsigned, positive, absval, overflow)

StrtoxInv ==
  /\ nptr \in Seq(Symbols) /\ unsigned \in BOOLEAN /\ base0 \in Bases
  /\ xpc = "space" => SpacesRead(nptr, upto) /\ Untouched
  /\ xpc = "sign" => /\ SpacesRead(nptr, upto) /\ Untouched /\ base0 \in {0} \cup 2 .. 36
                     /\ upto < Len(nptr) => ~Blank(nptr[upto + 1])
  /\ xpc = "prefix" => SignRead(nptr, upto, positive) /\ Untouched /\ base0 \in {0} \cup 2 .. 36
  /\ xpc = "digits" =>
       ReadOut(nptr, unsigned, base0, upto, base, positive, absval, overflow, endc)
  /\ xpc = "done" => endc = -1 \/ Converted

(* A base that there is not is refused.                                    *)
LEMMA BaseRefusedKeepsInv ==
  ASSUME StrtoxInv, Strtox!BaseRefused
  PROVE  StrtoxInv'
BY DEF StrtoxInv, Strtox!BaseRefused, Strtox!args

(* The white space is read one character at a time.                        *)
LEMMA SkipSpaceKeepsInv ==
  ASSUME StrtoxInv, Strtox!SkipSpace
  PROVE  StrtoxInv'
<1>1. PICK c : c = CharAt(nptr, upto)
  OBVIOUS
<1>2. /\ xpc = "space" /\ base0 \in {0} \cup 2 .. 36
      /\ \/ Blank(c) /\ upto' = upto + 1 /\ xpc' = xpc
         \/ ~Blank(c) /\ upto' = upto /\ xpc' = "sign"
      /\ UNCHANGED << Strtox!args, base, positive, absval, overflow, endc, value >>
  BY <1>1, Zenon DEF Strtox!SkipSpace, Strtox!Char, CharAt, Blank
<1>3. /\ nptr' = nptr /\ unsigned' = unsigned /\ base0' = base0 /\ base' = base
      /\ absval' = absval /\ overflow' = overflow /\ endc' = endc
  BY <1>2 DEF Strtox!args
<1>4. /\ nptr \in Seq(Symbols) /\ unsigned \in BOOLEAN /\ base0 \in Bases
      /\ SpacesRead(nptr, upto) /\ Untouched /\ Untouched'
  BY <1>2, <1>3 DEF StrtoxInv, Untouched
<1>5. Len(nptr) \in Nat /\ upto \in 0 .. Len(nptr) /\ \A l \in 1 .. upto : Blank(nptr[l])
  BY <1>4, LenProperties DEF SpacesRead
<1>6. CASE Blank(c) /\ upto' = upto + 1 /\ xpc' = xpc
  <2>1. ~Blank("NUL")
    BY Zenon DEF Blank
  <2>2. upto < Len(nptr) /\ Blank(nptr[upto + 1])
    BY <1>1, <1>6, <2>1 DEF CharAt
  <2>3. upto + 1 \in 0 .. Len(nptr) /\ \A l \in 1 .. (upto + 1) : l \in 1 .. upto \/ l = upto + 1
    BY <1>5, <2>2
  <2>4. SpacesRead(nptr, upto)'
    BY <1>3, <1>5, <1>6, <2>2, <2>3 DEF SpacesRead
  <2> QED
    BY <1>2, <1>3, <1>4, <1>6, <2>4 DEF StrtoxInv
<1>7. CASE ~Blank(c) /\ upto' = upto /\ xpc' = "sign"
  <2>1. SpacesRead(nptr, upto)'
    BY <1>3, <1>4, <1>7 DEF SpacesRead
  <2>2. upto < Len(nptr) => ~Blank(nptr[upto + 1])
    BY <1>1, <1>7 DEF CharAt
  <2>3. (upto < Len(nptr) => ~Blank(nptr[upto + 1]))'
    BY <1>3, <1>7, <2>2
  <2> QED
    BY <1>2, <1>3, <1>4, <1>7, <2>1, <2>3 DEF StrtoxInv
<1> QED
  BY <1>2, <1>6, <1>7

(* Then the sign, if there is one.                                         *)
LEMMA SignKeepsInv ==
  ASSUME StrtoxInv, Strtox!Sign
  PROVE  StrtoxInv'
<1>1. PICK c : c = CharAt(nptr, upto)
  OBVIOUS
<1>2. /\ xpc = "sign" /\ xpc' = "prefix" /\ upto' = IF c \in {"+", "-"} THEN upto + 1 ELSE upto
      /\ positive' = (c # "-")
      /\ UNCHANGED << Strtox!args, base, absval, overflow, endc, value >>
  BY <1>1, Zenon DEF Strtox!Sign, Strtox!Char, CharAt
<1>3. /\ nptr' = nptr /\ unsigned' = unsigned /\ base0' = base0 /\ base' = base
      /\ absval' = absval /\ overflow' = overflow /\ endc' = endc
  BY <1>2 DEF Strtox!args
<1>4. /\ nptr \in Seq(Symbols) /\ unsigned \in BOOLEAN /\ base0 \in Bases
      /\ SpacesRead(nptr, upto) /\ Untouched /\ Untouched' /\ base0 \in {0} \cup 2 .. 36
      /\ upto < Len(nptr) => ~Blank(nptr[upto + 1])
  BY <1>2, <1>3 DEF StrtoxInv, Untouched
<1>5. PICK x, j, k, p : x = nptr /\ j = upto /\ k = upto' /\ p = positive'
  OBVIOUS
<1>6. /\ Len(x) \in Nat /\ j \in 0 .. Len(x) /\ \A l \in 1 .. j : Blank(x[l])
      /\ k = IF c \in {"+", "-"} THEN j + 1 ELSE j
      /\ c = IF j < Len(x) THEN x[j + 1] ELSE "NUL"
      /\ j < Len(x) => ~Blank(x[j + 1])
  BY <1>1, <1>2, <1>4, <1>5, LenProperties DEF SpacesRead, CharAt
<1>7. p \in BOOLEAN /\ (p <=> c # "-")
  BY <1>2, <1>5, Zenon
<1>8. WholeFront(x, j, k) /\ (p <=> ~(k > j /\ x[k] = "-"))
  <2>1. CASE c \in {"+", "-"}
    <3>1. j < Len(x) /\ k = j + 1 /\ x[k] = c
      BY <1>6, <2>1
    <3> QED
      BY <1>6, <1>7, <2>1, <3>1 DEF WholeFront, Leading
  <2>2. CASE c \notin {"+", "-"}
    <3>1. k = j /\ (k < Len(x) => x[k + 1] = c)
      BY <1>6, <2>2
    <3> QED
      BY <1>6, <1>7, <2>2, <3>1 DEF WholeFront, Leading
  <2> QED
    BY <2>1, <2>2
<1>9. SignRead(x, k, p)
  BY <1>7, <1>8 DEF SignRead
<1>10. SignRead(nptr, upto, positive)'
  BY <1>3, <1>5, <1>9
<1> QED
  BY <1>2, <1>3, <1>4, <1>10 DEF StrtoxInv

(* Then the prefix that sets the base: no digit is read yet.               *)
LEMMA PrefixKeepsInv ==
  ASSUME StrtoxInv, Strtox!Prefix
  PROVE  StrtoxInv'
<1>1. PICK x, b0, k, hex, c : /\ x = nptr /\ b0 = base0 /\ k = upto
                              /\ hex = Strtox!HexPrefix /\ c = CharAt(nptr, upto)
  OBVIOUS
<1>2. /\ xpc = "prefix" /\ xpc' = "digits"
      /\ IF base \in {0, 16} /\ Strtox!HexPrefix
         THEN base' = 16 /\ upto' = upto + 2 /\ endc' = upto + 1
         ELSE /\ base' = IF base # 0 THEN base ELSE IF c = "0" THEN 8 ELSE 10
              /\ UNCHANGED << upto, endc >>
      /\ UNCHANGED << Strtox!args, positive, absval, overflow, value >>
  BY <1>1, Zenon DEF Strtox!Prefix, Strtox!Char, CharAt
<1>3. /\ nptr' = nptr /\ unsigned' = unsigned /\ base0' = base0
      /\ positive' = positive /\ absval' = absval /\ overflow' = overflow
  BY <1>2 DEF Strtox!args
<1>4. /\ nptr \in Seq(Symbols) /\ unsigned \in BOOLEAN /\ base0 \in Bases
      /\ SignRead(nptr, upto, positive) /\ base0 \in {0} \cup 2 .. 36
      /\ base = base0 /\ absval = 0 /\ overflow = FALSE /\ endc = 0
  BY <1>2 DEF StrtoxInv, Untouched
<1>5. positive \in BOOLEAN /\ \E j : WholeFront(x, j, k) /\ (positive <=> ~(k > j /\ x[k] = "-"))
  BY <1>1, <1>4 DEF SignRead
<1>6. PICK j : WholeFront(x, j, k) /\ (positive <=> ~(k > j /\ x[k] = "-"))
  BY <1>5
<1>7. Len(x) \in Nat /\ k \in 0 .. Len(x) /\ x \in Seq(Symbols)
  BY <1>1, <1>4, <1>6, LenProperties DEF WholeFront, Leading
<1>8. Strtox!HexPrefix <=> k + 2 <= Len(x) /\ x[k + 1] = "0" /\ x[k + 2] = "x"
  <2>1. PICK t, n : t = Strtox!Rest /\ n = Len(x)
    OBVIOUS
  <2>2. t = SubSeq(x, k + 1, n) /\ k \in Nat /\ n \in Nat /\ k <= n /\ n <= Len(x)
    BY <1>1, <1>7, <2>1 DEF Strtox!Rest
  <2>3. t \in Seq(Symbols) /\ Len(t) = n - k /\ \A l \in 1 .. (n - k) : t[l] = x[k + l]
    BY <1>7, <2>2, PieceIs
  <2>4. n - k >= 2 <=> k + 2 <= Len(x)
    BY <1>7, <2>1
  <2>5. n - k >= 2 => t[1] = x[k + 1] /\ t[2] = x[k + 2]
    BY <2>2, <2>3
  <2>6. Strtox!HexPrefix <=> Len(t) >= 2 /\ t[1] = "0" /\ t[2] = "x"
    BY <2>1 DEF Strtox!HexPrefix
  <2> QED
    BY <2>3, <2>4, <2>5, <2>6
<1>9. base \in {0, 16} /\ Strtox!HexPrefix <=> Prefixed(x, b0, k)
  BY <1>1, <1>4, <1>8 DEF Prefixed
<1>10. PICK m, b, e : m = upto' /\ b = base' /\ e = endc'
  OBVIOUS
<1>11. /\ m = IF Prefixed(x, b0, k) THEN k + 2 ELSE k
       /\ e = IF m = k + 2 THEN k + 1 ELSE 0
       /\ Start(x, b0, k, m, b)
  <2>1. CASE Prefixed(x, b0, k)
    <3>1. b = 16 /\ m = k + 2 /\ e = k + 1
      BY <1>1, <1>2, <1>9, <1>10, <2>1
    <3> QED
      BY <2>1, <3>1 DEF Start
  <2>2. CASE ~Prefixed(x, b0, k)
    <3>1. /\ b = IF b0 # 0 THEN b0 ELSE IF c = "0" THEN 8 ELSE 10
          /\ m = k /\ e = 0
      BY <1>1, <1>2, <1>4, <1>9, <1>10, <2>2
    <3>2. c = "0" <=> k < Len(x) /\ x[k + 1] = "0"
      BY <1>1 DEF CharAt
    <3>3. m # k + 2
      BY <1>7, <3>1
    <3> QED
      BY <2>2, <3>1, <3>2, <3>3 DEF Start
  <2> QED
    BY <2>1, <2>2
<1>12. m \in k .. Len(x)
  BY <1>7, <1>11 DEF Prefixed
<1>13. PICK u, p, l, n, o : /\ u = unsigned /\ p = positive /\ l = LimitOf(u, p)
                            /\ n = absval /\ o = overflow
  OBVIOUS
<1>14. Reached(x, m, m, b, l, n, o)
  <2>1. l \in Nat /\ n = 0 /\ o = FALSE
    BY <1>4, <1>5, <1>13, LimitIs
  <2>2. PICK f : Counts(f, x, m, m, b) /\ f[m - m] = 0
    <3>1. m \in Nat
      BY <1>7, <1>12
    <3> QED
      BY <3>1, CountsNone
  <2> QED
    BY <2>1, <2>2 DEF Reached
<1>15. ReadTo(x, u, b0, m, b, p, n, o, e, j, k, m)
  <2>1. m \in m .. Len(x) /\ ~(m > m)
    BY <1>7, <1>12
  <2>2. \A i \in (m + 1) .. m : Strtox!InBase(b, x[i])
    BY <1>7, <1>12
  <2>3. p <=> ~(k > j /\ x[k] = "-")
    BY <1>6, <1>13
  <2> QED
    BY <1>6, <1>11, <1>13, <1>14, <2>1, <2>2, <2>3 DEF ReadTo
<1>16. ReadOut(x, u, b0, m, b, p, n, o, e)
  BY <1>1, <1>4, <1>5, <1>13, <1>15 DEF ReadOut
<1>17. ReadOut(nptr, unsigned, base0, upto, base, positive, absval, overflow, endc)'
  BY <1>1, <1>3, <1>10, <1>13, <1>16
<1> QED
  BY <1>2, <1>3, <1>4, <1>17 DEF StrtoxInv

(* What the digit d makes of the number n, and of o, below the limit l.    *)
Counted(n, o, l, b, d, n2, o2) ==
  /\ o2 \in BOOLEAN
  /\ IF o \/ n > (l \div b) \/ (n = l \div b /\ d > l % b)
     THEN o2 = TRUE /\ n2 = n
     ELSE n2 = (n * b + d) % Word /\ o2 = o

(* A digit counts, or more than fits has been read.                        *)
LEMMA DigitReached ==
  ASSUME NEW x, NEW m \in Nat, NEW s \in Nat, m <= s, NEW b \in 2 .. 36,
         NEW l \in Nat, l < Word, NEW n, NEW o \in BOOLEAN, Reached(x, m, s, b, l, n, o),
         Strtox!InBase(b, x[s + 1]), NEW d, d = ValueOf(b, x[s + 1]),
         NEW n2, NEW o2, Counted(n, o, l, b, d, n2, o2)
  PROVE  Reached(x, m, s + 1, b, l, n2, o2)
<1>1. PICK f : /\ Counts(f, x, m, s, b)
               /\ o => f[s - m] > l
               /\ ~o => n = f[s - m] /\ n <= l
  BY DEF Reached
<1>2. PICK g : DigitMore(f, g, x, m, s, b)
  BY <1>1, CountsMore
<1>3. PICK v, w : v = f[s - m] /\ w = g[(s + 1) - m]
  OBVIOUS
<1>4. v \in Nat
  <2>1. s - m \in 0 .. (s - m)
    OBVIOUS
  <2> QED
    BY <1>1, <1>3, <2>1 DEF Counts
<1>5. d \in 0 .. (b - 1)
  BY DigitValue
<1>6. w = v * b + d /\ Counts(g, x, m, s + 1, b)
  BY <1>2, <1>3 DEF DigitMore
<1>7. /\ w \in Nat
      /\ v > (l \div b) \/ (v = l \div b /\ d > l % b) <=> w > l
      /\ v > l => w > l
  BY <1>4, <1>5, <1>6, LimitPassed
<1>8. CASE o
  <2>1. o2 = TRUE /\ w > l
    BY <1>1, <1>3, <1>7, <1>8 DEF Counted
  <2> QED
    BY <1>3, <1>6, <2>1 DEF Reached
<1>9. CASE ~o
  <2>1. n = v
    BY <1>1, <1>3, <1>9
  <2>2. CASE w > l
    <3>1. o2 = TRUE
      BY <1>7, <2>1, <2>2 DEF Counted
    <3> QED
      BY <1>3, <1>6, <2>2, <3>1 DEF Reached
  <2>3. CASE ~(w > l)
    <3>1. n2 = w % Word /\ o2 = FALSE
      BY <1>6, <1>7, <1>9, <2>1, <2>3 DEF Counted
    <3>2. w \in Nat /\ w <= l /\ w < Word /\ Word \in Nat
      BY <1>7, <2>3, AlgorithmsAssumption DEF Strtox!StrtoxAssumption
    <3>3. w % Word = w
      BY <3>2, Z3
    <3> QED
      BY <1>3, <1>6, <3>1, <3>2, <3>3 DEF Reached
  <2> QED
    BY <2>2, <2>3
<1> QED
  BY <1>8, <1>9

(* A digit is read and counted, or passes the limit.                       *)
LEMMA DigitKeepsInv ==
  ASSUME StrtoxInv, Strtox!Digit
  PROVE  StrtoxInv'
<1>1. PICK x, b0, s, b, c, u, p, n, o, e :
        /\ x = nptr /\ b0 = base0 /\ s = upto /\ b = base /\ c = CharAt(nptr, upto)
        /\ u = unsigned /\ p = positive /\ n = absval /\ o = overflow /\ e = endc
  OBVIOUS
<1>2. PICK l, d : l = LimitOf(u, p) /\ d = ValueOf(b, c)
  OBVIOUS
<1>3. /\ xpc = "digits" /\ Strtox!InBase(b, c)
      /\ upto' = upto + 1 /\ endc' = upto + 1
      /\ IF o \/ n > (l \div b) \/ (n = l \div b /\ d > l % b)
         THEN overflow' = TRUE /\ absval' = n
         ELSE absval' = (n * b + d) % Word /\ overflow' = o
      /\ UNCHANGED << Strtox!args, xpc, base, positive, value >>
  <2>1. Strtox!Allowed(c) = Strtox!InBase(b, c) /\ Strtox!Char = c
    BY <1>1, Zenon DEF Strtox!Allowed, Strtox!InBase, Strtox!Char, CharAt
  <2>2. Strtox!DigitOf(c) = d
    BY <1>1, <1>2, Zenon DEF Strtox!DigitOf, ValueOf
  <2>3. Strtox!Limit = l
    BY <1>1, <1>2, Zenon DEF Strtox!Limit, LimitOf
  <2>4. Strtox!Overflows(d) <=> n > (l \div b) \/ (n = l \div b /\ d > l % b)
    BY <1>1, <2>3, Zenon DEF Strtox!Overflows
  <2>5. /\ xpc = "digits" /\ Strtox!Allowed(Strtox!Char)
        /\ upto' = upto + 1 /\ endc' = upto + 1
        /\ IF overflow \/ Strtox!Overflows(Strtox!DigitOf(Strtox!Char))
           THEN overflow' = TRUE /\ UNCHANGED absval
           ELSE /\ absval' = (absval * base + Strtox!DigitOf(Strtox!Char)) % Word
                /\ UNCHANGED overflow
        /\ UNCHANGED << Strtox!args, xpc, base, positive, value >>
    BY Zenon DEF Strtox!Digit
  <2>6. IF o \/ Strtox!Overflows(d)
        THEN overflow' = TRUE /\ absval' = n
        ELSE absval' = (n * b + d) % Word /\ overflow' = o
    BY <1>1, <2>1, <2>2, <2>5, Zenon
  <2> QED
    BY <2>1, <2>4, <2>5, <2>6, Zenon
<1>4. /\ nptr' = nptr /\ unsigned' = unsigned /\ base0' = base0 /\ xpc' = xpc
      /\ base' = base /\ positive' = positive
  BY <1>3 DEF Strtox!args
<1>5. /\ x \in Seq(Symbols) /\ u \in BOOLEAN /\ base0 \in Bases /\ Len(x) \in Nat
      /\ ReadOut(x, u, b0, s, b, p, n, o, e)
  BY <1>1, <1>3, LenProperties DEF StrtoxInv
<1>6. /\ p \in BOOLEAN /\ o \in BOOLEAN /\ b0 \in {0} \cup 2 .. 36
      /\ \E j, k, m : ReadTo(x, u, b0, s, b, p, n, o, e, j, k, m)
  BY <1>5 DEF ReadOut
<1>7. PICK j, k, m : ReadTo(x, u, b0, s, b, p, n, o, e, j, k, m)
  BY <1>6
<1>8. /\ WholeFront(x, j, k) /\ (p <=> ~(k > j /\ x[k] = "-"))
      /\ Start(x, b0, k, m, b) /\ s \in m .. Len(x)
      /\ \A i \in (m + 1) .. s : Strtox!InBase(b, x[i])
      /\ Reached(x, m, s, b, l, n, o)
  BY <1>2, <1>7 DEF ReadTo
<1>9. m \in Nat /\ s \in Nat /\ m <= s /\ b \in 2 .. 36
  <2>1. Placed(x, b0, k, m, b)
    BY <1>5, <1>6, <1>8, StartIn
  <2> QED
    BY <1>5, <1>8, <2>1 DEF Placed
<1>10. s < Len(x) /\ x[s + 1] = c
  <2>1. c # "NUL"
    BY <1>3, <1>9, DigitValue
  <2> QED
    BY <1>1, <2>1 DEF CharAt
<1>11. PICK n2, o2 : n2 = absval' /\ o2 = overflow'
  OBVIOUS
<1>12. l \in Nat /\ l < Word
  BY <1>2, <1>5, <1>6, LimitIs
<1>13. Reached(x, m, s + 1, b, l, n2, o2)
  <2>1. Counted(n, o, l, b, d, n2, o2)
    BY <1>3, <1>6, <1>11 DEF Counted
  <2>2. Strtox!InBase(b, x[s + 1]) /\ d = ValueOf(b, x[s + 1])
    BY <1>2, <1>3, <1>10
  <2> QED
    BY <1>6, <1>8, <1>9, <1>12, <2>1, <2>2, DigitReached
<1>14. ReadTo(x, u, b0, s + 1, b, p, n2, o2, s + 1, j, k, m)
  <2>1. s + 1 \in m .. Len(x) /\ s + 1 > m
    BY <1>5, <1>9, <1>10
  <2>2. \A i \in (m + 1) .. (s + 1) : Strtox!InBase(b, x[i])
    <3>1. \A i \in (m + 1) .. (s + 1) : i \in (m + 1) .. s \/ i = s + 1
      BY <1>9
    <3> QED
      BY <1>3, <1>8, <1>10, <3>1
  <2> QED
    BY <1>2, <1>8, <1>13, <2>1, <2>2 DEF ReadTo
<1>15. ReadOut(x, u, b0, s + 1, b, p, n2, o2, s + 1)
  <2>1. o2 \in BOOLEAN
    BY <1>3, <1>6, <1>11
  <2> QED
    BY <1>6, <1>14, <2>1 DEF ReadOut
<1>16. ReadOut(nptr, unsigned, base0, upto, base, positive, absval, overflow, endc)'
  BY <1>1, <1>3, <1>4, <1>11, <1>15
<1> QED
  BY <1>1, <1>3, <1>4, <1>5, <1>16 DEF StrtoxInv

(* What is returned is converted.                                          *)
LEMMA ReturnKeepsInv ==
  ASSUME StrtoxInv, Strtox!Return
  PROVE  StrtoxInv'
<1>1. /\ xpc = "digits" /\ xpc' = "done" /\ ~Strtox!InBase(base, CharAt(nptr, upto))
      /\ UNCHANGED << Strtox!args, upto, base, positive, absval, overflow, endc >>
  BY Zenon DEF Strtox!Return, Strtox!Allowed, Strtox!InBase, Strtox!Char, CharAt
<1>2. value' = ResultOf(unsigned, positive, absval, overflow)
  <2>1. ASSUME NEW n  PROVE Strtox!AsReturned(n) = Wrapped(unsigned, n)
    BY Zenon DEF Strtox!AsReturned, Wrapped
  <2>2. value' = IF overflow THEN IF ~positive /\ ~unsigned THEN Strtox!INTMIN
                                  ELSE Strtox!INTMAX(unsigned)
                 ELSE IF positive THEN Strtox!AsReturned(absval)
                      ELSE Strtox!AsReturned(-absval)
    BY Zenon DEF Strtox!Return
  <2>3. /\ Strtox!AsReturned(absval) = Wrapped(unsigned, absval)
        /\ Strtox!AsReturned(-absval) = Wrapped(unsigned, -absval)
    BY <2>1, Zenon
  <2> QED
    BY <2>2, <2>3, Zenon DEF ResultOf
<1>3. /\ nptr' = nptr /\ unsigned' = unsigned /\ base0' = base0 /\ upto' = upto
      /\ base' = base /\ positive' = positive /\ absval' = absval
      /\ overflow' = overflow /\ endc' = endc
  BY <1>1 DEF Strtox!args
<1>4. /\ nptr \in Seq(Symbols) /\ unsigned \in BOOLEAN /\ base0 \in Bases
      /\ ReadOut(nptr, unsigned, base0, upto, base, positive, absval, overflow, endc)
  BY <1>1 DEF StrtoxInv
<1>5. Converted'
  BY <1>1, <1>2, <1>3, <1>4 DEF Converted
<1> QED
  BY <1>1, <1>3, <1>4, <1>5 DEF StrtoxInv

(* The strings are of Symbols, and nothing is read.                        *)
LEMMA StrtoxInitially ==
  ASSUME Strtox!Init
  PROVE  StrtoxInv
<1>1. /\ nptr \in Numerals /\ unsigned \in BOOLEAN /\ base0 \in Bases
      /\ xpc = "space" /\ upto = 0 /\ base = base0
      /\ absval = 0 /\ overflow = FALSE /\ endc = 0
  BY DEF Strtox!Init
<1>2. nptr \in Seq(Symbols)
  <2>1. PICK s : s = nptr
    OBVIOUS
  <2> DEFINE S == {s[k] : k \in DOMAIN s}
  <2>2. s \in Seq(S)
    BY <1>1, <2>1, AlgorithmsAssumption DEF Strtox!StrtoxAssumption
  <2>3. S \subseteq Symbols
    BY <1>1, <2>1 DEF Symbols
  <2> HIDE DEF S
  <2> QED
    BY <2>1, <2>2, <2>3
<1>3. SpacesRead(nptr, upto)
  <2>1. Len(nptr) \in Nat
    BY <1>2, LenProperties
  <2> QED
    BY <1>1, <2>1 DEF SpacesRead
<1> QED
  BY <1>1, <1>2, <1>3 DEF StrtoxInv, Untouched

(* c/strtox.c:48-151: what is returned is the value of the longest number  *)
(* that the string begins with, clamped to the type, and *endptr the       *)
(* character behind it.                                                    *)
THEOREM ConversionsTrue == Spec => []ConvertsValue
<1>1. Init => (part = "strtox" => StrtoxInv)
  <2>1. Strtox!Init => StrtoxInv
    BY StrtoxInitially
  <2> QED
    BY <2>1 DEF Init
<1>2. ASSUME [Next]_vars, part = "strtox" => StrtoxInv
      PROVE  (part = "strtox" => StrtoxInv)'
  <2>1. part' = part /\ (part = "strtox" => Strtox!Next \/ UNCHANGED strtoxVars)
    BY <1>2, Separate
  <2>2. ASSUME part = "strtox", UNCHANGED strtoxVars  PROVE StrtoxInv'
    <3>1. StrtoxInv
      BY <1>2, <2>2
    <3> QED
      BY <2>2, <3>1 DEF strtoxVars, StrtoxInv, Untouched, Converted
  <2>3. ASSUME part = "strtox", Strtox!Next  PROVE StrtoxInv'
    <3>1. StrtoxInv
      BY <1>2, <2>3
    <3> QED
      BY <2>3, <3>1, BaseRefusedKeepsInv, SkipSpaceKeepsInv, SignKeepsInv, PrefixKeepsInv,
         DigitKeepsInv, ReturnKeepsInv DEF Strtox!Next
  <2> QED
    BY <2>1, <2>2, <2>3
<1>3. (part = "strtox" => StrtoxInv) => ConvertsValue
  <2>1. ASSUME StrtoxInv, xpc = "done", endc # -1
        PROVE  IF Strtox!Readings = {} THEN value = 0 /\ endc = 0
               ELSE LET r == Strtox!Longest(Strtox!Readings) IN
                    /\ endc = r[2]
                    /\ value = Strtox!Clamped(Strtox!Number(r[3], SubSeq(nptr, r[1] + 1, r[2])),
                                              Strtox!Negative(r[1]))
    <3>1. Converted /\ nptr \in Seq(Symbols) /\ base0 \in Bases /\ unsigned \in BOOLEAN
      BY <2>1 DEF StrtoxInv
    <3> QED
      BY <3>1, ReadOutConverts, Zenon DEF Converted
  <2> QED
    BY <2>1, Zenon DEF ConvertsValue, Strtox!ConvertsValue
<1>4. (part = "strtox" => StrtoxInv) /\ [Next]_vars => (part = "strtox" => StrtoxInv)'
  BY <1>2
<1> QED
  BY <1>1, <1>3, <1>4, PTL DEF Spec
=============================================================================
