----------------------------- MODULE Induction ------------------------------
(***************************************************************************)
(* Facts that need induction over data, for the proofs about components.   *)
(* Instead of an induction principle, which would quantify over predicates,*)
(* they use that a non-empty set of numbers has a least element: a claim   *)
(* that fails somewhere fails at a first place, where it held before.      *)
(***************************************************************************)
EXTENDS Integers, SequencesExt, SequenceTheorems, FiniteSetTheorems, TLAPS

(* The least element of a set of natural numbers.                          *)
LEMMA LeastNat ==
  ASSUME NEW T, T \subseteq Nat, T # {}
  PROVE  \E m \in T : \A k \in T : m <= k
<1> DEFINE R == StrictSubsetOrdering(Nat)
           S == FiniteSubsetsOf(Nat)
           U == {0 .. n : n \in T}
<1>1. IsWellFoundedOn(R, S)
  BY FS_StrictSubsetOrderingWellFounded
<1>2. U \subseteq S
  <2>1. \A n \in T : IsFiniteSet(0 .. n) /\ 0 .. n \in SUBSET Nat
    BY FS_Interval
  <2> QED
    BY <2>1 DEF FiniteSubsetsOf
<1>3. U # {}
  OBVIOUS
<1> HIDE DEF U
<1>4. \E x \in U : \A y \in U : ~(<<y, x>> \in R)
  <2> HIDE DEF R, S
  <2> QED
    BY <1>1, <1>2, <1>3, WFMin
<1>5. PICK m \in T : \A y \in U : ~(<<y, 0 .. m>> \in R)
  BY <1>4 DEF U
<1>6. ASSUME NEW k \in T, k < m  PROVE FALSE
  <2>1. 0 .. k \in U
    BY DEF U
  <2>2. /\ 0 .. k \subseteq 0 .. m /\ 0 .. k # 0 .. m
        /\ 0 .. k \in SUBSET Nat /\ 0 .. m \in SUBSET Nat
    BY <1>6
  <2> QED
    BY <1>5, <2>1, <2>2 DEF StrictSubsetOrdering
<1> QED
  BY <1>5, <1>6

(* A set of numbers that holds 0 and, with a number, the next one, holds   *)
(* every number up to n.                                                   *)
LEMMA UpTo ==
  ASSUME NEW n \in Nat, NEW P, 0 \in P,
         \A k \in 0 .. (n - 1) : k \in P => k + 1 \in P
  PROVE  \A k \in 0 .. n : k \in P
<1> DEFINE T == {k \in 0 .. n : k \notin P}
<1> SUFFICES ASSUME T # {} PROVE FALSE
  OBVIOUS
<1>1. PICK m \in T : \A k \in T : m <= k
  <2>1. T \subseteq Nat
    OBVIOUS
  <2> QED
    BY <2>1, LeastNat
<1>2. m \in 0 .. n /\ m # 0 /\ m \notin P
  BY <1>1
<1>3. m - 1 \in 0 .. (n - 1) /\ m - 1 \notin T
  BY <1>1, <1>2
<1>4. m - 1 \in P
  BY <1>3
<1>5. (m - 1) + 1 \in P
  BY <1>3, <1>4
<1> QED
  BY <1>2, <1>5

(* The function f lists the iterates of G from z on, up to the n-th.       *)
Iterates(f, n, S, z, G) ==
  f \in [0 .. n -> S] /\ f[0] = z /\ \A k \in 1 .. n : f[k] = G[f[k - 1]]

(* It exists.                                                              *)
LEMMA Recursion ==
  ASSUME NEW n \in Nat, NEW S, NEW z \in S, NEW G \in [S -> S]
  PROVE  \E f : Iterates(f, n, S, z, G)
<1> DEFINE Step(f, k) == IF k = 0 THEN z ELSE G[f[k - 1]]
           Has(m) == \E f \in [0 .. m -> S] : f = [k \in 0 .. m |-> Step(f, k)]
           P == {m \in 0 .. n : Has(m)}
<1>1. Has(0)
  <2> DEFINE g == [k \in 0 .. 0 |-> z]
  <2>1. g \in [0 .. 0 -> S] /\ g = [k \in 0 .. 0 |-> Step(g, k)]
    OBVIOUS
  <2> QED
    BY <2>1
<1>2. ASSUME NEW m \in 0 .. (n - 1), Has(m)  PROVE Has(m + 1)
  <2>1. PICK f \in [0 .. m -> S] : f = [k \in 0 .. m |-> Step(f, k)]
    BY <1>2
  <2> DEFINE g == [k \in 0 .. (m + 1) |-> IF k = m + 1 THEN G[f[m]] ELSE f[k]]
  <2>2. G[f[m]] \in S
    <3>1. m + 1 \in 1 .. n /\ f[m] \in S
      OBVIOUS
    <3> QED
      BY <3>1
  <2>3. g \in [0 .. (m + 1) -> S]
    BY <2>2
  <2>4. \A k \in 0 .. m : g[k] = f[k] /\ (k # 0 => g[k - 1] = f[k - 1])
    OBVIOUS
  <2>5. g[m + 1] = G[g[m]] /\ (m + 1) - 1 = m /\ m + 1 # 0
    BY <2>4
  <2>6. \A k \in 0 .. m : f[k] = Step(f, k)
    BY <2>1
  <2> HIDE DEF g
  <2>7. \A k \in 0 .. m : g[k] = Step(g, k)
    BY <2>4, <2>6
  <2>8. g[m + 1] = Step(g, m + 1)
    BY <2>5
  <2>9. g = [k \in 0 .. (m + 1) |-> Step(g, k)]
    <3> HIDE DEF Step
    <3>1. \A k \in 0 .. (m + 1) : k \in 0 .. m \/ k = m + 1
      OBVIOUS
    <3> QED
      BY <2>3, <2>7, <2>8, <3>1
  <2> QED
    BY <2>3, <2>9
<1> HIDE DEF Has
<1>3. 0 \in P /\ \A m \in 0 .. (n - 1) : m \in P => m + 1 \in P
  BY <1>1, <1>2
<1> HIDE DEF P
<1>4. \A m \in 0 .. n : m \in P
  BY <1>3, UpTo
<1>5. n \in P
  BY <1>4
<1>6. PICK f \in [0 .. n -> S] : f = [k \in 0 .. n |-> Step(f, k)]
  BY <1>5 DEF P, Has
<1>7. f[0] = z /\ \A k \in 1 .. n : f[k] = G[f[k - 1]]
  <2>1. \A k \in 0 .. n : f[k] = Step(f, k)
    BY <1>6, Zenon
  <2>2. 0 \in 0 .. n /\ \A k \in 1 .. n : k \in 0 .. n /\ k # 0
    OBVIOUS
  <2> QED
    BY <2>1, <2>2
<1> QED
  BY <1>6, <1>7 DEF Iterates

(* So does a function of iterates of a G that also depends on the place.   *)
IsStep(G, n, S) == G \in [(1 .. n) \X S -> S]

IteratesAt(f, n, S, z, G) ==
  f \in [0 .. n -> S] /\ f[0] = z /\ \A k \in 1 .. n : f[k] = G[<< k, f[k - 1] >>]

LEMMA RecursionAt ==
  ASSUME NEW n \in Nat, NEW S, NEW z \in S, NEW G, IsStep(G, n, S)
  PROVE  \E f : IteratesAt(f, n, S, z, G)
<1> USE DEF IsStep
<1> DEFINE T == (0 .. n) \X S
           H == [p \in T |-> IF p[1] < n THEN << p[1] + 1, G[<< p[1] + 1, p[2] >>] >> ELSE p]
           y == << 0, z >>
<1>1. y \in T
  OBVIOUS
<1>2. H \in [T -> T]
  <2>1. ASSUME NEW p \in T, p[1] < n
        PROVE  << p[1] + 1, G[<< p[1] + 1, p[2] >>] >> \in T
    <3>1. p[1] + 1 \in 1 .. n /\ p[2] \in S
      BY <2>1
    <3> QED
      BY <3>1
  <2> HIDE DEF T
  <2> QED
    BY <2>1
<1>3. PICK g : Iterates(g, n, T, y, H)
  <2> HIDE DEF T, y, H
  <2> QED
    BY <1>1, <1>2, Recursion
<1>4. g \in [0 .. n -> T] /\ g[0] = y /\ \A k \in 1 .. n : g[k] = H[g[k - 1]]
  BY <1>3 DEF Iterates
<1> DEFINE P == {k \in 0 .. n : g[k][1] = k}
<1>5. 0 \in P
  BY <1>4
<1>6. ASSUME NEW k \in 0 .. (n - 1), k \in P  PROVE k + 1 \in P
  <2>1. k + 1 \in 1 .. n /\ (k + 1) - 1 = k /\ k \in 0 .. n /\ k < n
    OBVIOUS
  <2>2. g[k + 1] = H[g[k]] /\ g[k] \in T /\ g[k][1] = k
    BY <1>4, <1>6, <2>1
  <2>3. g[k + 1] = << k + 1, G[<< k + 1, g[k][2] >>] >>
    BY <2>1, <2>2
  <2> QED
    BY <2>1, <2>3
<1> HIDE DEF P
<1>7. \A k \in 0 .. n : k \in P
  BY <1>5, <1>6, UpTo
<1> DEFINE f == [k \in 0 .. n |-> g[k][2]]
<1>8. f \in [0 .. n -> S] /\ f[0] = z
  <2>1. \A k \in 0 .. n : g[k][2] \in S
    BY <1>4
  <2>2. g[0][2] = z /\ 0 \in 0 .. n
    BY <1>4
  <2> QED
    BY <2>1, <2>2
<1>9. ASSUME NEW k \in 1 .. n  PROVE f[k] = G[<< k, f[k - 1] >>]
  <2>1. k - 1 \in 0 .. n /\ k \in 0 .. n /\ k - 1 < n /\ (k - 1) + 1 = k
    OBVIOUS
  <2>2. g[k] = H[g[k - 1]] /\ g[k - 1] \in T /\ g[k - 1][1] = k - 1
    BY <1>4, <1>7, <2>1 DEF P
  <2>3. g[k] = << k, G[<< k, g[k - 1][2] >>] >>
    BY <2>1, <2>2
  <2> QED
    BY <2>1, <2>3
<1> QED
  BY <1>8, <1>9 DEF IteratesAt

-----------------------------------------------------------------------------
(* FlattenSeq.                                                             *)

(* What FlattenSeq computes: the function of the sequences so far exists.  *)
LEMMA FlattenFunction ==
  ASSUME NEW S, NEW seqs \in Seq(Seq(S)), seqs # << >>
  PROVE  \E f \in [1 .. Len(seqs) -> Seq(S)] :
           f = [j \in 1 .. Len(seqs) |-> IF j = 1 THEN seqs[j] ELSE f[j - 1] \o seqs[j]]
<1> DEFINE n == Len(seqs)
<1>0. n \in Nat /\ n # 0
  BY EmptySeq
<1> DEFINE Step(f, j) == IF j = 1 THEN seqs[j] ELSE f[j - 1] \o seqs[j]
           Has(k) == \E f \in [1 .. k -> Seq(S)] : f = [j \in 1 .. k |-> Step(f, j)]
           P == {k \in 0 .. n : k = 0 \/ Has(k)}
<1>1. Has(1)
  <2> DEFINE g == [j \in 1 .. 1 |-> seqs[j]]
  <2>1. g \in [1 .. 1 -> Seq(S)]
    BY <1>0
  <2>2. g = [j \in 1 .. 1 |-> Step(g, j)]
    OBVIOUS
  <2> QED
    BY <2>1, <2>2
<1>2. ASSUME NEW k \in 1 .. (n - 1), Has(k)  PROVE Has(k + 1)
  <2>1. PICK f \in [1 .. k -> Seq(S)] : f = [j \in 1 .. k |-> Step(f, j)]
    BY <1>2
  <2> DEFINE g == [j \in 1 .. (k + 1) |-> IF j = k + 1 THEN f[k] \o seqs[k + 1] ELSE f[j]]
  <2>2. f[k] \in Seq(S) /\ seqs[k + 1] \in Seq(S)
    BY <1>0
  <2>3. f[k] \o seqs[k + 1] \in Seq(S)
    BY <2>2, ConcatProperties
  <2>4. g \in [1 .. (k + 1) -> Seq(S)]
    BY <2>3
  <2>5. \A j \in 1 .. k : g[j] = f[j] /\ (j # 1 => g[j - 1] = f[j - 1])
    OBVIOUS
  <2>6. g[k + 1] = g[k] \o seqs[k + 1] /\ (k + 1) - 1 = k /\ k + 1 # 1
    <3>1. k \in 1 .. k /\ k + 1 \in 1 .. (k + 1) /\ (k + 1) - 1 = k /\ k + 1 # 1
      OBVIOUS
    <3>2. g[k + 1] = f[k] \o seqs[k + 1] /\ g[k] = f[k]
      BY <2>5, <3>1
    <3> QED
      BY <3>1, <3>2
  <2>7. \A j \in 1 .. k : f[j] = Step(f, j)
    BY <2>1
  <2> HIDE DEF g
  <2>8. \A j \in 1 .. k : g[j] = Step(g, j)
    BY <2>5, <2>7
  <2>9. g[k + 1] = Step(g, k + 1)
    BY <2>6
  <2>10. \A j \in 1 .. (k + 1) : g[j] = Step(g, j)
    <3> HIDE DEF Step
    <3>1. \A j \in 1 .. (k + 1) : j \in 1 .. k \/ j = k + 1
      OBVIOUS
    <3> QED
      BY <2>8, <2>9, <3>1
  <2>11. g = [j \in 1 .. (k + 1) |-> Step(g, j)]
    <3> HIDE DEF Step
    <3> QED
      BY <2>4, <2>10
  <2> QED
    BY <2>4, <2>11
<1> HIDE DEF Has
<1>3. \A k \in 0 .. (n - 1) : k \in P => k + 1 \in P
  BY <1>1, <1>2
<1>4. \A k \in 0 .. n : k \in P
  <2>1. 0 \in P /\ n \in Nat
    BY <1>0
  <2> HIDE DEF P
  <2> QED
    BY <1>3, <2>1, UpTo
<1>5. Has(n)
  BY <1>0, <1>4
<1> QED
  BY <1>5 DEF Has

(* FlattenSeq is the last of the concatenations of its first sequences.    *)
LEMMA FlattenSteps ==
  ASSUME NEW S, NEW seqs \in Seq(Seq(S)), seqs # << >>
  PROVE  \E f \in [1 .. Len(seqs) -> Seq(S)] :
           /\ f[1] = seqs[1]
           /\ \A j \in 2 .. Len(seqs) : f[j] = f[j - 1] \o seqs[j]
           /\ FlattenSeq(seqs) = f[Len(seqs)]
<1> DEFINE n == Len(seqs)
           flatten[i \in 1 .. Len(seqs)] == IF i = 1 THEN seqs[i] ELSE flatten[i - 1] \o seqs[i]
<1>1. n \in Nat /\ n # 0 /\ n \in 1 .. Len(seqs)
  BY EmptySeq
<1>2. \E f \in [1 .. Len(seqs) -> Seq(S)] :
        f = [j \in 1 .. Len(seqs) |-> IF j = 1 THEN seqs[j] ELSE f[j - 1] \o seqs[j]]
  BY FlattenFunction
<1>3. flatten = [i \in 1 .. n |-> IF i = 1 THEN seqs[i] ELSE flatten[i - 1] \o seqs[i]]
  BY <1>2
<1>4. FlattenSeq(seqs) = flatten[n]
  BY <1>1 DEF FlattenSeq
<1> HIDE DEF flatten
<1>5. flatten[1] = seqs[1] /\ \A j \in 2 .. n : flatten[j] = flatten[j - 1] \o seqs[j]
  <2>1. \A j \in 1 .. n : flatten[j] = IF j = 1 THEN seqs[j] ELSE flatten[j - 1] \o seqs[j]
    BY <1>3, Zenon
  <2>2. 1 \in 1 .. n /\ \A j \in 2 .. n : j \in 1 .. n /\ j # 1
    BY <1>1
  <2> QED
    BY <2>1, <2>2
<1>6. flatten \in [1 .. n -> Seq(S)]
  <2> DEFINE P == {k \in 0 .. n : k = 0 \/ flatten[k] \in Seq(S)}
  <2>1. ASSUME NEW k \in 0 .. (n - 1), k \in P  PROVE k + 1 \in P
    <3>1. seqs[k + 1] \in Seq(S)
      BY <1>1
    <3>2. CASE k = 0
      BY <1>1, <1>5, <3>1, <3>2
    <3>3. CASE k # 0
      <4>1. flatten[k + 1] = flatten[k] \o seqs[k + 1]
        <5>1. k + 1 \in 2 .. n /\ (k + 1) - 1 = k
          BY <1>1, <3>3
        <5> QED
          BY <1>5, <5>1
      <4>2. flatten[k] \in Seq(S)
        BY <2>1, <3>3
      <4>3. flatten[k + 1] \in Seq(S)
        BY <3>1, <4>1, <4>2, ConcatProperties
      <4> QED
        BY <1>1, <4>3
    <3> QED
      BY <3>2, <3>3
  <2>2. 0 \in P
    BY <1>1
  <2> HIDE DEF P
  <2>3. \A k \in 0 .. n : k \in P
    BY <1>1, <2>1, <2>2, UpTo
  <2>4. \A k \in 1 .. n : flatten[k] \in Seq(S)
    BY <1>1, <2>3 DEF P
  <2> QED
    BY <1>3, <2>4
<1> QED
  BY <1>4, <1>5, <1>6

(* The empty concatenation, and one more sequence behind the others.       *)
LEMMA FlattenEmpty == FlattenSeq(<< >>) = << >>
  BY DEF FlattenSeq

(* The concatenation of sequences over S is a sequence over S.             *)
LEMMA FlattenInSeq ==
  ASSUME NEW S, NEW seqs \in Seq(Seq(S))
  PROVE  FlattenSeq(seqs) \in Seq(S)
<1>1. CASE seqs = << >>
  BY <1>1, FlattenEmpty, EmptySeq
<1>2. CASE seqs # << >>
  <2>1. Len(seqs) \in 1 .. Len(seqs)
    BY <1>2, EmptySeq
  <2>2. PICK f \in [1 .. Len(seqs) -> Seq(S)] : FlattenSeq(seqs) = f[Len(seqs)]
    BY <1>2, FlattenSteps
  <2> QED
    BY <2>1, <2>2
<1> QED
  BY <1>1, <1>2

(* One more sequence at the end is one more part of the concatenation.     *)
LEMMA FlattenAppend ==
  ASSUME NEW S, NEW seqs \in Seq(Seq(S)), NEW s \in Seq(S)
  PROVE  FlattenSeq(Append(seqs, s)) = FlattenSeq(seqs) \o s
<1> DEFINE all == Append(seqs, s)
           n == Len(seqs)
<1>1. /\ all \in Seq(Seq(S)) /\ all # << >> /\ n \in Nat /\ Len(all) = n + 1
      /\ \A j \in 1 .. n : all[j] = seqs[j]
      /\ all[n + 1] = s
  BY AppendProperties
<1> HIDE DEF all
<1>2. PICK f \in [1 .. (n + 1) -> Seq(S)] :
        /\ f[1] = all[1]
        /\ \A j \in 2 .. (n + 1) : f[j] = f[j - 1] \o all[j]
        /\ FlattenSeq(all) = f[n + 1]
  <2>1. \E f \in [1 .. Len(all) -> Seq(S)] :
          /\ f[1] = all[1]
          /\ \A j \in 2 .. Len(all) : f[j] = f[j - 1] \o all[j]
          /\ FlattenSeq(all) = f[Len(all)]
    BY <1>1, FlattenSteps
  <2> QED
    BY <1>1, <2>1
<1>3. CASE n = 0
  <2>1. seqs = << >>
    BY <1>3, EmptySeq
  <2>2. FlattenSeq(all) = s
    BY <1>1, <1>2, <1>3
  <2> QED
    BY <2>1, <2>2, FlattenEmpty, ConcatEmptySeq DEF all
<1>4. CASE n # 0
  <2>1. PICK g \in [1 .. n -> Seq(S)] :
          /\ g[1] = seqs[1]
          /\ \A j \in 2 .. n : g[j] = g[j - 1] \o seqs[j]
          /\ FlattenSeq(seqs) = g[n]
    <3>1. seqs # << >>
      BY <1>4
    <3> QED
      BY <3>1, FlattenSteps
  <2> DEFINE P == {k \in 0 .. n : k = 0 \/ g[k] = f[k]}
  <2>2. ASSUME NEW k \in 0 .. (n - 1), k \in P  PROVE k + 1 \in P
    <3>1. k + 1 \in 1 .. n /\ all[k + 1] = seqs[k + 1]
      BY <1>1
    <3>2. CASE k = 0
      BY <1>2, <2>1, <3>1, <3>2
    <3>3. CASE k # 0
      <4>1. k + 1 \in 2 .. n /\ k + 1 \in 2 .. (n + 1) /\ (k + 1) - 1 = k
        BY <1>1, <3>3
      <4>2. g[k] = f[k]
        BY <2>2, <3>3
      <4>3. g[k + 1] = f[k + 1]
        BY <1>2, <2>1, <3>1, <4>1, <4>2
      <4> QED
        BY <3>1, <4>3
    <3> QED
      BY <3>2, <3>3
  <2>3. 0 \in P
    BY <1>1
  <2> HIDE DEF P
  <2>4. \A k \in 0 .. n : k \in P
    BY <1>1, <2>2, <2>3, UpTo
  <2>5. g[n] = f[n]
    <3>1. n \in P
      BY <1>1, <2>4
    <3> QED
      BY <1>4, <3>1 DEF P
  <2>6. n + 1 \in 2 .. (n + 1) /\ (n + 1) - 1 = n
    BY <1>1, <1>4
  <2> QED
    BY <1>1, <1>2, <2>1, <2>5, <2>6 DEF all
<1> QED
  BY <1>3, <1>4

(* One more element of a sequence, behind those before it.                 *)
LEMMA SubSeqGrows ==
  ASSUME NEW S, NEW s \in Seq(S), NEW k \in 0 .. (Len(s) - 1)
  PROVE  SubSeq(s, 1, k + 1) = Append(SubSeq(s, 1, k), s[k + 1])
<1> DEFINE n == Len(s)
<1>1. n \in Nat /\ \A j \in 1 .. n : s[j] \in S
  BY LenProperties, ElementOfSeq
<1> HIDE DEF n
<1>2. k + 1 \in 1 .. n /\ k \in Int /\ 1 \in Int /\ (\A j \in 1 .. k : s[j] \in S) /\ s[k + 1] \in S
  BY <1>1 DEF n
<1>3. SubSeq(s, 1, k) \in Seq(S)
  BY <1>2, SubSeqProperties
<1>4. Append(SubSeq(s, 1, k), s[k + 1]) = SubSeq(s, 1, k) \o << s[k + 1] >>
  BY <1>2, <1>3, AppendIsConcat
<1>5. SubSeq(s, 1, k + 1) = SubSeq(s, 1, (k + 1) - 1) \o << s[k + 1] >>
  <2>1. 1 \in 1 .. Len(s) /\ k + 1 \in 1 .. Len(s)
    BY <1>2 DEF n
  <2> QED
    BY <2>1, SubSeqRecursiveSecond
<1> QED
  BY <1>2, <1>4, <1>5

(* Concatenation is associative.                                           *)
LEMMA ConcatThree ==
  \A S : \A x, y, z \in Seq(S) : (x \o y) \o z = x \o (y \o z)
<1> SUFFICES ASSUME NEW S, NEW x \in Seq(S), NEW y \in Seq(S), NEW z \in Seq(S)
             PROVE  (x \o y) \o z = x \o (y \o z)
  OBVIOUS
<1> DEFINE p == x \o y
           q == y \o z
           l == p \o z
           r == x \o q
           a == Len(x)
           b == Len(y)
           c == Len(z)
<1>1. a \in Nat /\ b \in Nat /\ c \in Nat
  OBVIOUS
<1>2. /\ p \in Seq(S) /\ Len(p) = a + b
      /\ \A i \in 1 .. (a + b) : p[i] = IF i <= a THEN x[i] ELSE y[i - a]
  BY ConcatProperties
<1>3. /\ q \in Seq(S) /\ Len(q) = b + c
      /\ \A i \in 1 .. (b + c) : q[i] = IF i <= b THEN y[i] ELSE z[i - b]
  BY ConcatProperties
<1> HIDE DEF a, b, c, p, q
<1>4. l \in Seq(S) /\ Len(l) = (a + b) + c
  BY <1>2, ConcatProperties DEF c
<1>5. r \in Seq(S) /\ Len(r) = a + (b + c)
  BY <1>3, ConcatProperties DEF a
<1>6. Len(l) = Len(r)
  BY <1>1, <1>4, <1>5
<1>7. ASSUME NEW i \in 1 .. ((a + b) + c)  PROVE l[i] = r[i]
  <2>1. l[i] = IF i <= a + b THEN p[i] ELSE z[i - (a + b)]
    BY <1>2, ConcatProperties DEF c
  <2>2. r[i] = IF i <= a THEN x[i] ELSE q[i - a]
    <3>1. i \in 1 .. (a + (b + c))
      BY <1>1
    <3> QED
      BY <1>3, <3>1, ConcatProperties DEF a
  <2> HIDE DEF l, r
  <2>3. CASE i <= a
    <3>1. p[i] = x[i] /\ i <= a + b
      BY <1>1, <1>2, <2>3
    <3> QED
      BY <2>1, <2>2, <2>3, <3>1
  <2>4. CASE ~(i <= a) /\ i <= a + b
    <3>1. p[i] = y[i - a]
      BY <1>1, <1>2, <2>4
    <3>2. q[i - a] = y[i - a]
      BY <1>1, <1>3, <2>4
    <3> QED
      BY <2>1, <2>2, <2>4, <3>1, <3>2
  <2>5. CASE ~(i <= a + b)
    <3>1. /\ i - a \in 1 .. (b + c) /\ ~(i - a <= b) /\ (i - a) - b = i - (a + b)
          /\ ~(i <= a)
      BY <1>1, <2>5
    <3>2. q[i - a] = z[(i - a) - b]
      BY <1>3, <3>1
    <3> QED
      BY <2>1, <2>2, <2>5, <3>1, <3>2
  <2> QED
    BY <2>3, <2>4, <2>5
<1> HIDE DEF l, r
<1>8. l = r
  <2>1. \A i \in 1 .. Len(l) : l[i] = r[i]
    BY <1>4, <1>7
  <2> QED
    BY <1>4, <1>5, <1>6, <2>1, SeqEqual
<1> QED
  BY <1>8 DEF l, r, p, q

(* An element behind a concatenation.                                     *)
LEMMA ConcatAppend ==
  ASSUME NEW U, NEW a \in Seq(U), NEW f \in Seq(U), NEW s \in U
  PROVE  a \o Append(f, s) = Append(a \o f, s)
<1>1. << s >> \in Seq(U) /\ a \o f \in Seq(U)
  BY ConcatProperties
<1>2. Append(a \o f, s) = (a \o f) \o << s >> /\ Append(f, s) = f \o << s >>
  BY <1>1, AppendIsConcat
<1>3. (a \o f) \o << s >> = a \o (f \o << s >>)
  BY <1>1, ConcatThree
<1> QED
  BY <1>2, <1>3

(* One more sequence behind the second of two sequences of sequences.      *)
LEMMA FlattenConcatStep ==
  ASSUME NEW S, NEW a \in Seq(Seq(S)), NEW f \in Seq(Seq(S)), NEW s \in Seq(S),
         FlattenSeq(a \o f) = FlattenSeq(a) \o FlattenSeq(f)
  PROVE  FlattenSeq(a \o Append(f, s)) = FlattenSeq(a) \o FlattenSeq(Append(f, s))
<1> DEFINE x == FlattenSeq(a)
           y == FlattenSeq(f)
<1>1. x \in Seq(S) /\ y \in Seq(S) /\ a \o f \in Seq(Seq(S))
  BY FlattenInSeq, ConcatProperties
<1>2. FlattenSeq(Append(a \o f, s)) = FlattenSeq(a \o f) \o s
  BY <1>1, FlattenAppend
<1>3. FlattenSeq(Append(f, s)) = y \o s
  BY FlattenAppend
<1>4. a \o Append(f, s) = Append(a \o f, s)
  BY ConcatAppend
<1>5. FlattenSeq(a \o f) = x \o y
  OBVIOUS
<1> HIDE DEF x, y
<1>6. (x \o y) \o s = x \o (y \o s)
  BY <1>1, ConcatThree, SMTT(60)
<1> QED
  BY <1>2, <1>3, <1>4, <1>5, <1>6 DEF x

(* The concatenation of two sequences of sequences, one behind the other.  *)
LEMMA FlattenConcat ==
  ASSUME NEW S, NEW a \in Seq(Seq(S)), NEW b \in Seq(Seq(S))
  PROVE  FlattenSeq(a \o b) = FlattenSeq(a) \o FlattenSeq(b)
<1> DEFINE n == Len(b)
           Fore(k) == SubSeq(b, 1, k)
           P == {k \in 0 .. n : FlattenSeq(a \o Fore(k)) = FlattenSeq(a) \o FlattenSeq(Fore(k))}
<1>1. n \in Nat /\ \A j \in 1 .. n : b[j] \in Seq(S)
  BY LenProperties, ElementOfSeq
<1>2. ASSUME NEW k \in 0 .. n  PROVE Fore(k) \in Seq(Seq(S))
  <2>1. k \in Int /\ 1 \in Int /\ \A j \in 1 .. k : b[j] \in Seq(S)
    BY <1>1
  <2> QED
    BY <2>1, SubSeqProperties
<1>3. 0 \in P
  <2>1. Fore(0) = << >>
    BY SubSeqEmpty
  <2>2. a \o << >> = a /\ FlattenSeq(a) \o << >> = FlattenSeq(a)
    BY FlattenInSeq, ConcatEmptySeq
  <2>3. FlattenSeq(a \o Fore(0)) = FlattenSeq(a) \o FlattenSeq(Fore(0))
    BY <2>1, <2>2, FlattenEmpty
  <2> QED
    BY <1>1, <2>3
<1>4. ASSUME NEW k \in 0 .. (n - 1), k \in P  PROVE k + 1 \in P
  <2> DEFINE s == b[k + 1]
             f == Fore(k)
  <2>1. s \in Seq(S) /\ f \in Seq(Seq(S)) /\ k + 1 \in 0 .. n
    BY <1>1, <1>2
  <2>2. Fore(k + 1) = Append(f, s)
    BY SubSeqGrows
  <2>3. FlattenSeq(a \o f) = FlattenSeq(a) \o FlattenSeq(f)
    BY <1>4
  <2>4. FlattenSeq(a \o Append(f, s)) = FlattenSeq(a) \o FlattenSeq(Append(f, s))
    <3> HIDE DEF f, s, Fore
    <3> QED
      BY <2>1, <2>3, FlattenConcatStep
  <2> QED
    BY <2>1, <2>2, <2>4
<1> HIDE DEF P, Fore
<1>5. \A k \in 0 .. n : k \in P
  BY <1>1, <1>3, <1>4, UpTo
<1>6. n \in P
  BY <1>1, <1>5
<1>7. Fore(n) = b
  BY SubSeqFull DEF Fore
<1> QED
  BY <1>6, <1>7 DEF P
=============================================================================
