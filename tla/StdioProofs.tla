---------------------------- MODULE StdioProofs -----------------------------
(***************************************************************************)
(* Proofs about Output.                                                    *)
(***************************************************************************)
EXTENDS Output, Induction

-----------------------------------------------------------------------------
(* Sequences some of whose elements are left out.                          *)

(* How p is embedded in t.                                                 *)
Embedding(f, p, t) ==
  /\ f \in [1 .. Len(p) -> 1 .. Len(t)]
  /\ \A j, k \in 1 .. Len(p) : j < k => f[j] < f[k]
  /\ \A j \in 1 .. Len(p) : p[j] = t[f[j]]

(* Embeds says that there is an embedding.                                 *)
LEMMA EmbeddingTrue ==
  ASSUME NEW p, NEW t
  PROVE  Stream!Embeds(p, t) <=> \E f : Embedding(f, p, t)
  BY DEF Stream!Embeds, Embedding

(* Two sequences one behind the other.                                     *)
LEMMA EmbedsConcat ==
  ASSUME NEW S, NEW p \in Seq(S), NEW q \in Seq(S), NEW t \in Seq(S), NEW u \in Seq(S),
         Stream!Embeds(p, t), Stream!Embeds(q, u)
  PROVE  Stream!Embeds(p \o q, t \o u)
<1> DEFINE n == Len(p)
           m == Len(q)
           a == Len(t)
           b == Len(u)
<1>1. PICK f : Embedding(f, p, t)
  BY EmbeddingTrue
<1>2. PICK g : Embedding(g, q, u)
  BY EmbeddingTrue
<1>3. n \in Nat /\ m \in Nat /\ a \in Nat /\ b \in Nat
  BY LenProperties
<1>4. /\ Len(p \o q) = n + m /\ Len(t \o u) = a + b
      /\ \A k \in 1 .. (n + m) : (p \o q)[k] = IF k <= n THEN p[k] ELSE q[k - n]
      /\ \A k \in 1 .. (a + b) : (t \o u)[k] = IF k <= a THEN t[k] ELSE u[k - a]
  BY ConcatProperties
<1>5. /\ f \in [1 .. n -> 1 .. a] /\ \A j, k \in 1 .. n : j < k => f[j] < f[k]
      /\ \A j \in 1 .. n : p[j] = t[f[j]]
      /\ g \in [1 .. m -> 1 .. b] /\ \A j, k \in 1 .. m : j < k => g[j] < g[k]
      /\ \A j \in 1 .. m : q[j] = u[g[j]]
  BY <1>1, <1>2 DEF Embedding
<1> HIDE DEF n, m, a, b
<1> DEFINE h == [k \in 1 .. (n + m) |-> IF k <= n THEN f[k] ELSE g[k - n] + a]
<1>6. \A k \in 1 .. (n + m) :
        \/ k <= n /\ k \in 1 .. n /\ h[k] = f[k] /\ h[k] \in 1 .. a
        \/ ~(k <= n) /\ k - n \in 1 .. m /\ h[k] = g[k - n] + a /\ g[k - n] \in 1 .. b
  BY <1>3, <1>5
<1>7. h \in [1 .. (n + m) -> 1 .. (a + b)]
  <2>1. \A x \in 1 .. a : x \in 1 .. (a + b)
    BY <1>3
  <2>2. \A x \in 1 .. b : x + a \in 1 .. (a + b)
    BY <1>3
  <2> HIDE DEF h
  <2>3. \A k \in 1 .. (n + m) : h[k] \in 1 .. (a + b)
    BY <1>6, <2>1, <2>2
  <2> QED
    BY <2>3 DEF h
<1> HIDE DEF h
<1>8. ASSUME NEW j \in 1 .. (n + m), NEW k \in 1 .. (n + m), j < k  PROVE h[j] < h[k]
  <2>1. CASE k <= n
    <3>1. j \in 1 .. n /\ k \in 1 .. n /\ h[j] = f[j] /\ h[k] = f[k]
      BY <1>3, <1>6, <1>8, <2>1
    <3> QED
      BY <1>5, <1>8, <3>1
  <2>2. CASE ~(k <= n) /\ j <= n
    <3>1. h[j] \in 1 .. a /\ h[k] = g[k - n] + a /\ g[k - n] \in 1 .. b
      BY <1>6, <2>2
    <3> QED
      BY <1>3, <3>1
  <2>3. CASE ~(k <= n) /\ ~(j <= n)
    <3>3. j - n < k - n
      BY <1>3, <1>8
    <3>1. /\ j - n \in 1 .. m /\ k - n \in 1 .. m /\ h[j] = g[j - n] + a /\ h[k] = g[k - n] + a
          /\ j - n < k - n /\ g[j - n] \in 1 .. b /\ g[k - n] \in 1 .. b
      BY <1>6, <2>3, <3>3
    <3>2. g[j - n] < g[k - n]
      BY <1>5, <3>1
    <3> QED
      BY <1>3, <3>1, <3>2
  <2> QED
    BY <2>1, <2>2, <2>3
<1>9. ASSUME NEW k \in 1 .. (n + m)  PROVE (p \o q)[k] = (t \o u)[h[k]]
  <2>1. CASE k <= n
    <3>1. h[k] = f[k] /\ k \in 1 .. n /\ h[k] \in 1 .. (a + b) /\ h[k] <= a
      BY <1>3, <1>6, <2>1
    <3>2. (t \o u)[h[k]] = t[h[k]] /\ (p \o q)[k] = p[k]
      BY <1>4, <2>1, <3>1
    <3> QED
      BY <1>5, <3>1, <3>2
  <2>2. CASE ~(k <= n)
    <3>1. /\ k - n \in 1 .. m /\ h[k] = g[k - n] + a /\ h[k] \in 1 .. (a + b) /\ ~(h[k] <= a)
          /\ h[k] - a = g[k - n]
      BY <1>3, <1>6, <2>2
    <3>2. (t \o u)[h[k]] = u[h[k] - a] /\ (p \o q)[k] = q[k - n]
      BY <1>4, <2>2, <3>1
    <3> QED
      BY <1>5, <3>1, <3>2
  <2> QED
    BY <2>1, <2>2
<1>10. Embedding(h, p \o q, t \o u)
  BY <1>4, <1>7, <1>8, <1>9 DEF Embedding
<1> QED
  BY <1>10, EmbeddingTrue

(* A sequence in itself, and the empty one in any.                         *)
LEMMA EmbedsAll ==
  ASSUME NEW S, NEW t \in Seq(S)
  PROVE  Stream!Embeds(t, t) /\ Stream!Embeds(<< >>, t)
<1> DEFINE n == Len(t)
           f == [k \in 1 .. n |-> k]
<1>1. n \in Nat
  BY LenProperties
<1> HIDE DEF n
<1>2. f \in [1 .. n -> 1 .. n] /\ \A k \in 1 .. n : f[k] = k
  OBVIOUS
<1> HIDE DEF f
<1>3. Embedding(f, t, t)
  BY <1>1, <1>2 DEF Embedding, n
<1>4. Embedding([k \in {} |-> 1], << >>, t)
  <2>1. Len(<< >>) = 0 /\ 1 .. 0 = {}
    OBVIOUS
  <2> QED
    BY <2>1 DEF Embedding
<1> QED
  BY <1>3, <1>4, EmbeddingTrue

(* More behind the sequence that p is embedded in.                         *)
LEMMA EmbedsLonger ==
  ASSUME NEW S, NEW p \in Seq(S), NEW t \in Seq(S), NEW u \in Seq(S), Stream!Embeds(p, t)
  PROVE  Stream!Embeds(p, t \o u)
<1>1. Stream!Embeds(<< >>, u) /\ << >> \in Seq(S)
  BY EmbedsAll
<1>2. Stream!Embeds(p \o << >>, t \o u)
  BY <1>1, EmbedsConcat
<1> QED
  BY <1>2, ConcatEmptySeq

-----------------------------------------------------------------------------
(* Sequences of sequences.                                                 *)

(* One sequence is its own concatenation.                                  *)
LEMMA FlattenOne ==
  ASSUME NEW S, NEW s \in Seq(S)
  PROVE  FlattenSeq(<< s >>) = s
<1>1. << >> \in Seq(Seq(S)) /\ << s >> = Append(<< >>, s)
  OBVIOUS
<1>2. FlattenSeq(<< s >>) = << >> \o s
  BY <1>1, FlattenAppend, FlattenEmpty
<1> QED
  BY <1>2, ConcatEmptySeq

(* The first sequence and the others.                                      *)
LEMMA FlattenHead ==
  ASSUME NEW S, NEW seqs \in Seq(Seq(S)), seqs # << >>
  PROVE  /\ Head(seqs) \in Seq(S) /\ Tail(seqs) \in Seq(Seq(S))
         /\ FlattenSeq(Tail(seqs)) \in Seq(S)
         /\ FlattenSeq(seqs) = Head(seqs) \o FlattenSeq(Tail(seqs))
<1> DEFINE h == Head(seqs)
           r == Tail(seqs)
<1>1. h \in Seq(S) /\ r \in Seq(Seq(S)) /\ seqs = << h >> \o r
  BY HeadTailProperties
<1> HIDE DEF h, r
<1>2. << h >> \in Seq(Seq(S)) /\ FlattenSeq(<< h >>) = h
  BY <1>1, FlattenOne
<1>3. FlattenSeq(<< h >> \o r) = FlattenSeq(<< h >>) \o FlattenSeq(r)
  BY <1>1, <1>2, FlattenConcat
<1>4. FlattenSeq(r) \in Seq(S)
  BY <1>1, FlattenInSeq
<1> QED
  BY <1>1, <1>2, <1>3, <1>4 DEF h, r

(* x is t cut into pieces that end at the places in c.                     *)
CutAt(x, t, c) ==
  /\ c \in [0 .. Len(x) -> 0 .. Len(t)] /\ c[0] = 0
  /\ \A k \in 1 .. Len(x) : c[k - 1] <= c[k] /\ x[k] = SubSeq(t, c[k - 1] + 1, c[k])

(* One more piece.                                                         *)
LEMMA OneMorePiece ==
  ASSUME NEW S, NEW t \in Seq(S), NEW x \in Seq(Seq(S)), NEW c, CutAt(x, t, c),
         NEW k \in 0 .. (Len(x) - 1),
         FlattenSeq(SubSeq(x, 1, k)) = SubSeq(t, 1, c[k])
  PROVE  FlattenSeq(SubSeq(x, 1, k + 1)) = SubSeq(t, 1, c[k + 1])
<1>1. Len(x) \in Nat /\ Len(t) \in Nat /\ \A j \in 1 .. Len(x) : x[j] \in Seq(S)
  BY LenProperties, ElementOfSeq
<1>2. k + 1 \in 1 .. Len(x) /\ (k + 1) - 1 = k /\ k \in 0 .. Len(x) /\ k + 1 \in 0 .. Len(x)
  BY <1>1
<1>3. /\ c[k] \in 0 .. Len(t) /\ c[k + 1] \in 0 .. Len(t) /\ c[k] <= c[k + 1]
      /\ x[k + 1] = SubSeq(t, c[k] + 1, c[k + 1])
  BY <1>2 DEF CutAt
<1>4. SubSeq(x, 1, k) \in Seq(Seq(S))
  <2>1. 1 \in Int /\ k \in Int /\ \A j \in 1 .. k : x[j] \in Seq(S)
    BY <1>1, <1>2
  <2> QED
    BY <2>1, SubSeqProperties
<1>5. FlattenSeq(SubSeq(x, 1, k + 1)) = FlattenSeq(SubSeq(x, 1, k)) \o x[k + 1]
  <2>1. SubSeq(x, 1, k + 1) = Append(SubSeq(x, 1, k), x[k + 1])
    BY SubSeqGrows
  <2>2. x[k + 1] \in Seq(S)
    BY <1>1, <1>2
  <2> QED
    BY <1>4, <2>1, <2>2, FlattenAppend
<1>6. SubSeq(t, 1, c[k]) \o SubSeq(t, c[k] + 1, c[k + 1]) = SubSeq(t, 1, c[k + 1])
  <2>1. /\ 1 \in 1 .. (Len(t) + 1) /\ c[k] \in (1 - 1) .. Len(t)
        /\ c[k + 1] \in c[k] .. Len(t)
    BY <1>1, <1>3
  <2> QED
    BY <2>1, ConcatAdjacentSubSeq
<1> QED
  BY <1>3, <1>5, <1>6

(* The pieces one behind the other are what was cut.                       *)
LEMMA PiecesOfText ==
  ASSUME NEW S, NEW t \in Seq(S), NEW x \in Seq(Seq(S)), NEW c, CutAt(x, t, c),
         c[Len(x)] = Len(t)
  PROVE  FlattenSeq(x) = t
<1> DEFINE n == Len(x)
           P == {k \in 0 .. n : FlattenSeq(SubSeq(x, 1, k)) = SubSeq(t, 1, c[k])}
<1>1. n \in Nat
  BY LenProperties
<1>2. 0 \in P
  <2>1. 0 \in 0 .. n /\ c[0] = 0 /\ SubSeq(x, 1, 0) = << >> /\ SubSeq(t, 1, 0) = << >>
    BY <1>1, SubSeqEmpty DEF CutAt
  <2> QED
    BY <2>1, FlattenEmpty
<1>3. ASSUME NEW k \in 0 .. (n - 1), k \in P  PROVE k + 1 \in P
  <2>1. k + 1 \in 0 .. n
    BY <1>1
  <2>2. FlattenSeq(SubSeq(x, 1, k)) = SubSeq(t, 1, c[k])
    BY <1>3
  <2>3. FlattenSeq(SubSeq(x, 1, k + 1)) = SubSeq(t, 1, c[k + 1])
    BY <2>2, OneMorePiece
  <2> QED
    BY <2>1, <2>3
<1> HIDE DEF P
<1>4. \A k \in 0 .. n : k \in P
  BY <1>1, <1>2, <1>3, UpTo
<1>5. n \in P
  BY <1>1, <1>4
<1>6. FlattenSeq(SubSeq(x, 1, n)) = SubSeq(t, 1, c[n])
  BY <1>5 DEF P
<1> QED
  BY <1>6, SubSeqFull

(* x has all the pieces of y, but for some that are empty.                 *)
Kept(x, y) ==
  Len(x) = Len(y) /\ \A k \in 1 .. Len(x) : x[k] = y[k] \/ x[k] = << >>

(* Pieces left out are characters left out.                                *)
LEMMA KeptEmbeds ==
  ASSUME NEW S, NEW x \in Seq(Seq(S)), NEW y \in Seq(Seq(S)), Kept(x, y)
  PROVE  Stream!Embeds(FlattenSeq(x), FlattenSeq(y))
<1> DEFINE n == Len(x)
           P == {k \in 0 .. n : Stream!Embeds(FlattenSeq(SubSeq(x, 1, k)), FlattenSeq(SubSeq(y, 1, k)))}
<1>1. /\ n \in Nat /\ Len(y) = n
      /\ \A k \in 1 .. n : x[k] \in Seq(S) /\ y[k] \in Seq(S) /\ (x[k] = y[k] \/ x[k] = << >>)
  BY LenProperties, ElementOfSeq DEF Kept
<1>2. 0 \in P
  <2>1. SubSeq(x, 1, 0) = << >> /\ SubSeq(y, 1, 0) = << >> /\ 0 \in 0 .. n
    BY <1>1, SubSeqEmpty
  <2>2. Stream!Embeds(<< >>, << >>)
    <3>1. << >> \in Seq(S)
      OBVIOUS
    <3> QED
      BY <3>1, EmbedsAll
  <2> QED
    BY <2>1, <2>2, FlattenEmpty
<1>3. ASSUME NEW k \in 0 .. (n - 1), k \in P  PROVE k + 1 \in P
  <2> DEFINE a == FlattenSeq(SubSeq(x, 1, k))
             b == FlattenSeq(SubSeq(y, 1, k))
             p == x[k + 1]
             q == y[k + 1]
  <2>1. k + 1 \in 0 .. n /\ k + 1 \in 1 .. n /\ k \in 0 .. (Len(y) - 1) /\ k \in Int
    BY <1>1
  <2>2. p \in Seq(S) /\ q \in Seq(S) /\ (p = q \/ p = << >>) /\ Stream!Embeds(a, b)
    BY <1>1, <1>3, <2>1
  <2>3. SubSeq(x, 1, k) \in Seq(Seq(S)) /\ SubSeq(y, 1, k) \in Seq(Seq(S))
    <3>1. 1 \in Int /\ k \in Int /\ \A j \in 1 .. k : x[j] \in Seq(S)
      BY <1>1, <2>1
    <3>2. \A j \in 1 .. k : y[j] \in Seq(S)
      BY <1>1, <2>1
    <3> QED
      BY <3>1, <3>2, SubSeqProperties
  <2>4. /\ FlattenSeq(SubSeq(x, 1, k + 1)) = a \o p /\ FlattenSeq(SubSeq(y, 1, k + 1)) = b \o q
        /\ a \in Seq(S) /\ b \in Seq(S)
    <3>1. SubSeq(x, 1, k + 1) = Append(SubSeq(x, 1, k), p)
      BY SubSeqGrows
    <3>2. SubSeq(y, 1, k + 1) = Append(SubSeq(y, 1, k), q)
      BY <2>1, SubSeqGrows
    <3> QED
      BY <2>2, <2>3, <3>1, <3>2, FlattenAppend, FlattenInSeq
  <2> HIDE DEF a, b, p, q
  <2>5. Stream!Embeds(p, q)
    BY <2>2, EmbedsAll
  <2>6. Stream!Embeds(a \o p, b \o q)
    BY <2>2, <2>4, <2>5, EmbedsConcat
  <2> QED
    BY <2>1, <2>4, <2>6
<1> HIDE DEF P
<1>4. \A k \in 0 .. n : k \in P
  BY <1>1, <1>2, <1>3, UpTo
<1>5. n \in P
  BY <1>1, <1>4
<1>6. Stream!Embeds(FlattenSeq(SubSeq(x, 1, n)), FlattenSeq(SubSeq(y, 1, n)))
  BY <1>5 DEF P
<1>7. SubSeq(x, 1, n) = x /\ SubSeq(y, 1, n) = y
  BY <1>1, SubSeqFull
<1> QED
  BY <1>6, <1>7

(* Products that the prover needs.                                         *)
LEMMA ProductsTrue ==
  ASSUME NEW a \in Nat, NEW b \in Nat, NEW c \in Nat, a <= b
  PROVE  a * c <= b * c /\ a * c \in Nat /\ (b + 1) * c = b * c + c
  OBVIOUS

(* Three sequences, put together from either end.                          *)
Associates(x, y, z) == (x \o y) \o z = x \o (y \o z)

LEMMA AssociatesTrue == \A S : \A x, y, z \in Seq(S) : Associates(x, y, z)
<1> SUFFICES ASSUME NEW S, NEW x \in Seq(S), NEW y \in Seq(S), NEW z \in Seq(S)
             PROVE  Associates(x, y, z)
  OBVIOUS
<1>1. (x \o y) \o z = x \o (y \o z)
  BY ConcatThree
<1> QED
  BY <1>1 DEF Associates

(* Division, by what it is for.                                            *)
LEMMA DivisionTrue ==
  ASSUME NEW x \in Nat, NEW w \in Nat, w >= 1
  PROVE  /\ x \div w \in Nat /\ (x \div w) * w <= x /\ x < (x \div w) * w + w
         /\ x % w = 0 => (x \div w) * w = x
<1> DEFINE q == x \div w
           r == x % w
<1>1. q \in Int /\ r \in 0 .. (w - 1) /\ x = w * q + r
  OBVIOUS
<1> HIDE DEF q, r
<1>2. q >= 0
  <2> SUFFICES ASSUME q + 1 <= 0 PROVE FALSE
    BY <1>1
  <2>1. w * (q + 1) <= 0
    BY <1>1
  <2>2. w * (q + 1) = w * q + w
    BY <1>1
  <2> QED
    BY <1>1, <2>1, <2>2
<1>3. q * w = w * q
  BY <1>1
<1> QED
  BY <1>1, <1>2, <1>3 DEF q, r

(* fwrite's items.                                                         *)
LEMMA ItemsTrue ==
  ASSUME NEW S, NEW t \in Seq(S), NEW w \in Nat, w >= 1, Len(t) % w = 0
  PROVE  /\ Stream!Items(t, w) \in Seq(Seq(S)) /\ FlattenSeq(Stream!Items(t, w)) = t
         /\ \A k \in 1 .. Len(Stream!Items(t, w)) : Len(Stream!Items(t, w)[k]) = w
<1> DEFINE x == Stream!Items(t, w)
           l == Len(t)
           n == l \div w
           c == [k \in 0 .. n |-> k * w]
<1>1. l \in Nat /\ \A k \in 1 .. l : t[k] \in S
  BY LenProperties, ElementOfSeq
<1> HIDE DEF l
<1>2. n \in Nat /\ n * w = l
  BY <1>1, DivisionTrue DEF l
<1>3. x = [k \in 1 .. n |-> SubSeq(t, (k - 1) * w + 1, k * w)]
  BY DEF Stream!Items, l
<1> HIDE DEF n, x
<1>4. ASSUME NEW k \in 1 .. n
      PROVE  /\ (k - 1) * w \in Nat /\ k * w \in Nat /\ k * w = (k - 1) * w + w /\ k * w <= l
  <2>1. k - 1 \in Nat /\ k \in Nat /\ (k - 1) + 1 = k /\ k <= n /\ k - 1 <= k
    BY <1>2
  <2>2. (k - 1) * w \in Nat /\ k * w \in Nat /\ k * w <= n * w
    BY <1>2, <2>1, ProductsTrue
  <2>3. ((k - 1) + 1) * w = (k - 1) * w + w
    BY <2>1, ProductsTrue
  <2> QED
    BY <1>2, <2>1, <2>2, <2>3
<1>5. ASSUME NEW k \in 1 .. n  PROVE x[k] \in Seq(S) /\ Len(x[k]) = w
  <2> DEFINE a == (k - 1) * w
             b == k * w
  <2>1. a \in Nat /\ b = a + w /\ b <= l /\ x[k] = SubSeq(t, a + 1, b)
    BY <1>3, <1>4
  <2> HIDE DEF a, b
  <2>2. a + 1 \in Int /\ b \in Int /\ \A j \in (a + 1) .. b : t[j] \in S
    BY <1>1, <2>1
  <2>3. SubSeq(t, a + 1, b) \in Seq(S)
        /\ Len(SubSeq(t, a + 1, b)) = IF a + 1 <= b THEN b - (a + 1) + 1 ELSE 0
    BY <2>2, SubSeqProperties
  <2> QED
    BY <2>1, <2>3
<1>6. x \in Seq(Seq(S)) /\ Len(x) = n
  <2>1. x \in [1 .. n -> Seq(S)]
    BY <1>3, <1>5
  <2>2. x \in Seq(Seq(S))
    BY <1>2, <2>1, SeqDef
  <2> QED
    BY <1>2, <2>1, <2>2, LenProperties
<1>7. CutAt(x, t, c) /\ c[Len(x)] = Len(t)
  <2>1. c \in [0 .. n -> 0 .. l] /\ c[0] = 0 /\ c[n] = l
    <3>1. ASSUME NEW k \in 0 .. n  PROVE k * w \in 0 .. l
      <4>1. CASE k = 0
        BY <1>1, <4>1
      <4>2. CASE k # 0
        <5>1. k \in 1 .. n
          BY <4>2
        <5> QED
          BY <1>1, <1>4, <5>1
      <4> QED
        BY <4>1, <4>2
    <3>2. 0 \in 0 .. n /\ n \in 0 .. n /\ 0 * w = 0
      BY <1>2
    <3> QED
      BY <1>2, <3>1, <3>2
  <2>2. ASSUME NEW k \in 1 .. n
        PROVE  c[k - 1] <= c[k] /\ x[k] = SubSeq(t, c[k - 1] + 1, c[k])
    <3>1. k - 1 \in 0 .. n /\ k \in 0 .. n
      BY <1>2
    <3>2. c[k - 1] = (k - 1) * w /\ c[k] = k * w
      BY <3>1
    <3>3. (k - 1) * w <= k * w
      BY <1>4
    <3> QED
      BY <1>3, <3>2, <3>3
  <2> HIDE DEF c
  <2> QED
    BY <1>6, <2>1, <2>2 DEF CutAt, l
<1> HIDE DEF c
<1>8. FlattenSeq(x) = t
  BY <1>6, <1>7, PiecesOfText
<1> QED
  BY <1>5, <1>6, <1>8 DEF x

-----------------------------------------------------------------------------
(* What the runtimes do with the characters they are given.                *)

(* The text to its first NUL is its beginning.                             *)
LEMMA UpToNulTrue ==
  ASSUME NEW S, NEW s \in Seq(S)
  PROVE  \E m \in 0 .. Len(s) : Stream!Hook!UpToNul(s) = SubSeq(s, 1, m)
<1> DEFINE y == Append(s, NUL)
           l == Len(s)
           I == {k \in 1 .. Len(y) : y[k] = NUL}
<1>1. l \in Nat /\ Len(y) = l + 1 /\ y[l + 1] = NUL
  <2>1. s \in Seq(S \cup {NUL})
    BY SeqMonotonic
  <2> QED
    BY <2>1, AppendProperties, LenProperties
<1>2. I \subseteq 1 .. (l + 1) /\ l + 1 \in I
  BY <1>1
<1>3. Stream!Hook!UpToNul(s) =
        SubSeq(s, 1, (IF I # {} THEN CHOOSE k \in I : \A j \in I : k <= j ELSE 0) - 1)
  BY DEF Stream!Hook!UpToNul, Stream!Hook!SelectInSeq, Stream!Hook!Min
<1> HIDE DEF I, l
<1>4. PICK k \in I : \A j \in I : k <= j
  <2>1. I \subseteq Nat /\ I # {}
    BY <1>1, <1>2
  <2> QED
    BY <2>1, LeastNat
<1> DEFINE m == CHOOSE x \in I : \A j \in I : x <= j
<1>5. m \in I
  BY <1>4
<1> HIDE DEF m
<1>6. m - 1 \in 0 .. l
  BY <1>1, <1>2, <1>5
<1>7. Stream!Hook!UpToNul(s) = SubSeq(s, 1, m - 1)
  BY <1>3, <1>5 DEF m
<1> QED
  BY <1>6, <1>7 DEF l

(* A part of a text from its start.                                        *)
LEMMA StartTrue ==
  ASSUME NEW S, NEW s \in Seq(S), NEW m \in 0 .. Len(s)
  PROVE  /\ SubSeq(s, 1, m) \in Seq(S) /\ Len(SubSeq(s, 1, m)) = m
         /\ SubSeq(s, m + 1, Len(s)) \in Seq(S)
         /\ s = SubSeq(s, 1, m) \o SubSeq(s, m + 1, Len(s))
         /\ Stream!Embeds(SubSeq(s, 1, m), s)
<1> DEFINE l == Len(s)
           a == SubSeq(s, 1, m)
           b == SubSeq(s, m + 1, l)
<1>1. l \in Nat /\ \A k \in 1 .. l : s[k] \in S
  BY LenProperties, ElementOfSeq
<1>2. a \in Seq(S) /\ Len(a) = m
  <2>1. 1 \in Int /\ m \in Int /\ \A k \in 1 .. m : s[k] \in S
    BY <1>1
  <2>2. a \in Seq(S) /\ Len(a) = IF 1 <= m THEN m - 1 + 1 ELSE 0
    BY <2>1, SubSeqProperties
  <2> QED
    BY <1>1, <2>2
<1>3. b \in Seq(S)
  <2>1. m + 1 \in Int /\ l \in Int /\ \A k \in (m + 1) .. l : s[k] \in S
    BY <1>1
  <2> QED
    BY <2>1, SubSeqProperties
<1>4. s = a \o b
  <2>1. 1 \in 1 .. (Len(s) + 1) /\ m \in (1 - 1) .. Len(s) /\ l \in m .. Len(s)
    BY <1>1
  <2>2. a \o b = SubSeq(s, 1, l)
    BY <2>1, ConcatAdjacentSubSeq
  <2> QED
    BY <2>2, SubSeqFull
<1> HIDE DEF a, b
<1>5. Stream!Embeds(a, a \o b)
  <2>1. Stream!Embeds(a, a)
    BY <1>2, EmbedsAll
  <2> QED
    BY <1>2, <1>3, <2>1, EmbedsLonger
<1> QED
  BY <1>2, <1>3, <1>4, <1>5 DEF a, b

(* The library's operator, as WriteHook sees it.                           *)
LEMMA SameFlatten == \A x : Stream!Hook!FlattenSeq(x) = FlattenSeq(x)
  BY DEF FlattenSeq, Stream!Hook!FlattenSeq

(* The pieces of the EFI hooks.                                            *)
LEMMA PiecesTrue ==
  ASSUME NEW S, NEW s \in Seq(S), Stream!Hook!WriteHookAssumption
  PROVE  /\ Stream!Hook!Pieces(s) \in Seq(Seq(S)) /\ FlattenSeq(Stream!Hook!Pieces(s)) = Stream!Hook!UpToNul(s)
         /\ Stream!Hook!UpToNul(s) \in Seq(S)
<1> DEFINE t == Stream!Hook!UpToNul(s)
           x == Stream!Hook!Pieces(s)
           l == Len(t)
           w == Piece
           n == (l + w - 1) \div w
           end(k) == IF k * w < l THEN k * w ELSE l
           c == [k \in 0 .. n |-> end(k)]
<1>1. w \in Nat /\ w >= 1
  BY DEF Stream!Hook!WriteHookAssumption
<1>2. t \in Seq(S)
  BY UpToNulTrue, StartTrue
<1>3. l \in Nat /\ \A k \in 1 .. l : t[k] \in S
  BY <1>2, LenProperties, ElementOfSeq
<1>4. x = [k \in 1 .. n |-> SubSeq(t, (k - 1) * w + 1, end(k))]
  BY DEF Stream!Hook!Pieces
<1> HIDE DEF t, l, w, x
<1>5. n \in Nat /\ n * w <= l + w - 1 /\ l <= n * w
  <2> DEFINE y == l + w - 1
             z == (y \div w) * w
  <2>1. y \in Nat
    BY <1>1, <1>3
  <2>2. y \div w \in Nat /\ z <= y /\ y < z + w /\ z \in Nat
    <3> HIDE DEF y
    <3>1. y \div w \in Nat /\ (y \div w) * w <= y /\ y < (y \div w) * w + w
      BY <1>1, <2>1, DivisionTrue
    <3>2. (y \div w) * w \in Nat
      BY <1>1, <3>1, ProductsTrue
    <3> QED
      BY <3>1, <3>2
  <2>3. l <= z
    <3> HIDE DEF z
    <3> QED
      BY <1>1, <1>3, <2>2
  <2> QED
    BY <2>2, <2>3
<1> HIDE DEF n
<1>6. ASSUME NEW k \in 1 .. n
      PROVE  /\ (k - 1) * w \in Nat /\ (k - 1) * w < l /\ k * w = (k - 1) * w + w
             /\ end(k - 1) = (k - 1) * w /\ end(k) \in 0 .. l /\ end(k - 1) <= end(k)
  <2>1. k - 1 \in Nat /\ k \in Nat /\ (k - 1) + 1 = k /\ k <= n
    BY <1>5
  <2> DEFINE a == (k - 1) * w
             b == k * w
             d == n * w
  <2>2. a \in Nat /\ b <= d /\ d \in Nat
    BY <1>1, <1>5, <2>1, ProductsTrue
  <2>3. b = a + w
    <3>1. ((k - 1) + 1) * w = (k - 1) * w + w
      BY <1>1, <2>1, ProductsTrue
    <3> QED
      BY <2>1, <3>1
  <2>4. d <= l + w - 1
    BY <1>5
  <2> HIDE DEF a, b, d
  <2>5. /\ a < l /\ (IF a < l THEN a ELSE l) = a /\ (IF b < l THEN b ELSE l) \in 0 .. l
        /\ a <= (IF b < l THEN b ELSE l)
    BY <1>1, <1>3, <2>2, <2>3, <2>4
  <2> QED
    BY <2>2, <2>3, <2>5 DEF a, b
<1>7. end(n) = l /\ end(0) = 0
  <2>1. 0 * w = 0 /\ ~(n * w < l)
    <3> DEFINE d == n * w
    <3>1. d \in Nat /\ l <= d
      BY <1>1, <1>5, ProductsTrue
    <3> HIDE DEF d
    <3>2. ~(d < l)
      BY <1>3, <3>1
    <3> QED
      BY <1>1, <3>2 DEF d
  <2> QED
    BY <1>3, <2>1
<1> HIDE DEF end
<1>8. ASSUME NEW k \in 1 .. n  PROVE x[k] = SubSeq(t, end(k - 1) + 1, end(k)) /\ x[k] \in Seq(S)
  <2>1. x[k] = SubSeq(t, end(k - 1) + 1, end(k))
    BY <1>4, <1>6
  <2> DEFINE a == end(k - 1)
             b == end(k)
  <2>2. a \in Nat /\ b \in 0 .. l
    BY <1>6
  <2> HIDE DEF a, b
  <2>3. a + 1 \in Int /\ b \in Int /\ \A j \in (a + 1) .. b : t[j] \in S
    BY <1>3, <2>2
  <2>4. SubSeq(t, a + 1, b) \in Seq(S)
    BY <2>3, SubSeqProperties
  <2> QED
    BY <2>1, <2>4 DEF a, b
<1>9. x \in Seq(Seq(S)) /\ Len(x) = n
  <2>1. x \in [1 .. n -> Seq(S)]
    <3>1. DOMAIN x = 1 .. n /\ x = [k \in 1 .. n |-> x[k]]
      BY <1>4
    <3> QED
      BY <1>8, <3>1
  <2>2. x \in Seq(Seq(S))
    BY <1>5, <2>1, SeqDef
  <2> QED
    BY <1>5, <2>1, <2>2, LenProperties
<1>10. CutAt(x, t, c) /\ c[Len(x)] = l
  <2>1. c \in [0 .. n -> 0 .. l] /\ c[0] = 0 /\ c[n] = l
    <3>1. ASSUME NEW k \in 0 .. n  PROVE end(k) \in 0 .. l
      <4>1. CASE k = 0
        BY <1>3, <1>7, <4>1
      <4>2. CASE k # 0
        <5>1. k \in 1 .. n
          BY <4>2
        <5> QED
          BY <1>6, <5>1
      <4> QED
        BY <4>1, <4>2
    <3>2. 0 \in 0 .. n /\ n \in 0 .. n
      BY <1>5
    <3> QED
      BY <1>7, <3>1, <3>2
  <2>2. ASSUME NEW k \in 1 .. n
        PROVE  c[k - 1] <= c[k] /\ x[k] = SubSeq(t, c[k - 1] + 1, c[k])
    <3>1. k - 1 \in 0 .. n /\ k \in 0 .. n
      BY <1>5
    <3>2. c[k - 1] = end(k - 1) /\ c[k] = end(k)
      BY <3>1
    <3> QED
      BY <1>6, <1>8, <3>2
  <2> HIDE DEF c
  <2> QED
    BY <1>9, <2>1, <2>2 DEF CutAt, l
<1> HIDE DEF c
<1>11. FlattenSeq(x) = t
  BY <1>2, <1>9, <1>10, PiecesOfText DEF l
<1> QED
  BY <1>2, <1>9, <1>11 DEF x, t

(* What a write may do, whatever the runtime: characters may be missing,   *)
(* and a write of which none is missing says so.                           *)
OutcomeOK(o, s, S) ==
  /\ o.ret \in Int /\ o.printed \in Seq(S) /\ Stream!Embeds(o.printed, s)
  /\ o.printed = s /\ s # << >> => o.ret = Len(s)

(* And what it may do in a native process, which is told of it.            *)
NativeOK(o, s) ==
  \/ o.ret = -1 /\ o.printed = << >>
  \/ o.ret \in 0 .. Len(s) /\ o.printed = SubSeq(s, 1, o.ret) /\ Len(o.printed) = o.ret

(* The native hooks.                                                       *)
LEMMA NativeTrue ==
  ASSUME NEW S, NEW s \in Seq(S), NEW o \in Stream!Hook!NativeOutcomes(s)
  PROVE  OutcomeOK(o, s, S) /\ NativeOK(o, s)
<1>1. Len(s) \in Nat /\ << >> \in Seq(S) /\ Stream!Embeds(<< >>, s)
  BY LenProperties, EmbedsAll
<1>2. CASE o = [ret |-> -1, printed |-> << >>]
  <2>1. o.ret = -1 /\ o.printed = << >>
    BY <1>2
  <2>2. o.printed = s /\ s # << >> => FALSE
    BY <2>1
  <2> QED
    BY <1>1, <2>1, <2>2 DEF OutcomeOK, NativeOK
<1>3. ASSUME NEW m \in 0 .. Len(s), o = [ret |-> m, printed |-> SubSeq(s, 1, m)]
      PROVE  OutcomeOK(o, s, S) /\ NativeOK(o, s)
  <2>1. o.ret = m /\ o.printed = SubSeq(s, 1, m)
    BY <1>3
  <2>2. /\ SubSeq(s, 1, m) \in Seq(S) /\ Len(SubSeq(s, 1, m)) = m
        /\ Stream!Embeds(SubSeq(s, 1, m), s)
    BY StartTrue
  <2>3. SubSeq(s, 1, m) = s => m = Len(s)
    BY <2>2
  <2> QED
    BY <1>1, <2>1, <2>2, <2>3 DEF OutcomeOK, NativeOK
<1> QED
  BY <1>2, <1>3 DEF Stream!Hook!NativeOutcomes

(* The hooks of EFI.                                                       *)
LEMMA ConsoleTrue ==
  ASSUME NEW S, NEW s \in Seq(S), NEW o \in Stream!Hook!ConsoleOutcomes(s),
         Stream!Hook!WriteHookAssumption
  PROVE  OutcomeOK(o, s, S)
<1> DEFINE x == Stream!Hook!Pieces(s)
           t == Stream!Hook!UpToNul(s)
<1>1. x \in Seq(Seq(S)) /\ FlattenSeq(x) = t
  BY PiecesTrue
<1>2. PICK taken \in SUBSET (DOMAIN x) :
        o = [ret |-> Len(s),
             printed |-> Stream!Hook!FlattenSeq([j \in DOMAIN x |-> IF j \in taken THEN x[j] ELSE << >>])]
  BY DEF Stream!Hook!ConsoleOutcomes
<1>3. PICK m \in 0 .. Len(s) : t = SubSeq(s, 1, m)
  BY UpToNulTrue
<1> HIDE DEF x, t
<1> DEFINE n == Len(x)
           y == [j \in 1 .. n |-> IF j \in taken THEN x[j] ELSE << >>]
<1>4. n \in Nat /\ DOMAIN x = 1 .. n /\ \A j \in 1 .. n : x[j] \in Seq(S)
  BY <1>1, LenProperties, ElementOfSeq
<1>5. o.ret = Len(s) /\ o.printed = FlattenSeq(y)
  BY <1>2, <1>4, SameFlatten
<1> HIDE DEF n
<1>6. \A j \in 1 .. n : y[j] \in Seq(S) /\ (y[j] = x[j] \/ y[j] = << >>)
  BY <1>4
<1>7. y \in Seq(Seq(S)) /\ Len(y) = n
  <2>1. y \in [1 .. n -> Seq(S)]
    BY <1>6
  <2> HIDE DEF y
  <2>2. y \in Seq(Seq(S))
    BY <1>4, <2>1, SeqDef
  <2> QED
    BY <1>4, <2>1, <2>2, LenProperties
<1> HIDE DEF y
<1>8. Stream!Embeds(FlattenSeq(y), t) /\ FlattenSeq(y) \in Seq(S)
  <2>1. Kept(y, x)
    BY <1>6, <1>7 DEF Kept, n
  <2> QED
    BY <1>1, <1>7, <2>1, KeptEmbeds, FlattenInSeq
<1>9. t \in Seq(S) /\ SubSeq(s, m + 1, Len(s)) \in Seq(S) /\ s = t \o SubSeq(s, m + 1, Len(s))
  BY <1>3, StartTrue
<1>10. Stream!Embeds(FlattenSeq(y), s)
  <2> DEFINE u == SubSeq(s, m + 1, Len(s))
  <2>1. u \in Seq(S) /\ s = t \o u
    BY <1>9
  <2> HIDE DEF u
  <2>2. Stream!Embeds(FlattenSeq(y), t \o u)
    BY <1>8, <1>9, <2>1, EmbedsLonger
  <2> QED
    BY <2>1, <2>2
<1>11. Len(s) \in Int
  BY LenProperties
<1> QED
  BY <1>5, <1>8, <1>10, <1>11 DEF OutcomeOK

-----------------------------------------------------------------------------
(* The calls in progress.                                                  *)

(* The characters there are.                                               *)
OfTexts == UNION {ToSet(x) : x \in Texts}
Chars == OfTexts \cup {Newline}

(* The hooks are those of a native process.                                *)
OverNative == part = "native"

(* The constants are what the code needs.                                  *)
Assumptions == Stream!StdioAssumption

(* The texts are sequences of characters.                                  *)
LEMMA TextsTrue ==
  ASSUME Stream!StdioAssumption
  PROVE  \A x \in Texts : x \in Seq(Chars)
<1> SUFFICES ASSUME NEW x \in Texts PROVE x \in Seq(Chars)
  OBVIOUS
<1>1. x \in Seq(ToSet(x))
  BY DEF Stream!StdioAssumption, Stream!ToSet, ToSet
<1>2. ToSet(x) \subseteq OfTexts
  BY DEF OfTexts
<1>3. ToSet(x) \subseteq Chars
  BY <1>2 DEF Chars
<1> QED
  BY <1>1, <1>3, SeqMonotonic

(* What a write may do.                                                    *)
LEMMA OutcomesTrue ==
  ASSUME Assumptions, NEW s \in Seq(Chars), NEW o \in Stream!Outcomes(s)
  PROVE  OutcomeOK(o, s, Chars) /\ (OverNative => NativeOK(o, s))
<1>1. o \in Stream!Hook!NativeOutcomes(s) \/ o \in Stream!Hook!ConsoleOutcomes(s)
  BY DEF Stream!Outcomes
<1>2. OverNative => o \in Stream!Hook!NativeOutcomes(s)
  BY DEF OverNative, Stream!Outcomes
<1>3. Stream!Hook!WriteHookAssumption
  BY DEF Assumptions, Stream!StdioAssumption
<1> QED
  BY <1>1, <1>2, <1>3, NativeTrue, ConsoleTrue

DirectCalls ==
  [fn : Stream!Direct, text : Seq(Chars), size : Nat, todo : Seq(Seq(Chars)), done : Nat,
   printed : Seq(Chars)]
FormatCalls ==
  [fn : {"vfprintf"}, text : Seq(Chars), todo : Seq(Chars), buff : Seq(Chars), total : Int,
   printed : Seq(Chars)]

(* The items of fwrite are of one size.                                    *)
ItemsOK(c) ==
  c.fn = "fwrite" => c.size >= 1 /\ \A k \in 1 .. Len(c.todo) : Len(c.todo[k]) = c.size

(* The characters that have been given to the runtime, of which some are   *)
(* printed, and those that have not.                                       *)
Rest(c) == IF c.fn = "vfprintf" THEN c.buff \o c.todo ELSE FlattenSeq(c.todo)
Given(c, b, s) ==
  /\ b \in Seq(Chars) /\ Stream!Embeds(c.printed, b) /\ c.text = b \o Rest(c)
  /\ ~s => c.printed = b

(* The counts of a native process.                                         *)
Told(c) ==
  IF c.fn = "vfprintf" THEN c.total = Len(c.printed)
  ELSE /\ c.text = c.printed \o FlattenSeq(c.todo)
       /\ c.fn = "fwrite" => Len(c.printed) = c.done * c.size

(* What is known of a call in progress.                                    *)
CallOK ==
  \/ call = Stream!None
  \/ /\ call \in DirectCalls /\ ItemsOK(call)
     /\ \E b : Given(call, b, short)
     /\ OverNative => Told(call)
  \/ /\ call \in FormatCalls /\ Len(call.buff) < Capacity
     /\ \E b : Given(call, b, short)
     /\ OverNative => Told(call)

(* What is known of the last one.                                          *)
LastOK ==
  /\ Stream!PrintedInOrder
  /\ OverNative => Stream!CountIsTrue /\ Stream!StopsWhenShort

StdioInv == CallOK /\ LastOK /\ Stream!NeverAborts

(* No call is None.                                                        *)
LEMMA NoneTrue ==
  /\ \A c \in DirectCalls : c # Stream!None /\ c.fn \in Stream!Direct /\ c.fn # "vfprintf"
  /\ \A c \in FormatCalls : c # Stream!None /\ c.fn = "vfprintf" /\ c.fn \notin Stream!Direct
  /\ Stream!None.fn \notin Stream!Direct /\ Stream!None.fn # "vfprintf"
  BY DEF DirectCalls, FormatCalls, Stream!None, Stream!Direct

(* Before the first call.                                                  *)
LEMMA Initially ==
  ASSUME Stream!Init \/ StreamOff
  PROVE  StdioInv
<1>1. call = Stream!None /\ last = Stream!None /\ aborted = FALSE
  BY DEF Stream!Init, StreamOff
<1> QED
  BY <1>1 DEF StdioInv, CallOK, LastOK, Stream!PrintedInOrder, Stream!CountIsTrue,
              Stream!StopsWhenShort, Stream!NeverAborts

(* A function that writes nothing, as its stream cannot be written.        *)
LEMMA RefusedTrue ==
  ASSUME NEW fn \in Stream!Direct \cup {"vfprintf"}, NEW text \in Seq(Chars), NEW n \in Nat, NEW v,
         fn = "fwrite" => v = 0 /\ n >= 1, fn # "fwrite" => v = -1,
         Stream!Return(fn, text, n, << >>, v), ~aborted,
         OverNative' <=> OverNative
  PROVE  StdioInv'
<1>1. call' = Stream!None /\ aborted' = FALSE
      /\ last' = [fn |-> fn, text |-> text, size |-> n, printed |-> << >>, value |-> v]
  BY DEF Stream!Return
<1>2. /\ last'.fn = fn /\ last'.text = text /\ last'.size = n /\ last'.printed = << >>
      /\ last'.value = v /\ last' # Stream!None
  BY <1>1 DEF Stream!None
<1>3. Stream!Embeds(<< >>, text)
  BY EmbedsAll
<1>4. IsPrefix(<< >>, text)
  <2>1. Len(<< >>) = 0 /\ Len(text) \in Nat /\ SubSeq(<< >>, 1, 0) = << >> /\ SubSeq(text, 1, 0) = << >>
    BY SubSeqEmpty, LenProperties
  <2> QED
    BY <2>1 DEF IsPrefix
<1>5. CallOK' /\ Stream!NeverAborts'
  BY <1>1 DEF CallOK, Stream!NeverAborts
<1>6. Stream!PrintedInOrder'
  BY <1>2, <1>3 DEF Stream!PrintedInOrder, Stream!EOF
<1>7. Stream!StopsWhenShort'
  BY <1>2, <1>4 DEF Stream!StopsWhenShort, Stream!IsPrefix, IsPrefix
<1>8. Stream!CountIsTrue'
  <2>1. Len(<< >>) = 0
    OBVIOUS
  <2>2. CASE fn = "vfprintf"
    BY <1>2, <2>2 DEF Stream!CountIsTrue, Stream!EOF
  <2>3. CASE fn = "fwrite"
    <3>1. 0 * n = 0 /\ (0 + 1) * n = n
      OBVIOUS
    <3> QED
      BY <1>2, <2>1, <2>3, <3>1 DEF Stream!CountIsTrue, Stream!EOF
  <2>4. CASE fn # "vfprintf" /\ fn # "fwrite"
    BY <1>2, <2>4 DEF Stream!CountIsTrue, Stream!EOF
  <2> QED
    BY <2>2, <2>3, <2>4
<1>9. (OverNative => Stream!CountIsTrue /\ Stream!StopsWhenShort)'
  BY <1>7, <1>8
<1> QED
  BY <1>5, <1>6, <1>9 DEF StdioInv, LastOK

(* A direct function that has its chunks to write.                         *)
LEMMA EnterTrue ==
  ASSUME StdioInv, NEW fn \in Stream!Direct, NEW text \in Seq(Chars), NEW n \in Nat,
         NEW x \in Seq(Seq(Chars)), FlattenSeq(x) = text,
         fn = "fwrite" => n >= 1 /\ \A k \in 1 .. Len(x) : Len(x[k]) = n,
         Stream!Enter(fn, text, n, x),
         OverNative' <=> OverNative
  PROVE  StdioInv'
<1> DEFINE c == [fn |-> fn, text |-> text, size |-> n, todo |-> x, done |-> 0, printed |-> << >>]
<1>1. call' = c /\ last' = last /\ aborted' = aborted
  BY DEF Stream!Enter
<1>2. c \in DirectCalls /\ << >> \in Seq(Chars)
  BY DEF DirectCalls
<1>3. /\ c.fn = fn /\ c.text = text /\ c.size = n /\ c.todo = x /\ c.done = 0
      /\ c.printed = << >>
  OBVIOUS
<1> HIDE DEF c
<1>4. c # Stream!None /\ fn # "vfprintf"
  BY <1>2, <1>3, NoneTrue
<1>5. Given(c, << >>, short')
  <2>1. Stream!Embeds(<< >>, << >>) /\ text = << >> \o text
    BY <1>2, EmbedsAll, ConcatEmptySeq
  <2> QED
    BY <1>2, <1>3, <1>4, <2>1 DEF Given, Rest
<1>6. ItemsOK(c) /\ Told(c)
  <2>1. text = << >> \o text /\ Len(<< >>) = 0 /\ 0 * n = 0
    BY ConcatEmptySeq
  <2> QED
    BY <1>3, <1>4, <2>1 DEF ItemsOK, Told
<1>7. CallOK'
  <2>1. ItemsOK(call)' /\ (\E b : Given(call, b, short))' /\ Told(call)'
    BY <1>1, <1>5, <1>6 DEF ItemsOK, Given, Told, Rest
  <2> QED
    BY <1>1, <1>2, <2>1 DEF CallOK
<1>8. Stream!PrintedInOrder' /\ (OverNative => Stream!CountIsTrue /\ Stream!StopsWhenShort)'
  BY <1>1, <1>4 DEF StdioInv, LastOK, Stream!PrintedInOrder, Stream!CountIsTrue,
         Stream!StopsWhenShort
<1> QED
  BY <1>1, <1>7, <1>8 DEF StdioInv, LastOK, Stream!NeverAborts

(* vfprintf, which has nothing in its buffer yet.                          *)
LEMMA VfprintfTrue ==
  ASSUME Assumptions, StdioInv, NEW text \in Seq(Chars), NEW stream, Stream!Vfprintf(text, stream),
         OverNative' <=> OverNative
  PROVE  StdioInv'
<1>1. CASE ~Stream!Writable(stream)
  <2>1. Stream!Return("vfprintf", text, 1, << >>, -1)
    BY <1>1 DEF Stream!Vfprintf
  <2>2. "vfprintf" \in Stream!Direct \cup {"vfprintf"} /\ 1 \in Nat /\ "vfprintf" # "fwrite" /\ ~aborted
    BY DEF StdioInv, Stream!NeverAborts
  <2> QED
    BY <2>1, <2>2, RefusedTrue
<1>2. CASE Stream!Writable(stream)
  <2> DEFINE c == [fn |-> "vfprintf", text |-> text, todo |-> text, buff |-> << >>,
                   total |-> 0, printed |-> << >>]
  <2>1. call' = c /\ last' = last /\ aborted' = aborted
    BY <1>2 DEF Stream!Vfprintf
  <2>2. c \in FormatCalls /\ << >> \in Seq(Chars)
    BY DEF FormatCalls
  <2>3. /\ c.fn = "vfprintf" /\ c.text = text /\ c.todo = text /\ c.buff = << >> /\ c.total = 0
        /\ c.printed = << >>
    OBVIOUS
  <2> HIDE DEF c
  <2>4. c # Stream!None
    BY <2>2, NoneTrue
  <2>5. Given(c, << >>, short') /\ Told(c) /\ Len(c.buff) < Capacity
    <3>1. Stream!Embeds(<< >>, << >>) /\ text = << >> \o text /\ Len(<< >>) = 0
      BY <2>2, EmbedsAll, ConcatEmptySeq
    <3>2. Capacity \in Nat \ {0}
      BY DEF Assumptions, Stream!StdioAssumption
    <3> QED
      BY <2>2, <2>3, <3>1, <3>2 DEF Given, Rest, Told
  <2>6. CallOK'
    <3>1. (Len(call.buff) < Capacity)' /\ (\E b : Given(call, b, short))' /\ Told(call)'
      BY <2>1, <2>5 DEF Given, Told, Rest
    <3> QED
      BY <2>1, <2>2, <3>1 DEF CallOK
  <2>7. Stream!PrintedInOrder' /\ (OverNative => Stream!CountIsTrue /\ Stream!StopsWhenShort)'
    BY <2>1, <2>4 DEF StdioInv, LastOK, Stream!PrintedInOrder, Stream!CountIsTrue,
         Stream!StopsWhenShort
  <2> QED
    BY <2>1, <2>6, <2>7 DEF StdioInv, LastOK, Stream!NeverAborts
<1> QED
  BY <1>1, <1>2

(* A function is called.                                                   *)
LEMMA CallTrue ==
  ASSUME Assumptions, StdioInv, Stream!Call,
         OverNative' <=> OverNative
  PROVE  StdioInv'
<1>1. \A x \in Texts : x \in Seq(Chars)
  BY TextsTrue DEF Assumptions
<1>2. ~aborted /\ Newline \in Chars
  BY DEF StdioInv, Stream!NeverAborts, Chars
<1>3. ASSUME NEW s \in Seq(Chars)
      PROVE  Len(s) \in Nat /\ << s >> \in Seq(Seq(Chars)) /\ FlattenSeq(<< s >>) = s
  BY <1>3, LenProperties, FlattenOne
<1>4. ASSUME NEW s \in Seq(Chars), s # << >>
      PROVE  Head(s) \in Chars /\ << Head(s) >> \in Seq(Chars)
  BY <1>4, HeadTailProperties
<1>5. /\ 1 \in Nat /\ "fputc" \in Stream!Direct /\ "fputs" \in Stream!Direct /\ "putchar" \in Stream!Direct
      /\ "puts" \in Stream!Direct /\ "fwrite" \in Stream!Direct
      /\ "fputc" # "fwrite" /\ "fputs" # "fwrite" /\ "putchar" # "fwrite" /\ "puts" # "fwrite"
  BY DEF Stream!Direct
<1>6. ASSUME NEW s \in Texts, NEW stream \in Stream!Stream, s # << >>, Stream!Fputc(Head(s), stream)
      PROVE  StdioInv'
  <2> DEFINE t == << Head(s) >>
  <2>1. t \in Seq(Chars)
    BY <1>1, <1>4, <1>6
  <2>2. << t >> \in Seq(Seq(Chars)) /\ FlattenSeq(<< t >>) = t
    BY <1>3, <2>1
  <2>3. Stream!Enter("fputc", t, 1, << t >>) \/ Stream!Return("fputc", t, 1, << >>, -1)
    BY <1>6 DEF Stream!Fputc, Stream!EOF
  <2> HIDE DEF t
  <2> QED
    BY <1>2, <1>5, <2>1, <2>2, <2>3, EnterTrue, RefusedTrue
<1>7. ASSUME NEW s \in Texts, NEW stream \in Stream!Stream, Stream!Fputs(s, stream)
      PROVE  StdioInv'
  <2>1. s \in Seq(Chars)
    BY <1>1
  <2>2. << s >> \in Seq(Seq(Chars)) /\ FlattenSeq(<< s >>) = s /\ Len(s) \in Nat
    BY <1>3, <2>1
  <2>3. Stream!Enter("fputs", s, Len(s), << s >>) \/ Stream!Return("fputs", s, Len(s), << >>, -1)
    BY <1>7 DEF Stream!Fputs, Stream!EOF
  <2> QED
    BY <1>2, <1>5, <2>1, <2>2, <2>3, EnterTrue, RefusedTrue
<1>8. ASSUME NEW s \in Texts, s # << >>, Stream!Putchar(Head(s))
      PROVE  StdioInv'
  <2> DEFINE t == << Head(s) >>
  <2>1. t \in Seq(Chars)
    BY <1>1, <1>4, <1>8
  <2>2. << t >> \in Seq(Seq(Chars)) /\ FlattenSeq(<< t >>) = t
    BY <1>3, <2>1
  <2>3. Stream!Enter("putchar", t, 1, << t >>)
    BY <1>8 DEF Stream!Putchar
  <2> HIDE DEF t
  <2> QED
    BY <1>2, <1>5, <2>1, <2>2, <2>3, EnterTrue
<1>9. ASSUME NEW s \in Texts, Stream!Puts(s)
      PROVE  StdioInv'
  <2> DEFINE t == Append(s, Newline)
             x == << s, << Newline >> >>
  <2>1. s \in Seq(Chars) /\ << Newline >> \in Seq(Chars) /\ t \in Seq(Chars) /\ Len(s) \in Nat
    BY <1>1, <1>2, <1>3
  <2>2. x \in Seq(Seq(Chars)) /\ FlattenSeq(x) = t
    <3>1. << s >> \in Seq(Seq(Chars)) /\ FlattenSeq(<< s >>) = s
      BY <1>3, <2>1
    <3>2. x = Append(<< s >>, << Newline >>) /\ x \in Seq(Seq(Chars))
      BY <2>1
    <3>3. FlattenSeq(Append(<< s >>, << Newline >>)) = FlattenSeq(<< s >>) \o << Newline >>
      BY <2>1, <3>1, FlattenAppend
    <3>4. t = s \o << Newline >>
      BY <1>2, <2>1, AppendIsConcat
    <3> QED
      BY <3>1, <3>2, <3>3, <3>4
  <2>3. Stream!Enter("puts", t, Len(s), x)
    BY <1>9 DEF Stream!Puts
  <2> HIDE DEF t, x
  <2> QED
    BY <1>2, <1>5, <2>1, <2>2, <2>3, EnterTrue
<1>10. ASSUME NEW s \in Texts, NEW n \in ItemSizes, NEW stream \in Stream!Stream,
              Len(s) % n = 0, Stream!Fwrite(s, n, stream)
       PROVE  StdioInv'
  <2> DEFINE x == Stream!Items(s, n)
  <2>1. s \in Seq(Chars) /\ n \in Nat /\ n >= 1
    BY <1>1 DEF Assumptions, Stream!StdioAssumption
  <2>2. /\ x \in Seq(Seq(Chars)) /\ FlattenSeq(x) = s
        /\ \A k \in 1 .. Len(x) : Len(x[k]) = n
    BY <1>10, <2>1, ItemsTrue
  <2>3. Stream!Enter("fwrite", s, n, x) \/ Stream!Return("fwrite", s, n, << >>, 0)
    BY <1>10 DEF Stream!Fwrite
  <2> HIDE DEF x
  <2>4. "fwrite" \in Stream!Direct \cup {"vfprintf"}
    BY <1>5
  <2>5. CASE Stream!Enter("fwrite", s, n, x)
    BY <1>5, <2>1, <2>2, <2>5, EnterTrue
  <2>6. CASE Stream!Return("fwrite", s, n, << >>, 0)
    BY <1>2, <2>1, <2>4, <2>6, RefusedTrue
  <2> QED
    BY <2>3, <2>5, <2>6
<1>11. ASSUME NEW s \in Texts, NEW stream \in Stream!Stream, Stream!Vfprintf(s, stream)
       PROVE  StdioInv'
  BY <1>1, <1>11, VfprintfTrue
<1> QED
  BY <1>6, <1>7, <1>8, <1>9, <1>10, <1>11 DEF Stream!Call

(* The beginning of a concatenation.                                       *)
LEMMA PrefixTrue ==
  ASSUME NEW S, NEW p \in Seq(S), NEW u \in Seq(S)
  PROVE  IsPrefix(p, p \o u)
<1> DEFINE n == Len(p)
           t == p \o u
<1>1. /\ n \in Nat /\ Len(u) \in Nat /\ t \in Seq(S) /\ Len(t) = n + Len(u)
      /\ \A k \in 1 .. (n + Len(u)) : t[k] = IF k <= n THEN p[k] ELSE u[k - n]
      /\ \A k \in 1 .. n : p[k] \in S
  BY LenProperties, ConcatProperties, ElementOfSeq
<1> HIDE DEF n, t
<1>2. n <= Len(t) /\ \A k \in 1 .. n : t[k] = p[k]
  BY <1>1
<1>3. SubSeq(p, 1, n) = p
  BY SubSeqFull DEF n
<1>4. SubSeq(t, 1, n) = p
  <2> DEFINE v == SubSeq(t, 1, n)
  <2>1. 1 \in Int /\ n \in Int /\ \A k \in 1 .. n : t[k] \in S
    BY <1>1, <1>2
  <2>2. /\ v \in Seq(S) /\ Len(v) = IF 1 <= n THEN n - 1 + 1 ELSE 0
        /\ \A k \in 1 .. n - 1 + 1 : v[k] = t[1 + k - 1]
    BY <2>1, SubSeqProperties
  <2> HIDE DEF v
  <2>3. Len(v) = n
    BY <1>1, <2>2
  <2>4. ASSUME NEW k \in 1 .. n  PROVE v[k] = p[k]
    <3>1. k \in 1 .. n - 1 + 1 /\ 1 + k - 1 = k
      BY <1>1
    <3> QED
      BY <1>2, <2>2, <3>1
  <2>5. v = p
    BY <2>2, <2>3, <2>4, SeqEqual DEF n
  <2> QED
    BY <2>5 DEF v
<1> QED
  BY <1>2, <1>3, <1>4 DEF IsPrefix, n, t

(* A direct function returns.                                              *)
LEMMA ReturnTrue ==
  ASSUME NEW fn \in Stream!Direct, NEW text \in Seq(Chars), NEW n \in Nat, NEW p \in Seq(Chars), NEW v,
         Stream!Return(fn, text, n, p, v), ~aborted, Stream!Embeds(p, text),
         ~short' => p = text \/ v = -1 \/ (fn = "fwrite" /\ v = 0),
         OverNative => /\ IsPrefix(p, text)
                       /\ fn = "fwrite" => v * n <= Len(p) /\ Len(p) < (v + 1) * n
                       /\ fn # "fwrite" /\ v # -1 => p = text,
         OverNative' <=> OverNative
  PROVE  StdioInv'
<1>1. call' = Stream!None /\ aborted' = FALSE
      /\ last' = [fn |-> fn, text |-> text, size |-> n, printed |-> p, value |-> v]
  BY DEF Stream!Return
<1>2. /\ last'.fn = fn /\ last'.text = text /\ last'.size = n /\ last'.printed = p
      /\ last'.value = v /\ last' # Stream!None /\ fn # "vfprintf"
  BY <1>1 DEF Stream!None, Stream!Direct
<1>3. CallOK' /\ Stream!NeverAborts'
  BY <1>1 DEF CallOK, Stream!NeverAborts
<1>4. Stream!PrintedInOrder'
  BY <1>2 DEF Stream!PrintedInOrder, Stream!EOF
<1>5. OverNative => (Stream!CountIsTrue /\ Stream!StopsWhenShort)'
  <2> SUFFICES ASSUME OverNative PROVE (Stream!CountIsTrue /\ Stream!StopsWhenShort)'
    OBVIOUS
  <2>1. Stream!StopsWhenShort'
    BY <1>2 DEF Stream!StopsWhenShort, Stream!IsPrefix, IsPrefix
  <2>2. CASE fn = "fwrite"
    BY <1>2, <2>1, <2>2 DEF Stream!CountIsTrue, Stream!EOF
  <2>3. CASE fn # "fwrite"
    BY <1>2, <2>1, <2>3 DEF Stream!CountIsTrue, Stream!EOF
  <2> QED
    BY <2>2, <2>3
<1> QED
  BY <1>3, <1>4, <1>5 DEF StdioInv, LastOK

(* One chunk of a direct function, taken or not.                           *)
LEMMA WriteChunkTrue ==
  ASSUME Assumptions, StdioInv, Stream!WriteChunk,
         OverNative' <=> OverNative
  PROVE  StdioInv'
<1> DEFINE h == Head(call.todo)
           r == Tail(call.todo)
           g == FlattenSeq(r)
<1>1. /\ call \in DirectCalls /\ ItemsOK(call) /\ (OverNative => Told(call))
      /\ call.todo # << >> /\ ~aborted
  BY NoneTrue DEF StdioInv, Stream!NeverAborts, CallOK, Stream!WriteChunk
<1>2. PICK b : Given(call, b, short)
  BY <1>1, NoneTrue DEF StdioInv, CallOK
<1>3. PICK o \in Stream!Outcomes(h) :
        LET printed == call.printed \o o.printed IN
        /\ short' = (short \/ o.printed # h)
        /\ IF o.ret = Len(h)
           THEN /\ call' = [call EXCEPT !.todo = r, !.done = @ + 1, !.printed = printed]
                /\ last' = last /\ aborted' = aborted
           ELSE Stream!Return(call.fn, call.text, call.size, printed, Stream!Result(call.fn, FALSE, call.done))
  BY DEF Stream!WriteChunk, Stream!Written
<1>4. /\ call.fn \in Stream!Direct /\ call.fn # "vfprintf" /\ call.text \in Seq(Chars) /\ call.size \in Nat
      /\ call.todo \in Seq(Seq(Chars)) /\ call.done \in Nat /\ call.printed \in Seq(Chars)
  BY <1>1, NoneTrue DEF DirectCalls
<1>5. /\ h \in Seq(Chars) /\ r \in Seq(Seq(Chars)) /\ g \in Seq(Chars)
      /\ FlattenSeq(call.todo) = h \o g
  BY <1>1, <1>4, FlattenHead
<1>6. call.fn = "fwrite" => /\ call.size >= 1 /\ Len(h) = call.size
                            /\ \A k \in 1 .. Len(r) : Len(r[k]) = call.size
  <2>1. /\ Len(call.todo) \in Nat /\ Len(call.todo) >= 1 /\ h = call.todo[1]
        /\ Len(r) = Len(call.todo) - 1 /\ \A k \in 1 .. Len(r) : r[k] = call.todo[k + 1]
    BY <1>1, <1>4, HeadTailProperties, EmptySeq, LenProperties
  <2>2. \A k \in 1 .. Len(r) : k + 1 \in 1 .. Len(call.todo)
    BY <2>1
  <2> QED
    BY <1>1, <2>1, <2>2 DEF ItemsOK
<1> DEFINE q == call.printed
           p == q \o o.printed
           e == b \o h
           text == call.text
<1>7. OutcomeOK(o, h, Chars) /\ (OverNative => NativeOK(o, h))
  BY <1>5, OutcomesTrue
<1>8. o.ret \in Int /\ o.printed \in Seq(Chars) /\ Stream!Embeds(o.printed, h)
      /\ (o.printed = h /\ h # << >> => o.ret = Len(h))
  BY <1>7 DEF OutcomeOK
<1>9. b \in Seq(Chars) /\ Stream!Embeds(q, b) /\ text = b \o (h \o g) /\ (~short => q = b)
  BY <1>2, <1>4, <1>5 DEF Given, Rest
<1> HIDE DEF h, r, g
<1>10. p \in Seq(Chars) /\ e \in Seq(Chars) /\ Len(p) = Len(q) + Len(o.printed)
       /\ Len(q) \in Nat /\ Len(o.printed) \in Nat /\ Len(h) \in Nat
  BY <1>4, <1>5, <1>8, <1>9, ConcatProperties, LenProperties
<1>11. Stream!Embeds(p, e) /\ text = e \o g /\ Stream!Embeds(p, text) /\ (~short' => p = e)
  <2>1. Stream!Embeds(p, e)
    BY <1>4, <1>5, <1>8, <1>9, EmbedsConcat
  <2>2. text = e \o g
    <3>1. Associates(b, h, g)
      BY <1>5, <1>9, AssociatesTrue
    <3> QED
      BY <1>9, <3>1 DEF Associates
  <2>3. Stream!Embeds(p, e \o g)
    <3> HIDE DEF p, e
    <3> QED
      BY <1>5, <1>10, <2>1, EmbedsLonger
  <2>4. ~short' => p = e
    BY <1>3, <1>9
  <2> QED
    BY <2>1, <2>2, <2>3, <2>4
<1>12. OverNative => text = q \o (h \o g) /\ (call.fn = "fwrite" => Len(q) = call.done * call.size)
  BY <1>1, <1>4, <1>5 DEF Told
<1>15. q \in Seq(Chars) /\ o.printed \in Seq(Chars) /\ h \in Seq(Chars) /\ g \in Seq(Chars)
  BY <1>4, <1>5, <1>8
<1>13. CASE o.ret = Len(h)
  <2> DEFINE c == [call EXCEPT !.todo = r, !.done = @ + 1, !.printed = p]
  <2>1. call' = c /\ last' = last /\ aborted' = aborted
    BY <1>3, <1>13
  <2>2. c \in DirectCalls
    <3>1. r \in Seq(Seq(Chars)) /\ call.done + 1 \in Nat /\ p \in Seq(Chars)
      BY <1>4, <1>5, <1>10
    <3> HIDE DEF p
    <3> QED
      BY <1>1, <3>1 DEF DirectCalls
  <2>3. /\ c.fn = call.fn /\ c.text = text /\ c.size = call.size /\ c.todo = r
        /\ c.done = call.done + 1 /\ c.printed = p
    BY <1>1 DEF DirectCalls
  <2> HIDE DEF c, p, e, q, text
  <2>4. ItemsOK(c)
    BY <1>6, <2>3 DEF ItemsOK
  <2>5. Given(c, e, short')
    BY <1>4, <1>10, <1>11, <2>3 DEF Given, Rest, g
  <2>6. OverNative => Told(c)
    <3> SUFFICES ASSUME OverNative PROVE Told(c)
      OBVIOUS
    <3>1. o.printed = h
      <4>1. o.ret # -1
        BY <1>10, <1>13
      <4>2. o.printed = SubSeq(h, 1, Len(h))
        BY <1>7, <1>13, <4>1 DEF NativeOK
      <4> QED
        BY <1>5, <4>2, SubSeqFull
    <3>2. text = p \o g
      <4>1. (q \o h) \o g = q \o (h \o g)
        <5>1. Associates(q, h, g)
          BY <1>15, AssociatesTrue
        <5> QED
          BY <5>1 DEF Associates
      <4> QED
        BY <1>12, <3>1, <4>1 DEF p
    <3>3. call.fn = "fwrite" => Len(p) = (call.done + 1) * call.size
      <4> SUFFICES ASSUME call.fn = "fwrite" PROVE Len(p) = (call.done + 1) * call.size
        OBVIOUS
      <4>1. (call.done + 1) * call.size = call.done * call.size + call.size
        <5> DEFINE k == call.done
                   d == call.size
        <5>1. k \in Nat /\ d \in Nat /\ k <= k
          BY <1>4
        <5> HIDE DEF k, d
        <5>2. (k + 1) * d = k * d + d
          BY <5>1, ProductsTrue
        <5> QED
          BY <5>2 DEF k, d
      <4>2. Len(p) = Len(q) + Len(h) /\ Len(h) = call.size
        BY <1>6, <1>10, <3>1
      <4> QED
        BY <1>12, <4>1, <4>2
    <3> QED
      BY <1>4, <2>3, <3>2, <3>3 DEF Told, g
  <2>7. CallOK'
    <3>1. ItemsOK(call)' /\ (\E a : Given(call, a, short))' /\ (OverNative => Told(call))'
      BY <2>1, <2>4, <2>5, <2>6 DEF ItemsOK, Given, Told, Rest
    <3> QED
      BY <2>1, <2>2, <3>1 DEF CallOK
  <2>8. Stream!PrintedInOrder' /\ (OverNative => Stream!CountIsTrue /\ Stream!StopsWhenShort)'
    BY <2>1, <2>2, NoneTrue DEF StdioInv, LastOK, Stream!PrintedInOrder, Stream!CountIsTrue,
         Stream!StopsWhenShort
  <2> QED
    BY <2>1, <2>7, <2>8 DEF StdioInv, LastOK, Stream!NeverAborts
<1>14. CASE o.ret # Len(h)
  <2> DEFINE v == Stream!Result(call.fn, FALSE, call.done)
  <2>1. Stream!Return(call.fn, text, call.size, p, v)
    BY <1>3, <1>14
  <2>2. (call.fn = "fwrite" => v = call.done) /\ (call.fn # "fwrite" => v = -1)
    BY DEF Stream!Result, Stream!EOF
  <2> HIDE DEF v, p, e, q, text
  <2>3. ~short' => p = text \/ v = -1 \/ (call.fn = "fwrite" /\ v = 0)
    <3> SUFFICES ASSUME ~short', call.fn = "fwrite" PROVE FALSE
      BY <2>2
    <3>1. o.printed = h
      BY <1>3
    <3>2. h = << >>
      BY <1>8, <1>14, <3>1
    <3>3. Len(h) >= 1
      BY <1>6
    <3> QED
      BY <3>2, <3>3
  <2>4. ASSUME OverNative
        PROVE  /\ IsPrefix(p, text)
               /\ call.fn = "fwrite" => /\ v * call.size <= Len(p)
                                        /\ Len(p) < (v + 1) * call.size
    <3>1. PICK m \in 0 .. Len(h) :
            \/ o.printed = SubSeq(h, 1, m) /\ Len(o.printed) = m /\ m # Len(h)
            \/ o.printed = << >> /\ m = 0
      BY <1>7, <1>10, <1>14, <2>4 DEF NativeOK
    <3> DEFINE u == SubSeq(h, m + 1, Len(h))
    <3>2. u \in Seq(Chars) /\ h = SubSeq(h, 1, m) \o u
      BY <1>5, StartTrue
    <3>3. o.printed = SubSeq(h, 1, m)
      <4>1. SubSeq(h, 1, 0) = << >>
        BY SubSeqEmpty
      <4> QED
        BY <3>1, <4>1
    <3> HIDE DEF u
    <3>4. h = o.printed \o u
      BY <3>2, <3>3
    <3>5. text = p \o (u \o g) /\ u \o g \in Seq(Chars)
      <4>1. text = q \o (h \o g)
        BY <1>12, <2>4
      <4> DEFINE w == o.printed
      <4>2. w \in Seq(Chars) /\ u \in Seq(Chars) /\ g \in Seq(Chars) /\ q \in Seq(Chars)
        BY <1>15, <3>2
      <4>3. u \o g \in Seq(Chars)
        BY <4>2, ConcatProperties
      <4> HIDE DEF w
      <4>4. (w \o u) \o g = w \o (u \o g)
        <5>1. Associates(w, u, g)
          BY <4>2, AssociatesTrue
        <5> QED
          BY <5>1 DEF Associates
      <4>5. (q \o w) \o (u \o g) = q \o (w \o (u \o g))
        <5> DEFINE y == u \o g
        <5>1. y \in Seq(Chars)
          BY <4>3
        <5> HIDE DEF y
        <5>2. Associates(q, w, y)
          BY <4>2, <5>1, AssociatesTrue
        <5> QED
          BY <5>2 DEF Associates, y
      <4>6. text = q \o ((w \o u) \o g) /\ p = q \o w
        BY <3>4, <4>1 DEF p, w
      <4> QED
        BY <4>3, <4>4, <4>5, <4>6
    <3>6. IsPrefix(p, text)
      BY <1>10, <3>5, PrefixTrue
    <3>7. ASSUME call.fn = "fwrite"
          PROVE  v * call.size <= Len(p) /\ Len(p) < (v + 1) * call.size
      <4> DEFINE z == call.done * call.size
                 d == call.size
                 a == Len(o.printed)
      <4>1. /\ z \in Nat /\ (call.done + 1) * call.size = z + d /\ d \in Nat /\ d >= 1
        <5> DEFINE k == call.done
        <5>1. k \in Nat /\ d \in Nat /\ k <= k /\ d >= 1
          BY <1>4, <1>6, <3>7
        <5> HIDE DEF k, d
        <5>2. k * d \in Nat /\ (k + 1) * d = k * d + d
          BY <5>1, ProductsTrue
        <5> QED
          BY <5>1, <5>2 DEF k, d
      <4>2. Len(p) = z + a /\ v = call.done
        BY <1>10, <1>12, <2>2, <2>4, <3>7
      <4>3. a \in Nat /\ a < d
        <5>1. Len(h) = d
          BY <1>6, <3>7
        <5>2. Len(<< >>) = 0
          OBVIOUS
        <5>3. CASE o.printed = << >>
          BY <4>1, <5>2, <5>3
        <5>4. CASE o.printed # << >>
          BY <1>10, <3>1, <5>1, <5>4
        <5> QED
          BY <5>3, <5>4
      <4> HIDE DEF z, d, a
      <4>5. z <= z + a /\ z + a < z + d
        BY <4>1, <4>3
      <4> QED
        BY <4>1, <4>2, <4>5 DEF z, d
    <3> QED
      BY <3>6, <3>7
  <2>5. OverNative => (call.fn # "fwrite" /\ v # -1 => p = text)
    BY <2>2
  <2> QED
    BY <1>1, <1>4, <1>10, <1>11, <2>1, <2>3, <2>4, <2>5, ReturnTrue DEF text
<1> QED
  BY <1>13, <1>14

(* All chunks have been written.                                           *)
LEMMA DirectReturnsTrue ==
  ASSUME Assumptions, StdioInv, Stream!DirectReturns,
         OverNative' <=> OverNative
  PROVE  StdioInv'
<1>1. /\ call \in DirectCalls /\ ItemsOK(call) /\ (OverNative => Told(call))
      /\ call.todo = << >> /\ ~aborted
  BY NoneTrue DEF StdioInv, Stream!NeverAborts, CallOK, Stream!DirectReturns
<1>2. PICK b : Given(call, b, short)
  BY <1>1, NoneTrue DEF StdioInv, CallOK
<1>3. /\ call.fn \in Stream!Direct /\ call.fn # "vfprintf" /\ call.text \in Seq(Chars) /\ call.size \in Nat
      /\ call.done \in Nat /\ call.printed \in Seq(Chars)
  BY <1>1, NoneTrue DEF DirectCalls
<1> DEFINE v == Stream!Result(call.fn, TRUE, call.done)
           p == call.printed
           text == call.text
<1>4. Stream!Return(call.fn, text, call.size, p, v) /\ short' = short
  BY DEF Stream!DirectReturns
<1>5. call.fn = "fwrite" => v = call.done
  BY DEF Stream!Result
<1> HIDE DEF v
<1>6. FlattenSeq(call.todo) = << >>
  BY <1>1, FlattenEmpty
<1>7. Stream!Embeds(p, text) /\ (~short => p = text)
  <2>1. b \in Seq(Chars) /\ Stream!Embeds(p, b) /\ text = b \o << >> /\ (~short => p = b)
    BY <1>2, <1>3, <1>6 DEF Given, Rest
  <2> QED
    BY <2>1, ConcatEmptySeq
<1>8. OverNative => p = text /\ (call.fn = "fwrite" => Len(p) = call.done * call.size)
  <2>1. p \o << >> = p
    BY <1>3, ConcatEmptySeq
  <2> QED
    BY <1>1, <1>3, <1>6, <2>1 DEF Told
<1>9. IsPrefix(p, p)
  <2>1. << >> \in Seq(Chars) /\ p \o << >> = p
    BY <1>3, ConcatEmptySeq
  <2>2. IsPrefix(p, p \o << >>)
    BY <1>3, <2>1, PrefixTrue
  <2> QED
    BY <2>1, <2>2
<1>10. OverNative /\ call.fn = "fwrite" => v * call.size <= Len(p) /\ Len(p) < (v + 1) * call.size
  <2> SUFFICES ASSUME OverNative, call.fn = "fwrite"
               PROVE  v * call.size <= Len(p) /\ Len(p) < (v + 1) * call.size
    OBVIOUS
  <2> DEFINE z == call.done * call.size
             d == call.size
  <2>1. z \in Nat /\ (call.done + 1) * call.size = z + d /\ d \in Nat /\ d >= 1
    <3> DEFINE k == call.done
    <3>1. k \in Nat /\ d \in Nat /\ k <= k /\ d >= 1
      BY <1>1, <1>3 DEF ItemsOK
    <3> HIDE DEF k, d
    <3>2. k * d \in Nat /\ (k + 1) * d = k * d + d
      BY <3>1, ProductsTrue
    <3> QED
      BY <3>1, <3>2 DEF k, d
  <2>2. Len(p) = z /\ v = call.done
    BY <1>5, <1>8
  <2> HIDE DEF z, d
  <2>3. z <= z /\ z < z + d
    BY <2>1
  <2> QED
    BY <2>1, <2>2, <2>3 DEF z
<1> HIDE DEF p, text
<1>11. OverNative => /\ IsPrefix(p, text)
                     /\ call.fn = "fwrite" => v * call.size <= Len(p) /\ Len(p) < (v + 1) * call.size
                     /\ call.fn # "fwrite" /\ v # -1 => p = text
  BY <1>8, <1>9, <1>10
<1>12. ~short' => p = text \/ v = -1 \/ (call.fn = "fwrite" /\ v = 0)
  BY <1>4, <1>7
<1>13. p \in Seq(Chars) /\ text \in Seq(Chars)
  BY <1>3 DEF p, text
<1> QED
  BY <1>1, <1>3, <1>4, <1>7, <1>11, <1>12, <1>13, ReturnTrue

(* The characters f of the buffer go out, behind b of which q is printed.  *)
LEMMA SentTrue ==
  ASSUME NEW b \in Seq(Chars), NEW f \in Seq(Chars), NEW q \in Seq(Chars),
         NEW r \in Seq(Chars), NEW n \in Int, NEW o, OutcomeOK(o, f, Chars), Stream!Embeds(q, b)
  PROVE  /\ q \o o.printed \in Seq(Chars) /\ b \o f \in Seq(Chars)
         /\ Stream!Embeds(q \o o.printed, b \o f)
         /\ b \o (f \o r) = (b \o f) \o r
         /\ Stream!Counted(n, o.ret) \in Int
         /\ NativeOK(o, f) /\ n = Len(q) => Stream!Counted(n, o.ret) = Len(q \o o.printed)
<1> DEFINE w == o.printed
           m == o.ret
<1>1. w \in Seq(Chars) /\ Stream!Embeds(w, f) /\ m \in Int
  BY DEF OutcomeOK
<1>2. NativeOK(o, f) => (m = -1 /\ w = << >>) \/ (m \in 0 .. Len(f) /\ Len(w) = m)
  BY DEF NativeOK
<1> HIDE DEF w, m
<1>3. Len(q) \in Nat /\ Len(w) \in Nat /\ Len(f) \in Nat /\ Len(<< >>) = 0
  BY <1>1, LenProperties
<1>4. q \o w \in Seq(Chars) /\ Len(q \o w) = Len(q) + Len(w) /\ b \o f \in Seq(Chars)
  BY <1>1, ConcatProperties
<1>5. Stream!Embeds(q \o w, b \o f)
  BY <1>1, EmbedsConcat
<1>6. (b \o f) \o r = b \o (f \o r)
  <2>1. Associates(b, f, r)
    BY AssociatesTrue
  <2> QED
    BY <2>1 DEF Associates
<1>7. Stream!Counted(n, m) \in Int
  BY <1>1 DEF Stream!Counted
<1>8. NativeOK(o, f) /\ n = Len(q) => Stream!Counted(n, m) = Len(q) + Len(w)
  <2> SUFFICES ASSUME NativeOK(o, f), n = Len(q) PROVE Stream!Counted(n, m) = Len(q) + Len(w)
    OBVIOUS
  <2>1. CASE m = -1 /\ w = << >>
    BY <1>3, <2>1 DEF Stream!Counted
  <2>2. CASE m \in 0 .. Len(f) /\ Len(w) = m
    BY <1>3, <2>2, SMTT(60) DEF Stream!Counted
  <2> QED
    BY <1>2, <2>1, <2>2
<1> QED
  BY <1>4, <1>5, <1>6, <1>7, <1>8 DEF w, m

(* tfp_format sends its callback a character, and perhaps the buffer goes  *)
(* out.                                                                    *)
LEMMA PutcfTrue ==
  ASSUME Assumptions, StdioInv, Stream!Putcf,
         OverNative' <=> OverNative
  PROVE  StdioInv'
<1> DEFINE x == Head(call.todo)
           r == Tail(call.todo)
           f == Append(call.buff, x)
           q == call.printed
           text == call.text
<1>1. /\ call \in FormatCalls /\ Len(call.buff) < Capacity /\ (OverNative => Told(call))
      /\ call.todo # << >> /\ ~aborted /\ Stream!PrintedInOrder
      /\ (OverNative => Stream!CountIsTrue /\ Stream!StopsWhenShort)
  BY NoneTrue DEF StdioInv, Stream!NeverAborts, CallOK, LastOK, Stream!Putcf
<1>2. PICK b : Given(call, b, short)
  BY <1>1, NoneTrue DEF StdioInv, CallOK
<1>3. /\ call.fn = "vfprintf" /\ text \in Seq(Chars) /\ call.todo \in Seq(Chars)
      /\ call.buff \in Seq(Chars) /\ call.total \in Int /\ q \in Seq(Chars)
  BY <1>1 DEF FormatCalls
<1>4. x \in Chars /\ r \in Seq(Chars) /\ call.todo = << x >> \o r
  BY <1>1, <1>3, HeadTailProperties
<1>5. Capacity \in Nat \ {0}
  BY DEF Assumptions, Stream!StdioAssumption
<1>6. Len(call.buff) \in Nat /\ ~(Len(call.buff) >= Capacity)
  BY <1>1, <1>3, <1>5, LenProperties
<1> DEFINE c == [call EXCEPT !.todo = r, !.buff = f]
<1>7. /\ \/ /\ Stream!Flush(c)
            /\ \E o \in Stream!Outcomes(c.buff) : call' = Stream!Sent(c, o) /\ Stream!Written(c.buff, o)
         \/ ~Stream!Flush(c) /\ call' = c /\ UNCHANGED short
      /\ last' = last /\ aborted' = aborted
  BY <1>6 DEF Stream!Putcf
<1> HIDE DEF x, r
<1>8. f \in Seq(Chars) /\ f = call.buff \o << x >>
  <2> DEFINE y == call.buff
  <2>1. y \in Seq(Chars)
    BY <1>3
  <2> HIDE DEF y
  <2>2. Append(y, x) \in Seq(Chars) /\ Append(y, x) = y \o << x >>
    BY <1>4, <2>1, AppendIsConcat
  <2> QED
    BY <2>2 DEF y
<1> HIDE DEF f
<1>9. c \in FormatCalls
  BY <1>1, <1>4, <1>8 DEF FormatCalls
<1>10. /\ c.fn = "vfprintf" /\ c.text = text /\ c.todo = r /\ c.buff = f /\ c.total = call.total
       /\ c.printed = q
  BY <1>1 DEF FormatCalls
<1> HIDE DEF c, q, text
<1>11. b \in Seq(Chars) /\ Stream!Embeds(q, b) /\ text = b \o (f \o r) /\ (~short => q = b)
  <2>1. b \in Seq(Chars) /\ Stream!Embeds(q, b) /\ text = b \o (call.buff \o call.todo) /\ (~short => q = b)
    BY <1>2, <1>3 DEF Given, Rest, q, text
  <2> DEFINE z == call.buff
             y == << x >>
  <2>2. z \in Seq(Chars) /\ y \in Seq(Chars) /\ r \in Seq(Chars)
    BY <1>3, <1>4
  <2>3. text = b \o (z \o (y \o r)) /\ f = z \o y
    BY <1>4, <1>8, <2>1
  <2> HIDE DEF z, y
  <2>4. (z \o y) \o r = z \o (y \o r)
    <3>1. Associates(z, y, r)
      BY <2>2, AssociatesTrue
    <3> QED
      BY <3>1 DEF Associates
  <2> QED
    BY <2>1, <2>3, <2>4
<1>12. OverNative => c.total = Len(q)
  BY <1>1, <1>3, <1>10 DEF Told, q
<1>13. ASSUME call' # Stream!None
       PROVE  /\ Stream!PrintedInOrder'
              /\ (OverNative => Stream!CountIsTrue /\ Stream!StopsWhenShort)'
  BY <1>1, <1>7, <1>13 DEF Stream!PrintedInOrder, Stream!CountIsTrue,
         Stream!StopsWhenShort
<1>14. aborted' = FALSE
  BY <1>1, <1>7
<1>15. CASE ~Stream!Flush(c) /\ call' = c /\ short' = short
  <2>1. call' \in FormatCalls /\ Len(call'.buff) < Capacity
    <3>1. Len(f) \in Nat
      BY <1>8, LenProperties
    <3> QED
      BY <1>5, <1>9, <1>10, <1>15, <3>1 DEF Stream!Flush
  <2>2. Given(call, b, short)'
    BY <1>10, <1>11, <1>15 DEF Given, Rest
  <2>3. (OverNative => Told(call))'
    BY <1>10, <1>12, <1>15 DEF Told, OverNative
  <2>4. CallOK'
    BY <2>1, <2>2, <2>3 DEF CallOK
  <2> QED
    BY <1>9, <1>13, <1>14, <1>15, <2>4, NoneTrue DEF StdioInv, LastOK, Stream!NeverAborts
<1>16. CASE Stream!Flush(c) /\ \E o \in Stream!Outcomes(f) : call' = Stream!Sent(c, o) /\ Stream!Written(f, o)
  <2>1. PICK o \in Stream!Outcomes(f) : call' = Stream!Sent(c, o) /\ Stream!Written(f, o)
    BY <1>16
  <2>2. OutcomeOK(o, f, Chars) /\ (OverNative => NativeOK(o, f))
    BY <1>8, OutcomesTrue
  <2> DEFINE w == q \o o.printed
             n == Stream!Counted(call.total, o.ret)
             d == [c EXCEPT !.buff = << >>, !.printed = w, !.total = n]
  <2>3. /\ w \in Seq(Chars) /\ b \o f \in Seq(Chars) /\ Stream!Embeds(w, b \o f)
        /\ b \o (f \o r) = (b \o f) \o r /\ n \in Int
        /\ OverNative => n = Len(w)
    <3> DEFINE k == call.total
    <3>1. /\ b \in Seq(Chars) /\ f \in Seq(Chars) /\ q \in Seq(Chars) /\ r \in Seq(Chars)
          /\ k \in Int /\ Stream!Embeds(q, b) /\ OutcomeOK(o, f, Chars)
      BY <1>4, <1>8, <1>11, <2>2, <1>3 DEF q
    <3>2. OverNative => NativeOK(o, f) /\ k = Len(q)
      BY <1>10, <1>12, <2>2
    <3> HIDE DEF k
    <3>3. /\ w \in Seq(Chars) /\ b \o f \in Seq(Chars) /\ Stream!Embeds(w, b \o f)
          /\ b \o (f \o r) = (b \o f) \o r /\ Stream!Counted(k, o.ret) \in Int
          /\ NativeOK(o, f) /\ k = Len(q) => Stream!Counted(k, o.ret) = Len(w)
      BY <3>1, SentTrue, SMTT(60)
    <3> QED
      BY <3>2, <3>3 DEF k
  <2>4. ~short' => w = b \o f
    BY <1>11, <2>1 DEF Stream!Written
  <2>5. call' = d
    BY <1>10, <2>1 DEF Stream!Sent
  <2> HIDE DEF w, n
  <2>6. d \in FormatCalls
    <3>1. << >> \in Seq(Chars)
      OBVIOUS
    <3> QED
      BY <1>9, <2>3, <3>1 DEF FormatCalls
  <2>7. /\ d.fn = "vfprintf" /\ d.text = text /\ d.todo = r /\ d.buff = << >> /\ d.total = n
        /\ d.printed = w
    BY <1>9, <1>10 DEF FormatCalls
  <2> HIDE DEF d
  <2>8. \E e : Given(call, e, short)'
    <3>1. << >> \o r = r
      BY <1>4, ConcatEmptySeq
    <3> PICK e : e = b \o f
      OBVIOUS
    <3>2. text = e \o r /\ e \in Seq(Chars) /\ Stream!Embeds(w, e) /\ (~short' => w = e)
      BY <1>11, <2>3, <2>4
    <3>3. /\ call'.fn = "vfprintf" /\ call'.text = e \o (call'.buff \o call'.todo)
          /\ call'.printed = w
      BY <2>5, <2>7, <3>1, <3>2
    <3>4. Given(call, e, short)'
      BY <3>2, <3>3 DEF Given, Rest
    <3> QED
      BY <3>4
  <2>9. (OverNative => Told(call))'
    BY <2>3, <2>5, <2>7 DEF Told, OverNative
  <2>10. Len(call'.buff) < Capacity
    <3>1. Len(<< >>) = 0
      OBVIOUS
    <3> QED
      BY <1>5, <2>5, <2>7, <3>1
  <2>11. CallOK'
    BY <2>5, <2>6, <2>8, <2>9, <2>10 DEF CallOK
  <2> QED
    BY <1>13, <1>14, <2>5, <2>6, <2>11, NoneTrue DEF StdioInv, LastOK, Stream!NeverAborts
<1> QED
  BY <1>7, <1>10, <1>15, <1>16

(* vfprintf has returned: p is printed, and n is what it says.             *)
LEMMA VfprintfReturnTrue ==
  ASSUME NEW text \in Seq(Chars), NEW p \in Seq(Chars), NEW n \in Int,
         Stream!Return("vfprintf", text, 1, p, n), ~aborted, Stream!Embeds(p, text),
         ~short' => p = text, OverNative => n = Len(p),
         OverNative' <=> OverNative
  PROVE  StdioInv'
<1>1. call' = Stream!None /\ aborted' = FALSE
      /\ last' = [fn |-> "vfprintf", text |-> text, size |-> 1, printed |-> p, value |-> n]
  BY DEF Stream!Return
<1>2. last'.fn = "vfprintf" /\ last'.text = text /\ last'.printed = p /\ last'.value = n
  BY <1>1
<1>3. Stream!PrintedInOrder'
  BY <1>2 DEF Stream!PrintedInOrder
<1>4. OverNative => Stream!CountIsTrue'
  <2>1. Len(p) \in Nat
    BY LenProperties
  <2>2. OverNative => n = Len(p) /\ n # -1
    BY <2>1
  <2> QED
    BY <1>2, <2>2 DEF Stream!CountIsTrue
<1>5. Stream!StopsWhenShort'
  BY <1>2 DEF Stream!StopsWhenShort
<1>6. OverNative' <=> OverNative
  BY DEF OverNative
<1>7. LastOK'
  BY <1>3, <1>4, <1>5, <1>6 DEF LastOK
<1> QED
  BY <1>1, <1>7 DEF StdioInv, CallOK, Stream!NeverAborts

(* tfp_format is done: what is left in the buffer goes out.                *)
LEMMA VfprintfReturnsTrue ==
  ASSUME Assumptions, StdioInv, Stream!VfprintfReturns,
         OverNative' <=> OverNative
  PROVE  StdioInv'
<1> DEFINE f == call.buff
           q == call.printed
           text == call.text
           k == call.total
<1>1. /\ call \in FormatCalls /\ (OverNative => Told(call)) /\ call.todo = << >> /\ ~aborted
  BY NoneTrue DEF StdioInv, Stream!NeverAborts, CallOK, Stream!VfprintfReturns
<1>2. PICK b : Given(call, b, short)
  BY <1>1, NoneTrue DEF StdioInv, CallOK
<1>3. /\ call.fn = "vfprintf" /\ text \in Seq(Chars) /\ f \in Seq(Chars) /\ k \in Int
      /\ q \in Seq(Chars)
  BY <1>1 DEF FormatCalls
<1>4. OverNative => k = Len(q)
  BY <1>1, <1>3 DEF Told
<1>5. /\ \/ f = << >> /\ Stream!Return("vfprintf", text, 1, q, k) /\ short' = short
         \/ \E o \in Stream!Outcomes(f) :
              /\ Stream!Return("vfprintf", text, 1, q \o o.printed, Stream!Counted(k, o.ret))
              /\ Stream!Written(f, o)
  BY DEF Stream!VfprintfReturns
<1>6. b \in Seq(Chars) /\ Stream!Embeds(q, b) /\ text = b \o (f \o call.todo) /\ (~short => q = b)
  BY <1>2, <1>3 DEF Given, Rest
<1> HIDE DEF f, q, text, k
<1>7. text = b \o f
  <2>1. f \o << >> = f
    BY <1>3, ConcatEmptySeq
  <2> QED
    BY <1>1, <1>6, <2>1
<1>8. CASE f = << >> /\ Stream!Return("vfprintf", text, 1, q, k) /\ short' = short
  <2>1. b \o << >> = b
    BY <1>6, ConcatEmptySeq
  <2>2. text = b
    BY <1>7, <1>8, <2>1
  <2>3. Stream!Embeds(q, text) /\ (~short' => q = text)
    BY <1>6, <1>8, <2>2
  <2> QED
    BY <1>1, <1>3, <1>4, <1>8, <2>3, VfprintfReturnTrue
<1>9. ASSUME NEW o \in Stream!Outcomes(f),
             Stream!Return("vfprintf", text, 1, q \o o.printed, Stream!Counted(k, o.ret)),
             Stream!Written(f, o)
      PROVE  StdioInv'
  <2>1. OutcomeOK(o, f, Chars) /\ (OverNative => NativeOK(o, f))
    BY <1>3, OutcomesTrue
  <2> DEFINE w == q \o o.printed
             n == Stream!Counted(k, o.ret)
  <2>2. << >> \in Seq(Chars)
    OBVIOUS
  <2>3. /\ w \in Seq(Chars) /\ Stream!Embeds(w, b \o f) /\ n \in Int
        /\ NativeOK(o, f) /\ k = Len(q) => n = Len(w)
    BY <1>3, <1>6, <2>1, <2>2, SentTrue
  <2>4. ~short' => w = text
    BY <1>6, <1>7, <1>9 DEF Stream!Written
  <2>5. Stream!Return("vfprintf", text, 1, w, n)
    BY <1>9
  <2> HIDE DEF w, n
  <2>6. OverNative => n = Len(w)
    BY <1>4, <2>1, <2>3
  <2>7. Stream!Embeds(w, text)
    BY <1>7, <2>3
  <2> QED
    BY <1>1, <1>3, <2>3, <2>4, <2>5, <2>6, <2>7, VfprintfReturnTrue
<1> QED
  BY <1>5, <1>8, <1>9

-----------------------------------------------------------------------------
(* The theorems.                                                           *)

(* StdioInv holds in every state.                                          *)
LEMMA StdioInvariant == Spec => []StdioInv
<1>1. Init => StdioInv
  BY Initially DEF Init
<1>2. StdioInv /\ [Next]_vars => StdioInv'
  <2> SUFFICES ASSUME StdioInv, [Next]_vars PROVE StdioInv'
    OBVIOUS
  <2>1. Assumptions
    BY OutputAssumption DEF Assumptions
  <2>2. OverNative' <=> OverNative
    BY DEF OverNative, Next, StreamStep, BufferStep, vars
  <2>3. CASE Stream!Call
    BY <2>1, <2>2, <2>3, CallTrue
  <2>4. CASE Stream!WriteChunk
    BY <2>1, <2>2, <2>4, WriteChunkTrue
  <2>5. CASE Stream!DirectReturns
    BY <2>1, <2>2, <2>5, DirectReturnsTrue
  <2>6. CASE Stream!Putcf
    BY <2>1, <2>2, <2>6, PutcfTrue
  <2>7. CASE Stream!VfprintfReturns
    BY <2>1, <2>2, <2>7, VfprintfReturnsTrue
  <2>8. CASE UNCHANGED streamVars
    <3>1. call' = call /\ last' = last /\ short' = short /\ aborted' = aborted
      BY <2>8 DEF streamVars
    <3>2. CallOK'
      BY <2>2, <3>1 DEF StdioInv, CallOK, Given, Told, ItemsOK, Rest
    <3>3. LastOK' /\ Stream!NeverAborts'
      BY <2>2, <3>1 DEF StdioInv, LastOK, Stream!NeverAborts, Stream!PrintedInOrder,
                        Stream!CountIsTrue, Stream!StopsWhenShort
    <3> QED
      BY <3>2, <3>3 DEF StdioInv
  <2> QED
    BY <2>3, <2>4, <2>5, <2>6, <2>7, <2>8
       DEF Next, StreamStep, BufferStep, vars, Stream!Next, Stream!Continue
<1> QED
  BY <1>1, <1>2, PTL DEF Spec

(* c/stdio.c:109-110: the sanity check of _vprintf_putcf never calls       *)
(* abort(): whatever the runtime takes of each write, the buffer is emptied*)
(* before it is full.                                                      *)
THEOREM BufferNeverFull == Spec => []NeverAborts
<1>1. StdioInv => NeverAborts
  BY DEF StdioInv, NeverAborts
<1> QED
  BY <1>1, StdioInvariant, PTL

(* On both runtimes: what comes out is what was printed, in its order,     *)
(* perhaps with characters missing, and with none missing and nothing left *)
(* in vfprintf's buffer when the runtime has printed all it was given.     *)
THEOREM PrintsInOrder == Spec => []PrintedInOrder
<1>1. StdioInv => PrintedInOrder
  BY DEF StdioInv, LastOK, PrintedInOrder
<1> QED
  BY <1>1, StdioInvariant, PTL

(* In a native process, where write(2) says how much it took: the results  *)
(* of all functions tell what was printed, and those that stop when a      *)
(* write falls short have printed the beginning of their data.             *)
THEOREM CountsAreTrue == Spec => []CountIsTrue
<1>1. StdioInv => CountIsTrue
  BY DEF StdioInv, LastOK, CountIsTrue, OverNative
<1> QED
  BY <1>1, StdioInvariant, PTL

-----------------------------------------------------------------------------
(* vsnprintf and vsprintf.                                                 *)

(* The character of the text at offset i of the buffer is stored there.    *)
Holds(i) == (formatter = "vsprintf" \/ i < dest_capacity) => dest[i] = formatted[i + 1]

BufferInv ==
  /\ formatter \in {"vsnprintf", "vsprintf"} /\ dest_capacity \in 0 .. Memory
  /\ formatted \in Formatted /\ DOMAIN dest = 0 .. Memory
  /\ dest_used \in 0 .. Len(formatted) /\ retval \in {-1, Len(formatted)}
  /\ Buffer!BufferHoldsText
  /\ retval = -1 => \A i \in 0 .. (dest_used - 1) : Holds(i)

(* One character more.                                                     *)
LEMMA BufferPutcfTrue ==
  ASSUME Buffer!SnprintfAssumption, BufferInv, Buffer!Putcf
  PROVE  BufferInv'
<1> DEFINE n == Len(formatted)
<1>1. Memory \in Nat /\ n \in 0 .. (Memory - 1) /\ dest_used \in 0 .. (n - 1)
      /\ dest_capacity \in 0 .. Memory
  BY DEF Buffer!SnprintfAssumption, BufferInv, Buffer!Putcf
<1>2. /\ dest' = IF Buffer!Room THEN [dest EXCEPT ![dest_used] = formatted[dest_used + 1]]
                                ELSE dest
      /\ dest_used' = dest_used + 1 /\ formatter' = formatter /\ dest_capacity' = dest_capacity
      /\ formatted' = formatted /\ retval' = retval /\ retval = -1
  BY DEF Buffer!Putcf
<1>3. /\ formatter \in {"vsnprintf", "vsprintf"} /\ formatted \in Formatted
      /\ DOMAIN dest = 0 .. Memory
      /\ formatter = "vsnprintf" => \A i \in dest_capacity .. Memory : dest[i] = Canary
      /\ \A i \in 0 .. (dest_used - 1) : Holds(i)
  BY <1>2 DEF BufferInv, Buffer!BufferHoldsText, Buffer!StaysInBuffer
<1> HIDE DEF n
<1>4. /\ DOMAIN dest' = 0 .. Memory
      /\ \A i \in 0 .. Memory :
           dest'[i] = IF Buffer!Room /\ i = dest_used THEN formatted[dest_used + 1] ELSE dest[i]
  BY <1>1, <1>2, <1>3
<1>5. dest_used' \in 0 .. n
  BY <1>1, <1>2
<1>6. (formatter = "vsnprintf" => \A i \in dest_capacity .. Memory : dest[i] = Canary)'
  BY <1>1, <1>2, <1>3, <1>4 DEF Buffer!Room
<1>7. ASSUME NEW i \in 0 .. (dest_used' - 1)  PROVE Holds(i)'
  <2>1. i \in 0 .. Memory /\ (i = dest_used \/ i \in 0 .. (dest_used - 1))
    BY <1>1, <1>2, <1>7
  <2>2. CASE i = dest_used
    <3>1. formatter = "vsprintf" \/ i < dest_capacity => Buffer!Room
      BY <2>2 DEF Buffer!Room
    <3> QED
      BY <1>2, <1>4, <2>1, <2>2, <3>1 DEF Holds
  <2>3. CASE i \in 0 .. (dest_used - 1)
    <3>1. i # dest_used
      BY <1>1, <2>3
    <3> QED
      BY <1>2, <1>3, <1>4, <2>1, <2>3, <3>1 DEF Holds
  <2> QED
    BY <2>1, <2>2, <2>3
<1>8. Buffer!BufferHoldsText'
  BY <1>2, <1>6 DEF Buffer!BufferHoldsText, Buffer!StaysInBuffer, Buffer!ReturnsText
<1> QED
  BY <1>1, <1>2, <1>3, <1>4, <1>5, <1>7, <1>8 DEF BufferInv, n

(* The NUL, where there is room for it.                                    *)
LEMMA BufferReturnTrue ==
  ASSUME Buffer!SnprintfAssumption, BufferInv, Buffer!Return
  PROVE  BufferInv'
<1> DEFINE n == Len(formatted)
           k == Buffer!Kept
           Ends == formatter = "vsprintf" \/ dest_capacity > 0
<1>1. Memory \in Nat /\ n \in 0 .. (Memory - 1) /\ dest_used = n /\ dest_capacity \in 0 .. Memory
  BY DEF Buffer!SnprintfAssumption, BufferInv, Buffer!Return
<1>2. /\ dest' = Buffer!Terminated /\ retval' = n /\ retval = -1
      /\ dest_used' = n /\ formatter' = formatter /\ dest_capacity' = dest_capacity
      /\ formatted' = formatted
  BY <1>1 DEF Buffer!Return
<1>3. /\ formatter \in {"vsnprintf", "vsprintf"} /\ formatted \in Formatted
      /\ DOMAIN dest = 0 .. Memory
      /\ formatter = "vsnprintf" => \A i \in dest_capacity .. Memory : dest[i] = Canary
      /\ \A i \in 0 .. (n - 1) : Holds(i)
  BY <1>1, <1>2 DEF BufferInv, Buffer!BufferHoldsText, Buffer!StaysInBuffer
<1>4. k = IF formatter = "vsnprintf" /\ n >= dest_capacity THEN dest_capacity - 1 ELSE n
  BY DEF Buffer!Kept
<1> HIDE DEF n, k
<1>5. /\ Ends => k \in 0 .. n /\ dest' = [dest EXCEPT ![k] = NUL]
      /\ Ends /\ formatter = "vsnprintf" => k < dest_capacity
      /\ ~Ends => dest' = dest
  <2>1. CASE formatter = "vsprintf" \/ n < dest_capacity
    <3>1. k = n /\ Ends
      BY <1>1, <1>3, <1>4, <2>1
    <3>2. dest' = [dest EXCEPT ![n] = NUL]
      BY <1>1, <1>2, <2>1 DEF Buffer!Terminated
    <3>3. formatter = "vsnprintf" => n < dest_capacity
      BY <2>1
    <3> QED
      BY <1>1, <3>1, <3>2, <3>3
  <2>2. CASE formatter = "vsnprintf" /\ n >= dest_capacity /\ dest_capacity > 0
    <3>1. k = dest_capacity - 1 /\ Ends
      BY <1>4, <2>2
    <3>2. dest' = [dest EXCEPT ![dest_capacity - 1] = NUL]
      BY <1>1, <1>2, <2>2 DEF Buffer!Terminated
    <3>3. dest_capacity - 1 \in 0 .. n /\ dest_capacity - 1 < dest_capacity
      BY <1>1, <2>2
    <3> QED
      BY <3>1, <3>2, <3>3
  <2>3. CASE formatter = "vsnprintf" /\ n >= dest_capacity /\ ~(dest_capacity > 0)
    <3>1. dest' = dest /\ ~Ends
      BY <1>1, <1>2, <2>3 DEF Buffer!Terminated
    <3> QED
      BY <3>1
  <2> QED
    BY <1>1, <1>3, <2>1, <2>2, <2>3
<1>6. /\ DOMAIN dest' = 0 .. Memory
      /\ \A i \in 0 .. Memory : dest'[i] = IF Ends /\ i = k THEN NUL ELSE dest[i]
  BY <1>1, <1>3, <1>5
<1>7. (formatter = "vsnprintf" => \A i \in dest_capacity .. Memory : dest[i] = Canary)'
  BY <1>1, <1>2, <1>3, <1>5, <1>6
<1>8. Ends => dest'[k] = NUL /\ \A i \in 0 .. (k - 1) : dest'[i] = formatted[i + 1]
  <2> SUFFICES ASSUME Ends PROVE dest'[k] = NUL /\ \A i \in 0 .. (k - 1) : dest'[i] = formatted[i + 1]
    OBVIOUS
  <2>1. dest'[k] = NUL
    BY <1>1, <1>5, <1>6
  <2>2. ASSUME NEW i \in 0 .. (k - 1)  PROVE dest'[i] = formatted[i + 1]
    <3>1. i \in 0 .. Memory /\ i # k /\ i \in 0 .. (n - 1)
      BY <1>1, <1>5, <2>2
    <3>2. formatter = "vsprintf" \/ i < dest_capacity
      BY <1>1, <1>3, <1>4, <1>5, <2>2
    <3>3. dest[i] = formatted[i + 1]
      BY <1>3, <3>1, <3>2 DEF Holds
    <3> QED
      BY <1>6, <3>1, <3>3
  <2> QED
    BY <2>1, <2>2
<1>9. Buffer!Kept' = k
  BY <1>2 DEF k, Buffer!Kept
<1>10. Buffer!ReturnsText'
  BY <1>2, <1>8, <1>9 DEF Buffer!ReturnsText, n
<1>11. Buffer!BufferHoldsText'
  BY <1>7, <1>10 DEF Buffer!BufferHoldsText, Buffer!StaysInBuffer
<1>12. retval' # -1
  BY <1>1, <1>2
<1> QED
  BY <1>1, <1>2, <1>3, <1>6, <1>11, <1>12 DEF BufferInv, n

(* vsnprintf stores nothing at or past the size it is given, and both      *)
(* functions return the length of the text and leave it, cut by vsnprintf  *)
(* to what fits, with a NUL behind it.                                     *)
THEOREM FormatsIntoBuffer == Spec => []BufferHoldsText
<1>0. Buffer!SnprintfAssumption
  BY OutputAssumption
<1>1. Init => (part = "buffer" => BufferInv)
  <2> SUFFICES ASSUME Buffer!Init PROVE BufferInv
    BY DEF Init
  <2>1. /\ formatter \in {"vsnprintf", "vsprintf"} /\ dest_capacity \in 0 .. Memory
        /\ formatted \in Formatted /\ dest = [i \in 0 .. Memory |-> Canary] /\ dest_used = 0
        /\ retval = -1 /\ Len(formatted) \in Nat /\ Memory \in Nat
    BY <1>0 DEF Buffer!Init, Buffer!SnprintfAssumption
  <2>2. DOMAIN dest = 0 .. Memory /\ \A i \in 0 .. Memory : dest[i] = Canary
    BY <2>1
  <2>3. Buffer!BufferHoldsText
    BY <2>1, <2>2 DEF Buffer!BufferHoldsText, Buffer!StaysInBuffer, Buffer!ReturnsText
  <2> QED
    BY <2>1, <2>2, <2>3 DEF BufferInv
<1>2. (part = "buffer" => BufferInv) /\ [Next]_vars => (part = "buffer" => BufferInv)'
  <2> SUFFICES ASSUME part = "buffer" => BufferInv, [Next]_vars, part' = "buffer"
               PROVE  BufferInv'
    OBVIOUS
  <2>1. BufferInv /\ (Buffer!Putcf \/ Buffer!Return \/ UNCHANGED bufferVars)
    BY DEF Next, StreamStep, BufferStep, vars, Buffer!Next, Stream!Runtimes
  <2>2. CASE Buffer!Putcf
    BY <1>0, <2>1, <2>2, BufferPutcfTrue
  <2>3. CASE Buffer!Return
    BY <1>0, <2>1, <2>3, BufferReturnTrue
  <2>4. CASE UNCHANGED bufferVars
    BY <2>1, <2>4 DEF BufferInv, bufferVars, Buffer!BufferHoldsText, Buffer!StaysInBuffer,
                      Buffer!ReturnsText, Buffer!Kept, Holds
  <2> QED
    BY <2>1, <2>2, <2>3, <2>4
<1>3. (part = "buffer" => BufferInv) => BufferHoldsText
  BY DEF BufferInv, BufferHoldsText
<1> QED
  BY <1>1, <1>2, <1>3, PTL DEF Spec
=============================================================================
