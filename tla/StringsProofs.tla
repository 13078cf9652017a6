--------------------------- MODULE StringsProofs ---------------------------
(***************************************************************************)
(* Proofs about the loops of c/string.c and c/strings.c.                   *)
(***************************************************************************)
EXTENDS Algorithms, Induction

(* A step is one of the part the behaviour is of.                          *)
LEMMA CStringSeparate ==
  ASSUME [Next]_vars
  PROVE  part' = part /\ (part = "cstring" => CString!Next \/ UNCHANGED cstringVars)
BY DEF Next, vars, ClockStep, StrtoxStep, StrtokStep, MemmoveStep, CStringStep, UnsupStep,
       SleepStep

-----------------------------------------------------------------------------
(* string.c: each loop has an invariant of its own, which says what the    *)
(* characters passed so far are.                                           *)

Octets == 0 .. 255

(* The string in x is of l characters.                                     *)
EndsAt(x, l) ==
  /\ l \in 0 .. Len(x) /\ \A j \in 1 .. l : x[j] # 0
  /\ l < Len(x) => x[l + 1] = 0

(* Every array holds a string.                                             *)
LEMMA EndExists ==
  ASSUME NEW x \in Seq(Octets)
  PROVE  \E l : EndsAt(x, l)
<1> DEFINE T == {l \in 0 .. Len(x) : l < Len(x) => x[l + 1] = 0}
<1>1. Len(x) \in Nat
  BY LenProperties
<1>2. Len(x) \in T /\ T \subseteq Nat
  BY <1>1
<1>3. PICK m \in T : \A l \in T : m <= l
  <2> HIDE DEF T
  <2>1. T # {}
    BY <1>2
  <2> QED
    BY <1>2, <2>1, LeastNat
<1>4. ASSUME NEW j \in 1 .. m, x[j] = 0  PROVE FALSE
  <2>1. j - 1 \in 0 .. Len(x) /\ (j - 1) + 1 = j /\ j - 1 < m
    BY <1>1
  <2>2. j - 1 \in T
    BY <1>4, <2>1
  <2>3. m <= j - 1
    <3> HIDE DEF T
    <3> QED
      BY <1>3, <2>2
  <2>4. m \in Nat
    BY <1>2
  <2> QED
    BY <2>1, <2>3, <2>4
<1>5. EndsAt(x, m)
  BY <1>4 DEF EndsAt
<1> QED
  BY <1>5

(* One only.                                                               *)
LEMMA EndUnique ==
  ASSUME NEW x, NEW l, EndsAt(x, l), NEW m, EndsAt(x, m), Len(x) \in Nat
  PROVE  l = m
<1>1. ~(l < m)
  <2>1. ASSUME l < m  PROVE FALSE
    <3>1. l + 1 \in 1 .. m /\ l < Len(x)
      BY <2>1 DEF EndsAt
    <3> QED
      BY <3>1 DEF EndsAt
  <2> QED
    BY <2>1
<1>2. ~(m < l)
  <2>1. ASSUME m < l  PROVE FALSE
    <3>1. m + 1 \in 1 .. l /\ m < Len(x)
      BY <2>1 DEF EndsAt
    <3> QED
      BY <3>1 DEF EndsAt
  <2> QED
    BY <2>1
<1> QED
  BY <1>1, <1>2 DEF EndsAt

(* t is the first l characters of x.                                       *)
FirstOf(t, x, l) ==
  l \in 0 .. Len(x) /\ t \in Seq(Octets) /\ Len(t) = l /\ \A j \in 1 .. l : t[j] = x[j]

(* As SubSeq takes them.                                                   *)
LEMMA FirstIs ==
  ASSUME NEW x \in Seq(Octets), NEW l \in 0 .. Len(x), NEW t, t = SubSeq(x, 1, l)
  PROVE  FirstOf(t, x, l)
<1>1. Len(x) \in Nat
  BY LenProperties
<1>2. \A j \in 1 .. l : x[j] \in Octets
  <2>1. \A j \in 1 .. l : j \in 1 .. Len(x)
    BY <1>1
  <2> QED
    BY <2>1
<1>3. /\ t \in Seq(Octets) /\ Len(t) = IF 1 <= l THEN (l - 1) + 1 ELSE 0
      /\ \A j \in 1 .. ((l - 1) + 1) : t[j] = x[(1 + j) - 1]
  BY <1>2, SubSeqProperties
<1>4. Len(t) = l
  BY <1>1, <1>3
<1>5. \A j \in 1 .. l : j \in 1 .. ((l - 1) + 1) /\ (1 + j) - 1 = j
  BY <1>1
<1> QED
  BY <1>3, <1>4, <1>5 DEF FirstOf

(* The string in an array.                                                 *)
StrOf(t, x, l) == EndsAt(x, l) /\ FirstOf(t, x, l)

(* As Str says.                                                            *)
LEMMA StrIs ==
  ASSUME NEW x \in Seq(Octets)
  PROVE  \E l : StrOf(CString!Str(x), x, l)
<1>1. PICK l : EndsAt(x, l)
  BY EndExists
<1>2. Len(x) \in Nat
  BY LenProperties
<1>3. PICK m : m = CHOOSE i \in 0 .. Len(x) : /\ \A j \in 1 .. i : x[j] # 0
                                              /\ i < Len(x) => x[i + 1] = 0
  OBVIOUS
<1>4. EndsAt(x, m)
  BY <1>1, <1>3 DEF EndsAt
<1>5. CString!Str(x) = SubSeq(x, 1, m)
  BY <1>3, Zenon DEF CString!Str
<1>6. m \in 0 .. Len(x)
  BY <1>4 DEF EndsAt
<1> QED
  BY <1>4, <1>5, <1>6, FirstIs DEF StrOf

(* At most n characters.                                                   *)
PrefixOf(t, x, n, l) == FirstOf(t, x, l) /\ l <= n /\ (l < Len(x) => l = n)

(* As Prefix says.                                                         *)
LEMMA PrefixIs ==
  ASSUME NEW x \in Seq(Octets), NEW n \in Nat
  PROVE  \E l : PrefixOf(CString!Prefix(x, n), x, n, l)
<1>1. Len(x) \in Nat
  BY LenProperties
<1>2. PICK l : l = IF n < Len(x) THEN n ELSE Len(x)
  OBVIOUS
<1>3. l \in 0 .. Len(x) /\ l <= n /\ (l < Len(x) => l = n)
  BY <1>1, <1>2
<1>4. CString!Prefix(x, n) = SubSeq(x, 1, l)
  BY <1>2, Zenon DEF CString!Prefix
<1> QED
  BY <1>3, <1>4, FirstIs DEF PrefixOf

(* What a comparison makes of a character.                                 *)
Fold(f, c) == IF f \in CString!Folding THEN CString!Tolower(c) ELSE c
OperandOf(f, c) == IF f = "memcmp" THEN CString!Signed(c) ELSE Fold(f, c)

(* NUL is no letter.                                                       *)
LEMMA NulIsNoLetter == ~CString!Is("upper", 0)
<1>1. ASSUME NEW r \in CString!Ranges, 0 \in r[1]  PROVE "upper" \notin r[2] \cup {"ascii"}
  <2>1. r = <<0 .. 8, {"cntrl"}>> \/ 0 \notin r[1]
    BY DEF CString!Ranges
  <2>2. r[2] = {"cntrl"}
    BY <1>1, <2>1
  <2> QED
    BY <2>2
<1>2. PICK T : T = CString!Table
  OBVIOUS
<1>3. T = [c \in 0 .. 255 |->
             UNION {r[2] \cup {"ascii"} : r \in {q \in CString!Ranges : c \in q[1]}}]
  BY <1>2 DEF CString!Table
<1>4. T[0] = UNION {r[2] \cup {"ascii"} : r \in {q \in CString!Ranges : 0 \in q[1]}}
  <2>1. 0 \in 0 .. 255
    OBVIOUS
  <2> QED
    BY <1>3, <2>1, Zenon
<1>5. "upper" \notin T[0]
  BY <1>1, <1>4, Zenon
<1>6. 0 % 256 = 0
  OBVIOUS
<1> QED
  BY <1>2, <1>5, <1>6, Zenon DEF CString!Is

(* Only NUL is 0.                                                          *)
LEMMA FoldIs ==
  ASSUME NEW f, NEW c \in Octets
  PROVE  Fold(f, c) \in Nat /\ (Fold(f, c) = 0 <=> c = 0)
<1>1. \/ Fold(f, c) = c
      \/ Fold(f, c) = (c - 65) + 97 /\ CString!Is("upper", c)
  BY Zenon DEF Fold, CString!Tolower
<1>2. c \in Nat
  BY DEF Octets
<1>3. c = 0 => ~CString!Is("upper", c)
  BY NulIsNoLetter
<1> QED
  BY <1>1, <1>2, <1>3

(* A char is one character of Octets.                                      *)
LEMMA SignedIs ==
  ASSUME NEW c \in Octets
  PROVE  /\ CString!Signed(c) = (IF c >= 128 THEN c - 256 ELSE c) /\ CString!Signed(c) \in Int
         /\ \A e \in Octets : CString!Signed(c) = CString!Signed(e) <=> c = e
BY DEF CString!Signed, Octets

(* s is what is compared of x: g characters.                               *)
ComparedTo(s, x, f, n, g) ==
  /\ g \in 0 .. Len(x) /\ s \in Seq(Int) /\ Len(s) = g
  /\ \A j \in 1 .. g : s[j] = Fold(f, x[j])
  /\ f # "memcmp" => \A j \in 1 .. g : x[j] # 0
  /\ f \in CString!Bounded => g <= n
  /\ g < Len(x) => (f \in CString!Bounded /\ g = n) \/ (f # "memcmp" /\ x[g + 1] = 0)

(* As Compared says.                                                       *)
LEMMA ComparedIs ==
  ASSUME NEW x \in Seq(Octets), NEW f, f = call.fn, NEW n \in Nat, n = call.n
  PROVE  \E g : ComparedTo(CString!Compared(x), x, f, n, g)
<1>1. PICK t : t = IF f = "memcmp" THEN x ELSE CString!Str(x)
  OBVIOUS
<1>2. PICK s : s = IF f \in CString!Bounded THEN CString!Prefix(t, n) ELSE t
  OBVIOUS
<1>3. CString!Compared(x) = IF f \in CString!Folding THEN [j \in DOMAIN s |-> CString!Tolower(s[j])]
                            ELSE s
  BY <1>1, <1>2, Zenon DEF CString!Compared, CString!fn
<1>4. Len(x) \in Nat
  BY LenProperties
<1>5. PICK l : /\ FirstOf(t, x, l) /\ (f # "memcmp" => EndsAt(x, l))
               /\ f = "memcmp" => l = Len(x)
  <2>1. CASE f = "memcmp"
    BY <1>1, <1>4, <2>1 DEF FirstOf
  <2>2. CASE f # "memcmp"
    BY <1>1, <2>2, StrIs DEF StrOf
  <2> QED
    BY <2>1, <2>2
<1>6. l \in 0 .. Len(x) /\ t \in Seq(Octets) /\ Len(t) = l /\ \A j \in 1 .. l : t[j] = x[j]
  BY <1>5 DEF FirstOf
<1>7. PICK g : /\ FirstOf(s, t, g) /\ (f \in CString!Bounded => g <= n)
               /\ g < l => f \in CString!Bounded /\ g = n
  <2>1. CASE f \in CString!Bounded
    <3>1. \E g : PrefixOf(s, t, n, g)
      BY <1>2, <1>6, <2>1, PrefixIs
    <3> QED
      BY <1>6, <2>1, <3>1 DEF PrefixOf
  <2>2. CASE f \notin CString!Bounded
    <3>1. FirstOf(s, t, l)
      BY <1>2, <1>4, <1>6, <2>2 DEF FirstOf
    <3> QED
      BY <1>4, <1>6, <2>2, <3>1
  <2> QED
    BY <2>1, <2>2
<1>8. g \in 0 .. l /\ s \in Seq(Octets) /\ Len(s) = g /\ \A j \in 1 .. g : s[j] = t[j]
  BY <1>6, <1>7 DEF FirstOf
<1>9. g \in 0 .. Len(x) /\ \A j \in 1 .. g : j \in 1 .. l /\ s[j] = x[j] /\ s[j] \in Octets
  <2>1. \A j \in 1 .. g : j \in 1 .. l /\ j \in 1 .. Len(s)
    BY <1>4, <1>6, <1>8
  <2> QED
    BY <1>4, <1>6, <1>8, <2>1
<1>10. PICK c : c = CString!Compared(x)
  OBVIOUS
<1>11. c \in Seq(Int) /\ Len(c) = g /\ \A j \in 1 .. g : c[j] = Fold(f, x[j])
  <2>1. CASE f \in CString!Folding
    <3>1. c = [j \in 1 .. g |-> Fold(f, s[j])]
      <4>1. DOMAIN s = 1 .. g
        BY <1>8, LenProperties
      <4>2. \A j \in 1 .. g : Fold(f, s[j]) = CString!Tolower(s[j])
        BY <2>1 DEF Fold
      <4> QED
        BY <1>3, <1>10, <2>1, <4>1, <4>2
    <3>2. \A j \in 1 .. g : Fold(f, s[j]) \in Int
      BY <1>9, FoldIs
    <3>3. g \in Nat
      BY <1>4, <1>9
    <3> QED
      BY <1>9, <3>1, <3>2, <3>3
  <2>2. CASE f \notin CString!Folding
    <3>1. c = s
      BY <1>3, <1>10, <2>2
    <3>2. Octets \subseteq Int
      BY DEF Octets
    <3>3. c \in Seq(Int)
      BY <1>8, <3>1, <3>2
    <3> QED
      BY <1>8, <1>9, <2>2, <3>1, <3>3 DEF Fold
  <2> QED
    BY <2>1, <2>2
<1>12. f # "memcmp" => \A j \in 1 .. g : x[j] # 0
  BY <1>5, <1>9 DEF EndsAt
<1>13. g < Len(x) => (f \in CString!Bounded /\ g = n) \/ (f # "memcmp" /\ x[g + 1] = 0)
  <2>1. CASE g < l
    BY <1>7, <2>1
  <2>2. CASE g = l
    BY <1>5, <2>2 DEF EndsAt
  <2> QED
    BY <1>4, <1>6, <1>8, <2>1, <2>2
<1>14. ComparedTo(c, x, f, n, g)
  BY <1>7, <1>9, <1>11, <1>12, <1>13 DEF ComparedTo
<1> QED
  BY <1>10, <1>14

(* The arrays of calls.                                                    *)
LEMMA ArraysAre ==
  ASSUME NEW B, B \subseteq Octets, NEW len \in Nat, NEW x \in CString!Arrays(B, len)
  PROVE  x \in Seq(Octets)
<1>1. PICK l \in 0 .. len : x \in [1 .. l -> B]
  BY DEF CString!Arrays
<1>2. l \in Nat /\ \A j \in 1 .. l : x[j] \in Octets
  BY <1>1
<1> QED
  BY <1>1, <1>2

(* Text and a NUL, the first.                                              *)
Ended(x) == \E l \in Nat : Len(x) = l + 1 /\ x[l + 1] = 0 /\ \A j \in 1 .. l : x[j] # 0

(* What C says of the arguments.                                           *)
Given(f, x, y, n, c) ==
  /\ x \in Seq(Octets) /\ y \in Seq(Octets) /\ n \in Nat
  /\ f \in {"strcmp", "strcasecmp"} => CString!Terminated(x) /\ CString!Terminated(y)
  /\ f \in {"strncmp", "strncasecmp"} => CString!Upto(x, n) /\ CString!Upto(y, n)
  /\ f = "memcmp" => Len(x) >= n /\ Len(y) >= n
  /\ f = "memchr" => Len(x) >= n \/ \E j \in DOMAIN x : x[j] = c % 256
  /\ f = "rawmemchr" => \E j \in DOMAIN x : x[j] = c % 256
  /\ f \in {"strlen", "strchr", "strrchr"} => CString!Terminated(x)
  /\ f = "strstr" => Ended(x) /\ Ended(y)
  /\ f = "memset" => Len(x) >= n
  /\ f = "strcpy" => CString!Terminated(y) /\ Len(x) > Len(CString!Str(y))
  /\ f = "strncpy" => Len(x) >= n /\ CString!Upto(y, n)
  /\ f \in {"strdup", "strndup"} => x = << >> /\ CString!Terminated(y)

(* The functions.                                                          *)
StringFunctions ==
  {"strcmp", "strcasecmp", "strncmp", "strncasecmp", "memcmp", "memchr", "rawmemchr", "strlen",
   "strchr", "strrchr", "strstr", "memset", "strcpy", "strncpy", "strdup", "strndup"}

(* The calls are of these functions, with such arguments.                  *)
LEMMA CallsAre ==
  ASSUME NEW r \in CString!Calls
  PROVE  r.fn \in StringFunctions /\ Given(r.fn, r.a, r.b, r.n, r.c)
<1> DEFINE all == CString!Arrays(Bytes, MaxLen)
           strings == {x \in all : CString!Terminated(x)}
           endeds == {Append(x, 0) : x \in CString!Arrays({97, 98}, MaxLen + 2)}
           dests == {[j \in 1 .. l |-> CString!Garbage] : l \in 0 .. (MaxLen + 1)}
           N == 0 .. (MaxLen + 1)
           S1 == CString!Args({"strcmp", "strcasecmp"}, strings, strings, {0}, {0})
           S2 == {x \in CString!Args({"strncmp", "strncasecmp"}, all, all, N, {0}) :
                    CString!Upto(x.a, x.n) /\ CString!Upto(x.b, x.n)}
           S3 == {x \in CString!Args({"memcmp"}, all, all, N, {0}) : Len(x.a) >= x.n /\ Len(x.b) >= x.n}
           S4 == {x \in CString!Args({"memchr"}, all, {<< >>}, N, Sought) :
                    Len(x.a) >= x.n \/ \E j \in DOMAIN x.a : x.a[j] = x.c % 256}
           S5 == {x \in CString!Args({"rawmemchr"}, all, {<< >>}, {0}, Sought) :
                    \E j \in DOMAIN x.a : x.a[j] = x.c % 256}
           S6 == CString!Args({"strlen"}, strings, {<< >>}, {0}, {0})
           S7 == CString!Args({"strchr", "strrchr"}, strings, {<< >>}, {0}, Sought)
           S8 == CString!Args({"strstr"}, endeds, {x \in endeds : Len(x) <= MaxLen + 1}, {0}, {0})
           S9 == {x \in CString!Args({"memset"}, dests, {<< >>}, N, Sought) : Len(x.a) >= x.n}
           S10 == {x \in CString!Args({"strcpy"}, dests, strings, {0}, {0}) :
                     Len(x.a) > Len(CString!Str(x.b))}
           S11 == {x \in CString!Args({"strncpy"}, dests, all, N, {0}) :
                     Len(x.a) >= x.n /\ CString!Upto(x.b, x.n)}
           S12 == CString!Args({"strdup", "strndup"}, {<< >>}, strings, N, {0})
<1>1. /\ \A x \in all : x \in Seq(Octets)
      /\ \A x \in strings : x \in Seq(Octets) /\ CString!Terminated(x)
      /\ MaxLen \in Nat /\ 0 \in Octets
  <2>1. Bytes \subseteq Octets /\ MaxLen \in Nat /\ 0 \in Octets
    BY AlgorithmsAssumption DEF CString!CStringAssumption, Octets
  <2> QED
    BY <2>1, ArraysAre
<1>2. ASSUME NEW x \in endeds  PROVE x \in Seq(Octets) /\ Ended(x)
  <2>1. PICK y \in CString!Arrays({97, 98}, MaxLen + 2) : x = Append(y, 0)
    OBVIOUS
  <2>2. PICK l \in 0 .. (MaxLen + 2) : y \in [1 .. l -> {97, 98}]
    BY <2>1 DEF CString!Arrays
  <2>3. l \in Nat /\ \A j \in 1 .. l : y[j] \in {97, 98}
    BY <1>1, <2>2
  <2>4. y \in Seq({0, 97, 98}) /\ Len(y) = l
    BY <2>2, <2>3
  <2>5. x \in Seq({0, 97, 98}) /\ Len(x) = l + 1 /\ x[l + 1] = 0 /\ \A j \in 1 .. l : x[j] = y[j]
    BY <2>1, <2>4, AppendProperties
  <2>6. \A j \in 1 .. l : x[j] # 0
    BY <2>3, <2>5
  <2>7. x \in Seq(Octets)
    <3>1. {0, 97, 98} \subseteq Octets
      BY DEF Octets
    <3> QED
      BY <2>5, <3>1
  <2> QED
    BY <2>3, <2>5, <2>6, <2>7 DEF Ended
<1>3. ASSUME NEW x \in dests  PROVE x \in Seq(Octets)
  <2>1. PICK l \in 0 .. (MaxLen + 1) : x = [j \in 1 .. l |-> CString!Garbage]
    OBVIOUS
  <2>2. l \in Nat /\ CString!Garbage \in Octets
    BY <1>1 DEF CString!Garbage, Octets
  <2> QED
    BY <2>1, <2>2
<1>4. \/ r \in S1 \/ r \in S2 \/ r \in S3 \/ r \in S4 \/ r \in S5 \/ r \in S6
      \/ r \in S7 \/ r \in S8 \/ r \in S9 \/ r \in S10 \/ r \in S11 \/ r \in S12
  BY DEF CString!Calls
<1>5. \A n \in N : n \in Nat
  BY <1>1
<1>6. 0 \in Nat /\ << >> \in Seq(Octets)
  OBVIOUS
<1> HIDE DEF all, strings, endeds, dests, N
<1>7. ASSUME r \in S1  PROVE r.fn \in StringFunctions /\ Given(r.fn, r.a, r.b, r.n, r.c)
  BY <1>1, <1>6, <1>7 DEF CString!Args, Given, StringFunctions
<1>8. ASSUME r \in S2  PROVE r.fn \in StringFunctions /\ Given(r.fn, r.a, r.b, r.n, r.c)
  BY <1>1, <1>5, <1>8 DEF CString!Args, Given, StringFunctions
<1>9. ASSUME r \in S3  PROVE r.fn \in StringFunctions /\ Given(r.fn, r.a, r.b, r.n, r.c)
  BY <1>1, <1>5, <1>9 DEF CString!Args, Given, StringFunctions
<1>10. ASSUME r \in S4  PROVE r.fn \in StringFunctions /\ Given(r.fn, r.a, r.b, r.n, r.c)
  BY <1>1, <1>5, <1>6, <1>10 DEF CString!Args, Given, StringFunctions
<1>11. ASSUME r \in S5  PROVE r.fn \in StringFunctions /\ Given(r.fn, r.a, r.b, r.n, r.c)
  BY <1>1, <1>6, <1>11 DEF CString!Args, Given, StringFunctions
<1>12. ASSUME r \in S6  PROVE r.fn \in StringFunctions /\ Given(r.fn, r.a, r.b, r.n, r.c)
  BY <1>1, <1>6, <1>12 DEF CString!Args, Given, StringFunctions
<1>13. ASSUME r \in S7  PROVE r.fn \in StringFunctions /\ Given(r.fn, r.a, r.b, r.n, r.c)
  BY <1>1, <1>6, <1>13 DEF CString!Args, Given, StringFunctions
<1>14. ASSUME r \in S8  PROVE r.fn \in StringFunctions /\ Given(r.fn, r.a, r.b, r.n, r.c)
  BY <1>2, <1>6, <1>14 DEF CString!Args, Given, StringFunctions
<1>15. ASSUME r \in S9  PROVE r.fn \in StringFunctions /\ Given(r.fn, r.a, r.b, r.n, r.c)
  BY <1>3, <1>5, <1>6, <1>15 DEF CString!Args, Given, StringFunctions
<1>16. ASSUME r \in S10  PROVE r.fn \in StringFunctions /\ Given(r.fn, r.a, r.b, r.n, r.c)
  BY <1>1, <1>3, <1>6, <1>16 DEF CString!Args, Given, StringFunctions
<1>17. ASSUME r \in S11  PROVE r.fn \in StringFunctions /\ Given(r.fn, r.a, r.b, r.n, r.c)
  BY <1>1, <1>3, <1>5, <1>17 DEF CString!Args, Given, StringFunctions
<1>18. ASSUME r \in S12  PROVE r.fn \in StringFunctions /\ Given(r.fn, r.a, r.b, r.n, r.c)
  BY <1>1, <1>5, <1>6, <1>18 DEF CString!Args, Given, StringFunctions
<1> HIDE DEF S1, S2, S3, S4, S5, S6, S7, S8, S9, S10, S11, S12
<1> QED
  BY <1>4, <1>7, <1>8, <1>9, <1>10, <1>11, <1>12, <1>13, <1>14, <1>15, <1>16, <1>17, <1>18

(* r tells the order of s and t.                                           *)
Tells(s, t, r) == (r = 0 <=> s = t) /\ (r < 0 <=> CString!Less(s, t))

(* Where s and t part, or end.                                             *)
PartAt(s, t, d, r) ==
  \/ d < Len(s) /\ d < Len(t) /\ r # 0 /\ s[d + 1] # t[d + 1] /\ (r < 0 <=> s[d + 1] < t[d + 1])
  \/ d = Len(s) /\ d < Len(t) /\ r < 0
  \/ d < Len(s) /\ d = Len(t) /\ r > 0
  \/ d = Len(s) /\ d = Len(t) /\ r = 0

(* Behind their first d characters, which are the same, r tells the order. *)
LEMMA OrderTold ==
  ASSUME NEW s \in Seq(Int), NEW t \in Seq(Int), NEW d \in Nat, d <= Len(s), d <= Len(t),
         \A j \in 1 .. d : s[j] = t[j], NEW r \in Int, PartAt(s, t, d, r)
  PROVE  Tells(s, t, r)
<1>1. Len(s) \in Nat /\ Len(t) \in Nat
  BY LenProperties
<1>2. ASSUME NEW j \in 1 .. Len(t), j <= Len(s) + 1, \A l \in 1 .. (j - 1) : s[l] = t[l],
             j <= Len(s) => s[j] < t[j]
      PROVE  j > d
  <2>1. ASSUME j <= d  PROVE FALSE
    <3>1. j \in 1 .. d /\ j \in 1 .. Len(s)
      BY <1>1, <2>1
    <3>2. s[j] = t[j] /\ s[j] \in Int
      BY <3>1
    <3> QED
      BY <1>2, <1>1, <3>1, <3>2
  <2> QED
    BY <2>1
<1>3. CASE /\ d < Len(s) /\ d < Len(t) /\ r # 0 /\ s[d + 1] # t[d + 1]
           /\ r < 0 <=> s[d + 1] < t[d + 1]
  <2>1. d + 1 \in 1 .. Len(s) /\ d + 1 \in 1 .. Len(t) /\ (d + 1) - 1 = d
    BY <1>1, <1>3
  <2>2. s # t
    BY <1>3
  <2>3. ASSUME s[d + 1] < t[d + 1]  PROVE CString!Less(s, t)
    BY <1>1, <2>1, <2>3 DEF CString!Less
  <2>4. ASSUME NEW j \in 1 .. Len(t), j <= Len(s) + 1, \A l \in 1 .. (j - 1) : s[l] = t[l],
               j <= Len(s) => s[j] < t[j]
        PROVE  s[d + 1] < t[d + 1]
    <3>1. j > d
      BY <1>2, <2>4
    <3>2. ~(j > d + 1)
      <4>1. j > d + 1 => d + 1 \in 1 .. (j - 1)
        BY <1>1
      <4> QED
        BY <1>3, <2>4, <4>1
    <3>3. j = d + 1
      BY <3>1, <3>2
    <3> QED
      BY <2>1, <2>4, <3>3
  <2>5. CString!Less(s, t) => s[d + 1] < t[d + 1]
    BY <2>4 DEF CString!Less
  <2> QED
    BY <1>3, <2>2, <2>3, <2>5 DEF Tells
<1>4. CASE d = Len(s) /\ d < Len(t) /\ r < 0
  <2>1. d + 1 \in 1 .. Len(t) /\ d + 1 <= Len(s) + 1 /\ (d + 1) - 1 = d /\ ~(d + 1 <= Len(s))
    BY <1>1, <1>4
  <2>2. CString!Less(s, t)
    BY <2>1 DEF CString!Less
  <2>3. s # t
    BY <1>1, <1>4
  <2> QED
    BY <1>4, <2>2, <2>3 DEF Tells
<1>5. CASE d < Len(s) /\ d = Len(t) /\ r > 0
  <2>1. s # t
    BY <1>1, <1>5
  <2>2. ~CString!Less(s, t)
    <3>1. \A j \in 1 .. Len(t) : ~(j > d)
      BY <1>1, <1>5
    <3> QED
      BY <1>2, <3>1 DEF CString!Less
  <2> QED
    BY <1>5, <2>1, <2>2 DEF Tells
<1>6. CASE d = Len(s) /\ d = Len(t) /\ r = 0
  <2>1. s = t
    BY <1>6, SeqEqual
  <2>2. ~CString!Less(s, t)
    <3>1. \A j \in 1 .. Len(t) : ~(j > d)
      BY <1>1, <1>6
    <3> QED
      BY <1>2, <3>1 DEF CString!Less
  <2> QED
    BY <1>6, <2>1, <2>2 DEF Tells
<1> QED
  BY <1>3, <1>4, <1>5, <1>6 DEF PartAt

(* The first d characters are the same to the function f.                  *)
SameTo(f, n, x, y, d) ==
  /\ d \in Nat /\ d <= Len(x) /\ d <= Len(y) /\ (f \in CString!Bounded => d <= n)
  /\ \A j \in 1 .. d : OperandOf(f, x[j]) = OperandOf(f, y[j])
  /\ f # "memcmp" => \A j \in 1 .. d : x[j] # 0

(* What it returns behind them.                                            *)
Compares(f, n, x, y, d, r) ==
  IF f \in CString!Bounded /\ d >= n THEN r = 0
  ELSE /\ d < Len(x) /\ d < Len(y)
       /\ \/ OperandOf(f, x[d + 1]) # OperandOf(f, y[d + 1])
          \/ f # "memcmp" /\ OperandOf(f, x[d + 1]) = 0
       /\ r = OperandOf(f, x[d + 1]) - OperandOf(f, y[d + 1])

(* What is to be returned, of the characters compared.                     *)
ComparesRight(f, s, t, r) ==
  /\ r = 0 <=> s = t
  /\ (f = "memcmp" => \A j \in DOMAIN s : s[j] < 128 /\ t[j] < 128)
     => (r < 0 <=> CString!Less(s, t))

(* What is compared goes on for d characters that are in the string and    *)
(* below n, and for one more if the next one is.                           *)
LEMMA ComparedReaches ==
  ASSUME NEW f, NEW n \in Nat, NEW x \in Seq(Octets), NEW s, NEW g, ComparedTo(s, x, f, n, g),
         NEW d \in Nat, d <= Len(x), f \in CString!Bounded => d <= n,
         f # "memcmp" => \A j \in 1 .. d : x[j] # 0
  PROVE  /\ d <= g
         /\ d < Len(x) /\ ~(f \in CString!Bounded /\ d >= n) =>
              /\ f = "memcmp" => d < g
              /\ f # "memcmp" => (x[d + 1] = 0 <=> d = g)
<1>1. /\ g \in 0 .. Len(x) /\ Len(x) \in Nat
      /\ f # "memcmp" => \A j \in 1 .. g : x[j] # 0
      /\ f \in CString!Bounded => g <= n
      /\ g < Len(x) => (f \in CString!Bounded /\ g = n) \/ (f # "memcmp" /\ x[g + 1] = 0)
  BY LenProperties DEF ComparedTo
<1>2. d <= g
  <2>1. ASSUME g < d  PROVE FALSE
    <3>1. g + 1 \in 1 .. d /\ g < Len(x)
      BY <1>1, <2>1
    <3> QED
      BY <1>1, <2>1, <3>1
  <2> QED
    BY <1>1, <2>1
<1>3. ASSUME d < Len(x), ~(f \in CString!Bounded /\ d >= n)
      PROVE  /\ f = "memcmp" => d < g
             /\ f # "memcmp" => (x[d + 1] = 0 <=> d = g)
  <2>1. d = g => f # "memcmp" /\ x[d + 1] = 0
    BY <1>1, <1>3
  <2>2. d < g => d + 1 \in 1 .. g
    BY <1>1
  <2> QED
    BY <1>1, <1>2, <2>1, <2>2
<1> QED
  BY <1>2, <1>3

(* What a comparison returns is right.                                     *)
LEMMA ComparisonRight ==
  ASSUME NEW f, NEW n \in Nat, NEW x \in Seq(Octets), NEW y \in Seq(Octets),
         NEW s, NEW g, ComparedTo(s, x, f, n, g), NEW t, NEW h, ComparedTo(t, y, f, n, h),
         NEW d, SameTo(f, n, x, y, d), NEW r, Compares(f, n, x, y, d, r)
  PROVE  r \in Int /\ ComparesRight(f, s, t, r)
<1>1. /\ g \in 0 .. Len(x) /\ s \in Seq(Int) /\ Len(s) = g /\ Len(x) \in Nat
      /\ \A j \in 1 .. g : s[j] = Fold(f, x[j])
      /\ h \in 0 .. Len(y) /\ t \in Seq(Int) /\ Len(t) = h /\ Len(y) \in Nat
      /\ \A j \in 1 .. h : t[j] = Fold(f, y[j])
      /\ f \in CString!Bounded => g <= n /\ h <= n
  BY LenProperties DEF ComparedTo
<1>2. /\ d \in Nat /\ d <= Len(x) /\ d <= Len(y) /\ (f \in CString!Bounded => d <= n)
      /\ \A j \in 1 .. d : OperandOf(f, x[j]) = OperandOf(f, y[j])
      /\ f # "memcmp" => \A j \in 1 .. d : x[j] # 0
  BY DEF SameTo
<1>3. /\ \A j \in 1 .. Len(x) : x[j] \in Octets
      /\ \A j \in 1 .. Len(y) : y[j] \in Octets
      /\ \A j \in 1 .. d : j \in 1 .. Len(x) /\ j \in 1 .. Len(y)
  BY <1>1, <1>2
<1>4. f = "memcmp" => f \in CString!Bounded /\ \A c : Fold(f, c) = c
  BY DEF CString!Bounded, CString!Folding, Fold
<1>5. ASSUME NEW j \in 1 .. d
      PROVE  Fold(f, x[j]) = Fold(f, y[j]) /\ (f # "memcmp" => y[j] # 0)
  <2>1. OperandOf(f, x[j]) = OperandOf(f, y[j]) /\ x[j] \in Octets /\ y[j] \in Octets
    BY <1>2, <1>3
  <2>2. CASE f = "memcmp"
    <3>1. CString!Signed(x[j]) = CString!Signed(y[j])
      BY <2>1, <2>2 DEF OperandOf
    <3>2. x[j] = y[j]
      BY <2>1, <3>1, SignedIs
    <3> QED
      BY <2>2, <3>2
  <2>3. CASE f # "memcmp"
    <3>1. Fold(f, x[j]) = Fold(f, y[j])
      BY <2>1, <2>3 DEF OperandOf
    <3>2. x[j] # 0
      BY <1>2, <2>3
    <3> QED
      BY <2>1, <3>1, <3>2, FoldIs
  <2> QED
    BY <2>2, <2>3
<1>6. /\ d <= g
      /\ d < Len(x) /\ ~(f \in CString!Bounded /\ d >= n) =>
           /\ f = "memcmp" => d < g
           /\ f # "memcmp" => (x[d + 1] = 0 <=> d = g)
  BY <1>2, ComparedReaches
<1>7. /\ d <= h
      /\ d < Len(y) /\ ~(f \in CString!Bounded /\ d >= n) =>
           /\ f = "memcmp" => d < h
           /\ f # "memcmp" => (y[d + 1] = 0 <=> d = h)
  <2>1. f # "memcmp" => \A j \in 1 .. d : y[j] # 0
    BY <1>5
  <2> QED
    BY <1>2, <2>1, ComparedReaches
<1>8. \A j \in 1 .. d : s[j] = t[j]
  <2>1. \A j \in 1 .. d : j \in 1 .. g /\ j \in 1 .. h
    BY <1>1, <1>2, <1>6, <1>7
  <2> QED
    BY <1>1, <1>5, <2>1
<1>9. ASSUME NEW v \in Int, PartAt(s, t, d, v)  PROVE Tells(s, t, v)
  BY <1>1, <1>2, <1>6, <1>7, <1>8, <1>9, OrderTold
<1>10. CASE f \in CString!Bounded /\ d >= n
  <2>1. r = 0 /\ d = Len(s) /\ d = Len(t)
    BY <1>1, <1>2, <1>6, <1>7, <1>10 DEF Compares
  <2>2. PartAt(s, t, d, r)
    BY <2>1 DEF PartAt
  <2> QED
    BY <1>9, <2>1, <2>2 DEF Tells, ComparesRight
<1>11. CASE ~(f \in CString!Bounded /\ d >= n)
  <2>1. /\ d < Len(x) /\ d < Len(y)
        /\ \/ OperandOf(f, x[d + 1]) # OperandOf(f, y[d + 1])
           \/ f # "memcmp" /\ OperandOf(f, x[d + 1]) = 0
        /\ r = OperandOf(f, x[d + 1]) - OperandOf(f, y[d + 1])
    BY <1>11 DEF Compares
  <2>2. PICK u, v : u = x[d + 1] /\ v = y[d + 1]
    OBVIOUS
  <2>3. u \in Octets /\ v \in Octets
    BY <1>1, <1>2, <1>3, <2>1, <2>2
  <2>4. /\ d < g => s[d + 1] = Fold(f, u)
        /\ d < h => t[d + 1] = Fold(f, v)
    BY <1>1, <1>2, <2>2
  <2>5. CASE f = "memcmp"
    <3>1. d < g /\ d < h /\ s[d + 1] = u /\ t[d + 1] = v
      BY <1>4, <1>6, <1>7, <1>11, <2>1, <2>4, <2>5
    <3>2. u # v /\ r = CString!Signed(u) - CString!Signed(v) /\ u \in Int /\ v \in Int
      BY <2>1, <2>2, <2>3, <2>5 DEF OperandOf, Octets
    <3>3. Tells(s, t, u - v)
      <4>1. PICK e : e = u - v
        OBVIOUS
      <4>2. e \in Int /\ e # 0 /\ (e < 0 <=> u < v)
        BY <3>2, <4>1
      <4>3. PartAt(s, t, d, e)
        BY <1>1, <3>1, <3>2, <4>2 DEF PartAt
      <4> QED
        BY <1>9, <4>1, <4>2, <4>3
    <3>4. r \in Int /\ r # 0 /\ u - v # 0
      <4>1. PICK p, q : p = CString!Signed(u) /\ q = CString!Signed(v)
        OBVIOUS
      <4>2. p \in Int /\ q \in Int /\ p # q
        BY <2>3, <3>2, <4>1, SignedIs
      <4> QED
        BY <3>2, <4>1, <4>2
    <3>5. (\A j \in DOMAIN s : s[j] < 128 /\ t[j] < 128) => r = u - v
      <4>1. d + 1 \in DOMAIN s
        BY <1>1, <1>2, <3>1, LenProperties
      <4>2. u < 128 /\ v < 128 => CString!Signed(u) = u /\ CString!Signed(v) = v
        BY <2>3, <3>2, SignedIs
      <4> QED
        BY <3>1, <3>2, <4>1, <4>2
    <3> QED
      BY <2>5, <3>3, <3>4, <3>5 DEF Tells, ComparesRight
  <2>6. CASE f # "memcmp"
    <3>1. PICK p, q : p = Fold(f, u) /\ q = Fold(f, v)
      OBVIOUS
    <3>2. p \in Nat /\ (p = 0 <=> u = 0) /\ q \in Nat /\ (q = 0 <=> v = 0)
      BY <2>3, <3>1, FoldIs
    <3>3. (p # q \/ p = 0) /\ r = p - q
      BY <2>1, <2>2, <2>6, <3>1 DEF OperandOf
    <3>4. (u = 0 <=> d = g) /\ (v = 0 <=> d = h)
      BY <1>6, <1>7, <1>11, <2>1, <2>2, <2>6
    <3>5. (d < g => s[d + 1] = p) /\ (d < h => t[d + 1] = q)
      BY <2>4, <3>1
    <3>6. PartAt(s, t, d, r)
      <4>1. CASE d < g /\ d < h
        <5>1. r # 0 /\ p # q /\ (r < 0 <=> p < q)
          BY <1>1, <1>2, <3>2, <3>3, <3>4, <4>1
        <5> QED
          BY <1>1, <3>5, <4>1, <5>1 DEF PartAt
      <4>2. CASE d = g /\ d < h
        <5>1. r < 0
          BY <1>1, <1>2, <3>2, <3>3, <3>4, <4>2
        <5> QED
          BY <1>1, <4>2, <5>1 DEF PartAt
      <4>3. CASE d < g /\ d = h
        <5>1. r > 0
          BY <1>1, <1>2, <3>2, <3>3, <3>4, <4>3
        <5> QED
          BY <1>1, <4>3, <5>1 DEF PartAt
      <4>4. CASE d = g /\ d = h
        <5>1. r = 0
          BY <3>2, <3>3, <3>4, <4>4
        <5> QED
          BY <1>1, <4>4, <5>1 DEF PartAt
      <4> QED
        BY <1>1, <1>2, <1>6, <1>7, <4>1, <4>2, <4>3, <4>4
    <3>7. r \in Int
      BY <3>2, <3>3
    <3> QED
      BY <1>9, <2>6, <3>6, <3>7 DEF Tells, ComparesRight
  <2> QED
    BY <2>5, <2>6
<1> QED
  BY <1>10, <1>11

(* Nothing in P is before i, from that end.                                *)
AtEnd(P, i, least) == \A q \in P : IF least THEN i <= q ELSE i >= q

(* The least, the greatest, none.                                          *)
LEMMA EndsIs ==
  ASSUME NEW P, P \subseteq Int
  PROVE  /\ P = {} => \A least : CString!Ends(P, least) = 0
         /\ \A p \in P : /\ (\A q \in P : p <= q) => CString!Ends(P, TRUE) = p
                         /\ (\A q \in P : p >= q) => CString!Ends(P, FALSE) = p
<1>1. P = {} => \A least : CString!Ends(P, least) = 0
  BY Zenon DEF CString!Ends, CString!NULL
<1>2. ASSUME NEW p \in P, \A q \in P : p <= q  PROVE CString!Ends(P, TRUE) = p
  <2>0. P # {}
    OBVIOUS
  <2>1. PICK e : e = CHOOSE i \in P : AtEnd(P, i, TRUE)
    OBVIOUS
  <2>2. CString!Ends(P, TRUE) = e
    BY <2>0, <2>1, Zenon DEF CString!Ends, AtEnd
  <2>3. AtEnd(P, p, TRUE)
    BY <1>2, Zenon DEF AtEnd
  <2>4. e \in P /\ AtEnd(P, e, TRUE)
    BY <2>1, <2>3, Zenon
  <2>5. e \in P /\ \A q \in P : e <= q
    BY <2>4, Zenon DEF AtEnd
  <2>6. p \in Int /\ e \in Int
    BY <2>5
  <2>7. e = p
    BY <1>2, <2>5, <2>6
  <2> QED
    BY <2>2, <2>7
<1>3. ASSUME NEW p \in P, \A q \in P : p >= q  PROVE CString!Ends(P, FALSE) = p
  <2>0. P # {}
    OBVIOUS
  <2>1. PICK e : e = CHOOSE i \in P : AtEnd(P, i, FALSE)
    OBVIOUS
  <2>2. CString!Ends(P, FALSE) = e
    BY <2>0, <2>1, Zenon DEF CString!Ends, AtEnd
  <2>3. AtEnd(P, p, FALSE)
    BY <1>3, Zenon DEF AtEnd
  <2>4. e \in P /\ AtEnd(P, e, FALSE)
    BY <2>1, <2>3, Zenon
  <2>5. e \in P /\ \A q \in P : e >= q
    BY <2>4, Zenon DEF AtEnd
  <2>6. p \in Int /\ e \in Int
    BY <2>5
  <2>7. e = p
    BY <1>3, <2>5, <2>6
  <2> QED
    BY <2>2, <2>7
<1> QED
  BY <1>1, <1>2, <1>3

(* memchr and rawmemchr have not found the byte c yet.                     *)
NoByte(f, n, c, x, d) ==
  /\ d \in Nat /\ d <= Len(x) /\ (f \in CString!Bounded => d <= n)
  /\ \A j \in 1 .. d : x[j] # c % 256
ByteRight(f, n, c, x, r) ==
  r = CString!Ends({p \in DOMAIN x : x[p] = c % 256 /\ (f = "memchr" => p <= n)}, TRUE)

(* The next character is the byte, or it is not, or n is reached.          *)
LEMMA ByteStep ==
  ASSUME NEW f \in {"memchr", "rawmemchr"}, NEW x, NEW y, NEW n, NEW c, Given(f, x, y, n, c),
         NEW d, NoByte(f, n, c, x, d)
  PROVE  /\ f \in CString!Bounded /\ d >= n => ByteRight(f, n, c, x, 0)
         /\ ~(f \in CString!Bounded /\ d >= n) =>
              /\ d < Len(x)
              /\ x[d + 1] = c % 256 => ByteRight(f, n, c, x, d + 1)
              /\ x[d + 1] # c % 256 => NoByte(f, n, c, x, d + 1)
<1>1. /\ d \in Nat /\ d <= Len(x) /\ (f = "memchr" => d <= n)
      /\ \A j \in 1 .. d : x[j] # c % 256
      /\ f \in CString!Bounded <=> f = "memchr"
      /\ x \in Seq(Octets) /\ n \in Nat
      /\ (f = "memchr" /\ Len(x) >= n) \/ \E j \in DOMAIN x : x[j] = c % 256
  BY DEF NoByte, CString!Bounded, Given
<1>2. Len(x) \in Nat /\ DOMAIN x = 1 .. Len(x)
  BY <1>1, LenProperties
<1>3. PICK b : b = c % 256
  OBVIOUS
<1> DEFINE P == {p \in DOMAIN x : x[p] = b /\ (f = "memchr" => p <= n)}
<1>4. P \subseteq Int /\ (\A r : ByteRight(f, n, c, x, r) <=> r = CString!Ends(P, TRUE))
  BY <1>2, <1>3 DEF ByteRight
<1>5. ASSUME f = "memchr", d >= n  PROVE ByteRight(f, n, c, x, 0)
  <2>1. P = {}
    BY <1>1, <1>2, <1>3, <1>5
  <2> HIDE DEF P
  <2> QED
    BY <1>4, <2>1, EndsIs
<1>6. ASSUME ~(f = "memchr" /\ d >= n)
      PROVE  /\ d < Len(x)
             /\ x[d + 1] = b => ByteRight(f, n, c, x, d + 1)
             /\ x[d + 1] # b => NoByte(f, n, c, x, d + 1)
  <2>1. d < Len(x)
    BY <1>1, <1>2, <1>6
  <2>2. ASSUME x[d + 1] = b  PROVE ByteRight(f, n, c, x, d + 1)
    <3>1. d + 1 \in P
      BY <1>1, <1>2, <1>6, <2>1, <2>2
    <3>2. \A q \in P : d + 1 <= q
      BY <1>1, <1>2, <1>3
    <3> HIDE DEF P
    <3> QED
      BY <1>4, <3>1, <3>2, EndsIs
  <2>3. ASSUME x[d + 1] # b  PROVE NoByte(f, n, c, x, d + 1)
    BY <1>1, <1>2, <1>3, <1>6, <2>1, <2>3 DEF NoByte
  <2> QED
    BY <2>1, <2>2, <2>3
<1> QED
  BY <1>1, <1>3, <1>5, <1>6

(* The first d characters are of the string.                               *)
InText(x, d) == d \in Nat /\ d <= Len(x) /\ \A j \in 1 .. d : x[j] # 0

(* It goes on behind them, or ends there.                                  *)
LEMMA InTextOn ==
  ASSUME NEW x \in Seq(Octets), CString!Terminated(x), NEW d, InText(x, d)
  PROVE  /\ d < Len(x)
         /\ x[d + 1] = 0 => StrOf(CString!Str(x), x, d)
         /\ x[d + 1] # 0 => InText(x, d + 1)
<1>1. d \in Nat /\ d <= Len(x) /\ Len(x) \in Nat /\ \A j \in 1 .. d : x[j] # 0
  BY LenProperties DEF InText
<1>2. PICK j \in 1 .. Len(x) : x[j] = 0
  BY LenProperties DEF CString!Terminated
<1>3. d < Len(x)
  BY <1>1, <1>2
<1>4. ASSUME x[d + 1] = 0  PROVE StrOf(CString!Str(x), x, d)
  <2>1. EndsAt(x, d)
    BY <1>1, <1>4 DEF EndsAt
  <2>2. PICK l : StrOf(CString!Str(x), x, l)
    BY StrIs
  <2>3. l = d
    BY <1>1, <2>1, <2>2, EndUnique DEF StrOf
  <2> QED
    BY <2>2, <2>3
<1>5. ASSUME x[d + 1] # 0  PROVE InText(x, d + 1)
  BY <1>1, <1>3, <1>5 DEF InText
<1> QED
  BY <1>3, <1>4, <1>5

(* strlen returns how many they are.                                       *)
LEMMA LengthTold ==
  ASSUME NEW x \in Seq(Octets), CString!Terminated(x), NEW d, InText(x, d), x[d + 1] = 0
  PROVE  d = Len(CString!Str(x))
<1>1. StrOf(CString!Str(x), x, d)
  BY InTextOn
<1> QED
  BY <1>1 DEF StrOf, FirstOf

(* strchr has not found c, and strrchr has found it last at e, or not.     *)
LastAt(x, c, d, e) ==
  /\ e \in 0 .. d /\ (e # 0 => CString!Signed(x[e]) = c)
  /\ \A j \in (e + 1) .. d : CString!Signed(x[j]) # c
CharAmong(x, c) == {p \in DOMAIN CString!Str(x) : CString!Signed(x[p]) = c}

(* At the end there is no other.                                           *)
LEMMA LastTold ==
  ASSUME NEW x \in Seq(Octets), CString!Terminated(x), NEW c, NEW d, InText(x, d), x[d + 1] = 0,
         NEW e, LastAt(x, c, d, e)
  PROVE  /\ e = CString!Ends(CharAmong(x, c), FALSE)
         /\ e = 0 => e = CString!Ends(CharAmong(x, c), TRUE)
<1>1. PICK t : t = CString!Str(x)
  OBVIOUS
<1>2. StrOf(t, x, d) /\ d \in Nat
  BY <1>1, InTextOn DEF InText
<1>3. DOMAIN t = 1 .. d
  BY <1>2, LenProperties DEF StrOf, FirstOf
<1>4. PICK P : P = CharAmong(x, c)
  OBVIOUS
<1>5. P = {p \in 1 .. d : CString!Signed(x[p]) = c} /\ P \subseteq Int
  BY <1>1, <1>3, <1>4 DEF CharAmong
<1>6. CASE e = 0
  <2>1. P = {}
    BY <1>5, <1>6 DEF LastAt
  <2> QED
    BY <1>4, <1>6, <2>1, EndsIs
<1>7. CASE e # 0
  <2>1. e \in P /\ \A q \in P : e >= q
    BY <1>2, <1>5, <1>7 DEF LastAt
  <2> QED
    BY <1>4, <1>5, <1>7, <2>1, EndsIs
<1> QED
  BY <1>6, <1>7

(* What strchr finds is the first.                                         *)
LEMMA FirstTold ==
  ASSUME NEW x \in Seq(Octets), CString!Terminated(x), NEW c, NEW d, InText(x, d), x[d + 1] # 0,
         LastAt(x, c, d, 0), CString!Signed(x[d + 1]) = c
  PROVE  d + 1 = CString!Ends(CharAmong(x, c), TRUE)
<1>1. PICK t : t = CString!Str(x)
  OBVIOUS
<1>2. PICK l : StrOf(t, x, l)
  BY <1>1, StrIs
<1>3. Len(x) \in Nat /\ l \in Nat /\ DOMAIN t = 1 .. l /\ d \in Nat
  BY <1>2, LenProperties DEF StrOf, FirstOf, InText
<1>4. l >= d + 1
  <2>1. ASSUME l < d + 1  PROVE FALSE
    <3>1. l < Len(x) /\ (l + 1 \in 1 .. d \/ l = d)
      BY <1>3, <2>1, InTextOn
    <3>2. x[l + 1] = 0
      BY <1>2, <3>1 DEF StrOf, EndsAt
    <3> QED
      BY <3>1, <3>2 DEF InText
  <2> QED
    BY <1>3, <2>1
<1>5. PICK P : P = CharAmong(x, c)
  OBVIOUS
<1>6. P = {p \in 1 .. l : CString!Signed(x[p]) = c} /\ P \subseteq Int
  BY <1>1, <1>3, <1>5 DEF CharAmong
<1>7. d + 1 \in P /\ \A q \in P : d + 1 <= q
  BY <1>3, <1>4, <1>6 DEF LastAt
<1> QED
  BY <1>5, <1>6, <1>7, EndsIs

(* A piece of an array.                                                    *)
LEMMA PieceOf ==
  ASSUME NEW x \in Seq(Octets), NEW p \in 1 .. (Len(x) + 1), NEW t, t = SubSeq(x, p, Len(x))
  PROVE  t \in Seq(Octets) /\ Len(t) = (Len(x) + 1) - p
         /\ \A j \in 1 .. ((Len(x) + 1) - p) : t[j] = x[(p + j) - 1]
<1>1. Len(x) \in Nat
  BY LenProperties
<1>2. PICK l : l = Len(x)
  OBVIOUS
<1>3. \A j \in p .. l : x[j] \in Octets
  <2>1. \A j \in p .. l : j \in 1 .. Len(x)
    BY <1>1, <1>2
  <2> QED
    BY <2>1
<1>4. /\ t \in Seq(Octets) /\ Len(t) = IF p <= l THEN (l - p) + 1 ELSE 0
      /\ \A j \in 1 .. ((l - p) + 1) : t[j] = x[(p + j) - 1]
  BY <1>1, <1>2, <1>3, SubSeqProperties
<1>5. (l - p) + 1 = (Len(x) + 1) - p /\ (p <= l \/ (l - p) + 1 = 0)
  BY <1>1, <1>2
<1> QED
  BY <1>1, <1>2, <1>4, <1>5

(* The m characters of y are at position p of the l characters of x.       *)
OccursAt(x, l, y, m, p) ==
  p \in 1 .. (l + 1) /\ (p + m) - 1 <= l /\ \A j \in 1 .. m : x[(p + j) - 1] = y[j]
Occurring(x, y) ==
  {p \in 1 .. Len(x) : CString!IsPrefix(CString!Str(y), SubSeq(CString!Str(x), p, Len(x) - 1))}

(* A NUL is behind l characters.                                           *)
EndedAt(x, l) == x \in Seq(Octets) /\ l \in Nat /\ Len(x) = l + 1 /\ EndsAt(x, l)

(* This is what an occurrence is.                                          *)
LEMMA OccurringIs ==
  ASSUME NEW x, NEW l, EndedAt(x, l), NEW y, NEW m, EndedAt(y, m), NEW p
  PROVE  p \in Occurring(x, y) <=> OccursAt(x, l, y, m, p)
<1>1. /\ x \in Seq(Octets) /\ l \in Nat /\ Len(x) = l + 1 /\ EndsAt(x, l)
      /\ y \in Seq(Octets) /\ m \in Nat /\ Len(y) = m + 1 /\ EndsAt(y, m)
  BY DEF EndedAt
<1>2. PICK s, t : s = CString!Str(x) /\ t = CString!Str(y)
  OBVIOUS
<1>3. /\ s \in Seq(Octets) /\ Len(s) = l /\ \A j \in 1 .. l : s[j] = x[j]
      /\ t \in Seq(Octets) /\ Len(t) = m /\ \A j \in 1 .. m : t[j] = y[j]
  <2>1. PICK i : StrOf(s, x, i)
    BY <1>1, <1>2, StrIs
  <2>2. PICK k : StrOf(t, y, k)
    BY <1>1, <1>2, StrIs
  <2>3. Len(x) \in Nat /\ Len(y) \in Nat /\ EndsAt(x, i) /\ EndsAt(y, k)
    BY <1>1, <2>1, <2>2 DEF StrOf
  <2>4. i = l
    BY <1>1, <2>3, EndUnique
  <2>5. k = m
    BY <1>1, <2>3, EndUnique
  <2> QED
    BY <2>1, <2>2, <2>4, <2>5 DEF StrOf, FirstOf
<1>4. ASSUME p \in 1 .. (l + 1)
      PROVE  CString!IsPrefix(t, SubSeq(s, p, l)) <=> OccursAt(x, l, y, m, p)
  <2>1. PICK e : e = SubSeq(s, p, l)
    OBVIOUS
  <2>2. PICK h : h = (l + 1) - p
    OBVIOUS
  <2>3. h \in Nat /\ p + h = l + 1
    BY <1>1, <1>4, <2>2
  <2>4. e \in Seq(Octets) /\ Len(e) = h /\ \A j \in 1 .. h : e[j] = s[(p + j) - 1]
    BY <1>3, <1>4, <2>1, <2>2, PieceOf
  <2>5. \A j \in 1 .. h : e[j] = x[(p + j) - 1]
    <3>1. \A j \in 1 .. h : (p + j) - 1 \in 1 .. l
      BY <1>1, <1>4, <2>3
    <3> QED
      BY <1>3, <2>4, <3>1
  <2>6. m <= h <=> (p + m) - 1 <= l
    BY <1>1, <1>4, <2>3
  <2>7. ASSUME m <= h
        PROVE  SubSeq(t, 1, m) = SubSeq(e, 1, m) <=> \A j \in 1 .. m : x[(p + j) - 1] = y[j]
    <3>1. PICK u, v : u = SubSeq(t, 1, m) /\ v = SubSeq(e, 1, m)
      OBVIOUS
    <3>2. m \in 0 .. Len(t) /\ m \in 0 .. Len(e)
      BY <1>1, <1>3, <2>3, <2>4, <2>7
    <3>3. FirstOf(u, t, m)
      BY <1>3, <3>1, <3>2, FirstIs
    <3>4. FirstOf(v, e, m)
      BY <2>4, <3>1, <3>2, FirstIs
    <3>5. /\ u \in Seq(Octets) /\ Len(u) = m /\ \A j \in 1 .. m : u[j] = t[j]
          /\ v \in Seq(Octets) /\ Len(v) = m /\ \A j \in 1 .. m : v[j] = e[j]
      BY <3>3, <3>4 DEF FirstOf
    <3>6. \A j \in 1 .. m : u[j] = y[j] /\ v[j] = x[(p + j) - 1]
      <4>1. \A j \in 1 .. m : j \in 1 .. h
        BY <1>1, <2>3, <2>7
      <4> QED
        BY <1>3, <2>5, <3>5, <4>1
    <3>7. u = v <=> \A j \in 1 .. m : u[j] = v[j]
      <4>1. (\A j \in 1 .. Len(u) : u[j] = v[j]) => u = v
        BY <3>5, SeqEqual
      <4> QED
        BY <3>5, <4>1
    <3>8. (\A j \in 1 .. m : u[j] = v[j]) <=> \A j \in 1 .. m : x[(p + j) - 1] = y[j]
      BY <3>6
    <3> QED
      BY <3>1, <3>7, <3>8
  <2>8. CString!IsPrefix(t, e) <=> m <= h /\ SubSeq(t, 1, m) = SubSeq(e, 1, m)
    BY <1>3, <2>4 DEF CString!IsPrefix
  <2> QED
    BY <1>4, <2>1, <2>6, <2>7, <2>8 DEF OccursAt
<1>5. Len(x) - 1 = l
  BY <1>1
<1>6. p \in Occurring(x, y) <=> p \in 1 .. (l + 1) /\ CString!IsPrefix(t, SubSeq(s, p, l))
  BY <1>1, <1>2, <1>5, Zenon DEF Occurring
<1> QED
  BY <1>4, <1>6 DEF OccursAt

(* The character of y that is first is not in y again.                     *)
NoRecurring(y, m) == \A j \in 2 .. m : y[j] # y[1]

(* Where y cannot be, by what the first d characters of x are.             *)
Refuted(x, y, m, d, p) == \E j \in 1 .. m : (p + j) - 1 <= d /\ x[(p + j) - 1] # y[j]

(* strstr has matched the first k characters of y.                         *)
Matched(x, y, m, d, k) ==
  /\ k \in 0 .. d /\ k <= m
  /\ \A j \in 1 .. k : x[(d - k) + j] = y[j]
  /\ NoRecurring(y, m) => \A p \in 1 .. (d - k) : Refuted(x, y, m, d, p)

(* The next character, c, goes on with the match or begins another.        *)
LEMMA MatchStep ==
  ASSUME NEW x, NEW y, NEW m \in Nat, m > 0, NEW d \in Nat, NEW k, Matched(x, y, m, d, k), k < m,
         NEW c, c = x[d + 1], NEW from, from = (IF c # y[k + 1] THEN 0 ELSE k),
         NEW k2, k2 = (IF c = y[from + 1] THEN from + 1 ELSE from)
  PROVE  Matched(x, y, m, d + 1, k2)
<1>1. /\ k \in Nat /\ k <= d /\ k < m /\ \A j \in 1 .. k : x[(d - k) + j] = y[j]
      /\ NoRecurring(y, m) => \A p \in 1 .. (d - k) : Refuted(x, y, m, d, p)
  BY DEF Matched
<1>2. ASSUME NEW p \in Nat, Refuted(x, y, m, d, p)  PROVE Refuted(x, y, m, d + 1, p)
  <2>1. PICK j \in 1 .. m : (p + j) - 1 <= d /\ x[(p + j) - 1] # y[j]
    BY <1>2 DEF Refuted
  <2>2. (p + j) - 1 <= d + 1
    BY <2>1
  <2> QED
    BY <2>1, <2>2 DEF Refuted
<1>3. CASE c = y[k + 1]
  <2>1. k2 = k + 1 /\ (d + 1) - k2 = d - k
    BY <1>1, <1>3
  <2>2. \A j \in 1 .. k2 : x[(d - k) + j] = y[j]
    <3>1. \A j \in 1 .. k2 : j \in 1 .. k \/ j = k + 1
      BY <1>1, <2>1
    <3>2. (d - k) + (k + 1) = d + 1
      BY <1>1
    <3> QED
      BY <1>1, <1>3, <3>1, <3>2
  <2>3. NoRecurring(y, m) => \A p \in 1 .. (d - k) : Refuted(x, y, m, d + 1, p)
    BY <1>1, <1>2
  <2> QED
    BY <1>1, <2>1, <2>2, <2>3 DEF Matched
<1>4. CASE c # y[k + 1]
  <2>1. from = 0 /\ (k2 = IF c = y[1] THEN 1 ELSE 0)
    BY <1>4
  <2>2. k2 \in 0 .. (d + 1) /\ k2 <= m
    BY <2>1
  <2>3. \A j \in 1 .. k2 : x[((d + 1) - k2) + j] = y[j]
    <3>1. ASSUME NEW j \in 1 .. k2  PROVE x[((d + 1) - k2) + j] = y[j]
      <4>1. k2 = 1 /\ j = 1 /\ c = y[1] /\ ((d + 1) - k2) + j = d + 1
        BY <2>1
      <4> QED
        BY <4>1
    <3> QED
      BY <3>1
  <2>4. ASSUME NoRecurring(y, m), NEW p \in 1 .. ((d + 1) - k2)
        PROVE  Refuted(x, y, m, d + 1, p)
    <3>1. CASE p <= d - k
      BY <1>1, <1>2, <2>4, <3>1
    <3>2. CASE p = (d - k) + 1
      <4>1. k + 1 \in 1 .. m /\ (p + (k + 1)) - 1 = d + 1
        BY <1>1, <3>2
      <4> QED
        BY <1>4, <4>1 DEF Refuted
    <3>3. CASE p > (d - k) + 1 /\ p <= d
      <4>1. PICK j : j = p - (d - k)
        OBVIOUS
      <4>2. j \in 2 .. k /\ j \in 1 .. k /\ j \in 2 .. m /\ (d - k) + j = p
        BY <1>1, <3>3, <4>1
      <4>3. x[p] = y[j] /\ y[j] # y[1]
        BY <1>1, <2>4, <4>2 DEF NoRecurring
      <4>4. 1 \in 1 .. m /\ (p + 1) - 1 = p /\ p <= d + 1
        BY <3>3
      <4> QED
        BY <4>3, <4>4 DEF Refuted
    <3>4. CASE p = d + 1
      <4>1. k2 = 0 /\ c # y[1]
        BY <2>1, <3>4
      <4>2. 1 \in 1 .. m /\ (p + 1) - 1 = p /\ p <= d + 1
        BY <3>4
      <4> QED
        BY <3>4, <4>1, <4>2 DEF Refuted
    <3>5. p <= d + 1
      BY <2>1
    <3> QED
      BY <1>1, <3>1, <3>2, <3>3, <3>4, <3>5
  <2> QED
    BY <2>2, <2>3, <2>4 DEF Matched
<1> QED
  BY <1>3, <1>4

(* What strstr may return.                                                 *)
FindsRight(x, y, m, r) ==
  /\ r # 0 => r \in Occurring(x, y)
  /\ NoRecurring(y, m) => r = CString!Ends(Occurring(x, y), TRUE)

(* Nothing to find is found at once.                                       *)
LEMMA NothingFound ==
  ASSUME NEW x, NEW l, EndedAt(x, l), NEW y, EndedAt(y, 0)
  PROVE  FindsRight(x, y, 0, 1)
<1>1. l \in Nat
  BY DEF EndedAt
<1>2. OccursAt(x, l, y, 0, 1)
  BY <1>1 DEF OccursAt
<1>3. PICK P : P = Occurring(x, y)
  OBVIOUS
<1>4. \A p \in P : p \in Int /\ 1 <= p
  BY <1>1, <1>3, OccurringIs DEF OccursAt
<1>5. 1 \in P
  BY <1>2, <1>3, OccurringIs
<1>6. P \subseteq Int
  BY <1>4
<1> QED
  BY <1>3, <1>4, <1>5, <1>6, EndsIs DEF FindsRight

(* The match is whole.                                                     *)
LEMMA WholeMatch ==
  ASSUME NEW x, NEW l, EndedAt(x, l), NEW y, NEW m, EndedAt(y, m), m > 0,
         NEW d \in 0 .. l, Matched(x, y, m, d, m)
  PROVE  FindsRight(x, y, m, (d - m) + 1)
<1>1. /\ l \in Nat /\ m \in 0 .. d /\ \A j \in 1 .. m : x[(d - m) + j] = y[j]
      /\ NoRecurring(y, m) => \A p \in 1 .. (d - m) : Refuted(x, y, m, d, p)
  BY DEF Matched, EndedAt
<1>2. PICK r, P : r = (d - m) + 1 /\ P = Occurring(x, y)
  OBVIOUS
<1>3. r \in 1 .. (l + 1) /\ (r + m) - 1 = d /\ \A j \in 1 .. m : (r + j) - 1 = (d - m) + j
  BY <1>1, <1>2
<1>4. OccursAt(x, l, y, m, r)
  BY <1>1, <1>3 DEF OccursAt
<1>5. r \in P
  BY <1>2, <1>4, OccurringIs
<1>6. ASSUME NEW q \in P  PROVE q \in Int /\ (NoRecurring(y, m) => r <= q)
  <2>1. OccursAt(x, l, y, m, q)
    BY <1>2, <1>6, OccurringIs
  <2>2. q \in 1 .. (l + 1) /\ \A j \in 1 .. m : x[(q + j) - 1] = y[j]
    BY <2>1 DEF OccursAt
  <2>3. ~Refuted(x, y, m, d, q)
    BY <2>2 DEF Refuted
  <2>4. NoRecurring(y, m) => ~(q \in 1 .. (d - m))
    BY <1>1, <2>3
  <2> QED
    BY <1>1, <1>2, <2>2, <2>4
<1>7. P \subseteq Int
  BY <1>6
<1>8. NoRecurring(y, m) => r = CString!Ends(P, TRUE)
  <2>1. ASSUME NoRecurring(y, m)  PROVE r = CString!Ends(P, TRUE)
    <3>1. \A q \in P : r <= q
      BY <1>6, <2>1
    <3> QED
      BY <1>5, <1>7, <3>1, EndsIs
  <2> QED
    BY <2>1
<1> QED
  BY <1>2, <1>5, <1>8 DEF FindsRight

(* The text ends before a match does.                                      *)
LEMMA NoMatch ==
  ASSUME NEW x, NEW l, EndedAt(x, l), NEW y, NEW m, EndedAt(y, m),
         NEW k, Matched(x, y, m, l, k), k < m
  PROVE  FindsRight(x, y, m, 0)
<1>1. /\ l \in Nat /\ m \in Nat /\ k \in 0 .. l
      /\ NoRecurring(y, m) => \A p \in 1 .. (l - k) : Refuted(x, y, m, l, p)
  BY DEF Matched, EndedAt
<1>2. PICK P : P = Occurring(x, y)
  OBVIOUS
<1>3. ASSUME NoRecurring(y, m), NEW q \in P  PROVE FALSE
  <2>1. OccursAt(x, l, y, m, q)
    BY <1>2, <1>3, OccurringIs
  <2>2. q \in 1 .. (l + 1) /\ (q + m) - 1 <= l /\ \A j \in 1 .. m : x[(q + j) - 1] = y[j]
    BY <2>1 DEF OccursAt
  <2>3. ~Refuted(x, y, m, l, q)
    BY <2>2 DEF Refuted
  <2>4. ~(q \in 1 .. (l - k))
    BY <1>1, <1>3, <2>3
  <2> QED
    BY <1>1, <2>2, <2>4
<1>4. NoRecurring(y, m) => P = {}
  BY <1>3
<1>5. NoRecurring(y, m) => 0 = CString!Ends(P, TRUE)
  BY <1>4, EndsIs
<1> QED
  BY <1>2, <1>5 DEF FindsRight

(* The first d characters of x have been overwritten with those of w.      *)
Written(m, x, w, d) ==
  d \in 0 .. Len(x) /\ m = [j \in 1 .. Len(x) |-> IF j <= d THEN w[j] ELSE x[j]]

(* None.                                                                   *)
LEMMA WrittenNone ==
  ASSUME NEW x \in Seq(Octets), NEW w
  PROVE  Written(x, x, w, 0)
<1>1. Len(x) \in Nat /\ x = [j \in 1 .. Len(x) |-> x[j]]
  BY LenProperties
<1>2. \A j \in 1 .. Len(x) : (IF j <= 0 THEN w[j] ELSE x[j]) = x[j]
  BY <1>1
<1>3. x = [j \in 1 .. Len(x) |-> IF j <= 0 THEN w[j] ELSE x[j]]
  BY <1>1, <1>2
<1> QED
  BY <1>1, <1>3 DEF Written

(* The array stays as long as it is.                                       *)
LEMMA WrittenLen ==
  ASSUME NEW x \in Seq(Octets), NEW m, NEW w, NEW d, Written(m, x, w, d)
  PROVE  Len(m) = Len(x) /\ DOMAIN m = 1 .. Len(x)
<1>1. Len(x) \in Nat /\ DOMAIN m = 1 .. Len(x)
  BY LenProperties DEF Written
<1>2. PICK n, S : n = Len(x) /\ S = {m[j] : j \in 1 .. n}
  OBVIOUS
<1>3. m \in [1 .. n -> S]
  BY <1>2 DEF Written
<1>4. m \in Seq(S)
  BY <1>1, <1>2, <1>3
<1> QED
  BY <1>1, <1>2, <1>4, LenProperties

(* A store to an array.                                                    *)
Puts(m2, m, d, c) == m2 = [m EXCEPT ![d + 1] = c]

(* One more.                                                               *)
LEMMA WriteOne ==
  ASSUME NEW x \in Seq(Octets), NEW m, NEW w, NEW d, Written(m, x, w, d), d < Len(x),
         NEW c, c = w[d + 1], NEW m2, Puts(m2, m, d, c)
  PROVE  Written(m2, x, w, d + 1)
<1>1. PICK n : n = Len(x)
  OBVIOUS
<1>2. /\ n \in Nat /\ d \in Nat /\ d < n /\ d + 1 \in 0 .. n
      /\ m = [j \in 1 .. n |-> IF j <= d THEN w[j] ELSE x[j]]
  BY <1>1, LenProperties DEF Written
<1>3. m2 = [j \in 1 .. n |-> IF j = d + 1 THEN c ELSE m[j]]
  BY <1>2 DEF Puts
<1>4. \A j \in 1 .. n : (IF j = d + 1 THEN c ELSE m[j]) = IF j <= d + 1 THEN w[j] ELSE x[j]
  BY <1>2
<1>5. m2 = [j \in 1 .. n |-> IF j <= d + 1 THEN w[j] ELSE x[j]]
  BY <1>3, <1>4
<1> QED
  BY <1>1, <1>2, <1>5 DEF Written

(* What memset writes, and what copies do: the text, and then NULs.        *)
Repeated(c) == [j \in Nat |-> c % 256]
Padded(t) == [j \in Nat |-> IF j <= Len(t) THEN t[j] ELSE 0]

(* What is copied.                                                         *)
TextOf(f, y, n) ==
  IF f \in {"strncpy", "strndup"} THEN CString!Prefix(CString!Str(y), n) ELSE CString!Str(y)

(* It is the first l characters of y.                                      *)
TextAt(f, y, n, t, l) ==
  /\ FirstOf(t, y, l) /\ \A j \in 1 .. l : y[j] # 0
  /\ f \in {"strcpy", "strdup"} => l < Len(y) /\ y[l + 1] = 0
  /\ f = "strncpy" => l <= n /\ (l < n => l < Len(y) /\ y[l + 1] = 0)

(* As TextOf says.                                                         *)
LEMMA TextIs ==
  ASSUME NEW f \in CString!Copies, NEW x, NEW y, NEW n, NEW c, Given(f, x, y, n, c)
  PROVE  \E l : TextAt(f, y, n, TextOf(f, y, n), l)
<1>1. /\ y \in Seq(Octets) /\ n \in Nat /\ Len(y) \in Nat
      /\ f \in {"strcpy", "strdup", "strndup"} => CString!Terminated(y)
      /\ f = "strncpy" => CString!Upto(y, n)
  BY LenProperties DEF Given
<1>2. PICK s : s = CString!Str(y)
  OBVIOUS
<1>3. PICK e : StrOf(s, y, e)
  BY <1>1, <1>2, StrIs
<1>4. /\ e \in Nat /\ e <= Len(y) /\ s \in Seq(Octets) /\ Len(s) = e
      /\ \A j \in 1 .. e : s[j] = y[j] /\ y[j] # 0
      /\ e < Len(y) => y[e + 1] = 0
  BY <1>1, <1>3 DEF StrOf, EndsAt, FirstOf
<1>5. CString!Terminated(y) => e < Len(y)
  <2>1. ASSUME NEW j \in DOMAIN y, y[j] = 0  PROVE e < Len(y)
    <3>1. j \in 1 .. Len(y)
      BY <1>1, <2>1
    <3> QED
      BY <1>1, <1>4, <2>1, <3>1
  <2> QED
    BY <2>1 DEF CString!Terminated
<1>6. CASE f \in {"strcpy", "strdup"}
  <2>1. TextOf(f, y, n) = s
    BY <1>2, <1>6 DEF TextOf
  <2>2. TextAt(f, y, n, s, e)
    BY <1>1, <1>3, <1>4, <1>5, <1>6 DEF TextAt, StrOf
  <2> QED
    BY <2>1, <2>2
<1>7. CASE f \in {"strncpy", "strndup"}
  <2>1. PICK t : t = CString!Prefix(s, n)
    OBVIOUS
  <2>2. PICK l : PrefixOf(t, s, n, l)
    BY <1>1, <1>4, <2>1, PrefixIs
  <2>3. /\ l \in 0 .. e /\ t \in Seq(Octets) /\ Len(t) = l /\ \A j \in 1 .. l : t[j] = s[j]
        /\ l <= n /\ (l < e => l = n)
    BY <1>4, <2>2 DEF PrefixOf, FirstOf
  <2>4. \A j \in 1 .. l : j \in 1 .. e
    BY <1>4, <2>3
  <2>5. FirstOf(t, y, l) /\ \A j \in 1 .. l : y[j] # 0
    BY <1>1, <1>4, <2>3, <2>4 DEF FirstOf
  <2>6. ASSUME f = "strncpy"  PROVE l <= n /\ (l < n => l < Len(y) /\ y[l + 1] = 0)
    <3>1. l < n => l = e
      BY <1>1, <1>4, <2>3
    <3>2. e < n => e < Len(y)
      BY <1>1, <1>4, <1>5, <2>6 DEF CString!Upto
    <3> QED
      BY <1>1, <1>4, <2>3, <3>1, <3>2
  <2>7. TextAt(f, y, n, t, l)
    BY <1>7, <2>5, <2>6 DEF TextAt
  <2> QED
    BY <1>2, <1>7, <2>1, <2>7 DEF TextOf
<1> QED
  BY <1>6, <1>7 DEF CString!Copies

(* What is to be written is the character of y, and then NUL.              *)
LEMMA PaddedIs ==
  ASSUME NEW f, NEW y, NEW n, NEW t, NEW l, TextAt(f, y, n, t, l), Len(y) \in Nat
  PROVE  /\ l \in Nat /\ Len(t) = l
         /\ \A j \in Nat : /\ j < l => y[j + 1] = Padded(t)[j + 1] /\ y[j + 1] # 0
                           /\ j >= l => Padded(t)[j + 1] = 0
<1>1. l \in Nat /\ Len(t) = l /\ \A j \in 1 .. l : t[j] = y[j] /\ y[j] # 0
  BY DEF TextAt, FirstOf
<1>2. \A j \in Nat : /\ j < l => j + 1 \in 1 .. l /\ j + 1 <= l
                     /\ j >= l => ~(j + 1 <= l)
                     /\ j + 1 \in Nat
  BY <1>1
<1>3. \A j \in Nat : Padded(t)[j + 1] = IF j + 1 <= l THEN t[j + 1] ELSE 0
  BY <1>1, <1>2 DEF Padded
<1> QED
  BY <1>1, <1>2, <1>3

(* The memory a copy goes to.                                              *)
Target(f, x, n, l, o) ==
  /\ o \in Seq(Octets)
  /\ f \in {"strcpy", "strncpy"} => o = x
  /\ f = "strcpy" => Len(o) > l
  /\ f = "strncpy" => Len(o) >= n
  /\ f \in {"strdup", "strndup"} => Len(o) = l + 1

(* d characters have been copied.                                          *)
CopyingTo(f, x, y, n, m, d, k, t, l, o) ==
  /\ t = TextOf(f, y, n) /\ TextAt(f, y, n, t, l) /\ Target(f, x, n, l, o)
  /\ Written(m, o, Padded(t), d)
  /\ f # "strncpy" => d <= l
  /\ f = "strndup" => k = l
  /\ f = "strncpy" => d <= n /\ (k = 1 => d >= l) /\ (k # 1 => d <= l)
Copying(f, x, y, n, m, d, k) == \E t, l, o : CopyingTo(f, x, y, n, m, d, k, t, l, o)

(* All have been, and NULs.                                                *)
CopiedTo(f, x, y, n, m, t, l, o) ==
  /\ t = TextOf(f, y, n) /\ TextAt(f, y, n, t, l) /\ Target(f, x, n, l, o)
  /\ Written(m, o, Padded(t), IF f = "strncpy" THEN n ELSE l + 1)
CopyDone(f, x, y, n, m) == \E t, l, o : CopiedTo(f, x, y, n, m, t, l, o)

(* strcpy, strdup and strndup copy a character or end, within the memory.  *)
LEMMA CopyStep ==
  ASSUME NEW f \in {"strcpy", "strdup", "strndup"}, NEW x, NEW y \in Seq(Octets), NEW n,
         NEW m, NEW d, NEW k, Copying(f, x, y, n, m, d, k),
         NEW m0, Puts(m0, m, d, 0), NEW m2, Puts(m2, m, d, y[d + 1])
  PROVE  /\ d < Len(m)
         /\ f = "strndup" /\ d = k => CopyDone(f, x, y, n, m0)
         /\ ~(f = "strndup" /\ d = k) =>
              /\ d < Len(y)
              /\ f # "strndup" /\ y[d + 1] = 0 => CopyDone(f, x, y, n, m0)
              /\ ~(f # "strndup" /\ y[d + 1] = 0) => Copying(f, x, y, n, m2, d + 1, k)
<1>1. PICK t, l, o : CopyingTo(f, x, y, n, m, d, k, t, l, o)
  BY DEF Copying
<1>2. PICK w : w = Padded(t)
  OBVIOUS
<1>3. Len(y) \in Nat
  BY LenProperties
<1>4. /\ t = TextOf(f, y, n) /\ TextAt(f, y, n, t, l) /\ Target(f, x, n, l, o)
      /\ Written(m, o, w, d) /\ d <= l /\ (f = "strndup" => k = l)
  BY <1>1, <1>2 DEF CopyingTo
<1>5. o \in Seq(Octets) /\ Len(o) \in Nat /\ Len(o) > l
  <2>1. o \in Seq(Octets) /\ (Len(o) > l \/ Len(o) = l + 1)
    BY <1>4 DEF Target
  <2>2. l \in Nat
    BY <1>3, <1>4, PaddedIs
  <2> QED
    BY <2>1, <2>2, LenProperties
<1>6. /\ l \in Nat /\ l <= Len(y) /\ d \in Nat
      /\ \A j \in Nat : /\ j < l => y[j + 1] = w[j + 1] /\ y[j + 1] # 0
                        /\ j >= l => w[j + 1] = 0
      /\ f # "strndup" => l < Len(y) /\ y[l + 1] = 0
  <2>1. d \in Nat
    BY <1>4, <1>5 DEF Written
  <2>2. l <= Len(y) /\ (f # "strndup" => l < Len(y) /\ y[l + 1] = 0)
    BY <1>3, <1>4 DEF TextAt, FirstOf
  <2> QED
    BY <1>2, <1>3, <1>4, <2>1, <2>2, PaddedIs
<1>7. d < Len(m) /\ d < Len(o)
  <2>1. Len(m) = Len(o)
    BY <1>4, <1>5, WrittenLen
  <2> QED
    BY <1>4, <1>5, <1>6, <2>1
<1>8. ASSUME d = l  PROVE CopyDone(f, x, y, n, m0)
  <2>1. w[d + 1] = 0
    BY <1>6, <1>8
  <2>2. Written(m0, o, w, d + 1)
    BY <1>4, <1>5, <1>7, <2>1, WriteOne
  <2>3. CopiedTo(f, x, y, n, m0, t, l, o)
    BY <1>2, <1>4, <1>8, <2>2 DEF CopiedTo
  <2> QED
    BY <2>3 DEF CopyDone
<1>9. ASSUME d < l  PROVE y[d + 1] # 0 /\ Copying(f, x, y, n, m2, d + 1, k)
  <2>1. w[d + 1] = y[d + 1] /\ y[d + 1] # 0
    BY <1>6, <1>9
  <2>2. Written(m2, o, w, d + 1)
    BY <1>4, <1>5, <1>7, <2>1, WriteOne
  <2>3. d + 1 <= l
    BY <1>6, <1>9
  <2>4. CopyingTo(f, x, y, n, m2, d + 1, k, t, l, o)
    BY <1>2, <1>4, <2>2, <2>3 DEF CopyingTo
  <2> QED
    BY <2>1, <2>4 DEF Copying
<1>10. d = l \/ d < l
  BY <1>4, <1>6
<1> QED
  BY <1>3, <1>4, <1>6, <1>7, <1>8, <1>9, <1>10

(* strncpy as well; behind the text it writes NULs.                        *)
LEMMA CopyBoundedStep ==
  ASSUME NEW f \in {"strncpy"}, NEW x, NEW y \in Seq(Octets), NEW n \in Nat,
         NEW m, NEW d, NEW k, Copying(f, x, y, n, m, d, k),
         NEW m0, Puts(m0, m, d, 0), NEW m2, Puts(m2, m, d, y[d + 1])
  PROVE  /\ d \in Nat
         /\ d >= n => CopyDone(f, x, y, n, m)
         /\ ~(d >= n) =>
              /\ d < Len(m)
              /\ k = 1 => Copying(f, x, y, n, m0, d + 1, k)
              /\ k # 1 => /\ d < Len(y)
                          /\ y[d + 1] = 0 => Copying(f, x, y, n, m, d, 1)
                          /\ y[d + 1] # 0 => Copying(f, x, y, n, m2, d + 1, k)
<1>1. PICK t, l, o : CopyingTo(f, x, y, n, m, d, k, t, l, o)
  BY DEF Copying
<1>2. PICK w : w = Padded(t)
  OBVIOUS
<1>3. Len(y) \in Nat
  BY LenProperties
<1>4. /\ t = TextOf(f, y, n) /\ TextAt(f, y, n, t, l) /\ Target(f, x, n, l, o)
      /\ Written(m, o, w, d) /\ d <= n /\ (k = 1 => d >= l) /\ (k # 1 => d <= l)
  BY <1>1, <1>2 DEF CopyingTo
<1>5. o \in Seq(Octets) /\ Len(o) \in Nat /\ Len(o) >= n
  <2>1. o \in Seq(Octets) /\ Len(o) >= n
    BY <1>4 DEF Target
  <2> QED
    BY <2>1, LenProperties
<1>6. /\ l \in Nat /\ l <= Len(y) /\ d \in Nat
      /\ \A j \in Nat : /\ j < l => y[j + 1] = w[j + 1] /\ y[j + 1] # 0
                        /\ j >= l => w[j + 1] = 0
      /\ l <= n /\ (l < n => l < Len(y) /\ y[l + 1] = 0)
  <2>1. d \in Nat
    BY <1>4, <1>5 DEF Written
  <2>2. l <= Len(y) /\ l <= n /\ (l < n => l < Len(y) /\ y[l + 1] = 0)
    BY <1>3, <1>4 DEF TextAt, FirstOf
  <2> QED
    BY <1>2, <1>3, <1>4, <2>1, <2>2, PaddedIs
<1>7. Len(m) = Len(o)
  BY <1>4, <1>5, WrittenLen
<1>8. ASSUME d >= n  PROVE CopyDone(f, x, y, n, m)
  <2>1. d = n
    BY <1>4, <1>6, <1>8
  <2>2. CopiedTo(f, x, y, n, m, t, l, o)
    BY <1>2, <1>4, <2>1 DEF CopiedTo
  <2> QED
    BY <2>2 DEF CopyDone
<1>9. ASSUME ~(d >= n)
      PROVE  d < Len(m) /\ d < Len(o) /\ d + 1 <= n
  BY <1>5, <1>6, <1>7, <1>9
<1>10. ASSUME ~(d >= n), k = 1  PROVE Copying(f, x, y, n, m0, d + 1, k)
  <2>1. w[d + 1] = 0
    BY <1>4, <1>6, <1>10
  <2>2. Written(m0, o, w, d + 1)
    BY <1>4, <1>5, <1>9, <1>10, <2>1, WriteOne
  <2>3. d + 1 >= l
    BY <1>4, <1>6, <1>10
  <2>4. CopyingTo(f, x, y, n, m0, d + 1, k, t, l, o)
    BY <1>2, <1>4, <1>9, <1>10, <2>2, <2>3 DEF CopyingTo
  <2> QED
    BY <2>4 DEF Copying
<1>11. ASSUME ~(d >= n), k # 1
       PROVE  /\ d < Len(y)
              /\ y[d + 1] = 0 => Copying(f, x, y, n, m, d, 1)
              /\ y[d + 1] # 0 => Copying(f, x, y, n, m2, d + 1, k)
  <2>1. d < l \/ (d = l /\ l < n)
    BY <1>4, <1>6, <1>11
  <2>2. CASE d = l /\ l < n
    <3>1. d < Len(y) /\ y[d + 1] = 0
      BY <1>6, <2>2
    <3>2. d >= l
      BY <1>6, <2>2
    <3>3. CopyingTo(f, x, y, n, m, d, 1, t, l, o)
      BY <1>2, <1>4, <3>2 DEF CopyingTo
    <3> QED
      BY <3>1, <3>3 DEF Copying
  <2>3. CASE d < l
    <3>1. d < Len(y) /\ w[d + 1] = y[d + 1] /\ y[d + 1] # 0 /\ d + 1 <= l
      BY <1>3, <1>6, <2>3
    <3>2. Written(m2, o, w, d + 1)
      BY <1>4, <1>5, <1>9, <1>11, <3>1, WriteOne
    <3>3. CopyingTo(f, x, y, n, m2, d + 1, k, t, l, o)
      BY <1>2, <1>4, <1>9, <1>11, <3>1, <3>2 DEF CopyingTo
    <3> QED
      BY <3>1, <3>3 DEF Copying
  <2> QED
    BY <2>1, <2>2, <2>3
<1> QED
  BY <1>6, <1>8, <1>9, <1>10, <1>11

(* What C says of the copy.                                                *)
FilledAs(m, x, t, len) ==
  m = [j \in 1 .. Len(m) |-> IF j <= Len(t) THEN t[j] ELSE IF j <= len THEN 0 ELSE x[j]]
CopyRight(f, x, y, n, m) ==
  /\ f = "strcpy" => FilledAs(m, x, TextOf(f, y, n), Len(TextOf(f, y, n)) + 1)
  /\ f = "strncpy" => FilledAs(m, x, TextOf(f, y, n), n)
  /\ f \in {"strdup", "strndup"} => m = Append(TextOf(f, y, n), 0)

(* The copy is that.                                                       *)
LEMMA CopyDoneRight ==
  ASSUME NEW f, NEW x, NEW y \in Seq(Octets), NEW n \in Nat, NEW m, CopyDone(f, x, y, n, m)
  PROVE  CopyRight(f, x, y, n, m)
<1>1. PICK t, l, o : CopiedTo(f, x, y, n, m, t, l, o)
  BY DEF CopyDone
<1>2. PICK e : e = IF f = "strncpy" THEN n ELSE l + 1
  OBVIOUS
<1>3. /\ t = TextOf(f, y, n) /\ TextAt(f, y, n, t, l) /\ Target(f, x, n, l, o)
      /\ Written(m, o, Padded(t), e)
  BY <1>1, <1>2 DEF CopiedTo
<1>4. l \in Nat /\ Len(t) = l /\ t \in Seq(Octets) /\ (f = "strncpy" => l <= n)
  BY <1>3, LenProperties DEF TextAt, FirstOf
<1>5. e \in Nat /\ l <= e
  BY <1>2, <1>4
<1>6. o \in Seq(Octets)
  BY <1>3 DEF Target
<1>7. Len(m) = Len(o) /\ Len(o) \in Nat
  BY <1>3, <1>6, WrittenLen, LenProperties
<1>8. PICK p : p = Len(o)
  OBVIOUS
<1>9. m = [j \in 1 .. p |-> IF j <= e THEN Padded(t)[j] ELSE o[j]]
  BY <1>3, <1>8 DEF Written
<1>10. \A j \in 1 .. p : (IF j <= e THEN Padded(t)[j] ELSE o[j])
                           = IF j <= l THEN t[j] ELSE IF j <= e THEN 0 ELSE o[j]
  <2>1. \A j \in 1 .. p : Padded(t)[j] = IF j <= l THEN t[j] ELSE 0
    BY <1>4, <1>7, <1>8 DEF Padded
  <2> QED
    BY <1>4, <1>5, <1>7, <1>8, <2>1
<1>11. m = [j \in 1 .. p |-> IF j <= l THEN t[j] ELSE IF j <= e THEN 0 ELSE o[j]]
  BY <1>9, <1>10
<1>12. ASSUME f \in {"strcpy", "strncpy"}  PROVE FilledAs(m, x, t, e)
  <2>1. o = x
    BY <1>3, <1>12 DEF Target
  <2> QED
    BY <1>4, <1>7, <1>8, <1>11, <2>1 DEF FilledAs
<1>13. ASSUME f \in {"strdup", "strndup"}  PROVE m = Append(t, 0)
  <2>1. e = l + 1 /\ p = l + 1
    BY <1>2, <1>3, <1>8, <1>13 DEF Target
  <2>2. PICK q : q = Append(t, 0)
    OBVIOUS
  <2>3. q \in Seq(Octets) /\ Len(q) = l + 1 /\ \A j \in 1 .. (l + 1) : q[j] = IF j <= l THEN t[j] ELSE 0
    <3>1. 0 \in Octets
      BY DEF Octets
    <3> QED
      BY <1>4, <2>2, <3>1, AppendProperties
  <2>4. q = [j \in 1 .. (l + 1) |-> q[j]]
    BY <2>3, LenProperties
  <2>5. \A j \in 1 .. (l + 1) : q[j] = IF j <= l THEN t[j] ELSE IF j <= e THEN 0 ELSE o[j]
    BY <1>4, <2>1, <2>3
  <2>6. q = [j \in 1 .. (l + 1) |-> IF j <= l THEN t[j] ELSE IF j <= e THEN 0 ELSE o[j]]
    BY <2>4, <2>5
  <2> QED
    BY <1>11, <2>1, <2>2, <2>6
<1> QED
  BY <1>2, <1>3, <1>4, <1>12, <1>13 DEF CopyRight

(* strstr goes through the text and has not found the needle.              *)
SearchingIn(x, y, d, k, l, m) ==
  EndedAt(x, l) /\ EndedAt(y, m) /\ d \in 0 .. l /\ (m > 0 => Matched(x, y, m, d, k) /\ k < m)
Searching(x, y, d, k) == \E l, m : SearchingIn(x, y, d, k, l, m)

(* It has found it or not.                                                 *)
SearchDone(x, y, r) == \E m : EndedAt(y, m) /\ FindsRight(x, y, m, r)

(* What the loops have passed.                                             *)
Looping(f, x, y, n, c, m, d, k) ==
  /\ f \in CString!Comparisons => SameTo(f, n, x, y, d)
  /\ f \in {"memchr", "rawmemchr"} => NoByte(f, n, c, x, d)
  /\ f \in {"strlen", "strchr", "strrchr"} => InText(x, d)
  /\ f = "strchr" => LastAt(x, c, d, 0)
  /\ f = "strrchr" => LastAt(x, c, d, k)
  /\ f = "strstr" => Searching(x, y, d, k)
  /\ f = "memset" => Written(m, x, Repeated(c), d) /\ d <= n
  /\ f \in CString!Copies => Copying(f, x, y, n, m, d, k)
  /\ f \notin {"memset"} \cup CString!Copies => m = x

(* Whatever is compared, r is right of it.                                 *)
ComparisonDone(f, x, y, n, r) ==
  \A s, g, t, h : ComparedTo(s, x, f, n, g) /\ ComparedTo(t, y, f, n, h) => ComparesRight(f, s, t, r)

(* What they return and leave.                                             *)
LoopDone(f, x, y, n, c, m, r) ==
  /\ f \in CString!Comparisons => ComparisonDone(f, x, y, n, r)
  /\ f \in {"memchr", "rawmemchr"} => ByteRight(f, n, c, x, r)
  /\ f = "strlen" => r = Len(CString!Str(x))
  /\ f = "strchr" => r = CString!Ends(CharAmong(x, c), TRUE)
  /\ f = "strrchr" => r = CString!Ends(CharAmong(x, c), FALSE)
  /\ f = "strstr" => SearchDone(x, y, r)
  /\ f = "memset" => Written(m, x, Repeated(c), n)
  /\ f \in {"strcpy", "strncpy"} => CopyDone(f, x, y, n, m)
  /\ f \in {"strdup", "strndup"} => r = 0 \/ CopyDone(f, x, y, n, m)
  /\ f \notin {"memset"} \cup CString!Copies => m = x

(* Where a call is.                                                        *)
CallAt(f, x, y, n, c, m, d, k, p, r) ==
  \/ p = "strlen" /\ f \in {"strdup", "strndup"} /\ d = 0 /\ r = 0
  \/ p = "loop" /\ Looping(f, x, y, n, c, m, d, k)
  \/ p = "returned" /\ LoopDone(f, x, y, n, c, m, r)

StringsInv ==
  /\ call \in CString!Calls
  /\ CallAt(call.fn, call.a, call.b, call.n, call.c, array, ci, ck, cpc, ret)

(* The NUL is at the end.                                                  *)
LEMMA EndedIs ==
  ASSUME NEW x \in Seq(Octets), Ended(x)
  PROVE  \E l : EndedAt(x, l)
<1>1. PICK l \in Nat : Len(x) = l + 1 /\ x[l + 1] = 0 /\ \A j \in 1 .. l : x[j] # 0
  BY DEF Ended
<1>2. l \in 0 .. Len(x)
  BY <1>1
<1>3. EndsAt(x, l)
  BY <1>1, <1>2 DEF EndsAt
<1>4. EndedAt(x, l)
  BY <1>1, <1>3 DEF EndedAt
<1> QED
  BY <1>4

(* Nothing has been passed at first.                                       *)
LEMMA LoopBegins ==
  ASSUME NEW f \in StringFunctions \ {"strdup", "strndup"}, NEW x, NEW y, NEW n, NEW c,
         Given(f, x, y, n, c)
  PROVE  Looping(f, x, y, n, c, x, 0, 0)
<1>1. x \in Seq(Octets) /\ y \in Seq(Octets) /\ n \in Nat /\ Len(x) \in Nat /\ Len(y) \in Nat
  BY LenProperties DEF Given
<1>2. SameTo(f, n, x, y, 0)
  BY <1>1 DEF SameTo
<1>3. NoByte(f, n, c, x, 0)
  BY <1>1 DEF NoByte
<1>4. InText(x, 0) /\ LastAt(x, c, 0, 0)
  BY <1>1 DEF InText, LastAt
<1>5. ASSUME f = "strstr"  PROVE Searching(x, y, 0, 0)
  <2>1. Ended(x) /\ Ended(y)
    BY <1>5 DEF Given
  <2>2. PICK l : EndedAt(x, l)
    BY <1>1, <2>1, EndedIs
  <2>3. PICK m : EndedAt(y, m)
    BY <1>1, <2>1, EndedIs
  <2>4. l \in Nat /\ m \in Nat
    BY <2>2, <2>3 DEF EndedAt
  <2>5. Matched(x, y, m, 0, 0)
    BY <2>4 DEF Matched
  <2>6. SearchingIn(x, y, 0, 0, l, m)
    BY <2>2, <2>3, <2>4, <2>5 DEF SearchingIn
  <2> QED
    BY <2>6 DEF Searching
<1>6. Written(x, x, Repeated(c), 0)
  BY <1>1, WrittenNone
<1>7. ASSUME f \in {"strcpy", "strncpy"}  PROVE Copying(f, x, y, n, x, 0, 0)
  <2>1. PICK t : t = TextOf(f, y, n)
    OBVIOUS
  <2>2. PICK l : TextAt(f, y, n, t, l)
    BY <1>7, <2>1, TextIs DEF CString!Copies
  <2>3. l \in Nat /\ Len(t) = l
    BY <1>1, <2>2, PaddedIs
  <2>4. f = "strcpy" => Len(x) > l
    BY <2>1, <2>3 DEF Given, TextOf
  <2>5. f = "strncpy" => Len(x) >= n
    BY DEF Given
  <2>6. Target(f, x, n, l, x)
    BY <1>1, <1>7, <2>4, <2>5 DEF Target
  <2>7. Written(x, x, Padded(t), 0)
    BY <1>1, WrittenNone
  <2>8. CopyingTo(f, x, y, n, x, 0, 0, t, l, x)
    BY <1>1, <1>7, <2>1, <2>2, <2>3, <2>6, <2>7 DEF CopyingTo
  <2> QED
    BY <2>8 DEF Copying
<1>8. f \in CString!Copies => f \in {"strcpy", "strncpy"}
  BY DEF CString!Copies
<1> QED
  BY <1>1, <1>2, <1>3, <1>4, <1>5, <1>6, <1>7, <1>8 DEF Looping

(* strdup copies to memory of malloc's.                                    *)
LEMMA CopyBegins ==
  ASSUME NEW f \in {"strdup", "strndup"}, NEW x, NEW y, NEW n, NEW c, Given(f, x, y, n, c),
         NEW k, k = Len(TextOf(f, y, n)), NEW m, m = [j \in 1 .. (k + 1) |-> CString!Garbage]
  PROVE  Copying(f, x, y, n, m, 0, k)
<1>1. y \in Seq(Octets) /\ n \in Nat /\ Len(y) \in Nat
  BY LenProperties DEF Given
<1>2. PICK t : t = TextOf(f, y, n)
  OBVIOUS
<1>3. PICK l : TextAt(f, y, n, t, l)
  BY <1>2, TextIs DEF CString!Copies
<1>4. l \in Nat /\ k = l
  BY <1>1, <1>2, <1>3, PaddedIs
<1>5. CString!Garbage \in Octets /\ l + 1 \in Nat
  BY <1>4 DEF CString!Garbage, Octets
<1>6. m \in [1 .. (l + 1) -> Octets]
  BY <1>4, <1>5
<1>7. m \in Seq(Octets) /\ Len(m) = l + 1
  <2>1. m \in Seq(Octets)
    BY <1>5, <1>6
  <2>2. DOMAIN m = 1 .. (l + 1)
    BY <1>6
  <2> QED
    BY <1>5, <2>1, <2>2, LenProperties
<1>8. Target(f, x, n, l, m)
  BY <1>7 DEF Target
<1>9. Written(m, m, Padded(t), 0)
  BY <1>7, WrittenNone
<1>10. CopyingTo(f, x, y, n, m, 0, k, t, l, m)
  BY <1>2, <1>3, <1>4, <1>8, <1>9 DEF CopyingTo
<1> QED
  BY <1>10 DEF Copying

(* memset sets one character or is done.                                   *)
LEMMA FillStep ==
  ASSUME NEW x \in Seq(Octets), NEW n \in Nat, Len(x) >= n, NEW c, NEW m, NEW d,
         Written(m, x, Repeated(c), d), d <= n, NEW m2, Puts(m2, m, d, c % 256)
  PROVE  /\ d >= n => Written(m, x, Repeated(c), n)
         /\ ~(d >= n) => d < Len(m) /\ d + 1 <= n /\ Written(m2, x, Repeated(c), d + 1)
<1>1. Len(x) \in Nat
  BY LenProperties
<1>2. d \in Nat
  BY <1>1 DEF Written
<1>3. Len(m) = Len(x)
  BY WrittenLen
<1>4. ASSUME d >= n  PROVE Written(m, x, Repeated(c), n)
  <2>1. d = n
    BY <1>2, <1>4
  <2> QED
    BY <2>1
<1>5. ASSUME ~(d >= n)  PROVE d < Len(m) /\ d + 1 <= n /\ Written(m2, x, Repeated(c), d + 1)
  <2>1. PICK w, e : w = Repeated(c) /\ e = c % 256
    OBVIOUS
  <2>2. w[d + 1] = e
    BY <1>2, <2>1 DEF Repeated
  <2>3. d < Len(x) /\ d < Len(m) /\ d + 1 <= n
    BY <1>1, <1>2, <1>3, <1>5
  <2>4. Written(m2, x, w, d + 1)
    BY <2>1, <2>2, <2>3, WriteOne
  <2> QED
    BY <2>1, <2>3, <2>4
<1> QED
  BY <1>4, <1>5

(* A comparison reads the arrays where they are given, and goes on or      *)
(* returns.                                                                *)
LEMMA CompareStep ==
  ASSUME NEW f \in CString!Comparisons, NEW x, NEW y, NEW n, NEW c, Given(f, x, y, n, c),
         NEW d, SameTo(f, n, x, y, d),
         NEW u, u = OperandOf(f, x[d + 1]), NEW v, v = OperandOf(f, y[d + 1])
  PROVE  /\ d \in Nat
         /\ f \in CString!Bounded /\ d >= n => ComparisonDone(f, x, y, n, 0)
         /\ ~(f \in CString!Bounded /\ d >= n) =>
              /\ d < Len(x) /\ d < Len(y)
              /\ u # v \/ (f # "memcmp" /\ u = 0) => ComparisonDone(f, x, y, n, u - v)
              /\ ~(u # v \/ (f # "memcmp" /\ u = 0)) => SameTo(f, n, x, y, d + 1)
<1>1. /\ x \in Seq(Octets) /\ y \in Seq(Octets) /\ n \in Nat
      /\ Len(x) \in Nat /\ Len(y) \in Nat /\ DOMAIN x = 1 .. Len(x) /\ DOMAIN y = 1 .. Len(y)
      /\ f \in {"strcmp", "strcasecmp"} => CString!Terminated(x) /\ CString!Terminated(y)
      /\ f \in {"strncmp", "strncasecmp"} => CString!Upto(x, n) /\ CString!Upto(y, n)
      /\ f = "memcmp" => Len(x) >= n /\ Len(y) >= n
  BY LenProperties DEF Given
<1>2. /\ d \in Nat /\ d <= Len(x) /\ d <= Len(y) /\ (f \in CString!Bounded => d <= n)
      /\ \A j \in 1 .. d : OperandOf(f, x[j]) = OperandOf(f, y[j])
      /\ f # "memcmp" => \A j \in 1 .. d : x[j] # 0
  BY DEF SameTo
<1>3. \A j \in 1 .. d : x[j] \in Octets /\ y[j] \in Octets
  <2>1. \A j \in 1 .. d : j \in 1 .. Len(x) /\ j \in 1 .. Len(y)
    BY <1>1, <1>2
  <2> QED
    BY <1>1, <2>1
<1>4. f # "memcmp" => \A j \in 1 .. d : y[j] # 0
  <2>1. ASSUME f # "memcmp", NEW j \in 1 .. d  PROVE y[j] # 0
    <3>1. OperandOf(f, x[j]) = Fold(f, x[j]) /\ OperandOf(f, y[j]) = Fold(f, y[j])
      BY <2>1 DEF OperandOf
    <3>2. Fold(f, x[j]) # 0
      BY <1>2, <1>3, <2>1, FoldIs
    <3>3. Fold(f, y[j]) # 0
      BY <1>2, <3>1, <3>2
    <3> QED
      BY <1>3, <3>3, FoldIs
  <2> QED
    BY <2>1
<1>5. ASSUME ~(f \in CString!Bounded /\ d >= n)  PROVE d < Len(x) /\ d < Len(y)
  <2>1. CASE f = "memcmp"
    <3>1. ~(d >= n)
      BY <1>5, <2>1 DEF CString!Bounded
    <3> QED
      BY <1>1, <1>2, <2>1, <3>1
  <2>2. CASE f # "memcmp"
    <3>1. /\ CString!Terminated(x) \/ (Len(x) >= n /\ ~(d >= n))
          /\ CString!Terminated(y) \/ (Len(y) >= n /\ ~(d >= n))
      BY <1>1, <1>5, <2>2 DEF CString!Comparisons, CString!Folding, CString!Bounded, CString!Upto
    <3>2. CString!Terminated(x) => d < Len(x)
      BY <1>1, <1>2, <2>2 DEF CString!Terminated
    <3>3. CString!Terminated(y) => d < Len(y)
      BY <1>1, <1>2, <1>4, <2>2 DEF CString!Terminated
    <3> QED
      BY <1>1, <1>2, <3>1, <3>2, <3>3
  <2> QED
    BY <2>1, <2>2
<1>6. ASSUME NEW r, Compares(f, n, x, y, d, r)  PROVE ComparisonDone(f, x, y, n, r)
  <2>1. ASSUME NEW s, NEW g, ComparedTo(s, x, f, n, g), NEW t, NEW h, ComparedTo(t, y, f, n, h)
        PROVE  ComparesRight(f, s, t, r)
    BY <1>1, <1>6, <2>1, ComparisonRight
  <2> QED
    BY <2>1 DEF ComparisonDone
<1>7. ASSUME f \in CString!Bounded, d >= n  PROVE ComparisonDone(f, x, y, n, 0)
  <2>1. Compares(f, n, x, y, d, 0)
    BY <1>7 DEF Compares
  <2> QED
    BY <1>6, <2>1
<1>8. ASSUME ~(f \in CString!Bounded /\ d >= n), u # v \/ (f # "memcmp" /\ u = 0)
      PROVE  ComparisonDone(f, x, y, n, u - v)
  <2>1. PICK r : r = u - v
    OBVIOUS
  <2>2. Compares(f, n, x, y, d, r)
    BY <1>5, <1>8, <2>1 DEF Compares
  <2> QED
    BY <1>6, <2>1, <2>2
<1>9. ASSUME ~(f \in CString!Bounded /\ d >= n), ~(u # v \/ (f # "memcmp" /\ u = 0))
      PROVE  SameTo(f, n, x, y, d + 1)
  <2>1. d + 1 \in Nat /\ d + 1 <= Len(x) /\ d + 1 <= Len(y) /\ (f \in CString!Bounded => d + 1 <= n)
    BY <1>1, <1>2, <1>5, <1>9
  <2>2. d + 1 \in 1 .. Len(x)
    BY <1>2, <2>1
  <2>3. x[d + 1] \in Octets
    BY <1>1, <2>2
  <2>4. f # "memcmp" => x[d + 1] # 0
    <3>1. f # "memcmp" => Fold(f, x[d + 1]) # 0
      BY <1>9 DEF OperandOf
    <3> QED
      BY <2>3, <3>1, FoldIs
  <2>5. \A j \in 1 .. (d + 1) : j \in 1 .. d \/ j = d + 1
    BY <1>2
  <2>6. \A j \in 1 .. (d + 1) : OperandOf(f, x[j]) = OperandOf(f, y[j])
    BY <1>2, <1>9, <2>5
  <2>7. f # "memcmp" => \A j \in 1 .. (d + 1) : x[j] # 0
    BY <1>2, <2>4, <2>5
  <2> QED
    BY <2>1, <2>6, <2>7 DEF SameTo
<1> QED
  BY <1>2, <1>5, <1>7, <1>8, <1>9

(* The call goes on.                                                       *)
LEMMA CallGoesOn ==
  ASSUME StringsInv, call' = call, NEW f, f = call.fn, NEW x, x = call.a, NEW y, y = call.b,
         NEW n, n = call.n, NEW c, c = call.c,
         CallAt(f, x, y, n, c, array', ci', ck', cpc', ret')
  PROVE  StringsInv'
<1>1. CallAt(f, x, y, n, c, array, ci, ck, cpc, ret)'
  BY Zenon
<1>2. call' \in CString!Calls
  BY DEF StringsInv
<1>3. f = call'.fn /\ x = call'.a /\ y = call'.b /\ n = call'.n /\ c = call'.c
  OBVIOUS
<1> QED
  BY <1>1, <1>2, <1>3, Zenon DEF StringsInv

(* What is known of a call in its loop.                                    *)
LEMMA CallInLoop ==
  ASSUME StringsInv, NEW f, f = call.fn, NEW x, x = call.a, NEW y, y = call.b,
         NEW n, n = call.n, NEW c, c = call.c, NEW m, m = array, NEW d, d = ci, NEW k, k = ck
  PROVE  /\ f \in StringFunctions /\ Given(f, x, y, n, c)
         /\ cpc = "loop" => Looping(f, x, y, n, c, m, d, k)
<1>1. call \in CString!Calls /\ CallAt(f, x, y, n, c, m, d, k, cpc, ret)
  BY Zenon DEF StringsInv
<1>2. f \in StringFunctions /\ Given(f, x, y, n, c)
  BY <1>1, CallsAre
<1>3. cpc = "loop" => Looping(f, x, y, n, c, m, d, k)
  BY <1>1 DEF CallAt
<1> QED
  BY <1>2, <1>3

(* memcmp, strcmp, strncmp, strcasecmp, strncasecmp: an iteration.         *)
LEMMA CompareKeepsInv ==
  ASSUME StringsInv, CString!Compare
  PROVE  StringsInv'
<1>1. PICK f, x, y, n, c, m, d, k :
        /\ f = call.fn /\ x = call.a /\ y = call.b /\ n = call.n /\ c = call.c
        /\ m = array /\ d = ci /\ k = ck
  OBVIOUS
<1>2. cpc = "loop" /\ f \in CString!Comparisons
  BY <1>1 DEF CString!Compare, CString!Running, CString!fn
<1>3. Given(f, x, y, n, c) /\ Looping(f, x, y, n, c, m, d, k)
  BY <1>1, <1>2, CallInLoop
<1>4. /\ f \notin {"memchr", "rawmemchr", "strlen", "strchr", "strrchr", "strstr", "memset"}
      /\ f \notin {"strcpy", "strncpy", "strdup", "strndup"} /\ f \notin CString!Copies
  BY <1>2 DEF CString!Comparisons, CString!Folding, CString!Copies
<1>5. SameTo(f, n, x, y, d) /\ m = x
  BY <1>2, <1>3, <1>4 DEF Looping
<1>6. PICK u, v : u = OperandOf(f, x[d + 1]) /\ v = OperandOf(f, y[d + 1])
  OBVIOUS
<1>7. /\ d \in Nat
      /\ f \in CString!Bounded /\ d >= n => ComparisonDone(f, x, y, n, 0)
      /\ ~(f \in CString!Bounded /\ d >= n) =>
           /\ d < Len(x) /\ d < Len(y)
           /\ u # v \/ (f # "memcmp" /\ u = 0) => ComparisonDone(f, x, y, n, u - v)
           /\ ~(u # v \/ (f # "memcmp" /\ u = 0)) => SameTo(f, n, x, y, d + 1)
  BY <1>2, <1>3, <1>5, <1>6, CompareStep
<1>8. u = CString!Operand(CString!At(array)) /\ v = CString!Operand(CString!At(call.b))
  BY <1>1, <1>5, <1>6 DEF OperandOf, Fold, CString!Operand, CString!At, CString!fn
<1>9. \A r : LoopDone(f, x, y, n, c, m, r) <=> ComparisonDone(f, x, y, n, r)
  BY <1>2, <1>4, <1>5 DEF LoopDone
<1>10. \A e : Looping(f, x, y, n, c, m, e, k) <=> SameTo(f, n, x, y, e)
  BY <1>2, <1>4, <1>5 DEF Looping
<1>11. CASE f \in CString!Bounded /\ d >= n
  <2>1. CString!Return(0)
    BY <1>1, <1>11 DEF CString!Compare, CString!AtLimit, CString!fn
  <2>2. call' = call /\ array' = m /\ cpc' = "returned" /\ ret' = 0
    BY <1>1, <2>1 DEF CString!Return
  <2>3. CallAt(f, x, y, n, c, array', ci', ck', cpc', ret')
    BY <1>7, <1>9, <1>11, <2>2 DEF CallAt
  <2> QED
    BY <1>1, <2>2, <2>3, CallGoesOn
<1>12. CASE ~(f \in CString!Bounded /\ d >= n)
  <2>1. IF u # v \/ (f # "memcmp" /\ u = 0) THEN CString!Return(u - v) ELSE CString!GoOn
    <3>1. CString!Readable(array) /\ CString!Readable(call.b) /\ ~CString!AtLimit
      BY <1>1, <1>5, <1>7, <1>12 DEF CString!Readable, CString!AtLimit, CString!fn
    <3> QED
      BY <1>1, <1>8, <3>1 DEF CString!Compare, CString!fn
  <2>2. CASE u # v \/ (f # "memcmp" /\ u = 0)
    <3>1. call' = call /\ array' = m /\ cpc' = "returned" /\ ret' = u - v
      BY <1>1, <2>1, <2>2 DEF CString!Return
    <3>2. CallAt(f, x, y, n, c, array', ci', ck', cpc', ret')
      BY <1>7, <1>9, <1>12, <2>2, <3>1 DEF CallAt
    <3> QED
      BY <1>1, <3>1, <3>2, CallGoesOn
  <2>3. CASE ~(u # v \/ (f # "memcmp" /\ u = 0))
    <3>1. call' = call /\ array' = m /\ ci' = d + 1 /\ ck' = k /\ cpc' = "loop"
      BY <1>1, <1>2, <2>1, <2>3 DEF CString!GoOn
    <3>2. CallAt(f, x, y, n, c, array', ci', ck', cpc', ret')
      BY <1>7, <1>10, <1>12, <2>3, <3>1 DEF CallAt
    <3> QED
      BY <1>1, <3>1, <3>2, CallGoesOn
  <2> QED
    BY <2>2, <2>3
<1> QED
  BY <1>11, <1>12

(* memchr, rawmemchr: an iteration.                                        *)
LEMMA FindByteKeepsInv ==
  ASSUME StringsInv, CString!FindByte
  PROVE  StringsInv'
<1>1. PICK f, x, y, n, c, m, d, k :
        /\ f = call.fn /\ x = call.a /\ y = call.b /\ n = call.n /\ c = call.c
        /\ m = array /\ d = ci /\ k = ck
  OBVIOUS
<1>2. cpc = "loop" /\ f \in {"memchr", "rawmemchr"}
  BY <1>1 DEF CString!FindByte, CString!Running, CString!fn
<1>3. Given(f, x, y, n, c) /\ Looping(f, x, y, n, c, m, d, k)
  BY <1>1, <1>2, CallInLoop
<1>4. f \notin CString!Comparisons /\ f \notin CString!Copies
  BY <1>2 DEF CString!Comparisons, CString!Folding, CString!Copies
<1>5. NoByte(f, n, c, x, d) /\ m = x
  BY <1>2, <1>3, <1>4 DEF Looping
<1>6. /\ f \in CString!Bounded /\ d >= n => ByteRight(f, n, c, x, 0)
      /\ ~(f \in CString!Bounded /\ d >= n) =>
           /\ d < Len(x)
           /\ x[d + 1] = c % 256 => ByteRight(f, n, c, x, d + 1)
           /\ x[d + 1] # c % 256 => NoByte(f, n, c, x, d + 1)
  BY <1>2, <1>3, <1>5, ByteStep
<1>7. \A r : LoopDone(f, x, y, n, c, m, r) <=> ByteRight(f, n, c, x, r)
  BY <1>2, <1>4, <1>5 DEF LoopDone
<1>8. \A e : Looping(f, x, y, n, c, m, e, k) <=> NoByte(f, n, c, x, e)
  BY <1>2, <1>4, <1>5 DEF Looping
<1>9. CASE f \in CString!Bounded /\ d >= n
  <2>1. CString!Return(0)
    BY <1>1, <1>9 DEF CString!FindByte, CString!AtLimit, CString!fn, CString!NULL
  <2>2. call' = call /\ array' = m /\ cpc' = "returned" /\ ret' = 0
    BY <1>1, <2>1 DEF CString!Return
  <2>3. CallAt(f, x, y, n, c, array', ci', ck', cpc', ret')
    BY <1>6, <1>7, <1>9, <2>2 DEF CallAt
  <2> QED
    BY <1>1, <2>2, <2>3, CallGoesOn
<1>10. CASE ~(f \in CString!Bounded /\ d >= n)
  <2>1. IF x[d + 1] = c % 256 THEN CString!Return(d + 1) ELSE CString!GoOn
    <3>1. CString!Readable(array) /\ ~CString!AtLimit
      BY <1>1, <1>5, <1>6, <1>10 DEF CString!Readable, CString!AtLimit, CString!fn
    <3> QED
      BY <1>1, <1>5, <3>1 DEF CString!FindByte, CString!At
  <2>2. CASE x[d + 1] = c % 256
    <3>1. call' = call /\ array' = m /\ cpc' = "returned" /\ ret' = d + 1
      BY <1>1, <2>1, <2>2 DEF CString!Return
    <3>2. CallAt(f, x, y, n, c, array', ci', ck', cpc', ret')
      BY <1>6, <1>7, <1>10, <2>2, <3>1 DEF CallAt
    <3> QED
      BY <1>1, <3>1, <3>2, CallGoesOn
  <2>3. CASE x[d + 1] # c % 256
    <3>1. call' = call /\ array' = m /\ ci' = d + 1 /\ ck' = k /\ cpc' = "loop"
      BY <1>1, <1>2, <2>1, <2>3 DEF CString!GoOn
    <3>2. CallAt(f, x, y, n, c, array', ci', ck', cpc', ret')
      BY <1>6, <1>8, <1>10, <2>3, <3>1 DEF CallAt
    <3> QED
      BY <1>1, <3>1, <3>2, CallGoesOn
  <2> QED
    BY <2>2, <2>3
<1> QED
  BY <1>9, <1>10

(* strlen: an iteration.                                                   *)
LEMMA StrlenKeepsInv ==
  ASSUME StringsInv, CString!Strlen
  PROVE  StringsInv'
<1>1. PICK f, x, y, n, c, m, d, k :
        /\ f = call.fn /\ x = call.a /\ y = call.b /\ n = call.n /\ c = call.c
        /\ m = array /\ d = ci /\ k = ck
  OBVIOUS
<1>2. cpc = "loop" /\ f = "strlen"
  BY <1>1 DEF CString!Strlen, CString!Running, CString!fn
<1>3. Given(f, x, y, n, c) /\ Looping(f, x, y, n, c, m, d, k)
  BY <1>1, <1>2, CallInLoop
<1>4. f \notin CString!Comparisons /\ f \notin CString!Copies
  BY <1>2 DEF CString!Comparisons, CString!Folding, CString!Copies
<1>5. InText(x, d) /\ m = x /\ x \in Seq(Octets) /\ CString!Terminated(x)
  BY <1>2, <1>3, <1>4 DEF Looping, Given
<1>6. /\ d < Len(x)
      /\ x[d + 1] = 0 => d = Len(CString!Str(x))
      /\ x[d + 1] # 0 => InText(x, d + 1)
  BY <1>5, InTextOn, LengthTold
<1>7. IF x[d + 1] = 0 THEN CString!Return(d) ELSE CString!GoOn
  <2>1. CString!Readable(array)
    BY <1>1, <1>5, <1>6 DEF CString!Readable
  <2> QED
    BY <1>1, <1>5, <2>1 DEF CString!Strlen, CString!At
<1>8. CASE x[d + 1] = 0
  <2>1. call' = call /\ array' = m /\ cpc' = "returned" /\ ret' = d
    BY <1>1, <1>7, <1>8 DEF CString!Return
  <2>2. LoopDone(f, x, y, n, c, m, d)
    BY <1>2, <1>4, <1>5, <1>6, <1>8 DEF LoopDone
  <2>3. CallAt(f, x, y, n, c, array', ci', ck', cpc', ret')
    BY <2>1, <2>2 DEF CallAt
  <2> QED
    BY <1>1, <2>1, <2>3, CallGoesOn
<1>9. CASE x[d + 1] # 0
  <2>1. call' = call /\ array' = m /\ ci' = d + 1 /\ ck' = k /\ cpc' = "loop"
    BY <1>1, <1>2, <1>7, <1>9 DEF CString!GoOn
  <2>2. Looping(f, x, y, n, c, m, d + 1, k)
    BY <1>2, <1>4, <1>5, <1>6, <1>9 DEF Looping
  <2>3. CallAt(f, x, y, n, c, array', ci', ck', cpc', ret')
    BY <2>1, <2>2 DEF CallAt
  <2> QED
    BY <1>1, <2>1, <2>3, CallGoesOn
<1> QED
  BY <1>8, <1>9

(* Another character, that is c or not.                                    *)
LEMMA LastStep ==
  ASSUME NEW x, NEW c, NEW d \in Nat, NEW e, LastAt(x, c, d, e)
  PROVE  /\ CString!Signed(x[d + 1]) = c => LastAt(x, c, d + 1, d + 1)
         /\ CString!Signed(x[d + 1]) # c => LastAt(x, c, d + 1, e)
<1>1. /\ e \in 0 .. d /\ (e # 0 => CString!Signed(x[e]) = c)
      /\ \A j \in (e + 1) .. d : CString!Signed(x[j]) # c
  BY DEF LastAt
<1>2. ASSUME CString!Signed(x[d + 1]) = c  PROVE LastAt(x, c, d + 1, d + 1)
  <2>1. d + 1 \in 0 .. (d + 1) /\ \A j \in ((d + 1) + 1) .. (d + 1) : FALSE
    OBVIOUS
  <2> QED
    BY <1>2, <2>1 DEF LastAt
<1>3. ASSUME CString!Signed(x[d + 1]) # c  PROVE LastAt(x, c, d + 1, e)
  <2>1. e \in 0 .. (d + 1) /\ \A j \in (e + 1) .. (d + 1) : j \in (e + 1) .. d \/ j = d + 1
    BY <1>1
  <2> QED
    BY <1>1, <1>3, <2>1 DEF LastAt
<1> QED
  BY <1>2, <1>3

(* strchr: an iteration.                                                   *)
LEMMA StrchrKeepsInv ==
  ASSUME StringsInv, CString!Strchr
  PROVE  StringsInv'
<1>1. PICK f, x, y, n, c, m, d, k :
        /\ f = call.fn /\ x = call.a /\ y = call.b /\ n = call.n /\ c = call.c
        /\ m = array /\ d = ci /\ k = ck
  OBVIOUS
<1>2. cpc = "loop" /\ f = "strchr"
  BY <1>1 DEF CString!Strchr, CString!Running, CString!fn
<1>3. Given(f, x, y, n, c) /\ Looping(f, x, y, n, c, m, d, k)
  BY <1>1, <1>2, CallInLoop
<1>4. f \notin CString!Comparisons /\ f \notin CString!Copies
  BY <1>2 DEF CString!Comparisons, CString!Folding, CString!Copies
<1>5. /\ InText(x, d) /\ LastAt(x, c, d, 0) /\ m = x /\ x \in Seq(Octets)
      /\ CString!Terminated(x) /\ d \in Nat
  BY <1>2, <1>3, <1>4 DEF Looping, Given, InText
<1>6. /\ d < Len(x) /\ (x[d + 1] # 0 => InText(x, d + 1))
      /\ x[d + 1] = 0 => 0 = CString!Ends(CharAmong(x, c), TRUE)
      /\ x[d + 1] # 0 /\ CString!Signed(x[d + 1]) = c
           => d + 1 = CString!Ends(CharAmong(x, c), TRUE)
      /\ CString!Signed(x[d + 1]) # c => LastAt(x, c, d + 1, 0)
  <2>1. d < Len(x) /\ (x[d + 1] # 0 => InText(x, d + 1))
    BY <1>5, InTextOn
  <2>2. ASSUME x[d + 1] = 0  PROVE 0 = CString!Ends(CharAmong(x, c), TRUE)
    BY <1>5, <2>2, LastTold
  <2>3. ASSUME x[d + 1] # 0, CString!Signed(x[d + 1]) = c
        PROVE  d + 1 = CString!Ends(CharAmong(x, c), TRUE)
    BY <1>5, <2>3, FirstTold
  <2>4. CString!Signed(x[d + 1]) # c => LastAt(x, c, d + 1, 0)
    BY <1>5, LastStep
  <2> QED
    BY <2>1, <2>2, <2>3, <2>4
<1>7. IF x[d + 1] = 0 THEN CString!Return(0)
      ELSE IF CString!Signed(x[d + 1]) = c THEN CString!Return(d + 1) ELSE CString!GoOn
  <2>1. CString!Readable(array)
    BY <1>1, <1>5, <1>6 DEF CString!Readable
  <2> QED
    BY <1>1, <1>5, <2>1 DEF CString!Strchr, CString!At, CString!NULL
<1>8. ASSUME NEW r, CString!Return(r), r = CString!Ends(CharAmong(x, c), TRUE)
      PROVE  StringsInv'
  <2>1. call' = call /\ array' = m /\ cpc' = "returned" /\ ret' = r
    BY <1>1, <1>8 DEF CString!Return
  <2>2. LoopDone(f, x, y, n, c, m, r)
    BY <1>2, <1>4, <1>5, <1>8 DEF LoopDone
  <2>3. CallAt(f, x, y, n, c, array', ci', ck', cpc', ret')
    BY <2>1, <2>2 DEF CallAt
  <2> QED
    BY <1>1, <2>1, <2>3, CallGoesOn
<1>9. ASSUME x[d + 1] # 0, CString!Signed(x[d + 1]) # c  PROVE StringsInv'
  <2>1. call' = call /\ array' = m /\ ci' = d + 1 /\ ck' = k /\ cpc' = "loop"
    BY <1>1, <1>2, <1>7, <1>9 DEF CString!GoOn
  <2>2. Looping(f, x, y, n, c, m, d + 1, k)
    BY <1>2, <1>4, <1>5, <1>6, <1>9 DEF Looping
  <2>3. CallAt(f, x, y, n, c, array', ci', ck', cpc', ret')
    BY <2>1, <2>2 DEF CallAt
  <2> QED
    BY <1>1, <2>1, <2>3, CallGoesOn
<1> QED
  BY <1>6, <1>7, <1>8, <1>9

(* strrchr: an iteration.                                                  *)
LEMMA StrrchrKeepsInv ==
  ASSUME StringsInv, CString!Strrchr
  PROVE  StringsInv'
<1>1. PICK f, x, y, n, c, m, d, k :
        /\ f = call.fn /\ x = call.a /\ y = call.b /\ n = call.n /\ c = call.c
        /\ m = array /\ d = ci /\ k = ck
  OBVIOUS
<1>2. cpc = "loop" /\ f = "strrchr"
  BY <1>1 DEF CString!Strrchr, CString!Running, CString!fn
<1>3. Given(f, x, y, n, c) /\ Looping(f, x, y, n, c, m, d, k)
  BY <1>1, <1>2, CallInLoop
<1>4. f \notin CString!Comparisons /\ f \notin CString!Copies
  BY <1>2 DEF CString!Comparisons, CString!Folding, CString!Copies
<1>5. /\ InText(x, d) /\ LastAt(x, c, d, k) /\ m = x /\ x \in Seq(Octets)
      /\ CString!Terminated(x) /\ d \in Nat
  BY <1>2, <1>3, <1>4 DEF Looping, Given, InText
<1>6. /\ d < Len(x) /\ (x[d + 1] # 0 => InText(x, d + 1))
      /\ x[d + 1] = 0 => k = CString!Ends(CharAmong(x, c), FALSE)
      /\ CString!Signed(x[d + 1]) = c => LastAt(x, c, d + 1, d + 1)
      /\ CString!Signed(x[d + 1]) # c => LastAt(x, c, d + 1, k)
  BY <1>5, InTextOn, LastTold, LastStep
<1>7. IF x[d + 1] = 0 THEN CString!Return(k)
      ELSE /\ ck' = IF CString!Signed(x[d + 1]) = c THEN d + 1 ELSE k
           /\ ci' = d + 1 /\ UNCHANGED <<call, array, cpc, ret>>
  <2>1. CString!Readable(array)
    BY <1>1, <1>5, <1>6 DEF CString!Readable
  <2> QED
    BY <1>1, <1>5, <2>1 DEF CString!Strrchr, CString!At
<1>8. CASE x[d + 1] = 0
  <2>1. call' = call /\ array' = m /\ cpc' = "returned" /\ ret' = k
    BY <1>1, <1>7, <1>8 DEF CString!Return
  <2>2. LoopDone(f, x, y, n, c, m, k)
    BY <1>2, <1>4, <1>5, <1>6, <1>8 DEF LoopDone
  <2>3. CallAt(f, x, y, n, c, array', ci', ck', cpc', ret')
    BY <2>1, <2>2 DEF CallAt
  <2> QED
    BY <1>1, <2>1, <2>3, CallGoesOn
<1>9. CASE x[d + 1] # 0
  <2>1. PICK e : e = IF CString!Signed(x[d + 1]) = c THEN d + 1 ELSE k
    OBVIOUS
  <2>2. call' = call /\ array' = m /\ ci' = d + 1 /\ ck' = e /\ cpc' = "loop"
    BY <1>1, <1>2, <1>7, <1>9, <2>1
  <2>3. LastAt(x, c, d + 1, e)
    BY <1>6, <2>1
  <2>4. Looping(f, x, y, n, c, m, d + 1, e)
    BY <1>2, <1>4, <1>5, <1>6, <1>9, <2>3 DEF Looping
  <2>5. CallAt(f, x, y, n, c, array', ci', ck', cpc', ret')
    BY <2>2, <2>4 DEF CallAt
  <2> QED
    BY <1>1, <2>2, <2>5, CallGoesOn
<1> QED
  BY <1>8, <1>9

(* strstr finds the needle, or that it is not there, or goes on.           *)
LEMMA SearchStep ==
  ASSUME NEW x, NEW y, NEW d, NEW k, Searching(x, y, d, k),
         NEW from, from = (IF x[d + 1] # y[k + 1] THEN 0 ELSE k),
         NEW k2, k2 = (IF x[d + 1] = y[from + 1] THEN from + 1 ELSE from)
  PROVE  /\ y[1] = 0 => SearchDone(x, y, 1)
         /\ y[1] # 0 =>
              /\ d < Len(x)
              /\ x[d + 1] = 0 => SearchDone(x, y, 0)
              /\ x[d + 1] # 0 =>
                   /\ k2 > 0 /\ y[k2 + 1] = 0 => SearchDone(x, y, (d - k2) + 2)
                   /\ ~(k2 > 0 /\ y[k2 + 1] = 0) => Searching(x, y, d + 1, k2)
<1>1. PICK l, m : SearchingIn(x, y, d, k, l, m)
  BY DEF Searching
<1>2. EndedAt(x, l) /\ EndedAt(y, m) /\ d \in 0 .. l /\ (m > 0 => Matched(x, y, m, d, k) /\ k < m)
  BY <1>1 DEF SearchingIn
<1>3. /\ l \in Nat /\ m \in Nat /\ Len(x) = l + 1 /\ Len(y) = m + 1 /\ d \in Nat /\ d <= l
      /\ x[l + 1] = 0 /\ y[m + 1] = 0
      /\ \A j \in 1 .. l : x[j] # 0
  BY <1>2 DEF EndedAt, EndsAt
<1>4. \A j \in 1 .. m : y[j] # 0
  BY <1>2 DEF EndedAt, EndsAt
<1>5. y[1] = 0 <=> m = 0
  BY <1>3, <1>4
<1>6. ASSUME m = 0  PROVE SearchDone(x, y, 1)
  <2>1. EndedAt(y, 0)
    BY <1>2, <1>6
  <2>2. FindsRight(x, y, 0, 1)
    BY <1>2, <2>1, NothingFound
  <2> QED
    BY <2>1, <2>2 DEF SearchDone
<1>7. x[d + 1] = 0 <=> d = l
  BY <1>2, <1>3 DEF EndedAt, EndsAt
<1>8. ASSUME m > 0, d = l  PROVE SearchDone(x, y, 0)
  <2>1. FindsRight(x, y, m, 0)
    BY <1>2, <1>8, NoMatch
  <2> QED
    BY <1>2, <2>1 DEF SearchDone
<1>9. ASSUME m > 0, d # l
      PROVE  /\ k2 > 0 /\ y[k2 + 1] = 0 => SearchDone(x, y, (d - k2) + 2)
             /\ ~(k2 > 0 /\ y[k2 + 1] = 0) => Searching(x, y, d + 1, k2)
  <2>1. PICK c : c = x[d + 1]
    OBVIOUS
  <2>2. from = (IF c # y[k + 1] THEN 0 ELSE k) /\ k2 = (IF c = y[from + 1] THEN from + 1 ELSE from)
    BY <2>1
  <2>3. PICK e : e = d + 1
    OBVIOUS
  <2>4. Matched(x, y, m, d + 1, k2)
    <3>1. m \in Nat /\ m > 0 /\ d \in Nat /\ Matched(x, y, m, d, k) /\ k < m
      BY <1>2, <1>3, <1>9
    <3> QED
      BY <2>1, <2>2, <3>1, MatchStep
  <2>5. k2 \in Nat /\ k2 <= m /\ e \in 0 .. l /\ Matched(x, y, m, e, k2)
    BY <1>3, <1>9, <2>3, <2>4 DEF Matched
  <2>6. y[k2 + 1] = 0 <=> k2 = m
    BY <1>3, <1>4, <2>5
  <2>7. ASSUME k2 = m  PROVE SearchDone(x, y, (d - k2) + 2)
    <3>1. FindsRight(x, y, m, (e - m) + 1)
      BY <1>2, <1>9, <2>5, <2>7, WholeMatch
    <3>2. (e - m) + 1 = (d - k2) + 2
      BY <1>3, <2>3, <2>7
    <3> QED
      BY <1>2, <3>1, <3>2 DEF SearchDone
  <2>8. ASSUME k2 # m  PROVE Searching(x, y, d + 1, k2)
    <3>1. k2 < m
      BY <1>3, <2>5, <2>8
    <3>2. SearchingIn(x, y, e, k2, l, m)
      BY <1>2, <2>5, <3>1 DEF SearchingIn
    <3> QED
      BY <2>3, <3>2 DEF Searching
  <2> QED
    BY <1>3, <1>9, <2>5, <2>6, <2>7, <2>8
<1>10. m > 0 \/ m = 0
  BY <1>3
<1> QED
  BY <1>3, <1>5, <1>6, <1>7, <1>8, <1>9, <1>10

(* strstr: an iteration.                                                   *)
LEMMA StrstrKeepsInv ==
  ASSUME StringsInv, CString!Strstr
  PROVE  StringsInv'
<1>1. PICK f, x, y, n, c, m, d, k :
        /\ f = call.fn /\ x = call.a /\ y = call.b /\ n = call.n /\ c = call.c
        /\ m = array /\ d = ci /\ k = ck
  OBVIOUS
<1>2. cpc = "loop" /\ f = "strstr"
  BY <1>1 DEF CString!Strstr, CString!Running, CString!fn
<1>3. Given(f, x, y, n, c) /\ Looping(f, x, y, n, c, m, d, k)
  BY <1>1, <1>2, CallInLoop
<1>4. f \notin CString!Comparisons /\ f \notin CString!Copies
  BY <1>2 DEF CString!Comparisons, CString!Folding, CString!Copies
<1>5. Searching(x, y, d, k) /\ m = x
  BY <1>2, <1>3, <1>4 DEF Looping
<1>6. PICK from : from = IF x[d + 1] # y[k + 1] THEN 0 ELSE k
  OBVIOUS
<1>7. PICK k2 : k2 = IF x[d + 1] = y[from + 1] THEN from + 1 ELSE from
  OBVIOUS
<1>8. /\ y[1] = 0 => SearchDone(x, y, 1)
      /\ y[1] # 0 =>
           /\ d < Len(x)
           /\ x[d + 1] = 0 => SearchDone(x, y, 0)
           /\ x[d + 1] # 0 =>
                /\ k2 > 0 /\ y[k2 + 1] = 0 => SearchDone(x, y, (d - k2) + 2)
                /\ ~(k2 > 0 /\ y[k2 + 1] = 0) => Searching(x, y, d + 1, k2)
  BY <1>5, <1>6, <1>7, SearchStep
<1>9. /\ y[1] = 0 => CString!Return(1)
      /\ y[1] # 0 =>
           /\ x[d + 1] = 0 => CString!Return(0)
           /\ x[d + 1] # 0 =>
                /\ k2 > 0 /\ y[k2 + 1] = 0 => CString!Return((d - k2) + 2)
                /\ ~(k2 > 0 /\ y[k2 + 1] = 0) =>
                     ck' = k2 /\ ci' = d + 1 /\ UNCHANGED <<call, array, cpc, ret>>
  <2>1. y[1] # 0 => CString!Readable(array)
    BY <1>1, <1>5, <1>8 DEF CString!Readable
  <2> QED
    BY <1>1, <1>5, <1>6, <1>7, <2>1 DEF CString!Strstr, CString!At, CString!NULL
<1>10. ASSUME NEW r, CString!Return(r), SearchDone(x, y, r)
       PROVE  StringsInv'
  <2>1. call' = call /\ array' = m /\ cpc' = "returned" /\ ret' = r
    BY <1>1, <1>10 DEF CString!Return
  <2>2. LoopDone(f, x, y, n, c, m, r)
    BY <1>2, <1>4, <1>5, <1>10 DEF LoopDone
  <2>3. CallAt(f, x, y, n, c, array', ci', ck', cpc', ret')
    BY <2>1, <2>2 DEF CallAt
  <2> QED
    BY <1>1, <2>1, <2>3, CallGoesOn
<1>11. ASSUME y[1] # 0, x[d + 1] # 0, ~(k2 > 0 /\ y[k2 + 1] = 0)
       PROVE  StringsInv'
  <2>1. call' = call /\ array' = m /\ ci' = d + 1 /\ ck' = k2 /\ cpc' = "loop"
    BY <1>1, <1>2, <1>9, <1>11
  <2>2. Searching(x, y, d + 1, k2)
    BY <1>8, <1>11
  <2>3. Looping(f, x, y, n, c, m, d + 1, k2)
    BY <1>2, <1>4, <1>5, <2>2 DEF Looping
  <2>4. CallAt(f, x, y, n, c, array', ci', ck', cpc', ret')
    BY <2>1, <2>3 DEF CallAt
  <2> QED
    BY <1>1, <2>1, <2>4, CallGoesOn
<1> QED
  BY <1>8, <1>9, <1>10, <1>11

(* memset: an iteration.                                                   *)
LEMMA MemsetKeepsInv ==
  ASSUME StringsInv, CString!Memset
  PROVE  StringsInv'
<1>1. PICK f, x, y, n, c, m, d, k :
        /\ f = call.fn /\ x = call.a /\ y = call.b /\ n = call.n /\ c = call.c
        /\ m = array /\ d = ci /\ k = ck
  OBVIOUS
<1>2. cpc = "loop" /\ f = "memset"
  BY <1>1 DEF CString!Memset, CString!Running, CString!fn
<1>3. Given(f, x, y, n, c) /\ Looping(f, x, y, n, c, m, d, k)
  BY <1>1, <1>2, CallInLoop
<1>4. f \notin CString!Comparisons /\ f \notin CString!Copies /\ f \in CString!Bounded
  BY <1>2 DEF CString!Comparisons, CString!Folding, CString!Copies, CString!Bounded
<1>5. /\ Written(m, x, Repeated(c), d) /\ d <= n
      /\ x \in Seq(Octets) /\ n \in Nat /\ Len(x) >= n
  BY <1>2, <1>3 DEF Looping, Given
<1>6. PICK m2 : Puts(m2, m, d, c % 256)
  BY DEF Puts
<1>7. /\ d >= n => Written(m, x, Repeated(c), n)
      /\ ~(d >= n) => d < Len(m) /\ d + 1 <= n /\ Written(m2, x, Repeated(c), d + 1)
  BY <1>5, <1>6, FillStep
<1>8. CASE d >= n
  <2>1. CString!Return(1)
    BY <1>1, <1>4, <1>8 DEF CString!Memset, CString!AtLimit, CString!fn
  <2>2. call' = call /\ array' = m /\ cpc' = "returned" /\ ret' = 1
    BY <1>1, <2>1 DEF CString!Return
  <2>3. LoopDone(f, x, y, n, c, m, 1)
    BY <1>2, <1>4, <1>7, <1>8 DEF LoopDone
  <2>4. CallAt(f, x, y, n, c, array', ci', ck', cpc', ret')
    BY <2>2, <2>3 DEF CallAt
  <2> QED
    BY <1>1, <2>2, <2>4, CallGoesOn
<1>9. CASE ~(d >= n)
  <2>1. CString!Put(c % 256)
    BY <1>1, <1>9 DEF CString!Memset, CString!AtLimit, CString!fn
  <2>2. call' = call /\ array' = m2 /\ ci' = d + 1 /\ ck' = k /\ cpc' = "loop"
    BY <1>1, <1>2, <1>6, <1>7, <1>9, <2>1 DEF CString!Put, Puts
  <2>3. Looping(f, x, y, n, c, m2, d + 1, k)
    BY <1>2, <1>4, <1>7, <1>9 DEF Looping
  <2>4. CallAt(f, x, y, n, c, array', ci', ck', cpc', ret')
    BY <2>2, <2>3 DEF CallAt
  <2> QED
    BY <1>1, <2>2, <2>4, CallGoesOn
<1> QED
  BY <1>8, <1>9

(* strdup and strndup keep as many characters as the text has.             *)
LEMMA KeptIs ==
  ASSUME NEW f \in {"strdup", "strndup"}, NEW y \in Seq(Octets), NEW n \in Nat,
         NEW len, len = Len(CString!Str(y)),
         NEW k, k = (IF f = "strndup" /\ n < len THEN n ELSE len)
  PROVE  k = Len(TextOf(f, y, n))
<1>1. PICK s : s = CString!Str(y)
  OBVIOUS
<1>2. s \in Seq(Octets) /\ len \in Nat /\ len = Len(s)
  <2>1. PICK l : StrOf(s, y, l)
    BY <1>1, StrIs
  <2> QED
    BY <1>1, <2>1, LenProperties DEF StrOf, FirstOf
<1>3. CASE f = "strdup"
  BY <1>1, <1>2, <1>3 DEF TextOf
<1>4. CASE f = "strndup"
  <2>1. PICK t : t = CString!Prefix(s, n)
    OBVIOUS
  <2>2. PICK l : PrefixOf(t, s, n, l)
    BY <1>2, <2>1, PrefixIs
  <2>3. Len(t) = l /\ l \in 0 .. len /\ l <= n /\ (l < len => l = n)
    BY <1>2, <2>2 DEF PrefixOf, FirstOf
  <2>4. l = k
    BY <1>2, <1>4, <2>3
  <2>5. TextOf(f, y, n) = t
    BY <1>1, <1>4, <2>1 DEF TextOf
  <2> QED
    BY <2>3, <2>4, <2>5
<1> QED
  BY <1>3, <1>4

(* strdup, strndup: malloc, that may fail.                                 *)
LEMMA DuplicateKeepsInv ==
  ASSUME StringsInv, CString!Duplicate
  PROVE  StringsInv'
<1>1. PICK f, x, y, n, c, m, d :
        /\ f = call.fn /\ x = call.a /\ y = call.b /\ n = call.n /\ c = call.c
        /\ m = array' /\ d = ci
  OBVIOUS
<1>2. f \in {"strdup", "strndup"} /\ d = 0 /\ ret = 0
  <2>1. cpc = "strlen"
    BY DEF CString!Duplicate
  <2>2. CallAt(call.fn, call.a, call.b, call.n, call.c, array, ci, ck, cpc, ret)
    BY DEF StringsInv
  <2> QED
    BY <1>1, <2>1, <2>2 DEF CallAt
<1>3. Given(f, x, y, n, c)
  BY <1>1, CallInLoop
<1>4. y \in Seq(Octets) /\ n \in Nat
  BY <1>3 DEF Given
<1>5. PICK len : len = Len(CString!Str(y))
  OBVIOUS
<1>6. PICK k : k = IF f = "strndup" /\ n < len THEN n ELSE len
  OBVIOUS
<1>7. k = Len(TextOf(f, y, n))
  BY <1>2, <1>4, <1>5, <1>6, KeptIs
<1>8. /\ call' = call /\ ck' = k /\ ci' = 0 /\ ret' = 0
      /\ \/ cpc' = "returned"
         \/ cpc' = "loop" /\ m = [j \in 1 .. (k + 1) |-> CString!Garbage]
  BY <1>1, <1>2, <1>5, <1>6 DEF CString!Duplicate, CString!fn
<1>9. f \notin CString!Comparisons /\ f \in CString!Copies
  BY <1>2 DEF CString!Comparisons, CString!Folding, CString!Copies
<1>10. CASE cpc' = "returned"
  <2>1. LoopDone(f, x, y, n, c, m, 0)
    BY <1>2, <1>9 DEF LoopDone
  <2>2. CallAt(f, x, y, n, c, array', ci', ck', cpc', ret')
    BY <1>1, <1>8, <1>10, <2>1 DEF CallAt
  <2> QED
    BY <1>1, <1>8, <2>2, CallGoesOn
<1>11. CASE cpc' = "loop" /\ m = [j \in 1 .. (k + 1) |-> CString!Garbage]
  <2>1. Copying(f, x, y, n, m, 0, k)
    BY <1>2, <1>3, <1>7, <1>11, CopyBegins
  <2>2. Looping(f, x, y, n, c, m, 0, k)
    BY <1>2, <1>9, <2>1 DEF Looping
  <2>3. CallAt(f, x, y, n, c, array', ci', ck', cpc', ret')
    BY <1>1, <1>8, <1>11, <2>2 DEF CallAt
  <2> QED
    BY <1>1, <1>8, <2>3, CallGoesOn
<1> QED
  BY <1>8, <1>10, <1>11

(* strcpy, strdup, strndup: an iteration.                                  *)
LEMMA StrcpyKeepsInv ==
  ASSUME StringsInv, CString!Strcpy
  PROVE  StringsInv'
<1>1. PICK f, x, y, n, c, m, d, k :
        /\ f = call.fn /\ x = call.a /\ y = call.b /\ n = call.n /\ c = call.c
        /\ m = array /\ d = ci /\ k = ck
  OBVIOUS
<1>2. cpc = "loop" /\ f \in {"strcpy", "strdup", "strndup"}
  BY <1>1 DEF CString!Strcpy, CString!Running, CString!fn
<1>3. Given(f, x, y, n, c) /\ Looping(f, x, y, n, c, m, d, k)
  BY <1>1, <1>2, CallInLoop
<1>4. f \notin CString!Comparisons /\ f \in CString!Copies
  BY <1>2 DEF CString!Comparisons, CString!Folding, CString!Copies
<1>5. Copying(f, x, y, n, m, d, k) /\ y \in Seq(Octets)
  BY <1>3, <1>4 DEF Looping, Given
<1>6. PICK m0, m2 : Puts(m0, m, d, 0) /\ Puts(m2, m, d, y[d + 1])
  BY DEF Puts
<1>7. /\ d < Len(m)
      /\ f = "strndup" /\ d = k => CopyDone(f, x, y, n, m0)
      /\ ~(f = "strndup" /\ d = k) =>
           /\ d < Len(y)
           /\ f # "strndup" /\ y[d + 1] = 0 => CopyDone(f, x, y, n, m0)
           /\ ~(f # "strndup" /\ y[d + 1] = 0) => Copying(f, x, y, n, m2, d + 1, k)
  BY <1>2, <1>5, <1>6, CopyStep
<1>8. /\ f = "strndup" /\ d = k => CString!Terminate
      /\ ~(f = "strndup" /\ d = k) =>
           IF f # "strndup" /\ y[d + 1] = 0 THEN CString!Terminate ELSE CString!Put(y[d + 1])
  <2>1. ~(f = "strndup" /\ d = k) => CString!Readable(call.b)
    BY <1>1, <1>7 DEF CString!Readable
  <2> QED
    BY <1>1, <2>1 DEF CString!Strcpy, CString!At, CString!fn
<1>9. ASSUME CString!Terminate, CopyDone(f, x, y, n, m0)  PROVE StringsInv'
  <2>1. call' = call /\ array' = m0 /\ cpc' = "returned" /\ ret' = 1
    BY <1>1, <1>6, <1>7, <1>9 DEF CString!Terminate, Puts
  <2>2. LoopDone(f, x, y, n, c, m0, 1)
    BY <1>2, <1>4, <1>9 DEF LoopDone
  <2>3. CallAt(f, x, y, n, c, array', ci', ck', cpc', ret')
    BY <2>1, <2>2 DEF CallAt
  <2> QED
    BY <1>1, <2>1, <2>3, CallGoesOn
<1>10. ASSUME CString!Put(y[d + 1]), Copying(f, x, y, n, m2, d + 1, k)  PROVE StringsInv'
  <2>1. call' = call /\ array' = m2 /\ ci' = d + 1 /\ ck' = k /\ cpc' = "loop"
    BY <1>1, <1>2, <1>6, <1>7, <1>10 DEF CString!Put, Puts
  <2>2. Looping(f, x, y, n, c, m2, d + 1, k)
    BY <1>2, <1>4, <1>10 DEF Looping
  <2>3. CallAt(f, x, y, n, c, array', ci', ck', cpc', ret')
    BY <2>1, <2>2 DEF CallAt
  <2> QED
    BY <1>1, <2>1, <2>3, CallGoesOn
<1> QED
  BY <1>7, <1>8, <1>9, <1>10

(* strncpy: an iteration.                                                  *)
LEMMA StrncpyKeepsInv ==
  ASSUME StringsInv, CString!Strncpy
  PROVE  StringsInv'
<1>1. PICK f, x, y, n, c, m, d, k :
        /\ f = call.fn /\ x = call.a /\ y = call.b /\ n = call.n /\ c = call.c
        /\ m = array /\ d = ci /\ k = ck
  OBVIOUS
<1>2. cpc = "loop" /\ f = "strncpy"
  BY <1>1 DEF CString!Strncpy, CString!Running, CString!fn
<1>3. Given(f, x, y, n, c) /\ Looping(f, x, y, n, c, m, d, k)
  BY <1>1, <1>2, CallInLoop
<1>4. f \notin CString!Comparisons /\ f \in CString!Copies /\ f \in CString!Bounded
  BY <1>2 DEF CString!Comparisons, CString!Folding, CString!Copies, CString!Bounded
<1>5. Copying(f, x, y, n, m, d, k) /\ y \in Seq(Octets) /\ n \in Nat
  BY <1>3, <1>4 DEF Looping, Given
<1>6. PICK m0, m2 : Puts(m0, m, d, 0) /\ Puts(m2, m, d, y[d + 1])
  BY DEF Puts
<1>7. /\ d >= n => CopyDone(f, x, y, n, m)
      /\ ~(d >= n) =>
           /\ d < Len(m)
           /\ k = 1 => Copying(f, x, y, n, m0, d + 1, k)
           /\ k # 1 => /\ d < Len(y)
                       /\ y[d + 1] = 0 => Copying(f, x, y, n, m, d, 1)
                       /\ y[d + 1] # 0 => Copying(f, x, y, n, m2, d + 1, k)
  <2>1. /\ f \in {"strncpy"} /\ y \in Seq(Octets) /\ n \in Nat
        /\ Copying(f, x, y, n, m, d, k) /\ Puts(m0, m, d, 0) /\ Puts(m2, m, d, y[d + 1])
    BY <1>2, <1>5, <1>6
  <2> QED
    BY <2>1, CopyBoundedStep
<1>8. ASSUME NEW m3, NEW e, NEW h, Copying(f, x, y, n, m3, e, h),
             call' = call, array' = m3, ci' = e, ck' = h, cpc' = "loop"
      PROVE  StringsInv'
  <2>1. Looping(f, x, y, n, c, m3, e, h)
    BY <1>2, <1>4, <1>8 DEF Looping
  <2>2. CallAt(f, x, y, n, c, array', ci', ck', cpc', ret')
    BY <1>8, <2>1 DEF CallAt
  <2> QED
    BY <1>1, <1>8, <2>2, CallGoesOn
<1>9. CASE d >= n
  <2>1. CString!Return(1)
    BY <1>1, <1>4, <1>9 DEF CString!Strncpy, CString!AtLimit, CString!fn
  <2>2. call' = call /\ array' = m /\ cpc' = "returned" /\ ret' = 1
    BY <1>1, <2>1 DEF CString!Return
  <2>3. LoopDone(f, x, y, n, c, m, 1)
    BY <1>2, <1>4, <1>7, <1>9 DEF LoopDone
  <2>4. CallAt(f, x, y, n, c, array', ci', ck', cpc', ret')
    BY <2>2, <2>3 DEF CallAt
  <2> QED
    BY <1>1, <2>2, <2>4, CallGoesOn
<1>10. CASE ~(d >= n)
  <2>1. ~CString!AtLimit
    BY <1>1, <1>10 DEF CString!AtLimit
  <2>2. CASE k = 1
    <3>1. CString!Put(0)
      BY <1>1, <2>1, <2>2 DEF CString!Strncpy
    <3>2. call' = call /\ array' = m0 /\ ci' = d + 1 /\ ck' = k /\ cpc' = "loop"
      BY <1>1, <1>2, <1>6, <1>7, <1>10, <3>1 DEF CString!Put, Puts
    <3> QED
      BY <1>7, <1>8, <1>10, <2>2, <3>2
  <2>3. CASE k # 1 /\ y[d + 1] = 0
    <3>1. CString!Readable(call.b)
      BY <1>1, <1>7, <1>10, <2>3 DEF CString!Readable
    <3>2. call' = call /\ array' = m /\ ci' = d /\ ck' = 1 /\ cpc' = "loop"
      BY <1>1, <1>2, <2>1, <2>3, <3>1 DEF CString!Strncpy, CString!At
    <3> QED
      BY <1>7, <1>8, <1>10, <2>3, <3>2
  <2>4. CASE k # 1 /\ y[d + 1] # 0
    <3>1. CString!Readable(call.b)
      BY <1>1, <1>7, <1>10, <2>4 DEF CString!Readable
    <3>2. CString!Put(y[d + 1])
      BY <1>1, <2>1, <2>4, <3>1 DEF CString!Strncpy, CString!At
    <3>3. call' = call /\ array' = m2 /\ ci' = d + 1 /\ ck' = k /\ cpc' = "loop"
      BY <1>1, <1>2, <1>6, <1>7, <1>10, <3>2 DEF CString!Put, Puts
    <3> QED
      BY <1>7, <1>8, <1>10, <2>4, <3>3
  <2> QED
    BY <2>2, <2>3, <2>4
<1> QED
  BY <1>9, <1>10

(* A call begins.                                                          *)
LEMMA StringsInitially ==
  ASSUME CString!Init
  PROVE  StringsInv
<1>1. PICK f, x, y, n, c : f = call.fn /\ x = call.a /\ y = call.b /\ n = call.n /\ c = call.c
  OBVIOUS
<1>2. /\ call \in CString!Calls /\ array = x /\ ci = 0 /\ ck = 0 /\ ret = 0
      /\ cpc = IF f \in {"strdup", "strndup"} THEN "strlen" ELSE "loop"
  BY <1>1 DEF CString!Init, CString!NULL
<1>3. f \in StringFunctions /\ Given(f, x, y, n, c)
  BY <1>1, <1>2, CallsAre
<1>4. CallAt(f, x, y, n, c, array, ci, ck, cpc, ret)
  <2>1. CASE f \in {"strdup", "strndup"}
    BY <1>2, <2>1 DEF CallAt
  <2>2. CASE f \notin {"strdup", "strndup"}
    <3>1. Looping(f, x, y, n, c, x, 0, 0)
      BY <1>3, <2>2, LoopBegins
    <3> QED
      BY <1>2, <2>2, <3>1 DEF CallAt
  <2> QED
    BY <2>1, <2>2
<1> QED
  BY <1>1, <1>2, <1>4 DEF StringsInv

(* A step of a call.                                                       *)
LEMMA StringsStepKeepsInv ==
  ASSUME StringsInv, CString!Next
  PROVE  StringsInv'
BY CompareKeepsInv, FindByteKeepsInv, StrlenKeepsInv, StrchrKeepsInv, StrrchrKeepsInv,
   StrstrKeepsInv, MemsetKeepsInv, DuplicateKeepsInv, StrcpyKeepsInv, StrncpyKeepsInv, Zenon
   DEF CString!Next

(* What a comparison returns is right of what is compared.                 *)
LEMMA ComparisonTold ==
  ASSUME StringsInv, cpc = "returned", CString!fn \in CString!Comparisons,
         NEW s, s = CString!Compared(call.a), NEW t, t = CString!Compared(call.b)
  PROVE  ComparesRight(CString!fn, s, t, ret)
<1>1. PICK f, x, y, n, c, m, r :
        /\ f = call.fn /\ x = call.a /\ y = call.b /\ n = call.n /\ c = call.c
        /\ m = array /\ r = ret
  OBVIOUS
<1>2. f \in CString!Comparisons /\ Given(f, x, y, n, c)
  BY <1>1, CallInLoop DEF CString!fn
<1>3. LoopDone(f, x, y, n, c, m, r)
  BY <1>1 DEF StringsInv, CallAt
<1>4. ComparisonDone(f, x, y, n, r)
  BY <1>2, <1>3 DEF LoopDone
<1>5. x \in Seq(Octets) /\ y \in Seq(Octets) /\ n \in Nat
  BY <1>2 DEF Given
<1>6. s = CString!Compared(x) /\ t = CString!Compared(y)
  BY <1>1
<1>7. PICK g : ComparedTo(s, x, f, n, g)
  BY <1>1, <1>5, <1>6, ComparedIs
<1>8. PICK h : ComparedTo(t, y, f, n, h)
  BY <1>1, <1>5, <1>6, ComparedIs
<1>9. ComparesRight(f, s, t, r)
  BY <1>4, <1>7, <1>8 DEF ComparisonDone
<1> QED
  BY <1>1, <1>9 DEF CString!fn

(* strstr returns an occurrence, the first unless the needle recurs.       *)
LEMMA SearchTold ==
  ASSUME NEW x, NEW y, NEW r, SearchDone(x, y, r), NEW t, t = CString!Str(y)
  PROVE  /\ r # 0 => r \in Occurring(x, y)
         /\ (\A j \in 2 .. Len(t) : t[j] # t[1]) => r = CString!Ends(Occurring(x, y), TRUE)
<1>1. PICK m : EndedAt(y, m) /\ FindsRight(x, y, m, r)
  BY DEF SearchDone
<1>2. y \in Seq(Octets) /\ m \in Nat /\ Len(y) = m + 1 /\ EndsAt(y, m)
  BY <1>1 DEF EndedAt
<1>3. PICK l : StrOf(t, y, l)
  BY <1>2, StrIs
<1>4. l = m
  BY <1>2, <1>3, EndUnique, LenProperties DEF StrOf
<1>5. Len(t) = m /\ \A j \in 1 .. m : t[j] = y[j]
  BY <1>3, <1>4 DEF StrOf, FirstOf
<1>6. ASSUME \A j \in 2 .. Len(t) : t[j] # t[1]  PROVE NoRecurring(y, m)
  <2>1. ASSUME NEW j \in 2 .. m  PROVE y[j] # y[1]
    <3>1. j \in 1 .. m /\ 1 \in 1 .. m /\ j \in 2 .. Len(t)
      BY <1>2, <1>5, <2>1
    <3> QED
      BY <1>5, <1>6, <3>1
  <2> QED
    BY <2>1 DEF NoRecurring
<1> QED
  BY <1>1, <1>6 DEF FindsRight

(* What C says of what a call returns and leaves.                          *)
CallRight(f, x, y, n, c, m, r) ==
  /\ f = "strlen" => r = Len(CString!Str(m))
  /\ f \in {"memchr", "rawmemchr"} => ByteRight(f, n, c, m, r)
  /\ f = "strchr" => r = CString!Ends(CharAmong(m, c), TRUE)
  /\ f = "strrchr" => r = CString!Ends(CharAmong(m, c), FALSE)
  /\ f = "strstr" => SearchDone(m, y, r)
  /\ f = "memset" => m = [j \in 1 .. Len(m) |-> IF j <= n THEN c % 256 ELSE x[j]]
  /\ f \in {"strcpy", "strncpy"} => CopyRight(f, x, y, n, m)
  /\ f \in {"strdup", "strndup"} => r = 0 \/ CopyRight(f, x, y, n, m)
  /\ f \notin {"memset"} \cup CString!Copies => m = x

(* The calls do that.                                                      *)
LEMMA CallTold ==
  ASSUME StringsInv, cpc = "returned", NEW f, f = call.fn, NEW x, x = call.a,
         NEW y, y = call.b, NEW n, n = call.n, NEW c, c = call.c, NEW m, m = array,
         NEW r, r = ret
  PROVE  CallRight(f, x, y, n, c, m, r)
<1>1. Given(f, x, y, n, c)
  BY CallInLoop
<1>2. x \in Seq(Octets) /\ y \in Seq(Octets) /\ n \in Nat
  BY <1>1 DEF Given
<1>3. LoopDone(f, x, y, n, c, m, r)
  BY DEF StringsInv, CallAt
<1>4. ASSUME f \in {"strlen", "memchr", "rawmemchr", "strchr", "strrchr", "strstr"}
      PROVE  m = x
  BY <1>3, <1>4 DEF LoopDone, CString!Copies
<1>5. ASSUME f = "memset"
      PROVE  m = [j \in 1 .. Len(m) |-> IF j <= n THEN c % 256 ELSE x[j]]
  <2>1. Written(m, x, Repeated(c), n)
    BY <1>3, <1>5 DEF LoopDone
  <2>2. PICK p : p = Len(x)
    OBVIOUS
  <2>3. Len(m) = p
    BY <1>2, <2>1, <2>2, WrittenLen
  <2>4. m = [j \in 1 .. p |-> IF j <= n THEN Repeated(c)[j] ELSE x[j]]
    BY <2>1, <2>2 DEF Written
  <2>5. \A j \in 1 .. p : Repeated(c)[j] = c % 256
    BY DEF Repeated
  <2> QED
    BY <2>3, <2>4, <2>5
<1>6. ASSUME CopyDone(f, x, y, n, m)  PROVE CopyRight(f, x, y, n, m)
  BY <1>2, <1>6, CopyDoneRight
<1> QED
  BY <1>3, <1>4, <1>5, <1>6 DEF LoopDone, CallRight

(* So the property follows.                                                *)
LEMMA StringsTold ==
  ASSUME StringsInv
  PROVE  CString!StringsExact
<1>1. cpc # "overrun"
  BY DEF StringsInv, CallAt
<1>2. ASSUME cpc = "returned", NEW s, s = CString!Compared(call.a),
             NEW t, t = CString!Compared(call.b), CString!fn \in CString!Comparisons
      PROVE  /\ ret = 0 <=> s = t
             /\ (CString!fn = "memcmp" => \A j \in DOMAIN s : s[j] < 128 /\ t[j] < 128)
                => (ret < 0 <=> CString!Less(s, t))
  BY <1>2, ComparisonTold DEF ComparesRight
<1>3. ASSUME cpc = "returned", NEW w, w = CString!Str(call.b),
             NEW u, u = (IF CString!fn = "strndup" THEN CString!Prefix(w, call.n) ELSE w)
      PROVE  /\ CString!fn = "strlen" => ret = Len(CString!Str(array))
             /\ CString!fn \in {"memchr", "rawmemchr"} =>
                  ret = CString!Ends({p \in DOMAIN array : array[p] = call.c % 256
                                        /\ (CString!fn = "memchr" => p <= call.n)}, TRUE)
             /\ CString!fn \in {"strchr", "strrchr"} =>
                  ret = CString!Ends({p \in DOMAIN CString!Str(array) :
                                        CString!Signed(array[p]) = call.c}, CString!fn = "strchr")
             /\ CString!fn = "strstr" =>
                  /\ ret # CString!NULL => ret \in CString!Occurrences
                  /\ (\A j \in 2 .. Len(w) : w[j] # w[1])
                       => ret = CString!Ends(CString!Occurrences, TRUE)
             /\ CString!fn = "memset" =>
                  array = [j \in 1 .. Len(array) |->
                             IF j <= call.n THEN call.c % 256 ELSE call.a[j]]
             /\ CString!fn = "strcpy" => CString!Filled(w, Len(w) + 1)
             /\ CString!fn = "strncpy" => CString!Filled(CString!Prefix(w, call.n), call.n)
             /\ CString!fn \in {"strdup", "strndup"} => ret = CString!NULL \/ array = Append(u, 0)
             /\ CString!fn \notin {"memset"} \cup CString!Copies => array = call.a
  <2>1. PICK f, x, y, n, c, m, r :
          /\ f = call.fn /\ x = call.a /\ y = call.b /\ n = call.n /\ c = call.c
          /\ m = array /\ r = ret
    OBVIOUS
  <2>2. CallRight(f, x, y, n, c, m, r)
    BY <1>3, <2>1, CallTold
  <2>3. CString!fn = f /\ CString!NULL = 0
    BY <2>1 DEF CString!fn, CString!NULL
  <2>4. f \in {"memchr", "rawmemchr"} =>
          ret = CString!Ends({p \in DOMAIN array : array[p] = call.c % 256
                                /\ (f = "memchr" => p <= call.n)}, TRUE)
    BY <2>1, <2>2 DEF CallRight, ByteRight
  <2>5. ASSUME f \in {"strchr", "strrchr"}
        PROVE  ret = CString!Ends({p \in DOMAIN CString!Str(array) :
                                     CString!Signed(array[p]) = call.c}, f = "strchr")
    <3>1. PICK P : P = {p \in DOMAIN CString!Str(array) : CString!Signed(array[p]) = call.c}
      OBVIOUS
    <3>2. P = CharAmong(m, c)
      BY <2>1, <3>1 DEF CharAmong
    <3>3. CASE f = "strchr"
      <4>1. ret = CString!Ends(P, TRUE)
        BY <2>1, <2>2, <3>2, <3>3 DEF CallRight
      <4>2. (f = "strchr") = TRUE
        BY <3>3
      <4> QED
        BY <3>1, <4>1, <4>2
    <3>4. CASE f = "strrchr"
      <4>1. ret = CString!Ends(P, FALSE)
        BY <2>1, <2>2, <3>2, <3>4 DEF CallRight
      <4>2. (f = "strchr") = FALSE
        BY <3>4
      <4> QED
        BY <3>1, <4>1, <4>2
    <3> QED
      BY <2>5, <3>3, <3>4
  <2>6. ASSUME f = "strstr"
        PROVE  /\ ret # 0 => ret \in CString!Occurrences
               /\ (\A j \in 2 .. Len(w) : w[j] # w[1])
                    => ret = CString!Ends(CString!Occurrences, TRUE)
    <3>1. CString!Occurrences = Occurring(m, y)
      BY <2>1 DEF CString!Occurrences, Occurring
    <3>2. SearchDone(m, y, r) /\ w = CString!Str(y)
      BY <1>3, <2>1, <2>2, <2>6 DEF CallRight
    <3> QED
      BY <2>1, <3>1, <3>2, SearchTold
  <2>7. f = "memset" =>
          array = [j \in 1 .. Len(array) |-> IF j <= call.n THEN call.c % 256 ELSE call.a[j]]
    BY <2>1, <2>2 DEF CallRight
  <2>8. ASSUME NEW v, NEW len, FilledAs(m, x, v, len)  PROVE CString!Filled(v, len)
    BY <2>1, <2>8 DEF FilledAs, CString!Filled
  <2>9. ASSUME f = "strcpy"  PROVE CString!Filled(w, Len(w) + 1)
    <3>1. TextOf(f, y, n) = w
      BY <1>3, <2>1, <2>9 DEF TextOf
    <3>2. FilledAs(m, x, w, Len(w) + 1)
      BY <2>2, <2>9, <3>1 DEF CallRight, CopyRight
    <3> QED
      BY <2>8, <3>2
  <2>10. ASSUME f = "strncpy"  PROVE CString!Filled(CString!Prefix(w, call.n), call.n)
    <3>1. TextOf(f, y, n) = CString!Prefix(w, call.n)
      BY <1>3, <2>1, <2>10 DEF TextOf
    <3>2. FilledAs(m, x, CString!Prefix(w, call.n), call.n)
      BY <2>1, <2>2, <2>10, <3>1 DEF CallRight, CopyRight
    <3> QED
      BY <2>8, <3>2
  <2>11. ASSUME f \in {"strdup", "strndup"}  PROVE ret = 0 \/ array = Append(u, 0)
    <3>1. TextOf(f, y, n) = u
      BY <1>3, <2>1, <2>3, <2>11 DEF TextOf
    <3>2. r = 0 \/ m = Append(u, 0)
      BY <2>2, <2>11, <3>1 DEF CallRight, CopyRight
    <3> QED
      BY <2>1, <3>2
  <2>12. f = "strlen" => ret = Len(CString!Str(array))
    BY <2>1, <2>2 DEF CallRight
  <2>13. f \notin {"memset"} \cup CString!Copies => array = call.a
    BY <2>1, <2>2 DEF CallRight
  <2> QED
    BY <2>3, <2>4, <2>5, <2>6, <2>7, <2>9, <2>10, <2>11, <2>12, <2>13
<1> QED
  BY <1>1, <1>2, <1>3, Zenon DEF CString!StringsExact

(* c/string.c:36-290, c/strings.c:22-48: the functions on strings stay in  *)
(* the arrays C lets their callers pass, and compare, find, fill and copy  *)
(* what C says, within the limits StringsExact names.                      *)
THEOREM StringsTrue == Spec => []StringsExact
<1>1. Init => (part = "cstring" => StringsInv)
  <2>1. CString!Init => StringsInv
    BY StringsInitially
  <2> QED
    BY <2>1 DEF Init
<1>2. ASSUME [Next]_vars, part = "cstring" => StringsInv
      PROVE  (part = "cstring" => StringsInv)'
  <2>1. part' = part /\ (part = "cstring" => CString!Next \/ UNCHANGED cstringVars)
    BY <1>2, CStringSeparate
  <2>2. ASSUME StringsInv, UNCHANGED cstringVars  PROVE StringsInv'
    BY <2>2 DEF cstringVars, StringsInv
  <2>3. ASSUME StringsInv, CString!Next  PROVE StringsInv'
    BY <2>3, StringsStepKeepsInv
  <2> QED
    BY <1>2, <2>1, <2>2, <2>3
<1>3. (part = "cstring" => StringsInv) => StringsExact
  BY StringsTold DEF StringsExact
<1> QED
  BY <1>1, <1>2, <1>3, PTL DEF Spec
=============================================================================
