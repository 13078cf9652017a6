------------------------------ MODULE CString ------------------------------
(***************************************************************************)
(* The character classes of c/ctype.c, and the loops of c/string.c and     *)
(* c/strings.c over them, an iteration a step: comparing, searching,       *)
(* filling and copying.  A behaviour is one call.  Characters are bytes;   *)
(* an array is all the memory a pointer may be used for, so that an access *)
(* behind it is noticed.  NULL is 0, a pointer into the first argument its *)
(* position.                                                               *)
(***************************************************************************)
EXTENDS Integers, FiniteSets, Sequences, SequencesExt

CONSTANTS
  Bytes,   \* characters of the arrays, 0 included
  Sought,  \* int arguments: characters to find or to fill with
  MaxLen   \* the longest array

CStringAssumption == 0 \in Bytes /\ Bytes \subseteq 0 .. 255 /\ MaxLen \in Nat

-----------------------------------------------------------------------------
(* Character classes, and the macros of ctype.h.                           *)

(* Ranges of nnlc_ctype_table and the classes their characters are of;     *)
(* those from 128 on are of none.                                          *)
Ranges ==
  {<<0 .. 8,     {"cntrl"}>>,
   <<9 .. 9,     {"blank", "cntrl", "space"}>>,
   <<10 .. 13,   {"cntrl", "space"}>>,
   <<14 .. 31,   {"cntrl"}>>,
   <<32 .. 32,   {"blank", "print", "space"}>>,
   <<33 .. 47,   {"graph", "print", "punct"}>>,
   <<48 .. 57,   {"alnum", "digit", "graph", "print", "xdigit"}>>,
   <<58 .. 64,   {"graph", "print", "punct"}>>,
   <<65 .. 70,   {"alnum", "alpha", "graph", "print", "upper", "xdigit"}>>,
   <<71 .. 90,   {"alnum", "alpha", "graph", "print", "upper"}>>,
   <<91 .. 96,   {"graph", "print", "punct"}>>,
   <<97 .. 102,  {"alnum", "alpha", "graph", "lower", "print", "xdigit"}>>,
   <<103 .. 122, {"alnum", "alpha", "graph", "lower", "print"}>>,
   <<123 .. 126, {"graph", "print", "punct"}>>,
   <<127 .. 127, {"cntrl"}>>}

Table == [c \in 0 .. 255 |->
            UNION {r[2] \cup {"ascii"} : r \in {q \in Ranges : c \in q[1]}}]

(* isalnum(c) to isxdigit(c): a negative char is looked up as its byte.    *)
Is(class, c) == class \in Table[c % 256]

Tolower(c) == IF Is("upper", c) THEN c - 65 + 97 ELSE c
Toupper(c) == IF Is("lower", c) THEN c - 97 + 65 ELSE c

(* What C says of the classes: which are unions of others, which have      *)
(* nothing in common, and that the two cases map to one another.           *)
Of(class) == {c \in 0 .. 255 : Is(class, c)}
ClassesOfC ==
  /\ Of("alpha") = Of("upper") \cup Of("lower")
  /\ Of("alnum") = Of("alpha") \cup Of("digit")
  /\ Of("graph") = Of("alnum") \cup Of("punct")
  /\ Of("print") = Of("graph") \cup {32}
  /\ Of("ascii") = Of("print") \cup Of("cntrl")
  /\ Of("digit") \subseteq Of("xdigit") /\ Of("blank") \subseteq Of("space")
  /\ \A pair \in {{"upper", "lower"}, {"alpha", "digit"}, {"alnum", "punct"},
                  {"graph", "space"}, {"print", "cntrl"}} :
       \A x, y \in pair : x # y => Of(x) \cap Of(y) = {}
  /\ Cardinality(Of("upper")) = 26 /\ Cardinality(Of("xdigit")) = 22
  /\ {Tolower(c) : c \in Of("upper")} = Of("lower")
  /\ \A c \in 0 .. 255 :
       /\ Is("upper", c) => Toupper(Tolower(c)) = c
       /\ Is("lower", c) => Tolower(Toupper(c)) = c

-----------------------------------------------------------------------------
(* The loops.                                                              *)

VARIABLES
  call,    \* [fn, a, b, n, c]: the function and its arguments
  a,       \* the first argument's characters now
  i,       \* how far the loop is
  k,       \* strstr: characters of the needle matched; strdup, strndup: len
  pc, ret

vars == <<call, a, i, k, pc, ret>>

NULL == 0
Garbage == 165   \* what fresh memory holds

Bounded == {"memcmp", "strncmp", "strncasecmp", "memchr", "memset", "strncpy"}
Folding == {"strcasecmp", "strncasecmp"}
Comparisons == {"memcmp", "strcmp", "strncmp"} \cup Folding
Copies == {"strcpy", "strncpy", "strdup", "strndup"}

Arrays(B, len) == UNION {[1 .. l -> B] : l \in 0 .. len}
Terminated(x) == \E j \in DOMAIN x : x[j] = 0
Str(x) == SubSeq(x, 1, CHOOSE l \in 0 .. Len(x) :
            /\ \A j \in 1 .. l : x[j] # 0
            /\ l < Len(x) => x[l + 1] = 0)

(* char is signed.                                                         *)
Signed(x) == IF x >= 128 THEN x - 256 ELSE x

(* The calls C allows: strings end with a NUL unless n ends them before,   *)
(* memory is as long as n says, a destination as what it is to take.       *)
Upto(x, n) == Terminated(x) \/ Len(x) >= n
Args(fns, A, B, N, C) == [fn : fns, a : A, b : B, n : N, c : C]
Calls ==
  LET all == Arrays(Bytes, MaxLen)
      strings == {x \in all : Terminated(x)}
      texts == {Append(x, 0) : x \in Arrays({97, 98}, MaxLen + 2)}
      dests == {[j \in 1 .. l |-> Garbage] : l \in 0 .. (MaxLen + 1)}
      N == 0 .. (MaxLen + 1)
  IN UNION {
    Args({"strcmp", "strcasecmp"}, strings, strings, {0}, {0}),
    {x \in Args({"strncmp", "strncasecmp"}, all, all, N, {0}) : Upto(x.a, x.n) /\ Upto(x.b, x.n)},
    {x \in Args({"memcmp"}, all, all, N, {0}) : Len(x.a) >= x.n /\ Len(x.b) >= x.n},
    {x \in Args({"memchr"}, all, {<< >>}, N, Sought) :
       Len(x.a) >= x.n \/ \E j \in DOMAIN x.a : x.a[j] = x.c % 256},
    {x \in Args({"rawmemchr"}, all, {<< >>}, {0}, Sought) : \E j \in DOMAIN x.a : x.a[j] = x.c % 256},
    Args({"strlen"}, strings, {<< >>}, {0}, {0}),
    Args({"strchr", "strrchr"}, strings, {<< >>}, {0}, Sought),
    Args({"strstr"}, texts, {x \in texts : Len(x) <= MaxLen + 1}, {0}, {0}),
    {x \in Args({"memset"}, dests, {<< >>}, N, Sought) : Len(x.a) >= x.n},
    {x \in Args({"strcpy"}, dests, strings, {0}, {0}) : Len(x.a) > Len(Str(x.b))},
    {x \in Args({"strncpy"}, dests, all, N, {0}) : Len(x.a) >= x.n /\ Upto(x.b, x.n)},
    Args({"strdup", "strndup"}, {<< >>}, strings, N, {0})}

Init ==
  /\ call \in Calls
  /\ a = call.a /\ i = 0 /\ k = 0 /\ ret = NULL
  /\ pc = IF call.fn \in {"strdup", "strndup"} THEN "strlen" ELSE "loop"

fn == call.fn
Running(fns) == pc = "loop" /\ fn \in fns

Return(r) == pc' = "returned" /\ ret' = r /\ UNCHANGED <<call, a, i, k>>
GoOn == i' = i + 1 /\ UNCHANGED <<call, a, k, pc, ret>>

(* *s, i characters on; behind the array anything could be there.          *)
Readable(s) == i < Len(s)
At(s) == s[i + 1]
Overrun == pc' = "overrun" /\ UNCHANGED <<call, a, i, k, ret>>

(* *d++ = x                                                                *)
Put(x) ==
  IF i < Len(a) THEN a' = [a EXCEPT ![i + 1] = x] /\ i' = i + 1 /\ UNCHANGED <<call, k, pc, ret>>
  ELSE Overrun

(* n > 0 no more.                                                          *)
AtLimitLate == fn \in Bounded /\ i > call.n
AtLimit == fn \in Bounded /\ i >= call.n

Operand(x) ==
  IF fn = "memcmp" THEN Signed(x) ELSE IF fn \in Folding THEN Tolower(x) ELSE x

(* memcmp, strcmp, strncmp, strcasecmp, strncasecmp                        *)
Compare ==
  /\ Running(Comparisons)
  /\ IF AtLimit THEN Return(0)
     ELSE IF ~Readable(a) \/ ~Readable(call.b) THEN Overrun
     ELSE LET x == Operand(At(a))
              y == Operand(At(call.b))
          IN IF x # y \/ (fn # "memcmp" /\ x = 0) THEN Return(x - y) ELSE GoOn

(* rawmemchr, memchr                                                       *)
FindByte ==
  /\ Running({"rawmemchr", "memchr"})
  /\ IF AtLimit THEN Return(NULL)
     ELSE IF ~Readable(a) THEN Overrun
     ELSE IF At(a) = call.c % 256 THEN Return(i + 1) ELSE GoOn

Strlen ==
  /\ Running({"strlen"})
  /\ IF ~Readable(a) THEN Overrun
     ELSE IF At(a) = 0 THEN Return(i) ELSE GoOn

Strchr ==
  /\ Running({"strchr"})
  /\ IF ~Readable(a) THEN Overrun
     ELSE IF At(a) = 0 THEN Return(NULL)
     ELSE IF Signed(At(a)) = call.c THEN Return(i + 1) ELSE GoOn

(* k is last.                                                              *)
Strrchr ==
  /\ Running({"strrchr"})
  /\ IF ~Readable(a) THEN Overrun
     ELSE IF At(a) = 0 THEN Return(k)
     ELSE /\ k' = IF Signed(At(a)) = call.c THEN i + 1 ELSE k
          /\ i' = i + 1 /\ UNCHANGED <<call, a, pc, ret>>

(* n is needle + k and found is h - k, or NULL when k = 0: after a mismatch*)
(* the needle is begun again at the character that did not match.          *)
Strstr ==
  /\ Running({"strstr"})
  /\ IF call.b[1] = 0 THEN Return(1)
     ELSE IF ~Readable(a) THEN Overrun
     ELSE IF At(a) = 0 THEN Return(NULL)
     ELSE LET from == IF At(a) # call.b[k + 1] THEN 0 ELSE k
              matched == IF At(a) = call.b[from + 1] THEN from + 1 ELSE from
          IN IF matched > 0 /\ call.b[matched + 1] = 0
             THEN Return(i - matched + 2)
             ELSE /\ k' = matched /\ i' = i + 1
                  /\ UNCHANGED <<call, a, pc, ret>>

Memset ==
  Running({"memset"}) /\ IF AtLimit THEN Return(1) ELSE Put(call.c % 256)

(* strdup and strndup call strlen of the whole string, then malloc.        *)
Duplicate ==
  /\ pc = "strlen"
  /\ LET len == Len(Str(call.b))
         kept == IF fn = "strndup" /\ call.n < len THEN call.n ELSE len
     IN /\ k' = kept
        /\ \/ pc' = "returned" /\ UNCHANGED a
           \/ pc' = "loop" /\ a' = [j \in 1 .. (kept + 1) |-> Garbage]
  /\ UNCHANGED <<call, i, ret>>

(* The last character: what terminates the copy.                           *)
Terminate ==
  IF i < Len(a) THEN a' = [a EXCEPT ![i + 1] = 0] /\ pc' = "returned" /\ ret' = 1 /\ UNCHANGED <<call, i, k>>
  ELSE Overrun

(* strcpy, and memcpy of k characters for strndup                          *)
Strcpy ==
  /\ Running({"strcpy", "strdup", "strndup"})
  /\ IF fn = "strndup" /\ i = k THEN Terminate
     ELSE IF ~Readable(call.b) THEN Overrun
     ELSE IF fn # "strndup" /\ At(call.b) = 0 THEN Terminate ELSE Put(At(call.b))

(* k is 1 in the second loop, which fills up with NULs.                    *)
Strncpy ==
  /\ Running({"strncpy"})
  /\ IF AtLimit THEN Return(1)
     ELSE IF k = 1 THEN Put(0)
     ELSE IF ~Readable(call.b) THEN Overrun
     ELSE IF At(call.b) = 0 THEN k' = 1 /\ UNCHANGED <<call, a, i, pc, ret>>
     ELSE Put(At(call.b))

Next ==
  \/ Compare \/ FindByte \/ Strlen \/ Strchr \/ Strrchr \/ Strstr
  \/ Memset \/ Duplicate \/ Strcpy \/ Strncpy

Spec == Init /\ [][Next]_vars

-----------------------------------------------------------------------------
(* Properties.                                                             *)

Prefix(s, n) == SubSeq(s, 1, IF n < Len(s) THEN n ELSE Len(s))

(* What a comparison compares, and the order of sequences of numbers.      *)
Compared(x) ==
  LET upto == IF fn = "memcmp" THEN x ELSE Str(x)
      s == IF fn \in Bounded THEN Prefix(upto, call.n) ELSE upto
  IN IF fn \in Folding THEN [j \in DOMAIN s |-> Tolower(s[j])] ELSE s
Less(s, t) ==
  \E j \in 1 .. (Len(t)) :
    /\ j <= Len(s) + 1 /\ \A l \in 1 .. (j - 1) : s[l] = t[l]
    /\ j <= Len(s) => s[j] < t[j]

Ends(P, least) ==
  IF P = {} THEN NULL
  ELSE CHOOSE p \in P : \A q \in P : IF least THEN p <= q ELSE p >= q

Occurrences == {p \in 1 .. Len(a) : IsPrefix(Str(call.b), SubSeq(Str(a), p, Len(a) - 1))}

(* What a copy leaves: text, then NULs up to len, then what was there.     *)
Filled(text, len) ==
  a = [j \in 1 .. Len(a) |-> IF j <= Len(text) THEN text[j]
                             ELSE IF j <= len THEN 0 ELSE call.a[j]]

(* Every function of string.c and strings.c stays in the arrays C lets its *)
(* caller pass, unterminated ones included, and does what C says, with     *)
(* these limits of the code: memcmp orders only characters below 128,      *)
(* strchr and strrchr find no NUL and compare with a signed char, strstr   *)
(* may miss an occurrence, but never when the needle's first character is  *)
(* not in it again.                                                        *)
StringsExact ==
  /\ pc # "overrun"
  /\ pc = "returned" =>
       LET s == Compared(call.a)
           t == Compared(call.b)
           ascii == \A j \in DOMAIN s : s[j] < 128 /\ t[j] < 128
           needle == Str(call.b)
           first == Ends(Occurrences, TRUE)
           text == IF fn = "strndup" THEN Prefix(needle, call.n) ELSE needle
       IN /\ fn \in Comparisons =>
               /\ ret = 0 <=> s = t
               /\ (fn = "memcmp" => ascii) => (ret < 0 <=> Less(s, t))
          /\ fn = "strlen" => ret = Len(Str(a))
          /\ fn \in {"memchr", "rawmemchr"} =>
               ret = Ends({p \in DOMAIN a : a[p] = call.c % 256 /\ (fn = "memchr" => p <= call.n)}, TRUE)
          /\ fn \in {"strchr", "strrchr"} =>
               ret = Ends({p \in DOMAIN Str(a) : Signed(a[p]) = call.c}, fn = "strchr")
          /\ fn = "strstr" =>
               /\ ret # NULL => ret \in Occurrences
               /\ (\A j \in 2 .. Len(needle) : needle[j] # needle[1]) => ret = first
          /\ fn = "memset" => a = [j \in 1 .. Len(a) |-> IF j <= call.n THEN call.c % 256 ELSE call.a[j]]
          /\ fn = "strcpy" => Filled(needle, Len(needle) + 1)
          /\ fn = "strncpy" => Filled(Prefix(needle, call.n), call.n)
          /\ fn \in {"strdup", "strndup"} => ret = NULL \/ a = Append(text, 0)
          /\ fn \notin {"memset"} \cup Copies => a = call.a
=============================================================================
