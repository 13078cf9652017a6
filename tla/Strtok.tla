------------------------------- MODULE Strtok -------------------------------
(***************************************************************************)
(* strtok of c/string.c: the tokens of a string one call at a time.  The   *)
(* string is cut in place, and where to go on is kept in a static variable *)
(* for whichever string was begun last.                                    *)
(***************************************************************************)
EXTENDS Integers, Sequences, SequencesExt

CONSTANTS
  Str,     \* the program's strings
  Texts,   \* what they may hold
  Delims,  \* the characters of delim
  NUL

NULL == 0

(* Texts are what comes before a NUL.                                      *)
StrtokAssumption ==
  /\ NUL \notin Delims /\ NULL \notin Str
  /\ \A s \in Texts : s \in Seq({s[k] : k \in DOMAIN s} \ {NUL})

VARIABLES
  text,    \* what each string held when it was last begun
  mem,     \* the characters of each string, its last NUL included
  saveptr, \* global_saveptr: <<string, position>>, or NULL
  current, \* the string begun last
  tokens,  \* the tokens returned of it: sequences of characters
  ended    \* NULL has been returned for it

vars == <<text, mem, saveptr, current, tokens, ended>>

(* The string that begins at position p.                                   *)
At(m, p) ==
  LET end == CHOOSE k \in p .. Len(m) : m[k] = NUL /\ \A j \in p .. (k - 1) : m[j] # NUL
  IN SubSeq(m, p, end - 1)

Init ==
  /\ text \in [Str -> Texts]
  /\ mem = [x \in Str |-> Append(text[x], NUL)]
  /\ saveptr = <<NULL, NULL>>
  /\ current = NULL /\ tokens = << >> /\ ended = FALSE

StrspnOne(s) == IF s # << >> /\ s[1] \in Delims THEN 1 ELSE 0

(* The number of delimiters s begins with.                                 *)
Strspn(s) == CHOOSE n \in 0 .. Len(s) :
               /\ \A k \in 1 .. n : s[k] \in Delims
               /\ n < Len(s) => s[n + 1] \notin Delims

(* The characters before the first that strpbrk finds, or all.             *)
BeforeDelim(s) == CHOOSE n \in 0 .. Len(s) :
                    /\ \A k \in 1 .. n : s[k] \notin Delims
                    /\ n < Len(s) => s[n + 1] \in Delims

(* strtok_r() from position p of string x: leading delimiters are skipped, *)
(* the token is cut off, and the rest is for the next call.                *)
Token(x, p, before) ==
  LET start == p + Strspn(At(mem[x], p))
      token == SubSeq(At(mem[x], start), 1, BeforeDelim(At(mem[x], start)))
      end == start + Len(token)
  IN IF mem[x][start] = NUL
     THEN /\ saveptr' = <<x, start>>
          /\ tokens' = before /\ ended' = TRUE
          /\ UNCHANGED mem
     ELSE /\ mem' = [mem EXCEPT ![x][end] = NUL]
          /\ saveptr' = <<x, IF mem[x][end] = NUL THEN end ELSE end + 1>>
          /\ tokens' = Append(before, token) /\ ended' = FALSE

(* strtok(x, delim).                                                       *)
Begin(x) ==
  /\ Token(x, 1, << >>)
  /\ text' = [text EXCEPT ![x] = At(mem[x], 1)]
  /\ current' = x

(* strtok(NULL, delim).                                                    *)
Continue ==
  /\ current # NULL
  /\ Token(saveptr[1], saveptr[2], tokens)
  /\ UNCHANGED <<text, current>>

Next == (\E x \in Str : Begin(x)) \/ Continue

Spec == Init /\ [][Next]_vars

-----------------------------------------------------------------------------
(* Properties.                                                             *)

(* The maximal runs of s without a delimiter, in order.                    *)
Starts(s) == {k \in 1 .. Len(s) : s[k] \notin Delims /\ (k = 1 \/ s[k - 1] \in Delims)}
TokenAt(s, k) == SubSeq(s, k, k + BeforeDelim(SubSeq(s, k, Len(s))) - 1)
Tokens(s) ==
  [i \in 1 .. Cardinality(Starts(s)) |->
     TokenAt(s, CHOOSE k \in Starts(s) : Cardinality({j \in Starts(s) : j <= k}) = i)]

(* The tokens returned are those of the string as it was begun, in order,  *)
(* and none is left out when NULL is returned, nor returned after that,    *)
(* whichever strings were begun and left before; outside of the cuts the   *)
(* string is as it was.                                                    *)
TokensInOrder ==
  current # NULL =>
    /\ IsPrefix(tokens, Tokens(text[current]))
    /\ ended => tokens = Tokens(text[current])
    /\ \A k \in 1 .. Len(text[current]) :
         \/ mem[current][k] = text[current][k]
         \/ mem[current][k] = NUL /\ text[current][k] \in Delims
=============================================================================
