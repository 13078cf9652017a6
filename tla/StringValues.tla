---------------------------- MODULE StringValues ----------------------------
(***************************************************************************)
(* What the strings of a program promise: each has a text of its own, and  *)
(* an operation changes the texts it is about to what it says, through any *)
(* aliases but one: a string assigned to itself, by copy or by move, is    *)
(* empty afterwards.                                                       *)
(***************************************************************************)
EXTENDS Integers, Sequences

CONSTANTS Str, Char, Texts, MaxSize

VARIABLE text

Init == text = [v \in Str |-> << >>]

Set(v, s) == text' = [text EXCEPT ![v] = s]

Front_(s, n) == SubSeq(s, 1, n)
Back(s, n) == SubSeq(s, n + 1, Len(s))

Assign(v, w) == Set(v, IF v = w THEN << >> ELSE text[w])

Move(v, w) ==
  text' = [[text EXCEPT ![v] = IF v = w THEN << >> ELSE text[w]] EXCEPT ![w] = << >>]

Resize(v, n, c) ==
  Set(v, IF n <= Len(text[v]) THEN Front_(text[v], n)
         ELSE text[v] \o [i \in 1 .. (n - Len(text[v])) |-> c])

(* The characters from pos up to end are now those of w.                   *)
Replace(v, w, pos, end) == Set(v, Front_(text[v], pos) \o text[w] \o Back(text[v], end))

Next ==
  \E v \in Str :
    \/ \E s \in Texts : Set(v, s)
    \/ \E n \in 0 .. MaxSize, c \in Char : Resize(v, n, c)
    \/ \E i \in DOMAIN text[v], c \in Char : Set(v, [text[v] EXCEPT ![i] = c])
    \/ \E w \in Str :
         \/ Assign(v, w) \/ Move(v, w)
         \/ Set(v, text[v] \o text[w])
         \/ \E pos \in 0 .. Len(text[v]) : \E end \in pos .. Len(text[v]) :
              Replace(v, w, pos, end)
         \/ \E pos \in 0 .. Len(text[w]) : \E end \in pos .. Len(text[w]) :
              Set(v, SubSeq(text[w], pos + 1, end))
         \/ \E x \in Str : Set(v, text[w] \o text[x])

Spec == Init /\ [][Next]_text
=============================================================================
