------------------------------- MODULE Strtox -------------------------------
(***************************************************************************)
(* c/strtox.c, the source of strtol, strtoll, strtoul and strtoull: white  *)
(* space, a sign, a prefix that may set the base, and digits until one is  *)
(* not allowed, accumulated in an unsigned type of Word values without     *)
(* ever overflowing it.  A character of a text stands for those the code   *)
(* treats alike: a small letter for itself and its capital, "x" in a       *)
(* prefix too (strtox.c:75, 114-119), and " " for any white space.         *)
(***************************************************************************)
EXTENDS Integers, Sequences

CONSTANTS
  Texts,  \* the strings converted: sequences of characters
  Bases,  \* the bases passed
  Word    \* number of values of the unsigned type

StrtoxAssumption ==
  /\ Word \in Nat \ {0, 1} /\ Word % 2 = 0 /\ Bases \subseteq Nat
  /\ \A t \in Texts : t \in Seq({t[k] : k \in DOMAIN t})

Digits == <<"0", "1", "2", "3", "4", "5", "6", "7", "8", "9", "a", "b", "c", "d", "e", "f",
            "g", "h", "i", "j", "k", "l", "m", "n", "o", "p", "q", "r", "s", "t", "u", "v",
            "w", "x", "y", "z">>

INTMAX(unsigned) == IF unsigned THEN Word - 1 ELSE Word \div 2 - 1
INTMIN == -(Word \div 2)

VARIABLES
  nptr, unsigned, base0,  \* the string, the variant, the base passed
  pc,        \* "space", "sign", "prefix", "digits", "done"
  s,         \* characters of nptr read
  base,      \* the base in use
  positive,
  absval, overflow,
  endc,      \* characters of nptr before *endptr; -1 if it is not set
  value      \* the value returned

vars == <<nptr, unsigned, base0, pc, s, base, positive, absval, overflow, endc, value>>
args == <<nptr, unsigned, base0>>

Init ==
  /\ nptr \in Texts /\ unsigned \in BOOLEAN /\ base0 \in Bases
  /\ pc = "space" /\ s = 0 /\ base = base0 /\ positive = TRUE
  /\ absval = 0 /\ overflow = FALSE /\ endc = 0 /\ value = 0

Rest == SubSeq(nptr, s + 1, Len(nptr))
Char == IF s < Len(nptr) THEN nptr[s + 1] ELSE "NUL"

BaseRefused ==
  /\ pc = "space" /\ base0 \notin {0} \cup 2 .. 36
  /\ pc' = "done" /\ endc' = -1
  /\ UNCHANGED <<args, s, base, positive, absval, overflow, value>>

SkipSpace ==
  /\ pc = "space" /\ base0 \in {0} \cup 2 .. 36
  /\ IF Char = " " THEN s' = s + 1 /\ UNCHANGED pc ELSE pc' = "sign" /\ UNCHANGED s
  /\ UNCHANGED <<args, base, positive, absval, overflow, endc, value>>

Sign ==
  /\ pc = "sign"
  /\ pc' = "prefix"
  /\ s' = IF Char \in {"+", "-"} THEN s + 1 ELSE s
  /\ positive' = (Char # "-")
  /\ UNCHANGED <<args, base, absval, overflow, endc, value>>

HexPrefix == Len(Rest) >= 2 /\ Rest[1] = "0" /\ Rest[2] = "x"

PrefixEndsBehind ==
  /\ pc = "prefix"
  /\ pc' = "digits"
  /\ IF base \in {0, 16} /\ HexPrefix
     THEN base' = 16 /\ s' = s + 2 /\ endc' = s + 2
     ELSE /\ base' = IF base # 0 THEN base ELSE IF Char = "0" THEN 8 ELSE 10
          /\ UNCHANGED <<s, endc>>
  /\ UNCHANGED <<args, positive, absval, overflow, value>>

(* 0x is taken in bases 0 and 16; if no digit follows, the 0 is the number.*)
Prefix ==
  /\ pc = "prefix"
  /\ pc' = "digits"
  /\ IF base \in {0, 16} /\ HexPrefix
     THEN base' = 16 /\ s' = s + 2 /\ endc' = s + 1
     ELSE /\ base' = IF base # 0 THEN base ELSE IF Char = "0" THEN 8 ELSE 10
          /\ UNCHANGED <<s, endc>>
  /\ UNCHANGED <<args, positive, absval, overflow, value>>

(* max_unshifted_absval and max_last_digit.                                *)
Limit == IF positive \/ unsigned THEN INTMAX(unsigned) ELSE -INTMIN

(* absval * base + digit would pass the limit.                             *)
Overflows(digit) ==
  \/ absval > Limit \div base
  \/ absval = Limit \div base /\ digit > Limit % base

Allowed(c) == \E d \in 1 .. base : Digits[d] = c
DigitOf(c) == (CHOOSE d \in 1 .. base : Digits[d] = c) - 1

Digit ==
  /\ pc = "digits" /\ Allowed(Char)
  /\ s' = s + 1 /\ endc' = s + 1
  /\ IF overflow \/ Overflows(DigitOf(Char))
     THEN overflow' = TRUE /\ UNCHANGED absval
     ELSE /\ absval' = (absval * base + DigitOf(Char)) % Word
          /\ UNCHANGED overflow
  /\ UNCHANGED <<args, pc, base, positive, value>>

(* A value of the unsigned type as one of the type returned.               *)
AsReturned(n) == LET u == n % Word IN IF unsigned \/ u <= INTMAX(FALSE) THEN u ELSE u - Word

Return ==
  /\ pc = "digits" /\ ~Allowed(Char)
  /\ pc' = "done"
  /\ value' = IF overflow THEN IF ~positive /\ ~unsigned THEN INTMIN ELSE INTMAX(unsigned)
              ELSE IF positive THEN AsReturned(absval) ELSE AsReturned(-absval)
  /\ UNCHANGED <<args, s, base, positive, absval, overflow, endc>>

Next == BaseRefused \/ SkipSpace \/ Sign \/ Prefix \/ Digit \/ Return

Spec == Init /\ [][Next]_vars

-----------------------------------------------------------------------------
(* What a conversion is, without its loop.                                 *)

InBase(b, c) == \E d \in 1 .. b : Digits[d] = c

(* text is digits of base b, and stands for Number(b, text).               *)
IsNumber(b, text) == text # << >> /\ \A k \in 1 .. Len(text) : InBase(b, text[k])

Number(b, text) ==
  LET of[k \in 0 .. Len(text)] ==
        IF k = 0 THEN 0 ELSE of[k - 1] * b + (CHOOSE d \in 1 .. b : Digits[d] = text[k]) - 1
  IN of[Len(text)]

(* The first n characters are a number in base b, from character m + 1 on  *)
(* its digits: white space, a sign and 0x may come before.                 *)
Reads(m, n, b) ==
  LET front == SubSeq(nptr, 1, m)
      hex == b = 16 /\ m >= 2 /\ SubSeq(front, m - 1, m) = <<"0", "x">>
  IN /\ IsNumber(b, SubSeq(nptr, m + 1, n))
     /\ \E k \in (IF hex THEN {m, m - 2} ELSE {m}) :
          \E j \in {k, k - 1} :
            /\ j >= 0 /\ \A l \in 1 .. j : nptr[l] = " "
            /\ k > j => nptr[k] \in {"+", "-"}
     /\ base0 = 0 => b = (IF hex THEN 16 ELSE IF nptr[m + 1] = "0" THEN 8 ELSE 10)
     /\ base0 # 0 => b = base0

Negative(m) == \E k \in 1 .. m : nptr[k] = "-"

Clamped(n, minus) ==
  IF unsigned THEN IF n > Word - 1 THEN Word - 1 ELSE IF minus THEN (-n) % Word ELSE n
  ELSE IF minus THEN (IF -n < INTMIN THEN INTMIN ELSE -n)
       ELSE IF n > INTMAX(FALSE) THEN INTMAX(FALSE) ELSE n

Readings ==
  {r \in (0 .. Len(nptr)) \X (1 .. Len(nptr)) \X ({8, 10, 16} \cup Bases) :
     r[1] < r[2] /\ r[3] \in 2 .. 36 /\ Reads(r[1], r[2], r[3])}

Longest(R) == CHOOSE r \in R : \A q \in R : q[2] <= r[2]

(* The result is the value of the longest number the string begins with,   *)
(* clamped to the type, and *endptr the character behind it; 0 and nptr if *)
(* there is none.  At the edges of the type nothing wraps but the minus of *)
(* an unsigned value.                                                      *)
ConvertsValue ==
  pc = "done" /\ endc # -1 =>
    IF Readings = {} THEN value = 0 /\ endc = 0
    ELSE LET r == Longest(Readings) IN
         /\ endc = r[2]
         /\ value = Clamped(Number(r[3], SubSeq(nptr, r[1] + 1, r[2])), Negative(r[1]))
=============================================================================
