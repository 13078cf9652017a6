----------------------------- MODULE StdString ------------------------------
(***************************************************************************)
(* cxx/include/string: strings that own a buffer of size_ + 1 characters,  *)
(* the last a NUL, or none when they are empty.  Operations take another   *)
(* string by reference, which may be the string itself.                    *)
(***************************************************************************)
EXTENDS Integers, Sequences

CONSTANTS
  Str,        \* the program's strings
  Buffer,     \* the addresses new char[] may return
  nullptr,
  Char, NUL,  \* the characters
  Texts,      \* what strings are constructed from
  MaxSize,    \* bound on the size of a string
  OwnAppend   \* the program appends strings to themselves

StdStringAssumption ==
  /\ nullptr \notin Buffer /\ NUL \in Char /\ MaxSize \in Nat
  /\ Texts \subseteq Seq(Char) /\ OwnAppend \in BOOLEAN

VARIABLES
  str,      \* the two members of each string
  mem,      \* the buffers that are allocated: address -> characters
  overrun,  \* memcpy has written past the end of a buffer
  aborted   \* substr or replace has called abort()

vars == <<str, mem, overrun, aborted>>

(* The methods are functions of the pair m of the strings and the buffers. *)
Now == [str |-> str, mem |-> mem]

Empty == [size_ |-> 0, data_ |-> nullptr]

Size(m, v) == m.str[v].size_
Chars(m, v) == IF m.str[v].data_ = nullptr THEN << >> ELSE m.mem[m.str[v].data_]
Text(m, v) == SubSeq(Chars(m, v), 1, Size(m, v))

Init ==
  /\ str = [v \in Str |-> Empty]
  /\ mem = << >>
  /\ overrun = FALSE /\ aborted = FALSE

Become(m) == str' = m.str /\ mem' = m.mem /\ UNCHANGED <<overrun, aborted>>

Abort == aborted' = TRUE /\ UNCHANGED <<str, mem, overrun>>

Without(f, x) == [y \in DOMAIN f \ {x} |-> f[y]]
With(f, x, e) == [y \in DOMAIN f \cup {x} |-> IF y = x THEN e ELSE f[y]]

Cleared(m, v) ==
  [str |-> [m.str EXCEPT ![v] = Empty], mem |-> Without(m.mem, m.str[v].data_)]

(* NewData() with s copied to it: the buffer b, unless s is empty.         *)
Held(m, v, b, s) ==
  IF s = << >> THEN [m EXCEPT !.str[v] = Empty]
  ELSE [str |-> [m.str EXCEPT ![v] = [size_ |-> Len(s), data_ |-> b]],
        mem |-> With(m.mem, b, Append(s, NUL))]

Free(m, b) == b \in Buffer \ DOMAIN m.mem

(* The old buffer is deleted before the new one is made, or after it.      *)
ClearedFirst(v, b, s) ==
  LET m == Cleared(Now, v) IN Free(m, b) /\ Len(s) <= MaxSize /\ Become(Held(m, v, b, s))

KeptAndRenewed(m, v, b, s) ==
  LET n == Held(m, v, b, s) IN [n EXCEPT !.mem = Without(@, m.str[v].data_)]

Renewed(v, b, s) ==
  /\ Free(Now, b) /\ Len(s) <= MaxSize
  /\ Become(KeptAndRenewed(Now, v, b, s))

-----------------------------------------------------------------------------
(* The methods.                                                            *)

(* A string is destroyed and constructed again from characters.            *)
Construct(v, b, s) == ClearedFirst(v, b, s)

(* operator=(const string&), and the copy constructor if v is new: clear() *)
(* comes first, so a string assigned to itself is copied when it is empty. *)
Assign(v, w, b) == ClearedFirst(v, b, Text(Cleared(Now, v), w))

MoveLeaking(v, w) ==
  Become([Now EXCEPT !.str = [[@ EXCEPT ![v] = str[w]] EXCEPT ![w] = Empty]])

(* operator=(string&&), and the move constructor.                          *)
Move(v, w) ==
  LET m == Cleared(Now, v) IN
  Become([m EXCEPT !.str = [[@ EXCEPT ![v] = m.str[w]] EXCEPT ![w] = Empty]])

Clear(v) == Become(Cleared(Now, v))

Resized(s, n, c) == [i \in 1 .. n |-> IF i <= Len(s) THEN s[i] ELSE c]

Resize(v, n, c, b) == Renewed(v, b, Resized(Text(Now, v), n, c))

(* memcpy of the text of w into the buffer of v behind the first at        *)
(* characters, one by one; the two may be one string.                      *)
Memcpy(m, v, w, at) ==
  LET copied[k \in DOMAIN Chars(m, v)] ==
        IF k \notin (at + 1) .. (at + Size(m, w)) THEN Chars(m, v)[k]
        ELSE IF v = w THEN copied[k - at] ELSE Chars(m, w)[k - at]
  IN [k \in DOMAIN Chars(m, v) |-> copied[k]]

(* append(): resize to the sum of the sizes, then copy other.size_         *)
(* characters, which is the new size if other is the string itself.        *)
AppendTo(v, w, b) ==
  LET at == Size(Now, v)
      s == Resized(Text(Now, v), at + Size(Now, w), NUL)
      m == KeptAndRenewed(Now, v, b, s)
  IN /\ v = w => OwnAppend
     /\ Free(Now, b) /\ Len(s) <= MaxSize
     /\ str' = m.str
     /\ mem' = IF s = << >> THEN m.mem
               ELSE [m.mem EXCEPT ![m.str[v].data_] = Memcpy(m, v, w, at)]
     /\ overrun' = (overrun \/ at + Size(m, w) > Len(Chars(m, v)))
     /\ UNCHANGED aborted

(* operator+=: the same, unless there is nothing to append.                *)
AppendAssign(v, w, b) ==
  IF Size(Now, w) = 0 THEN UNCHANGED vars ELSE AppendTo(v, w, b)

(* The length len of the program, cut to what there is behind pos.         *)
Cut(s, pos, len) == IF len > Len(s) - pos THEN Len(s) - pos ELSE len

ReplaceClearedFirst(v, w, pos, len, b) ==
  LET s == Text(Now, v)
      rest == SubSeq(s, pos + Cut(s, pos, len) + 1, Len(s))
  IN IF pos > Len(s) THEN Abort
     ELSE ClearedFirst(v, b, SubSeq(s, 1, pos) \o Text(Cleared(Now, v), w) \o rest)

(* replace(): the new text is built before the old one is deleted.         *)
Replace(v, w, pos, len, b) ==
  LET s == Text(Now, v)
      rest == SubSeq(s, pos + Cut(s, pos, len) + 1, Len(s))
  IN IF pos > Len(s) THEN Abort
     ELSE Renewed(v, b, SubSeq(s, 1, pos) \o Text(Now, w) \o rest)

(* v = w.substr(pos, len), by way of a temporary.                          *)
Substr(v, w, pos, len, b) ==
  LET s == Text(Now, w) IN
  IF pos > Len(s) THEN Abort
  ELSE Renewed(v, b, SubSeq(s, pos + 1, pos + Cut(s, pos, len)))

(* v = w + x, by way of a temporary.                                       *)
Plus(v, w, x, b) == Renewed(v, b, Text(Now, w) \o Text(Now, x))

(* v[i] = c, also through at(), data() or an iterator.                     *)
Store(v, i, c) ==
  /\ mem' = [mem EXCEPT ![str[v].data_][i] = c]
  /\ UNCHANGED <<str, overrun, aborted>>

Next ==
  /\ ~aborted /\ ~overrun
  /\ \E v, w \in Str, b \in Buffer :
       \/ \E s \in Texts : Construct(v, b, s)
       \/ \E n \in 0 .. MaxSize, c \in Char : Resize(v, n, c, b)
       \/ \E i \in 1 .. Size(Now, v), c \in Char : Store(v, i, c)
       \/ Assign(v, w, b) \/ Move(v, w) \/ Clear(v)
       \/ AppendTo(v, w, b) \/ AppendAssign(v, w, b)
       \/ \E pos, len \in 0 .. (MaxSize + 1) : Replace(v, w, pos, len, b) \/ Substr(v, w, pos, len, b)
       \/ \E x \in Str : Plus(v, w, x, b)

Spec == Init /\ [][Next]_vars

-----------------------------------------------------------------------------
(* Properties.                                                             *)

(* string:195-196: a '\0' follows the text of every non-empty string, so   *)
(* that c_str() can just return data().  Each has a buffer of its own that *)
(* holds just that; none is shared, leaked, deleted twice or overrun.      *)
BuffersSound ==
  /\ ~overrun
  /\ \A v \in Str :
       IF Size(Now, v) = 0 THEN str[v] = Empty
       ELSE /\ str[v].data_ \in DOMAIN mem
            /\ Len(Chars(Now, v)) = Size(Now, v) + 1
            /\ Chars(Now, v)[Size(Now, v) + 1] = NUL
            /\ \A w \in Str \ {v} : str[w].data_ # str[v].data_
  /\ DOMAIN mem = {str[v].data_ : v \in Str} \ {nullptr}

Abstract == INSTANCE StringValues WITH text <- [v \in Str |-> Text(Now, v)]

(* The strings implement StringValues: an operation on one disturbs no     *)
(* other and gives the text it says, also if it is given the string itself.*)
ImplementsValues == Abstract!Spec
=============================================================================
