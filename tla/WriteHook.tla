----------------------------- MODULE WriteHook -----------------------------
(***************************************************************************)
(* What the write hooks (write_stdout and write_stderr of c/libc.h) may do *)
(* with the characters s they are given, for the two runtimes there are:   *)
(* what they return, and what is printed.  c/stdio.c is checked over these *)
(* outcomes; that the code of the EFI hooks has no others is checked in    *)
(* EfiConsole.                                                             *)
(***************************************************************************)
EXTENDS Integers, Sequences, SequencesExt

CONSTANTS
  NUL,   \* the character that ends a string
  Piece  \* how many characters the EFI hooks print at a time

WriteHookAssumption == Piece \in Nat \ {0}

(* native/start_main.c: write(2) takes any part of s and says so, or fails.*)
NativeOutcomes(s) ==
  {[ret |-> n, printed |-> SubSeq(s, 1, n)] : n \in 0 .. Len(s)}
    \cup {[ret |-> -1, printed |-> << >>]}

UpToNul(s) == SubSeq(s, 1, SelectInSeq(Append(s, NUL), LAMBDA c : c = NUL) - 1)

Pieces(s) ==
  LET shown == UpToNul(s) IN
  [j \in 1 .. ((Len(shown) + Piece - 1) \div Piece) |->
     SubSeq(shown, (j - 1) * Piece + 1,
            IF j * Piece < Len(shown) THEN j * Piece ELSE Len(shown))]

(* efi/start_main.c: s is printed to its first NUL, piece by piece, each of*)
(* which the console may refuse; the hook says that it has printed s.      *)
ConsoleOutcomes(s) ==
  {[ret |-> Len(s),
    printed |-> FlattenSeq([j \in DOMAIN Pieces(s) |->
                              IF j \in taken THEN Pieces(s)[j] ELSE << >>])] :
     taken \in SUBSET (DOMAIN Pieces(s))}
=============================================================================
