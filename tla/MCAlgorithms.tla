---------------------------- MODULE MCAlgorithms ----------------------------
(***************************************************************************)
(* Algorithms on small arguments.                                          *)
(*                                                                         *)
(* Dates: the first and last days of months in leap years, common years    *)
(* and years around centuries; time zones on both sides and none.          *)
(* Numerals: all strings of up to four characters; integers of 4 bits.     *)
(* strtok: two strings of up to four characters, begun and left at any     *)
(* time.                                                                   *)
(* Strings: arrays of up to three of four characters, two of them of the   *)
(* two cases of one letter and one above 127.                              *)
(* Unsupported functions: any three calls.  Sleep: seconds of four         *)
(* microseconds.                                                           *)
(***************************************************************************)
EXTENDS Algorithms

MCTimesOfDay == {<<0, 0, 0>>, <<23, 59, 59>>}
MCUpTo4(S) == UNION {[1 .. l -> S] : l \in 0 .. 4}
MCNumerals == MCUpTo4({" ", "-", "0", "1", "8", "a", "x"})
MCTexts == MCUpTo4({"a", ","})
MCSeconds == 0 .. 3
MCMicros == 0 .. 10
MCZones == {-60, 0, 2047}
MCSought == {-56, 0, 97, 200}

(* The table of character classes is that of C.                            *)
ASSUME CString!ClassesOfC
=============================================================================
