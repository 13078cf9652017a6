------------------------------- MODULE MCEfi --------------------------------
(***************************************************************************)
(* Efi with chunks of two characters and pointers of two bytes.            *)
(***************************************************************************)
EXTENDS Efi

(* Every buffer of up to five characters, newlines and NULs anywhere.      *)
MCTexts == UNION {[1 .. n -> {"a", "\n", "NUL"}] : n \in 0 .. 5}

(* EXIT_SUCCESS, EXIT_FAILURE, abort()'s -1 and a value that is none.      *)
MCExitCodes == {-1, 0, 1, 3}

(* No argument up to three, empty ones among them.                         *)
MCArgvs == UNION {[1 .. n -> {<< >>, <<97>>, <<98, 97>>}] : n \in 0 .. 3}
=============================================================================
