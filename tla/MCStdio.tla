------------------------------ MODULE MCStdio -------------------------------
(***************************************************************************)
(* Output with a buffer of two characters in vfprintf, over hooks that     *)
(* print two at a time.                                                    *)
(***************************************************************************)
EXTENDS Output

(* Texts of up to five characters, one with a NUL in it.                   *)
MCTexts == {<< >>, <<"a">>, <<"a", "b">>, <<"a", "b", "c">>,
            <<"a", "NUL", "c">>, <<"a", "b", "c", "d", "e">>}

(* Texts shorter than, as long as and longer than the memory of vsnprintf. *)
MCFormatted == UNION {[1 .. n -> {"a", "b"}] : n \in 0 .. 4}
MCSizes == 0 .. 5
=============================================================================
