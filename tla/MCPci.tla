------------------------------- MODULE MCPci --------------------------------
(***************************************************************************)
(* Pci on a small machine.                                                 *)
(*                                                                         *)
(* Linux: every layout of four registers of 32- and 64-bit BARs, accesses  *)
(* that end before, at and behind the end of a BAR and of config space,    *)
(* and offsets whose sum with 4 wraps in size_t of 16 values (unsigned has *)
(* 12).                                                                    *)
(* EFI: three handles at three of four places, two devices open.           *)
(* Polls: registers of two bits and time in half microseconds.  A timeout  *)
(* of 3 microseconds wraps in words of 25 values.                          *)
(* Locators: up to four numbers in base 2, with domains of four digits,    *)
(* buses and devices of two, functions of one.                             *)
(* Registers: four bytes of config space and of a BAR.                     *)
(***************************************************************************)
EXTENDS Pci

(* 16 is what the masks do not see.                                        *)
MCFields ==
  [v : {0, 1}, w : {1, 2, 4}]
    \cup {[v |-> 0, w |-> 0], [v |-> 1, w |-> 9], [v |-> 4, w |-> 9], [v |-> 16, w |-> 9]}

MCWidth == <<4, 2, 2, 1>>
MCLimit == <<15, 3, 3, 1>>
MCDevices == {<<0, 0, 1, 0>>, <<0, 1, 0, 1>>, <<1, 0, 1, 1>>}

MCNumbers == {<<1, 2>>, <<3, 1>>, <<1, 2, 3, 4>>, <<4, 0, 2, 2>>}
=============================================================================
