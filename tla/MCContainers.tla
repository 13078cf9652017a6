---------------------------- MODULE MCContainers ----------------------------
(***************************************************************************)
(* Containers on small instances.                                          *)
(*                                                                         *)
(* Two vectors of up to three items; buffers of 2 and 4 items, so that     *)
(* both grow once, each while the other has no buffer: there are two       *)
(* addresses.                                                              *)
(* A map with three of four keys that collide in every table, the other    *)
(* one with them until the table grows.  Three entries fill tables of 2, 4 *)
(* and 8 slots and a chain of three.                                       *)
(* Two strings of up to three characters, each also given itself.          *)
(* Two unique_ptrs and three objects.                                      *)
(***************************************************************************)
EXTENDS Containers, TLC

MCRanges == {<<1>>, <<1, 1>>}
MCHash == "a" :> 0 @@ "b" :> 8 @@ "c" :> 16 @@ "d" :> 2
MCTexts == {<< >>, <<"a">>, <<"a", "a">>}

(* The program's containers are alike, and so are the addresses.           *)
Symmetric == Permutations(Vec) \cup Permutations(VecBuffer)
=============================================================================
