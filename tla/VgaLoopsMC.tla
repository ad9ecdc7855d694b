------------------------------ MODULE VgaLoopsMC ------------------------------
(***************************************************************************)
(* An instance of module VgaLoops for TLC.                                 *)
(***************************************************************************)
EXTENDS VgaLoops

MCChars == {" ", "nul", "a"}
MCAttrs == {0, 7}
MCDrawn == {<<"a", 0>>}
MCWindows == {<<0, 7, <<2, 0, 9, 0>>>>, <<1, 7, <<0, 0, 1, 9>>>>, <<2, 7, <<0, 0, 9, 9>>>>}
===============================================================================
