---------------------------- MODULE VgaTerminalMC -----------------------------
(***************************************************************************)
(* An instance of module VgaTerminal for TLC.                              *)
(***************************************************************************)
EXTENDS VgaTerminal

MCChars == {" ", "nul", "a"}
MCAttrs == {0, 7}
===============================================================================
