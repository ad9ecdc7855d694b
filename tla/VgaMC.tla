-------------------------------- MODULE VgaMC ---------------------------------
(***************************************************************************)
(* Instances of module Vga for TLC.                                        *)
(***************************************************************************)
EXTENDS Vga

MCChars == {" ", "nul", "a"}
MCAttrs == {0, 7}
===============================================================================
