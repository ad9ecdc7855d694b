------------------------------- MODULE PortsMC --------------------------------
(***************************************************************************)
(* An instance of module Ports for TLC.                                    *)
(***************************************************************************)
EXTENDS Ports
===============================================================================
