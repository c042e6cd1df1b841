--------------------------------- MODULE MCLibrary ---------------------------------
(***************************************************************************)
(* Library for TLC.                                                        *)
(***************************************************************************)
EXTENDS Library
=============================================================================
