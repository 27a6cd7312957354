------------------------------- MODULE MCKit --------------------------------
(***************************************************************************)
(* Small instances of Kit.                                                 *)
(***************************************************************************)
EXTENDS Kit

BothHosts == {"plugin", "app"}
=============================================================================
