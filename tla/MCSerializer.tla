---------------------------- MODULE MCSerializer ----------------------------
(***************************************************************************)
(* Small instances of Serializer.                                          *)
(***************************************************************************)
EXTENDS Serializer

EveryCaller == {"call", "plugin"}
=============================================================================
