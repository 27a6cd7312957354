---------------------------- MODULE MCEventQueue ----------------------------
(***************************************************************************)
(* A small instance of EventQueue.                                         *)
(***************************************************************************)
EXTENDS EventQueue

EngineThreads == {"audio", "midi"}
=============================================================================
