---------------------------- MODULE MCSeqScript ----------------------------
(***************************************************************************)
(* A small instance of SeqScript and of the queue it implements.           *)
(***************************************************************************)
EXTENDS SeqScriptQueue

OneInstrument == {<<"on", 1>>, <<"off", 1>>}
EngineOps     == {"insert_note", "insert", "consumed", "clear", "reserve"}
SomeLengths   == {0, 1}
=============================================================================
