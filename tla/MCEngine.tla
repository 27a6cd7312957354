------------------------------- MODULE MCEngine -------------------------------
(***************************************************************************)
(* Instances of Engine, and what the comments in the code say of it.       *)
(***************************************************************************)
EXTENDS Engine

AllOps    == {"setSong", "play", "loadDrumkit", "restart", "export", "quit"}
ExportOps == {"export"}

(* "Export a song to a wav file" (Engine.cpp:1086): once the disk writer    *)
(* runs, it renders a cycle, unless the user stops it first.                *)
Exports == driver = "disk" /\ active ~> ~active \/ cycle = "render"
=============================================================================
