----------------------------- MODULE MCTransport -----------------------------
(***************************************************************************)
(* Small instances of Transport: a tick is 2 1/2 or 3 1/4 frames long, so  *)
(* that ticks may lie half a frame off, and a bar three or four ticks.     *)
(***************************************************************************)
EXTENDS Transport

TwoTempos == {10, 13}
TwoBars   == <<3, 4>>
ThreeCycles == {1, 2, 3}
InTheSong == DOMAIN Bars
=============================================================================
