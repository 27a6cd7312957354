------------------------------ MODULE MCSampler ------------------------------
(***************************************************************************)
(* Small instances of Sampler.                                             *)
(***************************************************************************)
EXTENDS Sampler, TLC

CONSTANTS a, b

Mute     == a :> 1 @@ b :> 1 @@ Preview :> -1
Frames   == {1, 2}
OneLimit == {1, -1}
=============================================================================
