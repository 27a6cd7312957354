------------------------------- MODULE MCJack -------------------------------
(***************************************************************************)
(* Instances of Jack: with every failure and three addresses, of which two *)
(* may be those of stray subscribers, and without any failure.             *)
(***************************************************************************)
EXTENDS Jack

AnyFailure == {"open", "ports", "midiport", "connect", "server"}
NoFailure  == {}

ThreeAddresses == 1..3
TwoAddresses   == 1..2
=============================================================================
