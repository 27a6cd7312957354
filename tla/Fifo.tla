-------------------------------- MODULE Fifo --------------------------------
(***************************************************************************)
(* What a service with a queue and a thread of its own promises its        *)
(* callers: it does what it has taken on once each and in order, for as    *)
(* long as it is open.  The logger is such a service.                      *)
(***************************************************************************)
EXTENDS Naturals, Sequences

CONSTANT Requests

VARIABLES
  taken,  \* the requests the service has taken on, in order
  done,   \* the requests it has done, in order
  open    \* whether it has not been told to end yet

vars == <<taken, done, open>>

Init == taken = <<>> /\ done = <<>> /\ open = TRUE

Take(r) ==
  /\ open
  /\ taken' = Append(taken, r)
  /\ UNCHANGED <<done, open>>

(* What was begun before the service was closed may be done after it.      *)
Do ==
  /\ Len(done) < Len(taken)
  /\ done' = Append(done, taken[Len(done) + 1])
  /\ UNCHANGED <<taken, open>>

Close ==
  /\ open
  /\ open' = FALSE
  /\ UNCHANGED <<taken, done>>

Next == Do \/ Close \/ \E r \in Requests : Take(r)

SafeSpec == Init /\ [][Next]_vars

Spec == SafeSpec /\ WF_vars(open /\ Do)
=============================================================================
