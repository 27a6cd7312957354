---------------------------- MODULE SortedEvents ----------------------------
(***************************************************************************)
(* Sequences of events sorted by frame.                                    *)
(***************************************************************************)
EXTENDS Integers, Sequences

(* How many events of a sorted sequence come before a frame.               *)
Cut(q, frame) ==
  CHOOSE k \in 0..Len(q) : \A i \in 1..Len(q) : q[i].frame < frame <=> i <= k

(* The event comes after those of its frame and before the later ones.     *)
InsertSorted(q, e) ==
  LET k == Cut(q, e.frame + 1)
  IN  [i \in 1..(Len(q) + 1) |->
         IF i <= k THEN q[i] ELSE IF i = k + 1 THEN e ELSE q[i - 1]]

(* The events from a frame on, counted from that frame.                    *)
After(q, frame) ==
  LET k == Cut(q, frame)
  IN  [i \in 1..(Len(q) - k) |-> [q[i + k] EXCEPT !.frame = @ - frame]]
=============================================================================
