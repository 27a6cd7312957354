------------------------------ MODULE SeqQueue ------------------------------
(***************************************************************************)
(* What a SeqScript promises its callers: a sequence of events, sorted by  *)
(* frame, in which events of one frame keep the order they came in.        *)
(***************************************************************************)
EXTENDS SortedEvents

CONSTANTS Events, Frames

VARIABLE queue

Init == queue = <<>>

Insert(e)       == queue' = InsertSorted(queue, e)
Consumed(frame) == queue' = After(queue, frame)
Clear           == queue' = <<>>

Next == \/ \E e \in Events : Insert(e)
        \/ \E f \in Frames : Consumed(f)
        \/ Clear

Spec == Init /\ [][Next]_queue
=============================================================================
