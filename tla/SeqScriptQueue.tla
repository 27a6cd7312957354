--------------------------- MODULE SeqScriptQueue ---------------------------
(***************************************************************************)
(* The queue of events that a SeqScript implements.                        *)
(***************************************************************************)
EXTENDS SeqScript, SortedEvents

(* What is met from s on when f is followed again and again.               *)
Follow(f, s) ==
  LET at[k \in Nat] == IF k = 0 THEN s ELSE f[at[k - 1]]
  IN  at

(* The slots of the list, from its first one on; the sentinel ends it.     *)
Links(links, end) == [links EXCEPT ![end] = end]
Path == Follow(Links(next, tail), First)
Left == [i \in 1..listSize |-> ev[Path[i - 1]]]

(* The event has yet to be moved by consumed(): its slot is the loop's, or *)
(* behind it.                                                              *)
ToMove(i) == \E k \in 0..(i - 1) : Path[k] = cur
Moved     == [i \in 1..listSize |->
                IF ToMove(i) THEN [Left[i] EXCEPT !.frame = @ - before]
                             ELSE Left[i]]

(* The events a caller finds in the script.  An operation that drops events *)
(* has done so as soon as it is called, whatever its loops have yet to do.  *)
Contents ==
  CASE pc = "clear"  -> <<>>
    [] pc = "pop"    -> After(Left, before)
    [] pc = "rebase" -> Moved
    [] OTHER         -> Left

Abstract == INSTANCE SeqQueue WITH queue <- Contents

(* As long as its callers leave a slot free, the vector with its embedded  *)
(* list behaves as the sorted queue: every operation takes effect at once, *)
(* exactly once, and none of them loses, repeats or reorders an event.     *)
ImplementsQueue == Abstract!Spec
=============================================================================
