------------------------------ MODULE SeqScript ------------------------------
(***************************************************************************)
(* The event queue of the sequencer (SeqScript, SeqScriptPrivate): a       *)
(* pre-allocated vector of slots with a linked list, sorted by frame,      *)
(* embedded in it.  The slot at m_tail is the sentinel that ends the list; *)
(* m_next_free is where the next event goes, m_free how many slots may     *)
(* still be handed out.                                                    *)
(*                                                                         *)
(* An operation holds m_mutex from its first step to its last, and every   *)
(* turn of its loops is a step here: pc names the loop it is in, "idle"    *)
(* that the mutex is free and "aborted" that an assert() failed.           *)
(***************************************************************************)
EXTENDS Integers, FiniteSets

CONSTANTS
  N,         \* slots in m_vec (1024 in the engine)
  FrameMod,  \* frame_type is unsigned and wraps at this value (2^32)
  Whats,     \* what an event does: <<"on" or "off", instrument>>
  Lengths,   \* note lengths in frames, given to insert_note()
  Ops,       \* the operations the callers use
  Spare      \* slots the callers leave free when they insert (0: none)

ASSUME SlotsAssumption  == N \in Nat /\ N >= 2
ASSUME EventsAssumption == /\ FrameMod \in Nat \ {0}
                           /\ Lengths \subseteq Nat
                           /\ Whats # {}
                           /\ \A w \in Whats : <<"off", w[2]>> \in Whats
ASSUME SpareAssumption  == Spare \in Nat

Slots    == 0..(N - 1)
Null     == N                  \* a default-constructed vector iterator
Frames   == 0..(FrameMod - 1)
Events   == [frame : Frames, what : Whats]
AnyEvent == CHOOSE e \in Events : TRUE

VARIABLES
  ev, next, used,            \* the fields of the slots
  head, tail,                \* m_head, m_tail
  nextFree, listSize, free,  \* m_next_free, m_list_size, m_free
  pc,                        \* where the operation in progress is
  pos, cur,                  \* the slot being inserted; the loop's iterator
  before,                    \* the argument of consumed()
  owed,                      \* the note-off insert_note() has yet to insert
  lost                       \* history: slots clear() has cost so far

locals == <<pos, cur, before>>
vars   == <<ev, next, used, head, tail, nextFree, listSize, free, pc, locals, owed, lost>>

(* The constructor: every slot is free, then one becomes the sentinel.     *)
Init ==
  /\ ev = [s \in Slots |-> AnyEvent]
  /\ next = [s \in Slots |-> Null]
  /\ used = [s \in Slots |-> s = 0]
  /\ head = 0 /\ tail = 0 /\ nextFree = 1 /\ listSize = 0 /\ free = N - 1
  /\ pc = "idle" /\ pos = 0 /\ cur = 0
  /\ before = 0 /\ owed = {} /\ lost = 0

(* reserve() with the size the script already has.                         *)
Reserve ==
  /\ pc = "idle"
  /\ ev' = [s \in Slots |-> AnyEvent]
  /\ next' = [s \in Slots |-> Null]
  /\ used' = [s \in Slots |-> s = 0]
  /\ head' = 0 /\ tail' = 0 /\ nextFree' = 1 /\ listSize' = 0 /\ free' = N - 1
  /\ lost' = 0
  /\ UNCHANGED <<pc, locals, owed>>

(* A failed assert() ends the program.                                     *)
Abort ==
  /\ pc' = "aborted"
  /\ UNCHANGED <<ev, next, used, head, tail, nextFree, listSize, free, locals,
                 lost>>

(* An operation returns: its locals and its arguments are gone.            *)
Return ==
  /\ pc' = "idle"
  /\ pos' = 0 /\ cur' = 0 /\ before' = 0

-----------------------------------------------------------------------------
(* insert(event): take the slot at m_next_free, move m_next_free on to a   *)
(* free slot unless none is left, and link the slot in behind every event  *)
(* that is not later than it.                                              *)

Insert(e) ==
  /\ pc = "idle"
  /\ \/ free = 0 /\ Abort
     \/ /\ free > 0
        /\ ev' = [ev EXCEPT ![nextFree] = e]
        /\ used' = [used EXCEPT ![nextFree] = TRUE]
        /\ pos' = nextFree
        /\ free' = free - 1
        /\ pc' = "seek"
        /\ UNCHANGED <<next, head, tail, nextFree, listSize, cur, before, lost>>

(* The loop of alloc(), on behalf of insert() or of clear().               *)
TakenNever == FALSE                             \* mutant: no search
Taken      == free > 0 /\ used[nextFree]

Seek ==
  /\ pc \in {"seek", "reseek"}
  /\ IF Taken
     THEN nextFree' = (nextFree + 1) % N /\ UNCHANGED <<pc, locals>>
     ELSE /\ \/ pc = "seek" /\ pc' = "link" /\ UNCHANGED locals
             \/ pc = "reseek" /\ Return
          /\ UNCHANGED nextFree
  /\ UNCHANGED <<ev, next, used, head, tail, listSize, free, owed, lost>>

NotLater(s, t) == ev[s].frame <= ev[t].frame    \* mutant: before its equals
Earlier(s, t)  == ev[s].frame < ev[t].frame

Link ==
  /\ pc = "link"
  /\ IF listSize = 0 \/ Earlier(pos, head)
     THEN /\ next' = [next EXCEPT ![pos] = IF listSize = 0 THEN tail ELSE head]
          /\ head' = pos
          /\ listSize' = listSize + 1
          /\ Return
     ELSE /\ cur' = head
          /\ pc' = "walk"
          /\ UNCHANGED <<next, head, listSize, pos, before>>
  /\ UNCHANGED <<ev, used, tail, nextFree, free, owed, lost>>

InsertsFirst == TRUE                            \* mutant: no walk
InsertsHere  == next[cur] = tail \/ Earlier(pos, next[cur])

Walk ==
  /\ pc = "walk"
  /\ IF cur = tail
     THEN Return /\ UNCHANGED <<next, listSize>>
     ELSE IF InsertsHere
          THEN /\ next' = [next EXCEPT ![pos] = next[cur], ![cur] = pos]
               /\ listSize' = listSize + 1
               /\ Return
          ELSE /\ cur' = next[cur]
               /\ UNCHANGED <<next, listSize, pc, pos, before>>
  /\ UNCHANGED <<ev, used, head, tail, nextFree, free, owed, lost>>

(* insert_note(event, length): the event, then its note-off.               *)
NoteOff(e, length) ==
  [frame |-> (e.frame + length) % FrameMod, what |-> <<"off", e.what[2]>>]

InsertNote(e, length) ==
  /\ owed = {}
  /\ Insert(e)
  /\ owed' = {NoteOff(e, length)}

InsertOwed ==
  \E e \in owed : Insert(e) /\ owed' = {}

-----------------------------------------------------------------------------
(* consumed(before_frame): drop the events before that frame, move the     *)
(* others closer by as much.                                               *)

Consumed(frame) ==
  /\ pc = "idle"
  /\ before' = frame
  /\ cur' = head
  /\ pc' = "pop"
  /\ UNCHANGED <<ev, next, used, head, tail, nextFree, listSize, free,
                 pos, owed, lost>>

(* What consumed() and clear() do to a slot they pass.  Its event, which   *)
(* nothing reads again, is forgotten here; its next pointer stays.         *)
Release ==
  /\ ev' = [ev EXCEPT ![cur] = AnyEvent]
  /\ used' = [used EXCEPT ![cur] = FALSE]
  /\ free' = free + 1
  /\ listSize' = listSize - 1
  /\ cur' = next[cur]

Pop ==
  /\ pc = "pop"
  /\ IF cur # tail /\ ev[cur].frame < before
     THEN Release /\ UNCHANGED <<head, pc>>
     ELSE /\ head' = cur
          /\ pc' = "rebase"
          /\ UNCHANGED <<ev, used, free, listSize, cur>>
  /\ UNCHANGED <<next, tail, nextFree, pos, before, owed, lost>>

Rebase ==
  /\ pc = "rebase"
  /\ IF cur # tail
     THEN /\ ev' = [ev EXCEPT ![cur].frame = (@ - before) % FrameMod]
          /\ cur' = next[cur]
          /\ UNCHANGED <<pc, pos, before>>
     ELSE Return /\ UNCHANGED ev
  /\ UNCHANGED <<next, used, head, tail, nextFree, listSize, free, owed, lost>>

-----------------------------------------------------------------------------
(* clear(): release every event, then take the slot at the beginning of    *)
(* the vector as the new sentinel.  It already was the sentinel, so that   *)
(* m_free goes down by one for a slot that was in use before: every clear() *)
(* costs a slot, until alloc() finds none left and its assert() fails.     *)

Clear ==
  /\ pc = "idle"
  /\ cur' = head
  /\ pc' = "clear"
  /\ UNCHANGED <<ev, next, used, head, tail, nextFree, listSize, free,
                 pos, before, owed, lost>>

ClearLoop ==
  /\ pc = "clear" /\ cur # tail
  /\ Release
  /\ UNCHANGED <<next, head, tail, nextFree, pc, pos, before, owed, lost>>

ClearEnd ==
  /\ pc = "clear" /\ cur = tail
  /\ \/ (listSize # 0 \/ free = 0) /\ Abort /\ UNCHANGED owed
     \/ /\ listSize = 0 /\ free > 0
        /\ used' = [used EXCEPT ![0] = TRUE]
        /\ head' = 0 /\ tail' = 0 /\ nextFree' = 0
        /\ free' = free - 1
        /\ lost' = lost + 1
        /\ pc' = "reseek"
        /\ UNCHANGED <<ev, next, listSize, locals, owed>>

-----------------------------------------------------------------------------
(* The mutex orders the operations; a script has one caller at a time that *)
(* inserts, so nothing comes between the two events of a note.             *)

Step == \/ Seek \/ Link \/ Walk \/ Pop \/ Rebase
        \/ ClearLoop \/ ClearEnd \/ InsertOwed

Room(n) == Spare = 0 \/ free >= n + Spare

Call ==
  /\ owed = {}
  /\ \/ "insert" \in Ops /\ Room(1) /\ UNCHANGED owed /\ \E e \in Events : Insert(e)
     \/ /\ "insert_note" \in Ops /\ Room(2)
        /\ \E e \in Events, n \in Lengths : e.what[1] = "on" /\ InsertNote(e, n)
     \/ "consumed" \in Ops /\ \E f \in Frames : Consumed(f)
     \/ "clear" \in Ops /\ Clear
     \/ "reserve" \in Ops /\ Reserve

Next == Step \/ Call

Spec     == Init /\ [][Next]_vars
FairSpec == Spec /\ WF_vars(Step)

-----------------------------------------------------------------------------
(* Properties.                                                             *)

PCs == {"idle", "seek", "link", "walk", "pop", "rebase", "clear", "reseek",
        "aborted"}

(* The variables have their types; the two counters are counts.            *)
TypeOK ==
  /\ ev \in [Slots -> Events]
  /\ next \in [Slots -> Slots \cup {Null}]
  /\ used \in [Slots -> BOOLEAN]
  /\ head \in Slots /\ tail \in Slots /\ nextFree \in Slots
  /\ listSize \in Nat /\ free \in Nat
  /\ pc \in PCs
  /\ pos \in Slots /\ cur \in Slots
  /\ before \in Frames /\ owed \in SUBSET Events
  /\ lost \in Nat

(* The slots in the list: those in use, but for the one insert() is still  *)
(* looking a place for.  The list begins at cur while it is being emptied. *)
InFlight == IF pc \in {"seek", "link", "walk"} THEN {pos} ELSE {}
Listed   == {s \in Slots : used[s]} \ InFlight
First    == IF pc \in {"pop", "clear", "aborted"} THEN cur ELSE head

(* rank numbers the slots of the list from its end, the sentinel, upwards. *)
Ranks(rank) ==
  /\ rank[tail] = 0 /\ rank[First] = listSize
  /\ \A s, t \in Listed : rank[s] = rank[t] => s = t
  /\ \A s \in Listed \ {tail} : next[s] \in Listed /\ rank[next[s]] = rank[s] - 1

(* Following next from the head visits every slot in use exactly once and  *)
(* ends at the sentinel: no slot is linked twice, freed while it is linked *)
(* or lost, and m_list_size counts them.                                   *)
ListIntact ==
  /\ {tail, First} \subseteq Listed
  /\ \E rank \in [Listed -> 0..listSize] : Ranks(rank)

(* The list is sorted by frame, also between two steps of an operation.    *)
Sorted ==
  \A s \in Listed \ {tail} : next[s] # tail => ev[s].frame <= ev[next[s]].frame

(* m_next_free designates a free slot whenever there is one to hand out.   *)
NextFreeIsFree == pc = "idle" /\ free > 0 => ~used[nextFree]

(* m_free counts the slots not in use, but for the one that each clear()   *)
(* since the construction or the last reserve() has cost it.               *)
InUse      == {s \in Slots : used[s]}
FreeCounts == free + Cardinality(InUse) + lost = N

(* The allocator over any sequence of calls: the slot it will hand out is  *)
(* free, m_free is short of exactly one slot for every clear() there was,  *)
(* and nothing is lost in another way; so the assert() of alloc() fails,   *)
(* but only in the clear() that comes when all slots except the sentinel's *)
(* have been lost like that.                                               *)
OnlyClearAborts == pc = "aborted" => lost = N - 1
AllocationSound == NextFreeIsFree /\ FreeCounts /\ OnlyClearAborts

(* The loops of the script end: no operation keeps the mutex for ever.     *)
Running          == pc \notin {"idle", "aborted"}
EveryCallReturns == Running ~> ~Running
=============================================================================
