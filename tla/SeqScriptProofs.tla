-------------------------- MODULE SeqScriptProofs --------------------------
(***************************************************************************)
(* The list of a SeqScript stays intact and sorted, its free pointer stays *)
(* free and m_free is short of one slot per clear(), for any number of     *)
(* slots, as long as the callers insert only where that leaves a slot free; *)
(* and the script implements the sorted queue.                             *)
(***************************************************************************)
EXTENDS SeqScriptQueue, FiniteSetTheorems, WellFoundedInduction, TLAPS

(* The callers never fill the script (nothing is said of when they clear). *)
Disciplined == Spare >= 1

(* The storage: the sentinel stays in slot 0, m_next_free is a free slot    *)
(* except while alloc() is looking for one, and an insertion finds the     *)
(* slots it asked for.  m_free gets to zero only in an empty script, of    *)
(* which clear() has cost all the other slots, and there the next clear()  *)
(* aborts.                                                                 *)
StorageInv ==
  /\ tail = 0
  /\ pc \in {"seek", "link", "walk"} => free >= 1
  /\ owed # {} => free >= 2 /\ pc \in {"idle", "seek", "link", "walk"}
  /\ free = 0 => listSize = 0
  /\ free >= 1 /\ pc \notin {"seek", "reseek"} => ~used[nextFree]
  /\ pc = "aborted" => free = 0 /\ cur = tail

(* The loops: an insertion walks over events that are not later than the   *)
(* new one; consumed() has yet to move the events from cur on, which are   *)
(* those at before_frame or later, and the ones it moved fit before them.  *)
LoopInv ==
  /\ pc \in {"seek", "link", "walk"} => used[pos] /\ pos # tail
  /\ pc = "walk" => /\ cur \in Listed \ {tail}
                    /\ ev[cur].frame <= ev[pos].frame
  /\ pc = "rebase" =>
       /\ cur \in Listed
       /\ cur # tail => ev[cur].frame >= before
       /\ \A s \in Listed \ {tail} :
            next[s] = cur /\ cur # tail => ev[s].frame + before <= ev[cur].frame

IInv == TypeOK /\ ListIntact /\ Sorted /\ StorageInv /\ LoopInv

-----------------------------------------------------------------------------
LEMMA AnyEventType == AnyEvent \in Events
  <1>1. 0 \in Frames
    BY EventsAssumption DEF Frames
  <1>2. PICK w \in Whats : TRUE
    BY EventsAssumption
  <1>3. [frame |-> 0, what |-> w] \in Events
    BY <1>1, <1>2 DEF Events
  <1>4. QED
    BY <1>3 DEF AnyEvent

LEMMA NoteOffType ==
  ASSUME NEW e \in Events, NEW n \in Lengths
  PROVE  NoteOff(e, n) \in Events
  <1>1. e.frame + n \in Nat /\ FrameMod \in Nat \ {0}
    BY EventsAssumption DEF Events, Frames
  <1>2. (e.frame + n) % FrameMod \in Frames
    BY <1>1 DEF Frames
  <1>3. <<"off", e.what[2]>> \in Whats
    BY EventsAssumption DEF Events
  <1>4. QED
    BY <1>2, <1>3 DEF NoteOff, Events

(* A step that touches neither the links nor what is in use keeps the list. *)
LEMMA ListKept ==
  ASSUME ListIntact, Listed' = Listed, First' = First,
         UNCHANGED <<next, tail, listSize>>
  PROVE  ListIntact'
  BY DEF ListIntact, Ranks

LEMMA InitIInv == Init => IInv
  <1> SUFFICES ASSUME Init PROVE IInv
    OBVIOUS
  <1>1. TypeOK
    BY AnyEventType, SlotsAssumption, EventsAssumption
    DEF Init, TypeOK, Slots, Null, Frames, PCs
  <1>a. 0 \in Slots /\ 1 \in Slots
    BY SlotsAssumption DEF Slots
  <1>b. \A s \in Slots : used[s] <=> s = 0
    BY Zenon DEF Init
  <1>2. Listed = {0} /\ First = 0
    <2>1. InFlight = {} /\ First = 0
      BY DEF Init, InFlight, First
    <2>2. QED
      BY <1>a, <1>b, <2>1 DEF Listed
  <1>3. ListIntact
    <2> DEFINE rank == [s \in {0} |-> 0]
    <2>1. rank \in [Listed -> 0..listSize]
      BY <1>2 DEF Init
    <2>2. Ranks(rank)
      BY <1>2 DEF Init, Ranks
    <2>3. QED
      BY <1>2, <2>1, <2>2 DEF Init, ListIntact
  <1>4. Sorted /\ LoopInv
    BY <1>2 DEF Init, Sorted, LoopInv
  <1>5. StorageInv
    <2>1. ~used[1]
      BY <1>a, <1>b
    <2>2. QED
      BY <2>1, SlotsAssumption DEF Init, StorageInv
  <1>6. QED
    BY <1>1, <1>3, <1>4, <1>5 DEF IInv
LEMMA InsertInv ==
  ASSUME IInv, NEW e \in Events, Insert(e), free >= 2,
         owed' = {} \/ (free >= 3 /\ owed' \subseteq Events)
  PROVE  IInv'
  <1> USE DEF IInv
  <1>1. /\ pc = "idle" /\ pc' = "seek" /\ pos' = nextFree
        /\ nextFree \in Slots /\ ~used[nextFree]
        /\ used' = [used EXCEPT ![nextFree] = TRUE]
        /\ ev' = [ev EXCEPT ![nextFree] = e]
        /\ free' = free - 1
        /\ UNCHANGED <<next, head, tail, nextFree, listSize, cur, before, lost>>
    BY DEF Insert, TypeOK, StorageInv
  <1>2. Listed' = Listed /\ First' = First /\ nextFree \notin Listed
    BY <1>1 DEF Listed, InFlight, First, TypeOK
  <1>3. TypeOK'
    BY <1>1 DEF TypeOK, PCs
  <1>4. ListIntact'
    BY <1>1, <1>2, ListKept
  <1>5. \A s \in Listed : ev'[s] = ev[s]
    BY <1>1, <1>2 DEF TypeOK, Listed
  <1>6. Sorted'
    BY <1>1, <1>2, <1>5 DEF Sorted, ListIntact, Ranks
  <1>7. StorageInv'
    BY <1>1 DEF StorageInv, TypeOK
  <1>8. LoopInv'
    BY <1>1, <1>2 DEF LoopInv, ListIntact, TypeOK
  <1>9. QED
    BY <1>3, <1>4, <1>6, <1>7, <1>8

LEMMA ReturnType ==
  ASSUME Return PROVE  /\ pc' = "idle" /\ pos' = 0 /\ cur' = 0 /\ before' = 0
                       /\ {pos', cur'} \subseteq Slots /\ before' \in Frames
  BY SlotsAssumption, EventsAssumption DEF Return, Slots, Frames

LEMMA SeekInv ==
  ASSUME IInv, Seek
  PROVE  IInv'
  <1> USE DEF IInv
  <1>1. UNCHANGED <<ev, next, used, head, tail, listSize, free, owed, lost>>
    BY DEF Seek
  <1>2. CASE Taken
    <2>1. nextFree' = (nextFree + 1) % N /\ UNCHANGED <<pc, locals>>
      BY <1>2 DEF Seek
    <2>2. nextFree' \in Slots
      BY <2>1, SlotsAssumption DEF TypeOK, Slots
    <2>3. pc \in {"seek", "reseek"}
      BY DEF Seek
    <2>4. Listed' = Listed /\ First' = First
      BY <1>1, <2>1 DEF Listed, InFlight, First, locals
    <2>5. TypeOK'
      BY <1>1, <2>1, <2>2 DEF TypeOK, locals
    <2>6. ListIntact' /\ Sorted'
      BY <1>1, <2>4, ListKept DEF Sorted
    <2>7. StorageInv' /\ LoopInv'
      BY <1>1, <2>1, <2>3, <2>4 DEF StorageInv, LoopInv, locals
    <2>8. QED
      BY <2>5, <2>6, <2>7
  <1>3. CASE pc = "seek" /\ ~Taken
    <2>1. pc' = "link" /\ UNCHANGED <<nextFree, locals>>
      BY <1>3 DEF Seek
    <2>2. Listed' = Listed /\ First' = First
      BY <1>1, <1>3, <2>1 DEF Listed, InFlight, First, locals
    <2>3. TypeOK'
      BY <1>1, <2>1 DEF TypeOK, PCs, locals
    <2>4. ListIntact' /\ Sorted'
      BY <1>1, <2>2, ListKept DEF Sorted
    <2>5. StorageInv'
      BY <1>1, <1>3, <2>1 DEF StorageInv, TypeOK, Taken
    <2>6. LoopInv'
      BY <1>1, <1>3, <2>1, <2>2 DEF LoopInv, locals
    <2>7. QED
      BY <2>3, <2>4, <2>5, <2>6
  <1>4. CASE pc = "reseek" /\ ~Taken
    <2>1. Return /\ UNCHANGED nextFree
      BY <1>4 DEF Seek
    <2>2. Listed' = Listed /\ First' = First
      BY <1>1, <1>4, <2>1, ReturnType DEF Listed, InFlight, First
    <2>3. TypeOK'
      BY <1>1, <2>1, ReturnType DEF TypeOK, PCs
    <2>4. ListIntact' /\ Sorted'
      BY <1>1, <2>2, ListKept DEF Sorted
    <2>5. StorageInv'
      BY <1>1, <1>4, <2>1, ReturnType DEF StorageInv, TypeOK, Taken
    <2>6. LoopInv'
      BY <1>1, <2>1, ReturnType DEF LoopInv
    <2>7. QED
      BY <2>3, <2>4, <2>5, <2>6
  <1>5. QED
    BY <1>2, <1>3, <1>4 DEF Seek

(* Linking the slot in at the head, or behind the slot cur, gives it a rank *)
(* in the list; every slot before it moves up by one.                      *)
LEMMA LinkHead ==
  ASSUME TypeOK, ListIntact, Sorted, pc = "link", used[pos], pos # tail,
         listSize # 0 => ev[pos].frame < ev[head].frame,
         next' = [next EXCEPT ![pos] = IF listSize = 0 THEN tail ELSE head],
         head' = pos, listSize' = listSize + 1, pc' = "idle",
         UNCHANGED <<ev, used, tail>>
  PROVE  ListIntact' /\ Sorted'
  <1>1. Listed' = Listed \cup {pos} /\ pos \notin Listed /\ pos \in Slots
    BY DEF Listed, InFlight, TypeOK
  <1>2. First = head /\ First' = pos
    BY DEF First
  <1>3. PICK rank \in [Listed -> 0..listSize] : Ranks(rank)
    BY DEF ListIntact
  <1>4. {tail, head} \subseteq Listed /\ (listSize = 0 => head = tail)
    BY <1>2, <1>3 DEF ListIntact, Ranks
  <1>5. next'[pos] = head /\ \A s \in Listed : next'[s] = next[s]
    BY <1>1, <1>4 DEF TypeOK, Listed
  <1> DEFINE rank2 == [s \in Listed \cup {pos} |->
                         IF s = pos THEN listSize + 1 ELSE rank[s]]
  <1>6. rank2 \in [Listed' -> 0..listSize']
    BY <1>1, <1>3 DEF TypeOK
  <1>7. /\ rank2[tail'] = 0 /\ rank2[First'] = listSize'
        /\ \A s, t \in Listed' : rank2[s] = rank2[t] => s = t
    BY <1>1, <1>2, <1>3, <1>4 DEF Ranks, TypeOK
  <1>8. \A s \in Listed' \ {tail'} :
          next'[s] \in Listed' /\ rank2[next'[s]] = rank2[s] - 1
    BY <1>1, <1>2, <1>3, <1>4, <1>5 DEF Ranks, TypeOK
  <1>9. ListIntact'
    <2> HIDE DEF rank2
    <2>1. PICK r \in [Listed' -> 0..listSize'] : r = rank2
      BY <1>6
    <2>2. Ranks(r)'
      BY <2>1, <1>7, <1>8 DEF Ranks
    <2>3. QED
      BY <1>1, <1>2, <1>4, <2>2 DEF ListIntact
  <1>10. Sorted'
    BY <1>1, <1>3, <1>4, <1>5 DEF Sorted, Ranks, TypeOK, Events, Frames
  <1>11. QED
    BY <1>9, <1>10

LEMMA LinkBehind ==
  ASSUME TypeOK, ListIntact, Sorted, pc = "walk", used[pos], pos # tail,
         cur \in Listed \ {tail}, ev[cur].frame <= ev[pos].frame, InsertsHere,
         next' = [next EXCEPT ![pos] = next[cur], ![cur] = pos],
         listSize' = listSize + 1, pc' = "idle",
         UNCHANGED <<ev, used, head, tail>>
  PROVE  ListIntact' /\ Sorted'
  <1>1. Listed' = Listed \cup {pos} /\ pos \notin Listed /\ pos \in Slots
    BY DEF Listed, InFlight, TypeOK
  <1>2. First = head /\ First' = head
    BY DEF First
  <1>3. PICK rank \in [Listed -> 0..listSize] : Ranks(rank)
    BY DEF ListIntact
  <1>4. {tail, head, cur, next[cur]} \subseteq Listed /\ cur # tail
    BY <1>2, <1>3 DEF ListIntact, Ranks
  <1>5. /\ next'[pos] = next[cur] /\ next'[cur] = pos
        /\ \A s \in Listed \ {cur} : next'[s] = next[s]
    BY <1>1, <1>4 DEF TypeOK, Listed
  <1> DEFINE rank2 == [s \in Listed \cup {pos} |->
                         IF s = pos THEN rank[cur]
                         ELSE IF rank[s] >= rank[cur] THEN rank[s] + 1
                         ELSE rank[s]]
  <1>6. rank2 \in [Listed' -> 0..listSize']
    BY <1>1, <1>3, <1>4 DEF TypeOK
  <1>7. /\ rank2[tail'] = 0 /\ rank2[First'] = listSize'
        /\ \A s, t \in Listed' : rank2[s] = rank2[t] => s = t
    <2>1. rank[cur] > 0 /\ rank[cur] <= rank[head] /\ rank[tail] = 0
      BY <1>2, <1>3, <1>4 DEF Ranks, TypeOK
    <2>2. rank2[tail'] = 0 /\ rank2[First'] = listSize'
      BY <1>1, <1>2, <1>3, <1>4, <2>1 DEF Ranks, TypeOK
    <2>3. ASSUME NEW s \in Listed', NEW t \in Listed', rank2[s] = rank2[t]
          PROVE  s = t
      <3>1. \A u \in Listed : rank[u] \in Int /\ (rank[u] = rank[cur] => u = cur)
        BY <1>3, <1>4 DEF Ranks
      <3>2. CASE s = pos \/ t = pos
        BY <1>1, <1>4, <2>3, <3>1, <3>2
      <3>3. CASE s # pos /\ t # pos
        <4>1. rank[s] = rank[t]
          BY <1>1, <1>4, <2>3, <3>1, <3>3
        <4>2. QED
          BY <1>1, <1>3, <3>3, <4>1 DEF Ranks
      <3>4. QED
        BY <3>2, <3>3
    <2>4. QED
      BY <2>2, <2>3
  <1>8. ASSUME NEW s \in Listed' \ {tail'}
        PROVE  next'[s] \in Listed' /\ rank2[next'[s]] = rank2[s] - 1
    <2>1. CASE s = pos
      BY <1>1, <1>3, <1>4, <1>5, <2>1 DEF Ranks, TypeOK
    <2>2. CASE s = cur
      BY <1>1, <1>3, <1>4, <1>5, <2>2 DEF Ranks, TypeOK
    <2>3. CASE s \in Listed \ {cur, tail}
      <3>1. next'[s] = next[s] /\ next[s] \in Listed /\ rank[next[s]] = rank[s] - 1
        BY <1>3, <1>5, <2>3 DEF Ranks
      <3>2. rank[s] # rank[cur]
        BY <1>3, <1>4, <2>3 DEF Ranks
      <3>3. rank[s] \in Int /\ rank[cur] \in Int
        BY <1>3, <1>4, <2>3
      <3>4. QED
        BY <1>1, <2>3, <3>1, <3>2, <3>3
    <2>4. QED
      BY <1>1, <2>1, <2>2, <2>3
  <1>9. ListIntact'
    <2> HIDE DEF rank2
    <2>1. PICK r \in [Listed' -> 0..listSize'] : r = rank2
      BY <1>6
    <2>2. Ranks(r)'
      BY <2>1, <1>7, <1>8 DEF Ranks
    <2>3. QED
      BY <1>1, <1>2, <1>4, <2>2 DEF ListIntact
  <1>10. Sorted'
    <2> HIDE DEF rank2
    <2>1. \A s \in Listed : next[s] = next[cur] /\ s # tail => s = cur
      BY <1>3, <1>4 DEF Ranks
    <2>2. next[cur] = tail \/ ev[pos].frame < ev[next[cur]].frame
      BY DEF InsertsHere, Earlier
    <2>3. ASSUME NEW s \in Listed' \ {tail'}, next'[s] # tail'
          PROVE  ev'[s].frame <= ev'[next'[s]].frame
      <3>1. CASE s = pos
        BY <1>4, <1>5, <2>2, <2>3, <3>1 DEF TypeOK, Events, Frames, Listed
      <3>2. CASE s = cur
        BY <1>5, <3>2
      <3>3. CASE s \in Listed \ {cur, tail}
        BY <1>5, <2>3, <3>3 DEF Sorted
      <3>4. QED
        BY <1>1, <3>1, <3>2, <3>3
    <2>4. QED
      BY <2>3 DEF Sorted
  <1>11. QED
    BY <1>9, <1>10

LEMMA LinkInv ==
  ASSUME IInv, Link
  PROVE  IInv'
  <1> USE DEF IInv
  <1>1. /\ pc = "link" /\ used[pos] /\ pos # tail
        /\ UNCHANGED <<ev, used, tail, nextFree, free, owed, lost>>
    BY DEF Link, LoopInv
  <1>2. CASE listSize = 0 \/ Earlier(pos, head)
    <2>1. /\ next' = [next EXCEPT ![pos] = IF listSize = 0 THEN tail ELSE head]
          /\ head' = pos /\ listSize' = listSize + 1 /\ Return
      BY <1>2 DEF Link
    <2>2. TypeOK'
      BY <1>1, <2>1, ReturnType DEF TypeOK, PCs
    <2>3. ListIntact' /\ Sorted'
      BY <1>1, <1>2, <2>1, ReturnType, LinkHead DEF Earlier
    <2>4. StorageInv' /\ LoopInv'
      BY <1>1, <2>1, ReturnType DEF StorageInv, LoopInv
    <2>5. QED
      BY <2>2, <2>3, <2>4
  <1>3. CASE ~(listSize = 0 \/ Earlier(pos, head))
    <2>1. cur' = head /\ pc' = "walk" /\ UNCHANGED <<next, head, listSize, pos, before>>
      BY <1>3 DEF Link
    <2>2. Listed' = Listed /\ First' = First /\ First = head
      BY <1>1, <2>1 DEF Listed, InFlight, First
    <2>3. TypeOK'
      BY <1>1, <2>1 DEF TypeOK, PCs
    <2>4. ListIntact' /\ Sorted'
      BY <1>1, <2>1, <2>2, ListKept DEF Sorted
    <2>5. head \in Listed \ {tail}
      BY <1>3, <2>2 DEF ListIntact, Ranks
    <2>6. ev[head].frame <= ev[pos].frame
      BY <1>3 DEF Earlier, TypeOK, Events, Frames
    <2>7. StorageInv' /\ LoopInv'
      BY <1>1, <2>1, <2>2, <2>5, <2>6 DEF StorageInv, LoopInv
    <2>8. QED
      BY <2>3, <2>4, <2>7
  <1>4. QED
    BY <1>2, <1>3

LEMMA WalkInv ==
  ASSUME IInv, Walk
  PROVE  IInv'
  <1> USE DEF IInv
  <1>1. /\ pc = "walk" /\ used[pos] /\ pos # tail
        /\ cur \in Listed \ {tail} /\ ev[cur].frame <= ev[pos].frame
        /\ UNCHANGED <<ev, used, head, tail, nextFree, free, owed, lost>>
    BY DEF Walk, LoopInv
  <1>2. CASE InsertsHere
    <2>1. /\ next' = [next EXCEPT ![pos] = next[cur], ![cur] = pos]
          /\ listSize' = listSize + 1 /\ Return
      BY <1>1, <1>2 DEF Walk
    <2>2. TypeOK'
      BY <1>1, <2>1, ReturnType DEF TypeOK, PCs
    <2>3. ListIntact' /\ Sorted'
      BY <1>1, <1>2, <2>1, ReturnType, LinkBehind
    <2>4. StorageInv' /\ LoopInv'
      BY <1>1, <2>1, ReturnType DEF StorageInv, LoopInv
    <2>5. QED
      BY <2>2, <2>3, <2>4
  <1>3. CASE ~InsertsHere
    <2>1. cur' = next[cur] /\ UNCHANGED <<next, listSize, pc, pos, before>>
      BY <1>1, <1>3 DEF Walk
    <2>2. Listed' = Listed /\ First' = First
      BY <1>1, <2>1 DEF Listed, InFlight, First
    <2>3. next[cur] \in Listed \ {tail} /\ next[cur] \in Slots
      BY <1>1, <1>3 DEF ListIntact, Ranks, InsertsHere, Listed
    <2>4. TypeOK'
      BY <1>1, <2>1, <2>3 DEF TypeOK
    <2>5. ListIntact' /\ Sorted'
      BY <1>1, <2>1, <2>2, ListKept DEF Sorted
    <2>6. ev[next[cur]].frame <= ev[pos].frame
      BY <1>3, <2>3 DEF InsertsHere, Earlier, TypeOK, Events, Frames
    <2>7. StorageInv' /\ LoopInv'
      BY <1>1, <2>1, <2>2, <2>3, <2>6 DEF StorageInv, LoopInv
    <2>8. QED
      BY <2>4, <2>5, <2>7
  <1>4. QED
    BY <1>2, <1>3

(* Taking the first slot off the list, as consumed() and clear() do.       *)
LEMMA ReleaseFirst ==
  ASSUME TypeOK, ListIntact, Sorted, Release, cur # tail,
         pc \in {"pop", "clear"}, UNCHANGED <<next, head, tail, pc>>
  PROVE  /\ ListIntact' /\ Sorted'
         /\ cur' \in Slots /\ listSize > 0
  <1>1. First = cur /\ First' = next[cur] /\ InFlight = {} /\ InFlight' = {}
    BY DEF First, InFlight, Release
  <1>2. PICK rank \in [Listed -> 0..listSize] : Ranks(rank)
    BY DEF ListIntact
  <1>3. {tail, cur, next[cur]} \subseteq Listed /\ rank[next[cur]] = rank[cur] - 1
    BY <1>1, <1>2 DEF ListIntact, Ranks
  <1>4. Listed' = Listed \ {cur}
    BY <1>1, <1>3 DEF Listed, Release, TypeOK
  <1>5. rank[cur] = listSize /\ listSize > 0 /\ listSize \in Nat
    BY <1>1, <1>2, <1>3 DEF Ranks, TypeOK
  <1>6. \A s \in Listed' : rank[s] \in 0..(listSize - 1)
    BY <1>2, <1>3, <1>4, <1>5 DEF Ranks
  <1> DEFINE rank2 == [s \in Listed' |-> rank[s]]
  <1>7. PICK r \in [Listed' -> 0..listSize'] : r = rank2
    BY <1>5, <1>6 DEF Release
  <1>8. \A s \in Listed' : s \in Listed /\ r[s] = rank[s]
    BY <1>4, <1>7
  <1>9. Ranks(r)'
    <2>1. \A s \in Listed \ {tail} : next[s] # cur
      BY <1>1, <1>2, <1>3, <1>5 DEF Ranks
    <2>2. tail \in Listed' /\ next[cur] \in Listed'
      BY <1>1, <1>2, <1>3, <1>4, <1>5 DEF Ranks
    <2>3. r[tail] = 0 /\ r[next[cur]] = listSize - 1
      BY <1>2, <1>3, <1>5, <1>8, <2>2 DEF Ranks
    <2>4. \A s \in Listed' \ {tail} : next[s] \in Listed' /\ r[next[s]] = r[s] - 1
      BY <1>2, <1>4, <1>8, <2>1 DEF Ranks
    <2>5. \A s, t \in Listed' : r[s] = r[t] => s = t
      BY <1>2, <1>8 DEF Ranks
    <2>6. QED
      BY <1>1, <2>3, <2>4, <2>5 DEF Ranks, Release
  <1>10. ListIntact'
    <2>1. {tail, next[cur]} \subseteq Listed'
      BY <1>1, <1>2, <1>3, <1>4, <1>5 DEF Ranks
    <2>2. QED
      BY <1>1, <1>9, <2>1 DEF ListIntact
  <1>11. Sorted'
    <2>1. \A s \in Listed' : ev'[s] = ev[s]
      BY <1>4 DEF Release, TypeOK, Listed
    <2>2. \A s \in Listed \ {tail} : next[s] \in Listed /\ next[s] # cur
      BY <1>1, <1>2, <1>3, <1>5 DEF Ranks
    <2>3. QED
      BY <1>4, <2>1, <2>2 DEF Sorted
  <1>12. QED
    BY <1>1, <1>3, <1>5, <1>10, <1>11 DEF Listed, Release

LEMMA PopInv ==
  ASSUME IInv, Pop
  PROVE  IInv'
  <1> USE DEF IInv
  <1>1. pc = "pop" /\ UNCHANGED <<next, tail, nextFree, pos, before, owed, lost>>
    BY DEF Pop
  <1>2. CASE cur # tail /\ ev[cur].frame < before
    <2>1. Release /\ UNCHANGED <<head, pc>>
      BY <1>2 DEF Pop
    <2>2. ListIntact' /\ Sorted' /\ cur' \in Slots /\ listSize > 0
      BY <1>1, <1>2, <2>1, ReleaseFirst
    <2>3. TypeOK'
      BY <1>1, <2>1, <2>2, AnyEventType DEF TypeOK, Release
    <2>4. StorageInv' /\ LoopInv'
      BY <1>1, <2>1, <2>2 DEF StorageInv, LoopInv, Release, TypeOK
    <2>5. QED
      BY <2>2, <2>3, <2>4
  <1>3. CASE ~(cur # tail /\ ev[cur].frame < before)
    <2>1. head' = cur /\ pc' = "rebase" /\ UNCHANGED <<ev, used, free, listSize, cur>>
      BY <1>3 DEF Pop
    <2>2. Listed' = Listed /\ First' = First /\ First = cur
      BY <1>1, <2>1 DEF Listed, InFlight, First
    <2>3. TypeOK'
      BY <1>1, <2>1 DEF TypeOK, PCs
    <2>4. ListIntact' /\ Sorted'
      BY <1>1, <2>1, <2>2, ListKept DEF Sorted
    <2>5. StorageInv'
      BY <1>1, <2>1 DEF StorageInv
    <2>6. cur \in Listed /\ \A s \in Listed \ {tail} : next[s] # cur
      <3>1. PICK rank \in [Listed -> 0..listSize] : Ranks(rank)
        BY DEF ListIntact
      <3>2. QED
        BY <2>2, <3>1 DEF Ranks, ListIntact, TypeOK
    <2>7. cur # tail => ev[cur].frame >= before
      BY <1>3 DEF TypeOK, Events, Frames
    <2>8. LoopInv'
      BY <1>1, <2>1, <2>2, <2>6, <2>7 DEF LoopInv
    <2>9. QED
      BY <2>3, <2>4, <2>5, <2>8
  <1>4. QED
    BY <1>2, <1>3

LEMMA ClearLoopInv ==
  ASSUME IInv, ClearLoop
  PROVE  IInv'
  <1> USE DEF IInv
  <1>1. /\ pc = "clear" /\ cur # tail /\ Release
        /\ UNCHANGED <<next, head, tail, nextFree, pc, pos, before, owed, lost>>
    BY DEF ClearLoop
  <1>2. ListIntact' /\ Sorted' /\ cur' \in Slots /\ listSize > 0
    BY <1>1, ReleaseFirst
  <1>3. TypeOK'
    BY <1>1, <1>2, AnyEventType DEF TypeOK, Release
  <1>4. StorageInv' /\ LoopInv'
    BY <1>1, <1>2 DEF StorageInv, LoopInv, Release, TypeOK
  <1>5. QED
    BY <1>2, <1>3, <1>4

LEMMA RebaseInv ==
  ASSUME IInv, Rebase
  PROVE  IInv'
  <1> USE DEF IInv
  <1>1. /\ pc = "rebase" /\ cur \in Listed
        /\ UNCHANGED <<next, used, head, tail, nextFree, listSize, free, owed, lost>>
    BY DEF Rebase, LoopInv
  <1>2. CASE cur # tail
    <2>1. /\ ev' = [ev EXCEPT ![cur].frame = (@ - before) % FrameMod]
          /\ cur' = next[cur] /\ UNCHANGED <<pc, pos, before>>
      BY <1>2 DEF Rebase
    <2>2. Listed' = Listed /\ First' = First
      BY <1>1, <2>1 DEF Listed, InFlight, First
    <2>3. PICK rank \in [Listed -> 0..listSize] : Ranks(rank)
      BY DEF ListIntact
    <2>4. /\ next[cur] \in Listed /\ next[cur] # cur
          /\ \A s \in Listed \ {tail} : next[s] = next[cur] => s = cur
      BY <1>1, <1>2, <2>3 DEF Ranks
    <2>5. cur \in Slots /\ next[cur] \in Slots
      BY <1>1, <2>4 DEF Listed
    <2>6. /\ ev[cur].frame \in Nat /\ before \in Nat /\ FrameMod \in Nat
          /\ before <= ev[cur].frame /\ ev[cur].frame < FrameMod
      BY <1>1, <1>2, <2>5, EventsAssumption DEF LoopInv, TypeOK, Events, Frames
    <2>7. (ev[cur].frame - before) % FrameMod = ev[cur].frame - before
      BY <2>6
    <2>8. /\ ev'[cur] = [ev[cur] EXCEPT !.frame = ev[cur].frame - before]
          /\ \A s \in Slots \ {cur} : ev'[s] = ev[s]
      BY <2>1, <2>5, <2>7 DEF TypeOK
    <2>9. ev'[cur].frame = ev[cur].frame - before /\ ev'[cur] \in Events
      BY <2>5, <2>6, <2>8 DEF TypeOK, Events, Frames
    <2>10. TypeOK'
      BY <1>1, <2>1, <2>5, <2>9 DEF TypeOK
    <2>11. ListIntact'
      BY <1>1, <2>2, ListKept
    <2>12. \A s \in Slots : ev[s].frame \in Nat
      BY DEF TypeOK, Events, Frames
    <2>13. Sorted'
      <3>1. ASSUME NEW s \in Listed \ {tail}, next[s] # tail
            PROVE  ev'[s].frame <= ev'[next[s]].frame
        <4>1. s \in Slots /\ next[s] \in Listed /\ next[s] \in Slots
              /\ ev[s].frame <= ev[next[s]].frame
          BY <2>3, <3>1 DEF Ranks, Listed, Sorted
        <4>2. CASE s = cur
          <5>1. ev'[next[s]].frame = ev[next[s]].frame
            BY <2>4, <2>8, <4>1, <4>2
          <5>2. ev'[s].frame = ev[s].frame - before
            BY <2>9, <4>2
          <5>3. QED
            BY <2>6, <2>12, <4>1, <5>1, <5>2
        <4>3. CASE next[s] = cur /\ s # cur
          <5>1. ev'[s].frame = ev[s].frame
            BY <2>8, <4>1, <4>3
          <5>2. ev[s].frame + before <= ev[cur].frame
            BY <1>1, <1>2, <4>3 DEF LoopInv
          <5>3. QED
            BY <2>6, <2>9, <2>12, <4>1, <4>3, <5>1, <5>2
        <4>4. CASE next[s] # cur /\ s # cur
          BY <2>8, <4>1, <4>4
        <4>5. QED
          BY <4>2, <4>3, <4>4
      <3>2. QED
        BY <1>1, <2>2, <3>1 DEF Sorted
    <2>14. StorageInv'
      BY <1>1, <2>1 DEF StorageInv
    <2>15. LoopInv'
      <3>1. next[cur] # tail => ev[cur].frame <= ev[next[cur]].frame
                                /\ ev'[next[cur]] = ev[next[cur]]
        BY <1>1, <1>2, <2>4, <2>5, <2>8 DEF Sorted
      <3>2. next[cur] # tail => ev'[next[cur]].frame >= before
        BY <2>5, <2>6, <2>12, <3>1
      <3>3. \A s \in Listed \ {tail} : next[s] = next[cur] /\ next[cur] # tail =>
              ev'[s].frame + before <= ev'[next[cur]].frame
        BY <2>4, <2>5, <2>6, <2>9, <2>12, <3>1
      <3>4. QED
        BY <1>1, <2>1, <2>2, <2>4, <3>2, <3>3 DEF LoopInv
    <2>16. QED
      BY <2>10, <2>11, <2>13, <2>14, <2>15
  <1>3. CASE cur = tail
    <2>1. Return /\ UNCHANGED ev
      BY <1>3 DEF Rebase
    <2>2. Listed' = Listed /\ First' = First
      BY <1>1, <2>1, ReturnType DEF Listed, InFlight, First
    <2>3. TypeOK'
      BY <1>1, <2>1, ReturnType DEF TypeOK, PCs
    <2>4. ListIntact' /\ Sorted'
      BY <1>1, <2>1, <2>2, ListKept DEF Sorted
    <2>5. StorageInv' /\ LoopInv'
      BY <1>1, <2>1, ReturnType DEF StorageInv, LoopInv
    <2>6. QED
      BY <2>3, <2>4, <2>5
  <1>4. QED
    BY <1>2, <1>3

(* An empty list is the sentinel alone.                                    *)
LEMMA EmptyList ==
  ASSUME TypeOK, ListIntact, listSize = 0 \/ First = tail
  PROVE  listSize = 0 /\ Listed = {tail}
  <1>1. PICK rank \in [Listed -> 0..listSize] : Ranks(rank)
    BY DEF ListIntact
  <1>2. listSize = 0
    BY <1>1 DEF Ranks
  <1>3. QED
    BY <1>1, <1>2 DEF Ranks, ListIntact

(* At the end of the list, only the sentinel is left in it; what is left    *)
(* then for m_free decides whether the assert() holds.                     *)
LEMMA ClearEndInv ==
  ASSUME IInv, ClearEnd
  PROVE  IInv'
  <1> USE DEF IInv
  <1>1. pc = "clear" /\ cur = tail /\ tail = 0 /\ First = cur /\ InFlight = {}
    BY DEF ClearEnd, StorageInv, First, InFlight
  <1>2. listSize = 0 /\ Listed = {tail}
    BY <1>1, EmptyList
  <1>3. 0 \in Slots /\ owed = {}
    BY <1>1, SlotsAssumption DEF Slots, StorageInv
  <1>4. CASE free = 0
    <2>1. /\ pc' = "aborted"
          /\ UNCHANGED <<ev, next, used, head, tail, nextFree, listSize, free, locals, owed, lost>>
      BY <1>2, <1>4 DEF ClearEnd, Abort
    <2>2. Listed' = Listed /\ First' = First
      BY <1>1, <2>1 DEF Listed, InFlight, First, locals
    <2>3. TypeOK'
      BY <2>1 DEF TypeOK, PCs, locals
    <2>4. ListIntact' /\ Sorted'
      BY <2>1, <2>2, ListKept DEF Sorted
    <2>5. StorageInv' /\ LoopInv'
      BY <1>1, <1>2, <1>3, <1>4, <2>1 DEF StorageInv, LoopInv, locals
    <2>6. QED
      BY <2>3, <2>4, <2>5
  <1>5. CASE free # 0
    <2>1. /\ used' = [used EXCEPT ![0] = TRUE]
          /\ head' = 0 /\ tail' = 0 /\ nextFree' = 0
          /\ free' = free - 1 /\ lost' = lost + 1 /\ pc' = "reseek"
          /\ UNCHANGED <<ev, next, listSize, locals, owed>>
      BY <1>2, <1>5 DEF ClearEnd, Abort, TypeOK
    <2>2. used[0] /\ used' = used
      BY <1>1, <1>2, <2>1 DEF Listed, TypeOK
    <2>3. Listed' = Listed /\ First' = First /\ tail' = tail
      BY <1>1, <2>1, <2>2 DEF Listed, InFlight, First
    <2>4. TypeOK'
      BY <1>3, <1>5, <2>1, <2>2 DEF TypeOK, PCs, locals
    <2>5. ListIntact' /\ Sorted'
      BY <2>1, <2>3, ListKept DEF Sorted
    <2>6. StorageInv' /\ LoopInv'
      BY <1>1, <1>2, <1>3, <2>1 DEF StorageInv, LoopInv, TypeOK
    <2>7. QED
      BY <2>4, <2>5, <2>6
  <1>6. QED
    BY <1>4, <1>5

(* Calls that only enter their loop.                                       *)
LEMMA EnterLoop ==
  ASSUME IInv, pc = "idle", cur' = head,
         \/ pc' = "pop" /\ before' \in Frames
         \/ pc' = "clear" /\ UNCHANGED before,
         owed = {},
         UNCHANGED <<ev, next, used, head, tail, nextFree, listSize, free,
                     pos, owed, lost>>
  PROVE  IInv'
  <1> USE DEF IInv
  <1>1. Listed' = Listed /\ First' = First
    BY DEF Listed, InFlight, First
  <1>2. TypeOK'
    BY DEF TypeOK, PCs
  <1>3. ListIntact' /\ Sorted'
    BY <1>1, ListKept DEF Sorted
  <1>4. StorageInv' /\ LoopInv'
    BY DEF StorageInv, LoopInv
  <1>5. QED
    BY <1>2, <1>3, <1>4

LEMMA ReserveInv ==
  ASSUME IInv, Reserve, owed = {}
  PROVE  IInv'
  <1>1. /\ ev' = [s \in Slots |-> AnyEvent] /\ next' = [s \in Slots |-> Null]
        /\ used' = [s \in Slots |-> s = 0]
        /\ head' = 0 /\ tail' = 0 /\ nextFree' = 1 /\ listSize' = 0
        /\ free' = N - 1 /\ lost' = 0
        /\ pc = "idle" /\ UNCHANGED <<pc, locals, owed>>
    BY DEF Reserve
  <1>2. TypeOK'
    BY <1>1, AnyEventType, SlotsAssumption DEF IInv, TypeOK, Slots, Null, locals
  <1>a. 0 \in Slots /\ 1 \in Slots
    BY SlotsAssumption DEF Slots
  <1>b. \A s \in Slots : used'[s] <=> s = 0
    BY <1>1, Zenon
  <1>3. Listed' = {0} /\ First' = 0
    <2>1. InFlight' = {} /\ First' = 0
      BY <1>1 DEF InFlight, First
    <2>2. QED
      BY <1>a, <1>b, <2>1 DEF Listed
  <1>4. ListIntact'
    <2>0. [s \in {0} |-> 0] \in [Listed' -> 0..listSize']
      BY <1>1, <1>3
    <2>1. PICK rank \in [Listed' -> 0..listSize'] : rank = [s \in {0} |-> 0]
      BY <2>0
    <2>2. Ranks(rank)'
      BY <1>1, <1>3, <2>1 DEF Ranks
    <2>3. QED
      BY <1>1, <1>3, <2>2 DEF ListIntact
  <1>5. Sorted' /\ LoopInv'
    BY <1>1, <1>3 DEF Sorted, LoopInv
  <1>6. StorageInv'
    <2>1. ~used'[1]
      BY <1>a, <1>b
    <2>2. QED
      BY <1>1, <2>1, SlotsAssumption DEF IInv, StorageInv
  <1>7. QED
    BY <1>2, <1>4, <1>5, <1>6 DEF IInv

LEMMA NextInv ==
  ASSUME Disciplined, IInv, [Next]_vars
  PROVE  IInv'
  <1>1. CASE Seek \/ Link \/ Walk \/ Pop \/ Rebase \/ ClearLoop \/ ClearEnd
    BY <1>1, SeekInv, LinkInv, WalkInv, PopInv, RebaseInv, ClearLoopInv, ClearEndInv
  <1>2. CASE InsertOwed
    <2>1. PICK e \in owed : Insert(e) /\ owed' = {}
      BY <1>2 DEF InsertOwed
    <2>2. e \in Events /\ free >= 2
      BY DEF IInv, TypeOK, StorageInv
    <2>3. QED
      BY <2>1, <2>2, InsertInv
  <1>3. CASE Call
    <2> USE DEF Call
    <2>1. owed = {} /\ Spare \in Nat /\ Spare >= 1 /\ free \in Nat /\ listSize \in Nat
      BY <1>3, SpareAssumption DEF Disciplined, IInv, TypeOK
    <2>2. CASE Room(1) /\ UNCHANGED owed /\ \E e \in Events : Insert(e)
      <3>1. free >= 2 /\ owed' = {}
        BY <2>1, <2>2 DEF Room
      <3>2. QED
        BY <2>2, <3>1, InsertInv
    <2>3. CASE /\ Room(2)
               /\ \E e \in Events, n \in Lengths : e.what[1] = "on" /\ InsertNote(e, n)
      <3>1. PICK e \in Events, n \in Lengths : InsertNote(e, n)
        BY <2>3
      <3>2. free >= 3 /\ free >= 2
        BY <2>1, <2>3 DEF Room
      <3>3. Insert(e) /\ owed' \subseteq Events
        BY <3>1, NoteOffType DEF InsertNote
      <3>4. QED
        BY <3>2, <3>3, InsertInv
    <2>4. CASE \E f \in Frames : Consumed(f)
      BY <2>1, <2>4, EnterLoop DEF Consumed
    <2>5. CASE Clear
      BY <2>1, <2>5, EnterLoop DEF Clear
    <2>6. CASE Reserve
      BY <2>1, <2>6, ReserveInv
    <2>7. QED
      BY <1>3, <2>2, <2>3, <2>4, <2>5, <2>6
  <1>4. CASE UNCHANGED vars
    <2>1. Listed' = Listed /\ First' = First
      BY <1>4 DEF vars, locals, Listed, InFlight, First
    <2>2. ListIntact' /\ Sorted'
      BY <1>4, <2>1, ListKept DEF IInv, vars, Sorted
    <2>3. TypeOK' /\ StorageInv' /\ LoopInv'
      BY <1>4, <2>1 DEF IInv, vars, locals, TypeOK, StorageInv, LoopInv
    <2>4. QED
      BY <2>2, <2>3 DEF IInv
  <1>5. QED
    BY <1>1, <1>2, <1>3, <1>4 DEF Next, Step

THEOREM Invariance == ASSUME Disciplined PROVE Spec => []IInv
  <1>1. IInv /\ [Next]_vars => IInv'
    BY NextInv
  <1>2. QED
    BY InitIInv, <1>1, PTL DEF Spec

(* The variables of a script keep their types, its counters are counts and *)
(* no frame underflows when consumed() moves the events.                   *)
THEOREM TypeCorrect == ASSUME Disciplined PROVE Spec => []TypeOK
  <1>1. IInv => TypeOK
    BY DEF IInv
  <1>2. QED
    BY Invariance, <1>1, PTL

(* The slots in use are exactly those the list links, each once, up to the *)
(* sentinel, at every step of every operation.                             *)
THEOREM ListCorrect == ASSUME Disciplined PROVE Spec => []ListIntact
  <1>1. IInv => ListIntact
    BY DEF IInv
  <1>2. QED
    BY Invariance, <1>1, PTL

(* The list is sorted by frame at every step of every operation.           *)
THEOREM ListSorted == ASSUME Disciplined PROVE Spec => []Sorted
  <1>1. IInv => Sorted
    BY DEF IInv
  <1>2. QED
    BY Invariance, <1>1, PTL

(* m_free is exact but for what clear() costs: an insertion takes one slot  *)
(* and one off the count, a release gives both back, and clear() counts the *)
(* sentinel, which it had all along.                                       *)
LEMMA InUseFinite == IsFiniteSet(InUse) /\ Cardinality(InUse) \in Nat
  <1>1. IsFiniteSet(Slots)
    BY SlotsAssumption, FS_Interval DEF Slots
  <1>2. InUse \in SUBSET Slots
    BY DEF InUse
  <1>3. QED
    BY <1>1, <1>2, FS_Subset, FS_CardinalityType

LEMMA TakenCounts ==
  ASSUME TypeOK, FreeCounts, NEW s \in Slots, ~used[s],
         used' = [used EXCEPT ![s] = TRUE], free' = free - 1, lost' = lost
  PROVE  FreeCounts'
  <1>1. InUse' = InUse \cup {s} /\ s \notin InUse
    BY DEF InUse, TypeOK
  <1>2. Cardinality(InUse') = Cardinality(InUse) + 1
    BY <1>1, InUseFinite, FS_AddElement
  <1>3. QED
    BY <1>2, InUseFinite, SlotsAssumption DEF FreeCounts, TypeOK

LEMMA ReleasedCounts ==
  ASSUME TypeOK, FreeCounts, used[cur], Release, lost' = lost
  PROVE  FreeCounts'
  <1>1. used' = [used EXCEPT ![cur] = FALSE] /\ free' = free + 1
    BY DEF Release
  <1>2. InUse' = InUse \ {cur} /\ cur \in InUse
    BY <1>1 DEF InUse, TypeOK
  <1>3. Cardinality(InUse') = Cardinality(InUse) - 1
    BY <1>2, InUseFinite, FS_RemoveElement
  <1>4. QED
    BY <1>1, <1>3, InUseFinite, SlotsAssumption DEF FreeCounts, TypeOK

LEMMA CountsKept ==
  ASSUME FreeCounts, UNCHANGED <<used, free, lost>>
  PROVE  FreeCounts'
  BY DEF FreeCounts, InUse

LEMMA OneInUse ==
  /\ Init => FreeCounts
  /\ Reserve => FreeCounts'
  <1>1. 0 \in Slots /\ N \in Nat
    BY SlotsAssumption DEF Slots
  <1>2. ASSUME NEW u, u = [s \in Slots |-> s = 0] PROVE {s \in Slots : u[s]} = {0}
    <2>1. \A s \in Slots : u[s] <=> s = 0
      BY <1>2, Zenon
    <2>2. QED
      BY <1>1, <2>1
  <1>3. Init => InUse = {0} /\ free = N - 1 /\ lost = 0
    BY <1>2 DEF Init, InUse
  <1>4. Reserve => InUse' = {0} /\ free' = N - 1 /\ lost' = 0
    BY <1>2 DEF Reserve, InUse
  <1>5. Cardinality({0}) = 1
    BY FS_Singleton
  <1>6. (N - 1) + 1 + 0 = N
    BY <1>1
  <1>7. Init => FreeCounts
    BY <1>3, <1>5, <1>6 DEF FreeCounts
  <1>8. Reserve => FreeCounts'
    BY <1>4, <1>5, <1>6 DEF FreeCounts
  <1>9. QED
    BY <1>7, <1>8

LEMMA NextCounts ==
  ASSUME IInv, FreeCounts, [Next]_vars
  PROVE  FreeCounts'
  <1>1. CASE Seek \/ Link \/ Walk \/ Rebase
    BY <1>1, CountsKept DEF Seek, Link, Walk, Rebase
  <1>2. ASSUME NEW e, Insert(e) PROVE FreeCounts'
    <2>1. CASE free > 0
      <3>1. /\ used' = [used EXCEPT ![nextFree] = TRUE] /\ free' = free - 1
            /\ lost' = lost /\ nextFree \in Slots /\ ~used[nextFree]
        BY <1>2, <2>1 DEF Insert, IInv, TypeOK, StorageInv
      <3>2. QED
        BY <3>1, TakenCounts DEF IInv
    <2>2. CASE free = 0
      BY <1>2, <2>2, CountsKept DEF Insert, Abort
    <2>3. QED
      BY <2>1, <2>2 DEF IInv, TypeOK
  <1>3. ASSUME pc \in {"pop", "clear"} PROVE used[cur]
    BY <1>3 DEF IInv, ListIntact, First, Listed
  <1>4. CASE Pop \/ ClearLoop
    <2>1. CASE Release
      BY <1>3, <1>4, <2>1, ReleasedCounts DEF Pop, ClearLoop, IInv
    <2>2. lost' = lost
      BY <1>4 DEF Pop, ClearLoop
    <2>3. CASE UNCHANGED <<used, free>>
      BY <2>2, <2>3, CountsKept
    <2>4. QED
      BY <1>4, <2>1, <2>3 DEF Pop, ClearLoop
  <1>5. CASE ClearEnd
    <2>1. pc = "clear" /\ cur = 0 /\ 0 \in Slots
      BY <1>5, SlotsAssumption DEF ClearEnd, IInv, StorageInv, Slots
    <2>2. used[0]
      BY <1>3, <2>1
    <2>3. CASE pc' = "aborted"
      BY <1>5, <2>3, CountsKept DEF ClearEnd, Abort
    <2>4. CASE pc' # "aborted"
      <3>1. used' = [used EXCEPT ![0] = TRUE] /\ free' = free - 1 /\ lost' = lost + 1
        BY <1>5, <2>4 DEF ClearEnd, Abort
      <3>2. used' = used
        BY <2>1, <2>2, <3>1 DEF IInv, TypeOK
      <3>3. InUse' = InUse
        BY <3>2 DEF InUse
      <3>4. QED
        BY <3>1, <3>3, InUseFinite, SlotsAssumption DEF FreeCounts, IInv, TypeOK
    <2>5. QED
      BY <2>3, <2>4
  <1>6. CASE Reserve
    BY <1>6, OneInUse
  <1>7. CASE (\E f \in Frames : Consumed(f)) \/ Clear \/ UNCHANGED vars
    BY <1>7, CountsKept DEF Consumed, Clear, vars
  <1>8. QED
    BY <1>1, <1>2, <1>4, <1>5, <1>6, <1>7 DEF Next, Step, Call, InsertOwed, InsertNote

THEOREM Counting == ASSUME Disciplined PROVE Spec => []FreeCounts
  <1>1. Init => FreeCounts
    BY OneInUse
  <1>2. IInv /\ FreeCounts /\ [Next]_vars => FreeCounts'
    BY NextCounts
  <1>3. QED
    BY Invariance, <1>1, <1>2, PTL DEF Spec

(* However often the callers clear the script, the next event goes to a     *)
(* free slot, m_free is short of one slot for every clear() and of no      *)
(* other, and the assertion fails only when they have cost every slot but  *)
(* the sentinel's.                                                         *)
THEOREM AllocCorrect == ASSUME Disciplined PROVE Spec => []AllocationSound
  <1>1. ASSUME IInv, FreeCounts, pc = "aborted" PROVE lost = N - 1
    <2>1. free = 0 /\ listSize = 0 /\ InFlight = {} /\ TypeOK /\ ListIntact /\ tail = 0
      BY <1>1 DEF IInv, StorageInv, InFlight
    <2>2. Listed = {0}
      BY <2>1, EmptyList
    <2>3. InUse = {0}
      BY <2>1, <2>2 DEF Listed, InUse
    <2>4. Cardinality(InUse) = 1
      BY <2>3, FS_Singleton
    <2>5. QED
      BY <1>1, <2>1, <2>4, SlotsAssumption DEF FreeCounts, TypeOK
  <1>2. ASSUME IInv, FreeCounts PROVE AllocationSound
    BY <1>1, <1>2 DEF IInv, StorageInv, NextFreeIsFree, OnlyClearAborts, AllocationSound,
       TypeOK
  <1>3. QED
    BY Invariance, Counting, <1>2, PTL

-----------------------------------------------------------------------------
(* The refinement.                                                         *)

(* A set of natural numbers has a least one.                               *)
LEMMA LeastNat ==
  ASSUME NEW T, T \subseteq Nat, T # {}
  PROVE  \E m \in T : \A n \in T : m <= n
  <1>1. PICK m \in T : \A n \in T : <<n, m>> \notin OpToRel(<, Nat)
    BY WFMin, NatLessThanWellFounded
  <1>2. \A n \in T : ~(n < m)
    BY <1>1 DEF OpToRel
  <1>3. QED
    BY <1>2

(* Follow satisfies its equation, and nothing else does.                   *)
LEMMA FollowIs ==
  ASSUME NEW f, NEW s, NEW p, p = [k \in Nat |-> p[k]],
         p[0] = s, \A k \in Nat : p[k + 1] = f[p[k]]
  PROVE  Follow(f, s) = p
  <1> DEFINE Eq(h) == h = [k \in Nat |-> IF k = 0 THEN s ELSE f[h[k - 1]]]
  <1>1. Eq(p)
    <2>1. \A k \in Nat : p[k] = IF k = 0 THEN s ELSE f[p[k - 1]]
      <3>1. ASSUME NEW k \in Nat, k # 0 PROVE p[k] = f[p[k - 1]]
        <4>1. k - 1 \in Nat /\ (k - 1) + 1 = k
          BY <3>1
        <4>2. QED
          BY <4>1
      <3>2. QED
        BY <3>1
    <2>2. QED
      BY <2>1
  <1>2. Follow(f, s) = CHOOSE h : Eq(h)
    BY DEF Follow
  <1> HIDE DEF Eq
  <1>3. PICK h : h = Follow(f, s) /\ Eq(h)
    BY <1>1, <1>2
  <1>4. \A k \in Nat : h[k] = p[k]
    <2>1. \A k \in Nat : h[k] = IF k = 0 THEN s ELSE f[h[k - 1]]
      BY <1>3 DEF Eq
    <2>2. SUFFICES ASSUME NEW j \in Nat, h[j] # p[j] PROVE FALSE
      OBVIOUS
    <2>3. PICK m \in {k \in Nat : h[k] # p[k]} : \A n \in {k \in Nat : h[k] # p[k]} : m <= n
      BY <2>2, LeastNat
    <2>4. m # 0
      BY <2>1, <2>3
    <2>5. m - 1 \in Nat /\ (m - 1) + 1 = m
      BY <2>3, <2>4
    <2>6. h[m - 1] = p[m - 1]
      BY <2>3, <2>5
    <2>7. p[m] = f[p[m - 1]]
      BY <2>5
    <2>8. QED
      BY <2>1, <2>3, <2>4, <2>6, <2>7
  <1>5. QED
    BY <1>3, <1>4 DEF Eq

(* A path of n links to the sentinel, and the sentinel from there on, is   *)
(* what following the links finds.                                         *)
IsChain(p, links, end, s, n) ==
  /\ p = [k \in Nat |-> p[k]] /\ p[0] = s
  /\ end \in DOMAIN links /\ links = [x \in DOMAIN links |-> links[x]]
  /\ \A k \in Nat : k < n => /\ p[k] \in DOMAIN links /\ p[k] # end
                            /\ p[k + 1] = links[p[k]]
  /\ \A k \in Nat : k >= n => p[k] = end

LEMMA ChainIs ==
  ASSUME NEW p, NEW links, NEW end, NEW s, NEW n \in Nat,
         IsChain(p, links, end, s, n)
  PROVE  Follow(Links(links, end), s) = p
  <1>1. ASSUME NEW k \in Nat PROVE p[k + 1] = Links(links, end)[p[k]]
    <2>1. CASE k < n
      BY <2>1 DEF IsChain, Links
    <2>2. CASE k >= n
      BY <2>2 DEF IsChain, Links
    <2>3. QED
      BY <2>1, <2>2
  <1>2. p = [k \in Nat |-> p[k]] /\ p[0] = s
    BY DEF IsChain
  <1>3. QED
    BY <1>1, <1>2, FollowIs

(* The list is a path through the slots it lists, each met once.           *)
LEMMA PathChain ==
  ASSUME TypeOK, ListIntact
  PROVE  /\ Path \in [Nat -> Listed] /\ Path[0] = First
         /\ \A k \in Nat : k < listSize => Path[k] # tail /\ Path[k + 1] = next[Path[k]]
         /\ \A k \in Nat : k >= listSize => Path[k] = tail
         /\ \A j, k \in Nat : j < k /\ k <= listSize => Path[j] # Path[k]
         /\ \A s \in Listed : \E k \in Nat : k <= listSize /\ Path[k] = s
  <1>1. PICK rank \in [Listed -> 0..listSize] : Ranks(rank)
    BY DEF ListIntact
  <1>2. {tail, First} \subseteq Listed /\ listSize \in Nat /\ Listed \subseteq Slots
    BY DEF ListIntact, TypeOK, Listed
  <1>3. \A k \in Nat : k <= listSize => \E s \in Listed : rank[s] = listSize - k
    <2> DEFINE T == {k \in Nat : k <= listSize /\ ~\E s \in Listed : rank[s] = listSize - k}
    <2>1. SUFFICES ASSUME T # {} PROVE FALSE
      OBVIOUS
    <2>2. PICK m \in T : \A n \in T : m <= n
      BY <2>1, LeastNat
    <2>3. m # 0
      BY <1>1, <1>2, <2>2 DEF Ranks
    <2>4. m - 1 \in Nat /\ m - 1 <= listSize /\ m - 1 \notin T
      BY <1>2, <2>2, <2>3
    <2>5. PICK s \in Listed : rank[s] = listSize - (m - 1)
      BY <2>4
    <2>6. s # tail
      BY <1>1, <1>2, <2>2, <2>5 DEF Ranks
    <2>7. next[s] \in Listed /\ rank[next[s]] = listSize - m
      BY <1>1, <1>2, <2>2, <2>5, <2>6 DEF Ranks
    <2>8. QED
      BY <2>2, <2>7
  <1> DEFINE q == [k \in Nat |-> IF k < listSize
                                 THEN CHOOSE s \in Listed : rank[s] = listSize - k
                                 ELSE tail]
  <1>4. PICK p : p = q
    OBVIOUS
  <1>5. \A k \in Nat : k <= listSize => p[k] \in Listed /\ rank[p[k]] = listSize - k
    <2>1. ASSUME NEW k \in Nat, k < listSize
          PROVE  p[k] \in Listed /\ rank[p[k]] = listSize - k
      <3>1. p[k] = CHOOSE s \in Listed : rank[s] = listSize - k
        BY <1>4, <2>1
      <3>2. \E s \in Listed : rank[s] = listSize - k
        BY <1>2, <1>3, <2>1
      <3>3. QED
        BY <3>1, <3>2
    <2>2. p[listSize] = tail
      BY <1>2, <1>4
    <2>3. QED
      BY <1>1, <1>2, <2>1, <2>2 DEF Ranks
  <1>6. \A k \in Nat : k >= listSize => p[k] = tail
    BY <1>2, <1>4
  <1>7. p \in [Nat -> Listed]
    <2>1. p = [k \in Nat |-> p[k]]
      BY <1>4
    <2>2. \A k \in Nat : p[k] \in Listed
      BY <1>2, <1>5, <1>6
    <2>3. QED
      BY <2>1, <2>2
  <1> HIDE DEF q
  <1>8. p[0] = First
    BY <1>1, <1>2, <1>5 DEF Ranks
  <1>9. \A k \in Nat : k < listSize => p[k] # tail /\ p[k + 1] = next[p[k]]
    <2>1. SUFFICES ASSUME NEW k \in Nat, k < listSize
                   PROVE  p[k] # tail /\ p[k + 1] = next[p[k]]
      OBVIOUS
    <2>2. k + 1 \in Nat /\ k + 1 <= listSize
      BY <1>2, <2>1
    <2>3. p[k] # tail
      BY <1>1, <1>2, <1>5, <2>1 DEF Ranks
    <2>4. next[p[k]] \in Listed /\ rank[next[p[k]]] = listSize - (k + 1)
      BY <1>1, <1>2, <1>5, <2>1, <2>3 DEF Ranks
    <2>5. p[k + 1] \in Listed /\ rank[p[k + 1]] = listSize - (k + 1)
      BY <1>5, <2>2
    <2>6. QED
      BY <1>1, <2>3, <2>4, <2>5 DEF Ranks
  <1>10. \A j, k \in Nat : j < k /\ k <= listSize => p[j] # p[k]
    BY <1>2, <1>5
  <1>11. \A s \in Listed : \E k \in Nat : k <= listSize /\ p[k] = s
    <2>1. SUFFICES ASSUME NEW s \in Listed
                   PROVE  \E k \in Nat : k <= listSize /\ p[k] = s
      OBVIOUS
    <2>2. rank[s] \in 0..listSize
      BY <1>1
    <2>3. listSize - rank[s] \in Nat /\ listSize - rank[s] <= listSize
          /\ listSize - (listSize - rank[s]) = rank[s]
      BY <1>2, <2>2
    <2>4. p[listSize - rank[s]] = s
      BY <1>1, <1>5, <2>3 DEF Ranks
    <2>5. QED
      BY <2>3, <2>4
  <1>12. Path = p
    <2>1. IsChain(p, next, tail, First, listSize)
      BY <1>2, <1>6, <1>7, <1>8, <1>9 DEF IsChain, TypeOK
    <2>2. QED
      BY <1>2, <2>1, ChainIs DEF Path
  <1>13. QED
    BY <1>6, <1>7, <1>8, <1>9, <1>10, <1>11, <1>12

(* The frames along the list do not decrease.                              *)
LEMMA PathSorted ==
  ASSUME TypeOK, ListIntact, Sorted,
         NEW i \in Nat, NEW j \in Nat, i <= j, j < listSize
  PROVE  ev[Path[i]].frame <= ev[Path[j]].frame
  <1> DEFINE T == {k \in Nat : i <= k /\ k < listSize
                                /\ ~(ev[Path[i]].frame <= ev[Path[k]].frame)}
  <1>1. SUFFICES ASSUME T # {} PROVE FALSE
    OBVIOUS
  <1>2. PICK m \in T : \A n \in T : m <= n
    BY <1>1, LeastNat
  <1>3. listSize \in Nat /\ \A k \in Nat : ev[Path[k]].frame \in Nat
    BY PathChain DEF TypeOK, Events, Frames, Listed
  <1>4. m # i
    BY <1>2, <1>3
  <1>5. m - 1 \in Nat /\ i <= m - 1 /\ m - 1 < listSize /\ m - 1 \notin T /\ (m - 1) + 1 = m
    BY <1>2, <1>3, <1>4
  <1>6. ev[Path[i]].frame <= ev[Path[m - 1]].frame
    BY <1>5
  <1>7. /\ Path[m - 1] \in Listed \ {tail} /\ Path[m] = next[Path[m - 1]]
        /\ Path[m] # tail
    BY <1>2, <1>5, PathChain
  <1>8. ev[Path[m - 1]].frame <= ev[Path[m]].frame
    BY <1>7 DEF Sorted
  <1>9. QED
    BY <1>2, <1>3, <1>5, <1>6, <1>8

(* Cut finds the place where the frames of a sequence of n events pass a    *)
(* given one.                                                              *)
IsCut(q, n, frame, k) ==
  /\ q = [i \in 1..n |-> q[i]]
  /\ k \in 0..n
  /\ \A i \in 1..n : q[i].frame < frame <=> i <= k

LEMMA CutIs ==
  ASSUME NEW n \in Nat, NEW q, NEW frame, NEW k, IsCut(q, n, frame, k)
  PROVE  Len(q) = n /\ Cut(q, frame) = k
  <1>1. Len(q) = n
    BY DEF IsCut
  <1>2. \A j \in 0..n : (\A i \in 1..n : q[i].frame < frame <=> i <= j) => j = k
    <2>1. SUFFICES ASSUME NEW j \in 0..n, j # k,
                          \A i \in 1..n : q[i].frame < frame <=> i <= j
                   PROVE  FALSE
      OBVIOUS
    <2>2. \A i \in 1..n : i <= j <=> i <= k
      BY <2>1 DEF IsCut
    <2>3. k \in 0..n
      BY DEF IsCut
    <2>4. CASE j < k
      BY <2>2, <2>3, <2>4
    <2>5. CASE k < j
      BY <2>2, <2>3, <2>5
    <2>6. QED
      BY <2>1, <2>3, <2>4, <2>5
  <1>3. Cut(q, frame) = CHOOSE j \in 0..n : \A i \in 1..n : q[i].frame < frame <=> i <= j
    BY <1>1 DEF Cut
  <1>4. QED
    BY <1>1, <1>2, <1>3 DEF IsCut

(* What After and InsertSorted return when the cut is at k.                *)
AfterCut(q, n, frame, k) ==
  [i \in 1..(n - k) |-> [q[i + k] EXCEPT !.frame = q[i + k].frame - frame]]

InsertedAt(q, n, e, k) ==
  [i \in 1..(n + 1) |-> IF i <= k THEN q[i] ELSE IF i = k + 1 THEN e ELSE q[i - 1]]

LEMMA AfterIs ==
  ASSUME NEW n \in Nat, NEW q, NEW frame, NEW k, IsCut(q, n, frame, k)
  PROVE  After(q, frame) = AfterCut(q, n, frame, k)
  BY CutIs DEF After, AfterCut

LEMMA InsertSortedIs ==
  ASSUME NEW n \in Nat, NEW q, NEW e, NEW k, IsCut(q, n, e.frame + 1, k)
  PROVE  InsertSorted(q, e) = InsertedAt(q, n, e, k)
  BY CutIs DEF InsertSorted, InsertedAt

(* The events of the list, in its order.                                   *)
LEMMA LeftIs ==
  ASSUME TypeOK, ListIntact, Sorted
  PROVE  /\ listSize \in Nat /\ Left = [i \in 1..listSize |-> Left[i]]
         /\ \A i \in 1..listSize : /\ i - 1 \in Nat /\ Path[i - 1] \in Listed \ {tail}
                                   /\ Left[i] = ev[Path[i - 1]]
                                   /\ Left[i] \in Events /\ Left[i].frame \in Nat
         /\ \A i, j \in 1..listSize : i <= j => Left[i].frame <= Left[j].frame
  <1>1. listSize \in Nat /\ Left = [i \in 1..listSize |-> ev[Path[i - 1]]]
    BY DEF TypeOK, Left
  <1>2. ASSUME NEW i \in 1..listSize
        PROVE  /\ i - 1 \in Nat /\ Path[i - 1] \in Listed \ {tail}
               /\ Left[i] = ev[Path[i - 1]]
               /\ Left[i] \in Events /\ Left[i].frame \in Nat
    <2>1. i - 1 \in Nat /\ i - 1 < listSize
      BY <1>1
    <2>2. Path[i - 1] \in Listed \ {tail} /\ Left[i] = ev[Path[i - 1]]
      BY <1>1, <2>1, PathChain
    <2>3. Left[i] \in Events
      BY <2>2 DEF TypeOK, Listed
    <2>4. QED
      BY <2>1, <2>2, <2>3 DEF Events, Frames
  <1>3. ASSUME NEW i \in 1..listSize, NEW j \in 1..listSize, i <= j
        PROVE  Left[i].frame <= Left[j].frame
    <2>1. i - 1 \in Nat /\ j - 1 \in Nat /\ i - 1 <= j - 1 /\ j - 1 < listSize
      BY <1>1, <1>3
    <2>2. QED
      BY <1>2, <2>1, PathSorted
  <1>4. QED
    BY <1>1, <1>2, <1>3

LEMMA CutExists ==
  ASSUME TypeOK, ListIntact, Sorted, NEW frame \in Nat
  PROVE  \E k \in 0..listSize : IsCut(Left, listSize, frame, k)
  <1> DEFINE T == {k \in Nat : k <= listSize
                    /\ (k < listSize => Left[k + 1].frame >= frame)}
  <1>1. listSize \in T /\ listSize \in Nat
    BY DEF TypeOK
  <1>2. PICK k \in T : \A n \in T : k <= n
    BY <1>1, LeastNat
  <1>3. ASSUME NEW i \in 1..listSize PROVE Left[i].frame < frame <=> i <= k
    <2>1. CASE i <= k
      <3>1. i - 1 \in Nat /\ i - 1 \notin T /\ (i - 1) + 1 = i
        BY <1>1, <1>2, <2>1
      <3>2. Left[i].frame \in Nat
        BY LeftIs
      <3>3. QED
        BY <1>1, <2>1, <3>1, <3>2
    <2>2. CASE i > k
      <3>1. k + 1 \in 1..listSize /\ k + 1 <= i /\ Left[k + 1].frame >= frame
        BY <1>1, <1>2, <2>2
      <3>2. Left[k + 1].frame <= Left[i].frame
        BY <3>1, LeftIs
      <3>3. Left[k + 1].frame \in Nat /\ Left[i].frame \in Nat
        BY <3>1, LeftIs
      <3>4. QED
        BY <2>2, <3>1, <3>2, <3>3
    <2>3. QED
      BY <1>2, <2>1, <2>2
  <1>4. QED
    BY <1>1, <1>2, <1>3, LeftIs DEF IsCut

-----------------------------------------------------------------------------
(* A step that touches neither the links nor a listed event shows nothing.  *)
LEMMA LeftKept ==
  ASSUME TypeOK, ListIntact, Sorted, First' = First, UNCHANGED <<next, tail, listSize>>,
         \A s \in Listed : ev'[s] = ev[s]
  PROVE  Path' = Path /\ Left' = Left
  <1>1. Path' = Path
    BY DEF Path
  <1>2. \A i \in 1..listSize : ev'[Path[i - 1]] = Left[i]
    BY LeftIs
  <1>3. Left' = [i \in 1..listSize |-> ev'[Path[i - 1]]]
    BY <1>1 DEF Left
  <1>4. Left' = [i \in 1..listSize |-> Left[i]]
    BY <1>2, <1>3
  <1>5. QED
    BY <1>1, <1>4, LeftIs

(* insert() shows nothing until it links its slot, ...                      *)
LEMMA InsertRefines ==
  ASSUME IInv, NEW e \in Events, Insert(e), free >= 2
  PROVE  Contents' = Contents
  <1>1. /\ pc = "idle" /\ pc' = "seek" /\ ~used[nextFree] /\ nextFree \in Slots
        /\ ev' = [ev EXCEPT ![nextFree] = e]
        /\ UNCHANGED <<next, head, tail, listSize, cur, before>>
    BY DEF Insert, IInv, TypeOK, StorageInv
  <1>2. First' = First /\ \A s \in Listed : ev'[s] = ev[s]
    BY <1>1 DEF First, Listed, IInv, TypeOK
  <1>3. Left' = Left
    BY <1>1, <1>2, LeftKept DEF IInv
  <1>4. QED
    BY <1>1, <1>3 DEF Contents

LEMMA SeekRefines ==
  ASSUME IInv, Seek
  PROVE  Contents' = Contents
  <1>1. /\ pc \in {"seek", "reseek"} /\ pc' \in {"seek", "reseek", "link", "idle"}
        /\ UNCHANGED <<ev, next, head, tail, listSize>>
    BY ReturnType DEF Seek, locals
  <1>2. First' = First
    BY <1>1 DEF First
  <1>3. Left' = Left
    BY <1>1, <1>2, LeftKept DEF IInv
  <1>4. QED
    BY <1>1, <1>3 DEF Contents

(* ... which puts the event before all others, ...                          *)
LEMMA LinkHeadRefines ==
  ASSUME IInv, Link, listSize = 0 \/ Earlier(pos, head)
  PROVE  Abstract!Insert(ev[pos])
  <1>1. /\ pc = "link" /\ pc' = "idle" /\ used[pos] /\ pos # tail /\ pos \in Slots
        /\ next' = [next EXCEPT ![pos] = IF listSize = 0 THEN tail ELSE head]
        /\ head' = pos /\ listSize' = listSize + 1
        /\ UNCHANGED <<ev, tail>>
    BY ReturnType DEF Link, IInv, TypeOK, LoopInv
  <1>2. First = head /\ First' = pos /\ pos \notin Listed /\ tail \in Slots
        /\ TypeOK /\ ListIntact /\ Sorted
    BY <1>1 DEF First, Listed, InFlight, IInv, TypeOK
  <1>3. listSize \in Nat /\ (listSize = 0 => head = tail)
    BY <1>2, PathChain DEF TypeOK
  <1>4. next'[pos] = head /\ \A s \in Slots \ {pos} : next'[s] = next[s]
    BY <1>1, <1>2, <1>3 DEF TypeOK
  <1> DEFINE q == [k \in Nat |-> IF k = 0 THEN pos ELSE Path[k - 1]]
  <1>5. PICK p : p = q
    OBVIOUS
  <1>6. p[0] = pos /\ \A k \in Nat : k > 0 => k - 1 \in Nat /\ p[k] = Path[k - 1]
    BY <1>5
  <1>7. IsChain(p, next', tail', First', listSize')
    <2>1. DOMAIN next' = Slots /\ next' = [x \in Slots |-> next'[x]]
      BY <1>1 DEF IInv, TypeOK
    <2>2. ASSUME NEW k \in Nat, k < listSize + 1
          PROVE  p[k] \in Slots /\ p[k] # tail /\ p[k + 1] = next'[p[k]]
      <3>1. p[k + 1] = Path[k]
        BY <1>6
      <3>2. CASE k = 0
        BY <1>1, <1>2, <1>4, <1>6, <3>1, <3>2, PathChain
      <3>3. CASE k > 0
        <4>1. k - 1 \in Nat /\ k - 1 < listSize /\ (k - 1) + 1 = k /\ p[k] = Path[k - 1]
          BY <1>3, <1>6, <2>2, <3>3
        <4>2. Path[k - 1] \in Listed \ {tail} /\ Path[k] = next[Path[k - 1]]
          BY <1>2, <4>1, PathChain
        <4>3. QED
          BY <1>2, <1>4, <3>1, <4>1, <4>2 DEF Listed
      <3>4. QED
        BY <3>2, <3>3
    <2>3. ASSUME NEW k \in Nat, k >= listSize + 1 PROVE p[k] = tail
      <3>1. k - 1 \in Nat /\ k - 1 >= listSize /\ p[k] = Path[k - 1]
        BY <1>3, <1>6, <2>3
      <3>2. QED
        BY <1>2, <3>1, PathChain
    <2>4. QED
      BY <1>1, <1>2, <1>5, <1>6, <2>1, <2>2, <2>3 DEF IsChain
  <1>8. Path' = p
    BY <1>1, <1>3, <1>7, ChainIs DEF Path
  <1>c. PICK c : c = 0
    OBVIOUS
  <1>9. IsCut(Left, listSize, ev[pos].frame + 1, c)
    <2>1. ev[pos].frame \in Nat
      BY <1>1 DEF IInv, TypeOK, Events, Frames
    <2>2. ASSUME NEW i \in 1..listSize PROVE ~(Left[i].frame < ev[pos].frame + 1)
      <3>1. 1 \in 1..listSize /\ Left[1] = ev[head]
        <4>1. 1 \in 1..listSize /\ 1 - 1 = 0
          BY <1>3
        <4>2. Left[1] = ev[Path[1 - 1]]
          BY <1>2, <4>1, LeftIs
        <4>3. Path[0] = head
          BY <1>2, PathChain
        <4>4. QED
          BY <4>1, <4>2, <4>3
      <3>2. Left[1].frame <= Left[i].frame /\ Left[i].frame \in Nat /\ Left[1].frame \in Nat
        BY <1>2, <3>1, LeftIs
      <3>3. ev[pos].frame < ev[head].frame
        BY <1>3 DEF Earlier
      <3>4. QED
        BY <2>1, <3>1, <3>2, <3>3
    <2>3. QED
      BY <1>2, <1>3, <1>c, <2>2, LeftIs DEF IsCut
  <1>10. InsertSorted(Left, ev[pos]) = InsertedAt(Left, listSize, ev[pos], c)
    BY <1>3, <1>9, InsertSortedIs
  <1>11. Left' = [i \in 1..(listSize + 1) |-> ev[p[i - 1]]]
    BY <1>1, <1>8 DEF Left
  <1>12. ASSUME NEW i \in 1..(listSize + 1)
         PROVE  ev[p[i - 1]] = IF i <= c THEN Left[i]
                               ELSE IF i = c + 1 THEN ev[pos] ELSE Left[i - 1]
    <2>1. CASE i = 1
      BY <1>6, <1>c, <2>1
    <2>2. CASE i > 1
      <3>1. i - 1 \in 1..listSize /\ i - 1 \in Nat /\ i - 1 > 0
        BY <1>3, <2>2
      <3>2. p[i - 1] = Path[(i - 1) - 1] /\ Left[i - 1] = ev[Path[(i - 1) - 1]]
        BY <1>2, <1>6, <3>1, LeftIs
      <3>3. QED
        BY <1>c, <2>2, <3>2
    <2>3. QED
      BY <1>3, <2>1, <2>2
  <1>13. Left' = InsertSorted(Left, ev[pos])
    BY <1>10, <1>11, <1>12 DEF InsertedAt
  <1>14. Contents = Left /\ Contents' = Left'
    BY <1>1 DEF Contents
  <1>15. QED
    BY <1>13, <1>14 DEF Abstract!Insert, Abstract!InsertSorted, Abstract!Cut,
                        InsertSorted, Cut

(* ... or behind the slot where the loop ends: the events up to there are   *)
(* not later than the new one, the others are.                             *)
LEMMA LinkBehindRefines ==
  ASSUME IInv, Walk, InsertsHere
  PROVE  Abstract!Insert(ev[pos])
  <1>1. /\ pc = "walk" /\ pc' = "idle" /\ used[pos] /\ pos # tail /\ pos \in Slots
        /\ cur \in Listed \ {tail} /\ ev[cur].frame <= ev[pos].frame
        /\ next' = [next EXCEPT ![pos] = next[cur], ![cur] = pos]
        /\ listSize' = listSize + 1
        /\ UNCHANGED <<ev, head, tail>>
    BY ReturnType DEF Walk, IInv, TypeOK, LoopInv
  <1>2. First' = First /\ pos \notin Listed /\ tail \in Slots
        /\ TypeOK /\ ListIntact /\ Sorted /\ listSize \in Nat
    BY <1>1 DEF First, Listed, InFlight, IInv, TypeOK
  <1>3. PICK c \in Nat : c <= listSize /\ Path[c] = cur
    BY <1>1, <1>2, PathChain
  <1>4. c < listSize /\ Path[c + 1] = next[cur] /\ \A k \in Nat : Path[k] = cur => k = c
    <2>1. c < listSize
      BY <1>1, <1>2, <1>3, PathChain
    <2>2. ASSUME NEW k \in Nat, Path[k] = cur PROVE k = c
      <3>1. k < listSize
        BY <1>1, <1>2, <2>2, PathChain
      <3>2. ~(k < c) /\ ~(c < k)
        BY <1>2, <1>3, <2>1, <2>2, <3>1, PathChain
      <3>3. QED
        BY <1>3, <3>2
    <2>3. QED
      BY <1>2, <1>3, <2>1, <2>2, PathChain
  <1>5. /\ next'[pos] = next[cur] /\ next'[cur] = pos
        /\ \A s \in Slots \ {pos, cur} : next'[s] = next[s]
    BY <1>1, <1>2 DEF TypeOK, Listed
  <1> DEFINE q == [k \in Nat |-> IF k <= c THEN Path[k]
                                 ELSE IF k = c + 1 THEN pos ELSE Path[k - 1]]
  <1>6. PICK p : p = q
    OBVIOUS
  <1>7. /\ \A k \in Nat : k <= c => p[k] = Path[k]
        /\ p[c + 1] = pos
        /\ \A k \in Nat : k > c + 1 => k - 1 \in Nat /\ p[k] = Path[k - 1]
    BY <1>3, <1>6
  <1>8. IsChain(p, next', tail', First', listSize')
    <2>1. DOMAIN next' = Slots /\ next' = [x \in Slots |-> next'[x]]
      BY <1>1 DEF IInv, TypeOK
    <2>2. ASSUME NEW k \in Nat, k < listSize + 1
          PROVE  p[k] \in Slots /\ p[k] # tail /\ p[k + 1] = next'[p[k]]
      <3>1. CASE k < c
        <4>1. k + 1 \in Nat /\ k + 1 <= c /\ k < listSize
          BY <1>2, <1>3, <1>4, <3>1
        <4>2. Path[k] \in Listed \ {tail, cur} /\ Path[k + 1] = next[Path[k]]
          BY <1>2, <1>4, <3>1, <4>1, PathChain
        <4>3. p[k] = Path[k] /\ p[k + 1] = Path[k + 1]
          BY <1>7, <3>1, <4>1
        <4>4. QED
          BY <1>2, <1>5, <4>2, <4>3 DEF Listed
      <3>2. CASE k = c
        <4>1. p[k] = cur /\ p[k + 1] = pos
          BY <1>3, <1>7, <3>2
        <4>2. QED
          BY <1>1, <1>5, <4>1 DEF Listed
      <3>3. CASE k = c + 1
        <4>1. p[k + 1] = Path[c + 1]
          BY <1>3, <1>7, <3>3
        <4>2. QED
          BY <1>1, <1>4, <1>5, <1>7, <3>3, <4>1
      <3>4. CASE k > c + 1
        <4>1. /\ k - 1 \in Nat /\ k - 1 # c /\ k - 1 < listSize /\ (k - 1) + 1 = k
              /\ k + 1 \in Nat /\ k + 1 > c + 1 /\ (k + 1) - 1 = k
          BY <1>2, <1>3, <2>2, <3>4
        <4>2. Path[k - 1] \in Listed \ {tail, cur} /\ Path[k] = next[Path[k - 1]]
          BY <1>2, <1>4, <4>1, PathChain
        <4>3. p[k] = Path[k - 1] /\ p[k + 1] = Path[k]
          BY <1>7, <3>4, <4>1
        <4>4. QED
          BY <1>2, <1>5, <4>2, <4>3 DEF Listed
      <3>5. QED
        BY <1>3, <3>1, <3>2, <3>3, <3>4
    <2>3. ASSUME NEW k \in Nat, k >= listSize + 1 PROVE p[k] = tail
      <3>1. k > c + 1 /\ k - 1 \in Nat /\ k - 1 >= listSize /\ p[k] = Path[k - 1]
        BY <1>2, <1>3, <1>4, <1>7, <2>3
      <3>2. QED
        BY <1>2, <3>1, PathChain
    <2>4. p[0] = First
      BY <1>2, <1>3, <1>7, PathChain
    <2>5. QED
      BY <1>1, <1>2, <1>6, <2>1, <2>2, <2>3, <2>4 DEF IsChain
  <1>9. Path' = p
    BY <1>1, <1>2, <1>8, ChainIs DEF Path
  <1>10. PICK m : m = c + 1
    OBVIOUS
  <1>11. IsCut(Left, listSize, ev[pos].frame + 1, m)
    <2>1. \A s \in Slots : ev[s].frame \in Nat
      BY <1>2 DEF TypeOK, Events, Frames
    <2>2. m \in 1..listSize /\ Left[m] = ev[cur]
      <3>1. m \in 1..listSize /\ m - 1 = c
        BY <1>2, <1>3, <1>4, <1>10
      <3>2. QED
        BY <1>2, <1>3, <3>1, LeftIs
    <2>3. ASSUME NEW i \in 1..listSize PROVE Left[i].frame < ev[pos].frame + 1 <=> i <= m
      <3>1. CASE i <= m
        <4>1. Left[i].frame <= Left[m].frame /\ Left[i].frame \in Nat
          BY <1>2, <2>2, <3>1, LeftIs
        <4>2. QED
          BY <1>1, <2>1, <2>2, <3>1, <4>1 DEF Listed
      <3>2. CASE i > m
        <4>1. m + 1 \in 1..listSize /\ (m + 1) - 1 = c + 1 /\ m + 1 <= i
          BY <1>2, <1>3, <1>10, <3>2
        <4>2. Left[m + 1] = ev[next[cur]] /\ next[cur] # tail
          BY <1>2, <1>4, <4>1, LeftIs
        <4>3. ev[pos].frame < Left[m + 1].frame
          BY <4>2 DEF InsertsHere, Earlier
        <4>4. Left[m + 1].frame <= Left[i].frame /\ Left[i].frame \in Nat
              /\ Left[m + 1].frame \in Nat
          BY <1>2, <4>1, LeftIs
        <4>5. ev[pos].frame \in Nat
          BY <1>1, <2>1
        <4>6. QED
          BY <2>2, <3>2, <4>3, <4>4, <4>5
      <3>3. QED
        BY <2>2, <3>1, <3>2
    <2>4. QED
      BY <1>2, <2>2, <2>3, LeftIs DEF IsCut
  <1>12. InsertSorted(Left, ev[pos]) = InsertedAt(Left, listSize, ev[pos], m)
    <2>1. listSize \in Nat
      BY <1>2
    <2>2. QED
      BY <1>11, <2>1, InsertSortedIs
  <1>13. Left' = [i \in 1..(listSize + 1) |-> ev[p[i - 1]]]
    BY <1>1, <1>9 DEF Left
  <1>14. ASSUME NEW i \in 1..(listSize + 1)
         PROVE  ev[p[i - 1]] = IF i <= m THEN Left[i]
                               ELSE IF i = m + 1 THEN ev[pos] ELSE Left[i - 1]
    <2>1. CASE i <= m
      <3>1. i \in 1..listSize /\ i - 1 \in Nat /\ i - 1 <= c
        BY <1>2, <1>3, <1>4, <1>10, <2>1
      <3>2. Left[i] = ev[Path[i - 1]] /\ p[i - 1] = Path[i - 1]
        BY <1>2, <1>7, <3>1, LeftIs
      <3>3. QED
        BY <2>1, <3>2
    <2>2. CASE i = m + 1
      <3>1. i - 1 = c + 1 /\ ~(i <= m)
        BY <1>3, <1>10, <2>2
      <3>2. QED
        BY <1>7, <2>2, <3>1
    <2>3. CASE i > m + 1
      <3>1. i - 1 \in 1..listSize /\ i - 1 \in Nat /\ i - 1 > c + 1 /\ ~(i <= m) /\ i # m + 1
        BY <1>2, <1>3, <1>10, <2>3
      <3>2. p[i - 1] = Path[(i - 1) - 1] /\ Left[i - 1] = ev[Path[(i - 1) - 1]]
        BY <1>2, <1>7, <3>1, LeftIs
      <3>3. QED
        BY <3>1, <3>2
    <2>4. QED
      BY <1>3, <1>10, <2>1, <2>2, <2>3
  <1>15. Left' = InsertSorted(Left, ev[pos])
    BY <1>12, <1>13, <1>14 DEF InsertedAt
  <1>16. Contents = Left /\ Contents' = Left'
    BY <1>1 DEF Contents
  <1>17. QED
    BY <1>15, <1>16 DEF Abstract!Insert, Abstract!InsertSorted, Abstract!Cut,
                        InsertSorted, Cut

LEMMA LinkRefines ==
  ASSUME IInv, Link
  PROVE  Abstract!Insert(ev[pos]) \/ Contents' = Contents
  <1>1. CASE listSize = 0 \/ Earlier(pos, head)
    BY <1>1, LinkHeadRefines
  <1>2. CASE ~(listSize = 0 \/ Earlier(pos, head))
    <2>1. pc = "link" /\ pc' = "walk" /\ UNCHANGED <<ev, next, head, tail, listSize>>
      BY <1>2 DEF Link
    <2>2. First' = First
      BY <2>1 DEF First
    <2>3. Left' = Left
      BY <2>1, <2>2, LeftKept DEF IInv
    <2>4. QED
      BY <2>1, <2>3 DEF Contents
  <1>3. QED
    BY <1>1, <1>2

LEMMA WalkRefines ==
  ASSUME IInv, Walk
  PROVE  Abstract!Insert(ev[pos]) \/ Contents' = Contents
  <1>1. CASE InsertsHere
    BY <1>1, LinkBehindRefines
  <1>2. CASE ~InsertsHere
    <2>1. pc = "walk" /\ pc' = "walk" /\ UNCHANGED <<ev, next, head, tail, listSize>>
      BY <1>2 DEF Walk, IInv, LoopInv
    <2>2. First' = First
      BY <2>1 DEF First
    <2>3. Left' = Left
      BY <2>1, <2>2, LeftKept DEF IInv
    <2>4. QED
      BY <2>1, <2>3 DEF Contents
  <1>3. QED
    BY <1>1, <1>2

(* consumed() drops and moves the events when it is called; while its first *)
(* loop runs, what it leaves does not change, ...                          *)
LEMMA ConsumedRefines ==
  ASSUME IInv, NEW f \in Frames, Consumed(f)
  PROVE  Abstract!Consumed(f)
  <1>1. /\ pc = "idle" /\ pc' = "pop" /\ before' = f /\ cur' = head
        /\ UNCHANGED <<ev, next, tail, listSize>>
    BY DEF Consumed
  <1>2. First' = First
    BY <1>1 DEF First
  <1>3. Left' = Left
    BY <1>1, <1>2, LeftKept DEF IInv
  <1>4. Contents = Left /\ Contents' = After(Left', before')
    BY <1>1 DEF Contents, After, Cut
  <1>5. Contents' = After(Contents, f)
    BY <1>1, <1>3, <1>4
  <1>6. QED
    BY <1>5 DEF Abstract!Consumed, Abstract!After, Abstract!Cut, After, Cut

LEMMA PopRefines ==
  ASSUME IInv, Pop
  PROVE  Contents' = Contents
  <1>1. /\ pc = "pop" /\ First = cur /\ TypeOK /\ ListIntact /\ Sorted
        /\ UNCHANGED <<next, tail, before>>
    BY DEF Pop, First, IInv
  <1>2. listSize \in Nat /\ before \in Nat /\ cur \in Slots
    BY <1>1 DEF TypeOK, Frames
  <1>3. Path[0] = cur
    BY <1>1, PathChain
  <1>4. CASE cur # tail /\ ev[cur].frame < before
    <2>1. /\ pc' = "pop" /\ listSize' = listSize - 1 /\ cur' = next[cur]
          /\ \A s \in Slots \ {cur} : ev'[s] = ev[s]
      BY <1>1, <1>4 DEF Pop, Release, TypeOK
    <2>2. listSize > 0
      BY <1>1, <1>2, <1>3, <1>4, PathChain
    <2> DEFINE q == [k \in Nat |-> Path[k + 1]]
    <2>3. PICK p : p = q
      OBVIOUS
    <2>4. \A k \in Nat : k + 1 \in Nat /\ p[k] = Path[k + 1]
      BY <2>3
    <2>5. IsChain(p, next', tail', First', listSize')
      <3>1. First' = next[cur] /\ Path[0 + 1] = next[cur]
        BY <1>1, <1>2, <1>3, <2>1, <2>2, PathChain DEF First
      <3>2. ASSUME NEW k \in Nat, k < listSize - 1
            PROVE  p[k] \in Slots /\ p[k] # tail /\ p[k + 1] = next[p[k]]
        <4>1. k + 1 \in Nat /\ k + 1 < listSize
          BY <1>2, <3>2
        <4>2. Path[k + 1] \in Listed \ {tail} /\ Path[(k + 1) + 1] = next[Path[k + 1]]
          BY <1>1, <4>1, PathChain
        <4>3. QED
          BY <2>4, <4>1, <4>2 DEF Listed
      <3>3. ASSUME NEW k \in Nat, k >= listSize - 1 PROVE p[k] = tail
        <4>1. k + 1 \in Nat /\ k + 1 >= listSize
          BY <1>2, <3>3
        <4>2. QED
          BY <1>1, <2>4, <4>1, PathChain
      <3>4. tail \in Slots /\ next = [x \in Slots |-> next[x]] /\ DOMAIN next = Slots
        BY <1>1 DEF TypeOK
      <3>5. p = [k \in Nat |-> p[k]] /\ p[0] = First'
        BY <2>3, <2>4, <3>1
      <3>6. QED
        BY <1>1, <2>1, <3>2, <3>3, <3>4, <3>5 DEF IsChain
    <2>6. Path' = p
      <3>1. listSize' \in Nat
        BY <1>2, <2>1, <2>2
      <3>2. QED
        BY <2>5, <3>1, ChainIs DEF Path
    <2>7. Left' = [i \in 1..(listSize - 1) |-> Left[i + 1]]
      <3>1. Left' = [i \in 1..(listSize - 1) |-> ev'[p[i - 1]]]
        BY <2>1, <2>6 DEF Left
      <3>2. ASSUME NEW i \in 1..(listSize - 1) PROVE ev'[p[i - 1]] = Left[i + 1]
        <4>1. /\ i + 1 \in 1..listSize /\ (i + 1) - 1 = i /\ i \in Nat /\ i <= listSize
              /\ i - 1 \in Nat /\ (i - 1) + 1 = i /\ 0 < i
          BY <1>2
        <4>2. Left[i + 1] = ev[Path[i]] /\ p[i - 1] = Path[i]
          BY <1>1, <2>4, <4>1, LeftIs
        <4>3. Path[i] \in Slots \ {cur}
          BY <1>1, <1>3, <4>1, PathChain DEF Listed
        <4>4. QED
          BY <2>1, <4>2, <4>3
      <3>3. QED
        BY <3>1, <3>2
    <2>8. PICK k \in 0..listSize : IsCut(Left, listSize, before, k)
      BY <1>1, <1>2, CutExists
    <2>9. k >= 1
      <3>1. 1 \in 1..listSize /\ 1 - 1 = 0
        BY <1>2, <2>2
      <3>2. Left[1].frame < before
        BY <1>1, <1>3, <1>4, <3>1, LeftIs
      <3>3. QED
        BY <2>8, <3>1, <3>2 DEF IsCut
    <2>10. IsCut(Left', listSize - 1, before, k - 1)
      <3>1. ASSUME NEW i \in 1..(listSize - 1)
            PROVE  Left'[i].frame < before <=> i <= k - 1
        <4>1. i + 1 \in 1..listSize
          BY <1>2
        <4>2. Left[i + 1].frame < before <=> i + 1 <= k
          BY <2>8, <4>1 DEF IsCut
        <4>3. Left'[i] = Left[i + 1]
          BY <2>7
        <4>4. QED
          BY <2>8, <4>2, <4>3
      <3>2. Left' = [i \in 1..(listSize - 1) |-> Left'[i]]
        BY <2>7
      <3>3. k - 1 \in 0..(listSize - 1)
        BY <1>2, <2>8, <2>9
      <3>4. QED
        BY <3>1, <3>2, <3>3 DEF IsCut
    <2>11. After(Left, before) = AfterCut(Left, listSize, before, k)
      BY <1>2, <2>8, AfterIs
    <2>12. After(Left', before) = AfterCut(Left', listSize - 1, before, k - 1)
      <3>1. listSize - 1 \in Nat
        BY <1>2, <2>2
      <3>2. QED
        BY <2>10, <3>1, AfterIs
    <2>13. AfterCut(Left', listSize - 1, before, k - 1) = AfterCut(Left, listSize, before, k)
      <3>1. (listSize - 1) - (k - 1) = listSize - k
        BY <1>2, <2>8
      <3>2. ASSUME NEW i \in 1..(listSize - k) PROVE Left'[i + (k - 1)] = Left[i + k]
        <4>1. i + (k - 1) \in 1..(listSize - 1) /\ (i + (k - 1)) + 1 = i + k
          BY <1>2, <2>8, <2>9
        <4>2. QED
          BY <2>7, <4>1
      <3>3. QED
        BY <3>1, <3>2 DEF AfterCut
    <2>14. Contents = After(Left, before) /\ Contents' = After(Left', before)
      BY <1>1, <2>1 DEF Contents, After, Cut
    <2>15. QED
      BY <2>11, <2>12, <2>13, <2>14
  <1>5. CASE ~(cur # tail /\ ev[cur].frame < before)
    <2>1. pc' = "rebase" /\ head' = cur /\ UNCHANGED <<ev, listSize, cur>>
      BY <1>5 DEF Pop
    <2>2. First' = First
      BY <1>1, <2>1 DEF First
    <2>3. Left' = Left /\ Path' = Path
      BY <1>1, <2>1, <2>2, LeftKept
    <2>4. PICK k : k = 0
      OBVIOUS
    <2>5. IsCut(Left, listSize, before, k)
      <3>1. ASSUME NEW i \in 1..listSize PROVE ~(Left[i].frame < before)
        <4>1. 1 \in 1..listSize /\ 1 - 1 = 0 /\ 1 <= i
          BY <1>2
        <4>2. Left[1] = ev[cur] /\ cur # tail
          BY <1>1, <1>3, <4>1, LeftIs
        <4>3. Left[1].frame <= Left[i].frame /\ Left[1].frame \in Nat /\ Left[i].frame \in Nat
          BY <1>1, <4>1, LeftIs
        <4>4. QED
          BY <1>2, <1>5, <4>2, <4>3
      <3>2. QED
        BY <1>1, <1>2, <2>4, <3>1, LeftIs DEF IsCut
    <2>6. Contents = AfterCut(Left, listSize, before, k)
      <3>1. After(Left, before) = AfterCut(Left, listSize, before, k)
        BY <1>2, <2>5, AfterIs
      <3>2. QED
        BY <1>1, <3>1 DEF Contents
    <2>7. ASSUME NEW i \in 1..listSize PROVE ToMove(i)'
      <3>1. 0 \in 0..(i - 1)
        BY <1>2
      <3>2. QED
        BY <1>3, <2>1, <2>3, <3>1 DEF ToMove
    <2>8. Contents' = [i \in 1..listSize |-> [Left[i] EXCEPT !.frame = Left[i].frame - before]]
      BY <1>1, <2>1, <2>3, <2>7 DEF Contents, Moved
    <2>9. \A i \in 1..listSize : i + k = i /\ listSize - k = listSize
      BY <1>2, <2>4
    <2>10. QED
      BY <1>2, <2>4, <2>6, <2>8, <2>9 DEF AfterCut
  <1>6. QED
    BY <1>4, <1>5

(* A place is met on the way to slot i exactly when it comes before it.     *)
LEMMA PathMeets ==
  ASSUME TypeOK, ListIntact, NEW c \in Nat, c <= listSize, NEW i \in 1..listSize
  PROVE  (\E k \in 0..(i - 1) : Path[k] = Path[c]) <=> c < i
  <1>1. listSize \in Nat
    BY DEF TypeOK
  <1>2. ASSUME NEW k \in 0..(i - 1), Path[k] = Path[c] PROVE c < i
    <2>1. k \in Nat /\ k <= listSize
      BY <1>1
    <2>2. ~(k < c)
      BY <1>2, <2>1, PathChain
    <2>3. QED
      BY <1>1, <2>1, <2>2
  <1>3. ASSUME c < i PROVE c \in 0..(i - 1)
    BY <1>1, <1>3
  <1>4. QED
    BY <1>2, <1>3

(* ... and its second loop moves an event that had been moved all along.    *)
LEMMA RebaseRefines ==
  ASSUME IInv, Rebase
  PROVE  Contents' = Contents
  <1>1. /\ pc = "rebase" /\ TypeOK /\ ListIntact /\ Sorted /\ listSize \in Nat
        /\ cur \in Listed /\ (cur # tail => ev[cur].frame >= before)
        /\ First = head
        /\ UNCHANGED <<next, head, tail, listSize>>
    BY DEF Rebase, First, IInv, LoopInv, TypeOK
  <1>2. PICK c \in Nat : c <= listSize /\ Path[c] = cur
    BY <1>1, PathChain
  <1>3. \A i \in 1..listSize : ToMove(i) <=> c < i
    BY <1>1, <1>2, PathMeets DEF ToMove
  <1>4. Contents = Moved
    BY <1>1 DEF Contents
  <1>5. CASE cur # tail
    <2>1. /\ pc' = "rebase" /\ cur' = next[cur] /\ before' = before
          /\ ev' = [ev EXCEPT ![cur].frame = (@ - before) % FrameMod]
      BY <1>1, <1>5 DEF Rebase
    <2>2. First' = First
      BY <1>1, <2>1 DEF First
    <2>3. Path' = Path
      BY <1>1, <2>2 DEF Path
    <2>4. cur \in Slots /\ (ev[cur].frame - before) % FrameMod = ev[cur].frame - before
      <3>1. cur \in Slots
        BY <1>1 DEF Listed
      <3>2. /\ ev[cur].frame \in Nat /\ before \in Nat /\ FrameMod \in Nat
            /\ ev[cur].frame < FrameMod /\ ev[cur].frame >= before
        BY <1>1, <1>5, <3>1, EventsAssumption DEF TypeOK, Events, Frames
      <3>3. QED
        BY <3>1, <3>2
    <2>5. /\ ev'[cur] = [ev[cur] EXCEPT !.frame = ev[cur].frame - before]
          /\ \A s \in Slots \ {cur} : ev'[s] = ev[s]
      BY <1>1, <2>1, <2>4 DEF TypeOK
    <2>6. c < listSize /\ c + 1 \in Nat /\ c + 1 <= listSize /\ Path[c + 1] = cur'
      BY <1>1, <1>2, <1>5, <2>1, PathChain
    <2>7. \A i \in 1..listSize : ToMove(i)' <=> c + 1 < i
      <3>1. \A i \in 1..listSize : (\E k \in 0..(i - 1) : Path[k] = Path[c + 1]) <=> c + 1 < i
        BY <1>1, <2>6, PathMeets
      <3>2. QED
        BY <2>3, <2>6, <3>1 DEF ToMove
    <2>8. Left' = [i \in 1..listSize |-> ev'[Path[i - 1]]]
      BY <1>1, <2>3 DEF Left
    <2>9. Contents' = [i \in 1..listSize |->
                         IF ToMove(i)' THEN [Left'[i] EXCEPT !.frame = Left'[i].frame - before]
                                       ELSE Left'[i]]
      BY <1>1, <2>1 DEF Contents, Moved
    <2>10. Contents = [i \in 1..listSize |->
                         IF ToMove(i) THEN [Left[i] EXCEPT !.frame = Left[i].frame - before]
                                      ELSE Left[i]]
      BY <1>4 DEF Moved
    <2>11. ASSUME NEW i \in 1..listSize
           PROVE  (IF ToMove(i)' THEN [Left'[i] EXCEPT !.frame = Left'[i].frame - before]
                                 ELSE Left'[i])
                    = IF ToMove(i) THEN [Left[i] EXCEPT !.frame = Left[i].frame - before]
                                   ELSE Left[i]
      <3>1. Left[i] = ev[Path[i - 1]] /\ Left'[i] = ev'[Path[i - 1]]
        BY <1>1, <2>8, LeftIs
      <3>2. CASE i = c + 1
        <4>1. Path[i - 1] = cur /\ c < i /\ ~(c + 1 < i)
          BY <1>2, <3>2
        <4>2. ToMove(i) /\ ~ToMove(i)'
          BY <1>3, <2>7, <4>1
        <4>3. QED
          BY <2>5, <3>1, <4>1, <4>2
      <3>3. CASE i # c + 1
        <4>1. i - 1 \in Nat /\ i - 1 <= listSize /\ i - 1 # c /\ (c < i <=> c + 1 < i)
          BY <1>1, <1>2, <3>3
        <4>2. Path[i - 1] # cur /\ Path[i - 1] \in Slots
          <5>1. CASE i - 1 < c
            BY <1>1, <1>2, <4>1, <5>1, PathChain DEF Listed
          <5>2. CASE c < i - 1
            BY <1>1, <1>2, <4>1, <5>2, PathChain DEF Listed
          <5>3. QED
            BY <1>2, <4>1, <5>1, <5>2
        <4>3. Left'[i] = Left[i]
          BY <2>5, <3>1, <4>2
        <4>4. ToMove(i)' <=> ToMove(i)
          BY <1>3, <2>7, <4>1
        <4>5. QED
          BY <4>3, <4>4
      <3>4. QED
        BY <3>2, <3>3
    <2>12. QED
      BY <2>9, <2>10, <2>11
  <1>6. CASE cur = tail
    <2>1. pc' = "idle" /\ ev' = ev
      BY <1>1, <1>6, ReturnType DEF Rebase
    <2>2. First' = First
      BY <1>1, <2>1 DEF First
    <2>3. Left' = Left
      BY <1>1, <2>1, <2>2, LeftKept
    <2>4. c = listSize
      BY <1>1, <1>2, <1>6, PathChain
    <2>5. \A i \in 1..listSize : ~ToMove(i)
      BY <1>1, <1>3, <2>4
    <2>6. Moved = [i \in 1..listSize |-> Left[i]]
      BY <2>5 DEF Moved
    <2>7. Moved = Left
      BY <1>1, <2>6, LeftIs
    <2>8. QED
      BY <1>4, <2>1, <2>3, <2>7 DEF Contents
  <1>7. QED
    BY <1>5, <1>6

(* clear() has emptied the queue when it is called.                         *)
LEMMA ClearRefines ==
  ASSUME IInv
  PROVE  /\ Clear \/ Reserve => Abstract!Clear
         /\ ClearLoop \/ ClearEnd => Contents' = Contents
  <1>1. ASSUME Clear PROVE Contents' = <<>>
    BY <1>1 DEF Clear, Contents
  <1>2. ASSUME Reserve PROVE Contents' = <<>>
    <2>1. listSize' = 0 /\ pc' = "idle"
      BY <1>2 DEF Reserve
    <2>2. Left' = <<>>
      BY <2>1 DEF Left
    <2>3. QED
      BY <2>1, <2>2 DEF Contents
  <1>3. ASSUME ClearLoop PROVE Contents' = Contents
    BY <1>3 DEF ClearLoop, Contents
  <1>4. ASSUME ClearEnd PROVE Contents' = Contents
    <2>1. pc = "clear" /\ First = tail
      BY <1>4 DEF ClearEnd, First
    <2>2. listSize = 0
      BY <2>1, EmptyList DEF IInv
    <2>4. pc' \in {"reseek", "aborted"} /\ listSize' = 0
      BY <1>4, <2>2 DEF ClearEnd, Abort
    <2>5. Left' = <<>>
      BY <2>4 DEF Left
    <2>6. QED
      BY <2>1, <2>4, <2>5 DEF Contents
  <1>5. QED
    BY <1>1, <1>2, <1>3, <1>4 DEF Abstract!Clear

LEMMA InitRefines == Init => Abstract!Init
  <1>1. ASSUME Init PROVE Left = <<>> /\ pc = "idle"
    BY <1>1 DEF Init, Left
  <1>2. QED
    BY <1>1 DEF Contents, Abstract!Init

LEMMA NextRefines ==
  ASSUME Disciplined, IInv, [Next]_vars
  PROVE  [Abstract!Next]_Contents
  <1> USE DEF Abstract!Next
  <1>1. CASE Seek \/ Pop \/ Rebase \/ ClearLoop \/ ClearEnd
    BY <1>1, SeekRefines, PopRefines, RebaseRefines, ClearRefines
  <1>2. CASE Link \/ Walk
    <2>1. pos \in Slots /\ ev[pos] \in Events
      BY DEF IInv, TypeOK
    <2>2. QED
      BY <1>2, <2>1, LinkRefines, WalkRefines
  <1>3. CASE InsertOwed
    <2>1. PICK e \in owed : Insert(e)
      BY <1>3 DEF InsertOwed
    <2>2. e \in Events /\ free >= 2
      BY DEF IInv, TypeOK, StorageInv
    <2>3. QED
      BY <2>1, <2>2, InsertRefines
  <1>4. CASE Call
    <2>1. free \in Nat /\ Spare \in Nat /\ Spare >= 1
      BY SpareAssumption DEF Disciplined, IInv, TypeOK
    <2>2. CASE Room(1) /\ \E e \in Events : Insert(e)
      BY <2>1, <2>2, InsertRefines DEF Room
    <2>3. CASE Room(2) /\ \E e \in Events, n \in Lengths : InsertNote(e, n)
      BY <2>1, <2>3, InsertRefines DEF Room, InsertNote
    <2>4. CASE \E f \in Frames : Consumed(f)
      BY <2>4, ConsumedRefines
    <2>5. CASE Clear \/ Reserve
      BY <2>5, ClearRefines
    <2>6. QED
      BY <1>4, <2>2, <2>3, <2>4, <2>5 DEF Call
  <1>5. CASE UNCHANGED vars
    <2>1. First' = First /\ pc' = pc /\ before' = before /\ cur' = cur /\ listSize' = listSize
      BY <1>5 DEF vars, locals, First
    <2>2. Left' = Left /\ Path' = Path
      BY <1>5, <2>1, LeftKept DEF vars, IInv
    <2>3. Moved' = Moved
      BY <2>1, <2>2 DEF Moved, ToMove
    <2>4. QED
      BY <2>1, <2>2, <2>3 DEF Contents, After, Cut
  <1>6. QED
    BY <1>1, <1>2, <1>3, <1>4, <1>5 DEF Next, Step

(* For any number of slots, the vector with its embedded list behaves as    *)
(* the sorted queue its callers are promised: each operation takes effect   *)
(* once and at once, an insertion where its slot is linked, and no event is *)
(* lost, repeated or put before one it should follow.                       *)
THEOREM Refinement == ASSUME Disciplined PROVE Spec => ImplementsQueue
  <1>1. IInv /\ [Next]_vars => [Abstract!Next]_Contents
    BY NextRefines
  <1>2. QED
    BY InitRefines, Invariance, <1>1, PTL DEF Spec, ImplementsQueue, Abstract!Spec

-----------------------------------------------------------------------------
(* The loops end.  What the operation in progress has left to do is a       *)
(* number that every step lowers: alloc() has the slots up to a free one to *)
(* pass, the other loops the links up to the sentinel, and insert_note()   *)
(* another insertion.                                                      *)

FreeSlot == CHOOSE s \in Slots : ~used[s]
Search   == IF FreeSlot >= nextFree THEN FreeSlot - nextFree ELSE FreeSlot + N - nextFree

PlaceOn(p, n, s) == CHOOSE k \in 0..n : p[k] = s
Remaining        == listSize - PlaceOn(Path, listSize, cur)

Effort ==
  CASE pc = "seek"   -> Search + listSize + 4
    [] pc = "link"   -> listSize + 3
    [] pc = "walk"   -> Remaining + 2
    [] pc = "pop"    -> Remaining + 2
    [] pc = "rebase" -> Remaining + 1
    [] pc = "clear"  -> Remaining + N + 1
    [] pc = "reseek" -> Search + 1
    [] OTHER         -> 0
Ahead     == IF owed = {} THEN 0 ELSE N + listSize + 4
Work      == Effort + Ahead

(* A slot is free, and less than N slots away.                             *)
LEMMA SearchIs ==
  ASSUME IInv, FreeCounts
  PROVE  FreeSlot \in Slots /\ ~used[FreeSlot] /\ Search \in 0..(N - 1)
  <1>1. \E s \in Slots : ~used[s]
    <2>1. SUFFICES ASSUME \A s \in Slots : used[s] PROVE FALSE
      OBVIOUS
    <2>2. InUse = 0..(N - 1)
      BY <2>1 DEF InUse, Slots
    <2>3. Cardinality(InUse) = N
      BY <2>2, SlotsAssumption, FS_Interval
    <2>4. free = 0 /\ listSize = 0 /\ InFlight = {} /\ TypeOK /\ ListIntact
      BY <2>3, SlotsAssumption DEF FreeCounts, IInv, TypeOK, StorageInv, InFlight
    <2>5. Listed = {tail}
      BY <2>4, EmptyList
    <2>6. 0 \in Slots /\ 1 \in Slots
      BY SlotsAssumption DEF Slots
    <2>7. QED
      BY <2>1, <2>4, <2>5, <2>6 DEF Listed
  <1>2. FreeSlot \in Slots /\ ~used[FreeSlot]
    BY <1>1 DEF FreeSlot
  <1>3. QED
    BY <1>2, SlotsAssumption DEF Search, IInv, TypeOK, Slots

LEMMA Lowers ==
  \A e, f, a, b \in Nat :
    (f < e /\ b <= a) \/ (f + 1 < e /\ b <= a + 1) => f + b < e + a
  OBVIOUS

(* A slot is met at one place only.                                        *)
LEMMA PlaceIs ==
  ASSUME TypeOK, ListIntact, NEW k \in Nat, k <= listSize
  PROVE  PlaceOn(Path, listSize, Path[k]) = k
  <1>1. listSize \in Nat /\ k \in 0..listSize
    BY DEF TypeOK
  <1>2. PICK m \in 0..listSize : m = PlaceOn(Path, listSize, Path[k]) /\ Path[m] = Path[k]
    BY <1>1 DEF PlaceOn
  <1>3. ~(m < k) /\ ~(k < m)
    BY <1>1, <1>2, PathChain
  <1>4. QED
    BY <1>1, <1>2, <1>3

(* The slots of the list, the sentinel among them, are different ones.      *)
LEMMA ListFits ==
  ASSUME TypeOK, ListIntact
  PROVE  listSize < N
  <1> DEFINE f == [k \in 0..listSize |-> Path[k]]
  <1>1. listSize \in Nat /\ N \in Nat /\ Listed \subseteq Slots
    BY SlotsAssumption DEF TypeOK, Listed
  <1>2. SUFFICES ASSUME ~(listSize < N) PROVE FALSE
    OBVIOUS
  <1>3. /\ IsFiniteSet(0..listSize) /\ Cardinality(0..listSize) = listSize + 1
        /\ IsFiniteSet(Slots) /\ Cardinality(Slots) = N
    BY <1>1, FS_Interval, SlotsAssumption DEF Slots
  <1>4. f \in [0..listSize -> Slots]
    BY <1>1, PathChain
  <1>5. Cardinality(Slots) < Cardinality(0..listSize)
    BY <1>1, <1>2, <1>3
  <1> HIDE DEF f
  <1>6. PICK x, y \in 0..listSize : x # y /\ f[x] = f[y]
    BY <1>3, <1>4, <1>5, FS_PigeonHole
  <1>7. Path[x] = Path[y]
    BY <1>6 DEF f
  <1>8. x \in Nat /\ y \in Nat /\ x <= listSize /\ y <= listSize /\ (x < y \/ y < x)
    BY <1>1, <1>6
  <1>9. QED
    BY <1>7, <1>8, PathChain

(* What is left is a number, of the order of the number of slots.          *)
LEMMA WorkType ==
  ASSUME IInv, FreeCounts
  PROVE  Work \in 0..(4 * N + 5)
  <1>1. /\ listSize \in 0..(N - 1) /\ N \in Nat /\ Search \in 0..(N - 1)
        /\ TypeOK /\ ListIntact
    BY SearchIs, ListFits, SlotsAssumption DEF IInv, TypeOK
  <1>2. ASSUME pc \in {"walk", "pop", "rebase", "clear"} PROVE Remaining \in 0..(N - 1)
    <2>1. cur \in Listed
      BY <1>1, <1>2 DEF IInv, LoopInv, ListIntact, First
    <2>2. PICK k \in Nat : k <= listSize /\ Path[k] = cur
      BY <1>1, <2>1, PathChain
    <2>3. Remaining = listSize - k
      BY <2>2, <1>1, PlaceIs DEF Remaining
    <2>4. QED
      BY <1>1, <2>2, <2>3
  <1>3. Effort \in 0..(2 * N + 2)
    BY <1>1, <1>2, SlotsAssumption DEF Effort
  <1>4. Ahead \in 0..(2 * N + 3)
    BY <1>1 DEF Ahead
  <1>5. QED
    BY <1>1, <1>3, <1>4 DEF Work

(* A turn of alloc()'s loop comes closer to the free slot.                 *)
LEMMA SeekWorks ==
  ASSUME IInv, FreeCounts, Seek
  PROVE  Work' < Work
  <1>1. /\ N \in Nat /\ N >= 2 /\ nextFree \in Slots /\ listSize \in Nat
        /\ pc \in {"seek", "reseek"}
        /\ UNCHANGED <<used, listSize, owed, lost>>
    BY SlotsAssumption DEF Seek, IInv, TypeOK, StorageInv
  <1>2. FreeSlot \in Slots /\ ~used[FreeSlot] /\ Search \in 0..(N - 1)
    BY SearchIs
  <1>3. FreeSlot' = FreeSlot
    BY <1>1 DEF FreeSlot
  <1>4. Ahead' = Ahead /\ Ahead \in Nat
    BY <1>1 DEF Ahead
  <1>5. CASE Taken
    <2>1. nextFree' = (nextFree + 1) % N /\ pc' = pc
      BY <1>5 DEF Seek
    <2>2. nextFree # FreeSlot
      BY <1>2, <1>5 DEF Taken
    <2>3. nextFree' = IF nextFree + 1 = N THEN 0 ELSE nextFree + 1
      <3>1. CASE nextFree + 1 = N
        BY <1>1, <2>1, <3>1
      <3>2. CASE nextFree + 1 # N
        <4>1. nextFree + 1 \in 0..(N - 1)
          BY <1>1, <3>2 DEF Slots
        <4>2. QED
          BY <1>1, <2>1, <3>2, <4>1
      <3>3. QED
        BY <3>1, <3>2
    <2>4. Search' = Search - 1
      BY <1>1, <1>2, <1>3, <2>2, <2>3 DEF Search, Slots
    <2>5. Effort' = Effort - 1 /\ Effort \in Nat
      BY <1>1, <1>2, <2>1, <2>4 DEF Effort
    <2>6. QED
      BY <1>4, <2>5 DEF Work
  <1>6. CASE ~Taken
    <2>1. (pc = "seek" /\ pc' = "link") \/ (pc = "reseek" /\ pc' = "idle")
      BY <1>6, ReturnType DEF Seek
    <2>2. Effort' < Effort /\ Effort \in Nat /\ Effort' \in Nat
      BY <1>1, <1>2, <2>1 DEF Effort
    <2>3. Ahead' \in Nat /\ Ahead' <= Ahead
      BY <1>4
    <2>4. QED
      BY <1>4, <2>2, <2>3, Lowers DEF Work
  <1>7. QED
    BY <1>5, <1>6

(* The slot is linked in, or the walk to its place begins at the head.      *)
LEMMA LinkWorks ==
  ASSUME IInv, Link
  PROVE  Work' < Work
  <1>1. /\ N \in Nat /\ listSize \in Nat /\ TypeOK /\ ListIntact
        /\ pc = "link" /\ owed' = owed /\ tail' = tail
    BY SlotsAssumption DEF Link, IInv, TypeOK
  <1>2. Effort = listSize + 3
    BY <1>1 DEF Effort
  <1>3. CASE pc' = "idle" /\ listSize' = listSize + 1
    <2>1. Effort' \in Nat /\ Effort \in Nat /\ Effort' + 1 < Effort
      BY <1>1, <1>2, <1>3 DEF Effort
    <2>2. Ahead \in Nat /\ Ahead' \in Nat /\ Ahead' <= Ahead + 1
      BY <1>1, <1>3 DEF Ahead
    <2>3. QED
      BY <2>1, <2>2, Lowers DEF Work
  <1>4. CASE pc' = "walk" /\ cur' = head /\ UNCHANGED <<next, head, listSize, used, pos, ev>>
    <2>1. Listed' = Listed /\ First' = First /\ First = head
      BY <1>1, <1>4 DEF Listed, InFlight, First
    <2>2. TypeOK' /\ ListIntact'
      BY LinkInv DEF IInv
    <2>3. Path' = Path /\ Path[0] = head
      BY <1>1, <1>4, <2>1, PathChain DEF Path
    <2>4. Remaining' = listSize
      BY <1>1, <1>4, <2>3, PlaceIs DEF Remaining
    <2>5. Effort' = listSize + 2
      BY <1>4, <2>4 DEF Effort
    <2>6. Ahead' = Ahead /\ Ahead \in Nat
      BY <1>1, <1>4 DEF Ahead
    <2>7. QED
      BY <1>1, <1>2, <2>5, <2>6 DEF Work
  <1>5. QED
    BY <1>3, <1>4, ReturnType DEF Link, locals

(* A turn of another loop follows one link.                                *)
LEMMA OneOn ==
  ASSUME TypeOK, ListIntact, cur \in Listed, cur # tail, cur' = next[cur],
         TypeOK', ListIntact', Path' = Path, listSize' = listSize
  PROVE  Remaining \in Nat \ {0} /\ Remaining' = Remaining - 1
  <1>1. listSize \in Nat
    BY DEF TypeOK
  <1>2. PICK k \in Nat : k <= listSize /\ Path[k] = cur
    BY PathChain
  <1>3. k < listSize /\ Path[k + 1] = cur'
    BY <1>1, <1>2, PathChain
  <1>4. Remaining = listSize - k
    BY <1>2, PlaceIs DEF Remaining
  <1>5. Remaining' = listSize - (k + 1)
    <2>1. k + 1 \in Nat /\ k + 1 <= listSize
      BY <1>1, <1>2, <1>3
    <2>2. PlaceOn(Path, listSize, Path[k + 1]) = k + 1
      BY <2>1, PlaceIs
    <2>3. QED
      BY <1>3, <2>2 DEF Remaining
  <1>6. QED
    BY <1>1, <1>2, <1>3, <1>4, <1>5

(* The walk of insert() ends at the place of the event at the latest.       *)
LEMMA WalkWorks ==
  ASSUME IInv, Walk
  PROVE  Work' < Work
  <1>1. /\ N \in Nat /\ listSize \in Nat /\ TypeOK /\ ListIntact
        /\ pc = "walk" /\ cur \in Listed /\ cur # tail
        /\ UNCHANGED <<ev, used, head, tail, nextFree, free, owed, lost>>
    BY SlotsAssumption DEF Walk, IInv, TypeOK, LoopInv
  <1>2. PICK k \in Nat : k <= listSize /\ Path[k] = cur
    BY <1>1, PathChain
  <1>3. k < listSize
    BY <1>1, <1>2, PathChain
  <1>4. Remaining = listSize - k /\ Effort = Remaining + 2
    BY <1>1, <1>2, PlaceIs DEF Remaining, Effort
  <1>5. CASE InsertsHere
    <2>1. pc' = "idle" /\ listSize' = listSize + 1
      BY <1>1, <1>5, ReturnType DEF Walk
    <2>2. Effort' \in Nat /\ Effort \in Nat /\ Effort' + 1 < Effort
      BY <1>1, <1>2, <1>3, <1>4, <2>1 DEF Effort
    <2>3. Ahead \in Nat /\ Ahead' \in Nat /\ Ahead' <= Ahead + 1
      BY <1>1, <2>1 DEF Ahead
    <2>4. QED
      BY <2>2, <2>3, Lowers DEF Work
  <1>6. CASE ~InsertsHere
    <2>1. cur' = next[cur] /\ UNCHANGED <<next, listSize, pc, pos, before>>
      BY <1>1, <1>6 DEF Walk
    <2>2. First' = First /\ TypeOK' /\ ListIntact'
      BY <1>1, <2>1, WalkInv DEF First, IInv
    <2>3. Path' = Path
      BY <1>1, <2>1, <2>2 DEF Path
    <2>4. Remaining \in Nat \ {0} /\ Remaining' = Remaining - 1
      BY <1>1, <2>1, <2>2, <2>3, OneOn
    <2>5. Effort \in Nat \ {0} /\ Effort' = Effort - 1
      BY <1>1, <1>4, <2>1, <2>4 DEF Effort
    <2>6. Effort' \in Nat /\ Effort \in Nat /\ Effort' < Effort
      BY <2>5
    <2>7. Ahead \in Nat /\ Ahead' \in Nat /\ Ahead' <= Ahead
      BY <1>1, <2>1 DEF Ahead
    <2>8. QED
      BY <2>6, <2>7, Lowers DEF Work
  <1>7. QED
    BY <1>5, <1>6

(* So does the loop that moves the events, ...                             *)
LEMMA RebaseWorks ==
  ASSUME IInv, Rebase
  PROVE  Work' < Work
  <1>1. /\ N \in Nat /\ listSize \in Nat /\ TypeOK /\ ListIntact
        /\ pc = "rebase" /\ cur \in Listed
        /\ UNCHANGED <<next, used, head, tail, nextFree, listSize, free, owed, lost>>
    BY SlotsAssumption DEF Rebase, IInv, TypeOK, LoopInv
  <1>2. PICK k \in Nat : k <= listSize /\ Path[k] = cur
    BY <1>1, PathChain
  <1>3. Remaining = listSize - k /\ Effort = Remaining + 1
    BY <1>1, <1>2, PlaceIs DEF Remaining, Effort
  <1>4. Ahead \in Nat /\ Ahead' \in Nat /\ Ahead' <= Ahead
    BY <1>1 DEF Ahead
  <1>5. CASE cur # tail
    <2>1. cur' = next[cur] /\ pc' = pc
      BY <1>1, <1>5 DEF Rebase
    <2>2. First' = First /\ TypeOK' /\ ListIntact'
      BY <1>1, <2>1, RebaseInv DEF First, IInv
    <2>3. Path' = Path
      BY <1>1, <2>2 DEF Path
    <2>4. Remaining \in Nat \ {0} /\ Remaining' = Remaining - 1
      BY <1>1, <1>5, <2>1, <2>2, <2>3, OneOn
    <2>5. Effort \in Nat \ {0} /\ Effort' = Effort - 1
      BY <1>1, <1>3, <2>1, <2>4 DEF Effort
    <2>6. Effort' \in Nat /\ Effort \in Nat /\ Effort' < Effort
      BY <2>5
    <2>7. QED
      BY <1>4, <2>6, Lowers DEF Work
  <1>6. CASE cur = tail
    <2>1. pc' = "idle"
      BY <1>1, <1>6, ReturnType DEF Rebase
    <2>2. Effort' \in Nat /\ Effort \in Nat /\ Effort' < Effort
      BY <1>1, <1>2, <1>3, <2>1 DEF Effort
    <2>3. QED
      BY <1>4, <2>2, Lowers DEF Work
  <1>7. QED
    BY <1>5, <1>6

(* ... and those that release the slots they pass.                         *)
LEMMA FirstRemains ==
  TypeOK /\ ListIntact /\ pc \in {"pop", "clear"} => Remaining = listSize
  <1> SUFFICES ASSUME TypeOK, ListIntact, pc \in {"pop", "clear"}
               PROVE  Remaining = listSize
    OBVIOUS
  <1>1. Path[0] = cur /\ listSize \in Nat
    BY PathChain DEF First, TypeOK
  <1>2. QED
    BY <1>1, PlaceIs DEF Remaining

LEMMA FirstRemainsNext ==
  (TypeOK /\ ListIntact /\ pc \in {"pop", "clear"} => Remaining = listSize)'
  BY FirstRemains, PTL

LEMMA ReleaseWorks ==
  ASSUME IInv, IInv', Release, cur # tail, pc \in {"pop", "clear"}, UNCHANGED pc
  PROVE  listSize \in Nat \ {0} /\ Remaining = listSize /\ Remaining' = listSize - 1
  <1>1. Remaining = listSize /\ listSize \in Nat
    BY FirstRemains DEF IInv, TypeOK
  <1>2. listSize # 0
    BY PathChain DEF IInv, First
  <1>3. listSize' = listSize - 1 /\ listSize' \in Nat
    BY <1>1, <1>2 DEF Release
  <1>4. Remaining' = listSize'
    BY FirstRemainsNext DEF IInv
  <1>5. QED
    BY <1>1, <1>2, <1>3, <1>4

LEMMA SearchIsNext ==
  (IInv /\ FreeCounts => FreeSlot \in Slots /\ ~used[FreeSlot] /\ Search \in 0..(N - 1))'
  <1>1. IInv /\ FreeCounts => FreeSlot \in Slots /\ ~used[FreeSlot] /\ Search \in 0..(N - 1)
    BY SearchIs
  <1>2. QED
    BY <1>1, PTL

LEMMA PopWorks ==
  ASSUME IInv, IInv', Pop
  PROVE  Work' < Work
  <1>1. /\ N \in Nat /\ listSize \in Nat /\ TypeOK /\ ListIntact
        /\ pc = "pop" /\ First = cur /\ owed = {} /\ owed' = {}
        /\ UNCHANGED <<next, tail>>
    BY SlotsAssumption DEF Pop, IInv, TypeOK, StorageInv, First
  <1>2. Ahead = 0 /\ Ahead' = 0
    BY <1>1 DEF Ahead
  <1>3. Remaining = listSize /\ Effort = listSize + 2
    BY <1>1, FirstRemains DEF Effort
  <1>4. CASE cur # tail /\ ev[cur].frame < before
    <2>1. Release /\ pc' = pc
      BY <1>4 DEF Pop
    <2>2. listSize # 0 /\ Remaining' = listSize - 1
      BY <1>1, <1>4, <2>1, ReleaseWorks
    <2>3. Effort' = Effort - 1
      BY <1>1, <1>3, <2>1, <2>2 DEF Effort
    <2>4. Work = listSize + 2 /\ Work' = listSize + 1
      BY <1>1, <1>2, <1>3, <2>3 DEF Work
    <2>5. QED
      BY <1>1, <2>4
  <1>5. CASE ~(cur # tail /\ ev[cur].frame < before)
    <2>1. head' = cur /\ pc' = "rebase" /\ UNCHANGED <<listSize, cur>>
      BY <1>5 DEF Pop
    <2>2. Path' = Path
      BY <1>1, <2>1 DEF Path, First
    <2>3. Effort' = listSize + 1
      BY <1>3, <2>1, <2>2 DEF Effort, Remaining
    <2>4. Work = listSize + 2 /\ Work' = listSize + 1
      BY <1>1, <1>2, <1>3, <2>3 DEF Work
    <2>5. QED
      BY <1>1, <2>4
  <1>6. QED
    BY <1>4, <1>5

(* clear() has the slots to release, and then a sentinel to find.          *)
LEMMA ClearLoopWorks ==
  ASSUME IInv, IInv', ClearLoop
  PROVE  Work' < Work
  <1>1. /\ N \in Nat /\ listSize \in Nat /\ pc = "clear" /\ pc' = "clear"
        /\ cur # tail /\ Release /\ owed = {} /\ owed' = {}
    BY SlotsAssumption DEF ClearLoop, IInv, TypeOK, StorageInv
  <1>2. Ahead = 0 /\ Ahead' = 0
    BY <1>1 DEF Ahead
  <1>3. listSize # 0 /\ Remaining = listSize /\ Remaining' = listSize - 1
    BY <1>1, ReleaseWorks
  <1>4. Effort = listSize + N + 1 /\ Effort' = listSize - 1 + N + 1
    BY <1>1, <1>3 DEF Effort
  <1>5. Work = listSize + N + 1 /\ Work' = listSize + N
    BY <1>1, <1>2, <1>4 DEF Work
  <1>6. QED
    BY <1>1, <1>5

LEMMA ClearEndWorks ==
  ASSUME IInv, IInv', FreeCounts', ClearEnd
  PROVE  Work' < Work
  <1>1. /\ N \in Nat /\ listSize \in Nat /\ TypeOK /\ ListIntact /\ pc = "clear"
        /\ owed = {} /\ owed' = {}
    BY SlotsAssumption DEF ClearEnd, Abort, IInv, TypeOK, StorageInv
  <1>2. pc' \in {"reseek", "aborted"}
    BY DEF ClearEnd, Abort
  <1>3. Ahead = 0 /\ Ahead' = 0
    BY <1>1 DEF Ahead
  <1>4. Effort = listSize + N + 1
    BY <1>1, FirstRemains DEF Effort
  <1>5. PICK d \in 0..(N - 1) : Search' = d
    BY SearchIsNext
  <1>6. Effort' = d + 1 \/ Effort' = 0
    BY <1>2, <1>5 DEF Effort
  <1>7. Work = listSize + N + 1 /\ (Work' = d + 1 \/ Work' = 0)
    BY <1>1, <1>3, <1>4, <1>6 DEF Work
  <1>8. QED
    BY <1>1, <1>5, <1>7

(* The note-off that insert_note() owes was reckoned with.                 *)
LEMMA OwedWorks ==
  ASSUME IInv, IInv', FreeCounts', InsertOwed
  PROVE  Work' < Work
  <1>1. PICK e \in owed : Insert(e) /\ owed' = {}
    BY DEF InsertOwed
  <1>2. /\ N \in Nat /\ listSize \in Nat /\ owed # {} /\ pc = "idle" /\ pc' # "aborted"
    BY <1>1, SlotsAssumption DEF Insert, IInv, TypeOK, StorageInv
  <1>3. pc' = "seek" /\ listSize' = listSize
    BY <1>1, <1>2 DEF Insert, Abort
  <1>4. Ahead = N + listSize + 4 /\ Ahead' = 0 /\ Effort = 0
    BY <1>1, <1>2 DEF Ahead, Effort
  <1>5. PICK d \in 0..(N - 1) : Search' = d
    BY SearchIsNext
  <1>6. Effort' = d + listSize + 4
    BY <1>3, <1>5 DEF Effort
  <1>7. Work = N + listSize + 4 /\ Work' = d + listSize + 4
    BY <1>2, <1>4, <1>6 DEF Work
  <1>8. QED
    BY <1>2, <1>5, <1>7

(* However many slots there are, and whatever the script holds, every step  *)
(* of an operation leaves less to do, of at most 4 * N + 5: no loop goes on *)
(* for ever, nor holds the mutex the audio thread is waiting for.          *)
THEOREM LoopsEnd ==
  ASSUME Disciplined
  PROVE  Spec => [](Work \in 0..(4 * N + 5)) /\ [][Step => Work' < Work]_vars
  <1>1. IInv /\ FreeCounts => Work \in 0..(4 * N + 5)
    BY WorkType
  <1>2. IInv /\ IInv' /\ FreeCounts /\ FreeCounts' /\ [Next]_vars
          => [Step => Work' < Work]_vars
    BY SeekWorks, LinkWorks, WalkWorks, PopWorks, RebaseWorks, ClearLoopWorks,
       ClearEndWorks, OwedWorks DEF Step
  <1>3. QED
    BY Invariance, Counting, <1>1, <1>2, PTL DEF Spec

=============================================================================
