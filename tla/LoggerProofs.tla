---------------------------- MODULE LoggerProofs ----------------------------
(***************************************************************************)
(* The reasoning of LoggerPrivate.hpp:54-70, for any number of threads and *)
(* messages: erasing from the front of the list without the mutex that     *)
(* guards its end disturbs nobody, as long as one message is left.         *)
(***************************************************************************)
EXTENDS Logger, TLAPS

(* The numbers of the last message that is linked and of the first one.    *)
AtLink == mutex \in Threads /\ at[mutex] = "link"
AtTie  == mutex \in Threads /\ at[mutex] = "tie"
Linked == IF AtLink THEN sent - 1 ELSE sent
Front  == IF next[End] = End THEN Linked + 1 ELSE next[End]
Count  == Len(printed)

(* Who holds the mutex, and what is over when.                             *)
Holders ==
  /\ \A t \in Threads : at[t] # "out" <=> mutex = t
  /\ pc = "pop" <=> mutex = Worker
  /\ kill <=> main # "runs"
  /\ quit => main \in {"waits", "gone"}
  /\ main # "runs" => \A t \in Threads : at[t] = "out"
  /\ main = "gone" => pc = "ended"

(* The list is an interval of the messages, doubly linked but for the ends *)
(* that somebody is about to write.                                        *)
Whole ==
  /\ Front \in 1..(Linked + 1)
  /\ next[End] # End => Front <= Linked
  /\ \A n \in Messages : n >= Front /\ n < Linked => next[n] = n + 1
  /\ Front <= Linked => next[Linked] = End
  /\ \A n \in Messages : n > Front /\ n <= sent => prev[n] = n - 1
  /\ pc # "free" /\ Front <= sent => prev[Front] = End
  /\ ~AtTie => prev[End] = IF Front <= Linked THEN Linked ELSE End
  /\ AtLink => sent >= 1 /\ next[sent] = End
  /\ AtTie => Front <= sent

Allocated ==
  main # "gone" =>
    live = {End} \cup {n \in Messages : n >= Front /\ n <= sent}
                 \cup (IF pc = "free" THEN {first} ELSE {})

(* What has been printed is the messages up to a number, and the worker is *)
(* as far with the list as its place in process() says.                    *)
Printed ==
  /\ Count <= Linked
  /\ \A n \in 1..Count : printed[n] = n

Progress ==
  /\ pc \in {"loop", "process"} => kill \/ Count = Front - 1
  /\ pc = "process" => Front <= Linked
  /\ pc = "scan" => /\ Count >= Front - 1
                    /\ it # End => it = Count + 1 /\ it <= Linked
                    /\ it = End => Count >= Front /\ last = Count
  /\ pc = "step" => it = Count /\ last = Count /\ Front <= Count
  /\ pc = "erase" => last = Count /\ first = Front /\ Front <= Count
  /\ pc = "free" => /\ last = Count /\ first = Front - 1 /\ Front <= Count
                    /\ first # End /\ next[first] = Front /\ prev[first] = End
  /\ pc = "pop" => Front = Count

IInv == TypeOK /\ Holders /\ Whole /\ Allocated /\ Printed /\ Progress

-----------------------------------------------------------------------------

LEMMA InitIInv == Init => IInv
<1> SUFFICES ASSUME Init PROVE IInv
  OBVIOUS
<1> USE MessagesAssumption, ThreadsAssumption
<1>1. TypeOK
  <2>1. printed \in Seq(Messages)
    BY DEF Init
  <2>2. End \in Nodes
    BY DEF Nodes
  <2>3. next \in [Nodes -> Nodes] /\ prev \in [Nodes -> Nodes] /\ live \subseteq Nodes
    BY <2>2 DEF Init
  <2>4. at \in [Threads -> {"out", "link", "tie"}] /\ sent \in 0..MaxMessages
    BY DEF Init
  <2> QED BY <2>1, <2>2, <2>3, <2>4 DEF Init, TypeOK
<1>2. Linked = 0 /\ Front = 1 /\ Count = 0 /\ ~AtLink /\ ~AtTie
  BY DEF Init, Linked, Front, Count, AtLink, AtTie, End, Nobody, Nodes
<1>3. Holders
  BY DEF Init, Holders, Nobody, Worker
<1>4. Whole
  BY <1>2 DEF Init, Whole, Messages, Nodes, End
<1>5. Allocated
  BY <1>2 DEF Init, Allocated, Messages, End
<1>6. Printed /\ Progress
  BY <1>2 DEF Init, Printed, Progress
<1> QED BY <1>1, <1>3, <1>4, <1>5, <1>6 DEF IInv

(* Few words of arithmetic about the state.                                *)
LEMMA Sizes ==
  ASSUME IInv
  PROVE  /\ MaxMessages \in Nat /\ sent \in Nat /\ sent <= MaxMessages
         /\ Linked \in Nat /\ Linked <= sent /\ sent <= Linked + 1
         /\ AtLink => Linked = sent - 1
         /\ ~AtLink => Linked = sent
         /\ Front \in Nat /\ Front >= 1 /\ Front <= Linked + 1
         /\ Count \in Nat /\ Count <= Linked
         /\ next[End] # End => Front = next[End] /\ Front <= Linked
         /\ next[End] = End => Front = Linked + 1
<1> USE MessagesAssumption
<1>1. sent \in Nat /\ sent <= MaxMessages /\ Count \in Nat
  BY DEF IInv, TypeOK, Count
<1>2. AtLink => sent >= 1
  BY DEF IInv, Whole
<1>3. Linked \in Nat /\ Linked <= sent /\ sent <= Linked + 1
  BY <1>1, <1>2 DEF Linked
<1> QED BY <1>1, <1>3 DEF IInv, Whole, Printed, Front, Linked

(* The steps that change no word of the list leave it what it was.         *)
LEMMA SameList ==
  ASSUME IInv, UNCHANGED <<next, prev, sent, at, printed>>,
         AtLink' <=> AtLink, AtTie' <=> AtTie,
         pc # "free", pc' # "free"
  PROVE  Linked' = Linked /\ Front' = Front /\ Count' = Count /\ Whole' /\ Printed'
<1>1. Linked' = Linked /\ Front' = Front /\ Count' = Count
  BY DEF Linked, Front, Count
<1>2. Whole'
  BY <1>1 DEF IInv, Whole
<1> QED BY <1>1, <1>2 DEF IInv, Printed

LEMMA LogInv ==
  ASSUME IInv, NEW t \in Threads, Log(t)
  PROVE  IInv'
<1> USE MessagesAssumption, ThreadsAssumption DEF IInv, Log
<1> DEFINE x == sent + 1
<1>0. x \in Messages /\ x \in Nodes /\ x # End /\ sent' = x
  BY Sizes DEF Messages, Nodes, End
<1>1. TypeOK'
  BY <1>0, Sizes DEF TypeOK, worker, ending, Nodes, End, Worker, Nobody
<1>2. ~AtLink /\ ~AtTie /\ AtLink' /\ ~AtTie' /\ Linked = sent
  BY DEF AtLink, AtTie, Linked, TypeOK, Nobody
<1>3. Linked' = Linked /\ Count' = Count
  BY <1>0, <1>2, Sizes DEF Linked, Count, worker
<1>4. \A n \in Nodes : n # x => next'[n] = next[n] /\ prev'[n] = prev[n]
  BY DEF TypeOK
<1>5. next'[x] = End /\ prev'[x] = prev[End]
  BY <1>0 DEF TypeOK
<1>6. Front' = Front
  BY <1>0, <1>3, <1>4 DEF Front, Nodes
<1>7. Holders'
  BY DEF Holders, worker, ending, TypeOK, Nobody, Worker
<1>8. Whole'
  <2>1. \A n \in Messages : n >= Front' /\ n < Linked' => next'[n] = n + 1
    BY <1>0, <1>2, <1>3, <1>4, <1>6, Sizes DEF Whole, Nodes
  <2>2. Front' <= Linked' => next'[Linked'] = End
    BY <1>0, <1>2, <1>3, <1>4, <1>6, Sizes DEF Whole, Nodes, Messages
  <2>3. \A n \in Messages : n > Front' /\ n <= sent' => prev'[n] = n - 1
    BY <1>0, <1>2, <1>3, <1>4, <1>5, <1>6, Sizes DEF Whole, Nodes, Messages
  <2>4. pc' # "free" /\ Front' <= sent' => prev'[Front'] = End
    BY <1>0, <1>2, <1>3, <1>4, <1>5, <1>6, Sizes DEF Whole, Nodes, Messages, worker
  <2>5. prev'[End] = IF Front' <= Linked' THEN Linked' ELSE End
    BY <1>0, <1>2, <1>3, <1>4, <1>6 DEF Whole, Nodes
  <2> QED BY <1>0, <1>2, <1>3, <1>4, <1>5, <1>6, <2>1, <2>2, <2>3, <2>4, <2>5, Sizes DEF Whole, Nodes
<1>9. Allocated'
  BY <1>0, <1>2, <1>6, Sizes DEF Allocated, worker, ending, Messages
<1>10. Printed'
  BY <1>3, Sizes DEF Printed, worker
<1>11. Progress'
  BY <1>0, <1>2, <1>3, <1>4, <1>6, Sizes DEF Progress, worker, ending, TypeOK
<1> QED BY <1>1, <1>7, <1>8, <1>9, <1>10, <1>11

LEMMA LinkInv ==
  ASSUME IInv, NEW t \in Threads, Link(t)
  PROVE  IInv'
<1> USE MessagesAssumption, ThreadsAssumption DEF IInv, Link
<1>1. AtLink /\ ~AtTie /\ ~AtLink' /\ AtTie' /\ mutex = t /\ pc # "pop"
  BY DEF AtLink, AtTie, Holders, TypeOK, Worker
<1>2. /\ sent \in Messages /\ sent \in Nodes /\ sent # End
      /\ Linked = sent - 1 /\ Linked' = sent /\ Count' = Count
  BY <1>1, Sizes DEF Messages, Nodes, End, Linked, Count, worker, Whole
<1>3. /\ prev[End] = IF Front <= Linked THEN Linked ELSE End
      /\ prev[End] \in Nodes
  BY <1>1, <1>2, Sizes DEF Whole, Nodes, Messages, End
<1>4. \A n \in Nodes : next'[n] = IF n = prev[End] THEN sent ELSE next[n]
  BY <1>3 DEF TypeOK
<1>5. TypeOK'
  BY <1>2, <1>3 DEF TypeOK, worker, ending
<1>6. Front' = Front
  <2>1. next'[End] = IF Front <= Linked THEN next[End] ELSE sent
    BY <1>2, <1>3, <1>4, Sizes DEF Nodes, End
  <2> QED BY <2>1, <1>2, Sizes DEF Front, End
<1>7. Holders'
  BY <1>1 DEF Holders, worker, ending, TypeOK
<1>8. Whole'
  <2>1. \A n \in Messages : n >= Front' /\ n < Linked' => next'[n] = n + 1
    BY <1>2, <1>3, <1>4, <1>6, Sizes DEF Whole, Nodes, Messages, End
  <2>2. next'[Linked'] = End
    BY <1>1, <1>2, <1>3, <1>4, Sizes DEF Whole, Nodes, End
  <2>3. next'[End] # End
    BY <1>2, <1>3, <1>4, Sizes DEF Nodes, End
  <2>4. \A n \in Messages : n > Front' /\ n <= sent' => prev'[n] = n - 1
    BY <1>6 DEF Whole
  <2>5. pc' # "free" /\ Front' <= sent' => prev'[Front'] = End
    BY <1>6 DEF Whole, worker
  <2> QED BY <1>1, <1>2, <1>6, <2>1, <2>2, <2>3, <2>4, <2>5, Sizes DEF Whole
<1>9. Allocated'
  BY <1>6 DEF Allocated, worker, ending
<1>10. Printed'
  BY <1>2, Sizes DEF Printed, worker
<1>11. Progress'
  <2>1. pc = "free" => next'[first] = next[first]
    BY <1>2, <1>3, <1>4, Sizes DEF Progress, TypeOK
  <2> QED BY <2>1, <1>2, <1>6, Sizes DEF Progress, worker, ending
<1> QED BY <1>5, <1>7, <1>8, <1>9, <1>10, <1>11

LEMMA TieInv ==
  ASSUME IInv, NEW t \in Threads, Tie(t)
  PROVE  IInv'
<1> USE MessagesAssumption, ThreadsAssumption DEF IInv, Tie
<1>1. ~AtLink /\ AtTie /\ ~AtLink' /\ ~AtTie' /\ mutex = t /\ pc # "pop"
  BY DEF AtLink, AtTie, Holders, TypeOK, Worker, Nobody
<1>2. /\ Linked = sent /\ Linked' = sent /\ Count' = Count /\ Front' = Front
      /\ Front <= sent /\ sent \in Messages /\ sent \in Nodes
  BY <1>1, Sizes DEF Linked, Count, worker, Front, Whole, Messages, Nodes
<1>3. TypeOK'
  BY <1>2 DEF TypeOK, worker, ending
<1>4. \A n \in Messages : prev'[n] = prev[n]
  BY DEF TypeOK, Messages, Nodes, End
<1>5. prev'[End] = sent
  BY DEF TypeOK, Nodes
<1>6. Holders'
  BY <1>1 DEF Holders, worker, ending, TypeOK, Nobody, Worker
<1>7. Whole'
  <2>1. Front \in Messages
    BY <1>2, Sizes DEF Messages
  <2> QED BY <1>1, <1>2, <1>4, <1>5, <2>1 DEF Whole, worker
<1>8. Allocated' /\ Printed'
  BY <1>2 DEF Allocated, Printed, worker, ending
<1>9. Progress'
  <2>1. pc = "free" => prev'[first] = prev[first]
    BY DEF Progress, TypeOK, Nodes, End
  <2> QED BY <2>1, <1>2 DEF Progress, worker, ending
<1> QED BY <1>3, <1>6, <1>7, <1>8, <1>9

-----------------------------------------------------------------------------

(* The steps of the worker that only read the list.                        *)

LEMMA PollInv ==
  ASSUME IInv, Poll
  PROVE  IInv'
<1> USE DEF IInv, Poll, list, ending
<1>1. /\ Linked' = Linked /\ Front' = Front /\ Count' = Count /\ Whole' /\ Printed'
  BY SameList DEF AtLink, AtTie
<1>2. TypeOK' /\ Holders'
  BY DEF TypeOK, Holders
<1>3. Allocated'
  BY <1>1 DEF Allocated
<1>4. Progress'
  BY <1>1, Sizes DEF Progress, Waiting
<1> QED BY <1>1, <1>2, <1>3, <1>4

LEMMA ProcessInv ==
  ASSUME IInv, Process
  PROVE  IInv'
<1> USE DEF IInv, Process, list, ending
<1>1. /\ Linked' = Linked /\ Front' = Front /\ Count' = Count /\ Whole' /\ Printed'
  BY SameList DEF AtLink, AtTie
<1>2. TypeOK' /\ Holders'
  BY DEF TypeOK, Holders, Nodes
<1>3. Allocated'
  BY <1>1 DEF Allocated
<1>4. Progress'
  BY <1>1, Sizes DEF Progress
<1> QED BY <1>1, <1>2, <1>3, <1>4

LEMMA StepInv ==
  ASSUME IInv, Step
  PROVE  IInv'
<1> USE DEF IInv, Step, list, ending
<1>1. /\ Linked' = Linked /\ Front' = Front /\ Count' = Count /\ Whole' /\ Printed'
  BY SameList DEF AtLink, AtTie
<1>2. TypeOK' /\ Holders'
  BY DEF TypeOK, Holders
<1>3. Allocated'
  BY <1>1 DEF Allocated
<1>4. Count \in Messages
  BY Sizes DEF Progress, Messages
<1>5. next[it] = IF Count < Linked THEN Count + 1 ELSE End
  BY <1>4, Sizes DEF Progress, Whole
<1>6. Progress'
  BY <1>1, <1>5, Sizes DEF Progress, End
<1> QED BY <1>1, <1>2, <1>3, <1>6

LEMMA ShownInv ==
  ASSUME IInv, Shown
  PROVE  IInv'
<1> USE DEF IInv, Shown, list, ending
<1>1. /\ Linked' = Linked /\ Front' = Front /\ Count' = Count /\ Whole' /\ Printed'
  BY SameList DEF AtLink, AtTie
<1>2. TypeOK' /\ Holders'
  BY DEF TypeOK, Holders, Nodes
<1>3. Allocated'
  BY <1>1 DEF Allocated
<1>4. Progress'
  BY <1>1, Sizes DEF Progress
<1> QED BY <1>1, <1>2, <1>3, <1>4

(* The message printed is the one after those printed before.              *)
LEMMA ShowNext ==
  ASSUME IInv, Show
  PROVE  /\ it = Count + 1 /\ it <= Linked /\ it \in Messages
         /\ Count' = Count + 1
         /\ \A n \in 1..Count : printed'[n] = printed[n]
         /\ printed'[it] = it /\ printed' \in Seq(Messages)
<1>1. it = Count + 1 /\ it <= Linked /\ it \in Messages
  BY Sizes DEF IInv, Show, Progress, Messages
<1>2. printed \in Seq(Messages)
  BY DEF IInv, TypeOK
<1> QED BY <1>1, <1>2 DEF Show, Count

LEMMA ShowInv ==
  ASSUME IInv, Show
  PROVE  IInv'
<1> USE DEF IInv, Show, list, ending
<1>1. Linked' = Linked /\ Front' = Front
  BY DEF Linked, Front, AtLink
<1>2. TypeOK'
  BY ShowNext DEF TypeOK
<1>3. Holders' /\ Whole'
  BY <1>1 DEF Holders, Whole, AtLink, AtTie
<1>4. Allocated'
  BY <1>1 DEF Allocated
<1>5. Printed'
  BY <1>1, ShowNext, Sizes DEF Printed
<1>6. Progress'
  BY <1>1, ShowNext, Sizes DEF Progress
<1> QED BY <1>2, <1>3, <1>4, <1>5, <1>6

LEMMA EnterInv ==
  ASSUME IInv, Enter
  PROVE  IInv'
<1> USE ThreadsAssumption DEF IInv, Enter, MayEnter, list, ending
<1>1. ~AtLink /\ ~AtTie /\ ~AtLink' /\ ~AtTie'
  BY DEF AtLink, AtTie, Nobody, Worker
<1>2. /\ Linked' = Linked /\ Front' = Front /\ Count' = Count /\ Whole' /\ Printed'
  BY <1>1, SameList
<1>3. TypeOK' /\ Holders'
  BY DEF TypeOK, Holders, Nobody, Worker
<1>4. Allocated'
  BY <1>2 DEF Allocated
<1>5. Progress'
  BY <1>2, Sizes DEF Progress, UntilLast
<1> QED BY <1>2, <1>3, <1>4, <1>5

-----------------------------------------------------------------------------

(* The steps of the worker that take a node off the front: without the     *)
(* mutex, in two steps, a node that has a linked successor; under it, the  *)
(* last one.                                                               *)

LEMMA UnhookInv ==
  ASSUME IInv, Unhook
  PROVE  IInv'
<1> USE DEF IInv, Unhook, UntilLast, ending
<1>1. /\ first = Front /\ last = Count /\ Front < Count /\ Front < Linked
      /\ first \in Messages /\ first + 1 \in Messages /\ first \in Nodes /\ first # End
      /\ next[first] = first + 1 /\ prev[first] = End /\ first + 1 \in Nodes
  BY Sizes DEF Progress, Whole, Messages, Nodes, End
<1>2. /\ next'[End] = first + 1
      /\ \A n \in Messages : next'[n] = next[n]
  BY <1>1 DEF TypeOK, Nodes, Messages, End
<1>3. TypeOK'
  BY <1>1 DEF TypeOK
<1>4. Linked' = Linked /\ Front' = Front + 1 /\ Count' = Count /\ (AtLink' <=> AtLink) /\ (AtTie' <=> AtTie)
  BY <1>1, <1>2, Sizes DEF Linked, Front, Count, AtLink, AtTie, End
<1>5. Holders'
  BY DEF Holders
<1>6. Whole'
  <2>1. Linked \in Messages
    BY <1>1, Sizes DEF Messages
  <2>2. AtLink => sent \in Messages
    BY Sizes DEF Whole, Messages
  <2>3. Front' \in 1..(Linked' + 1) /\ Front' <= Linked'
    BY <1>1, <1>4, Sizes
  <2>4. \A n \in Messages : n >= Front' /\ n < Linked' => next'[n] = n + 1
    BY <1>1, <1>2, <1>4, Sizes DEF Whole, Messages
  <2>5. next'[Linked'] = End
    BY <1>1, <1>2, <1>4, <2>1, Sizes DEF Whole
  <2>6. \A n \in Messages : n > Front' /\ n <= sent' => prev'[n] = n - 1
    BY <1>1, <1>4, Sizes DEF Whole, Messages
  <2>7. ~AtTie' => prev'[End] = IF Front' <= Linked' THEN Linked' ELSE End
    BY <1>1, <1>4, <2>3, Sizes DEF Whole
  <2>8. AtLink' => sent' >= 1 /\ next'[sent'] = End
    BY <1>2, <1>4, <2>2 DEF Whole
  <2>9. AtTie' => Front' <= sent'
    BY <1>4, <2>3, Sizes
  <2> QED BY <2>3, <2>4, <2>5, <2>6, <2>7, <2>8, <2>9 DEF Whole
<1>7. Allocated'
  <2>1. \A n \in Messages : (n >= Front /\ n <= sent) <=> (n = first \/ (n >= Front + 1 /\ n <= sent))
    BY <1>1, Sizes DEF Messages
  <2> QED BY <1>1, <1>4, <2>1 DEF Allocated
<1>8. Printed' /\ Progress'
  BY <1>1, <1>2, <1>4, Sizes DEF Printed, Progress
<1> QED BY <1>3, <1>5, <1>6, <1>7, <1>8

LEMMA FreeInv ==
  ASSUME IInv, Free
  PROVE  IInv'
<1> USE DEF IInv, Free, ending
<1>1. /\ first = Front - 1 /\ last = Count /\ Front <= Count
      /\ next[first] = Front /\ prev[first] = End
      /\ Front \in Messages /\ Front \in Nodes /\ Front # End
  BY Sizes DEF Progress, Messages, Nodes, End
<1>2. /\ prev'[Front] = End /\ prev'[End] = prev[End]
      /\ \A n \in Messages : n # Front => prev'[n] = prev[n]
  BY <1>1 DEF TypeOK, Nodes
<1>3. TypeOK'
  BY <1>1 DEF TypeOK, Nodes
<1>4. Linked' = Linked /\ Front' = Front /\ Count' = Count /\ (AtLink' <=> AtLink) /\ (AtTie' <=> AtTie)
  BY DEF Linked, Front, Count, AtLink, AtTie
<1>5. Holders'
  BY DEF Holders
<1>6. Whole'
  BY <1>1, <1>2, <1>4, Sizes DEF Whole
<1>7. Allocated'
  BY <1>1, <1>4, Sizes DEF Allocated, Messages, End, Progress
<1>8. Printed' /\ Progress'
  BY <1>1, <1>2, <1>4, Sizes DEF Printed, Progress
<1> QED BY <1>3, <1>5, <1>6, <1>7, <1>8

LEMMA PopFrontInv ==
  ASSUME IInv, PopFront
  PROVE  IInv'
<1> USE ThreadsAssumption DEF IInv, PopFront, ending
<1>1. /\ mutex = Worker /\ ~AtLink /\ ~AtTie /\ ~AtLink' /\ ~AtTie'
      /\ Linked = sent /\ Linked' = sent /\ Count' = Count
  BY Sizes DEF Holders, AtLink, AtTie, Worker, Nobody, Linked, Count
<1>2. /\ Front = Count /\ Front <= Linked /\ Front \in Messages /\ Front \in Nodes /\ Front # End
      /\ next[End] = Front /\ prev[Front] = End
      /\ next[Front] = IF Front < Linked THEN Front + 1 ELSE End
      /\ prev[End] = Linked /\ next[Front] \in Nodes
  BY <1>1, Sizes DEF Progress, Whole, Messages, Nodes, End, TypeOK
<1>3. /\ next'[End] = next[Front] /\ \A n \in Messages : next'[n] = next[n]
      /\ prev'[next[Front]] = End
      /\ \A n \in Nodes : n # next[Front] => prev'[n] = prev[n]
  BY <1>2, SMTT(60) DEF TypeOK, Nodes, Messages, End
<1>4. TypeOK'
  BY <1>2 DEF TypeOK, Nodes, Nobody
<1>5. Front' = Front + 1
  BY <1>1, <1>2, <1>3, Sizes DEF Front, End
<1>6. Holders'
  BY DEF Holders, Nobody, Worker
<1>7. Whole'
  <2>1. \A n \in Messages : n > Front' /\ n <= sent' => prev'[n] = n - 1
    BY <1>1, <1>2, <1>3, <1>5, Sizes DEF Whole, Nodes, Messages, End
  <2>2. Front' <= sent' => prev'[Front'] = End
    BY <1>1, <1>2, <1>3, <1>5, Sizes
  <2>3. prev'[End] = IF Front' <= Linked' THEN Linked' ELSE End
    BY <1>1, <1>2, <1>3, <1>5, Sizes DEF Nodes, End
  <2>4. Front' <= Linked' => next'[Linked'] = End
    BY <1>1, <1>2, <1>3, <1>5, Sizes DEF Whole, Messages
  <2>5. Front' \in 1..(Linked' + 1) /\ (next'[End] # End => Front' <= Linked')
    BY <1>1, <1>2, <1>3, <1>5, Sizes
  <2>6. \A n \in Messages : n >= Front' /\ n < Linked' => next'[n] = n + 1
    BY <1>1, <1>3, <1>5, Sizes DEF Whole, Messages
  <2> QED BY <1>1, <2>1, <2>2, <2>3, <2>4, <2>5, <2>6 DEF Whole
<1>8. Allocated'
  <2>1. \A n \in Messages : (n >= Front /\ n <= sent) <=> (n = Front \/ (n >= Front + 1 /\ n <= sent))
    BY <1>1, <1>2, Sizes DEF Messages
  <2> QED BY <1>2, <1>5, <2>1 DEF Allocated, Messages, End
<1>9. Printed' /\ Progress'
  BY <1>1, <1>2, <1>5, Sizes DEF Printed, Progress
<1> QED BY <1>4, <1>6, <1>7, <1>8, <1>9

-----------------------------------------------------------------------------

LEMMA EndingInv ==
  ASSUME IInv, Shutdown \/ Ending
  PROVE  IInv'
<1> USE DEF IInv, Shutdown, Ending, Quit, Delete, QuitNow, Finished, list, worker
<1>1. Linked' = Linked /\ Front' = Front /\ Count' = Count /\ (AtLink' <=> AtLink) /\ (AtTie' <=> AtTie)
  BY DEF Linked, Front, Count, AtLink, AtTie
<1>2. TypeOK' /\ Holders'
  <2>1. CASE Shutdown
    BY <2>1 DEF TypeOK, Holders
  <2>2. CASE Quit
    BY <2>2 DEF TypeOK, Holders
  <2>3. CASE Delete
    BY <2>3 DEF TypeOK, Holders
  <2> QED BY <2>1, <2>2, <2>3
<1>3. Whole' /\ Printed'
  BY <1>1 DEF Whole, Printed
<1>4. Allocated'
  BY <1>1 DEF Allocated
<1>5. Progress'
  BY <1>1 DEF Progress
<1> QED BY <1>2, <1>3, <1>4, <1>5

LEMMA NextInv == IInv /\ [Next]_vars => IInv'
<1> SUFFICES ASSUME IInv, [Next]_vars PROVE IInv'
  OBVIOUS
<1>1. CASE Working
  BY <1>1, PollInv, ProcessInv, ShowInv, StepInv, ShownInv, UnhookInv, FreeInv, EnterInv, PopFrontInv
  DEF Working
<1>2. CASE Shutdown \/ Ending
  BY <1>2, EndingInv
<1>3. ASSUME NEW t \in Threads, Logging(t) PROVE IInv'
  BY <1>3, LogInv, LinkInv, TieInv DEF Logging
<1>4. CASE UNCHANGED vars
  BY <1>4 DEF vars, list, worker, ending, IInv, TypeOK, Holders, Whole, Allocated, Printed,
     Progress, Linked, Front, Count, AtLink, AtTie
<1> QED BY <1>1, <1>2, <1>3, <1>4 DEF Next

THEOREM Invariance == Spec => []IInv
<1>1. Init => IInv
  BY InitIInv
<1>2. IInv /\ [Next]_vars => IInv'
  BY NextInv
<1> QED BY <1>1, <1>2, PTL DEF Spec

(* The list, the iterators of the worker and the threads keep their types. *)
THEOREM TypeCorrect == Spec => []TypeOK
<1>1. IInv => TypeOK
  BY DEF IInv
<1> QED BY <1>1, Invariance, PTL

(* However many threads log, nobody reads or writes a node that has been   *)
(* freed, which is what the comment of LoggerPrivate.hpp argues.           *)
THEOREM NeverDangles == Spec => []NoDangling
<1>1. IInv => NoDangling
  <2> SUFFICES ASSUME IInv PROVE NoDangling
    OBVIOUS
  <2> USE DEF IInv
  <2>1. ASSUME NEW t \in Threads PROVE Touched(t) \subseteq live
    <3>1. CASE at[t] = "out"
      BY <3>1 DEF Touched
    <3>2. CASE at[t] = "link"
      <4>1. AtLink /\ ~AtTie /\ main # "gone"
        BY <3>2 DEF Holders, AtLink, AtTie
      <4>2. prev[End] \in live /\ sent \in live /\ End \in live
        BY <4>1, Sizes DEF Allocated, Whole, Messages
      <4> QED BY <3>2, <4>2 DEF Touched
    <3>3. CASE at[t] = "tie"
      <4>1. AtTie /\ main # "gone"
        BY <3>3 DEF Holders, AtTie
      <4>2. sent \in live /\ End \in live
        BY <4>1, Sizes DEF Allocated, Whole, Messages
      <4> QED BY <3>3, <4>2 DEF Touched
    <3> QED BY <3>1, <3>2, <3>3 DEF TypeOK
  <2>2. WorkerTouches \subseteq live
    <3>1. CASE pc = "ended"
      BY <3>1 DEF WorkerTouches
    <3>2. CASE pc \in {"loop", "process"}
      BY <3>2 DEF WorkerTouches, Holders, Allocated
    <3>3. CASE pc \in {"scan", "step"}
      <4>1. main # "gone" /\ End \in live
        BY <3>3 DEF Holders, Allocated
      <4>2. it # End => it \in live
        BY <3>3, <4>1, Sizes DEF Progress, Allocated, Messages
      <4> QED BY <3>3, <4>1, <4>2 DEF WorkerTouches
    <3>4. CASE pc = "erase"
      <4>1. /\ main # "gone" /\ End \in live
            /\ first = Front /\ last = Count /\ Front <= Count
        BY <3>4 DEF Holders, Allocated, Progress
      <4>2. first # last => next[first] = first + 1 /\ prev[first] = End
        BY <3>4, <4>1, Sizes DEF Whole, Messages
      <4>3. first # last => first \in live /\ first + 1 \in live
        BY <4>1, Sizes DEF Allocated, Messages
      <4> QED BY <3>4, <4>1, <4>2, <4>3 DEF WorkerTouches, UntilLast
    <3>5. CASE pc = "free"
      <4>1. main # "gone" /\ End \in live /\ first \in live
        BY <3>5 DEF Holders, Allocated
      <4>2. Front \in live /\ next[first] = Front /\ prev[first] = End
        BY <3>5, <4>1, Sizes DEF Allocated, Progress, Messages
      <4> QED BY <3>5, <4>1, <4>2 DEF WorkerTouches
    <3>6. CASE pc = "pop"
      <4>1. main # "gone" /\ End \in live
        BY <3>6 DEF Holders, Allocated
      <4>2. next[End] \in live
        BY <4>1, Sizes DEF Allocated, Messages
      <4> QED BY <3>6, <4>1, <4>2 DEF WorkerTouches
    <3> QED BY <3>1, <3>2, <3>3, <3>4, <3>5, <3>6 DEF TypeOK
  <2> QED BY <2>1, <2>2 DEF NoDangling
<1> QED BY <1>1, Invariance, PTL

-----------------------------------------------------------------------------

LEMMA StepDone ==
  ASSUME IInv, Show
  PROVE  Service!Do
<1> DEFINE taken == [n \in 1..sent |-> n]
<1>1. sent' = sent /\ kill' = kill /\ printed' = Append(printed, it)
  BY DEF Show, ending
<1>2. it = Len(printed) + 1 /\ it \in 1..sent
  BY ShowNext, Sizes DEF Count, Messages
<1>3. Len(taken) = sent /\ taken[it] = it
  BY <1>2, Sizes
<1>4. Len(printed) < Len(taken)
  BY <1>2, <1>3, Sizes DEF Count
<1> QED BY <1>1, <1>2, <1>3, <1>4 DEF Service!Do

LEMMA StepTaken ==
  ASSUME IInv, NEW t \in Threads, Log(t)
  PROVE  \E r \in Messages : Service!Take(r)
<1> DEFINE taken == [n \in 1..sent |-> n]
<1>1. sent' = sent + 1 /\ sent + 1 \in Messages /\ UNCHANGED <<printed, kill>> /\ ~kill
  BY Sizes DEF Log, worker, ending, Messages, IInv, Holders
<1>2. PICK x \in Messages : x = sent + 1
  BY <1>1
<1>3. taken' = Append(taken, x)
  BY <1>1, <1>2, Sizes
<1>4. Service!Take(x)
  BY <1>1, <1>3 DEF Service!Take
<1> QED BY <1>4

(* The logger implements a queue: messages are printed once each, in the   *)
(* order in which their threads got the mutex.                             *)
THEOREM PrintsInOrder == Spec => InOrder
<1>1. Init => Service!Init
  BY DEF Init, Service!Init
<1>2. IInv /\ [Next]_vars => [Service!Next]_Service!vars
  <2> SUFFICES ASSUME IInv, [Next]_vars PROVE [Service!Next]_Service!vars
    OBVIOUS
  <2>1. CASE Show
    BY <2>1, StepDone DEF Service!Next
  <2>2. ASSUME NEW t \in Threads, Log(t) PROVE Service!Next
    BY <2>2, StepTaken DEF Service!Next
  <2>3. CASE Shutdown
    BY <2>3 DEF Shutdown, worker, Service!Next, Service!Close, IInv, Holders
  <2>4. CASE Working /\ ~Show
    BY <2>4 DEF Working, Poll, Process, Step, Shown, Unhook, Free, Enter, PopFront, ending, Service!vars
  <2>5. CASE Ending
    BY <2>5 DEF Ending, Quit, Delete, worker, Service!vars
  <2>6. ASSUME NEW t \in Threads, Link(t) \/ Tie(t) PROVE UNCHANGED Service!vars
    BY <2>6 DEF Link, Tie, worker, ending, Service!vars
  <2>7. CASE UNCHANGED vars
    BY <2>7 DEF vars, worker, ending, Service!vars
  <2> QED BY <2>1, <2>2, <2>3, <2>4, <2>5, <2>6, <2>7 DEF Next, Logging, Working
<1> QED BY <1>1, <1>2, Invariance, PTL DEF Spec, InOrder, Service!SafeSpec
=============================================================================
