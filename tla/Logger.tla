------------------------------- MODULE Logger -------------------------------
(***************************************************************************)
(* The logger: every thread appends its messages to a list, under a mutex, *)
(* and a worker thread prints them.  The worker walks the list and takes   *)
(* what it has printed off its front without the mutex, all but the last   *)
(* message, which it takes off with it.  The model has the list as the     *)
(* words of its nodes, and a step for each write to them that the other    *)
(* side can see, to check the reasoning of LoggerPrivate.hpp:54-70 about   *)
(* where the mutex is needed.                                              *)
(***************************************************************************)
EXTENDS Naturals, Sequences

CONSTANTS
  Threads,     \* the threads that log messages
  MaxMessages  \* how many messages they log: bounds the model

ASSUME MessagesAssumption == MaxMessages \in Nat
ASSUME ThreadsAssumption  == Threads \cap {"worker", "nobody"} = {}

(* Messages are numbered in the order in which their threads get the       *)
(* mutex; the node of a message has its number, that of the list is End.   *)
Messages == 1..MaxMessages
End      == 0
Nodes    == Messages \cup {End}
Worker   == "worker"
Nobody   == "nobody"

VARIABLES
  next, prev,       \* of the nodes of m_msg_queue
  live,             \* the nodes that are allocated
  mutex,            \* m_mutex of the queue: who holds it
  sent,             \* how many messages there are
  at,               \* where a thread is in log()
  pc,               \* where the worker is
  it, last, first,  \* its iterators in process() and in erase()
  printed,          \* what it has printed, in order
  kill, quit,       \* m_kill of LoggerPrivate and of WorkerThread
  main              \* how far the program has got with ending the logger

list   == <<next, prev, live>>
worker == <<pc, it, last, first, printed>>
ending == <<kill, quit, main>>
vars   == <<list, mutex, sent, at, worker, ending>>

Init ==
  /\ next = [n \in Nodes |-> End]
  /\ prev = [n \in Nodes |-> End]
  /\ live = {End}
  /\ mutex = Nobody
  /\ sent = 0
  /\ at = [t \in Threads |-> "out"]
  /\ pc = "loop" /\ it = End /\ last = End /\ first = End
  /\ printed = <<>>
  /\ kill = FALSE /\ quit = FALSE /\ main = "runs"

-----------------------------------------------------------------------------
(* log(): push_back() under the mutex.  A node is linked from its          *)
(* predecessor first, where the worker may find it, and from the end of    *)
(* the list afterwards.  The new node is nobody else's before.             *)

Log(t) ==
  /\ at[t] = "out" /\ main = "runs"
  /\ sent < MaxMessages
  /\ mutex = Nobody
  /\ mutex' = t
  /\ sent' = sent + 1
  /\ live' = live \cup {sent'}
  /\ next' = [next EXCEPT ![sent'] = End]
  /\ prev' = [prev EXCEPT ![sent'] = prev[End]]
  /\ at' = [at EXCEPT ![t] = "link"]
  /\ UNCHANGED <<worker, ending>>

Link(t) ==
  /\ at[t] = "link"
  /\ next' = [next EXCEPT ![prev[End]] = sent]
  /\ at' = [at EXCEPT ![t] = "tie"]
  /\ UNCHANGED <<prev, live, mutex, sent, worker, ending>>

Tie(t) ==
  /\ at[t] = "tie"
  /\ prev' = [prev EXCEPT ![End] = sent]
  /\ at' = [at EXCEPT ![t] = "out"]
  /\ mutex' = Nobody
  /\ UNCHANGED <<next, live, sent, worker, ending>>

Logging(t) == Log(t) \/ Link(t) \/ Tie(t)

-----------------------------------------------------------------------------
(* WorkerThread::run() and LoggerPrivate::process().                       *)

WaitingForTwo == next[End] # End /\ next[next[End]] # End  \* mutant: keeps one back
Waiting       == next[End] # End

(* The loop of the thread: another round if there are messages.            *)
Poll ==
  /\ pc = "loop"
  /\ quit \/ Waiting
  /\ pc' = IF quit THEN "ended" ELSE "process"
  /\ UNCHANGED <<list, mutex, sent, at, it, last, first, printed, ending>>

Process ==
  /\ pc = "process"
  /\ IF kill THEN pc' = "loop" /\ UNCHANGED <<it, last>>
             ELSE pc' = "scan" /\ it' = next[End] /\ last' = next[End]
  /\ UNCHANGED <<list, mutex, sent, at, first, printed, ending>>

(* The walk over the messages.                                             *)
Show ==
  /\ pc = "scan" /\ it # End /\ ~kill
  /\ last' = it
  /\ printed' = Append(printed, it)
  /\ pc' = "step"
  /\ UNCHANGED <<list, mutex, sent, at, it, first, ending>>

Step ==
  /\ pc = "step"
  /\ it' = next[it]
  /\ pc' = "scan"
  /\ UNCHANGED <<list, mutex, sent, at, last, first, printed, ending>>

Shown ==
  /\ pc = "scan"
  /\ it = End \/ kill
  /\ IF kill THEN pc' = "loop" /\ UNCHANGED first
             ELSE pc' = "erase" /\ first' = next[End]
  /\ UNCHANGED <<list, mutex, sent, at, it, last, printed, ending>>

(* erase(begin(), last): a node is taken out of the list from the left,    *)
(* from the right, and freed.                                              *)
UntilIt   == it                      \* mutant: erases the last one, too
UntilLast == last

Unhook ==
  /\ pc = "erase" /\ first # UntilLast
  /\ next' = [next EXCEPT ![prev[first]] = next[first]]
  /\ pc' = "free"
  /\ UNCHANGED <<prev, live, mutex, sent, at, it, last, first, printed, ending>>

Free ==
  /\ pc = "free"
  /\ prev' = [prev EXCEPT ![next[first]] = prev[first]]
  /\ live' = live \ {first}
  /\ first' = next[first]
  /\ pc' = "erase"
  /\ UNCHANGED <<next, mutex, sent, at, it, last, printed, ending>>

(* QMutexLocker in process(), and pop_front() under it.                    *)
NoMatter == TRUE                     \* mutant: no mutex for the last one
MayEnter == mutex = Nobody

Enter ==
  /\ pc = "erase" /\ first = UntilLast
  /\ MayEnter
  /\ mutex' = Worker
  /\ pc' = "pop"
  /\ UNCHANGED <<list, sent, at, it, last, first, printed, ending>>

PopFront ==
  /\ pc = "pop"
  /\ LET n == next[End]
     IN  IF n = End
         THEN UNCHANGED list
         ELSE /\ next' = [next EXCEPT ![prev[n]] = next[n]]
              /\ prev' = [prev EXCEPT ![next[n]] = prev[n]]
              /\ live' = live \ {n}
  /\ mutex' = Nobody
  /\ pc' = "loop"
  /\ UNCHANGED <<sent, at, it, last, first, printed, ending>>

Working == \/ Poll \/ Process \/ Show \/ Step \/ Shown
           \/ Unhook \/ Free \/ Enter \/ PopFront

-----------------------------------------------------------------------------
(* ~Logger(), the last thing the program does, when the threads that log   *)
(* are gone: first the client and then the thread are told to end, the     *)
(* thread is waited for, and the list goes with the client.                *)

Shutdown ==
  /\ main = "runs" /\ \A t \in Threads : at[t] = "out"
  /\ kill' = TRUE
  /\ main' = "told"
  /\ UNCHANGED <<list, mutex, sent, at, worker, quit>>

QuitLater == quit                    \* mutant: the thread is never told
QuitNow   == TRUE

Quit ==
  /\ main = "told"
  /\ quit' = QuitNow
  /\ main' = "waits"
  /\ UNCHANGED <<list, mutex, sent, at, worker, kill>>

NeverMind == TRUE                    \* mutant: does not wait for the thread
Finished  == pc = "ended"

Delete ==
  /\ main = "waits" /\ Finished
  /\ live' = {}
  /\ main' = "gone"
  /\ UNCHANGED <<next, prev, mutex, sent, at, worker, kill, quit>>

Ending == Quit \/ Delete

Next == Working \/ Shutdown \/ Ending \/ \E t \in Threads : Logging(t)

Spec == Init /\ [][Next]_vars

(* A thread that has begun to log a message goes on, and so does the end   *)
(* of the program and the worker.  The worker waits for a mutex that is    *)
(* free in the end because messages are finite in number; nobody has to    *)
(* log any.                                                                *)
FairSpec == /\ Spec
            /\ WF_vars(Ending)
            /\ WF_vars(Working)
            /\ \A t \in Threads : WF_vars(Link(t) \/ Tie(t))

-----------------------------------------------------------------------------
(* Properties.                                                             *)

TypeOK ==
  /\ next \in [Nodes -> Nodes] /\ prev \in [Nodes -> Nodes]
  /\ live \subseteq Nodes
  /\ mutex \in Threads \cup {Worker, Nobody}
  /\ sent \in 0..MaxMessages
  /\ at \in [Threads -> {"out", "link", "tie"}]
  /\ pc \in {"loop", "process", "scan", "step", "erase", "free", "pop", "ended"}
  /\ it \in Nodes /\ last \in Nodes /\ first \in Nodes
  /\ printed \in Seq(Messages)
  /\ kill \in BOOLEAN /\ quit \in BOOLEAN
  /\ main \in {"runs", "told", "waits", "gone"}

(* The nodes whose words the next step of a thread, and of the worker,     *)
(* reads or writes.                                                        *)
Touched(t) == CASE at[t] = "link" -> {End, prev[End], sent}
                [] at[t] = "tie"  -> {End, sent}
                [] at[t] = "out"  -> {}

WorkerTouches ==
  CASE pc = "scan" -> IF it # End /\ ~kill THEN {it} ELSE {End}
    [] pc = "step" -> {it}
    [] pc = "erase" -> IF first # UntilLast THEN {first, prev[first], next[first]}
                       ELSE {}
    [] pc = "free" -> {first, prev[first], next[first]}
    [] pc = "pop"  -> {End, next[End]}
    [] pc \in {"loop", "process"} -> {End}
    [] pc = "ended" -> {}

(* Nobody touches a node that has been freed, though the worker erases     *)
(* nodes without the mutex: not the thread that links a node to the last   *)
(* one, nor the worker while the list is destroyed.                        *)
NoDangling ==
  /\ WorkerTouches \subseteq live
  /\ \A t \in Threads : Touched(t) \subseteq live

(* The logger is a service: messages are printed once each and in the      *)
(* order in which their threads got the mutex.                             *)
Service == INSTANCE Fifo WITH
  Requests <- Messages,
  taken    <- [n \in 1..sent |-> n],
  done     <- printed,
  open     <- ~kill

InOrder == Service!SafeSpec

(* Whatever is logged is printed, unless the logger is told to end.        *)
GetsPrinted == \A n \in Messages : sent >= n ~> Len(printed) >= n \/ kill

(* The program can always end the logger.                                  *)
Ends == main # "runs" ~> main = "gone"
=============================================================================
