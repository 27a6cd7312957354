----------------------------- MODULE Serializer -----------------------------
(***************************************************************************)
(* The serialiser: a caller appends a request to a list, a worker thread   *)
(* loads or saves the file, answers, and then takes the request off the    *)
(* list.  Nothing guards the list.  It is modelled by the words of its     *)
(* nodes, with a step for each write the other thread can see; what a      *)
(* thread has read before it writes is a variable.                         *)
(*                                                                         *)
(* There are two kinds of callers.  "Call" is Song::load(), Song::save()   *)
(* and the functions of LocalFileMng: they create a serialiser, make one   *)
(* request, poll for the answer once a second, and destroy the serialiser. *)
(* "Plugin" is the LV2 plugin: its ObjectBundle passes to the serialiser   *)
(* and back, for one request after another, until the host deactivates it. *)
(***************************************************************************)
EXTENDS Naturals

CONSTANTS
  Callers,     \* the kinds of callers
  MaxRequests  \* how many requests the plugin makes: bounds the model

ASSUME CallersAssumption  == Callers \subseteq {"call", "plugin"}
ASSUME RequestsAssumption == MaxRequests \in Nat \ {0}

(* Requests are numbered; a request's node of the list has its number.     *)
Requests == 1..MaxRequests
End      == 0
Nodes    == Requests \cup {End}

VARIABLES
  caller,          \* the kind of caller
  at,              \* where it is
  sent,            \* how many requests it has made
  tail,            \* the node it has read as the last one
  next, prev,      \* of the nodes of m_queue
  live,            \* the nodes that are allocated
  state,           \* of the bundle or report (done is Ready)
  objects,         \* the requests whose objects are in the bundle
  failed,          \* its error
  bundle,          \* whether it exists
  pc, it, victim,  \* where the worker is, its iterator, what it pops
  after,           \* and the node it has read behind that
  kill, quit,      \* m_kill of SerializationQueue and of WorkerThread
  met, lost        \* ghosts: see Meeting, and Link

list   == <<next, prev, live>>
report == <<state, objects, failed, bundle>>
worker == <<pc, it, victim, after>>
ghosts == <<met, lost>>
host   == <<caller, at, sent, tail, kill, quit>>
vars   == <<list, report, worker, host, ghosts>>

Init ==
  /\ caller \in Callers
  /\ at = "idle" /\ sent = 0 /\ tail = End
  /\ next = [n \in Nodes |-> End] /\ prev = [n \in Nodes |-> End]
  /\ live = {End}
  /\ state = "Empty" /\ objects = {} /\ failed = FALSE /\ bundle = TRUE
  /\ pc = "loop" /\ it = End /\ victim = End /\ after = End
  /\ kill = FALSE /\ quit = FALSE
  /\ met = FALSE /\ lost = FALSE

-----------------------------------------------------------------------------
(* The caller.  load_uri() and save_...() append a request; the plugin     *)
(* does so when its bundle is Empty, which makes it Loading.  save_...()   *)
(* would drop a request without an object, but no caller has one to make:  *)
(* each of them uses its object just before.                               *)

Limit == IF caller = "call" THEN 1 ELSE MaxRequests

MayLoad == at = "idle" /\ state = "Empty"

(* The plugin appends a request while the worker, which has answered the   *)
(* one before, is still taking that off the list; or the worker gets to    *)
(* take one off that the plugin has not appended in full.                  *)
Appending == {"link", "tie"}
Removing  == {"step", "pop", "free"}
Meeting   == met' = (met \/ (caller = "plugin" /\ at' \in Appending /\ pc' \in Removing))

Request ==
  /\ MayLoad
  /\ sent < Limit
  /\ state' = "Loading"
  /\ sent' = sent + 1
  /\ live' = live \cup {sent'}
  /\ next' = [next EXCEPT ![sent'] = End]
  /\ prev' = [prev EXCEPT ![sent'] = prev[End]]
  /\ tail' = prev[End]
  /\ at' = "link"
  /\ UNCHANGED <<objects, failed, bundle, worker, caller, kill, quit, lost>>
  /\ Meeting

(* A request hooked behind a node that is off the list is on no list.      *)
OffList(n) == n \notin live \/ (pc = "free" /\ n = victim)

Link ==
  /\ at = "link"
  /\ next' = [next EXCEPT ![tail] = sent]
  /\ at' = "tie" /\ lost' = (lost \/ OffList(tail))
  /\ UNCHANGED <<prev, live, report, worker, caller, sent, tail, kill, quit, met>>

Tie ==
  /\ at = "tie"
  /\ prev' = [prev EXCEPT ![End] = sent]
  /\ at' = "idle"
  /\ UNCHANGED <<next, live, report, worker, caller, sent, tail, kill, quit, ghosts>>

(* install_drumkit_bundle(), which _run() calls when the bundle is Ready:  *)
(* an error is dropped, objects are taken out, and the bundle is reset().  *)
Install ==
  /\ caller = "plugin" /\ at = "idle" /\ state = "Ready"
  /\ objects' = {}
  /\ state' = "Empty"
  /\ UNCHANGED <<failed, bundle, list, worker, host, ghosts>>

(* The end of the serialiser.  A call has its answer then and its bundle,  *)
(* an object on the stack behind the serialiser, goes first; the plugin    *)
(* may be deactivated while it is loading and keeps its bundle to the end. *)
Impatient == TRUE                          \* mutant: does not poll
Polled    == caller = "call" => state = "Ready"

Shutdown ==
  /\ at = "idle" /\ Polled
  /\ bundle' = (caller = "plugin")
  /\ kill' = TRUE
  /\ at' = "told"
  /\ UNCHANGED <<state, objects, failed, list, worker, caller, sent, tail, quit, ghosts>>

QuitLater == quit                          \* mutant: the thread is never told
QuitNow   == TRUE

Quit ==
  /\ at = "told"
  /\ quit' = QuitNow
  /\ at' = "waits"
  /\ UNCHANGED <<list, report, worker, caller, sent, tail, kill, ghosts>>

NeverMind == TRUE                          \* mutant: does not wait for it
Finished  == pc = "ended"

Delete ==
  /\ at = "waits" /\ Finished
  /\ live' = {}
  /\ bundle' = FALSE
  /\ at' = "gone"
  /\ UNCHANGED <<next, prev, state, objects, failed, worker, caller, sent, tail, kill, quit, ghosts>>

-----------------------------------------------------------------------------
(* The worker: WorkerThread::run() and SerializationQueue::process().      *)

Poll ==
  /\ pc = "loop"
  /\ quit \/ next[End] # End
  /\ pc' = IF quit THEN "ended" ELSE "process"
  /\ UNCHANGED <<it, victim, after, list, report, host, ghosts>>

Process ==
  /\ pc = "process"
  /\ it' = next[End]
  /\ pc' = "test"
  /\ UNCHANGED <<victim, after, list, report, host, ghosts>>

Test ==
  /\ pc = "test"
  /\ pc' = IF it = End \/ kill THEN "loop" ELSE "handle"
  /\ UNCHANGED <<it, victim, after, list, report, host, ghosts>>

(* A handler puts what it has read into the bundle, or nothing when there  *)
(* was an error.                                                           *)
Handle ==
  /\ pc = "handle"
  /\ failed' \in BOOLEAN
  /\ objects' = IF failed' THEN objects ELSE objects \cup {it}
  /\ pc' = "call"
  /\ UNCHANGED <<it, victim, after, state, bundle, list, host, ghosts>>

(* handle_callback(): the answer.                                          *)
Silent(s) == s                             \* mutant: stays Loading
Answer(s) == IF s = "Loading" THEN "Ready" ELSE s

Callback ==
  /\ pc = "call"
  /\ state' = Answer(state)
  /\ pc' = "step" /\ at' = at
  /\ Meeting
  /\ UNCHANGED <<it, victim, after, objects, failed, bundle, list, caller, sent, tail, kill, quit, lost>>

Step ==
  /\ pc = "step"
  /\ it' = next[it]
  /\ pc' = "pop"
  /\ UNCHANGED <<victim, after, list, report, host, ghosts>>

(* pop_front(): a node is taken out of the list from the left, and then    *)
(* from the right and freed.                                               *)
Pop ==
  /\ pc = "pop"
  /\ victim' = next[End]
  /\ after' = next[victim']
  /\ next' = [next EXCEPT ![prev[victim']] = after']
  /\ pc' = "free"
  /\ UNCHANGED <<it, prev, live, report, host, ghosts>>

Free ==
  /\ pc = "free"
  /\ prev' = [prev EXCEPT ![after] = prev[victim]]
  /\ live' = live \ {victim}
  /\ pc' = "test"
  /\ UNCHANGED <<it, victim, after, next, report, host, ghosts>>

Working == \/ Poll \/ Process \/ Test \/ Handle \/ Callback
           \/ Step \/ Pop \/ Free
Calling == Link \/ Tie \/ Quit \/ Delete

Next == Working \/ Calling \/ Request \/ Install \/ Shutdown

Spec == Init /\ [][Next]_vars

(* A caller finishes what it has begun, and the worker goes on; nobody has *)
(* to make a request, and no host has to deactivate the plugin.            *)
FairSpec == Spec /\ WF_vars(Calling) /\ WF_vars(Working)

-----------------------------------------------------------------------------
(* Properties.                                                             *)

TypeOK ==
  /\ caller \in Callers
  /\ at \in {"idle", "link", "tie", "told", "waits", "gone"}
  /\ sent \in 0..MaxRequests
  /\ next \in [Nodes -> Nodes] /\ prev \in [Nodes -> Nodes]
  /\ live \subseteq Nodes
  /\ state \in {"Empty", "Loading", "Ready"}
  /\ objects \subseteq Requests
  /\ failed \in BOOLEAN /\ bundle \in BOOLEAN
  /\ pc \in {"loop", "process", "test", "handle", "call", "step", "pop", "free", "ended"}
  /\ {tail, it, victim, after} \subseteq Nodes
  /\ {kill, quit, met, lost} \subseteq BOOLEAN

(* The nodes whose words the next step of the caller, and of the worker,   *)
(* reads or writes.                                                        *)
CallerTouches ==
  CASE at = "link" -> {End, tail, sent}
    [] at = "tie"  -> {End}
    [] OTHER       -> {}

WorkerTouches ==
  CASE pc \in {"loop", "process"} -> {End}
    [] pc \in {"handle", "call", "step"} -> {it}
    [] pc = "pop"  -> {End, next[End], prev[next[End]]}
    [] pc = "free" -> {victim, after}
    [] OTHER       -> {}

(* The worker never touches a request that has been freed, nor a list that *)
(* has been destroyed.  Nor does the caller, but for one word: the plugin  *)
(* may hook a request behind one that has been freed meanwhile, if it met  *)
(* the worker at it.                                                       *)
NoDangling ==
  /\ WorkerTouches \subseteq live
  /\ CallerTouches \subseteq live \cup (IF met THEN {tail} ELSE {})

(* The worker writes to a bundle only while it has been handed to it and   *)
(* exists, though callers drop theirs before, or wait for the worker only  *)
(* when they have told it to end; and a bundle that is handed back has the *)
(* objects of the last request, and no others.                             *)
Owned ==
  /\ pc \in {"handle", "call"} => bundle /\ state = "Loading" /\ it = sent
  /\ state = "Ready" => objects = IF failed THEN {} ELSE {sent}

(* After the data has been loaded the caller is told (Serialization.hpp:66 *)
(* and :67), unless it has given up before, or has hooked its request      *)
(* behind one that the worker had just taken off.                          *)
Answered == state = "Loading" ~> state # "Loading" \/ kill \/ lost

(* A serialiser can be destroyed at any time.                              *)
Ends == at = "told" ~> at = "gone"
=============================================================================
