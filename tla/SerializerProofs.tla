-------------------------- MODULE SerializerProofs --------------------------
(***************************************************************************)
(* Without a mutex, and with a plugin that makes its next request while    *)
(* the worker is still taking the last one off the list, a request can     *)
(* get lost; but nothing else goes wrong.                                  *)
(***************************************************************************)
EXTENDS Serializer, TLAPS

(* At most two requests are in the list: Old, which has been answered and  *)
(* is being taken off, and the last one.                                   *)
Loading == state = "Loading"
Linked  == Loading /\ at # "link" /\ ~lost
Taking  == pc \in Removing
Old     == IF Loading THEN sent - 1 ELSE sent

Chain ==
  /\ Loading => sent \in Requests /\ next[sent] = End
  /\ Taking => /\ Old \in Requests /\ prev[Old] = End
               /\ next[Old] = IF Loading /\ at # "link" THEN sent ELSE End
  /\ next[End] = IF pc \in {"step", "pop"} THEN Old ELSE IF Linked THEN sent ELSE End
  /\ Linked /\ ~Taking => prev[sent] = End

Allocated ==
  at # "gone" => live = {End} \cup (IF Loading THEN {sent} ELSE {})
                              \cup (IF Taking THEN {Old} ELSE {})

(* What the caller finds, or has found, as the last node.                  *)
Last ==
  /\ at \in {"link", "tie"} => sent >= 1
  /\ at = "link" => /\ Loading /\ ~lost
                    /\ \/ tail = End /\ ~Taking /\ prev[sent] = End
                       \/ tail = sent - 1 /\ tail # End /\ met
  /\ at = "tie" /\ ~Loading /\ caller = "plugin" => met
  /\ at = "idle" /\ Linked => prev[End] = sent
  /\ at = "idle" /\ ~Loading => /\ prev[End] \in {End, sent}
                                /\ Taking => prev[End] = sent
                                /\ caller = "plugin" /\ ~Taking => prev[End] = End \/ met

(* Where the worker may be.                                                *)
Places ==
  /\ pc \in {"process", "handle", "call"} => Linked
  /\ pc \in {"handle", "call"} => it = sent
  /\ pc \in {"test", "pop", "free"} => it = End \/ (it = sent /\ Linked)
  /\ pc = "step" => it = Old
  /\ pc = "free" => victim = Old /\ after = (IF Linked THEN sent ELSE End)
  /\ lost => Loading /\ pc \notin {"step", "pop"}
  /\ at = "gone" => pc = "ended"

Told ==
  /\ caller = "call" => sent <= 1 /\ (sent = 0 <=> state = "Empty")
  /\ ~bundle => (caller = "call" /\ state = "Ready") \/ at = "gone"
  /\ Loading /\ pc # "call" => objects = {}
  /\ pc = "call" => objects = IF failed THEN {} ELSE {sent}
  /\ state = "Ready" => objects = IF failed THEN {} ELSE {sent}
  /\ state = "Empty" => objects = {}

IInv == TypeOK /\ Chain /\ Allocated /\ Last /\ Places /\ Told

-----------------------------------------------------------------------------

LEMMA InitIInv == Init => IInv
<1> SUFFICES ASSUME Init PROVE IInv
  OBVIOUS
<1> USE CallersAssumption, RequestsAssumption
<1>1. TypeOK
  <2>1. End \in Nodes
    BY DEF Nodes
  <2>2. next \in [Nodes -> Nodes] /\ prev \in [Nodes -> Nodes] /\ live \subseteq Nodes
    BY <2>1 DEF Init
  <2>3. sent \in 0..MaxRequests /\ objects \subseteq Requests
    BY DEF Init
  <2>4. caller \in Callers /\ {tail, it, victim, after} \subseteq Nodes
    BY <2>1 DEF Init
  <2>5. failed \in BOOLEAN /\ bundle \in BOOLEAN /\ {kill, quit, met, lost} \subseteq BOOLEAN
    BY DEF Init
  <2>6. /\ at \in {"idle", "link", "tie", "told", "waits", "gone"}
        /\ state \in {"Empty", "Loading", "Ready"}
        /\ pc \in {"loop", "process", "test", "handle", "call", "step", "pop", "free", "ended"}
    BY DEF Init
  <2> QED BY <2>1, <2>2, <2>3, <2>4, <2>5, <2>6 DEF TypeOK
<1>2. ~Loading /\ ~Taking /\ ~Linked
  BY DEF Init, Loading, Linked, Taking, Removing
<1>3. Chain /\ Allocated /\ Last
  BY <1>2 DEF Init, Chain, Allocated, Last, Nodes, End
<1>4. Places /\ Told
  BY <1>2 DEF Init, Places, Told, End
<1> QED BY <1>1, <1>3, <1>4 DEF IInv

LEMMA RequestInv ==
  ASSUME IInv, Request
  PROVE  IInv'
<1> USE CallersAssumption, RequestsAssumption DEF IInv, Request, MayLoad, Meeting, worker
<1> DEFINE x == sent + 1
<1>1. x \in Requests /\ x \in Nodes /\ x # End /\ sent' = x /\ End \in Nodes /\ sent \in Nat
  BY DEF TypeOK, Limit, Requests, Nodes, End
<1>2. ~Loading /\ Loading' /\ ~Linked /\ ~Linked' /\ (Taking' <=> Taking)
  BY DEF Loading, Linked, Taking
<1>3. Old = sent /\ Old' = sent /\ Old # x /\ (Taking => Old \in Requests /\ Old # End)
  BY <1>1, <1>2 DEF Old, Chain, Requests, End
<1>4. prev[End] \in {End, sent} /\ tail' = prev[End]
  BY <1>2 DEF Last
<1>5. TypeOK'
  <2>1. sent' \in 0..MaxRequests /\ live' \subseteq Nodes
    BY <1>1 DEF TypeOK, Requests
  <2>2. prev[End] \in Nodes
    BY <1>1 DEF TypeOK
  <2>3. next' \in [Nodes -> Nodes] /\ prev' \in [Nodes -> Nodes]
    BY <1>1, <2>2 DEF TypeOK
  <2>4. met' \in BOOLEAN
    BY DEF TypeOK
  <2> QED BY <2>1, <2>2, <2>3, <2>4 DEF TypeOK
<1>6. /\ next'[x] = End /\ prev'[x] = prev[End]
      /\ next'[End] = next[End] /\ prev'[End] = prev[End]
      /\ Taking => next'[Old] = next[Old] /\ prev'[Old] = prev[Old]
  BY <1>1, <1>3 DEF TypeOK, Nodes
<1>7. Chain'
  BY <1>1, <1>2, <1>3, <1>6 DEF Chain
<1>8. Allocated'
  BY <1>1, <1>2, <1>3 DEF Allocated
<1>9. Last'
  <2>1. CASE prev[End] = End
    <3>1. ~Taking
      BY <1>2, <1>3, <2>1 DEF Last
    <3> QED BY <1>1, <1>2, <1>6, <2>1, <3>1 DEF Last, Places
  <2>2. CASE prev[End] # End
    <3>1. caller = "plugin"
      BY <1>1, <1>4, <2>2 DEF Limit, TypeOK, End
    <3>2. Taking => met'
      BY <3>1 DEF Taking, Appending
    <3>3. ~Taking => met'
      BY <3>1, <1>2, <2>2 DEF Last
    <3> QED BY <1>1, <1>2, <1>4, <2>2, <3>2, <3>3 DEF Last, Places
  <2> QED BY <2>1, <2>2
<1>10. Places'
  BY <1>1, <1>2, <1>3 DEF Places
<1>11. Told'
  BY <1>1, <1>2 DEF Told, Loading, Limit, Places
<1> QED BY <1>5, <1>7, <1>8, <1>9, <1>10, <1>11

LEMMA LinkInv ==
  ASSUME IInv, Link
  PROVE  IInv'
<1> USE RequestsAssumption DEF IInv, Link, OffList, worker, report
<1>1. /\ sent \in Requests /\ sent \in Nodes /\ sent # End /\ End \in Nodes /\ sent \in Nat
      /\ Loading /\ ~lost /\ ~Linked /\ tail \in Nodes
  BY DEF Last, Linked, Chain, TypeOK, Requests, Nodes, End
<1>2. Loading' /\ (Taking' <=> Taking) /\ Old = sent - 1 /\ Old' = Old
  BY <1>1 DEF Loading, Taking, Old
<1>3. TypeOK'
  <2>1. lost' \in BOOLEAN
    BY DEF TypeOK
  <2> QED BY <1>1, <2>1 DEF TypeOK
<1>4. CASE tail = End
  <2>1. ~Taking /\ prev[sent] = End
    BY <1>1, <1>4 DEF Last, Old, End
  <2>2. ~lost' /\ Linked'
    BY <1>1, <1>2, <1>4, <2>1 DEF Allocated, Taking, Removing, Linked
  <2>3. next'[End] = sent /\ next'[sent] = next[sent]
    BY <1>1, <1>4 DEF TypeOK
  <2>4. Chain'
    BY <1>1, <1>2, <2>1, <2>2, <2>3 DEF Chain, Taking, Removing
  <2>5. Allocated' /\ Last'
    BY <1>1, <1>2, <2>1 DEF Allocated, Last
  <2>6. Places'
    BY <1>1, <1>2, <2>1, <2>2 DEF Places, Taking, Removing
  <2>7. Told'
    BY <1>2, <1>1 DEF Told
  <2> QED BY <1>3, <2>4, <2>5, <2>6, <2>7
<1>5. CASE tail # End
  <2>1. tail = sent - 1 /\ tail = Old /\ tail # sent
    BY <1>1, <1>2, <1>5 DEF Last
  <2>2. lost' <=> pc \notin {"step", "pop"}
    <3>1. CASE pc \in {"step", "pop"}
      BY <1>1, <3>1, <2>1 DEF Allocated, Taking, Removing, Places
    <3>2. CASE pc = "free"
      BY <3>2, <2>1 DEF Places
    <3>3. CASE ~Taking
      BY <3>3, <1>1, <1>5, <2>1 DEF Allocated, Taking, Removing, Places
    <3> QED BY <3>1, <3>2, <3>3 DEF Taking, Removing
  <2>3. Linked' <=> pc \in {"step", "pop"}
    BY <1>2, <2>2 DEF Linked
  <2>4. next'[End] = next[End] /\ next'[Old] = sent /\ next'[sent] = next[sent]
    BY <1>1, <1>5, <2>1 DEF TypeOK
  <2>5. Chain'
    BY <1>1, <1>2, <2>2, <2>3, <2>4 DEF Chain, Taking, Removing
  <2>6. Allocated' /\ Last'
    BY <1>1, <1>2 DEF Allocated, Last
  <2>7. Places'
    BY <1>1, <1>2, <2>2, <2>3 DEF Places
  <2>8. Told'
    BY <1>2, <1>1 DEF Told
  <2> QED BY <1>3, <2>5, <2>6, <2>7, <2>8
<1> QED BY <1>4, <1>5

LEMMA TieInv ==
  ASSUME IInv, Tie
  PROVE  IInv'
<1> USE RequestsAssumption DEF IInv, Tie, worker, report, ghosts
<1>1. sent \in Requests /\ sent \in Nodes /\ sent # End /\ End \in Nodes /\ sent \in Nat
  BY DEF Last, TypeOK, Requests, Nodes, End
<1>2. /\ (Loading' <=> Loading) /\ (Linked' <=> Linked) /\ (Taking' <=> Taking) /\ Old' = Old
      /\ (Taking => Old # End)
  BY DEF Loading, Linked, Taking, Old, Chain, Requests, End
<1>3. TypeOK'
  BY <1>1 DEF TypeOK
<1>4. prev'[End] = sent /\ prev'[sent] = prev[sent] /\ (Taking => prev'[Old] = prev[Old])
  BY <1>1, <1>2 DEF TypeOK, Chain, Nodes
<1>5. Chain'
  BY <1>1, <1>2, <1>4 DEF Chain
<1>6. Allocated' /\ Last'
  BY <1>1, <1>2, <1>4 DEF Allocated, Last
<1>7. Places' /\ Told'
  BY <1>1, <1>2 DEF Places, Told
<1> QED BY <1>3, <1>5, <1>6, <1>7

LEMMA InstallInv ==
  ASSUME IInv, Install
  PROVE  IInv'
<1> USE DEF IInv, Install, worker, list, host, ghosts
<1>1. ~Loading /\ ~Loading' /\ ~Linked /\ ~Linked' /\ (Taking' <=> Taking) /\ Old' = Old
  BY DEF Loading, Linked, Taking, Old
<1>2. TypeOK'
  BY DEF TypeOK
<1>3. Chain' /\ Allocated' /\ Last'
  BY <1>1 DEF Chain, Allocated, Last
<1>4. Places'
  BY <1>1 DEF Places
<1>5. Told'
  BY <1>1 DEF Told, Places, Loading
<1> QED BY <1>2, <1>3, <1>4, <1>5

LEMMA EndingInv ==
  ASSUME IInv, Shutdown \/ Quit \/ Delete
  PROVE  IInv'
<1> USE DEF IInv, Shutdown, Quit, Delete, Polled, QuitNow, Finished, worker, list, report, ghosts
<1>1. (Loading' <=> Loading) /\ (Linked' <=> Linked) /\ (Taking' <=> Taking) /\ Old' = Old
  BY DEF Loading, Linked, Taking, Old
<1>2. TypeOK'
  <2>1. CASE Shutdown
    BY <2>1 DEF TypeOK
  <2>2. CASE Quit
    BY <2>2 DEF TypeOK
  <2>3. CASE Delete
    BY <2>3 DEF TypeOK
  <2> QED BY <2>1, <2>2, <2>3
<1>3. Chain' /\ Allocated' /\ Last' /\ Places'
  <2>1. CASE Shutdown
    BY <2>1, <1>1 DEF Chain, Allocated, Last, Places
  <2>2. CASE Quit
    BY <2>2, <1>1 DEF Chain, Allocated, Last, Places
  <2>3. CASE Delete
    BY <2>3, <1>1 DEF Chain, Allocated, Last, Places
  <2> QED BY <2>1, <2>2, <2>3
<1>4. Told'
  <2>1. CASE Shutdown
    BY <2>1, <1>1, CallersAssumption DEF Told, TypeOK, Loading
  <2>2. CASE Quit
    BY <2>2, <1>1 DEF Told
  <2>3. CASE Delete
    BY <2>3, <1>1 DEF Told
  <2> QED BY <2>1, <2>2, <2>3
<1> QED BY <1>2, <1>3, <1>4

-----------------------------------------------------------------------------

(* The worker finds the request, or an end.                                *)
LEMMA FindInv ==
  ASSUME IInv, Poll \/ Process \/ Test
  PROVE  IInv'
<1> USE DEF IInv, Poll, Process, Test, list, report, host, ghosts
<1>1. /\ (Loading' <=> Loading) /\ (Linked' <=> Linked) /\ Old' = Old
      /\ ~Taking /\ ~Taking'
  BY DEF Loading, Linked, Taking, Removing, Old
<1>2. TypeOK'
  <2>1. next[End] \in Nodes
    BY DEF TypeOK, Nodes
  <2> QED BY <2>1 DEF TypeOK
<1>3. Chain' /\ Allocated' /\ Last'
  BY <1>1 DEF Chain, Allocated, Last, Taking, Removing
<1>4. Places'
  BY <1>1 DEF Places, Chain, Taking, Removing
<1>5. Told'
  BY <1>1 DEF Told
<1> QED BY <1>2, <1>3, <1>4, <1>5

LEMMA HandleInv ==
  ASSUME IInv, Handle
  PROVE  IInv'
<1> USE DEF IInv, Handle, list, host, ghosts
<1>1. /\ Loading /\ Loading' /\ Linked /\ Linked' /\ Old' = Old /\ ~Taking /\ ~Taking'
      /\ it = sent /\ sent \in Requests
  BY DEF Loading, Linked, Taking, Removing, Old, Places, Chain
<1>2. TypeOK'
  BY <1>1 DEF TypeOK
<1>3. Chain' /\ Allocated' /\ Last'
  BY <1>1 DEF Chain, Allocated, Last
<1>4. Places'
  BY <1>1 DEF Places
<1>5. Told'
  BY <1>1 DEF Told, Loading
<1> QED BY <1>2, <1>3, <1>4, <1>5

LEMMA CallbackInv ==
  ASSUME IInv, Callback
  PROVE  IInv'
<1> USE DEF IInv, Callback, Answer, Meeting, list
<1>1. /\ Loading /\ Linked /\ ~Taking /\ it = sent /\ sent \in Requests /\ sent \in Nat /\ at # "link" /\ ~lost
      /\ ~Loading' /\ ~Linked' /\ Taking' /\ state' = "Ready" /\ Old' = sent
  BY DEF Loading, Linked, Taking, Removing, Old, Places, Chain, Requests
<1>2. TypeOK'
  <2>1. met' \in BOOLEAN
    BY DEF TypeOK
  <2> QED BY <1>1, <2>1 DEF TypeOK
<1>3. Chain'
  BY <1>1 DEF Chain
<1>4. Allocated'
  BY <1>1 DEF Allocated
<1>5. Last'
  <2>1. at = "tie" /\ caller = "plugin" => met'
    BY DEF Appending, Removing
  <2> QED BY <1>1, <2>1 DEF Last
<1>6. Places'
  BY <1>1 DEF Places
<1>7. Told'
  BY <1>1 DEF Told
<1> QED BY <1>2, <1>3, <1>4, <1>5, <1>6, <1>7

LEMMA StepInv ==
  ASSUME IInv, Step
  PROVE  IInv'
<1> USE DEF IInv, Step, list, report, host, ghosts
<1>1. /\ (Loading' <=> Loading) /\ (Linked' <=> Linked) /\ Old' = Old /\ Taking /\ Taking'
      /\ it = Old /\ it \in Requests
  BY DEF Loading, Linked, Taking, Removing, Old, Places, Chain
<1>2. next[it] = (IF Linked THEN sent ELSE End)
  BY <1>1 DEF Chain, Linked, Places
<1>3. TypeOK'
  BY <1>1 DEF TypeOK, Nodes
<1>4. Chain' /\ Allocated' /\ Last'
  BY <1>1 DEF Chain, Allocated, Last
<1>5. Places'
  BY <1>1, <1>2 DEF Places
<1>6. Told'
  BY <1>1 DEF Told
<1> QED BY <1>3, <1>4, <1>5, <1>6

LEMMA PopInv ==
  ASSUME IInv, Pop
  PROVE  IInv'
<1> USE DEF IInv, Pop, report, host, ghosts
<1> DEFINE behind == IF Linked THEN sent ELSE End
<1>1. (Loading' <=> Loading) /\ (Linked' <=> Linked) /\ Old' = Old /\ Taking /\ Taking'
  BY DEF Loading, Linked, Taking, Removing, Old
<1>2. /\ Old \in Requests /\ Old \in Nodes /\ Old # End /\ End \in Nodes /\ sent # End
      /\ (Loading => sent \in Nodes /\ sent # Old)
  BY <1>1, RequestsAssumption DEF Chain, Requests, Nodes, End, Old
<1>3. next[End] = Old /\ prev[Old] = End /\ next[Old] = behind
  BY <1>1 DEF Chain, Linked, Places
<1>4. behind \in Nodes
  BY <1>2 DEF Linked
<1>5. victim' = Old /\ after' = behind /\ next' = [next EXCEPT ![End] = behind]
  BY <1>2, <1>3
<1>6. /\ next'[End] = behind /\ next'[Old] = next[Old]
      /\ (Loading => next'[sent] = next[sent])
  BY <1>2, <1>4, <1>5 DEF TypeOK
<1>7. TypeOK'
  BY <1>2, <1>4, <1>5 DEF TypeOK
<1>8. Chain'
  BY <1>1, <1>6 DEF Chain
<1>9. Allocated' /\ Last'
  BY <1>1 DEF Allocated, Last
<1>10. Places'
  BY <1>1, <1>5 DEF Places
<1>11. Told'
  BY <1>1 DEF Told
<1> QED BY <1>7, <1>8, <1>9, <1>10, <1>11

LEMMA FreeInv ==
  ASSUME IInv, Free
  PROVE  IInv'
<1> USE DEF IInv, Free, report, host, ghosts
<1> DEFINE behind == IF Linked THEN sent ELSE End
<1>1. (Loading' <=> Loading) /\ (Linked' <=> Linked) /\ Old' = Old /\ Taking /\ ~Taking'
  BY DEF Loading, Linked, Taking, Removing, Old
<1>2. /\ Old \in Requests /\ Old \in Nodes /\ Old # End /\ End \in Nodes /\ sent # End
      /\ (Loading => sent \in Nodes /\ sent # Old)
  BY <1>1, RequestsAssumption DEF Chain, Requests, Nodes, End, Old
<1>3. victim = Old /\ after = behind /\ prev[Old] = End /\ behind \in Nodes
  BY <1>1, <1>2 DEF Places, Chain, Linked
<1>4. prev' = [prev EXCEPT ![behind] = End] /\ live' = live \ {Old}
  BY <1>3
<1>5. prev'[End] = (IF Linked THEN prev[End] ELSE End) /\ (Linked => prev'[sent] = End)
  BY <1>2, <1>3, <1>4 DEF TypeOK
<1>6. TypeOK'
  BY <1>2, <1>3, <1>4 DEF TypeOK
<1>7. Chain'
  BY <1>1, <1>5 DEF Chain
<1>8. Allocated'
  BY <1>1, <1>2, <1>4 DEF Allocated, Places
<1>9. Last'
  <2>1. at = "link" => tail = sent - 1 /\ tail # End /\ met
    BY <1>1 DEF Last
  <2> QED BY <1>1, <1>5, <2>1 DEF Last, Linked
<1>10. Places'
  BY <1>1 DEF Places
<1>11. Told'
  BY <1>1 DEF Told
<1> QED BY <1>6, <1>7, <1>8, <1>9, <1>10, <1>11

LEMMA NextInv == IInv /\ [Next]_vars => IInv'
<1> SUFFICES ASSUME IInv, [Next]_vars PROVE IInv'
  OBVIOUS
<1>1. CASE Working
  BY <1>1, FindInv, HandleInv, CallbackInv, StepInv, PopInv, FreeInv DEF Working
<1>2. CASE Calling \/ Request \/ Install \/ Shutdown
  BY <1>2, RequestInv, LinkInv, TieInv, InstallInv, EndingInv DEF Calling
<1>3. CASE UNCHANGED vars
  BY <1>3 DEF vars, list, report, worker, host, ghosts, IInv, TypeOK, Chain, Allocated, Last, Places, Told,
              Loading, Linked, Taking, Old
<1> QED BY <1>1, <1>2, <1>3 DEF Next

THEOREM Invariance == Spec => []IInv
<1>1. Init => IInv
  BY InitIInv
<1>2. IInv /\ [Next]_vars => IInv'
  BY NextInv
<1> QED BY <1>1, <1>2, PTL DEF Spec

(* The caller, the worker, the list and the bundle keep their types.       *)
THEOREM TypeCorrect == Spec => []TypeOK
<1>1. IInv => TypeOK
  BY DEF IInv
<1> QED BY <1>1, Invariance, PTL

(* Without a mutex, the worker touches no request that has been freed, nor *)
(* a list that has been destroyed; and the caller does only when it has    *)
(* met the worker, by hooking its request behind one that is gone.         *)
THEOREM NeverDangles == Spec => []NoDangling
<1>1. IInv => NoDangling
  <2> SUFFICES ASSUME IInv PROVE NoDangling
    OBVIOUS
  <2> USE DEF IInv
  <2>1. CallerTouches \subseteq live \cup (IF met THEN {tail} ELSE {})
    BY DEF CallerTouches, Last, Allocated
  <2>2. WorkerTouches \subseteq live
    <3>1. pc # "ended" => at # "gone"
      BY DEF Places
    <3>2. CASE pc \in {"loop", "process"}
      BY <3>1, <3>2 DEF WorkerTouches, Allocated
    <3>3. CASE pc \in {"handle", "call", "step"}
      BY <3>1, <3>3 DEF WorkerTouches, Allocated, Places, Linked, Taking, Removing
    <3>4. CASE pc = "pop"
      BY <3>1, <3>4 DEF WorkerTouches, Allocated, Chain, Taking, Removing
    <3>5. CASE pc = "free"
      BY <3>1, <3>5 DEF WorkerTouches, Allocated, Places, Linked, Taking, Removing
    <3>6. CASE pc \in {"test", "ended"}
      BY <3>6 DEF WorkerTouches
    <3> QED BY <3>2, <3>3, <3>4, <3>5, <3>6 DEF TypeOK
  <2> QED BY <2>1, <2>2 DEF NoDangling
<1> QED BY <1>1, Invariance, PTL

(* The worker writes to a bundle that exists and has been handed to it     *)
(* only, and hands it back with the objects of the last request, also when *)
(* it has met the caller.                                                  *)
THEOREM BundleOwned == Spec => []Owned
<1>1. IInv => Owned
  BY DEF IInv, Owned, Places, Told, Linked, Loading
<1> QED BY <1>1, Invariance, PTL
=============================================================================
