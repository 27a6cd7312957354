----------------------------- MODULE EventQueue -----------------------------
(***************************************************************************)
(* The queue in which the engine leaves events for the GUI (EventQueue).   *)
(* It is a ring with two counters and neither a mutex nor atomic accesses, *)
(* so every access to shared memory is a step here, and the threads of the *)
(* audio driver, of MIDI and of the GUI push at the same time.  What       *)
(* push_event() has to store once it has read the counter, the new counter *)
(* and the two fields of the slot, is stored in any order: nothing orders  *)
(* the stores.                                                             *)
(***************************************************************************)
EXTENDS Integers

CONSTANTS
  Max,      \* MAX_EVENTS, 1024 in the engine
  Writers,  \* the threads that push events
  Pushes,   \* how many events a writer pushes: bounds the model
  Pops      \* how many events the GUI pops: bounds the model

ASSUME RingAssumption   == Max \in Nat \ {0}
ASSUME PushesAssumption == Pushes \in Nat /\ Pops \in Nat

Slots  == 0..(Max - 1)
Fields == {"type", "value"}
None   == <<"none", 0>>                   \* what the constructor fills slots with
Pushed == Writers \X (1..Pushes)          \* <<w, n>>: the nth event of writer w

VARIABLES
  slot,         \* __events_buffer
  write, read,  \* __write_index, __read_index
  nth, todo,    \* of a writer: how many events it has begun to push, which
                \* stores are left to do for the last one
  num,          \* the nIndex of each event
  got, toRead,  \* of the GUI: the event it pops, the fields left to read
  back,         \* history: a store has taken the counter of events back
  spoiled       \* history: the events whose slot another one has got as well

vars == <<slot, write, read, nth, todo, num, got, toRead, back, spoiled>>

Init ==
  /\ slot = [s \in Slots |-> [f \in Fields |-> None]]
  /\ write = 0 /\ read = 0
  /\ nth = [w \in Writers |-> 0]
  /\ todo = [w \in Writers |-> {}]
  /\ num = [e \in Pushed |-> 0]
  /\ got = [f \in Fields |-> None] /\ toRead = {}
  /\ back = FALSE /\ spoiled = {}

-----------------------------------------------------------------------------
(* push_event()                                                            *)

Advance(i) == i + 1

IndexShort(i) == i % (Max - 1)                  \* mutant: one slot unused
Index(i)      == i % Max

Current(w) == <<w, nth[w]>>                     \* the event w is pushing
Begun      == {e \in Pushed : e[2] <= nth[e[1]]}
Filling    == {e \in Begun : e = Current(e[1]) /\ todo[e[1]] \cap Fields # {}}

SameSlot(i, j) == i % Max = j % Max

(* An event that begins takes its slot from those that have it; it has the  *)
(* slot to itself unless one of them is still being stored there.          *)
Push(w) ==
  /\ todo[w] = {} /\ nth[w] < Pushes
  /\ LET e       == <<w, nth[w] + 1>>
         sharing == {q \in Begun : SameSlot(num[q], Advance(write))}
     IN  /\ num' = [num EXCEPT ![e] = Advance(write)]
         /\ spoiled' = spoiled \cup sharing
                         \cup (IF sharing \cap Filling # {} THEN {e} ELSE {})
  /\ nth' = [nth EXCEPT ![w] = @ + 1]
  /\ todo' = [todo EXCEPT ![w] = {"index"} \cup Fields]
  /\ UNCHANGED <<slot, write, read, got, toRead, back>>

Publish(w) ==
  /\ "index" \in todo[w]
  /\ write' = num[Current(w)]
  /\ back' = (back \/ num[Current(w)] < write)
  /\ todo' = [todo EXCEPT ![w] = @ \ {"index"}]
  /\ UNCHANGED <<slot, read, nth, num, got, toRead, spoiled>>

Fill(w, f) ==
  /\ f \in todo[w]
  /\ slot' = [slot EXCEPT ![Index(num[Current(w)])][f] = Current(w)]
  /\ todo' = [todo EXCEPT ![w] = @ \ {f}]
  /\ UNCHANGED <<write, read, nth, num, got, toRead, back, spoiled>>

-----------------------------------------------------------------------------
(* pop_event(), which the timer of the GUI calls as long as there is       *)
(* anything to pop.                                                        *)

AnythingYet  == TRUE                            \* mutant: no emptiness test
AnythingMore == read + 1 < write                \* mutant: keeps the last one
Anything     == read # write

Pop ==
  /\ toRead = {} /\ Anything
  /\ read < Pops
  /\ read' = Advance(read)
  /\ toRead' = Fields
  /\ UNCHANGED <<slot, write, nth, todo, num, got, back, spoiled>>

Take(f) ==
  /\ f \in toRead
  /\ got' = [got EXCEPT ![f] = slot[Index(read)][f]]
  /\ toRead' = toRead \ {f}
  /\ UNCHANGED <<slot, write, read, nth, todo, num, back, spoiled>>

-----------------------------------------------------------------------------
Store(w) == Publish(w) \/ \E f \in Fields : Fill(w, f)
Timer    == Pop \/ \E f \in Fields : Take(f)

Next == Timer \/ \E w \in Writers : Push(w) \/ Store(w)

Spec == Init /\ [][Next]_vars

(* The timer of the GUI goes off for ever, and a thread that has begun to  *)
(* push an event goes on; nobody has to push one.                          *)
FairSpec == /\ Spec
            /\ WF_vars(Timer)
            /\ \A w \in Writers : WF_vars(Store(w))

-----------------------------------------------------------------------------
(* Properties.                                                             *)

(* The variables have their types.                                         *)
TypeOK ==
  /\ slot \in [Slots -> [Fields -> Pushed \cup {None}]]
  /\ write \in Nat /\ read \in Nat
  /\ nth \in [Writers -> 0..Pushes]
  /\ todo \in [Writers -> SUBSET ({"index"} \cup Fields)]
  /\ num \in [Pushed -> Nat]
  /\ got \in [Fields -> Pushed \cup {None}]
  /\ toRead \in SUBSET Fields
  /\ back \in BOOLEAN /\ spoiled \in SUBSET Pushed

(* The GUI overtakes the writers in one case only: a writer that has read   *)
(* the counter stores it after others have counted further, and takes it   *)
(* back.  From then on the test for an empty queue is passed for as long   *)
(* as the counters take to wrap around, and the GUI receives the old       *)
(* contents of the ring over and over.                                     *)
NeverAhead == back \/ read <= write

(* Field f of event e has been stored, and its slot has not been given to   *)
(* another event since, nor was another still being stored there.          *)
Settled(e, f) ==
  /\ e \in Begun \ spoiled
  /\ e = Current(e[1]) => f \notin todo[e[1]]

(* Whenever the GUI reads a slot whose event is settled, it reads the event *)
(* the counter it holds stands for, however many threads push at a time:   *)
(* an event is missed or mixed with another one only if both got the same  *)
(* slot, by a lost increment or by a lap.                                  *)
Genuine ==
  [][ \A e \in Pushed, f \in Fields :
        f \in toRead /\ f \notin toRead' /\ num[e] = read /\ Settled(e, f)
        => got'[f] = e ]_vars

(* The GUI gets as far as the counter the engine has published, unless the  *)
(* counter is taken back.                                                  *)
CatchesUp == \A i \in 1..Pops : write >= i ~> read >= i \/ back
=============================================================================
