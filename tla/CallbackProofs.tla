--------------------------- MODULE CallbackProofs ---------------------------
(***************************************************************************)
(* Where a thread that is not the engine's calls in.                       *)
(*                                                                         *)
(* The timer of the GUI (EventQueue): what the event queue guarantees, for *)
(* every size of the ring, however many threads push events and in         *)
(* whatever order their stores come.                                       *)
(*                                                                         *)
(* The callbacks of JACK (Jack), at the end: the client that the engine's  *)
(* drivers share.                                                          *)
(***************************************************************************)
EXTENDS EventQueue, Jack, TLAPS

(* Of two events in one slot, the one that another is still being stored    *)
(* over is spoiled.                                                        *)
Sharing ==
  \A e \in Begun, q \in Filling :
    e # q /\ SameSlot(num[e], num[q]) => e \in spoiled

(* A slot whose event is settled holds that event.                         *)
Stored ==
  \A e \in Pushed, f \in Fields : Settled(e, f) => slot[Index(num[e])][f] = e

(* A writer that has stores left to do is pushing an event.                *)
Pushing == \A w \in Writers : todo[w] # {} => nth[w] >= 1

IInv == TypeOK /\ NeverAhead /\ Pushing /\ Sharing /\ Stored

-----------------------------------------------------------------------------

(* A remainder is a slot.                                                  *)
LEMMA IndexType == \A i \in Nat : Index(i) \in Slots
BY RingAssumption DEF Index, Slots

(* Events are pairs of a writer and a number.                              *)
LEMMA PushedIs ==
  /\ \A e \in Pushed : e[1] \in Writers /\ e[2] \in 1..Pushes /\ e = <<e[1], e[2]>>
  /\ \A w \in Writers, n \in 1..Pushes :
       <<w, n>> \in Pushed /\ <<w, n>>[1] = w /\ <<w, n>>[2] = n
BY DEF Pushed

(* The event a writer is pushing.                                          *)
LEMMA CurrentType ==
  ASSUME TypeOK, Pushing, NEW w \in Writers, todo[w] # {}
  PROVE  /\ Current(w) \in Pushed /\ Current(w) \in Begun
         /\ Current(w)[1] = w /\ Current(w)[2] = nth[w]
         /\ num[Current(w)] \in Nat /\ Index(num[Current(w)]) \in Slots
<1>1. nth[w] \in 1..Pushes
  BY PushesAssumption DEF TypeOK, Pushing
<1>2. Current(w) \in Pushed /\ Current(w)[1] = w /\ Current(w)[2] = nth[w]
  BY <1>1, PushedIs DEF Current
<1>3. Current(w) \in Begun
  BY <1>1, <1>2 DEF Begun
<1>4. num[Current(w)] \in Nat
  BY <1>2 DEF TypeOK
<1> QED BY <1>2, <1>3, <1>4, IndexType

-----------------------------------------------------------------------------

LEMMA InitIInv == Init => IInv
<1> SUFFICES ASSUME Init PROVE IInv
  OBVIOUS
<1>1. TypeOK
  <2>1. num \in [Pushed -> Nat]
    BY DEF Init
  <2>2. slot \in [Slots -> [Fields -> Pushed \cup {None}]]
    BY DEF Init
  <2>3. nth \in [Writers -> 0..Pushes] /\ todo \in [Writers -> SUBSET ({"index"} \cup Fields)]
    BY PushesAssumption DEF Init
  <2> QED BY <2>1, <2>2, <2>3 DEF Init, TypeOK
<1>2. NeverAhead /\ Pushing
  BY DEF Init, NeverAhead, Pushing
<1>3. Begun = {}
  BY PushedIs, PushesAssumption DEF Init, Begun
<1>4. Sharing /\ Stored
  BY <1>3 DEF Sharing, Stored, Settled
<1> QED BY <1>1, <1>2, <1>4 DEF IInv

(* An event that begins spoils those it shares its slot with, and is        *)
(* spoiled itself by those that are not through; it settles nothing.       *)
LEMMA PushInv ==
  ASSUME IInv, NEW w \in Writers, Push(w)
  PROVE  IInv'
<1> DEFINE new     == <<w, nth[w] + 1>>
           sharing == {q \in Begun : SameSlot(num[q], write + 1)}
<1>1. nth[w] + 1 \in 1..Pushes /\ nth[w] \in 0..Pushes
  BY PushesAssumption DEF IInv, TypeOK, Push
<1>2. new \in Pushed /\ new[1] = w /\ new[2] = nth[w] + 1 /\ new \notin Begun
  BY <1>1, PushedIs DEF Begun
<1>3. /\ num' = [num EXCEPT ![new] = write + 1] /\ write + 1 \in Nat
      /\ spoiled' = spoiled \cup sharing
                     \cup (IF sharing \cap Filling # {} THEN {new} ELSE {})
      /\ nth' = [nth EXCEPT ![w] = nth[w] + 1] /\ todo[w] = {}
      /\ todo' = [todo EXCEPT ![w] = {"index"} \cup Fields]
      /\ UNCHANGED <<slot, write, read, got, toRead, back>>
  BY DEF Push, Advance, IInv, TypeOK
<1>4. TypeOK'
  <2>1. nth' \in [Writers -> 0..Pushes]
    BY <1>1, <1>3 DEF IInv, TypeOK
  <2>2. spoiled' \in SUBSET Pushed
    BY <1>2, <1>3 DEF IInv, TypeOK, Begun
  <2>3. num' \in [Pushed -> Nat]
    BY <1>2, <1>3 DEF IInv, TypeOK
  <2>4. todo' \in [Writers -> SUBSET ({"index"} \cup Fields)]
    BY <1>3 DEF IInv, TypeOK
  <2> QED BY <1>3, <2>1, <2>2, <2>3, <2>4 DEF IInv, TypeOK
<1>5. NeverAhead'
  BY <1>3 DEF IInv, NeverAhead
<1>6. Pushing'
  BY <1>1, <1>3 DEF IInv, TypeOK, Pushing
<1>7. Begun' = Begun \cup {new} /\ (\A e \in Begun : num'[e] = num[e]) /\ num'[new] = write + 1
  <2>1. \A e \in Pushed : e[2] <= nth'[e[1]] <=> e[2] <= nth[e[1]] \/ e = new
    <3> SUFFICES ASSUME NEW e \in Pushed
                 PROVE  e[2] <= nth'[e[1]] <=> e[2] <= nth[e[1]] \/ e = new
      OBVIOUS
    <3>1. CASE e[1] = w
      <4>1. nth'[e[1]] = nth[w] + 1 /\ e[2] \in Nat /\ nth[w] \in Nat
        BY <1>1, <1>3, <3>1, PushedIs DEF IInv, TypeOK
      <4>2. e = new <=> e[2] = nth[w] + 1
        BY <1>2, <3>1, PushedIs
      <4> HIDE DEF new
      <4> QED BY <3>1, <4>1, <4>2
    <3>2. CASE e[1] # w
      BY <1>2, <1>3, <3>2, PushedIs DEF IInv, TypeOK
    <3> QED BY <3>1, <3>2
  <2> QED BY <1>2, <1>3, <2>1 DEF Begun, IInv, TypeOK
<1>8. \A e \in Filling' : e = new \/ (e \in Filling /\ e[1] # w)
  <2> SUFFICES ASSUME NEW e \in Filling', e # new PROVE e \in Filling /\ e[1] # w
    OBVIOUS
  <2>1. e \in Begun /\ e = <<e[1], nth'[e[1]]>> /\ todo'[e[1]] \cap Fields # {} /\ e[1] \in Writers
    BY <1>7, PushedIs DEF Filling, Current, Begun
  <2>2. e[1] # w
    BY <1>3, <2>1 DEF IInv, TypeOK
  <2> QED BY <1>3, <2>1, <2>2 DEF Filling, Current, IInv, TypeOK
<1>9. Sharing'
  <2> SUFFICES ASSUME NEW e \in Begun', NEW q \in Filling', e # q,
                      SameSlot(num'[e], num'[q])
               PROVE  e \in spoiled'
    BY DEF Sharing, SameSlot
  <2>1. CASE q = new
    <3>1. e \in Begun /\ num'[e] = num[e] /\ num'[q] = write + 1
      BY <1>7, <2>1
    <3> QED BY <1>3, <3>1
  <2>2. CASE q # new
    <3>1. q \in Filling /\ q \in Begun
      BY <1>8, <2>2 DEF Filling
    <3>2. CASE e = new
      <4>1. SameSlot(num[q], write + 1)
        BY <1>7, <3>1, <3>2 DEF SameSlot
      <4>2. q \in sharing \cap Filling
        BY <3>1, <4>1
      <4> QED BY <1>3, <3>2, <4>2
    <3>3. CASE e # new
      <4>1. e \in Begun /\ SameSlot(num[e], num[q])
        BY <1>7, <3>1, <3>3
      <4> QED BY <1>3, <3>1, <4>1 DEF IInv, Sharing
    <3> QED BY <3>2, <3>3
  <2> QED BY <2>1, <2>2
<1>10. Stored'
  <2> SUFFICES ASSUME NEW e \in Pushed, NEW f \in Fields, Settled(e, f)'
               PROVE  slot'[Index(num'[e])][f] = e
    BY DEF Stored, Index
  <2>1. e # new
    <3> SUFFICES ASSUME e = new PROVE FALSE
      OBVIOUS
    <3>1. e = Current(e[1])' /\ todo'[e[1]] = {"index"} \cup Fields
      BY <1>2, <1>3 DEF Current, IInv, TypeOK
    <3> QED BY <3>1 DEF Settled
  <2>2. e \in Begun /\ e \notin spoiled /\ num'[e] = num[e]
    BY <1>3, <1>7, <2>1 DEF Settled
  <2>3. e = Current(e[1]) => f \notin todo[e[1]]
    <3>1. CASE e[1] = w
      BY <1>3, <3>1
    <3>2. CASE e[1] # w
      BY <1>3, <3>2, PushedIs DEF Settled, Current, IInv, TypeOK
    <3> QED BY <3>1, <3>2
  <2> QED BY <1>3, <2>2, <2>3 DEF IInv, Stored, Settled
<1> QED BY <1>4, <1>5, <1>6, <1>9, <1>10 DEF IInv

(* A counter that is stored at or above the old one leaves the reader       *)
(* behind; one below it is recorded.                                       *)
LEMMA PublishInv ==
  ASSUME IInv, NEW w \in Writers, Publish(w)
  PROVE  IInv'
<1> USE DEF IInv
<1>1. /\ write' = num[Current(w)] /\ num[Current(w)] \in Nat
      /\ back' = (back \/ num[Current(w)] < write)
      /\ todo' = [todo EXCEPT ![w] = todo[w] \ {"index"}]
      /\ UNCHANGED <<slot, read, nth, num, got, toRead, spoiled>>
  BY CurrentType DEF Publish
<1>2. TypeOK'
  <2>1. todo' \in [Writers -> SUBSET ({"index"} \cup Fields)]
    BY <1>1 DEF TypeOK
  <2>2. back' \in BOOLEAN
    BY <1>1
  <2> QED BY <1>1, <2>1, <2>2 DEF TypeOK
<1>3. NeverAhead'
  <2>1. PICK n \in Nat : n = num[Current(w)]
    BY <1>1
  <2>2. write' = n /\ read' = read /\ write \in Nat /\ read \in Nat
    BY <1>1, <2>1 DEF TypeOK
  <2>3. CASE back \/ n < write
    BY <1>1, <2>1, <2>3, Zenon DEF NeverAhead
  <2>4. CASE ~back /\ ~(n < write)
    <3>1. read <= n
      BY <2>2, <2>4 DEF NeverAhead
    <3> QED BY <2>2, <3>1 DEF NeverAhead
  <2> QED BY <2>3, <2>4
<1>4. Pushing' /\ Begun' = Begun
  BY <1>1 DEF TypeOK, Pushing, Begun
<1>5. \A v \in Writers : todo'[v] \cap Fields = todo[v] \cap Fields /\ Current(v)' = Current(v)
  BY <1>1 DEF TypeOK, Fields, Current
<1>6. Filling' \subseteq Filling
  BY <1>4, <1>5, PushedIs DEF Filling, Begun
<1>7. Sharing'
  BY <1>1, <1>4, <1>6 DEF Sharing, SameSlot
<1>8. Stored'
  <2> SUFFICES ASSUME NEW e \in Pushed, NEW f \in Fields, Settled(e, f)'
               PROVE  slot'[Index(num'[e])][f] = e
    BY DEF Stored, Index
  <2>1. e[1] \in Writers
    BY PushedIs
  <2>2. Settled(e, f)
    BY <1>1, <1>4, <1>5, <2>1 DEF Settled
  <2> QED BY <1>1, <2>2 DEF Stored
<1> QED BY <1>2, <1>3, <1>4, <1>7, <1>8

(* Filling a slot disturbs no settled event: one that has the slot as well  *)
(* is spoiled.                                                             *)
LEMMA FillInv ==
  ASSUME IInv, NEW w \in Writers, NEW g \in Fields, Fill(w, g)
  PROVE  IInv'
<1> DEFINE q == Current(w)
<1>1. /\ q \in Pushed /\ q \in Filling /\ q[1] = w /\ Index(num[q]) \in Slots
      /\ q \in Begun
  BY CurrentType DEF Fill, Filling, IInv
<1>2. /\ slot' = [slot EXCEPT ![Index(num[q])][g] = q]
      /\ todo' = [todo EXCEPT ![w] = todo[w] \ {g}]
      /\ UNCHANGED <<write, read, nth, num, got, toRead, back, spoiled>>
  BY DEF Fill
<1> HIDE DEF q
<1>3. TypeOK'
  <2>1. slot' \in [Slots -> [Fields -> Pushed \cup {None}]]
    BY <1>1, <1>2 DEF IInv, TypeOK
  <2>2. todo' \in [Writers -> SUBSET ({"index"} \cup Fields)]
    BY <1>2 DEF IInv, TypeOK
  <2> QED BY <1>2, <2>1, <2>2 DEF IInv, TypeOK
<1>4. NeverAhead' /\ Pushing' /\ Begun' = Begun
  BY <1>2 DEF IInv, TypeOK, NeverAhead, Pushing, Begun
<1>5. \A v \in Writers : todo'[v] \subseteq todo[v] /\ Current(v)' = Current(v)
  BY <1>2 DEF IInv, TypeOK, Current
<1>6. Filling' \subseteq Filling
  BY <1>4, <1>5, PushedIs DEF Filling, Begun
<1>7. Sharing'
  BY <1>2, <1>4, <1>6 DEF IInv, Sharing, SameSlot
<1>8. Stored'
  <2> SUFFICES ASSUME NEW e \in Pushed, NEW f \in Fields, Settled(e, f)'
               PROVE  slot'[Index(num[e])][f] = e
    BY <1>2 DEF Stored, Index
  <2>1. e \in Begun \ spoiled /\ num[e] \in Nat /\ e[1] \in Writers
    BY <1>2, <1>4, PushedIs DEF Settled, IInv, TypeOK
  <2>2. CASE e = q /\ f = g
    BY <1>1, <1>2, <2>2 DEF IInv, TypeOK
  <2>3. CASE e = q /\ f # g
    <3>1. Settled(e, f)
      BY <1>1, <1>2, <1>5, <2>1, <2>3 DEF Settled, IInv, TypeOK
    <3>2. slot'[Index(num[e])][f] = slot[Index(num[e])][f]
      BY <1>1, <1>2, <2>3 DEF IInv, TypeOK
    <3> QED BY <3>1, <3>2 DEF IInv, Stored
  <2>4. CASE e # q
    <3>1. Index(num[e]) # Index(num[q])
      BY <1>1, <2>1, <2>4 DEF IInv, Sharing, SameSlot, Index
    <3>2. e[1] = w => e # Current(w)
      BY <2>4 DEF q
    <3>3. Settled(e, f)
      <4>1. CASE e[1] = w
        BY <2>1, <3>2, <4>1 DEF Settled
      <4>2. CASE e[1] # w
        BY <1>2, <1>5, <2>1, <4>2 DEF Settled, IInv, TypeOK
      <4> QED BY <4>1, <4>2
    <3>4. slot'[Index(num[e])] = slot[Index(num[e])]
      BY <1>1, <1>2, <2>1, <3>1, IndexType DEF IInv, TypeOK
    <3> QED BY <3>3, <3>4 DEF IInv, Stored
  <2> QED BY <2>2, <2>3, <2>4
<1> QED BY <1>3, <1>4, <1>7, <1>8 DEF IInv

(* What the reader does touches no slot.                                    *)
LEMMA ReaderInv ==
  ASSUME IInv, UNCHANGED <<slot, write, nth, todo, num, back, spoiled>>
  PROVE  Pushing' /\ Sharing' /\ Stored'
<1>1. Begun' = Begun /\ Filling' = Filling
  BY DEF Begun, Filling, Current
<1> QED BY <1>1 DEF IInv, Pushing, Sharing, SameSlot, Stored, Settled, Current, Index

LEMMA PopInv ==
  ASSUME IInv, Pop
  PROVE  IInv'
<1>1. /\ read # write /\ read' = read + 1 /\ toRead' = Fields
      /\ UNCHANGED <<slot, write, nth, todo, num, got, back, spoiled>>
  BY DEF Pop, Advance, Anything
<1>2. TypeOK'
  BY <1>1 DEF IInv, TypeOK
<1>3. NeverAhead'
  <2>1. CASE back
    BY <1>1, <2>1 DEF NeverAhead
  <2>2. CASE ~back
    BY <1>1, <2>2 DEF IInv, TypeOK, NeverAhead
  <2> QED BY <2>1, <2>2
<1> QED BY <1>1, <1>2, <1>3, ReaderInv DEF IInv

LEMMA TakeInv ==
  ASSUME IInv, NEW f \in Fields, Take(f)
  PROVE  IInv'
<1>1. /\ got' = [got EXCEPT ![f] = slot[Index(read)][f]]
      /\ toRead' = toRead \ {f}
      /\ UNCHANGED <<slot, write, read, nth, todo, num, back, spoiled>>
  BY DEF Take
<1>2. TypeOK'
  <2>1. Index(read) \in Slots
    BY IndexType DEF IInv, TypeOK
  <2> QED BY <1>1, <2>1 DEF IInv, TypeOK
<1>3. NeverAhead'
  BY <1>1 DEF IInv, NeverAhead
<1> QED BY <1>1, <1>2, <1>3, ReaderInv DEF IInv

LEMMA NextInv ==
  ASSUME IInv, [Next]_vars
  PROVE  IInv'
<1>1. ASSUME NEW w \in Writers, Push(w) PROVE IInv'
  BY <1>1, PushInv
<1>2. ASSUME NEW w \in Writers, Publish(w) PROVE IInv'
  BY <1>2, PublishInv
<1>3. ASSUME NEW w \in Writers, NEW f \in Fields, Fill(w, f) PROVE IInv'
  BY <1>3, FillInv
<1>4. CASE Pop
  BY <1>4, PopInv
<1>5. ASSUME NEW f \in Fields, Take(f) PROVE IInv'
  BY <1>5, TakeInv
<1>6. CASE UNCHANGED vars
  <2>1. TypeOK' /\ NeverAhead'
    BY <1>6 DEF vars, IInv, TypeOK, NeverAhead
  <2> QED BY <1>6, <2>1, ReaderInv DEF vars, IInv
<1> QED BY <1>1, <1>2, <1>3, <1>4, <1>5, <1>6 DEF Next, Timer, Store

(* The inductive invariant holds for ever.                                 *)
THEOREM Invariance == Spec => []IInv
<1>1. Init => IInv
  BY InitIInv
<1>2. IInv /\ [Next]_vars => IInv'
  BY NextInv
<1> QED BY <1>1, <1>2, PTL DEF Spec

(* The memory of the queue is well-typed, however many threads push.       *)
THEOREM TypeCorrect == Spec => []TypeOK
<1>1. IInv => TypeOK
  BY DEF IInv
<1> QED BY <1>1, Invariance, PTL

(* However many threads push, the GUI overtakes them only after one of them *)
(* has taken the counter back.                                             *)
THEOREM ReaderBehind == Spec => []NeverAhead
<1>1. IInv => NeverAhead
  BY DEF IInv
<1> QED BY <1>1, Invariance, PTL

(* However many threads push, the GUI reads in each settled slot the event  *)
(* that its counter stands for.                                            *)
THEOREM ReadsGenuine == Spec => Genuine
<1> DEFINE Right == \A e \in Pushed, f \in Fields :
                      f \in toRead /\ f \notin toRead' /\ num[e] = read /\ Settled(e, f)
                      => got'[f] = e
<1>1. ASSUME IInv, [Next]_vars PROVE [Right]_vars
  <2> SUFFICES ASSUME NEW e \in Pushed, NEW f \in Fields, Next,
                      f \in toRead, f \notin toRead', num[e] = read, Settled(e, f)
               PROVE  got'[f] = e
    BY <1>1
  <2>1. Take(f)
    BY DEF Next, Timer, Store, Pop, Take, Push, Publish, Fill
  <2>2. slot[Index(read)][f] = e
    BY <1>1 DEF IInv, Stored
  <2> QED BY <1>1, <2>1, <2>2 DEF Take, IInv, TypeOK
<1>2. [][IInv /\ [Next]_vars => [Right]_vars]_vars
  BY <1>1, PTL
<1> QED BY <1>1, Invariance, PTL DEF Spec, Genuine
-----------------------------------------------------------------------------
(* The client of JACK that the engine's drivers share, for every choice of *)
(* failures and of addresses.                                              *)

(* clearAudioProcessCallback(), field by field: the output has no callback *)
(* any more, and none runs until the client is activated again.            *)
LEMMA ClearedIs ==
  ASSUME NEW c \in Clients
  PROVE  /\ Cleared(c) \in Clients
         /\ Cleared(c).open = c.open /\ Cleared(c).alive = c.alive
         /\ Cleared(c).active = (c.active /\ ~c.audio)
         /\ Cleared(c).audio = FALSE
         /\ Cleared(c).callback = c.callback
         /\ Cleared(c).children = c.children
<1>1. CASE c.audio
  BY <1>1 DEF Cleared, Clients
<1>2. CASE ~c.audio
  BY <1>2 DEF Cleared, Clients
<1> QED BY <1>1, <1>2

(* unsubscribe(), field by field: the last to leave closes the client.     *)
LEMMA UnsubscribedIs ==
  ASSUME NEW c \in Clients, NEW child
  PROVE  LET left == c.children \ {child}
             last == c.children # {} /\ left = {}
             d    == Unsubscribed(c, child)
         IN  /\ d \in Clients
             /\ d.children = left
             /\ d.open = (c.open /\ ~last)
             /\ d.alive = (c.alive /\ ~last)
             /\ d.active = (c.active /\ ~last)
             /\ d.callback = c.callback /\ d.audio = c.audio
<1> USE DEF Unsubscribed, Closed, Clients
<1>1. CASE c.children # {} /\ c.children \ {child} = {}
  BY <1>1
<1>2. CASE ~(c.children # {} /\ c.children \ {child} = {})
  BY <1>2
<1> QED BY <1>1, <1>2

(* setNonAudioProcessCallback(), field by field: a client that is open and *)
(* has no output has no callback any more.                                 *)
LEMMA NonAudioSetIs ==
  ASSUME NEW c \in Clients
  PROVE  LET d == NonAudioSet(c)
         IN  /\ d \in Clients
             /\ d.open = c.open /\ d.alive = c.alive
             /\ d.active = (c.active /\ ~c.open)
             /\ d.audio = c.audio
             /\ d.callback = (IF c.open /\ ~c.audio THEN "none" ELSE c.callback)
             /\ d.children = c.children
<1> USE DEF NonAudioSet, Clients
<1>1. CASE ~c.open
  BY <1>1
<1>2. CASE c.open /\ c.audio
  BY <1>2
<1>3. CASE c.open /\ ~c.audio
  BY <1>3
<1> QED BY <1>1, <1>2, <1>3

(* setAudioProcessCallback(), field by field.                              *)
LEMMA AudioSetIs ==
  ASSUME NEW c \in Clients
  PROVE  LET d == AudioSet(c)
         IN  /\ d \in Clients
             /\ d.open = c.open /\ d.alive = c.alive
             /\ d.active = (c.active /\ ~c.open)
             /\ c.open => d.audio
             /\ d.children = c.children
<1>1. CASE c.open
  BY <1>1 DEF AudioSet, Clients
<1>2. CASE ~c.open
  BY <1>2 DEF AudioSet, Clients
<1> QED BY <1>1, <1>2

(* open(), field by field: a client that is open stays as it is.           *)
LEMMA OpenedIs ==
  ASSUME NEW c \in Clients, NEW d \in Opened(c)
  PROVE  /\ d \in Clients
         /\ d = c \/ (~c.open /\ d.open /\ d.alive /\ d.callback = "none")
         /\ d.active = c.active /\ d.audio = c.audio /\ d.audioArg = c.audioArg
         /\ d.children = c.children
BY DEF Opened, Clients

(* disconnect(), field by field.                                           *)
LEMMA DisconnectIs ==
  ASSUME client \in Clients, Disconnect(client)
  PROVE  LET left == client.children \ {outAt}
             last == client.children # {} /\ left = {}
         IN  /\ client' \in Clients
             /\ client'.children = left
             /\ client'.open = (client.open /\ ~last)
             /\ client'.alive = (client.alive /\ ~last)
             /\ client'.active = (client.active /\ ~client.audio /\ ~last)
             /\ ~client'.audio
             /\ client'.callback = client.callback
             /\ outs' = IF outs = "there" THEN "gone" ELSE outs
             /\ twice' = (client.alive /\ outs = "gone")
<1>1. PICK d : d = Cleared(client)
  OBVIOUS
<1>2. /\ d \in Clients /\ d.open = client.open /\ d.alive = client.alive
      /\ d.active = (client.active /\ ~client.audio) /\ d.audio = FALSE
      /\ d.callback = client.callback /\ d.children = client.children
  BY <1>1, ClearedIs
<1>3. client' = Unsubscribed(d, outAt)
  BY <1>1 DEF Disconnect
<1>4. PICK e : e = Unsubscribed(d, outAt)
  OBVIOUS
<1>5. LET left == d.children \ {outAt}
          last == d.children # {} /\ left = {}
      IN  /\ e \in Clients /\ e.children = left
          /\ e.open = (d.open /\ ~last) /\ e.alive = (d.alive /\ ~last)
          /\ e.active = (d.active /\ ~last)
          /\ e.callback = d.callback /\ e.audio = d.audio
  BY <1>2, <1>4, UnsubscribedIs
<1>6. client' = e
  BY <1>3, <1>4
<1>7. /\ outs' = IF outs = "there" THEN "gone" ELSE outs
      /\ twice' = (client.alive /\ outs = "gone")
  BY DEF Disconnect
<1> QED BY <1>2, <1>5, <1>6, <1>7

(* The output is created and the client opened, or not.                    *)
LEMMA ClientStart ==
  ASSUME JackInv, Start
  PROVE  JackInv'
<1> USE AddressesAssumption DEF JackInv, JackTypeOK, Serving, Leaving, output, input
<1>1. /\ pc = "start" /\ pc' = "init" /\ cycle # "render"
      /\ driver' = "jack" /\ outs' = "none" /\ outAt' \in Addresses \ {midiAt}
      /\ UNCHANGED <<twice, midi, midiAt, ready, cycle>>
  BY DEF Start
<1>2. /\ client' \in Clients
      /\ client' = client \/ (client'.open /\ client'.alive /\ client'.callback = "none")
      /\ client'.active = client.active /\ client'.audio = client.audio
      /\ client'.children = client.children
  BY OpenedIs DEF Start
<1>3. outAt' # 0 /\ outAt' # midiAt
  BY <1>1
<1>4. JackTypeOK'
  BY <1>1, <1>2, <1>3 DEF Clients
<1>5. ClientFits'
  BY <1>1, <1>2, <1>3 DEF ClientFits, OutputFits, MidiFits
<1>6. OutputFits'
  BY <1>1, <1>2, <1>3 DEF ClientFits, OutputFits, MidiFits
<1>7. MidiFits'
  BY <1>1, <1>2, <1>3 DEF ClientFits, OutputFits, MidiFits
<1> QED BY <1>4, <1>5, <1>6, <1>7

(* The output registers its ports and its callback.                        *)
LEMMA ClientInitOutput ==
  ASSUME JackInv, InitOutput
  PROVE  JackInv'
<1> USE AddressesAssumption DEF JackInv, JackTypeOK, Serving, Leaving, output, input
<1>1. /\ pc = "init" /\ cycle = "idle"
      /\ \/ client.alive /\ outs' = "there" /\ pc' = "midi"
         \/ outs' = outs /\ pc' = "failed"
      /\ UNCHANGED <<driver, outAt, twice, midi, midiAt, ready, cycle>>
  BY DEF InitOutput, CycleOver
<1>2. /\ client' \in Clients
      /\ client'.open = client.open /\ client'.alive = client.alive
      /\ client'.active = (client.active /\ ~client.open)
      /\ client.open => client'.audio
      /\ client'.children = client.children
  BY AudioSetIs DEF InitOutput
<1>3. JackTypeOK'
  BY <1>1, <1>2 DEF Clients
<1>4. ClientFits'
  BY <1>1, <1>2 DEF ClientFits, OutputFits, MidiFits
<1>5. OutputFits'
  BY <1>1, <1>2 DEF ClientFits, OutputFits, MidiFits
<1>6. MidiFits'
  BY <1>1, <1>2 DEF ClientFits, OutputFits, MidiFits
<1> QED BY <1>3, <1>4, <1>5, <1>6

(* The output failed and the null driver takes its place.                  *)
LEMMA ClientInitFailed ==
  ASSUME JackInv, InitFailed
  PROVE  JackInv'
<1> USE AddressesAssumption DEF JackInv, JackTypeOK, Serving, Leaving, output, input
<1>1. /\ pc = "failed" /\ pc' = "midi" /\ cycle = "idle"
      /\ driver' = "null" /\ outAt' = 0 /\ UNCHANGED <<midi, midiAt, ready, cycle>>
  BY DEF InitFailed, CycleOver
<1>2. /\ client' \in Clients
      /\ client'.children = client.children \ {outAt}
      /\ client'.open = (client.open /\ ~(client.children # {} /\ client.children \ {outAt} = {}))
      /\ client'.alive = (client.alive /\ ~(client.children # {} /\ client.children \ {outAt} = {}))
      /\ client'.active = (client.active /\ ~client.audio /\ ~(client.children # {} /\ client.children \ {outAt} = {}))
      /\ ~client'.audio /\ client'.callback = client.callback
      /\ outs' = IF outs = "there" THEN "gone" ELSE outs
      /\ twice' = (client.alive /\ outs = "gone")
  BY DisconnectIs DEF InitFailed
<1>3. JackTypeOK'
  BY <1>1, <1>2 DEF Clients
<1>4. ClientFits'
  BY <1>1, <1>2 DEF ClientFits, OutputFits, MidiFits
<1>5. OutputFits'
  BY <1>1, <1>2 DEF ClientFits, OutputFits, MidiFits
<1>6. MidiFits'
  BY <1>1, <1>2 DEF ClientFits, OutputFits, MidiFits
<1> QED BY <1>3, <1>4, <1>5, <1>6

(* The MIDI input subscribes, with a port or without.                      *)
LEMMA ClientOpenMidi ==
  ASSUME JackInv, OpenMidi
  PROVE  JackInv'
<1> USE AddressesAssumption DEF JackInv, JackTypeOK, Serving, Leaving, output, input
<1>1. pc = "midi" /\ cycle = "idle" /\ UNCHANGED <<driver, outAt, outs, twice, cycle>>
  BY DEF OpenMidi, CycleOver
<1>2. PICK c \in Opened(client), a \in Addresses \ {outAt} :
        IF c.audio \/ c.audioArg
        THEN /\ client' = Subscribed(NonAudioSet(c), a)
             /\ (c.alive /\ midi' = "port") \/ midi' = "noport"
             /\ midiAt' = a /\ ready' = TRUE /\ pc' = "activate"
        ELSE /\ client' = c /\ pc' = "aborted"
             /\ UNCHANGED <<midi, midiAt, ready>>
  BY DEF OpenMidi
<1>3. /\ c \in Clients
      /\ c = client \/ (~client.open /\ c.open /\ c.alive /\ c.callback = "none")
      /\ c.active = client.active /\ c.audio = client.audio /\ c.audioArg = client.audioArg
      /\ c.children = client.children
  BY OpenedIs
<1>4. a # 0 /\ a # outAt
  OBVIOUS
<1>5. CASE c.audio \/ c.audioArg
  <2>1. PICK d : d = NonAudioSet(c)
    OBVIOUS
  <2>2. /\ d \in Clients /\ d.open = c.open /\ d.alive = c.alive
        /\ d.active = (c.active /\ ~c.open) /\ d.audio = c.audio
        /\ d.callback = (IF c.open /\ ~c.audio THEN "none" ELSE c.callback)
        /\ d.children = c.children
    BY <1>3, <2>1, NonAudioSetIs
  <2>3. client' = [d EXCEPT !.children = @ \cup {a}]
    BY <1>2, <1>5, <2>1 DEF Subscribed
  <2>4. /\ client' \in Clients /\ client'.open = d.open /\ client'.alive = d.alive
        /\ client'.active = d.active /\ client'.audio = d.audio /\ client'.callback = d.callback
        /\ client'.children = d.children \cup {a}
    BY <2>2, <2>3 DEF Clients
  <2>5. /\ (c.alive /\ midi' = "port") \/ midi' = "noport"
        /\ midiAt' = a /\ ready' = TRUE /\ pc' = "activate"
    BY <1>2, <1>5
  <2>6. JackTypeOK'
    BY <1>1, <1>3, <1>4, <2>2, <2>4, <2>5 DEF Clients
  <2>7. ClientFits'
    BY <1>1, <1>3, <1>4, <2>2, <2>4, <2>5 DEF ClientFits, OutputFits, MidiFits
  <2>8. OutputFits'
    BY <1>1, <1>3, <1>4, <2>2, <2>4, <2>5 DEF ClientFits, OutputFits, MidiFits
  <2>9. MidiFits'
    BY <1>1, <1>3, <1>4, <2>2, <2>4, <2>5 DEF ClientFits, OutputFits, MidiFits
  <2> QED BY <2>6, <2>7, <2>8, <2>9
<1>6. CASE ~(c.audio \/ c.audioArg)
  <2>1. client' = c /\ pc' = "aborted" /\ UNCHANGED <<midi, midiAt, ready>>
    BY <1>2, <1>6
  <2>2. JackTypeOK'
    BY <1>1, <1>3, <1>6, <2>1 DEF Clients
  <2>3. ClientFits'
    BY <1>1, <1>3, <1>6, <2>1 DEF ClientFits, OutputFits, MidiFits
  <2>4. OutputFits'
    BY <1>1, <1>3, <1>6, <2>1 DEF ClientFits, OutputFits, MidiFits
  <2>5. MidiFits'
    BY <1>1, <1>3, <1>6, <2>1 DEF ClientFits, OutputFits, MidiFits
  <2> QED BY <2>2, <2>3, <2>4, <2>5
<1> QED BY <1>5, <1>6

(* Only a client that lives is activated.                                  *)
LEMMA ClientActivate ==
  ASSUME JackInv, Activate
  PROVE  JackInv'
<1> USE AddressesAssumption DEF JackInv, JackTypeOK, Serving, Leaving, output, input
<1>1. /\ pc = "activate" /\ pc' = "connect"
      /\ UNCHANGED <<driver, outAt, outs, twice, midi, midiAt, ready, cycle>>
  BY DEF Activate
<1>2. /\ client' \in Clients
      /\ client'.open = client.open /\ client'.alive = client.alive
      /\ client'.active = client.alive /\ client'.audio = client.audio
      /\ client'.callback = client.callback /\ client'.children = client.children
  BY DEF Activate, Clients
<1>3. JackTypeOK'
  BY <1>1, <1>2 DEF Clients
<1>4. ClientFits'
  BY <1>1, <1>2 DEF ClientFits, OutputFits, MidiFits
<1>5. OutputFits'
  BY <1>1, <1>2 DEF ClientFits, OutputFits, MidiFits
<1>6. MidiFits'
  BY <1>1, <1>2 DEF ClientFits, OutputFits, MidiFits
<1> QED BY <1>3, <1>4, <1>5, <1>6

(* The output subscribes.                                                  *)
LEMMA ClientConnect ==
  ASSUME JackInv, Connect
  PROVE  JackInv'
<1> USE AddressesAssumption DEF JackInv, JackTypeOK, Serving, Leaving, output, input
<1>1. /\ pc = "connect" /\ (pc' = "on" \/ (driver = "jack" /\ pc' = "replace"))
      /\ UNCHANGED <<driver, outAt, outs, twice, midi, midiAt, ready, cycle>>
  BY DEF Connect
<1>2. /\ client' \in Clients
      /\ client'.open = client.open /\ client'.alive = client.alive
      /\ client'.active = client.active /\ client'.audio = client.audio
      /\ client'.callback = client.callback
      /\ client'.children = client.children \cup (IF driver = "jack" THEN {outAt} ELSE {})
  BY DEF Connect, Subscribed, Clients, OutputFits
<1>3. JackTypeOK'
  BY <1>1, <1>2 DEF Clients
<1>4. ClientFits'
  BY <1>1, <1>2 DEF ClientFits, OutputFits, MidiFits
<1>5. OutputFits'
  BY <1>1, <1>2 DEF ClientFits, OutputFits, MidiFits
<1>6. MidiFits'
  BY <1>1, <1>2 DEF ClientFits, OutputFits, MidiFits
<1> QED BY <1>3, <1>4, <1>5, <1>6

(* The output leaves a client that the MIDI input keeps open.              *)
LEMMA ClientReplace ==
  ASSUME JackInv, Replace
  PROVE  JackInv'
<1> USE AddressesAssumption DEF JackInv, JackTypeOK, Serving, Leaving, output, input
<1>1. /\ pc = "replace" /\ pc' = "on" /\ cycle = "idle"
      /\ driver' = "null" /\ outAt' = 0 /\ UNCHANGED <<midi, midiAt, ready, cycle>>
  BY DEF Replace, CycleOver
<1>2. /\ client' \in Clients
      /\ client'.children = client.children \ {outAt}
      /\ client'.open = (client.open /\ ~(client.children # {} /\ client.children \ {outAt} = {}))
      /\ client'.alive = (client.alive /\ ~(client.children # {} /\ client.children \ {outAt} = {}))
      /\ client'.active = (client.active /\ ~client.audio /\ ~(client.children # {} /\ client.children \ {outAt} = {}))
      /\ ~client'.audio /\ client'.callback = client.callback
      /\ outs' = IF outs = "there" THEN "gone" ELSE outs
      /\ twice' = (client.alive /\ outs = "gone")
  BY DisconnectIs DEF Replace
<1>3. midiAt \in client.children \ {outAt}
  BY <1>1 DEF MidiFits, OutputFits
<1>4. JackTypeOK'
  BY <1>1, <1>2, <1>3 DEF Clients
<1>5. ClientFits'
  BY <1>1, <1>2, <1>3 DEF ClientFits, OutputFits, MidiFits
<1>6. OutputFits'
  BY <1>1, <1>2, <1>3 DEF ClientFits, OutputFits, MidiFits
<1>7. MidiFits'
  BY <1>1, <1>2, <1>3 DEF ClientFits, OutputFits, MidiFits
<1> QED BY <1>4, <1>5, <1>6, <1>7

(* The state is lowered.                                                   *)
LEMMA ClientHalt ==
  ASSUME JackInv, Halt
  PROVE  JackInv'
<1> USE AddressesAssumption DEF JackInv, JackTypeOK, Serving, Leaving, output, input
<1>1. /\ pc = "on" /\ pc' = "stop" /\ ready' = FALSE
      /\ UNCHANGED <<client, driver, outAt, outs, twice, midi, midiAt, cycle>>
  BY DEF Halt
<1>2. JackTypeOK'
  BY <1>1
<1>3. ClientFits'
  BY <1>1 DEF ClientFits, OutputFits, MidiFits
<1>4. OutputFits'
  BY <1>1 DEF ClientFits, OutputFits, MidiFits
<1>5. MidiFits'
  BY <1>1 DEF ClientFits, OutputFits, MidiFits
<1> QED BY <1>2, <1>3, <1>4, <1>5

(* The MIDI input leaves, and stays a subscriber if it had no port.        *)
LEMMA ClientCloseMidi ==
  ASSUME JackInv, CloseMidi
  PROVE  JackInv'
<1> USE AddressesAssumption DEF JackInv, JackTypeOK, Serving, Leaving, output, input
<1>1. /\ pc = "stop" /\ pc' = "delete" /\ midi' = "noport"
      /\ UNCHANGED <<driver, outAt, outs, twice, midiAt, ready, cycle>>
  BY DEF CloseMidi
<1>2. CASE midi = "port" /\ client.open
  <2>1. PICK d : d = Unsubscribed(client, midiAt)
    OBVIOUS
  <2>2. LET last == client.children # {} /\ client.children \ {midiAt} = {}
        IN  /\ d \in Clients /\ d.children = client.children \ {midiAt}
            /\ d.open = (client.open /\ ~last) /\ d.alive = (client.alive /\ ~last)
            /\ d.active = (client.active /\ ~last)
            /\ d.callback = client.callback /\ d.audio = client.audio
    BY <2>1, UnsubscribedIs
  <2>3. client' = d /\ (d.open \/ cycle = "idle")
    BY <1>2, <2>1 DEF CloseMidi, CycleOver
  <2>4. JackTypeOK'
    BY <1>1, <2>2, <2>3 DEF Clients
  <2>5. ClientFits'
    BY <1>1, <2>2, <2>3 DEF ClientFits, OutputFits, MidiFits
  <2>6. OutputFits'
    BY <1>1, <2>2, <2>3 DEF ClientFits, OutputFits, MidiFits
  <2>7. MidiFits'
    BY <1>1, <2>2, <2>3 DEF ClientFits, OutputFits, MidiFits
  <2> QED BY <2>4, <2>5, <2>6, <2>7
<1>3. CASE ~(midi = "port" /\ client.open)
  <2>1. UNCHANGED client
    BY <1>3 DEF CloseMidi
  <2>2. JackTypeOK'
    BY <1>1, <2>1 DEF Clients
  <2>3. ClientFits'
    BY <1>1, <2>1 DEF ClientFits, OutputFits, MidiFits
  <2>4. OutputFits'
    BY <1>1, <2>1 DEF ClientFits, OutputFits, MidiFits
  <2>5. MidiFits'
    BY <1>1, <2>1 DEF ClientFits, OutputFits, MidiFits
  <2> QED BY <2>2, <2>3, <2>4, <2>5
<1> QED BY <1>2, <1>3

(* The MIDI input is deleted.                                              *)
LEMMA ClientDeleteMidi ==
  ASSUME JackInv, DeleteMidi
  PROVE  JackInv'
<1> USE AddressesAssumption DEF JackInv, JackTypeOK, Serving, Leaving, output, input
<1>1. /\ pc = "delete" /\ pc' = "disconnect" /\ midi' = "none" /\ midiAt' = 0
      /\ UNCHANGED <<client, driver, outAt, outs, twice, ready, cycle>>
  BY DEF DeleteMidi
<1>2. JackTypeOK'
  BY <1>1 DEF Clients
<1>3. ClientFits'
  BY <1>1 DEF ClientFits, OutputFits, MidiFits
<1>4. OutputFits'
  BY <1>1 DEF ClientFits, OutputFits, MidiFits
<1>5. MidiFits'
  BY <1>1 DEF ClientFits, OutputFits, MidiFits
<1> QED BY <1>2, <1>3, <1>4, <1>5

(* The output leaves: the client is closed, or somebody is left.           *)
LEMMA ClientStopOutput ==
  ASSUME JackInv, StopOutput
  PROVE  JackInv'
<1> USE AddressesAssumption DEF JackInv, JackTypeOK, Serving, Leaving, output, input
<1>1. /\ pc = "disconnect" /\ pc' = "release" /\ cycle = "idle"
      /\ driver' = driver /\ outAt' = outAt /\ UNCHANGED <<midi, midiAt, ready, cycle>>
  BY DEF StopOutput, CycleOver
<1>2. CASE driver = "jack"
  <2>1. Disconnect(client)
    BY <1>2 DEF StopOutput
  <2>2. /\ client' \in Clients
        /\ client'.children = client.children \ {outAt}
        /\ client'.open = (client.open /\ ~(client.children # {} /\ client.children \ {outAt} = {}))
        /\ client'.alive = (client.alive /\ ~(client.children # {} /\ client.children \ {outAt} = {}))
        /\ client'.active = (client.active /\ ~client.audio /\ ~(client.children # {} /\ client.children \ {outAt} = {}))
        /\ ~client'.audio /\ client'.callback = client.callback
        /\ outs' = IF outs = "there" THEN "gone" ELSE outs
        /\ twice' = (client.alive /\ outs = "gone")
    BY <2>1, DisconnectIs
  <2>3. JackTypeOK'
    BY <1>1, <1>2, <2>2 DEF Clients
  <2>4. ClientFits'
    BY <1>1, <1>2, <2>2 DEF ClientFits, OutputFits, MidiFits
  <2>5. OutputFits'
    BY <1>1, <1>2, <2>2 DEF ClientFits, OutputFits, MidiFits
  <2>6. MidiFits'
    BY <1>1, <1>2, <2>2 DEF ClientFits, OutputFits, MidiFits
  <2> QED BY <2>3, <2>4, <2>5, <2>6
<1>3. CASE driver # "jack"
  <2>1. UNCHANGED <<client, outs, twice>>
    BY <1>3 DEF StopOutput
  <2>2. JackTypeOK'
    BY <1>1, <1>3, <2>1 DEF Clients
  <2>3. ClientFits'
    BY <1>1, <1>3, <2>1 DEF ClientFits, OutputFits, MidiFits
  <2>4. OutputFits'
    BY <1>1, <1>3, <2>1 DEF ClientFits, OutputFits, MidiFits
  <2>5. MidiFits'
    BY <1>1, <1>3, <2>1 DEF ClientFits, OutputFits, MidiFits
  <2> QED BY <2>2, <2>3, <2>4, <2>5
<1> QED BY <1>2, <1>3

(* The destructor disconnects once more.                                   *)
LEMMA ClientRelease ==
  ASSUME JackInv, Release
  PROVE  JackInv'
<1> USE AddressesAssumption DEF JackInv, JackTypeOK, Serving, Leaving, output, input
<1>1. /\ pc = "release" /\ pc' = "close" /\ cycle = "idle"
      /\ driver' = "none" /\ outAt' = 0 /\ UNCHANGED <<midi, midiAt, ready, cycle>>
  BY DEF Release, CycleOver
<1>2. CASE driver = "jack"
  <2>1. Disconnect(client)
    BY <1>2 DEF Release
  <2>2. /\ client' \in Clients
        /\ client'.children = client.children \ {outAt}
        /\ client'.open = (client.open /\ ~(client.children # {} /\ client.children \ {outAt} = {}))
        /\ client'.alive = (client.alive /\ ~(client.children # {} /\ client.children \ {outAt} = {}))
        /\ client'.active = (client.active /\ ~client.audio /\ ~(client.children # {} /\ client.children \ {outAt} = {}))
        /\ ~client'.audio /\ client'.callback = client.callback
        /\ outs' = IF outs = "there" THEN "gone" ELSE outs
        /\ twice' = (client.alive /\ outs = "gone")
    BY <2>1, DisconnectIs
  <2>3. JackTypeOK'
    BY <1>1, <1>2, <2>2 DEF Clients
  <2>4. ClientFits'
    BY <1>1, <1>2, <2>2 DEF ClientFits, OutputFits, MidiFits
  <2>5. OutputFits'
    BY <1>1, <1>2, <2>2 DEF ClientFits, OutputFits, MidiFits
  <2>6. MidiFits'
    BY <1>1, <1>2, <2>2 DEF ClientFits, OutputFits, MidiFits
  <2> QED BY <2>3, <2>4, <2>5, <2>6
<1>3. CASE driver # "jack"
  <2>1. UNCHANGED <<client, outs, twice>>
    BY <1>3 DEF Release
  <2>2. JackTypeOK'
    BY <1>1, <1>3, <2>1 DEF Clients
  <2>3. ClientFits'
    BY <1>1, <1>3, <2>1 DEF ClientFits, OutputFits, MidiFits
  <2>4. OutputFits'
    BY <1>1, <1>3, <2>1 DEF ClientFits, OutputFits, MidiFits
  <2>5. MidiFits'
    BY <1>1, <1>3, <2>1 DEF ClientFits, OutputFits, MidiFits
  <2> QED BY <2>2, <2>3, <2>4, <2>5
<1> QED BY <1>2, <1>3

(* The client is closed once more.                                         *)
LEMMA ClientClose ==
  ASSUME JackInv, Close
  PROVE  JackInv'
<1> USE AddressesAssumption DEF JackInv, JackTypeOK, Serving, Leaving, output, input
<1>1. /\ pc = "close" /\ pc' = "start" /\ cycle = "idle" /\ twice' = FALSE
      /\ UNCHANGED <<driver, outAt, outs, midi, midiAt, ready, cycle>>
  BY DEF Close, CycleOver
<1>2. /\ client' \in Clients
      /\ ~client'.open /\ ~client'.alive /\ ~client'.active
      /\ client'.audio = client.audio /\ client'.children = client.children
  BY DEF Close, Closed, Clients
<1>3. JackTypeOK'
  BY <1>1, <1>2 DEF Clients
<1>4. ClientFits'
  BY <1>1, <1>2 DEF ClientFits, OutputFits, MidiFits
<1>5. OutputFits'
  BY <1>1, <1>2 DEF ClientFits, OutputFits, MidiFits
<1>6. MidiFits'
  BY <1>1, <1>2 DEF ClientFits, OutputFits, MidiFits
<1> QED BY <1>3, <1>4, <1>5, <1>6

(* A cycle begins in an active client only, with the callback it has.      *)
LEMMA ClientProcess ==
  ASSUME JackInv, Process
  PROVE  JackInv'
<1> USE AddressesAssumption DEF JackInv, JackTypeOK, Serving, Leaving, output, input
<1>1. UNCHANGED <<client, driver, outAt, outs, twice, midi, midiAt, ready, pc>>
  BY DEF Process, Call, Test, ProcessMidi, Lock, Return
<1>2. /\ cycle' \in {"idle", "clear", "midi", "lock", "render"}
      /\ cycle' # "idle" => client.active /\ client.callback = "audio"
  BY DEF Process, Call, Test, ProcessMidi, Lock, Return, ClientFits, Clients
<1>3. JackTypeOK'
  BY <1>1, <1>2 DEF Clients
<1>4. ClientFits'
  BY <1>1, <1>2 DEF ClientFits, OutputFits, MidiFits
<1>5. OutputFits'
  BY <1>1, <1>2 DEF ClientFits, OutputFits, MidiFits
<1>6. MidiFits'
  BY <1>1, <1>2 DEF ClientFits, OutputFits, MidiFits
<1> QED BY <1>3, <1>4, <1>5, <1>6

(* The server is gone: no callback comes any more.                         *)
LEMMA ClientServerStops ==
  ASSUME JackInv, ServerStops
  PROVE  JackInv'
<1> USE AddressesAssumption DEF JackInv, JackTypeOK, Serving, Leaving, output, input
<1>1. /\ client.alive /\ cycle = "idle" /\ driver = "jack" /\ pc # "init"
      /\ UNCHANGED <<driver, outAt, outs, twice, midi, midiAt, ready, pc, cycle>>
  BY DEF ServerStops, CycleOver
<1>2. PICK d : d = Cleared(client)
  OBVIOUS
<1>3. d \in Clients /\ d.open = client.open /\ d.audio = FALSE /\ d.children = client.children
  BY <1>2, ClearedIs
<1>4. client' = [d EXCEPT !.alive = FALSE, !.active = FALSE]
  BY <1>2 DEF ServerStops
<1>5. /\ client' \in Clients
      /\ client'.open = client.open /\ ~client'.alive /\ ~client'.active
      /\ ~client'.audio /\ client'.children = client.children
  BY <1>3, <1>4 DEF Clients
<1>6. JackTypeOK'
  BY <1>1, <1>5 DEF Clients
<1>7. ClientFits'
  BY <1>1, <1>5 DEF ClientFits, OutputFits, MidiFits
<1>8. OutputFits'
  BY <1>1, <1>5 DEF ClientFits, OutputFits, MidiFits
<1>9. MidiFits'
  BY <1>1, <1>5 DEF ClientFits, OutputFits, MidiFits
<1> QED BY <1>6, <1>7, <1>8, <1>9

(* The first client is closed, and there are no drivers.                   *)
LEMMA ClientInit == JackInit => JackInv
<1> SUFFICES ASSUME JackInit PROVE JackInv
  OBVIOUS
<1> USE DEF JackInit, NewClient, Serving, Leaving
<1>1. JackTypeOK
  BY DEF JackTypeOK, Clients
<1>2. ClientFits /\ OutputFits /\ MidiFits
  BY DEF ClientFits, OutputFits, MidiFits
<1> QED BY <1>1, <1>2 DEF JackInv

(* Every step keeps the invariant.                                         *)
LEMMA ClientNext == JackInv /\ [JackNext]_jackVars => JackInv'
<1> SUFFICES ASSUME JackInv, [JackNext]_jackVars PROVE JackInv'
  OBVIOUS
<1>1. CASE Starting
  BY <1>1, ClientStart, ClientInitOutput, ClientInitFailed, ClientOpenMidi, ClientActivate,
     ClientConnect, ClientReplace DEF Starting
<1>2. CASE Stopping
  BY <1>2, ClientHalt, ClientCloseMidi, ClientDeleteMidi, ClientStopOutput, ClientRelease,
     ClientClose DEF Stopping
<1>3. CASE Process
  BY <1>3, ClientProcess
<1>4. CASE ServerStops
  BY <1>4, ClientServerStops
<1>5. CASE UNCHANGED jackVars
  BY <1>5 DEF jackVars, output, input, JackInv, JackTypeOK, ClientFits, OutputFits, MidiFits
<1> QED BY <1>1, <1>2, <1>3, <1>4, <1>5 DEF JackNext

(* What the client, the output and the MIDI input are like at every step,  *)
(* whatever fails.                                                         *)
THEOREM ClientInvariant == JackSpec => []JackInv
BY ClientInit, ClientNext, PTL DEF JackSpec

(* JACK calls the engine only while there is an output with its ports,     *)
(* though it keeps the callback of an output that is gone.                 *)
THEOREM ClientCallsLive == JackSpec => []CallsLive
<1>1. JackInv => CallsLive
  BY DEF JackInv, ClientFits, CallsLive
<1> QED BY <1>1, ClientInvariant, PTL

(* No port is unregistered twice unless a stray subscriber is left, and a  *)
(* MIDI port has its client.                                               *)
THEOREM ClientPortsOnce == JackSpec => []PortsOnce
<1>1. JackInv => PortsOnce
  <2> SUFFICES ASSUME JackInv PROVE PortsOnce
    OBVIOUS
  <2> USE DEF JackInv, OutputFits, MidiFits, Serving
  <2>1. twice => Strays # {}
    <3>1. ASSUME twice PROVE outAt = 0 /\ midiAt = 0 /\ client.children \subseteq Addresses
      BY <3>1 DEF JackTypeOK, Clients
    <3>2. ASSUME twice PROVE Strays = client.children
      BY <3>1, <3>2, AddressesAssumption DEF Strays
    <3> QED BY <3>2
  <2>2. midi = "port" => client.open
    OBVIOUS
  <2> QED BY <2>1, <2>2 DEF PortsOnce
<1> QED BY <1>1, ClientInvariant, PTL
=============================================================================
