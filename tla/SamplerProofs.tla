---------------------------- MODULE SamplerProofs ----------------------------
(***************************************************************************)
(* Theorems about Sampler, for every kit, sample, envelope and cycle.      *)
(***************************************************************************)
EXTENDS Sampler, FiniteSetTheorems, SequenceTheorems, TLAPS

USE InstsAssumption, LengthAssumption, LimitsAssumption, BoundsAssumption
USE DEF Ids

-----------------------------------------------------------------------------
(* Type correctness, and what a note has played.                           *)

(* The largest cycle is one, and has a frame.                              *)
LEMMA MaxFramesType == MaxFrames \in Nat \ {0} /\ \A k \in Cycles : k <= MaxFrames
  BY CyclesAssumption DEF MaxFrames

(* What the invariant says of one note, in step c of a cycle of m frames.  *)
Fits(v, c, m) ==
  /\ v \in Voice
  /\ v.pos - v.silence = v.age /\ v.pos < Length
  /\ c = "idle" => v.silence = 0
  /\ v.silence > 0 => /\ c # "idle" /\ v.silence < m
                      /\ v.asked \in {Held, 0} /\ v.rel \in {Held, 0}
  /\ v.asked = Held => v.rel = Held /\ v.offset = Held
  /\ v.asked # Held /\ v.rel = Held => v.asked = 0 /\ c # "idle" /\ v.offset \in 0..(m - 1)
  /\ v.rel # Held => v.rel <= v.asked /\ v.rel >= Least(Idle, v.asked - MaxFrames + 1)

AllFit == \A k \in Ids : Fits(voices[k], cyc, n)

(* The rest of it.                                                         *)
Frame ==
  /\ queued \in [AllInsts -> Int] /\ stray \in [AllInsts -> Int]
  /\ cyc \in {"idle", "events", "push"} /\ n \in Cycles \cup {0} /\ at \in Nat /\ left \in Nat
  /\ note \in AllInsts /\ victim \in AllInsts
  /\ late \subseteq Insts /\ list \subseteq Insts /\ doomed \in Seq(AllInsts)
  /\ gui \in {"idle", "walk", "clear", "stop", "old", "push", "kill"}
  /\ cyc # "idle" => n \in Cycles
  /\ cyc = "push" => at < n

Listed == last \in Nat /\ Ids \subseteq 1..last

Most   == Frame /\ Listed /\ AllFit
Tracked == walked \subseteq Ids /\ WalkedWhile

LEMMA InvParts == IInv <=> Frame /\ Listed /\ AllFit /\ Tracked
  <1>1. ASSUME Listed PROVE IsFiniteSet(Ids)
    <2>1. IsFiniteSet(1..last)
      BY <1>1, FS_Interval DEF Listed
    <2> QED
      BY <1>1, <2>1, FS_Subset DEF Listed
  <1> USE DEF IInv, TypeOK, OnTime, SilenceFits, ReleaseFits, LastIsLast, Frame, Listed, AllFit, Tracked
  <1>2. ASSUME IInv PROVE Frame /\ Listed /\ Tracked
    BY <1>2
  <1>3. ASSUME IInv, NEW k \in Ids PROVE Fits(voices[k], cyc, n)
    BY <1>3 DEF Fits
  <1>4. ASSUME Frame, Listed, AllFit, Tracked PROVE TypeOK
    BY <1>1, <1>4 DEF Fits
  <1>5. ASSUME Frame, Listed, AllFit PROVE OnTime /\ SilenceFits
    BY <1>5 DEF Fits
  <1>6. ASSUME Frame, Listed, AllFit PROVE ReleaseFits /\ LastIsLast
    BY <1>6 DEF Fits
  <1> QED
    BY <1>2, <1>3, <1>4, <1>5, <1>6

LEMMA InvPartsNext == Most' /\ Tracked' => IInv'
  <1>1. Most /\ Tracked => IInv
    BY InvParts DEF Most
  <1> QED
    BY <1>1, PTL

(* A subset of the notes, in the same cycle.                               *)
LEMMA KeepFits ==
  ASSUME Listed, AllFit, NEW S \in SUBSET Ids, Keep(S), cyc' = "idle" <=> cyc = "idle", n' = n
  PROVE  Listed' /\ AllFit'
  <1>1. Listed'
    BY DEF Listed, Keep, AllFit
  <1>2. ASSUME NEW k \in S PROVE Fits(voices[k], cyc', n')
    BY DEF AllFit, Fits
  <1> QED
    BY <1>1, <1>2 DEF Keep, AllFit

(* A note begun at frame f of the cycle is as it should be.                *)
LEMMA BegunFits ==
  ASSUME Listed, AllFit, NEW i \in AllInsts, NEW f \in Nat, PushBack(Begun(i, f)),
         f > 0 => cyc # "idle" /\ f < n, cyc' = "idle" <=> cyc = "idle", n' = n,
         cyc = "idle" => f = 0
  PROVE  Listed' /\ AllFit'
  <1>1. Fits(Begun(i, f), cyc', n')
    BY DEF Fits, Begun, Voice, Held, Idle
  <1>2. ASSUME NEW k \in Ids PROVE Fits(voices[k], cyc', n')
    BY DEF AllFit, Fits
  <1>3. Ids' = Ids \cup {last + 1} /\ last' = last + 1
    BY DEF PushBack
  <1>4. Listed'
    BY <1>3 DEF Listed
  <1>5. ASSUME NEW k \in Ids' PROVE voices'[k] = Begun(i, f) \/ (k \in Ids /\ voices'[k] = voices[k])
    BY DEF PushBack
  <1> QED
    BY <1>1, <1>2, <1>4, <1>5 DEF AllFit

(* Asking and releasing, field by field.                                   *)
Same(w, v) == /\ w.inst = v.inst /\ w.pos = v.pos /\ w.silence = v.silence /\ w.age = v.age
              /\ w.asked = IF v.asked = Held THEN 0 ELSE v.asked

LEMMA AskFields ==
  ASSUME NEW v \in Voice, NEW f \in Nat
  PROVE  /\ Ask(v) = [v EXCEPT !.asked = IF v.asked = Held THEN 0 ELSE v.asked]
         /\ Ask(v) \in Voice
         /\ Released(v) = [Ask(v) EXCEPT !.rel = IF v.rel = Held THEN 0 ELSE v.rel]
         /\ Released(v) \in Voice
         /\ [Ask(v) EXCEPT !.offset = f] \in Voice
         /\ Same(Ask(v), v) /\ Same(Released(v), v) /\ Same([Ask(v) EXCEPT !.offset = f], v)
         /\ Ask(v).rel = v.rel /\ [Ask(v) EXCEPT !.offset = f].rel = v.rel
         /\ [Ask(v) EXCEPT !.offset = f].offset = f
         /\ Ask(v).offset = v.offset /\ Released(v).offset = v.offset
         /\ Released(v).rel = IF v.rel = Held THEN 0 ELSE v.rel
  <1>1. Ask(v) = [v EXCEPT !.asked = IF v.asked = Held THEN 0 ELSE v.asked]
    BY DEF Ask
  <1>2. Ask(v) \in Voice /\ Ask(v).rel = v.rel /\ Ask(v).offset = v.offset /\ Same(Ask(v), v)
    BY <1>1 DEF Voice, Held, Same
  <1>3. Released(v) = [Ask(v) EXCEPT !.rel = IF v.rel = Held THEN 0 ELSE v.rel]
    BY <1>2 DEF Released
  <1> HIDE DEF Ask
  <1>4. /\ Released(v) \in Voice /\ Same(Released(v), v) /\ Released(v).offset = v.offset
        /\ Released(v).rel = IF v.rel = Held THEN 0 ELSE v.rel
    BY <1>2, <1>3 DEF Voice, Held, Idle, Same
  <1>5. LET w == [Ask(v) EXCEPT !.offset = f]
        IN  w \in Voice /\ Same(w, v) /\ w.offset = f /\ w.rel = v.rel
    BY <1>2 DEF Voice, Held, Same
  <1> QED
    BY <1>1, <1>2, <1>3, <1>4, <1>5

(* A note that is choked is as it should be.                               *)
LEMMA ReleasedFits ==
  ASSUME NEW v, NEW c, NEW m \in Nat, Fits(v, c, m) PROVE Fits(Released(v), c, m)
  <1> DEFINE w == Released(v)
  <1>1. v \in Voice
    BY DEF Fits
  <1>2. w \in Voice
    BY <1>1, AskFields
  <1>3. /\ w.pos = v.pos /\ w.silence = v.silence /\ w.offset = v.offset /\ w.age = v.age
        /\ w.asked = IF v.asked = Held THEN 0 ELSE v.asked
        /\ w.rel = IF v.rel = Held THEN 0 ELSE v.rel
    BY <1>1, AskFields DEF Same
  <1> HIDE DEF w
  <1>4. Fits(w, c, m)
    BY <1>1, <1>2, <1>3, MaxFramesType DEF Fits, Voice, Held, Idle, Least
  <1> QED
    BY <1>4 DEF w

LEMMA EnqueueFits ==
  ASSUME Listed, AllFit, n \in Nat, NEW i \in AllInsts, Enqueue(i),
         cyc' = "idle" <=> cyc = "idle", n' = n
  PROVE  Listed' /\ AllFit'
  <1>1. Ids' = Ids /\ last' = last
    BY DEF Enqueue
  <1>2. ASSUME NEW k \in Ids PROVE Fits(voices'[k], cyc', n')
    <2>1. Fits(voices[k], cyc', n')
      BY DEF AllFit, Fits
    <2>2. Fits(Released(voices[k]), cyc', n')
      BY <2>1, ReleasedFits
    <2> QED
      BY <2>1, <2>2 DEF Enqueue
  <1> QED
    BY <1>1, <1>2 DEF AllFit, Listed

(* So is one for which a note-off has come.                                *)
LEMMA OffsetFits ==
  ASSUME NEW v, NEW c, NEW m \in Nat, NEW f \in 0..(m - 1), c # "idle", Fits(v, c, m)
  PROVE  Fits([Ask(v) EXCEPT !.offset = f], c, m)
  <1> DEFINE w == [Ask(v) EXCEPT !.offset = f]
  <1>1. v \in Voice /\ f \in Nat
    BY DEF Fits
  <1>2. w \in Voice
    BY <1>1, AskFields
  <1>3. /\ w.pos = v.pos /\ w.silence = v.silence /\ w.offset = f /\ w.age = v.age
        /\ w.asked = IF v.asked = Held THEN 0 ELSE v.asked
        /\ w.rel = v.rel
    BY <1>1, AskFields DEF Same
  <1> HIDE DEF w
  <1>4. Fits(w, c, m)
    BY <1>1, <1>2, <1>3, MaxFramesType DEF Fits, Voice, Held, Idle, Least
  <1> QED
    BY <1>4 DEF w

LEMMA UpdateType ==
  ASSUME NEW v \in Voice, NEW p \in 0..Length, NEW r \in Held..Idle, NEW g \in Int,
         NEW k \in Nat \cup {Held}
  PROVE  [v EXCEPT !.pos = p, !.silence = 0, !.rel = r, !.age = g, !.asked = k] \in Voice
  BY DEF Voice

(* A note that has not ended with the cycle has played to its end.          *)
LEMMA PlayedFits ==
  ASSUME NEW v, Fits(v, cyc, n), cyc # "idle", n \in Cycles, ~Over(v)
  PROVE  Fits(Played(v), "idle", 0)
  <1> DEFINE w == Played(v)
  <1>1. v \in Voice /\ n \in Nat \ {0} /\ n <= MaxFrames
    BY MaxFramesType, CyclesAssumption DEF Fits
  <1>2. v.silence \in Nat /\ v.silence < n /\ v.pos \in 0..Length
    BY <1>1 DEF Fits, Voice
  <1>3. Avail(v) = n - v.silence /\ v.pos + Avail(v) < Length
    BY <1>1, <1>2 DEF Over, Finished, Avail, Least
  <1>4. w = [v EXCEPT !.pos = v.pos + Avail(v), !.silence = 0, !.rel = Rel(v),
                      !.age = v.age + n, !.asked = IF v.asked = Held THEN Held ELSE v.asked + n]
    BY <1>1 DEF Played, Silence, Voice
  <1>5. /\ w.pos = v.pos + Avail(v) /\ w.silence = 0 /\ w.offset = v.offset /\ w.age = v.age + n
        /\ w.asked = (IF v.asked = Held THEN Held ELSE v.asked + n) /\ w.rel = Rel(v)
    BY <1>1, <1>4 DEF Voice
  <1>a. v.pos + Avail(v) \in 0..Length /\ v.age + n \in Int
    BY <1>1, <1>2, <1>3 DEF Voice
  <1>b. (IF v.asked = Held THEN Held ELSE v.asked + n) \in Nat \cup {Held}
    BY <1>1 DEF Voice, Held
  <1>c. Rel(v) \in Held..Idle => w \in Voice
    <2> SUFFICES ASSUME Rel(v) \in Held..Idle PROVE w \in Voice
      OBVIOUS
    <2> DEFINE p == v.pos + Avail(v)
               g == v.age + n
               k == IF v.asked = Held THEN Held ELSE v.asked + n
               r == Rel(v)
               u == [v EXCEPT !.pos = p, !.silence = 0, !.rel = r, !.age = g, !.asked = k]
    <2>1. p \in 0..Length /\ g \in Int /\ k \in Nat \cup {Held} /\ r \in Held..Idle
      BY <1>a, <1>b
    <2>2. w = u
      BY <1>4
    <2>3. u \in Voice
      <3> HIDE DEF p, g, k, r
      <3> QED
        BY <1>1, <2>1, UpdateType
    <2> HIDE DEF u, w
    <2> QED
      BY <2>2, <2>3
  <1>6. Last(v) = n - 1
    BY <1>1, <1>2, <1>3 DEF Last
  <1>7. CASE v.asked = Held
    <2>1. Rel(v) = Held
      BY <1>7 DEF Fits, Rel, Ticks, Told, Least, Held, Idle
    <2>2. w \in Voice
      BY <1>c, <2>1 DEF Held, Idle
    <2> HIDE DEF w
    <2>3. Fits(w, "idle", 0)
      BY <1>1, <1>2, <1>3, <1>5, <1>7, <2>1, <2>2 DEF Fits, Held
    <2> QED
      BY <2>3 DEF w
  <1>8. CASE v.asked # Held /\ v.rel = Held
    <2>1. v.offset \in 0..(n - 1) /\ v.asked = 0
      BY <1>8 DEF Fits
    <2>2. First(v) \in 0..(n - 1) /\ Told(v)
      BY <1>1, <1>2, <1>6, <2>1 DEF First, Greatest, Told, Held
    <2>3. Ticks(v) = n - First(v)
      BY <1>1, <1>6, <1>8, <2>2 DEF Ticks, Held
    <2>4. Rel(v) \in 0..Idle /\ Rel(v) <= n /\ Rel(v) >= Least(Idle, n - MaxFrames + 1)
      BY <1>1, <2>2, <2>3, MaxFramesType DEF Rel, Least, Idle
    <2>5. w \in Voice
      BY <1>c, <2>4 DEF Held, Idle
    <2> HIDE DEF w
    <2>6. Fits(w, "idle", 0)
      BY <1>1, <1>2, <1>3, <1>5, <2>1, <2>4, <2>5 DEF Fits, Held
    <2> QED
      BY <2>6 DEF w
  <1>9. CASE v.asked # Held /\ v.rel # Held
    <2>1. v.asked \in Nat /\ v.rel \in 0..Idle /\ v.rel <= v.asked
          /\ v.rel >= Least(Idle, v.asked - MaxFrames + 1)
      BY <1>1, <1>9 DEF Fits, Voice, Held, Idle
    <2>2. v.silence > 0 => v.asked = 0 /\ v.rel = 0
      BY <1>9 DEF Fits
    <2>3. Ticks(v) = v.rel + (n - v.silence)
      BY <1>3, <1>9 DEF Ticks
    <2>4. Rel(v) \in 0..Idle /\ Rel(v) <= v.asked + n
      BY <1>1, <1>2, <2>1, <2>3 DEF Rel, Least, Idle
    <2>5. Rel(v) >= Least(Idle, (v.asked + n) - MaxFrames + 1)
      BY <1>1, <1>2, <2>1, <2>2, <2>3, MaxFramesType DEF Rel, Least, Idle
    <2>6. w \in Voice
      BY <1>c, <2>4 DEF Held, Idle
    <2> HIDE DEF w
    <2>7. Fits(w, "idle", 0)
      BY <1>1, <1>2, <1>3, <1>5, <1>9, <2>1, <2>4, <2>5, <2>6 DEF Fits, Held
    <2> QED
      BY <2>7 DEF w
  <1> QED
    BY <1>7, <1>8, <1>9

-----------------------------------------------------------------------------
(* The invariant, action by action.                                        *)

(* What an action leaves of the cycle and of the notes.                    *)
LEMMA SameNotesFit ==
  ASSUME Listed, AllFit, UNCHANGED notes, cyc' = "idle" <=> cyc = "idle", n' = n
  PROVE  Listed' /\ AllFit'
  BY DEF Listed, AllFit, Fits, notes

(* An instrument has finitely many notes.                                  *)
LEMMA OfFinite ==
  ASSUME Listed, NEW S \in SUBSET Ids, NEW i
  PROVE  IsFiniteSet(Of(i, S)) /\ Cardinality(Of(i, S)) \in Nat
  <1>1. IsFiniteSet(1..last) /\ Of(i, S) \subseteq 1..last
    BY FS_Interval DEF Listed, Of
  <1>2. IsFiniteSet(Of(i, S))
    BY <1>1, FS_Subset
  <1> QED
    BY <1>2, FS_CardinalityType

(* Counting off and counting keep the type of the counts.                  *)
LEMMA CountType ==
  ASSUME Frame, Listed
  PROVE  /\ \A S \in SUBSET Ids : Drop(S) => queued' \in [AllInsts -> Int] /\ stray' \in [AllInsts -> Int]
         /\ \A i \in AllInsts : Enqueue(i) => queued' \in [AllInsts -> Int]
  <1>2. ASSUME NEW S \in SUBSET Ids, Drop(S)
        PROVE  queued' \in [AllInsts -> Int] /\ stray' \in [AllInsts -> Int]
    <2>1. \A i \in AllInsts : queued[i] - Cardinality(Of(i, S)) \in Int
      <3>1. \A i \in AllInsts : queued[i] \in Int
        BY DEF Frame
      <3>2. \A i \in AllInsts : Cardinality(Of(i, S)) \in Nat
        BY OfFinite
      <3> QED
        BY <3>1, <3>2
    <2>2. \A i \in AllInsts : stray[i] - Cardinality(Of(i, S \cap walked)) \in Int
      <3>1. \A i \in AllInsts : stray[i] \in Int
        BY DEF Frame
      <3>2. S \cap walked \in SUBSET Ids
        OBVIOUS
      <3>3. \A i \in AllInsts : Cardinality(Of(i, S \cap walked)) \in Nat
        BY <3>2, OfFinite
      <3> QED
        BY <3>1, <3>3
    <2>3. queued' \in [AllInsts -> Int]
      BY <1>2, <2>1, Zenon DEF Drop, Dequeue
    <2>4. stray' \in [AllInsts -> Int]
      BY <1>2, <2>2, Zenon DEF Drop
    <2> QED
      BY <2>3, <2>4
  <1>3. ASSUME NEW i \in AllInsts, Enqueue(i) PROVE queued' \in [AllInsts -> Int]
    BY <1>3 DEF Enqueue, Frame
  <1> QED
    BY <1>2, <1>3

LEMMA Initially == Init => IInv
  <1> SUFFICES ASSUME Init PROVE IInv
    OBVIOUS
  <1>1. Frame
    BY DEF Init, Frame, AllInsts
  <1>2. Ids = {}
    BY DEF Init
  <1>3. Listed /\ AllFit /\ Tracked
    BY <1>2 DEF Init, Listed, AllFit, Tracked, WalkedWhile
  <1> QED
    BY <1>1, <1>3, InvParts

(* The driver's thread.                                                    *)
LEMMA BeginKeeps ==
  ASSUME IInv, NEW l, Begin(l) PROVE Most'
  <1>1. Frame /\ Listed /\ AllFit
    BY InvParts
  <1>2. queued' \in [AllInsts -> Int] /\ stray' \in [AllInsts -> Int]
    BY <1>1, CountType DEF Begin, WithinLimit
  <1>3. Frame'
    BY <1>1, <1>2, CyclesAssumption DEF Begin, MaxEvents, Frame, kit
  <1>4. Listed'
    BY <1>1 DEF Begin, Keep, Listed, WithinLimit
  <1>5. ASSUME NEW k \in Ids' PROVE Fits(voices'[k], cyc', n')
    <2>1. k \in Ids /\ voices'[k] = voices[k]
      BY DEF Begin, Keep, WithinLimit
    <2>2. Fits(voices[k], "idle", n) /\ cyc' = "events"
      BY <1>1, <2>1 DEF AllFit, Begin
    <2>3. Fits(voices[k], "events", n')
      BY <2>2 DEF Fits, Voice
    <2> QED
      BY <2>1, <2>2, <2>3
  <1>6. AllFit'
    BY <1>5 DEF AllFit
  <1> QED
    BY <1>3, <1>4, <1>6 DEF Most

LEMMA NoteOnKeeps ==
  ASSUME IInv, NEW f, NEW i \in Insts, NoteOn(i, f) PROVE Most'
  <1>1. Frame /\ Listed /\ AllFit
    BY InvParts
  <1>2. n \in Nat /\ i \in AllInsts
    BY <1>1, CyclesAssumption DEF Frame, AllInsts
  <1>3. queued' \in [AllInsts -> Int]
    BY <1>1, <1>2, CountType DEF NoteOn
  <1>4. Frame'
    BY <1>1, <1>2, <1>3 DEF NoteOn, Event, Frame, race
  <1>5. Enqueue(i) /\ (cyc' = "idle" <=> cyc = "idle") /\ n' = n
    BY DEF NoteOn, Event
  <1>6. Listed' /\ AllFit'
    BY <1>1, <1>2, <1>5, EnqueueFits
  <1> QED
    BY <1>4, <1>6 DEF Most

LEMMA PushKeeps == IInv /\ Push => Most'
  <1> SUFFICES ASSUME IInv, Push PROVE Most'
    OBVIOUS
  <1>1. Frame /\ Listed /\ AllFit
    BY InvParts
  <1>2. Frame'
    BY <1>1 DEF Push, Frame, race, kit, AllInsts
  <1>3. /\ note \in AllInsts /\ at \in Nat /\ at < n /\ PushBack(Begun(note, at)) /\ n' = n
        /\ cyc = "push" /\ cyc' = "events"
    BY <1>1 DEF Push, Frame, race
  <1>4. Listed' /\ AllFit'
    BY <1>1, <1>3, BegunFits
  <1> QED
    BY <1>2, <1>4 DEF Most

LEMMA NoteOffKeeps ==
  ASSUME IInv, NEW f, NEW i \in Insts, NoteOff(i, f) PROVE Most'
  <1>1. Frame /\ Listed /\ AllFit
    BY InvParts
  <1>2. n \in Nat /\ f \in 0..(n - 1) /\ n' = n /\ cyc = "events" /\ cyc' = "events"
    BY <1>1, CyclesAssumption DEF Frame, NoteOff, Event
  <1>3. Frame'
    BY <1>1, <1>2 DEF NoteOff, Event, Frame, race
  <1>4. Ids' = Ids /\ last' = last
    BY DEF NoteOff
  <1>5. ASSUME NEW k \in Ids PROVE Fits(voices'[k], cyc', n')
    <2>1. Fits(voices[k], cyc', n')
      BY <1>1, <1>2 DEF AllFit
    <2>2. CASE voices[k].inst = i
      <3>1. Offset(k, i, f) = f
        BY <2>2 DEF Offset, Ends, Of
      <3>2. voices'[k] = [Ask(voices[k]) EXCEPT !.offset = f]
        BY <2>2, <3>1 DEF NoteOff
      <3> QED
        BY <1>2, <2>1, <3>2, OffsetFits
    <2>3. CASE voices[k].inst # i
      BY <2>1, <2>3 DEF NoteOff
    <2> QED
      BY <2>2, <2>3
  <1>6. Listed' /\ AllFit'
    BY <1>1, <1>4, <1>5 DEF Listed, AllFit
  <1> QED
    BY <1>3, <1>6 DEF Most

LEMMA AllOffKeeps ==
  ASSUME IInv, NEW f, AllOff(f) PROVE Most'
  <1>1. Frame /\ Listed /\ AllFit
    BY InvParts
  <1>2. queued' \in [AllInsts -> Int] /\ stray' \in [AllInsts -> Int]
    BY <1>1, CountType DEF AllOff
  <1>3. Frame'
    BY <1>1, <1>2, CyclesAssumption DEF AllOff, Event, Frame
  <1>4. Listed' /\ AllFit'
    BY <1>1, KeepFits DEF AllOff, Event
  <1> QED
    BY <1>3, <1>4 DEF Most

LEMMA RenderKeeps == IInv /\ Render => Most'
  <1> SUFFICES ASSUME IInv, Render PROVE Most'
    OBVIOUS
  <1>1. Frame /\ Listed /\ AllFit
    BY InvParts
  <1>2. queued' \in [AllInsts -> Int] /\ stray' \in [AllInsts -> Int]
    BY <1>1, CountType DEF Render, Live
  <1>3. Frame'
    BY <1>1, <1>2 DEF Render, Frame, kit
  <1>4. Listed'
    BY <1>1 DEF Render, Live, Listed
  <1>5. ASSUME NEW k \in Ids' PROVE Fits(voices'[k], "idle", 0)
    <2>1. k \in Ids /\ ~Over(voices[k]) /\ voices'[k] = Played(voices[k])
      BY DEF Render, Live
    <2>2. Fits(voices[k], cyc, n) /\ cyc # "idle" /\ n \in Cycles
      BY <1>1, <2>1 DEF AllFit, Render, Frame
    <2> QED
      BY <2>1, <2>2, PlayedFits
  <1>6. AllFit'
    BY <1>5 DEF AllFit, Render
  <1> QED
    BY <1>3, <1>4, <1>6 DEF Most

(* The GUI's thread, and the sequencer.                                    *)
GuiCounts == StopAll \/ EndWalk \/ PreviewSample \/ CountOld \/ (\E k \in Ids : Walk(k))
GuiLists  == Clear \/ \E k \in Ids : Erase(k)

(* What the GUI counts off, it counts in whole notes.                      *)
LEMMA CountOffType ==
  ASSUME Frame, NEW i \in AllInsts, CountOff(i)
  PROVE  queued' \in [AllInsts -> Int] /\ stray' \in [AllInsts -> Int]
  <1>1. PICK e \in Lost(i) : /\ queued' = [queued EXCEPT ![i] = @ - 1 + e]
                             /\ stray' = [stray EXCEPT ![i] = @ + e]
    BY DEF CountOff
  <1>2. e \in Int
    BY DEF Lost
  <1> QED
    BY <1>1, <1>2 DEF Frame

LEMMA CountsKeep == IInv /\ GuiCounts => Most'
  <1> SUFFICES ASSUME IInv, GuiCounts PROVE Most'
    OBVIOUS
  <1>1. Frame /\ Listed /\ AllFit
    BY InvParts
  <1>2. UNCHANGED <<notes, cycle, kit>>
    BY DEF GuiCounts, StopAll, EndWalk, PreviewSample, CountOld, Walk
  <1>3. queued' \in [AllInsts -> Int] /\ stray' \in [AllInsts -> Int]
    <2>1. CASE StopAll \/ EndWalk \/ PreviewSample
      BY <1>1, <2>1 DEF StopAll, EndWalk, PreviewSample, Frame, race
    <2>2. CASE CountOld
      BY <1>1, <2>2, CountOffType DEF CountOld, AllInsts
    <2>3. ASSUME NEW k \in Ids, Walk(k) PROVE queued' \in [AllInsts -> Int] /\ stray' \in [AllInsts -> Int]
      <3>1. voices[k].inst \in AllInsts
        BY <1>1 DEF AllFit, Fits, Voice
      <3> QED
        BY <1>1, <2>3, <3>1, CountOffType DEF Walk
    <2> QED
      BY <2>1, <2>2, <2>3 DEF GuiCounts
  <1>4. gui' \in {"walk", "clear", "stop"}
    BY DEF GuiCounts, StopAll, EndWalk, PreviewSample, CountOld, Walk, Goto
  <1>5. Frame'
    BY <1>1, <1>2, <1>3, <1>4 DEF Frame, cycle, kit
  <1>6. Listed' /\ AllFit'
    BY <1>1, <1>2, SameNotesFit DEF cycle
  <1> QED
    BY <1>5, <1>6 DEF Most

LEMMA ListsKeep == IInv /\ GuiLists => Most'
  <1> SUFFICES ASSUME IInv, GuiLists PROVE Most'
    OBVIOUS
  <1>1. Frame /\ Listed /\ AllFit
    BY InvParts
  <1>2. UNCHANGED <<queued, cycle, kit>> /\ gui' \in {"idle", "old"}
    BY DEF GuiLists, Clear, Erase, Goto
  <1>3. stray' \in [AllInsts -> Int]
    <2>1. CASE Clear
      <3>1. \A i \in AllInsts : stray[i] \in Int
        BY <1>1 DEF Frame
      <3>2. Ids \ walked \in SUBSET Ids
        OBVIOUS
      <3>3. \A i \in AllInsts : Cardinality(Of(i, Ids \ walked)) \in Nat
        BY <1>1, <3>2, OfFinite
      <3>4. ASSUME NEW i \in AllInsts PROVE stray[i] + Cardinality(Of(i, Ids \ walked)) \in Int
        <4> DEFINE x == stray[i]
                   c == Cardinality(Of(i, Ids \ walked))
        <4>1. x \in Int /\ c \in Nat
          BY <3>1, <3>3
        <4> HIDE DEF x, c
        <4>2. x + c \in Int
          BY <4>1
        <4> QED
          BY <4>2 DEF x, c
      <3> QED
        BY <2>1, <3>4, Zenon DEF Clear
    <2> QED
      BY <1>1, <2>1 DEF GuiLists, Erase, Frame, race
  <1>4. Frame'
    BY <1>1, <1>2, <1>3 DEF Frame, cycle, kit
  <1>5. \E S \in SUBSET Ids : Keep(S)
    BY DEF GuiLists, Clear, Erase
  <1>6. Listed' /\ AllFit'
    BY <1>1, <1>2, <1>5, KeepFits DEF cycle
  <1> QED
    BY <1>4, <1>6 DEF Most

LEMMA PreviewKeeps == IInv /\ (PreviewOn \/ PreviewPush) => Most'
  <1> SUFFICES ASSUME IInv, PreviewOn \/ PreviewPush PROVE Most'
    OBVIOUS
  <1>0. Frame /\ Listed /\ AllFit
    BY InvParts
  <1>1. Frame /\ Listed /\ AllFit /\ Preview \in AllInsts /\ n \in Nat
    BY <1>0, CyclesAssumption DEF Frame, AllInsts
  <1>2. queued' \in [AllInsts -> Int]
    <2>1. CASE PreviewOn
      BY <1>1, <2>1, CountType DEF PreviewOn
    <2>2. CASE PreviewPush
      BY <1>1, <2>2 DEF PreviewPush, Frame, race
    <2> QED
      BY <2>1, <2>2
  <1>3. cyc' = cyc /\ n' = n
    BY DEF PreviewOn, PreviewPush, cycle
  <1>4. Frame'
    BY <1>1, <1>2 DEF PreviewOn, PreviewPush, Goto, Frame, race, cycle, kit
  <1>5. Listed' /\ AllFit'
    <2>1. CASE PreviewOn
      BY <1>1, <1>3, <2>1, EnqueueFits DEF PreviewOn
    <2>2. CASE PreviewPush
      BY <1>1, <1>3, <2>2, BegunFits DEF PreviewPush
    <2> QED
      BY <2>1, <2>2
  <1> QED
    BY <1>4, <1>5 DEF Most

LEMMA KillRow ==
  ASSUME Frame, Kill
  PROVE  LET row == Append(doomed, victim)
         IN  \E m \in 0..Len(row) : /\ \A p \in 1..m : Silent(row[p])
                                    /\ doomed' = SubSeq(row, m + 1, Len(row))
  BY DEF Kill

LEMMA KitKeeps ==
  ASSUME IInv, Kill \/ \E i \in Insts : Add(i) \/ Remove(i) \/ Schedule(i)
  PROVE  Most'
  <1>1. Frame /\ Listed /\ AllFit
    BY InvParts
  <1>2. UNCHANGED <<notes, queued, cycle>>
    BY DEF Kill, Add, Remove, Schedule
  <1>3. Listed' /\ AllFit'
    BY <1>1, <1>2, SameNotesFit DEF cycle
  <1>4. CASE Kill
    <2> DEFINE row == Append(doomed, victim)
    <2>1. row \in Seq(AllInsts)
      BY <1>1 DEF Frame
    <2>2. PICK m \in 0..Len(row) : doomed' = SubSeq(row, m + 1, Len(row))
      BY <1>1, <1>4, KillRow
    <2>3. doomed' \in Seq(AllInsts)
      <3> HIDE DEF row
      <3> QED
        BY <2>1, <2>2, SubSeqProperties
    <2>4. Frame'
      BY <1>1, <1>2, <1>4, <2>3 DEF Kill, Goto, Frame, cycle, race, AllInsts
    <2> QED
      BY <1>3, <2>4 DEF Most
  <1>6. CASE \E i \in Insts : Add(i) \/ Remove(i) \/ Schedule(i)
    <2>1. Frame'
      BY <1>1, <1>6 DEF Add, Remove, Schedule, Goto, Frame, cycle, race, AllInsts
    <2> QED
      BY <1>3, <2>1 DEF Most
  <1> QED
    BY <1>4, <1>6

(* The notes that the GUI has counted off are on the list.                 *)
LEMMA TrackedKept == IInv /\ [Next]_vars => Tracked'
  <1> SUFFICES ASSUME IInv, [Next]_vars PROVE Tracked'
    OBVIOUS
  <1>0. Tracked
    BY InvParts
  <1> USE <1>0 DEF Tracked, WalkedWhile
  <1>1. ASSUME NEW S \in SUBSET Ids, Drop(Ids \ S), Ids' = S, gui' = gui PROVE Tracked'
    BY <1>1 DEF Drop
  <1>2. ASSUME NEW l \in Limits, Begin(l) PROVE Tracked'
    BY <1>1, <1>2 DEF Begin, Keep, WithinLimit
  <1>3. CASE Render
    BY <1>1, <1>3 DEF Render, Live
  <1>4. ASSUME NEW f, AllOff(f) PROVE Tracked'
    <2> DEFINE S == {}
    <2>1. S \in SUBSET Ids /\ Ids \ S = Ids
      OBVIOUS
    <2>2. Drop(Ids \ S) /\ Ids' = S /\ gui' = gui
      BY <1>4, <2>1 DEF AllOff, Event, Keep
    <2> HIDE DEF S
    <2> QED
      BY <1>1, <2>1, <2>2
  <1>5. CASE Push
    BY <1>5 DEF Push, PushBack, race
  <1>6. ASSUME NEW f, NEW i, NoteOn(i, f) \/ NoteOff(i, f) PROVE Tracked'
    BY <1>6 DEF NoteOn, NoteOff, Event, Enqueue, race
  <1>7. CASE StopAll \/ EndWalk \/ PreviewSample \/ CountOld \/ Clear \/ Kill
    BY <1>7 DEF StopAll, EndWalk, PreviewSample, CountOld, Clear, Kill, Goto, notes, race
  <1>8. ASSUME NEW k \in Ids, Walk(k) \/ Erase(k) PROVE Tracked'
    BY <1>8 DEF Walk, Erase, Keep, Goto, notes, race
  <1>9. CASE PreviewOn \/ PreviewPush
    BY <1>9 DEF PreviewOn, PreviewPush, Enqueue, PushBack, Goto, race
  <1>10. CASE \E i \in Insts : Add(i) \/ Remove(i) \/ Schedule(i)
    BY <1>10 DEF Add, Remove, Schedule, Goto, notes, race
  <1>11. CASE UNCHANGED vars
    BY <1>11 DEF vars, notes, race
  <1> QED
    BY <1>2, <1>3, <1>4, <1>5, <1>6, <1>7, <1>8, <1>9, <1>10, <1>11 DEF Next, Audio, Goes, Gui, GuiEnds

LEMMA NextKeeps == IInv /\ [Next]_vars => IInv'
  <1> SUFFICES ASSUME IInv, [Next]_vars PROVE Most'
    BY TrackedKept, InvPartsNext
  <1>1. CASE Audio
    <2>1. CASE Push \/ Render \/ \E l \in Limits : Begin(l)
      BY <2>1, BeginKeeps, PushKeeps, RenderKeeps
    <2>2. ASSUME NEW f \in at..(n - 1), AllOff(f) PROVE Most'
      BY <2>2, AllOffKeeps
    <2>3. ASSUME NEW f \in at..(n - 1), NEW i \in Insts, NoteOn(i, f) \/ NoteOff(i, f) PROVE Most'
      BY <2>3, NoteOnKeeps, NoteOffKeeps
    <2> QED
      BY <1>1, <2>1, <2>2, <2>3 DEF Audio, Goes
  <1>2. CASE Gui
    BY <1>2, CountsKeep, ListsKeep, PreviewKeeps, KitKeeps DEF Gui, GuiEnds, GuiCounts, GuiLists
  <1>3. CASE \E i \in Insts : Schedule(i)
    BY <1>3, KitKeeps
  <1>4. CASE UNCHANGED vars
    <2>1. Frame /\ Listed /\ AllFit
      BY InvParts
    <2>2. Listed' /\ AllFit'
      BY <1>4, <2>1, SameNotesFit DEF vars, cycle
    <2>3. Frame'
      BY <1>4, <2>1 DEF Frame, vars, cycle, kit, race
    <2> QED
      BY <2>2, <2>3 DEF Most
  <1> QED
    BY <1>1, <1>2, <1>3, <1>4 DEF Next

THEOREM Invariance == Spec => []IInv
  BY Initially, NextKeeps, PTL DEF Spec

(* Whatever the GUI does and whenever it does it, the variables keep their *)
(* types: no note plays beyond its sample, no envelope beyond its release. *)
THEOREM TypeCorrect == Spec => []TypeOK
  <1>1. IInv => TypeOK
    BY DEF IInv
  <1> QED
    BY <1>1, Invariance, PTL

(* However the cycles are cut, a note has played a frame for each frame    *)
(* since it was due.                                                       *)
THEOREM PlayedOnTime == Spec => []OnTime
  <1>1. IInv => OnTime
    BY DEF IInv
  <1> QED
    BY <1>1, Invariance, PTL

(* Between cycles, exactly the notes asked to are in release, since the    *)
(* cycle in which they were asked.                                         *)
THEOREM ReleasedWhenAsked == Spec => []ReleaseAsked
  <1>1. IInv => ReleaseAsked
    <2> SUFFICES ASSUME IInv, cyc = "idle", NEW k \in Ids
                 PROVE  LET v == voices[k]
                        IN  /\ v.rel # Held <=> v.asked # Held
                            /\ v.rel <= v.asked
                            /\ v.rel >= Least(Idle, v.asked - MaxFrames + 1)
      BY DEF ReleaseAsked
    <2>1. Fits(voices[k], "idle", n)
      BY InvParts DEF AllFit
    <2> QED
      BY <2>1, MaxFramesType DEF Fits, Voice, Held, Idle, Least
  <1> QED
    BY <1>1, Invariance, PTL

-----------------------------------------------------------------------------
(* The count.                                                              *)

(* The notes of an instrument are those that stay and those that go.       *)
LEMMA StayAndGo ==
  ASSUME Listed, NEW A \in SUBSET Ids, NEW S \in SUBSET A, NEW i
  PROVE  /\ Cardinality(Of(i, A)) = Cardinality(Of(i, S)) + Cardinality(Of(i, A \ S))
         /\ Cardinality(Of(i, A)) \in Nat /\ Cardinality(Of(i, S)) \in Nat
         /\ Cardinality(Of(i, A \ S)) \in Nat
  <1> DEFINE B == Of(i, A)
             C == Of(i, A \ S)
  <1>1. B \ C = Of(i, S) /\ B \cap C = C
    BY DEF Of
  <1>2. A \ S \in SUBSET Ids /\ S \in SUBSET Ids
    OBVIOUS
  <1>3. IsFiniteSet(B) /\ Cardinality(B) \in Nat
    BY OfFinite
  <1>4. Cardinality(C) \in Nat /\ Cardinality(Of(i, S)) \in Nat
    BY <1>2, OfFinite
  <1>5. Cardinality(B \ C) = Cardinality(B) - Cardinality(B \cap C)
    BY <1>3, FS_Difference
  <1> DEFINE b == Cardinality(B)
             c == Cardinality(C)
             d == Cardinality(Of(i, S))
  <1>6. d = b - c /\ b \in Nat /\ c \in Nat /\ d \in Nat
    BY <1>1, <1>3, <1>4, <1>5
  <1> HIDE DEF b, c, d
  <1>7. b = d + c
    BY <1>6
  <1> QED
    BY <1>6, <1>7 DEF b, c, d

(* What each operation on the list does to the notes of an instrument that *)
(* the GUI has not counted off: notes go, one comes, or all stay.          *)
Waits == Ids \ walked

LEMMA OfKept ==
  ASSUME NEW S \in SUBSET Ids, DOMAIN voices' = S,
         \A k \in S : voices'[k].inst = voices[k].inst, NEW i
  PROVE  Of(i, Waits)' = Of(i, S \ walked')
  BY DEF Of, Waits

LEMMA OfPushed ==
  ASSUME Listed, Tracked, NEW j \in AllInsts, NEW f, PushBack(Begun(j, f)), walked' = walked, NEW i
  PROVE  Cardinality(Of(i, Waits)') = Cardinality(Of(i, Waits)) + (IF i = j THEN 1 ELSE 0)
  <1>1. last + 1 \notin Ids /\ last + 1 \notin Of(i, Waits) /\ last + 1 \notin walked
    BY DEF Listed, Tracked, Of, Waits
  <1>2. Waits' = Waits \cup {last + 1} /\ voices'[last + 1] = Begun(j, f)
        /\ \A k \in Waits : voices'[k] = voices[k]
    BY <1>1 DEF PushBack, Waits
  <1>3. Begun(j, f).inst = j
    BY DEF Begun
  <1>4. IsFiniteSet(Of(i, Waits)) /\ Cardinality(Of(i, Waits)) \in Nat
    <2>1. Waits \in SUBSET Ids
      BY DEF Waits
    <2> QED
      BY <2>1, OfFinite
  <1>5. CASE i = j
    <2>1. Of(i, Waits)' = Of(i, Waits) \cup {last + 1}
      BY <1>2, <1>3, <1>5 DEF Of
    <2> QED
      BY <1>1, <1>4, <1>5, <2>1, FS_AddElement
  <1>6. CASE i # j
    <2>1. Of(i, Waits)' = Of(i, Waits)
      BY <1>2, <1>3, <1>6 DEF Of
    <2> QED
      BY <1>4, <1>6, <2>1
  <1> QED
    BY <1>5, <1>6

LEMMA InstKept ==
  ASSUME AllFit, NEW k \in Ids, NEW f \in Nat
  PROVE  /\ Released(voices[k]).inst = voices[k].inst
         /\ [Ask(voices[k]) EXCEPT !.offset = f].inst = voices[k].inst
         /\ Played(voices[k]).inst = voices[k].inst
  <1>1. voices[k] \in Voice
    BY DEF AllFit, Fits
  <1>2. Played(voices[k]).inst = voices[k].inst
    BY <1>1 DEF Played, Voice
  <1> QED
    BY <1>1, <1>2, AskFields DEF Same

LEMMA OfEnqueued ==
  ASSUME AllFit, NEW j, Enqueue(j), walked' = walked, NEW i
  PROVE  Of(i, Waits)' = Of(i, Waits)
  <1>1. \A k \in Ids : Released(voices[k]).inst = voices[k].inst
    BY InstKept
  <1> QED
    BY <1>1, OfKept DEF Enqueue, Waits

(* The count of an instrument, and what it is made of.                     *)
Sum(i) == Cardinality(Of(i, Waits)) + Starting(i) + stray[i]

LEMMA CountedIs == Counted <=> \A i \in AllInsts : queued[i] = Sum(i)
  BY DEF Counted, Sum, Sounding, Waits

LEMMA SumTypes ==
  ASSUME Frame, Listed, NEW i \in AllInsts
  PROVE  /\ Cardinality(Of(i, Waits)) \in Nat /\ Starting(i) \in Nat
         /\ queued[i] \in Int /\ stray[i] \in Int
  <1>1. Waits \in SUBSET Ids
    BY DEF Waits
  <1> QED
    BY <1>1, OfFinite DEF Starting, Frame

(* Dropping the notes outside S and counting them off.                     *)
LEMMA DropCounted ==
  ASSUME Frame, Listed, Counted, NEW S \in SUBSET Ids, Drop(Ids \ S),
         DOMAIN voices' = S, \A k \in S : voices'[k].inst = voices[k].inst,
         NEW i \in AllInsts, Starting(i)' = Starting(i)
  PROVE  queued'[i] = Sum(i)'
  <1> DEFINE G == Ids \ S
             w == Cardinality(Of(i, Waits))
             stay == Cardinality(Of(i, S \ walked))
             go == Cardinality(Of(i, G))
             new == Cardinality(Of(i, G \ walked))
             old == Cardinality(Of(i, G \cap walked))
  <1>1. G \in SUBSET Ids /\ G \cap walked \in SUBSET G /\ G \ (G \cap walked) = G \ walked
        /\ Waits \in SUBSET Ids /\ S \ walked \in SUBSET Waits /\ Waits \ (S \ walked) = G \ walked
    BY DEF Waits
  <1>2. go = old + new /\ go \in Nat /\ old \in Nat /\ new \in Nat
    BY <1>1, StayAndGo
  <1>3. w = stay + new /\ w \in Nat /\ stay \in Nat
    <2> DEFINE A == Waits
               T == S \ walked
    <2>1. A \in SUBSET Ids /\ T \in SUBSET A /\ A \ T = G \ walked
      BY <1>1
    <2> HIDE DEF A, T, G
    <2>2. /\ Cardinality(Of(i, A)) = Cardinality(Of(i, T)) + Cardinality(Of(i, A \ T))
          /\ Cardinality(Of(i, A)) \in Nat /\ Cardinality(Of(i, T)) \in Nat
      BY <2>1, StayAndGo
    <2> QED
      BY <2>1, <2>2 DEF A, T
  <1>4. queued'[i] = queued[i] - go /\ stray'[i] = stray[i] - old
    BY DEF Drop, Dequeue
  <1>5. queued[i] = w + Starting(i) + stray[i] /\ Starting(i) \in Nat /\ stray[i] \in Int
    BY CountedIs, SumTypes DEF Sum
  <1>6. Cardinality(Of(i, Waits)') = stay
    <2>1. walked' = walked \ G
      BY DEF Drop
    <2>2. S \ walked' = S \ walked
      BY <2>1
    <2> QED
      BY <2>2, OfKept
  <1>7. Sum(i)' = stay + Starting(i) + stray'[i]
    BY <1>6 DEF Sum
  <1> HIDE DEF go, old, new, stay, w, G
  <1>8. PICK st \in Nat, x \in Int : st = Starting(i) /\ x = stray[i]
    BY <1>5
  <1> QED
    BY <1>2, <1>3, <1>4, <1>5, <1>7, <1>8

(* The notes to come that are counted already, for either thread.          *)
Mine(i)   == IF cyc = "push" /\ note = i THEN 1 ELSE 0
Theirs(i) == IF gui \in {"old", "push"} /\ Preview = i THEN 1 ELSE 0

LEMMA StartingIs == \A i : Starting(i) = Mine(i) + Theirs(i)
  BY DEF Starting, Mine, Theirs

(* How the count and what it is made of change together.                   *)
LEMMA Balance ==
  ASSUME NEW q \in Int, NEW w \in Int, NEW m \in Int, NEW t \in Int, NEW x \in Int,
         q = w + (m + t) + x,
         NEW dw \in Int, NEW dm \in Int, NEW dt \in Int, NEW dx \in Int
  PROVE  q + (dw + dm + dt + dx) = (w + dw) + ((m + dm) + (t + dt)) + (x + dx)
  OBVIOUS

LEMMA Balanced ==
  ASSUME Frame, Listed, Counted, NEW i \in AllInsts,
         NEW dw \in Int, NEW dm \in Int, NEW dt \in Int, NEW dx \in Int,
         Cardinality(Of(i, Waits)') = Cardinality(Of(i, Waits)) + dw,
         Mine(i)' = Mine(i) + dm, Theirs(i)' = Theirs(i) + dt,
         stray'[i] = stray[i] + dx,
         queued'[i] = queued[i] + (dw + dm + dt + dx)
  PROVE  queued'[i] = Sum(i)'
  <1>1. PICK w \in Int : w = Cardinality(Of(i, Waits))
    BY SumTypes
  <1>2. PICK m \in Int : m = Mine(i)
    BY DEF Mine
  <1>3. PICK t \in Int : t = Theirs(i)
    BY DEF Theirs
  <1>4. PICK x \in Int : x = stray[i]
    BY SumTypes
  <1>5. PICK q \in Int : q = queued[i]
    BY SumTypes
  <1>6. q = w + (m + t) + x
    BY <1>1, <1>2, <1>3, <1>4, <1>5, CountedIs, StartingIs DEF Sum
  <1>7. q + (dw + dm + dt + dx) = (w + dw) + ((m + dm) + (t + dt)) + (x + dx)
    BY <1>6, Balance
  <1>8. Starting(i)' = Mine(i)' + Theirs(i)'
    BY DEF Starting, Mine, Theirs
  <1>9. Sum(i)' = (w + dw) + ((m + dm) + (t + dt)) + (x + dx)
    BY <1>1, <1>2, <1>3, <1>4, <1>8 DEF Sum
  <1> QED
    BY <1>5, <1>7, <1>9

LEMMA AudioCounted ==
  ASSUME IInv, Counted, Audio PROVE Counted'
  <1>1. Frame /\ Listed /\ AllFit /\ Tracked
    BY InvParts
  <1> SUFFICES ASSUME NEW i \in AllInsts PROVE queued'[i] = Sum(i)'
    BY DEF Counted, Sum, Sounding, Waits
  <1>2. gui' = gui
    BY DEF Audio, Goes, Begin, Push, Render, NoteOn, NoteOff, AllOff, Event
  <1>3. Theirs(i)' = Theirs(i) + 0
    BY <1>2 DEF Theirs
  <1>4. queued[i] \in Int /\ stray[i] \in Int /\ Cardinality(Of(i, Waits)) \in Nat
    BY <1>1, SumTypes
  <1>5. Mine(i)' = Mine(i) => Starting(i)' = Starting(i)
    BY <1>2 DEF Starting, Mine
  <1>6. ASSUME NEW l \in Limits, Begin(l) PROVE queued'[i] = Sum(i)'
    <2>1. WithinLimit(l) \in SUBSET Ids
      BY DEF WithinLimit
    <2>2. Starting(i)' = Starting(i)
      BY <1>5, <1>6 DEF Begin, Mine
    <2> QED
      BY <1>1, <1>6, <2>1, <2>2, DropCounted DEF Begin, Keep
  <1>7. CASE Push
    <2>1. Cardinality(Of(i, Waits)') = Cardinality(Of(i, Waits)) + (IF i = note THEN 1 ELSE 0)
      BY <1>1, <1>7, OfPushed DEF Push, Frame, race
    <2>2. Mine(i)' = Mine(i) + (IF i = note THEN -1 ELSE 0)
      BY <1>7 DEF Push, Mine
    <2>3. queued'[i] = queued[i] + 0 /\ stray'[i] = stray[i] + 0
      BY <1>4, <1>7 DEF Push, race
    <2>4. CASE i = note
      BY <1>1, <1>3, <2>1, <2>2, <2>3, <2>4, Balanced
    <2>5. CASE i # note
      BY <1>1, <1>3, <2>1, <2>2, <2>3, <2>5, Balanced
    <2> QED
      BY <2>4, <2>5
  <1>8. CASE Render
    <2>1. Live \in SUBSET Ids
      BY DEF Live
    <2>2. \A k \in Live : voices'[k].inst = voices[k].inst
      BY <1>1, <1>8, <2>1, InstKept DEF Render
    <2>3. Starting(i)' = Starting(i)
      BY <1>5, <1>8 DEF Render, Mine
    <2> QED
      BY <1>1, <1>8, <2>1, <2>2, <2>3, DropCounted DEF Render
  <1>9. ASSUME NEW f \in at..(n - 1), AllOff(f) PROVE queued'[i] = Sum(i)'
    <2> DEFINE S == {}
    <2>1. S \in SUBSET Ids /\ Ids \ S = Ids
      OBVIOUS
    <2>2. Drop(Ids \ S) /\ DOMAIN voices' = S
      BY <1>9, <2>1 DEF AllOff, Keep
    <2>3. \A k \in S : voices'[k].inst = voices[k].inst
      OBVIOUS
    <2>4. Starting(i)' = Starting(i)
      BY <1>5, <1>9 DEF AllOff, Event, Mine
    <2> HIDE DEF S
    <2> QED
      BY <1>1, <2>1, <2>2, <2>3, <2>4, DropCounted
  <1>10. ASSUME NEW f \in at..(n - 1), NEW j \in Insts, NoteOn(j, f) PROVE queued'[i] = Sum(i)'
    <2>1. Of(i, Waits)' = Of(i, Waits)
      BY <1>1, <1>10, OfEnqueued DEF NoteOn, race
    <2>2. Mine(i)' = Mine(i) + (IF i = j THEN 1 ELSE 0)
      BY <1>10 DEF NoteOn, Event, Mine
    <2>3. queued'[i] = queued[i] + (IF i = j THEN 1 ELSE 0)
      BY <1>1, <1>4, <1>10 DEF NoteOn, Enqueue, Frame
    <2>4. Cardinality(Of(i, Waits)') = Cardinality(Of(i, Waits)) + 0 /\ stray'[i] = stray[i] + 0
      BY <1>4, <1>10, <2>1 DEF NoteOn, race
    <2>5. CASE i = j
      BY <1>1, <1>3, <2>2, <2>3, <2>4, <2>5, Balanced
    <2>6. CASE i # j
      BY <1>1, <1>3, <2>2, <2>3, <2>4, <2>6, Balanced
    <2> QED
      BY <2>5, <2>6
  <1>11. ASSUME NEW f \in at..(n - 1), NEW j \in Insts, NoteOff(j, f) PROVE queued'[i] = Sum(i)'
    <2>1. f \in Nat
      BY <1>1, CyclesAssumption DEF Frame
    <2>2. \A k \in Ids : voices'[k].inst = voices[k].inst
      BY <1>1, <1>11, <2>1, InstKept DEF NoteOff, Offset, Ends, Of
    <2>3. Of(i, Waits)' = Of(i, Waits)
      BY <1>11, <2>2, OfKept DEF NoteOff, Waits, race
    <2>4. Cardinality(Of(i, Waits)') = Cardinality(Of(i, Waits)) + 0 /\ stray'[i] = stray[i] + 0
          /\ queued'[i] = queued[i] + 0 /\ Mine(i)' = Mine(i) + 0
      BY <1>4, <1>11, <2>3 DEF NoteOff, Event, Mine, race
    <2> QED
      BY <1>1, <1>3, <2>4, Balanced
  <1> QED
    BY <1>6, <1>7, <1>8, <1>9, <1>10, <1>11 DEF Audio, Goes

(* One note fewer is waiting to be counted off.                            *)
LEMMA OneLess ==
  ASSUME Listed, NEW k \in Waits, NEW i
  PROVE  Cardinality(Of(i, Waits \ {k})) = Cardinality(Of(i, Waits)) + (IF voices[k].inst = i THEN -1 ELSE 0)
  <1>1. Waits \in SUBSET Ids /\ Waits \ {k} \in SUBSET Waits /\ Waits \ (Waits \ {k}) = {k}
    BY DEF Waits
  <1>2. /\ Cardinality(Of(i, Waits)) = Cardinality(Of(i, Waits \ {k})) + Cardinality(Of(i, {k}))
        /\ Cardinality(Of(i, Waits)) \in Nat /\ Cardinality(Of(i, Waits \ {k})) \in Nat
    BY <1>1, StayAndGo
  <1>3. Cardinality(Of(i, {k})) = IF voices[k].inst = i THEN 1 ELSE 0
    <2>1. CASE voices[k].inst = i
      <3>1. Of(i, {k}) = {k}
        BY <2>1 DEF Of
      <3> QED
        BY <2>1, <3>1, FS_Singleton
    <2>2. CASE voices[k].inst # i
      <3>1. Of(i, {k}) = {}
        BY <2>2 DEF Of
      <3> QED
        BY <2>2, <3>1, FS_EmptySet
    <2> QED
      BY <2>1, <2>2
  <1> QED
    BY <1>2, <1>3

(* What is lost of a count is miscounted.                                  *)
LEMMA CountOffIs ==
  ASSUME Frame, NEW j \in AllInsts, NEW i \in AllInsts, CountOff(j)
  PROVE  \E dx \in Int : /\ stray'[i] = stray[i] + dx
                         /\ queued'[i] = queued[i] + ((IF i = j THEN -1 ELSE 0) + dx)
  <1>1. PICK e \in Lost(j) : /\ queued' = [queued EXCEPT ![j] = @ - 1 + e]
                             /\ stray' = [stray EXCEPT ![j] = @ + e]
    BY DEF CountOff
  <1>2. e \in Int /\ queued[i] \in Int /\ stray[i] \in Int
    BY DEF Lost, Frame
  <1>3. CASE i = j
    <2>1. queued'[i] = queued[i] + (-1 + e) /\ stray'[i] = stray[i] + e
      BY <1>1, <1>2, <1>3 DEF Frame
    <2> QED
      BY <1>2, <1>3, <2>1
  <1>4. CASE i # j
    <2>1. queued'[i] = queued[i] + (0 + 0) /\ stray'[i] = stray[i] + 0
      BY <1>1, <1>2, <1>4 DEF Frame
    <2> QED
      BY <1>4, <2>1
  <1> QED
    BY <1>3, <1>4

LEMMA GuiCounted ==
  ASSUME IInv, Counted, Gui \/ \E j \in Insts : Schedule(j) PROVE Counted'
  <1>1. Frame /\ Listed /\ AllFit /\ Tracked
    BY InvParts
  <1> SUFFICES ASSUME NEW i \in AllInsts PROVE queued'[i] = Sum(i)'
    BY DEF Counted, Sum, Sounding, Waits
  <1>2. cyc' = cyc /\ note' = note
    BY DEF Gui, GuiEnds, StopAll, Walk, EndWalk, Clear, PreviewSample, Erase, CountOld, PreviewOn,
           PreviewPush, Kill, Add, Remove, Schedule, cycle
  <1>3. Mine(i)' = Mine(i) + 0
    BY <1>2 DEF Mine
  <1>4. queued[i] \in Int /\ stray[i] \in Int /\ Cardinality(Of(i, Waits)) \in Nat
    BY <1>1, SumTypes
  <1>5. Theirs(i) = (IF gui \in {"old", "push"} /\ Preview = i THEN 1 ELSE 0)
        /\ Theirs(i)' = (IF gui' \in {"old", "push"} /\ Preview = i THEN 1 ELSE 0)
    BY DEF Theirs
  <1>6. CASE \/ StopAll \/ EndWalk \/ PreviewSample \/ Kill
             \/ \E j \in Insts : Add(j) \/ Remove(j) \/ Schedule(j)
    <2>1. voices' = voices /\ queued' = queued /\ stray' = stray
      BY <1>6 DEF StopAll, EndWalk, PreviewSample, Kill, Add, Remove, Schedule, notes, race
    <2>2. walked' = walked
      BY <1>1, <1>6 DEF StopAll, EndWalk, PreviewSample, Kill, Add, Remove, Schedule, race, Goto,
                        Tracked, WalkedWhile
    <2>3. Theirs(i)' = Theirs(i) + 0
      BY <1>5, <1>6 DEF StopAll, EndWalk, PreviewSample, Kill, Add, Remove, Schedule, Goto
    <2>4. Cardinality(Of(i, Waits)') = Cardinality(Of(i, Waits)) + 0
          /\ stray'[i] = stray[i] + 0 /\ queued'[i] = queued[i] + 0
      BY <1>4, <2>1, <2>2 DEF Of, Waits
    <2> QED
      BY <1>1, <1>3, <2>3, <2>4, Balanced
  <1>7. ASSUME NEW k \in Ids, Walk(k) PROVE queued'[i] = Sum(i)'
    <2>1. k \in Waits /\ voices[k].inst \in AllInsts
      BY <1>1, <1>7 DEF Walk, Following, Waits, AllFit, Fits, Voice
    <2>2. Of(i, Waits)' = Of(i, Waits \ {k})
      BY <1>7 DEF Walk, Waits, Of, notes
    <2>3. Cardinality(Of(i, Waits)') = Cardinality(Of(i, Waits)) + (IF voices[k].inst = i THEN -1 ELSE 0)
      BY <1>1, <2>1, <2>2, OneLess
    <2>4. PICK dx \in Int : /\ stray'[i] = stray[i] + dx
                            /\ queued'[i] = queued[i] + ((IF i = voices[k].inst THEN -1 ELSE 0) + dx)
      BY <1>1, <1>7, <2>1, CountOffIs DEF Walk
    <2>5. Theirs(i)' = Theirs(i) + 0
      BY <1>5, <1>7 DEF Walk, Goto
    <2>6. stray'[i] = stray[i] + dx
      BY <2>4
    <2>7. CASE i = voices[k].inst
      <3>1. /\ queued'[i] = queued[i] + (-1 + 0 + 0 + dx)
            /\ Cardinality(Of(i, Waits)') = Cardinality(Of(i, Waits)) + -1
        BY <1>4, <2>3, <2>4, <2>7
      <3>2. -1 \in Int /\ 0 \in Int
        OBVIOUS
      <3> QED
        BY <1>1, <1>3, <2>5, <2>6, <3>1, <3>2, Balanced, SMTT(60)
    <2>8. CASE i # voices[k].inst
      <3>1. /\ queued'[i] = queued[i] + (0 + 0 + 0 + dx)
            /\ Cardinality(Of(i, Waits)') = Cardinality(Of(i, Waits)) + 0
        BY <1>4, <2>3, <2>4, <2>8
      <3>2. 0 \in Int
        OBVIOUS
      <3> QED
        BY <1>1, <1>3, <2>5, <2>6, <3>1, <3>2, Balanced, SMTT(60)
    <2> QED
      BY <2>7, <2>8
  <1>8. CASE Clear
    <2>1. PICK x \in Int : x = Cardinality(Of(i, Waits))
      BY <1>4
    <2>2. queued'[i] = queued[i] /\ stray'[i] = stray[i] + x
      BY <1>8, <2>1 DEF Clear, Waits
    <2>3. Cardinality(Of(i, Waits)') = 0
      <3>1. Of(i, Waits)' = {}
        BY <1>8 DEF Clear, Keep, Of, Waits
      <3> QED
        BY <3>1, FS_EmptySet
    <2>4. Theirs(i)' = Theirs(i) + 0
      BY <1>5, <1>8 DEF Clear, Goto
    <2>5. PICK d \in Int : d = -x
      OBVIOUS
    <2>6. Cardinality(Of(i, Waits)') = Cardinality(Of(i, Waits)) + d
      BY <2>1, <2>3, <2>5
    <2>7. queued'[i] = queued[i] + (d + 0 + 0 + x)
      BY <1>4, <2>2, <2>5
    <2> QED
      BY <1>1, <1>3, <2>2, <2>4, <2>6, <2>7, Balanced
  <1>9. ASSUME NEW k \in Ids, Erase(k) PROVE queued'[i] = Sum(i)'
    <2>1. walked = {} /\ walked' = {} /\ Waits = Ids /\ k \in Waits /\ voices[k].inst = Preview
      BY <1>1, <1>9 DEF Erase, Goto, Tracked, WalkedWhile, Waits, race, Of
    <2>2. Of(i, Waits)' = Of(i, Waits \ {k})
      BY <1>9, <2>1 DEF Erase, Keep, Waits, Of
    <2>3. Cardinality(Of(i, Waits)') = Cardinality(Of(i, Waits)) + (IF i = Preview THEN -1 ELSE 0)
      BY <1>1, <2>1, <2>2, OneLess
    <2>4. Theirs(i)' = Theirs(i) + (IF i = Preview THEN 1 ELSE 0)
      BY <1>5, <1>9 DEF Erase, Goto
    <2>5. queued'[i] = queued[i] + 0 /\ stray'[i] = stray[i] + 0
      BY <1>4, <1>9 DEF Erase, race
    <2>6. CASE i = Preview
      BY <1>1, <1>3, <2>3, <2>4, <2>5, <2>6, Balanced
    <2>7. CASE i # Preview
      BY <1>1, <1>3, <2>3, <2>4, <2>5, <2>7, Balanced
    <2> QED
      BY <2>6, <2>7
  <1>10. CASE CountOld
    <2>1. PICK dx \in Int : /\ stray'[i] = stray[i] + dx
                            /\ queued'[i] = queued[i] + ((IF i = Preview THEN -1 ELSE 0) + dx)
      BY <1>1, <1>10, CountOffIs DEF CountOld, AllInsts
    <2>2. Theirs(i)' = Theirs(i) + (IF i = Preview THEN -1 ELSE 0)
      BY <1>5, <1>10 DEF CountOld, Goto
    <2>3. Cardinality(Of(i, Waits)') = Cardinality(Of(i, Waits)) + 0
      BY <1>4, <1>10 DEF CountOld, Of, Waits, notes
    <2>4. stray'[i] = stray[i] + dx
      BY <2>1
    <2>5. CASE i = Preview
      <3>1. queued'[i] = queued[i] + (0 + 0 + -1 + dx) /\ Theirs(i)' = Theirs(i) + -1
        BY <1>4, <2>1, <2>2, <2>5
      <3> QED
        BY <1>1, <1>3, <2>3, <2>4, <3>1, Balanced, SMTT(60)
    <2>6. CASE i # Preview
      <3>1. queued'[i] = queued[i] + (0 + 0 + 0 + dx) /\ Theirs(i)' = Theirs(i) + 0
        BY <1>4, <2>1, <2>2, <2>6
      <3> QED
        BY <1>1, <1>3, <2>3, <2>4, <3>1, Balanced, SMTT(60)
    <2> QED
      BY <2>5, <2>6
  <1>11. CASE PreviewOn
    <2>1. Of(i, Waits)' = Of(i, Waits)
      BY <1>1, <1>11, OfEnqueued DEF PreviewOn, race
    <2>2. Cardinality(Of(i, Waits)') = Cardinality(Of(i, Waits)) + 0 /\ stray'[i] = stray[i] + 0
      BY <1>4, <1>11, <2>1 DEF PreviewOn, race
    <2>3. Theirs(i)' = Theirs(i) + (IF i = Preview THEN 1 ELSE 0)
      BY <1>5, <1>11 DEF PreviewOn, Goto
    <2>4. queued'[i] = queued[i] + (IF i = Preview THEN 1 ELSE 0)
      BY <1>1, <1>4, <1>11 DEF PreviewOn, Enqueue, Frame
    <2>5. CASE i = Preview
      BY <1>1, <1>3, <2>2, <2>3, <2>4, <2>5, Balanced
    <2>6. CASE i # Preview
      BY <1>1, <1>3, <2>2, <2>3, <2>4, <2>6, Balanced
    <2> QED
      BY <2>5, <2>6
  <1>12. CASE PreviewPush
    <2>1. Cardinality(Of(i, Waits)') = Cardinality(Of(i, Waits)) + (IF i = Preview THEN 1 ELSE 0)
      BY <1>1, <1>12, OfPushed DEF PreviewPush, AllInsts, race
    <2>2. Theirs(i)' = Theirs(i) + (IF i = Preview THEN -1 ELSE 0)
      BY <1>5, <1>12 DEF PreviewPush, Goto
    <2>3. queued'[i] = queued[i] + 0 /\ stray'[i] = stray[i] + 0
      BY <1>4, <1>12 DEF PreviewPush, race
    <2>4. CASE i = Preview
      BY <1>1, <1>3, <2>1, <2>2, <2>3, <2>4, Balanced
    <2>5. CASE i # Preview
      BY <1>1, <1>3, <2>1, <2>2, <2>3, <2>5, Balanced
    <2> QED
      BY <2>4, <2>5
  <1> QED
    BY <1>6, <1>7, <1>8, <1>9, <1>10, <1>11, <1>12 DEF Gui, GuiEnds

-----------------------------------------------------------------------------
(* Mute groups.                                                            *)

(* Notes that stay keep their instrument, and, once released, are.          *)
Stays(k) == /\ k \in Ids /\ voices'[k].inst = voices[k].inst
            /\ voices[k].rel # Held => voices'[k].rel # Held

LEMMA ReleasedStays ==
  ASSUME AllFit, NEW k \in Ids, NEW f \in Nat
  PROVE  /\ Released(voices[k]).rel # Held
         /\ [Ask(voices[k]) EXCEPT !.offset = f].rel = voices[k].rel
  <1>1. voices[k] \in Voice
    BY DEF AllFit, Fits
  <1>2. /\ Released(voices[k]).rel = (IF voices[k].rel = Held THEN 0 ELSE voices[k].rel)
        /\ [Ask(voices[k]) EXCEPT !.offset = f].rel = voices[k].rel
    BY <1>1, AskFields
  <1> QED
    BY <1>2 DEF Held

LEMMA PlayedStays ==
  ASSUME AllFit, Frame, cyc # "idle", NEW k \in Ids, voices[k].rel # Held, ~Over(voices[k])
  PROVE  Played(voices[k]).rel # Held
  <1> DEFINE v == voices[k]
  <1>1. Fits(v, cyc, n) /\ v \in Voice /\ v.asked # Held /\ n \in Nat
    BY CyclesAssumption DEF AllFit, Fits, Frame
  <1>2. Played(v).asked = v.asked + n /\ Played(v).asked # Held
    BY <1>1 DEF Played, Voice, Held
  <1>3. Fits(Played(v), "idle", 0)
    BY <1>1, PlayedFits DEF Frame
  <1> HIDE DEF v
  <1>4. Played(v).rel # Held
    BY <1>2, <1>3 DEF Fits
  <1> QED
    BY <1>4 DEF v

(* An action that begins no note leaves mute groups respected.             *)
LEMMA StaysExclusive ==
  ASSUME Exclusive, \A k \in Ids' : Stays(k)
  PROVE  Exclusive' /\ \A i : Choked(i) => Choked(i)'
  <1>1. Exclusive'
    BY DEF Exclusive, Stays
  <1>2. ASSUME NEW i, Choked(i) PROVE Choked(i)'
    BY <1>2 DEF Choked, Chokes, Stays
  <1> QED
    BY <1>1, <1>2

(* A note that has choked its group may join the list.                     *)
LEMMA PushedExclusive ==
  ASSUME Listed, Exclusive, NEW i \in AllInsts, NEW f, Choked(i), PushBack(Begun(i, f))
  PROVE  Exclusive'
  <1>1. Ids' = Ids \cup {last + 1} /\ voices'[last + 1] = Begun(i, f) /\ Begun(i, f).inst = i
        /\ \A k \in Ids : voices'[k] = voices[k] /\ k < last + 1
    BY DEF PushBack, Listed, Begun
  <1>2. \A k \in Ids : ~(last + 1 < k) /\ k \in Int /\ last \in Int
    BY <1>1 DEF Listed
  <1> QED
    BY <1>1, <1>2 DEF Exclusive, Choked, Chokes

LEMMA EnqueueStays ==
  ASSUME AllFit, NEW i, Enqueue(i)
  PROVE  (\A k \in Ids' : Stays(k)) /\ Choked(i)'
  <1>1. ASSUME NEW k \in Ids
        PROVE  Released(voices[k]).rel # Held /\ Released(voices[k]).inst = voices[k].inst
    BY ReleasedStays, InstKept
  <1>2. Ids' = Ids
    BY DEF Enqueue
  <1>3. ASSUME NEW k \in Ids
        PROVE  voices'[k] = IF Chokes(i, voices[k].inst) THEN Released(voices[k]) ELSE voices[k]
    BY DEF Enqueue
  <1>4. \A k \in Ids' : Stays(k)
    BY <1>1, <1>2, <1>3 DEF Stays
  <1>5. Choked(i)'
    BY <1>1, <1>2, <1>3 DEF Choked, Chokes
  <1> QED
    BY <1>4, <1>5

(* Nor does a preview disturb them.                                        *)
LEMMA PreviewExclusive ==
  ASSUME Listed, Exclusive, NEW f, PushBack(Begun(Preview, f))
  PROVE  Exclusive' /\ \A i : Choked(i) => Choked(i)'
  <1>1. Ids' = Ids \cup {last + 1} /\ voices'[last + 1] = Begun(Preview, f)
        /\ Begun(Preview, f).inst = Preview /\ \A k \in Ids : k < last + 1
    BY DEF PushBack, Listed, Begun
  <1>2. \A k \in Ids : voices'[k] = voices[k]
    BY DEF PushBack, Listed
  <1> QED
    BY <1>1, <1>2 DEF Exclusive, Choked

LEMMA GroupsKept ==
  ASSUME IInv, GroupInv, [Next]_vars PROVE GroupInv'
  <1>1. Frame /\ Listed /\ AllFit
    BY InvParts
  <1>2. CASE Push
    <2>1. Choked(note) /\ note \in AllInsts /\ PushBack(Begun(note, at)) /\ cyc' = "events"
      BY <1>1, <1>2 DEF Push, GroupInv, ChokedFirst, Frame
    <2> QED
      BY <1>1, <2>1, PushedExclusive DEF GroupInv, ChokedFirst
  <1>3. CASE PreviewPush
    <2>1. PushBack(Begun(Preview, 0)) /\ cyc' = cyc /\ note' = note
      BY <1>3 DEF PreviewPush, cycle
    <2>2. Exclusive' /\ \A i : Choked(i) => Choked(i)'
      BY <1>1, <2>1, PreviewExclusive DEF GroupInv
    <2> QED
      BY <2>1, <2>2 DEF GroupInv, ChokedFirst
  <1>4. CASE \E f \in at..(n - 1) : \E i \in Insts : NoteOn(i, f)
    <2>1. PICK f, i : NoteOn(i, f)
      BY <1>4
    <2>2. Enqueue(i) /\ note' = i
      BY <2>1 DEF NoteOn
    <2>3. (\A k \in Ids' : Stays(k)) /\ Choked(i)'
      BY <1>1, <2>2, EnqueueStays
    <2> QED
      BY <2>2, <2>3, StaysExclusive DEF GroupInv, ChokedFirst, Choked
  <1>5. ASSUME \A k \in Ids' : Stays(k), cyc' = "push" => cyc = "push" /\ note' = note
        PROVE  GroupInv'
    <2>1. Exclusive' /\ \A i : Choked(i) => Choked(i)'
      BY <1>5, StaysExclusive DEF GroupInv
    <2> QED
      BY <1>5, <2>1 DEF GroupInv, ChokedFirst
  <1>6. CASE PreviewOn
    <2>1. \A k \in Ids' : Stays(k)
      BY <1>1, <1>6, EnqueueStays DEF PreviewOn
    <2> QED
      BY <1>5, <1>6, <2>1 DEF PreviewOn, cycle
  <1>7. CASE \E l \in Limits : Begin(l)
    BY <1>5, <1>7 DEF Begin, Keep, WithinLimit, Stays
  <1>8. CASE Render
    <2>1. ASSUME NEW k \in Ids' PROVE Stays(k)
      <3>1. k \in Ids /\ ~Over(voices[k]) /\ voices'[k] = Played(voices[k])
        BY <1>8 DEF Render, Live
      <3> QED
        BY <1>1, <1>8, <3>1, PlayedStays, InstKept DEF Render, Stays
    <2> QED
      BY <1>5, <1>8, <2>1 DEF Render
  <1>9. CASE \E f \in at..(n - 1) : AllOff(f) \/ \E i \in Insts : NoteOff(i, f)
    <2>1. PICK f \in at..(n - 1) : AllOff(f) \/ \E i \in Insts : NoteOff(i, f)
      BY <1>9
    <2>2. f \in Nat
      BY <1>1, CyclesAssumption DEF Frame
    <2>3. CASE AllOff(f)
      BY <1>5, <2>3 DEF AllOff, Event, Keep
    <2>4. CASE \E i \in Insts : NoteOff(i, f)
      <3>1. \A k \in Ids' : Stays(k)
        BY <1>1, <2>2, <2>4, InstKept, ReleasedStays DEF NoteOff, Stays, Offset, Ends, Of
      <3> QED
        BY <1>5, <2>4, <3>1 DEF NoteOff, Event
    <2> QED
      BY <2>1, <2>3, <2>4
  <1>10. CASE \/ StopAll \/ EndWalk \/ PreviewSample \/ CountOld \/ Kill
              \/ (\E k \in Ids : Walk(k))
              \/ \E i \in Insts : Add(i) \/ Remove(i) \/ Schedule(i)
    BY <1>5, <1>10 DEF StopAll, EndWalk, PreviewSample, CountOld, Kill, Walk, Add, Remove, Schedule,
                       Stays, cycle, notes
  <1>11. CASE Clear \/ \E k \in Ids : Erase(k)
    BY <1>5, <1>11 DEF Clear, Erase, Keep, Stays, cycle
  <1>12. CASE UNCHANGED vars
    BY <1>5, <1>12 DEF vars, Stays, cycle, notes
  <1> QED
    BY <1>2, <1>3, <1>4, <1>6, <1>7, <1>8, <1>9, <1>10, <1>11, <1>12 DEF Next, Audio, Goes, Gui, GuiEnds

LEMMA BothInitially == Init => Counted /\ GroupInv
  <1> SUFFICES ASSUME Init PROVE Counted /\ GroupInv
    OBVIOUS
  <1>1. Ids = {} /\ walked = {}
    BY DEF Init
  <1>2. \A i : Cardinality(Of(i, Ids \ walked)) = 0
    BY <1>1, FS_EmptySet DEF Of
  <1>3. Counted
    BY <1>2 DEF Init, Counted, Sounding, Starting, AllInsts
  <1> QED
    BY <1>1, <1>3 DEF Init, GroupInv, ChokedFirst, Exclusive

LEMMA CountKept == IInv /\ Counted /\ [Next]_vars => Counted'
  <1> SUFFICES ASSUME IInv, Counted, [Next]_vars PROVE Counted'
    OBVIOUS
  <1>1. CASE Next
    BY <1>1, AudioCounted, GuiCounted DEF Next
  <1>2. CASE UNCHANGED vars
    BY <1>2 DEF vars, cycle, notes, race, Counted, Sounding, Starting, Of
  <1> QED
    BY <1>1, <1>2

-----------------------------------------------------------------------------
(* Whatever the driver and the GUI do at once, an instrument counts its    *)
(* notes, but for those miscounted in one of the three ways named by stray: *)
(* where none has been, the count is exact.                                *)
THEOREM CountIsRight == Spec => []Counted
  <1>1. Init => Counted
    BY BothInitially
  <1> QED
    BY <1>1, CountKept, Invariance, PTL DEF Spec

(* Of two notes on different instruments of a mute group, the older one is *)
(* in release, unless one of them is a preview.                            *)
THEOREM MuteGroups == Spec => []Exclusive
  <1>1. IInv /\ GroupInv /\ [Next]_vars => GroupInv'
    BY GroupsKept
  <1>2. Init => GroupInv
    BY BothInitially
  <1>3. GroupInv => Exclusive
    BY DEF GroupInv
  <1> QED
    BY <1>1, <1>2, <1>3, Invariance, PTL DEF Spec

(* No instrument is deleted that plays a note, unless its count has become *)
(* too low.                                                                *)
LEMMA KillsSilent ==
  ASSUME Frame, Listed, Tracked, Counted, NEW i \in Insts, Waiting(i), ~Waiting(i)', [Next]_vars
  PROVE  ~Playing(i) \/ stray[i] < 0
  <1>1. CASE Kill
    <2> DEFINE row == Append(doomed, victim)
    <2>1. PICK m \in 0..Len(row) : /\ \A p \in 1..m : Silent(row[p])
                                   /\ doomed' = SubSeq(row, m + 1, Len(row))
      BY <1>1, KillRow
    <2>2. row \in Seq(AllInsts) /\ Len(row) = Len(doomed) + 1
          /\ row[Len(row)] = victim /\ \A p \in DOMAIN doomed : row[p] = doomed[p] /\ p \in 1..Len(row)
      BY DEF Frame
    <2>3. PICK p \in 1..Len(row) : row[p] = i
      BY <2>2 DEF Waiting, OnRow
    <2> HIDE DEF row
    <2>4. p <= m
      <3> SUFFICES ASSUME p > m PROVE FALSE
        BY <2>1, <2>2
      <3>1. p - m \in DOMAIN doomed' /\ doomed'[p - m] = i
        BY <2>1, <2>2, <2>3, SubSeqProperties
      <3> QED
        BY <3>1 DEF Waiting, OnRow
    <2>5. queued[i] = 0
      BY <2>1, <2>2, <2>3, <2>4 DEF Silent
    <2>6. gui = "kill" /\ walked = {} /\ Waits = Ids /\ i \in AllInsts
      BY <1>1 DEF Kill, Goto, AllInsts, Tracked, WalkedWhile, Waits
    <2>7. Cardinality(Of(i, Ids)) + Starting(i) + stray[i] = 0
      BY <2>5, <2>6, CountedIs DEF Sum
    <2>8. IsFiniteSet(Of(i, Ids)) /\ Cardinality(Of(i, Ids)) \in Nat /\ Starting(i) \in Nat
          /\ stray[i] \in Int
      BY <2>6, OfFinite DEF Starting, Frame
    <2>9. stray[i] < 0 \/ (Cardinality(Of(i, Ids)) = 0 /\ Starting(i) = 0)
      BY <2>7, <2>8
    <2>10. Cardinality(Of(i, Ids)) = 0 => Of(i, Ids) = {}
      BY <2>8, FS_EmptySet
    <2> QED
      BY <2>9, <2>10 DEF Playing
  <1>2. CASE ~Kill
    <2>1. doomed' = doomed
      BY <1>2 DEF Next, Audio, Goes, Begin, Push, Render, NoteOn, NoteOff, AllOff, Event, Schedule,
                  Gui, GuiEnds, StopAll, Walk, EndWalk, Clear, PreviewSample, Erase, CountOld,
                  PreviewOn, PreviewPush, Add, Remove, vars, kit
    <2>2. gui = "kill" => gui' = "kill" /\ victim' = victim
      BY <1>2 DEF Next, Audio, Goes, Begin, Push, Render, NoteOn, NoteOff, AllOff, Event, Schedule,
                  Gui, GuiEnds, StopAll, Walk, EndWalk, Clear, PreviewSample, Erase, CountOld,
                  PreviewOn, PreviewPush, Add, Remove, vars, kit, Goto
    <2> QED
      BY <2>1, <2>2 DEF Waiting, OnRow
  <1> QED
    BY <1>1, <1>2

(* The death row deletes an instrument only when it is silent, though its  *)
(* count is read while a cycle runs, unless the count has become too low.  *)
THEOREM NoneDeletedPlaying == Spec => DeletedSilent
  <1> DEFINE Fair == \A i \in Insts : Waiting(i) /\ ~Waiting(i)' => ~Playing(i) \/ stray[i] < 0
  <1>1. ASSUME IInv, Counted, [Next]_vars PROVE [Fair]_vars
    <2>1. Frame /\ Listed /\ Tracked
      BY <1>1, InvParts
    <2> QED
      BY <1>1, <2>1, KillsSilent
  <1>2. []IInv /\ []Counted /\ [][Next]_vars => [][Fair]_vars
    BY <1>1, PTL
  <1> QED
    BY <1>2, Invariance, CountIsRight, PTL DEF Spec, DeletedSilent
=============================================================================
