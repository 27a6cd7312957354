------------------------------- MODULE Sampler -------------------------------
(***************************************************************************)
(* The notes the sampler plays (Sampler::current_notes, here voices), the  *)
(* count each instrument keeps of them (queued), and the instruments that  *)
(* wait for the end of their notes to be deleted (the engine's death row). *)
(* The driver's thread runs one cycle after the other: steal, the events,  *)
(* render; at any moment of it the GUI may stop all notes or preview a     *)
(* sample, for which it takes no lock but to change the list; with the     *)
(* engine locked it adds and removes instruments.  A voice is known by its *)
(* place in the order of the list.                                         *)
(***************************************************************************)
EXTENDS Integers, Sequences, FiniteSets

CONSTANTS
  Insts,       \* instruments
  Preview,     \* preview_instrument, which is on no list
  Group,       \* the mute group of an instrument, -1 for none
  Length,      \* frames in a sample
  Release,     \* frames the envelope takes to fall silent
  Cycles,      \* frames a cycle may have
  Limits,      \* values the GUI gives max_notes, -1 for no limit
  MaxVoices,   \* bound: notes begun since the last silence
  MaxLate,     \* bound: notes put off to a later cycle
  MaxStray     \* bound: notes miscounted before the GUI counts off another

ASSUME InstsAssumption   == Preview \notin Insts /\ Group \in [Insts \cup {Preview} -> Int]
ASSUME LengthAssumption  == Length \in Nat \ {0} /\ Release \in Nat
ASSUME CyclesAssumption  == Cycles \subseteq Nat \ {0} /\ \E m \in Cycles : \A k \in Cycles : k <= m
ASSUME LimitsAssumption  == Limits \subseteq Nat \cup {-1}
ASSUME BoundsAssumption  == MaxVoices \in Nat /\ MaxLate \in Nat /\ MaxStray \in Nat

VARIABLES
  voices, last,      \* current_notes, and how many have begun since it was empty
  queued,            \* Instrument::queued
  cyc, n, at, left,  \* the cycle: its step, its frames, the frame of the last event, the events left
  note,              \* the instrument of the note being begun
  late,              \* instruments with a note in the script for a later cycle
  list, doomed,      \* instrument_list, __instrument_death_row
  gui, victim,       \* the GUI: its step, the instrument being removed,
  walked,            \* the notes that it has counted off and will clear
  stray              \* ghost: by how much the two threads have miscounted

notes == <<voices, last>>
cycle == <<cyc, n, at, left, note>>
kit   == <<late, list, doomed, victim>>
race  == <<walked, stray>>
vars  == <<notes, queued, cycle, kit, gui, race>>

AllInsts == Insts \cup {Preview}
Ids      == DOMAIN voices
Held     == -1                                  \* not released, or no offset
Idle     == Release + 1
Least(a, b)    == IF a <= b THEN a ELSE b
Greatest(a, b) == IF a <= b THEN b ELSE a

(* A note of the list: the frames of its sample played (m_fSamplePosition), *)
(* m_nSilenceOffset, m_nReleaseOffset and the frames of release its         *)
(* envelope has gone through, and two histories: the frames since the      *)
(* note was due, and since the beginning of the cycle that first asked for *)
(* its release.                                                            *)
Voice == [inst : AllInsts, pos : 0..Length, silence : Nat, offset : Nat \cup {Held},
          rel : Held..Idle, age : Int, asked : Nat \cup {Held}]

Begun(i, f) == [inst |-> i, pos |-> 0, silence |-> f, offset |-> Held,
                rel |-> Held, age |-> -f, asked |-> Held]

Ask(v) == [v EXCEPT !.asked = IF @ = Held THEN 0 ELSE @]

Init ==
  /\ voices = <<>> /\ last = 0 /\ queued = [i \in AllInsts |-> 0]
  /\ cyc = "idle" /\ n = 0 /\ at = 0 /\ left = 0 /\ note = Preview
  /\ late = {} /\ list = Insts /\ doomed = <<>>
  /\ gui = "idle" /\ victim = Preview
  /\ walked = {} /\ stray = [i \in AllInsts |-> 0]

-----------------------------------------------------------------------------
(* The list of notes.                                                      *)

Of(i, S) == {k \in S : voices[k].inst = i}

DequeueNone(S) == queued' = queued              \* mutant: the count is kept
Dequeue(S)     == queued' = [i \in AllInsts |-> queued[i] - Cardinality(Of(i, S))]

(* The driver drops notes; those that the GUI has counted off already are   *)
(* counted off twice.                                                      *)
Drop(S) ==
  /\ Dequeue(S)
  /\ walked' = walked \ S
  /\ stray' = [i \in AllInsts |-> stray[i] - Cardinality(Of(i, S \cap walked))]

Keep(S) ==
  /\ voices' = [k \in S |-> voices[k]]
  /\ last' = IF S = {} THEN 0 ELSE last

PushBack(v) ==
  /\ last' = last + 1
  /\ voices' = [k \in Ids \cup {last + 1} |-> IF k = last + 1 THEN v ELSE voices[k]]

(* handle_note_on(): other instruments of the mute group are released,      *)
(* the instrument counts one more note, and then the list gets it.          *)
ChokesNo(i, j)  == FALSE                        \* mutant: mute groups ignored
Chokes(i, j)    == i # j /\ Group[i] # -1 /\ Group[i] = Group[j]

Released(v) == [Ask(v) EXCEPT !.rel = IF @ = Held THEN 0 ELSE @]

Enqueue(i) ==
  /\ voices' = [k \in Ids |-> IF Chokes(i, voices[k].inst) THEN Released(voices[k]) ELSE voices[k]]
  /\ last' = last
  /\ queued' = [queued EXCEPT ![i] = @ + 1]

-----------------------------------------------------------------------------
(* The driver's thread: Sampler::process().                                *)

(* The oldest notes beyond the limit are dropped.  The limit is read here   *)
(* only, and may be anything that the GUI has set it to since.             *)
Newer(k)  == {j \in Ids : j > k}
WithinLimit(l) == {k \in Ids : l = -1 \/ Cardinality(Newer(k)) < l}

MaxEvents(m) == m                                  \* bound: events in a cycle of m frames

Begin(l) ==
  /\ cyc = "idle" /\ cyc' = "events"
  /\ n' \in Cycles /\ at' = 0 /\ left' = MaxEvents(n')
  /\ Keep(WithinLimit(l)) /\ Drop(Ids \ WithinLimit(l))
  /\ UNCHANGED <<note, kit, gui>>

Event(f) ==
  /\ cyc = "events" /\ left > 0 /\ f \in at..(n - 1)
  /\ at' = f /\ left' = left - 1
  /\ UNCHANGED <<n, list, doomed, victim, gui>>

(* A note for this cycle, or one that has been put off to it.              *)
NoteOn(i, f) ==
  /\ Event(f) /\ i \in list \cup late /\ last < MaxVoices
  /\ Enqueue(i)
  /\ cyc' = "push" /\ note' = i /\ late' = late \ {i}
  /\ UNCHANGED race

Push ==
  /\ cyc = "push" /\ cyc' = "events"
  /\ PushBack(Begun(note, at)) /\ note' = Preview
  /\ UNCHANGED <<queued, n, at, left, kit, gui, race>>

EndsOldest(k, i) == \A j \in Of(i, Ids) : k <= j   \* mutant: the first note only
Ends(k, i)       == k \in Of(i, Ids)
Offset(k, i, f)  == IF Ends(k, i) THEN f ELSE voices[k].offset

(* The script may hold the note-off of an instrument that is no longer on   *)
(* the list.                                                               *)
NoteOff(i, f) ==
  /\ Event(f)
  /\ voices' = [k \in Ids |-> IF voices[k].inst = i THEN [Ask(voices[k]) EXCEPT !.offset = Offset(k, i, f)]
                             ELSE voices[k]]
  /\ UNCHANGED <<last, queued, cyc, note, late, race>>

AllOff(f) ==
  /\ Event(f)
  /\ Keep({}) /\ Drop(Ids)
  /\ UNCHANGED <<cyc, note, late>>

(* GuiInputQueue::process(), which comes before the sampler's, rounds a    *)
(* note up to a tick that may lie in a later cycle.                        *)
Schedule(i) ==
  /\ cyc = "events" /\ left = MaxEvents(n) /\ i \in list
  /\ Cardinality(late) < MaxLate /\ late' = late \cup {i}
  /\ UNCHANGED <<notes, queued, cycle, list, doomed, gui, victim, race>>

(* render_note_no_resample(): the note plays from frame silence of the     *)
(* cycle to its end, or to that of the sample.  From frame offset on, the  *)
(* envelope is told to release at every frame; that call also tells        *)
(* whether it is silent: because its release is over, or because it had    *)
(* not played when it began.                                               *)
Avail(v)     == Least(Length - v.pos, n - v.silence)
Last(v)      == v.silence + Avail(v) - 1
First(v)     == Greatest(v.silence, v.offset)
Told(v)      == v.offset # Held /\ First(v) <= Last(v)
Ticks(v)     == IF v.rel # Held THEN v.rel + Avail(v)
                ELSE IF Told(v) THEN Last(v) + 1 - First(v) ELSE Held
NeverHeard(v) == v.rel = Held /\ v.pos = 0 /\ First(v) = v.silence
Finished(v)  == Length - v.pos <= n - v.silence
Over(v)      == Finished(v) \/ (Told(v) /\ (NeverHeard(v) \/ Ticks(v) > Idle))

Wait(v)    == v.silence                         \* mutant: the offset is kept
Silence(v) == 0
Rel(v)     == Least(Ticks(v), Idle)

Played(v) == [v EXCEPT !.pos = @ + Avail(v), !.silence = Silence(v), !.rel = Rel(v),
                       !.age = @ + n, !.asked = IF @ = Held THEN Held ELSE @ + n]

Live == {k \in Ids : ~Over(voices[k])}

Render ==
  /\ cyc = "events" /\ cyc' = "idle" /\ n' = 0 /\ at' = 0 /\ left' = 0
  /\ voices' = [k \in Live |-> Played(voices[k])]
  /\ last' = IF Live = {} THEN 0 ELSE last
  /\ Drop(Ids \ Live)
  /\ UNCHANGED <<note, kit, gui>>

Goes == Push \/ Render \/ \E l \in Limits : Begin(l)

Audio ==
  \/ Goes
  \/ \E f \in at..(n - 1) : \/ AllOff(f)
                            \/ \E i \in Insts : NoteOn(i, f) \/ NoteOff(i, f)

-----------------------------------------------------------------------------
(* The GUI's thread.                                                       *)

Goto(from, to) == gui = from /\ gui' = to

(* What the GUI counts while a cycle runs may meet the driver's own counting *)
(* of the instrument, which no lock forbids: one of the two is lost.       *)
Lost(i) == IF cyc = "idle" THEN {0}
           ELSE IF cyc = "push" /\ note = i THEN {-1, 0, 1} ELSE {0, 1}
CountOff(i) ==
  \E e \in Lost(i) : /\ queued' = [queued EXCEPT ![i] = @ - 1 + e]
                     /\ stray' = [stray EXCEPT ![i] = @ + e]

FewStray == \A i \in AllInsts : stray[i] \in -MaxStray..MaxStray

(* stop_playing_notes() goes through the list and counts every note off,   *)
(* without the lock, and then clears the list.                             *)
StopAll ==
  /\ Goto("idle", "walk") /\ FewStray /\ walked' = {}
  /\ UNCHANGED <<notes, queued, cycle, kit, stray>>

Following(k) == k \in Ids \ walked /\ \A j \in Ids \ walked : k <= j

Walk(k) ==
  /\ Goto("walk", "walk") /\ FewStray /\ Following(k) /\ walked' = walked \cup {k}
  /\ CountOff(voices[k].inst)
  /\ UNCHANGED <<notes, cycle, kit>>

EndWalk ==
  /\ Goto("walk", "clear") /\ Ids \subseteq walked
  /\ UNCHANGED <<notes, queued, cycle, kit, race>>

Clear ==
  /\ Goto("clear", "idle") /\ Keep({}) /\ walked' = {}
  /\ stray' = [i \in AllInsts |-> stray[i] + Cardinality(Of(i, Ids \ walked))]
  /\ UNCHANGED <<queued, cycle, kit>>

(* preview_sample(): the last preview stops, each of its notes taken off    *)
(* the list and then counted off; then the new one begins.                 *)
PreviewSample ==
  /\ Goto("idle", "stop") /\ FewStray /\ last < MaxVoices
  /\ UNCHANGED <<notes, queued, cycle, kit, race>>

Erase(k) ==
  /\ Goto("stop", "old") /\ k \in Of(Preview, Ids)
  /\ Keep(Ids \ {k})
  /\ UNCHANGED <<queued, cycle, kit, race>>

CountOld ==
  /\ Goto("old", "stop") /\ CountOff(Preview)
  /\ UNCHANGED <<notes, cycle, kit, walked>>

PreviewOn ==
  /\ Goto("stop", "push") /\ Of(Preview, Ids) = {} /\ Enqueue(Preview)
  /\ UNCHANGED <<cycle, kit, race>>

PreviewPush ==
  /\ Goto("push", "idle") /\ PushBack(Begun(Preview, 0))
  /\ UNCHANGED <<queued, cycle, kit, race>>

(* A new instrument is added with the engine locked: between two cycles.   *)
Unknown(i) ==
  /\ i \notin list \cup late /\ i # victim
  /\ queued[i] = 0 /\ Of(i, Ids) = {}
  /\ \A p \in DOMAIN doomed : doomed[p] # i

Add(i) ==
  /\ gui = "idle" /\ cyc = "idle" /\ Unknown(i)
  /\ list' = list \cup {i}
  /\ UNCHANGED <<notes, queued, cycle, late, doomed, gui, victim, race>>

(* removeInstrument() takes the instrument off the list with the engine    *)
(* locked, then, without the lock, puts it on the death row and deletes    *)
(* what has fallen silent at its front.  The last instrument stays.        *)
Remove(i) ==
  /\ Goto("idle", "kill") /\ cyc = "idle"
  /\ i \in list /\ Cardinality(list) > 1
  /\ list' = list \ {i} /\ victim' = i
  /\ UNCHANGED <<notes, queued, cycle, late, doomed, race>>

SilentNearly(i) == queued[i] <= 1               \* mutant: off by one
Silent(i)       == queued[i] = 0

Kill ==
  /\ Goto("kill", "idle")
  /\ LET row == Append(doomed, victim)
     IN  \E m \in 0..Len(row) :
           /\ \A p \in 1..m : Silent(row[p])
           /\ m < Len(row) => ~Silent(row[m + 1])
           /\ doomed' = SubSeq(row, m + 1, Len(row))
  /\ victim' = Preview
  /\ UNCHANGED <<notes, queued, cycle, late, list, race>>

GuiEnds == \/ EndWalk \/ Clear \/ CountOld \/ PreviewOn \/ PreviewPush \/ Kill
           \/ \E k \in Ids : Walk(k) \/ Erase(k)

Gui ==
  \/ StopAll \/ PreviewSample \/ GuiEnds
  \/ \E i \in Insts : Add(i) \/ Remove(i)

-----------------------------------------------------------------------------
Next == Audio \/ Gui \/ \E i \in Insts : Schedule(i)

Spec == Init /\ [][Next]_vars

(* The driver's cycles follow one another for ever, whatever events come;   *)
(* the GUI ends what it has begun.                                         *)
FairSpec == Spec /\ WF_vars(Goes) /\ WF_vars(GuiEnds)

-----------------------------------------------------------------------------
(* Properties.                                                             *)

(* The variables have their types; a sample never plays beyond its end, an  *)
(* envelope never beyond its release.                                      *)
TypeOK ==
  /\ IsFiniteSet(Ids) /\ Ids \subseteq Nat \ {0}
  /\ \A k \in Ids : voices[k] \in Voice
  /\ queued \in [AllInsts -> Int]
  /\ cyc \in {"idle", "events", "push"} /\ n \in Cycles \cup {0} /\ at \in Nat /\ left \in Nat
  /\ note \in AllInsts /\ victim \in AllInsts
  /\ late \subseteq Insts /\ list \subseteq Insts /\ doomed \in Seq(AllInsts)
  /\ gui \in {"idle", "walk", "clear", "stop", "old", "push", "kill"}
  /\ walked \subseteq Ids /\ stray \in [AllInsts -> Int]

(* An instrument counts its notes: those of the list, the one that has     *)
(* been counted and not yet been put there, and the one that has been taken *)
(* off it and not yet been counted off.  A count too high keeps an         *)
(* instrument for ever, one too low deletes it while it plays, or ends the *)
(* program in dequeue().  What the GUI does to the count while a cycle runs *)
(* is the exception, and no more than this: a note that ends after the GUI *)
(* has counted it off goes twice, a note that begins between the walk and  *)
(* the clearing of the list is never counted off, and of two counts at     *)
(* once one may be lost.                                                   *)
Starting(i) == (IF cyc = "push" /\ note = i THEN 1 ELSE 0)
             + (IF gui \in {"old", "push"} /\ Preview = i THEN 1 ELSE 0)
Sounding(i) == Cardinality(Of(i, Ids \ walked))
Counted == \A i \in AllInsts : queued[i] = Sounding(i) + Starting(i) + stray[i]

(* Wherever the cycles begin and end, a note has played one frame of its   *)
(* sample for each frame since it was due, and is off the list once its    *)
(* sample is over.                                                         *)
OnTime ==
  \A k \in Ids : LET v == voices[k]
                 IN  /\ v.pos - v.silence = v.age /\ v.pos < Length
                     /\ cyc = "idle" => v.silence = 0

(* Between two cycles, the notes released are those for which something    *)
(* has asked: a note-off of the instrument or a note of its mute group;     *)
(* and each began its release in the cycle that asked.                     *)
MaxFrames == CHOOSE m \in Cycles : \A k \in Cycles : k <= m
ReleaseAsked ==
  cyc = "idle" => \A k \in Ids : LET v == voices[k]
                                 IN  /\ v.rel # Held <=> v.asked # Held
                                     /\ v.rel <= v.asked
                                     /\ v.rel >= Least(Idle, v.asked - MaxFrames + 1)

(* Of two notes on different instruments of a mute group, the older one    *)
(* has been released.  A preview, which may begin as another note does, is *)
(* not so bound.                                                           *)
Exclusive ==
  \A j, k \in Ids : LET older == voices[j]  newer == voices[k]
                    IN  /\ j < k /\ older.inst # newer.inst
                        /\ Preview \notin {older.inst, newer.inst}
                        /\ Group[older.inst] = Group[newer.inst] /\ Group[newer.inst] # -1
                        => older.rel # Held

(* What makes these inductive.  A note's silence lies in the cycle it began *)
(* in; a note asked to be released has begun to, or will in this cycle;    *)
(* new notes come after all others; the GUI has counted notes off only     *)
(* while it walks; a note that has been counted has choked its group.      *)
SilenceFits ==
  /\ cyc # "idle" => n \in Cycles
  /\ cyc = "push" => at < n
  /\ \A k \in Ids : LET v == voices[k]
                    IN  v.silence > 0 => /\ cyc # "idle" /\ v.silence < n
                                         /\ v.asked \in {Held, 0} /\ v.rel \in {Held, 0}

ReleaseFits ==
  \A k \in Ids : LET v == voices[k]
                 IN  /\ v.asked = Held => v.rel = Held /\ v.offset = Held
                     /\ v.asked # Held /\ v.rel = Held =>
                          v.asked = 0 /\ cyc # "idle" /\ v.offset \in 0..(n - 1)
                     /\ v.rel # Held =>
                          v.rel <= v.asked /\ v.rel >= Least(Idle, v.asked - MaxFrames + 1)

LastIsLast == last \in Nat /\ \A k \in Ids : k <= last

WalkedWhile == gui \notin {"walk", "clear"} => walked = {}

Choked(i) ==
  \A k \in Ids : Chokes(i, voices[k].inst) /\ Preview \notin {i, voices[k].inst} => voices[k].rel # Held
ChokedFirst == cyc = "push" => Choked(note)

IInv     == TypeOK /\ OnTime /\ SilenceFits /\ ReleaseFits /\ LastIsLast /\ WalkedWhile
GroupInv == ChokedFirst /\ Exclusive

(* An instrument is deleted only when it has no note left, although the    *)
(* GUI looks at its count while the cycle goes on, unless the count has    *)
(* become too low.                                                         *)
Playing(i) == Of(i, Ids) # {} \/ Starting(i) > 0
OnRow(i)   == \E p \in DOMAIN doomed : doomed[p] = i
Waiting(i) == OnRow(i) \/ (gui = "kill" /\ victim = i)
DeletedSilent ==
  [][\A i \in Insts : Waiting(i) /\ ~Waiting(i)' => ~Playing(i) \/ stray[i] < 0]_vars

(* An instrument on the death row falls silent, so that the next removal    *)
(* can delete it, unless its notes have been miscounted.                   *)
FallsSilent == \A i \in Insts : OnRow(i) ~> queued[i] = 0 \/ stray[i] # 0
=============================================================================
