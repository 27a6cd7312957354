------------------------------ MODULE Transport ------------------------------
(***************************************************************************)
(* The engine's own transport (SimpleTransportMaster) and the sequencer    *)
(* that plays the song by it (SongSequencer).  In each process cycle the   *)
(* sequencer copies the position, walks from tick to tick over the frames  *)
(* of the cycle and puts in the notes of each tick; after the cycle the    *)
(* transport moves on by as many frames.  Between any two of these steps   *)
(* the GUI may start, stop or relocate it: the transport has a mutex of    *)
(* its own, which nobody keeps for the cycle.                              *)
(*                                                                         *)
(* Time is counted in units, U to a frame, in which the length of a tick   *)
(* is whole: what the code computes in doubles is exact here.  The frame   *)
(* counter is left out, as only differences of it are used, and beat and   *)
(* tick are one number, tick_in_bar().                                     *)
(***************************************************************************)
EXTENDS Integers, Sequences

CONSTANTS
  U,        \* units in a frame
  Tempos,   \* frames_per_tick() of the tempos the song may get, in units
  Bars,     \* ticks_in_bar() of every bar of the song
  Cycles,   \* what nframes of a cycle may be
  Seeks     \* the bars setPatternPos() is asked for

\* Half a frame can be told.
ASSUME UnitsAssumption  == U \in Nat \ {0} /\ U % 2 = 0
ASSUME TemposAssumption ==
  Tempos \subseteq Nat /\ Tempos # {} /\ \A F \in Tempos : F > U
ASSUME BarsAssumption   == Bars \in Seq(Nat \ {0}) /\ Bars # <<>>
\* A cycle and a tick are shorter than any bar, whatever their tempos.
ASSUME CyclesAssumption ==
  /\ Cycles \subseteq Nat \ {0}
  /\ \A k \in Cycles, F, G \in Tempos, b \in DOMAIN Bars : k * U + F < Bars[b] * G
ASSUME SeeksAssumption  == Seeks \subseteq Nat

VARIABLES
  pos,      \* the position: bar, tick in it, offset from the tick (bbt_offset),
            \* ticks the bar is taken to have (beats_per_bar), frames_per_tick()
  rolling,  \* TransportPosition::state
  tempo,    \* frames_per_tick() at the song's tempo
  n,        \* nframes of the cycle, 0 between two cycles
  from,     \* the copy of the position the cycle works on,
  sounding, \* and of the state
  cur, at,  \* where the sequencer is, and how many frames into the cycle
  out,      \* the ticks whose notes it has put in
  due,      \* ghost: the tick to be played next, or None if anything may be
  torn,     \* ghost: the transport was touched since the cycle copied it
  rewound   \* ghost: it was sent to bar 1 with the length of another bar

vars == <<pos, rolling, tempo, n, from, sounding, cur, at, out, due, torn, rewound>>
cycle == <<n, from, sounding, cur, at, out>>

None    == <<0, 0>>
Half    == U \div 2
InSong(b) == 1 + ((b - 1) % Len(Bars))
At(b, length, fpt) == [bar |-> b, tick |-> 0, off |-> 0, len |-> length, fpt |-> fpt]
Nowhere == At(0, 1, U)

Init ==
  /\ tempo \in Tempos /\ pos = At(1, Bars[1], tempo) /\ rolling = FALSE
  /\ n = 0 /\ from = Nowhere /\ sounding = FALSE
  /\ cur = Nowhere /\ at = 0 /\ out = {}
  /\ due = <<1, 0>> /\ torn = FALSE /\ rewound = FALSE

-----------------------------------------------------------------------------
(* Position algebra (TransportPosition).                                   *)

\* Mutants: forgets what is left of the way to a tick; stays in the bar.
NormalResets(p) ==
  LET q == (p.off + Half) \div p.fpt
      t == p.tick + q
  IN  [p EXCEPT !.off = IF q = 0 THEN @ ELSE 0, !.tick = t % p.len, !.bar = @ + t \div p.len]
NormalStays(p) ==
  LET q == (p.off + Half) \div p.fpt
  IN  [p EXCEPT !.off = @ - q * p.fpt, !.tick = (@ + q) % p.len]
\* normalize(): the offset in [-.5, fpt - .5) frames, the tick in the bar.
Normal(p) ==
  LET q == (p.off + Half) \div p.fpt
      t == p.tick + q
  IN  [p EXCEPT !.off = @ - q * p.fpt, !.tick = t % p.len, !.bar = @ + t \div p.len]

GapFloor(p) == (p.fpt - p.off) \div U           \* mutant: rounds down
\* How many frames it is to the frame nearest to the next tick, the later one of
\* two that are as near,
Gap(p)       == (p.fpt - p.off + Half) \div U
\* and the position there: operator++ of a position on its tick.
Following(p) == Normal([p EXCEPT !.tick = @ + 1, !.off = @ + Gap(p) * U - p.fpt])

SnappedLate(p) == p.off = 0                     \* mutant: no frame but the exact one
\* ceil(TICK) takes a tick that is less than half a frame away,
Snapped(p)     == -Half < p.off /\ p.off < Half
\* so that one exactly half a frame before or after the beginning of a cycle,
\* which the cycle before has left to this one, is passed over.
PassedOver(p)  == p.off \in {-Half, Half}

-----------------------------------------------------------------------------
(* A process cycle.                                                        *)

\* The tick after one, as the bar of p is taken to be as long as p says.
After(p, b, t) == IF t + 1 < (IF b = p.bar THEN p.len ELSE Bars[b])
                  THEN <<b, t + 1>> ELSE <<InSong(b + 1), 0>>

Begin(k) ==
  LET p == Normal(pos)
  IN  /\ n = 0 /\ n' = k
      /\ from' = pos /\ sounding' = rolling
      /\ IF ~rolling
         THEN UNCHANGED <<cur, at>>
         ELSE IF Snapped(p) THEN cur' = p /\ at' = 0             \* ceil(TICK)
         ELSE cur' = Following(p) /\ at' = Gap(p)
      /\ due' = IF rolling /\ PassedOver(p) /\ due = <<InSong(p.bar), p.tick>>
                THEN After(p, due[1], due[2]) ELSE due
      /\ UNCHANGED <<pos, rolling, tempo, out, torn, rewound>>

Sequencing == n > 0 /\ sounding /\ at < n
Done       == n > 0 /\ ~(sounding /\ at < n)

\* The pattern group is the one of the bar the cycle begins in; a bar that has
\* none ends the thread with the exception of vector::at().
Group == from.bar

Emit ==
  /\ Sequencing /\ Group \in DOMAIN Bars
  /\ out' = out \cup {[at |-> at, group |-> Group,
                       bar |-> InSong(cur.bar), tick |-> cur.tick]}
  /\ due' = After(from, InSong(cur.bar), cur.tick)
  /\ cur' = Following(cur) /\ at' = at + Gap(cur)
  /\ UNCHANGED <<pos, rolling, tempo, n, from, sounding, torn, rewound>>

\* Mutant: the new bar gets the length of the old one.
EnterSame(p) == [p EXCEPT !.bar = InSong(@)]
Enter(p)     == [p EXCEPT !.bar = InSong(@), !.len = Bars[InSong(p.bar)]]

\* The new tempo takes effect; it may be so fast that the tick is over at once.
Overtaken(p) == p.off + Half >= p.fpt

Advance ==
  LET p == Normal([pos EXCEPT !.off = @ + n * U])
      q == [(IF p.bar # pos.bar THEN Enter(p) ELSE p) EXCEPT !.fpt = tempo]
  IN  /\ Done
      /\ IF rolling
         THEN /\ pos' = q
              /\ rewound' = (rewound /\ p.bar = pos.bar)
              /\ due' = IF torn \/ Overtaken(q) THEN None ELSE due
         ELSE /\ UNCHANGED <<pos, rewound>>
              /\ due' = IF torn /\ sounding THEN None ELSE due
      /\ n' = 0 /\ from' = Nowhere /\ sounding' = FALSE
      /\ cur' = Nowhere /\ at' = 0 /\ out' = {} /\ torn' = FALSE
      /\ UNCHANGED <<rolling, tempo>>

-----------------------------------------------------------------------------
(* The GUI.                                                                *)

Touch     == torn' = (n > 0)
Expect(b) == due' = IF n > 0 /\ sounding THEN due ELSE <<b, 0>>

Start ==
  /\ ~rolling /\ rolling' = TRUE /\ Touch
  /\ UNCHANGED <<pos, tempo, cycle, due, rewound>>

Stop ==
  /\ rolling /\ rolling' = FALSE /\ Touch
  /\ UNCHANGED <<pos, tempo, cycle, due, rewound>>

SetTempo(F) ==
  /\ tempo' = F
  /\ UNCHANGED <<pos, rolling, cycle, due, torn, rewound>>

\* What locate() makes of the length of a bar that the song does not have (in
\* beats, which are ticks here): four behind its end; ticks_in_bar() of bar 0 is
\* -1, of which eight bits are left.
Length(b) == IF b \in DOMAIN Bars THEN Bars[b] ELSE IF b > Len(Bars) THEN 4 ELSE 255

\* setPatternPos(), which is locate(bar, 1, 0).
SeekTo(b)   == At(b, Length(b), tempo)

Seek(b) ==
  /\ pos' = SeekTo(b) /\ rewound' = FALSE
  /\ Touch /\ Expect(b)
  /\ UNCHANGED <<rolling, tempo, cycle>>

\* locate(0), which only the export calls, while no cycle runs: the length of
\* the bar is not set.
Rewind ==
  /\ n = 0
  /\ pos' = At(1, pos.len, tempo) /\ rewound' = (pos.len # Bars[1])
  /\ Touch /\ Expect(1)
  /\ UNCHANGED <<rolling, tempo, cycle>>

\* set_current_song(), with the engine locked.
SetSong ==
  /\ ~Sequencing
  /\ pos' = At(1, Bars[1], tempo) /\ rolling' = FALSE /\ rewound' = FALSE
  /\ Touch /\ Expect(1)
  /\ UNCHANGED <<tempo, cycle>>

-----------------------------------------------------------------------------
Audio == (\E k \in Cycles : Begin(k)) \/ Emit \/ Advance
Gui   == Start \/ Stop \/ (\E F \in Tempos : SetTempo(F)) \/ (\E b \in Seeks : Seek(b))
         \/ Rewind \/ SetSong

Next == Audio \/ Gui

Spec     == Init /\ [][Next]_vars
FairSpec == Spec /\ WF_vars(Audio)    \* the driver keeps calling process()

-----------------------------------------------------------------------------
Positions(bars, offs) ==
  [bar : bars, tick : Nat, off : offs, len : Nat \ {0}, fpt : Tempos]

\* The position is one of the song's, in a bar and no more than half a frame
\* before its tick, and so is the copy a cycle works on.
TypeOK ==
  /\ pos \in Positions(DOMAIN Bars, Int) /\ pos.tick < pos.len /\ -Half <= pos.off
  /\ rolling \in BOOLEAN /\ tempo \in Tempos
  /\ n \in Cycles \cup {0} /\ sounding \in BOOLEAN /\ at \in Nat
  /\ n > 0 => from \in Positions(DOMAIN Bars, Int)
  /\ sounding => /\ n > 0 /\ cur \in Positions(Nat, Int)
                 /\ cur.tick < cur.len /\ -Half < cur.off /\ cur.off <= Half
  /\ out \subseteq [at : 0..n, group : DOMAIN Bars, bar : DOMAIN Bars, tick : Nat]
  /\ due \in (Nat \X Nat) /\ torn \in BOOLEAN /\ rewound \in BOOLEAN

\* Ticks are played in order, each of them once: over the ends of cycles and
\* bars, over changes of tempo that are not too abrupt, and over a stop and a
\* start between two cycles.  The code passes over a tick that lies exactly half
\* a frame from the beginning of a cycle (PassedOver, which moves due on), and
\* over no other.  After a cycle that the GUI tore any tick may be the next one.
Regular ==
  Sequencing /\ due # None => due = <<InSong(cur.bar), cur.tick>>

\* A note is put in at the frame nearest to its tick, reckoned from where the
\* cycle began: the rounding of one tick does not move the next.
Ahead(o) == IF o.bar = InSong(from.bar) /\ o.tick >= from.tick
            THEN o.tick - from.tick ELSE o.tick + from.len - from.tick
OnTime ==
  \A o \in out : LET d == o.at * U + from.off - Ahead(o) * from.fpt
                 IN  -Half < d /\ d <= Half

\* The transport moves on by exactly the frames of the cycle, into the next bar
\* when they go beyond this one.
Time(p, fpt) == p.tick * fpt + p.off
NoDrift ==
  [][Advance /\ rolling =>
       \E k \in {0, 1} :
         /\ pos'.bar = InSong(pos.bar + k)
         /\ Time(pos', pos.fpt) + k * pos.len * pos.fpt = Time(pos, pos.fpt) + n * U]_vars

\* The transport knows how long its bar is, unless locate(0) has sent it there.
BarLength == rewound \/ pos.len = Bars[pos.bar]

\* While the transport rolls and nobody moves it, every bar comes round.
Moved == (\E b \in Seeks : Seek(b)) \/ Rewind \/ SetSong
Plays ==
  \/ []<>(~rolling)
  \/ []<><<Moved>>_vars
  \/ \A b \in DOMAIN Bars : []<>(pos.bar = b)

-----------------------------------------------------------------------------
(* What the repository says and the code does not do.                      *)

\* "The index of the pattern group that represents measure number 'bar'": the
\* notes of a tick are those of the bar it belongs to.
OwnBar == \A o \in out : o.group = o.bar
=============================================================================
