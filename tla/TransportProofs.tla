--------------------------- MODULE TransportProofs ---------------------------
(***************************************************************************)
(* Every tick of the song is played once, in its order and at the frame    *)
(* nearest to it, for every number of units, tempos, bars and cycles.      *)
(***************************************************************************)
EXTENDS Transport, TLAPS

-----------------------------------------------------------------------------
(* Arithmetic.                                                             *)

LEMMA MulMono ==
  ASSUME NEW a \in Int, NEW b \in Int, NEW d \in Nat, a <= b
  PROVE  a * d <= b * d
  OBVIOUS

LEMMA MulLess ==
  ASSUME NEW a \in Int, NEW b \in Int, NEW d \in Nat, a * d < b * d
  PROVE  a < b
<1>1. CASE b <= a
  <2>1. b * d <= a * d  BY <1>1, MulMono
  <2> QED  BY <2>1
<1>2. CASE a < b  BY <1>2
<1> QED  BY <1>1, <1>2

LEMMA OneMore ==
  ASSUME NEW a \in Int, NEW b \in Int, NEW d \in Int
  PROVE  (a + b) * d = a * d + b * d /\ 1 * d = d
  OBVIOUS

LEMMA Onward ==
  ASSUME NEW a \in Int, NEW b \in Int, NEW c \in Int, NEW d \in Int, NEW e \in Int,
         NEW f \in Int, a + b = c + d
  PROVE  (a + e - f) + (b + f) = c + (d + e)
  OBVIOUS

LEMMA DivBounds ==
  ASSUME NEW a \in Int, NEW d \in Nat \ {0}
  PROVE  /\ a \div d \in Int
         /\ (a \div d) * d <= a /\ a < (a \div d) * d + d
         /\ a % d = a - (a \div d) * d
  OBVIOUS

LEMMA DivIs ==
  ASSUME NEW a \in Int, NEW d \in Nat \ {0}, NEW q \in Int,
         q * d <= a, a < q * d + d
  PROVE  a \div d = q /\ a % d = a - q * d
<1> DEFINE r == a \div d
<1>1. r \in Int /\ r * d <= a /\ a < r * d + d /\ a % d = a - r * d  BY DivBounds
<1> HIDE DEF r
<1>2. r * d < (q + 1) * d /\ q * d < (r + 1) * d  BY <1>1
<1>3. r < q + 1 /\ q < r + 1  BY <1>1, <1>2, MulLess
<1>4. r = q  BY <1>1, <1>3
<1> QED  BY <1>1, <1>4 DEF r

LEMMA ModSmall ==
  ASSUME NEW a \in Nat, NEW d \in Nat \ {0}
  PROVE  a < d => a % d = a
<1>1. 0 * d = 0 /\ 0 \in Int  OBVIOUS
<1> QED  BY <1>1, DivIs

LEMMA ModItself ==
  ASSUME NEW d \in Nat \ {0}
  PROVE  d % d = 0
<1>1. 1 * d = d /\ 1 \in Int /\ d \in Int  OBVIOUS
<1> QED  BY <1>1, DivIs

LEMMA ModRange ==
  ASSUME NEW a \in Int, NEW d \in Nat \ {0}
  PROVE  a % d \in 0..(d - 1)
  BY DivBounds

LEMMA Constants ==
  /\ U \in Nat /\ Half \in Nat /\ U = 2 * Half /\ Half > 0
  /\ Len(Bars) \in Nat \ {0} /\ DOMAIN Bars = 1..Len(Bars)
  /\ \A b \in DOMAIN Bars : Bars[b] \in Nat \ {0}
  /\ \A F \in Tempos : F \in Nat /\ F > U
  /\ 0 \notin Cycles /\ Cycles \subseteq Nat
  /\ 1 \in DOMAIN Bars
<1>1. U \in Nat /\ Half \in Nat /\ U = 2 * Half /\ Half > 0
  BY UnitsAssumption DEF Half
<1>2. Len(Bars) \in Nat \ {0} /\ DOMAIN Bars = 1..Len(Bars)
  BY BarsAssumption
<1>3. \A b \in DOMAIN Bars : Bars[b] \in Nat \ {0}
  BY BarsAssumption
<1> QED  BY <1>1, <1>2, <1>3, TemposAssumption, CyclesAssumption

LEMMA InSongIs ==
  /\ \A b \in DOMAIN Bars : InSong(b) = b /\ InSong(b + 1) \in DOMAIN Bars
  /\ \A b \in DOMAIN Bars : InSong(b + 1) = b => Len(Bars) = 1
  /\ \A b \in Nat \ {0} : InSong(b) \in DOMAIN Bars
<1> DEFINE L == Len(Bars)
<1>1. L \in Nat \ {0} /\ DOMAIN Bars = 1..L  BY Constants
<1> HIDE DEF L
<1>2. ASSUME NEW b \in Nat \ {0}  PROVE (b - 1) % L \in 0..(L - 1)
  <2>1. b - 1 \in Int  OBVIOUS
  <2> QED  BY <1>1, <2>1, ModRange
<1>3. ASSUME NEW b \in 1..L  PROVE (b - 1) % L = b - 1
  BY <1>1, ModSmall
<1>4. ASSUME NEW b \in 1..L, b < L  PROVE b % L = b
  <2>1. b \in Nat /\ b < L  BY <1>4
  <2> QED  BY <1>1, <2>1, ModSmall
<1>5. L % L = 0
  BY <1>1, ModItself
<1>6. \A b : InSong(b) = 1 + ((b - 1) % L)  BY DEF InSong, L
<1>7. ASSUME NEW b \in 1..L
      PROVE  InSong(b) = b /\ InSong(b + 1) = IF b < L THEN b + 1 ELSE 1
  <2>1. InSong(b) = b  BY <1>3, <1>6
  <2>2. (b + 1) - 1 = b  OBVIOUS
  <2>3. InSong(b + 1) = 1 + (b % L)  BY <1>6, <2>2
  <2>4. CASE b < L  BY <1>4, <2>1, <2>3, <2>4
  <2>5. CASE b = L  BY <1>5, <2>1, <2>3, <2>5
  <2> QED  BY <1>1, <2>4, <2>5
<1>8. ASSUME NEW b \in Nat \ {0}  PROVE InSong(b) \in 1..L
  <2>1. InSong(b) = 1 + ((b - 1) % L)  BY <1>6
  <2> QED  BY <1>1, <1>2, <2>1
<1>9. \A b \in 1..L : InSong(b + 1) \in 1..L /\ (InSong(b + 1) = b => L = 1)
  BY <1>1, <1>7
<1> QED  BY <1>1, <1>7, <1>8, <1>9 DEF L

-----------------------------------------------------------------------------
(* Positions.                                                              *)

Place == [bar : Nat, tick : Nat, off : Int, len : Nat \ {0}, fpt : Tempos]

LEMMA PlaceFields ==
  ASSUME NEW p \in Place
  PROVE  /\ p.bar \in Nat /\ p.tick \in Nat /\ p.off \in Int /\ p.len \in Nat \ {0}
         /\ p.fpt \in Nat \ {0} /\ p.fpt > U /\ p.fpt \in Tempos
         /\ p = [bar |-> p.bar, tick |-> p.tick, off |-> p.off, len |-> p.len, fpt |-> p.fpt]
<1>1. /\ p.bar \in Nat /\ p.tick \in Nat /\ p.off \in Int /\ p.len \in Nat \ {0}
      /\ p.fpt \in Tempos
      /\ p = [bar |-> p.bar, tick |-> p.tick, off |-> p.off, len |-> p.len, fpt |-> p.fpt]
  BY DEF Place
<1>2. p.fpt \in Nat /\ p.fpt > U /\ U \in Nat  BY <1>1, Constants
<1> QED  BY <1>1, <1>2

Placed(p, b, t, o) == [p EXCEPT !.off = o, !.tick = t, !.bar = b]

\* normalize() of a position that lies q ticks on, in this bar or the next.
LEMMA NormalIs ==
  ASSUME NEW p \in Place, NEW q \in Int,
         q * p.fpt <= p.off + Half, p.off + Half < q * p.fpt + p.fpt
  PROVE  /\ 0 <= p.tick + q /\ p.tick + q < p.len
            => Normal(p) = Placed(p, p.bar, p.tick + q, p.off - q * p.fpt)
         /\ p.len <= p.tick + q /\ p.tick + q < 2 * p.len
            => Normal(p) = Placed(p, p.bar + 1, (p.tick + q) - p.len, p.off - q * p.fpt)
<1>1. p.fpt \in Nat \ {0} /\ p.off \in Int /\ p.len \in Nat \ {0} /\ p.tick \in Nat
      /\ p.bar \in Nat /\ p.off + Half \in Int /\ Half \in Nat
  BY Constants, PlaceFields
<1>2. (p.off + Half) \div p.fpt = q
  BY <1>1, DivIs
<1> DEFINE t == p.tick + q
<1>3. Normal(p) = Placed(p, p.bar + t \div p.len, t % p.len, p.off - q * p.fpt)
  BY <1>2 DEF Normal, Placed
<1>4. t \in Int  BY <1>1
<1> HIDE DEF t
<1>5. ASSUME 0 <= t, t < p.len
      PROVE  Normal(p) = Placed(p, p.bar, t, p.off - q * p.fpt)
  <2>1. 0 * p.len = 0 /\ 0 \in Int  BY <1>1
  <2>2. t \div p.len = 0 /\ t % p.len = t - 0 * p.len  BY <1>1, <1>4, <1>5, <2>1, DivIs
  <2>3. p.bar + 0 = p.bar /\ t - 0 * p.len = t  BY <1>1, <1>4, <2>1
  <2> QED  BY <1>3, <2>2, <2>3
<1>6. ASSUME p.len <= t, t < 2 * p.len
      PROVE  Normal(p) = Placed(p, p.bar + 1, t - p.len, p.off - q * p.fpt)
  <2>1. 1 * p.len = p.len /\ 1 \in Int /\ t < p.len + p.len  BY <1>1, <1>4, <1>6
  <2>2. t \div p.len = 1 /\ t % p.len = t - 1 * p.len  BY <1>1, <1>4, <1>6, <2>1, DivIs
  <2> QED  BY <1>3, <2>1, <2>2
<1>7. 0 <= t /\ t < p.len => Normal(p) = Placed(p, p.bar, t, p.off - q * p.fpt)
  BY <1>5
<1>8. p.len <= t /\ t < 2 * p.len
      => Normal(p) = Placed(p, p.bar + 1, t - p.len, p.off - q * p.fpt)
  BY <1>6
<1> USE DEF t
<1>9. 0 <= p.tick + q /\ p.tick + q < p.len
      => Normal(p) = Placed(p, p.bar, p.tick + q, p.off - q * p.fpt)
  BY <1>7
<1>10. p.len <= p.tick + q /\ p.tick + q < 2 * p.len
       => Normal(p) = Placed(p, p.bar + 1, (p.tick + q) - p.len, p.off - q * p.fpt)
  BY <1>8
<1> QED  BY <1>9, <1>10

\* A position in its normal range.
Settled(p) == /\ p \in Place /\ p.tick < p.len
              /\ -Half <= p.off /\ p.off + Half < p.fpt
\* The sequencer is never exactly half a frame before its tick.
Near(p)    == Settled(p) /\ -Half < p.off /\ p.off <= Half

NextTick(p) == IF p.tick + 1 < p.len THEN p.tick + 1 ELSE 0
NextBar(p)  == IF p.tick + 1 < p.len THEN p.bar ELSE p.bar + 1

LEMMA FollowingIs ==
  ASSUME NEW p, Settled(p)
  PROVE  /\ Gap(p) \in Nat \ {0}
         /\ Following(p) = Placed(p, NextBar(p), NextTick(p), p.off + Gap(p) * U - p.fpt)
         /\ Near(Following(p))
<1> DEFINE g == Gap(p)
           o == p.off + g * U - p.fpt
           a == [p EXCEPT !.tick = p.tick + 1, !.off = o]
<1>1. /\ p.fpt \in Nat \ {0} /\ p.fpt > U /\ p.off \in Int
      /\ p.len \in Nat \ {0} /\ p.tick \in Nat /\ p.bar \in Nat /\ p \in Place
      /\ U \in Nat \ {0} /\ Half \in Nat /\ U = 2 * Half
      /\ -Half <= p.off /\ p.off + Half < p.fpt /\ p.tick < p.len
  BY Constants, PlaceFields DEF Settled
<1>2. g \in Int /\ g * U <= p.fpt - p.off + Half /\ p.fpt - p.off + Half < g * U + U
  <2>1. p.fpt - p.off + Half \in Int  BY <1>1
  <2> QED  BY <1>1, <2>1, DivBounds DEF Gap
<1> HIDE DEF g
<1>3. g * U \in Int  BY <1>1, <1>2
<1>4. g > 0
  <2>1. g * U > 0  BY <1>1, <1>2, <1>3
  <2>2. 0 * U < g * U /\ 0 \in Int /\ U \in Nat  BY <1>1, <2>1
  <2> QED  BY <1>2, <2>2, MulLess
<1>5. o \in Int /\ -Half < o /\ o <= Half /\ o + Half < p.fpt
  BY <1>1, <1>2, <1>3
<1> HIDE DEF o
<1>6. /\ a \in Place /\ a.tick = p.tick + 1 /\ a.off = o
      /\ a.bar = p.bar /\ a.len = p.len /\ a.fpt = p.fpt
  <2>1. p \in Place /\ p.tick + 1 \in Nat /\ o \in Int  BY <1>1, <1>5
  <2> QED  BY <2>1 DEF Place
<1>7. Following(p) = Normal(a)  BY DEF Following, g, o
<1>8. \A b, t, x : Placed(a, b, t, x) = Placed(p, b, t, x)
  BY <1>1 DEF Placed, Place
<1> HIDE DEF a
<1>9. Following(p) = Placed(p, NextBar(p), NextTick(p), o)
  <2>1. 0 * a.fpt = 0 /\ 0 \in Int  BY <1>1, <1>6
  <2>2. 0 * a.fpt <= a.off + Half /\ a.off + Half < 0 * a.fpt + a.fpt
    BY <1>1, <1>5, <1>6, <2>1
  <2>3. a.tick + 0 = p.tick + 1 /\ a.off - 0 * a.fpt = o
    <3>1. o - 0 = o /\ (p.tick + 1) + 0 = p.tick + 1  BY <1>1, <1>5
    <3> QED  BY <1>6, <2>1, <3>1
  <2>4. CASE p.tick + 1 < p.len
    <3>1. 0 <= a.tick + 0 /\ a.tick + 0 < a.len  BY <1>1, <1>6, <2>3, <2>4
    <3>2. Normal(a) = Placed(a, a.bar, a.tick + 0, a.off - 0 * a.fpt)
      BY <1>6, <2>1, <2>2, <3>1, NormalIs
    <3> QED  BY <1>6, <1>7, <1>8, <2>3, <2>4, <3>2 DEF NextBar, NextTick
  <2>5. CASE p.tick + 1 = p.len
    <3>1. a.len <= a.tick + 0 /\ a.tick + 0 < 2 * a.len  BY <1>6, <1>1, <2>3, <2>5
    <3>2. Normal(a) = Placed(a, a.bar + 1, (a.tick + 0) - a.len, a.off - 0 * a.fpt)
      BY <1>6, <2>1, <2>2, <3>1, NormalIs
    <3>3. (a.tick + 0) - a.len = 0 /\ ~(p.tick + 1 < p.len)  BY <1>1, <1>6, <2>3, <2>5
    <3> QED  BY <1>6, <1>7, <1>8, <2>3, <3>2, <3>3 DEF NextBar, NextTick
  <2> QED  BY <1>1, <2>4, <2>5
<1>10. NextTick(p) \in Nat /\ NextTick(p) < p.len /\ NextBar(p) \in Nat
  BY <1>1 DEF NextTick, NextBar
<1>11. Near(Following(p))
  <2>1. /\ Following(p) \in Place /\ Following(p).tick = NextTick(p) /\ Following(p).off = o
        /\ Following(p).len = p.len /\ Following(p).fpt = p.fpt
    BY <1>1, <1>5, <1>9, <1>10 DEF Placed, Place
  <2> QED  BY <1>1, <1>5, <1>10, <2>1 DEF Settled, Near
<1> QED  BY <1>2, <1>4, <1>9, <1>11 DEF g, o

-----------------------------------------------------------------------------
(* The inductive invariant.                                                *)

\* A position the transport may be in; when a tempo has become faster the
\* offset may be that of the tempo before.
Kept(p) == /\ p \in Place /\ p.bar \in DOMAIN Bars /\ p.tick < p.len
           /\ -Half <= p.off
           /\ \E F \in Tempos : p.off + Half < F
           /\ \E b \in DOMAIN Bars : p.len = Bars[b]

Placing == Kept(pos) /\ (n > 0 => Kept(from))

Flags == /\ rolling \in BOOLEAN /\ sounding \in BOOLEAN /\ torn \in BOOLEAN
         /\ rewound \in BOOLEAN /\ tempo \in Tempos
         /\ n \in Cycles \cup {0} /\ at \in Nat /\ due \in Nat \X Nat
         /\ n = 0 => ~sounding /\ ~torn /\ out = {}
         /\ n > 0 /\ ~torn => pos = from /\ rolling = sounding

\* Ticks from one position to another, in its bar or the next.
Gone(f, c) == IF c.bar = f.bar THEN c.tick - f.tick ELSE c.tick + (f.len - f.tick)
Steps == Gone(from, cur)

\* The sequencer is at a tick, in exact time, and the tick before it is over at
\* the end of the cycle.
Walk == sounding => /\ Near(cur)
                    /\ cur.len = from.len /\ cur.fpt = from.fpt
                    /\ cur.bar \in {from.bar, from.bar + 1} /\ Steps >= 0
                    /\ cur.off + Steps * from.fpt = from.off + at * U
                    /\ cur.off + n * U + cur.fpt >= Half + at * U

Notes == /\ out \subseteq [at : 0..n, group : DOMAIN Bars, bar : DOMAIN Bars, tick : Nat]
         /\ OnTime

\* The tick at which a cycle that began at p would begin to play.
First(p) == LET q == Normal(p) IN IF Snapped(q) THEN q ELSE Following(q)
Tick(p)  == <<InSong(p.bar), p.tick>>
\* It is the one that is due, unless that is the one it passes over.
Awaited(p) == {Tick(First(p))}
              \cup (IF PassedOver(Normal(p)) THEN {Tick(Normal(p))} ELSE {})
Ordered    == due # None => IF sounding THEN due = Tick(cur) ELSE due \in Awaited(pos)

IInv == Placing /\ Flags /\ Walk /\ Notes /\ BarLength /\ Ordered

-----------------------------------------------------------------------------
(* Where a position lies some frames on.                                   *)

\* A cycle and a tick on, no bar is over that has just begun.
LEMMA TooFew ==
  ASSUME NEW F \in Tempos, NEW G \in Tempos, NEW k \in Cycles, NEW b \in DOMAIN Bars,
         NEW q \in Int, q * G < F + k * U
  PROVE  q < Bars[b]
<1>1. k * U + F < Bars[b] * G  BY CyclesAssumption
<1>2. k \in Nat /\ U \in Nat /\ F \in Nat /\ G \in Nat /\ Bars[b] \in Nat  BY Constants
<1>3. k * U \in Nat /\ q * G \in Int /\ Bars[b] * G \in Int  BY <1>2
<1>4. q * G < Bars[b] * G  BY <1>1, <1>2, <1>3
<1> QED  BY <1>2, <1>4, MulLess

\* The ticks a position m frames on is ahead,
Over(p, m) == (p.off + m * U + Half) \div p.fpt
On(p, m)   == [p EXCEPT !.off = @ + m * U]
\* and that position, when the bar ends at most once.
Ahead1(p, m) ==
  LET t == p.tick + Over(p, m)
  IN  Placed(p, IF t < p.len THEN p.bar ELSE p.bar + 1,
                IF t < p.len THEN t ELSE t - p.len,
                (p.off + m * U) - Over(p, m) * p.fpt)

LEMMA Moves ==
  ASSUME NEW p, Kept(p), NEW k \in Cycles, NEW m \in Nat, m <= k
  PROVE  /\ Over(p, m) \in Nat
         /\ Over(p, m) * p.fpt <= p.off + m * U + Half
         /\ p.off + m * U + Half < Over(p, m) * p.fpt + p.fpt
         /\ \A b \in DOMAIN Bars : Over(p, m) < Bars[b]
         /\ Over(p, m) < p.len
         /\ Normal(On(p, m)) = Ahead1(p, m)
         /\ Settled(Ahead1(p, m))
<1> DEFINE q == Over(p, m)
           x == p.off + m * U
<1>1. /\ p \in Place /\ p.tick < p.len /\ -Half <= p.off
      /\ p.bar \in Nat /\ p.tick \in Nat /\ p.off \in Int /\ p.len \in Nat \ {0}
      /\ p.fpt \in Nat \ {0} /\ p.fpt \in Tempos
      /\ U \in Nat /\ Half \in Nat /\ k \in Nat
  BY Constants, PlaceFields DEF Kept
<1>2. m * U \in Nat /\ m * U <= k * U /\ k * U \in Nat
  <2>1. m \in Int /\ k \in Int  BY <1>1
  <2>2. m * U \in Int /\ m * U <= k * U /\ k * U \in Int
    BY <1>1, <2>1, MulMono
  <2>3. 0 * U <= m * U /\ 0 * U <= k * U /\ 0 * U = 0  BY <1>1, MulMono
  <2> QED  BY <2>2, <2>3
<1>3. x \in Int /\ x + Half \in Nat  BY <1>1, <1>2
<1>4. q \in Int /\ q * p.fpt <= x + Half /\ x + Half < q * p.fpt + p.fpt
  <2>1. q = (x + Half) \div p.fpt  BY DEF Over
  <2> HIDE DEF q, x
  <2>2. x + Half \in Int  BY <1>3
  <2> QED  BY <1>1, <2>1, <2>2, DivBounds
<1>5. q \in Nat
  <2>1. 0 * p.fpt < (q + 1) * p.fpt /\ q + 1 \in Int  BY <1>1, <1>3, <1>4
  <2>2. 0 < q + 1  BY <1>1, <2>1, MulLess
  <2> QED  BY <1>4, <2>2
<1> HIDE DEF q
<1>6. q * p.fpt \in Int  BY <1>1, <1>4
<1>7. \A b \in DOMAIN Bars : q < Bars[b]
  <2>1. PICK F \in Tempos : p.off + Half < F  BY DEF Kept
  <2>2. F \in Nat  BY <2>1, Constants
  <2>3. q * p.fpt < F + k * U  BY <1>1, <1>2, <1>4, <1>6, <2>1, <2>2
  <2> QED  BY <1>1, <1>4, <2>3, TooFew
<1>8. q < p.len  BY <1>7 DEF Kept
<1> DEFINE a == On(p, m)
           t == p.tick + q
<1>9. /\ a \in Place /\ a.bar = p.bar /\ a.tick = p.tick /\ a.len = p.len
      /\ a.fpt = p.fpt /\ a.off = x
  BY <1>1, <1>3 DEF On, Place
<1>10. \A b, u, o : Placed(a, b, u, o) = Placed(p, b, u, o)
  BY <1>1 DEF Placed, On, Place
<1> HIDE DEF a, x
<1>11. Normal(a) = Placed(p, IF t < p.len THEN p.bar ELSE p.bar + 1,
                             IF t < p.len THEN t ELSE t - p.len, x - q * p.fpt)
  <2>1. t \in Nat /\ t < 2 * p.len  BY <1>1, <1>5, <1>8
  <2>2. q * a.fpt <= a.off + Half /\ a.off + Half < q * a.fpt + a.fpt
    BY <1>4, <1>9
  <2>3. a.tick + q = t  BY <1>9
  <2> HIDE DEF t
  <2>4. CASE t < p.len
    <3>1. Normal(a) = Placed(a, a.bar, a.tick + q, a.off - q * a.fpt)
      BY <1>4, <1>9, <2>1, <2>2, <2>3, <2>4, NormalIs
    <3> QED  BY <1>9, <1>10, <2>3, <2>4, <3>1
  <2>5. CASE ~(t < p.len)
    <3>1. a.len <= t /\ t < 2 * a.len  BY <1>1, <1>9, <2>1, <2>5
    <3>2. Normal(a) = Placed(a, a.bar + 1, (a.tick + q) - a.len, a.off - q * a.fpt)
      BY <1>4, <1>9, <2>2, <2>3, <3>1, NormalIs
    <3> QED  BY <1>9, <1>10, <2>3, <2>5, <3>2
  <2> QED  BY <2>4, <2>5
<1>12. Normal(a) = Ahead1(p, m)  BY <1>11 DEF Ahead1, q, x
<1>13. Settled(Normal(a))
  <2> DEFINE o == x - q * p.fpt
             b == IF t < p.len THEN p.bar ELSE p.bar + 1
             u == IF t < p.len THEN t ELSE t - p.len
  <2>1. o \in Int /\ -Half <= o /\ o + Half < p.fpt
    <3> DEFINE z == q * p.fpt
    <3>1. z \in Int /\ z <= x + Half /\ x + Half < z + p.fpt  BY <1>4, <1>6
    <3>2. x \in Int  BY <1>3
    <3> HIDE DEF z
    <3>3. x - z \in Int /\ -Half <= x - z /\ (x - z) + Half < p.fpt
      BY <1>1, <3>1, <3>2
    <3> QED  BY <3>3 DEF z
  <2>3. b \in Nat /\ u \in Nat /\ u < p.len  BY <1>1, <1>5, <1>8
  <2>4. Normal(a) = Placed(p, b, u, o)  BY <1>11
  <2> HIDE DEF o, b, u
  <2>5. /\ Normal(a) \in Place /\ Normal(a).tick = u /\ Normal(a).off = o
        /\ Normal(a).len = p.len /\ Normal(a).fpt = p.fpt
    BY <1>1, <2>1, <2>3, <2>4 DEF Placed, Place
  <2> QED  BY <2>1, <2>3, <2>5 DEF Settled
<1>14. Over(p, m) = q /\ On(p, m) = a /\ p.off + m * U = x  BY DEF q, a, x
<1>15. p.off + m * U + Half = x + Half  BY <1>14
<1> QED  BY <1>4, <1>5, <1>7, <1>8, <1>12, <1>13, <1>14, <1>15

LEMMA OnNone ==
  ASSUME NEW p \in Place
  PROVE  On(p, 0) = p
<1>1. 0 * U = 0 /\ p.off + 0 = p.off  BY PlaceFields, Constants
<1>2. On(p, 0) = [p EXCEPT !.off = p.off]  BY <1>1 DEF On
<1> QED  BY <1>2 DEF Place

LEMMA SettledNormal ==
  ASSUME NEW p, Settled(p)
  PROVE  Normal(p) = p
<1>1. /\ p \in Place /\ p.tick < p.len /\ -Half <= p.off /\ p.off + Half < p.fpt
      /\ p.bar \in Nat /\ p.tick \in Nat /\ p.off \in Int /\ p.len \in Nat
      /\ p.fpt \in Nat /\ Half \in Nat
  BY Constants, PlaceFields DEF Settled
<1>2. 0 \in Int /\ 0 * p.fpt = 0 /\ p.tick + 0 = p.tick /\ p.off - 0 = p.off  BY <1>1
<1>3. 0 * p.fpt <= p.off + Half /\ p.off + Half < 0 * p.fpt + p.fpt  BY <1>1, <1>2
<1>4. Normal(p) = Placed(p, p.bar, p.tick + 0, p.off - 0 * p.fpt)
  BY <1>1, <1>2, <1>3, NormalIs
<1> QED  BY <1>1, <1>2, <1>4 DEF Placed, Place

\* Where a relocated transport is, and that a cycle begins there.
LEMMA AtIs ==
  ASSUME NEW b \in DOMAIN Bars, NEW c \in DOMAIN Bars, NEW F \in Tempos
  PROVE  /\ Kept(At(b, Bars[c], F)) /\ Tick(First(At(b, Bars[c], F))) = <<b, 0>>
         /\ At(b, Bars[c], F).bar = b /\ At(b, Bars[c], F).len = Bars[c]
<1> DEFINE p == At(b, Bars[c], F)
<1>1. /\ b \in Nat /\ Bars[c] \in Nat \ {0} /\ F \in Nat /\ F > U
      /\ Half \in Nat /\ Half > 0 /\ U = 2 * Half
  BY Constants
<1>2. /\ p.bar = b /\ p.tick = 0 /\ p.off = 0 /\ p.len = Bars[c] /\ p.fpt = F
      /\ p \in Place
  BY <1>1 DEF At, Place
<1> HIDE DEF p
<1>3. 0 + Half < F /\ -Half < 0 /\ -Half <= 0 /\ 0 < Bars[c] /\ 0 < Half  BY <1>1
<1>4. Settled(p)  BY <1>2, <1>3 DEF Settled
<1>5. Snapped(p)  BY <1>2, <1>3 DEF Snapped
<1>6. First(p) = p  BY <1>4, <1>5, SettledNormal DEF First
<1>7. Tick(First(p)) = <<b, 0>>  BY <1>2, <1>6, InSongIs DEF Tick
<1>8. Kept(p)
  <2>1. (\E G \in Tempos : p.off + Half < G) /\ \E d \in DOMAIN Bars : p.len = Bars[d]
    BY <1>2, <1>3
  <2> QED  BY <1>2, <1>3, <2>1 DEF Kept
<1> QED  BY <1>2, <1>7, <1>8 DEF p

\* One tick further is one tick further, over the end of the bar too.
LEMMA GoneNext ==
  ASSUME NEW f \in Place, NEW c \in Place, c.len = f.len, c.tick < c.len, f.tick < f.len,
         c.bar \in {f.bar, f.bar + 1}, 0 <= Gone(f, c), Gone(f, c) < f.len,
         NEW d, d.bar = NextBar(c), d.tick = NextTick(c)
  PROVE  d.bar \in {f.bar, f.bar + 1} /\ Gone(f, d) = Gone(f, c) + 1
<1>1. /\ f.bar \in Nat /\ f.tick \in Nat /\ f.len \in Nat
      /\ c.bar \in Nat /\ c.tick \in Nat /\ c.len \in Nat
  BY PlaceFields
<1> QED  BY <1>1 DEF Gone, NextBar, NextTick

LEMMA GoneSame ==
  ASSUME NEW f \in Place, NEW c \in Place, NEW d \in Place,
         c.tick < f.len, d.tick < f.len, f.tick < f.len,
         c.bar \in {f.bar, f.bar + 1}, d.bar \in {f.bar, f.bar + 1}, Gone(f, c) = Gone(f, d)
  PROVE  c.bar = d.bar /\ c.tick = d.tick
<1>1. /\ f.bar \in Nat /\ f.tick \in Nat /\ f.len \in Nat /\ c.bar \in Nat
      /\ c.tick \in Nat /\ d.bar \in Nat /\ d.tick \in Nat
  BY PlaceFields
<1> QED  BY <1>1 DEF Gone

-----------------------------------------------------------------------------
(* Every step keeps the invariant.                                         *)

LEMMA InitOK == Init => IInv
<1> SUFFICES ASSUME Init  PROVE IInv  OBVIOUS
<1>1. 1 \in DOMAIN Bars /\ tempo \in Tempos /\ pos = At(1, Bars[1], tempo)
  BY Constants DEF Init
<1>2. Kept(pos) /\ Tick(First(pos)) = <<1, 0>> /\ pos.len = Bars[1] /\ pos.bar = 1
  BY <1>1, AtIs
<1>3. n = 0 /\ ~sounding /\ ~torn /\ out = {} /\ due = <<1, 0>> /\ at = 0
      /\ ~rolling /\ ~rewound
      /\ rolling \in BOOLEAN /\ sounding \in BOOLEAN /\ torn \in BOOLEAN /\ rewound \in BOOLEAN
  BY DEF Init
<1> QED  BY <1>1, <1>2, <1>3 DEF IInv, Placing, Flags, Walk, Notes, OnTime, BarLength, Ordered, Awaited

\* The variables of the cycle are left alone and so is what is said of them.
LEMMA CycleKept ==
  ASSUME IInv, UNCHANGED cycle
  PROVE  Walk' /\ Notes' /\ (n' > 0 => Kept(from'))
<1>1. /\ n' = n /\ from' = from /\ sounding' = sounding /\ cur' = cur /\ at' = at /\ out' = out
  BY DEF cycle
<1>2. Walk'  BY <1>1 DEF IInv, Walk, Steps
<1>3. Notes'  BY <1>1 DEF IInv, Notes, OnTime, Ahead
<1> QED  BY <1>1, <1>2, <1>3 DEF IInv, Placing

LEMMA TouchIs ==
  ASSUME Touch, n \in Nat
  PROVE  torn' \in BOOLEAN /\ (n = 0 => ~torn') /\ (n > 0 => torn')
<1>1. CASE n > 0
  <2>1. (n > 0) = TRUE /\ n # 0  BY <1>1
  <2>2. torn' = TRUE  BY <2>1 DEF Touch
  <2> QED  BY <2>1, <2>2
<1>2. CASE n = 0
  <2>1. (n > 0) = FALSE  BY <1>2
  <2>2. torn' = FALSE  BY <2>1 DEF Touch
  <2> QED  BY <2>1, <2>2
<1> QED  BY <1>1, <1>2

\* The GUI puts the transport somewhere in the song.
LEMMA MoveOK ==
  ASSUME IInv, UNCHANGED cycle, UNCHANGED tempo, rolling' \in BOOLEAN,
         NEW b \in DOMAIN Bars, NEW c \in DOMAIN Bars,
         pos' = At(b, Bars[c], tempo), rewound' = (c # b), Touch, Expect(b)
  PROVE  IInv'
<1>1. tempo \in Tempos /\ n \in Cycles \cup {0}  BY DEF IInv, Flags
<1>2. /\ Kept(pos') /\ Tick(First(pos')) = <<b, 0>> /\ pos'.bar = b /\ pos'.len = Bars[c]
  BY <1>1, AtIs
<1>3. n' = n /\ sounding' = sounding /\ out' = out /\ at' = at /\ cur' = cur /\ tempo' = tempo
  BY DEF cycle
<1>4. Placing'  BY <1>2, CycleKept DEF Placing
<1>5. n \in Nat /\ b \in Nat  BY <1>1, Constants
<1>6. Flags'
  <2>1. torn' = (n > 0) /\ due' \in Nat \X Nat
    BY <1>5 DEF IInv, Flags, Touch, Expect
  <2>2. torn' \in BOOLEAN /\ (n = 0 => ~torn') /\ (n > 0 => torn')
    BY <1>5, TouchIs
  <2> QED  BY <1>2, <1>3, <1>5, <2>1, <2>2 DEF IInv, Flags
<1>7. BarLength'  BY <1>2 DEF BarLength
<1>8. Ordered'
  <2>1. CASE sounding
    <3>1. n > 0  BY <1>5, <2>1 DEF IInv, Flags
    <3>2. due' = due  BY <2>1, <3>1 DEF Expect
    <3> QED  BY <1>3, <2>1, <3>2 DEF IInv, Ordered, Tick
  <2>2. CASE ~sounding
    <3>1. due' = <<b, 0>>  BY <2>2 DEF Expect
    <3> QED  BY <1>2, <1>3, <2>2, <3>1 DEF Ordered, Awaited
  <2> QED  BY <2>1, <2>2
<1> QED  BY <1>4, <1>6, <1>7, <1>8, CycleKept DEF IInv

LEMMA GuiOK ==
  ASSUME IInv, Gui, Seeks \subseteq DOMAIN Bars
  PROVE  IInv'
<1>1. tempo \in Tempos /\ n \in Nat /\ 1 \in DOMAIN Bars  BY Constants DEF IInv, Flags
<1>2. ASSUME pos' = pos, due' = due, rewound' = rewound, UNCHANGED cycle, tempo' \in Tempos,
             rolling' \in BOOLEAN, Touch \/ (torn' = torn /\ rolling' = rolling)
      PROVE  IInv'
  <2>1. pos' = pos /\ due' = due /\ rewound' = rewound /\ UNCHANGED cycle  BY <1>2
  <2>2. n' = n /\ sounding' = sounding /\ out' = out /\ at' = at /\ cur' = cur /\ from' = from
    BY <2>1 DEF cycle
  <2>3. Placing'  BY <2>1, <2>2 DEF IInv, Placing
  <2>4. /\ torn' \in BOOLEAN /\ (n = 0 => ~torn')
        /\ (n > 0 /\ ~torn' => ~torn /\ rolling' = rolling)
    <3>1. CASE Touch  BY <1>1, <3>1, TouchIs
    <3>2. CASE torn' = torn /\ rolling' = rolling  BY <3>2 DEF IInv, Flags
    <3> QED  BY <1>2, <3>1, <3>2
  <2>5. Flags'  BY <1>1, <1>2, <2>1, <2>2, <2>4 DEF IInv, Flags
  <2>6. BarLength' /\ Ordered'  BY <2>1, <2>2 DEF IInv, BarLength, Ordered, Tick
  <2> QED  BY <2>1, <2>3, <2>5, <2>6, CycleKept DEF IInv
<1>6. ASSUME Start \/ Stop  PROVE IInv'
  <2>1. rolling' \in BOOLEAN /\ Touch /\ tempo' = tempo
        /\ pos' = pos /\ due' = due /\ rewound' = rewound /\ UNCHANGED cycle
    BY <1>6 DEF Start, Stop
  <2>2. tempo' \in Tempos  BY <1>1, <2>1
  <2>3. Touch \/ (torn' = torn /\ rolling' = rolling)  BY <2>1
  <2> QED  BY <1>2, <2>1, <2>2, <2>3
<1>7. ASSUME NEW F \in Tempos, SetTempo(F)  PROVE IInv'
  <2>1. rolling' = rolling /\ rolling \in BOOLEAN  BY <1>7 DEF SetTempo, IInv, Flags
  <2> QED  BY <1>2, <1>7, <2>1 DEF SetTempo
<1>3. ASSUME NEW b \in Seeks, Seek(b)  PROVE IInv'
  <2>1. b \in DOMAIN Bars /\ rolling' \in BOOLEAN  BY <1>3 DEF Seek, IInv, Flags
  <2>2. pos' = At(b, Bars[b], tempo) /\ rewound' = (b # b)
    BY <1>3, <2>1 DEF Seek, SeekTo, Length
  <2> QED  BY <1>3, <2>1, <2>2, MoveOK DEF Seek
<1>4. ASSUME Rewind  PROVE IInv'
  <2>1. PICK c \in DOMAIN Bars : pos.len = Bars[c]  BY DEF IInv, Placing, Kept
  <2>2. CASE pos.len = Bars[1]
    <3>1. pos' = At(1, Bars[1], tempo) /\ rewound' = (1 # 1) /\ rolling' \in BOOLEAN
      BY <1>4, <2>2 DEF Rewind, IInv, Flags
    <3> QED  BY <1>1, <1>4, <3>1, MoveOK DEF Rewind
  <2>3. CASE pos.len # Bars[1]
    <3>1. pos' = At(1, Bars[c], tempo) /\ rewound' = (c # 1) /\ rolling' \in BOOLEAN
      BY <1>4, <2>1, <2>3 DEF Rewind, IInv, Flags
    <3> QED  BY <1>1, <1>4, <2>1, <3>1, MoveOK DEF Rewind
  <2> QED  BY <2>2, <2>3
<1>5. ASSUME SetSong  PROVE IInv'
  <2>1. pos' = At(1, Bars[1], tempo) /\ rewound' = (1 # 1) /\ rolling' \in BOOLEAN
    BY <1>5 DEF SetSong
  <2> QED  BY <1>1, <1>5, <2>1, MoveOK DEF SetSong
<1> QED  BY <1>3, <1>4, <1>5, <1>6, <1>7 DEF Gui

\* How many frames it is to where a cycle that rolls begins to play, and where
\* that is.
Lead(p) == IF Snapped(Normal(p)) THEN 0 ELSE Gap(Normal(p))

LEMMA FirstIs ==
  ASSUME NEW p, Kept(p), NEW k \in Cycles
  PROVE  /\ Settled(Normal(p)) /\ Lead(p) \in Nat
         /\ Near(First(p))
         /\ First(p).len = p.len /\ First(p).fpt = p.fpt
         /\ First(p).bar \in {p.bar, p.bar + 1} /\ Gone(p, First(p)) >= 0
         /\ First(p).off + Gone(p, First(p)) * p.fpt = p.off + Lead(p) * U
         /\ First(p).off + k * U + First(p).fpt >= Half + Lead(p) * U
<1> DEFINE a == Normal(p)
           q == Over(p, 0)
           c == First(p)
           m == Lead(p)
<1>1. /\ p \in Place /\ p.tick < p.len /\ p.bar \in Nat /\ p.tick \in Nat /\ p.off \in Int
      /\ p.len \in Nat \ {0} /\ p.fpt \in Nat \ {0} /\ p.fpt > U
      /\ U \in Nat /\ Half \in Nat /\ Half > 0 /\ U = 2 * Half /\ k \in Nat \ {0}
  BY Constants, PlaceFields DEF Kept
<1>2. /\ q \in Nat /\ q < p.len /\ a = Ahead1(p, 0) /\ Settled(a)
  <2>1. 0 \in Nat /\ 0 <= k  BY <1>1
  <2> QED  BY <1>1, <2>1, Moves, OnNone
<1>3. /\ a.off = p.off - q * p.fpt /\ a.len = p.len /\ a.fpt = p.fpt
      /\ a.bar = IF p.tick + q < p.len THEN p.bar ELSE p.bar + 1
      /\ a.tick = IF p.tick + q < p.len THEN p.tick + q ELSE (p.tick + q) - p.len
  <2>1. 0 * U = 0 /\ p.off + 0 = p.off  BY <1>1
  <2>2. a = Placed(p, IF p.tick + q < p.len THEN p.bar ELSE p.bar + 1,
                      IF p.tick + q < p.len THEN p.tick + q ELSE (p.tick + q) - p.len,
                      p.off - q * p.fpt)
    BY <1>2, <2>1 DEF Ahead1
  <2> HIDE DEF a, q
  <2> QED  BY <1>1, <2>2 DEF Placed, Place
<1> HIDE DEF a, q
<1>4. a.bar \in {p.bar, p.bar + 1} /\ Gone(p, a) = q
  BY <1>1, <1>2, <1>3 DEF Gone
<1>5. q * p.fpt \in Int /\ k * U \in Nat /\ k * U >= U
  <2>1. 1 * U <= k * U /\ 1 * U = U  BY <1>1, MulMono
  <2> QED  BY <1>1, <1>2, <2>1
<1>6. a.off \in Int /\ -Half <= a.off /\ a \in Place /\ a.tick < a.len
  BY <1>2, PlaceFields DEF Settled
<1>7. CASE Snapped(a)
  <2>1. c = a /\ m = 0 /\ 0 * U = 0  BY <1>1, <1>7 DEF First, Lead, a
  <2>2. a.off + k * U + a.fpt >= Half + 0  BY <1>1, <1>3, <1>5, <1>6
  <2>3. a.off + q * p.fpt = p.off + 0  BY <1>1, <1>3, <1>5
  <2>4. Near(a)
    <3>1. -Half < a.off /\ a.off <= Half  BY <1>1, <1>6, <1>7 DEF Snapped
    <3> QED  BY <1>2, <3>1 DEF Near
  <2> HIDE DEF c, m
  <2> QED  BY <1>2, <1>3, <1>4, <2>1, <2>2, <2>3, <2>4 DEF a, c, m
<1>8. CASE ~Snapped(a)
  <2>1. c = Following(a) /\ m = Gap(a)  BY <1>8 DEF First, Lead, a
  <2> HIDE DEF c, m
  <2>2. /\ m \in Nat \ {0} /\ Near(c)
        /\ c = Placed(a, NextBar(a), NextTick(a), a.off + m * U - a.fpt)
    BY <1>2, <2>1, FollowingIs
  <2>3. m * U \in Int  BY <1>1, <2>2
  <2>4. /\ c.bar = NextBar(a) /\ c.tick = NextTick(a) /\ c.len = p.len /\ c.fpt = p.fpt
        /\ c.off = a.off + m * U - a.fpt
    <3>1. a.off + m * U - a.fpt \in Int  BY <1>1, <1>3, <1>6, <2>3
    <3> HIDE DEF a
    <3> QED  BY <1>3, <1>6, <2>2, <3>1 DEF Placed, Place
  <2>5. c.bar \in {p.bar, p.bar + 1} /\ Gone(p, c) = q + 1
    BY <1>1, <1>2, <1>3, <1>4, <1>6, <2>4, GoneNext
  <2>6. (q + 1) * p.fpt = q * p.fpt + p.fpt  BY <1>1, <1>2
  <2>7. c.off + (q + 1) * p.fpt = p.off + m * U
    BY <1>1, <1>3, <1>5, <2>3, <2>4, <2>6
  <2>8. a.off >= -Half  BY <1>6
  <2>9. c.off + k * U + c.fpt >= Half + m * U
    BY <1>1, <1>3, <1>5, <1>6, <2>3, <2>4, <2>8
  <2>10. q + 1 >= 0  BY <1>2
  <2> QED  BY <1>2, <2>1, <2>2, <2>4, <2>5, <2>7, <2>9, <2>10 DEF a, c, m
<1> QED  BY <1>7, <1>8 DEF a

\* Over a tick that is passed over, to the one that is played.
LEMMA PassedIs ==
  ASSUME NEW p, Kept(p), NEW k \in Cycles, PassedOver(Normal(p))
  PROVE  /\ First(p) = Following(Normal(p))
         /\ After(Normal(p), InSong(Normal(p).bar), Normal(p).tick) = Tick(First(p))
         /\ Tick(First(p)) \in Nat \X Nat
<1> DEFINE a == Normal(p)
           q == Over(p, 0)
<1>1. /\ p \in Place /\ p.bar \in DOMAIN Bars /\ p.tick < p.len /\ p.bar \in Nat \ {0}
      /\ p.tick \in Nat /\ p.off \in Int /\ p.len \in Nat \ {0} /\ p.fpt \in Nat \ {0}
      /\ U \in Nat /\ Half \in Nat /\ Half > 0 /\ k \in Nat
  BY Constants, PlaceFields DEF Kept
<1>2. /\ q \in Nat /\ q < p.len /\ a = Ahead1(p, 0) /\ Settled(a)
      /\ \A b \in DOMAIN Bars : q < Bars[b]
  <2>1. 0 \in Nat /\ 0 <= k  BY <1>1
  <2> QED  BY <1>1, <2>1, Moves, OnNone
<1>3. /\ a.len = p.len
      /\ a.bar = IF p.tick + q < p.len THEN p.bar ELSE p.bar + 1
      /\ a.tick = IF p.tick + q < p.len THEN p.tick + q ELSE (p.tick + q) - p.len
  <2> HIDE DEF a, q
  <2>1. a = Placed(p, IF p.tick + q < p.len THEN p.bar ELSE p.bar + 1,
                      IF p.tick + q < p.len THEN p.tick + q ELSE (p.tick + q) - p.len,
                      (p.off + 0 * U) - q * p.fpt)
    BY <1>2 DEF Ahead1, q
  <2> QED  BY <1>1, <2>1 DEF Placed, Place
<1>4. ~Snapped(a)
  <2> HIDE DEF a
  <2> QED  BY <1>1, PassedOver(a) DEF a, PassedOver, Snapped
<1>5. First(p) = Following(a)  BY <1>4 DEF First
<1>6. Following(a) = Placed(a, NextBar(a), NextTick(a), a.off + Gap(a) * U - a.fpt)
  BY <1>2, FollowingIs
<1> HIDE DEF a, q
<1>7. a \in Place /\ a.bar \in Nat \ {0} /\ a.tick \in Nat
  BY <1>1, <1>2, <1>3, PlaceFields DEF Settled
<1>8. Tick(First(p)) = <<InSong(NextBar(a)), NextTick(a)>>
  <2>1. First(p).bar = NextBar(a) /\ First(p).tick = NextTick(a)
    BY <1>5, <1>6, <1>7 DEF Placed, Place
  <2> QED  BY <2>1 DEF Tick
<1>9. After(a, InSong(a.bar), a.tick) = <<InSong(NextBar(a)), NextTick(a)>>
  <2>1. CASE a.bar = p.bar
    <3>1. InSong(a.bar) = a.bar  BY <1>1, <2>1, InSongIs
    <3> QED  BY <3>1 DEF After, NextBar, NextTick
  <2>2. CASE a.bar # p.bar
    <3>1. a.tick + 1 <= q  BY <1>1, <1>2, <1>3, <2>2
    <3>2. InSong(a.bar) \in DOMAIN Bars  BY <1>7, InSongIs
    <3>3. Bars[InSong(a.bar)] \in Nat  BY <3>2, Constants
    <3>4. a.tick + 1 < Bars[InSong(a.bar)] /\ a.tick + 1 < a.len
      BY <1>1, <1>2, <1>3, <1>7, <3>1, <3>2, <3>3
    <3> QED  BY <3>4 DEF After, NextBar, NextTick
  <2> QED  BY <2>1, <2>2
<1>10. InSong(NextBar(a)) \in Nat /\ NextTick(a) \in Nat
  <2>1. NextBar(a) \in Nat \ {0} /\ NextTick(a) \in Nat  BY <1>7 DEF NextBar, NextTick
  <2>2. InSong(NextBar(a)) \in DOMAIN Bars  BY <2>1, InSongIs
  <2>3. InSong(NextBar(a)) \in Nat
    <3> HIDE DEF NextBar, InSong
    <3> QED  BY <2>2, Constants
  <2> QED  BY <2>1, <2>3
<1>11. After(a, InSong(a.bar), a.tick) = Tick(First(p)) /\ Tick(First(p)) \in Nat \X Nat
  BY <1>8, <1>9, <1>10
<1> QED  BY <1>5, <1>11 DEF a

LEMMA BeginOK ==
  ASSUME IInv, NEW k \in Cycles, Begin(k)
  PROVE  IInv'
<1>1. /\ n = 0 /\ n' = k /\ from' = pos /\ sounding' = rolling /\ pos' = pos
      /\ rolling' = rolling /\ tempo' = tempo /\ out' = out /\ torn' = torn
      /\ rewound' = rewound
  BY DEF Begin
<1>2. Kept(pos) /\ k \in Nat \ {0} /\ ~sounding /\ ~torn /\ out = {}
  BY <1>1, Constants DEF IInv, Placing, Flags
<1>3. ASSUME rolling
      PROVE  cur' = First(pos) /\ at' = Lead(pos)
  BY <1>3 DEF Begin, First, Lead
<1>4. at' \in Nat
  <2>1. CASE rolling  BY <1>2, <1>3, <2>1, FirstIs
  <2>2. CASE ~rolling  BY <2>2 DEF Begin, IInv, Flags
  <2> QED  BY <2>1, <2>2
<1>5. Placing'  BY <1>1, <1>2 DEF Placing
<1>10. due' \in Nat \X Nat /\ (due' # None => IF rolling THEN due' = Tick(First(pos))
                                                        ELSE due' \in Awaited(pos))
  <2> DEFINE a == Normal(pos)
  <2>1. due \in Nat \X Nat /\ (due # None => due \in Awaited(pos))
    BY <1>2 DEF IInv, Flags, Ordered
  <2>2. due' = IF rolling /\ PassedOver(a) /\ due = <<InSong(a.bar), a.tick>>
               THEN After(a, due[1], due[2]) ELSE due
    BY DEF Begin
  <2>3. Awaited(pos) = {Tick(First(pos))} \cup (IF PassedOver(a) THEN {Tick(a)} ELSE {})
        /\ Tick(a) = <<InSong(a.bar), a.tick>>
    BY DEF Awaited, Tick
  <2> HIDE DEF a
  <2>4. CASE ~rolling  BY <2>1, <2>2, <2>4
  <2>5. CASE rolling /\ PassedOver(a) /\ due = <<InSong(a.bar), a.tick>>
    <3>1. due' = After(a, InSong(a.bar), a.tick)  BY <2>2, <2>5
    <3>2. After(a, InSong(a.bar), a.tick) = Tick(First(pos)) /\ Tick(First(pos)) \in Nat \X Nat
      BY <1>2, <2>5, PassedIs DEF a
    <3> QED  BY <2>5, <3>1, <3>2
  <2>6. CASE rolling /\ ~(PassedOver(a) /\ due = <<InSong(a.bar), a.tick>>)
    <3>1. due' = due  BY <2>2, <2>6
    <3>2. due # None => due = Tick(First(pos))  BY <2>1, <2>3, <2>6
    <3> QED  BY <2>1, <2>6, <3>1, <3>2
  <2> QED  BY <2>4, <2>5, <2>6
<1>6. Flags'  BY <1>1, <1>2, <1>4, <1>10 DEF IInv, Flags
<1>7. Walk'
  <2> SUFFICES ASSUME rolling
               PROVE  /\ Near(cur')
                      /\ cur'.len = pos.len /\ cur'.fpt = pos.fpt
                      /\ cur'.bar \in {pos.bar, pos.bar + 1} /\ Gone(pos, cur') >= 0
                      /\ cur'.off + Gone(pos, cur') * pos.fpt = pos.off + at' * U
                      /\ cur'.off + k * U + cur'.fpt >= Half + at' * U
    BY <1>1 DEF Walk, Steps
  <2> QED  BY <1>2, <1>3, FirstIs
<1>8. Notes'  BY <1>1, <1>2 DEF Notes, OnTime
<1>9. BarLength'  BY <1>1 DEF IInv, BarLength
<1>11. Ordered'
  <2>1. CASE rolling
    <3>1. Tick(cur') = Tick(First(pos))  BY <1>3, <2>1
    <3> QED  BY <1>1, <1>10, <2>1, <3>1 DEF Ordered, Tick
  <2>2. CASE ~rolling
    <3>1. Awaited(pos)' = Awaited(pos)  BY <1>1 DEF Awaited, Tick
    <3> QED  BY <1>1, <1>10, <2>2, <3>1 DEF Ordered
  <2> QED  BY <2>1, <2>2
<1> QED  BY <1>5, <1>6, <1>7, <1>8, <1>9, <1>11 DEF IInv

\* What holds of the tick whose notes are put in.
LEMMA Sounding ==
  ASSUME IInv, Sequencing
  PROVE  /\ n \in Cycles /\ Kept(from) /\ Settled(cur) /\ Near(cur)
         /\ Steps \in Nat /\ Steps < from.len /\ \A b \in DOMAIN Bars : Steps < Bars[b]
         /\ cur.len = from.len /\ cur.fpt = from.fpt
         /\ cur.bar \in {from.bar, from.bar + 1}
         /\ cur.off + Steps * from.fpt = from.off + at * U
<1>1. /\ n \in Cycles /\ Kept(from) /\ Settled(cur) /\ Near(cur) /\ Steps >= 0
      /\ cur.len = from.len /\ cur.fpt = from.fpt
      /\ cur.bar \in {from.bar, from.bar + 1}
      /\ cur.off + Steps * from.fpt = from.off + at * U
      /\ at \in Nat /\ at < n /\ n \in Nat
  BY Constants DEF IInv, Walk, Near, Placing, Flags, Sequencing
<1>2. /\ from \in Place /\ cur \in Place
      /\ from.tick \in Nat /\ from.len \in Nat /\ from.off \in Int /\ from.fpt \in Tempos
      /\ from.fpt \in Nat /\ from.bar \in Nat
      /\ cur.tick \in Nat /\ cur.off \in Int /\ cur.bar \in Nat
      /\ -Half < cur.off /\ U \in Nat /\ Half \in Nat /\ Half > 0 /\ U = 2 * Half
  <2>1. from \in Place /\ cur \in Place  BY <1>1 DEF Kept, Settled
  <2> QED  BY <1>1, <2>1, PlaceFields, Constants DEF Near
<1>3. Steps \in Nat
  <2>1. Steps \in Int  BY <1>2 DEF Steps, Gone
  <2> QED  BY <1>1, <2>1
<1>4. PICK F \in Tempos : from.off + Half < F  BY <1>1 DEF Kept
<1>5. Steps * from.fpt < F + n * U
  <2>1. (at + 1) * U <= n * U /\ (at + 1) * U = at * U + U
    <3>1. at + 1 \in Int /\ n \in Int /\ at + 1 <= n  BY <1>1
    <3> QED  BY <1>1, <1>2, <3>1, MulMono
  <2>2. at * U \in Int /\ n * U \in Int /\ Steps * from.fpt \in Int /\ F \in Nat
    BY <1>1, <1>2, <1>3, Constants
  <2> HIDE DEF Steps
  <2> QED  BY <1>1, <1>2, <1>4, <2>1, <2>2
<1>6. \A b \in DOMAIN Bars : Steps < Bars[b]
  BY <1>1, <1>2, <1>3, <1>5, TooFew
<1> QED  BY <1>1, <1>3, <1>6 DEF Kept

LEMMA EmitOK ==
  ASSUME IInv, Emit
  PROVE  IInv'
<1>1. /\ Sequencing /\ Group \in DOMAIN Bars
      /\ due' = After(from, InSong(cur.bar), cur.tick)
      /\ cur' = Following(cur) /\ at' = at + Gap(cur)
      /\ pos' = pos /\ rolling' = rolling /\ tempo' = tempo /\ n' = n /\ from' = from
      /\ sounding' = sounding /\ torn' = torn /\ rewound' = rewound
  BY DEF Emit
<1>2. /\ n \in Cycles /\ Kept(from) /\ Settled(cur) /\ Near(cur)
      /\ Steps \in Nat /\ Steps < from.len /\ \A b \in DOMAIN Bars : Steps < Bars[b]
      /\ cur.len = from.len /\ cur.fpt = from.fpt
      /\ cur.bar \in {from.bar, from.bar + 1}
      /\ cur.off + Steps * from.fpt = from.off + at * U
  BY <1>1, Sounding
<1>3. /\ from \in Place /\ from.bar \in DOMAIN Bars /\ from.tick < from.len
      /\ cur \in Place /\ cur.tick < cur.len
  BY <1>2 DEF Kept, Settled
<1>4. /\ from.tick \in Nat /\ from.len \in Nat /\ from.off \in Int /\ from.bar \in Nat \ {0}
      /\ from.fpt \in Nat \ {0}
      /\ cur.tick \in Nat /\ cur.off \in Int /\ cur.bar \in Nat \ {0}
      /\ -Half < cur.off /\ cur.off <= Half
      /\ U \in Nat /\ Half \in Nat /\ U = 2 * Half /\ n \in Nat /\ at \in Nat /\ at < n
  <2>1. /\ from.tick \in Nat /\ from.len \in Nat /\ from.off \in Int /\ from.bar \in Nat \ {0}
        /\ from.fpt \in Nat \ {0}
    BY <1>3, PlaceFields, Constants
  <2>2. cur.tick \in Nat /\ cur.off \in Int  BY <1>3, PlaceFields
  <2>3. cur.bar \in Nat \ {0}  BY <1>2, <2>1
  <2>4. U \in Nat /\ Half \in Nat /\ U = 2 * Half /\ n \in Nat  BY <1>2, Constants
  <2>5. at \in Nat /\ at < n  BY <1>1 DEF Sequencing, IInv, Flags
  <2> QED  BY <1>2, <2>1, <2>2, <2>3, <2>4, <2>5 DEF Near
<1> DEFINE g == Gap(cur)
<1>5. /\ g \in Nat \ {0} /\ Near(cur')
      /\ cur' = Placed(cur, NextBar(cur), NextTick(cur), cur.off + g * U - cur.fpt)
  BY <1>1, <1>2, FollowingIs
<1> HIDE DEF g
<1>6. g * U \in Int  BY <1>4, <1>5
<1>7. /\ cur'.bar = NextBar(cur) /\ cur'.tick = NextTick(cur) /\ cur'.len = from.len
      /\ cur'.fpt = from.fpt /\ cur'.off = cur.off + g * U - cur.fpt
  <2>1. cur.off + g * U - cur.fpt \in Int  BY <1>2, <1>4, <1>6
  <2> QED  BY <1>2, <1>3, <1>5, <2>1 DEF Placed, Place
<1>8. cur'.bar \in {from.bar, from.bar + 1} /\ Gone(from, cur') = Steps + 1
  <2>1. Gone(from, cur) = Steps /\ 0 <= Gone(from, cur) /\ Gone(from, cur) < from.len
    BY <1>2 DEF Steps
  <2> QED  BY <1>2, <1>3, <1>7, <2>1, GoneNext
<1>9. Placing' /\ BarLength'  BY <1>1 DEF IInv, Placing, BarLength
<1>10. Flags'
  <2>1. at' \in Nat  BY <1>1, <1>4, <1>5 DEF g
  <2>2. due' \in Nat \X Nat
    <3>1. InSong(cur.bar) \in DOMAIN Bars  BY <1>4, InSongIs
    <3>2. InSong(InSong(cur.bar) + 1) \in DOMAIN Bars  BY <3>1, InSongIs
    <3>3. InSong(cur.bar) \in Nat /\ InSong(InSong(cur.bar) + 1) \in Nat
      BY <3>1, <3>2, Constants
    <3> QED  BY <1>1, <1>4, <3>3 DEF After
  <2>3. n > 0 /\ n # 0  BY <1>4
  <2> QED  BY <1>1, <2>1, <2>2, <2>3 DEF IInv, Flags
<1>11. Walk'
  <2>1. cur'.off + (Steps + 1) * from.fpt = from.off + at' * U
    <3>1. at' * U = at * U + g * U  BY <1>1, <1>4, <1>5 DEF g
    <3>2. (Steps + 1) * from.fpt = Steps * from.fpt + from.fpt
      <4>1. Steps \in Int /\ 1 \in Int /\ from.fpt \in Int  BY <1>2, <1>4
      <4> QED  BY <4>1, OneMore
    <3>3. at * U \in Int /\ Steps * from.fpt \in Int  BY <1>2, <1>4
    <3>4. cur'.off = cur.off + g * U - from.fpt
      <4>1. cur.fpt = from.fpt  BY <1>2
      <4> QED  BY <1>7, <4>1
    <3>6. cur.off \in Int /\ from.off \in Int /\ from.fpt \in Int  BY <1>4
    <3>7. cur.off + Steps * from.fpt = from.off + at * U  BY <1>2
    <3>8. cur.off + g * U - from.fpt + (Steps * from.fpt + from.fpt)
          = from.off + (at * U + g * U)
      <4> HIDE DEF Steps
      <4> QED  BY <1>6, <3>3, <3>6, <3>7, Onward
    <3> QED  BY <3>1, <3>2, <3>4, <3>8
  <2>2. cur'.off + n * U + cur'.fpt >= Half + at' * U
    <3>1. at' * U = at * U + g * U  BY <1>1, <1>4, <1>5 DEF g
    <3>2. (at + 1) * U <= n * U /\ (at + 1) * U = at * U + U
      <4>1. at + 1 \in Int /\ n \in Int /\ at + 1 <= n  BY <1>4
      <4> QED  BY <1>4, <4>1, MulMono
    <3>3. at * U \in Int /\ n * U \in Int  BY <1>4
    <3> QED  BY <1>2, <1>4, <1>6, <1>7, <3>1, <3>2, <3>3
  <2>3. Steps + 1 >= 0  BY <1>2
  <2>4. Steps' = Steps + 1  BY <1>1, <1>8 DEF Steps
  <2> QED  BY <1>1, <1>5, <1>7, <1>8, <2>1, <2>2, <2>3, <2>4 DEF Walk
<1>12. InSong(from.bar) = from.bar  BY <1>3, InSongIs
<1>13. Notes'
  <2> DEFINE o == [at |-> at, group |-> Group, bar |-> InSong(cur.bar), tick |-> cur.tick]
  <2>1. out' = out \cup {o}  BY DEF Emit
  <2>2. o \in [at : 0..n, group : DOMAIN Bars, bar : DOMAIN Bars, tick : Nat]
    <3>1. InSong(cur.bar) \in DOMAIN Bars /\ at \in 0..n  BY <1>4, InSongIs
    <3> QED  BY <1>1, <1>4, <3>1
  <2>3. Ahead(o) = Steps
    <3>1. CASE cur.bar = from.bar
      <4>1. cur.tick - from.tick = Steps  BY <3>1 DEF Steps, Gone
      <4>2. cur.tick >= from.tick  BY <1>2, <1>4, <4>1
      <4> QED  BY <1>12, <3>1, <4>1, <4>2 DEF Ahead
    <3>2. CASE cur.bar = from.bar + 1
      <4>1. cur.tick + (from.len - from.tick) = Steps  BY <1>4, <3>2 DEF Steps, Gone
      <4>2. cur.tick < from.tick  BY <1>2, <1>4, <4>1
      <4>3. cur.tick + from.len - from.tick = Steps  BY <1>4, <4>1
      <4>4. ~(cur.tick >= from.tick)  BY <1>4, <4>2
      <4> QED  BY <4>3, <4>4 DEF Ahead
    <3> QED  BY <1>2, <3>1, <3>2
  <2>4. o.at * U + from.off - Ahead(o) * from.fpt = cur.off
    <3>1. at * U \in Int /\ Steps * from.fpt \in Int  BY <1>2, <1>4
    <3>2. o.at = at  OBVIOUS
    <3> HIDE DEF o
    <3> QED  BY <1>2, <1>4, <2>3, <3>1, <3>2
  <2> HIDE DEF o
  <2>5. \A p \in out' : -Half < p.at * U + from.off - Ahead(p) * from.fpt
                       /\ p.at * U + from.off - Ahead(p) * from.fpt <= Half
    BY <1>4, <2>1, <2>4 DEF IInv, Notes, OnTime
  <2>6. OnTime'  BY <1>1, <2>5 DEF OnTime, Ahead
  <2> QED  BY <1>1, <2>1, <2>2, <2>6 DEF IInv, Notes
<1>14. After(from, InSong(cur.bar), cur.tick) = <<InSong(NextBar(cur)), NextTick(cur)>>
  <2>1. CASE cur.bar = from.bar
    BY <1>2, <1>4, <1>12, <2>1 DEF After, NextBar, NextTick
  <2>2. CASE cur.bar = from.bar + 1
    <3>1. cur.tick + (from.len - from.tick) = Steps  BY <1>4, <2>2 DEF Steps, Gone
    <3>2. cur.tick + 1 <= Steps  BY <1>2, <1>3, <1>4, <3>1
    <3>3. InSong(cur.bar) \in DOMAIN Bars  BY <1>4, InSongIs
    <3>4. Bars[InSong(cur.bar)] \in Nat  BY <3>3, Constants
    <3>5. cur.tick + 1 < Bars[InSong(cur.bar)] /\ cur.tick + 1 < from.len
      BY <1>2, <1>4, <3>2, <3>3, <3>4
    <3> QED  BY <1>2, <3>5 DEF After, NextBar, NextTick
  <2> QED  BY <1>2, <2>1, <2>2
<1>15. Ordered'
  BY <1>1, <1>7, <1>14 DEF Ordered, Tick, Sequencing
<1> QED  BY <1>9, <1>10, <1>11, <1>13, <1>15 DEF IInv

\* A cycle ends: where the transport is, when it has rolled.
Ended == Ahead1(pos, n)

LEMMA EndedIs ==
  ASSUME IInv, Advance, rolling
  PROVE  /\ n \in Cycles /\ Kept(pos) /\ Settled(Ended)
         /\ Over(pos, n) \in Nat /\ Over(pos, n) < pos.len
         /\ \A b \in DOMAIN Bars : Over(pos, n) < Bars[b]
         /\ Over(pos, n) * pos.fpt <= pos.off + n * U + Half
         /\ pos.off + n * U + Half < Over(pos, n) * pos.fpt + pos.fpt
         /\ Ended.off = (pos.off + n * U) - Over(pos, n) * pos.fpt
         /\ Ended.len = pos.len /\ Ended.fpt = pos.fpt
         /\ Ended.bar = IF pos.tick + Over(pos, n) < pos.len THEN pos.bar ELSE pos.bar + 1
         /\ Ended.tick = IF pos.tick + Over(pos, n) < pos.len
                         THEN pos.tick + Over(pos, n) ELSE (pos.tick + Over(pos, n)) - pos.len
         /\ pos' = [(IF Ended.bar # pos.bar THEN Enter(Ended) ELSE Ended) EXCEPT !.fpt = tempo]
         /\ rewound' = (rewound /\ Ended.bar = pos.bar)
         /\ due' = IF torn \/ Overtaken(pos') THEN None ELSE due
<1> DEFINE q == Over(pos, n)
<1>1. n > 0 /\ n \in Cycles /\ Kept(pos)
  BY DEF Advance, Done, IInv, Flags, Placing
<1>2. /\ n \in Nat /\ n <= n /\ U \in Nat /\ pos \in Place /\ pos.bar \in Nat /\ pos.tick \in Nat
      /\ pos.off \in Int /\ pos.len \in Nat /\ pos.fpt \in Nat
  BY <1>1, Constants, PlaceFields DEF Kept
<1>3. /\ q \in Nat /\ q < pos.len /\ \A b \in DOMAIN Bars : q < Bars[b]
      /\ q * pos.fpt <= pos.off + n * U + Half
      /\ pos.off + n * U + Half < q * pos.fpt + pos.fpt
      /\ Normal(On(pos, n)) = Ended /\ Settled(Ended)
  BY <1>1, <1>2, Moves DEF Ended
<1>4. Ended = Placed(pos, IF pos.tick + q < pos.len THEN pos.bar ELSE pos.bar + 1,
                          IF pos.tick + q < pos.len THEN pos.tick + q ELSE (pos.tick + q) - pos.len,
                          (pos.off + n * U) - q * pos.fpt)
  BY DEF Ended, Ahead1
<1> HIDE DEF q
<1>5. /\ Ended.off = (pos.off + n * U) - q * pos.fpt
      /\ Ended.len = pos.len /\ Ended.fpt = pos.fpt
      /\ Ended.bar = IF pos.tick + q < pos.len THEN pos.bar ELSE pos.bar + 1
      /\ Ended.tick = IF pos.tick + q < pos.len
                      THEN pos.tick + q ELSE (pos.tick + q) - pos.len
  BY <1>2, <1>4 DEF Placed, Place
<1>6. Normal([pos EXCEPT !.off = @ + n * U]) = Ended  BY <1>3 DEF On
<1>7. /\ pos' = [(IF Ended.bar # pos.bar THEN Enter(Ended) ELSE Ended) EXCEPT !.fpt = tempo]
      /\ rewound' = (rewound /\ Ended.bar = pos.bar)
      /\ due' = IF torn \/ Overtaken(pos') THEN None ELSE due
  BY <1>6 DEF Advance
<1> QED  BY <1>1, <1>3, <1>5, <1>7 DEF q

LEMMA EnteredIs ==
  ASSUME IInv, Advance, rolling
  PROVE  /\ Kept(pos') /\ pos'.fpt = tempo /\ pos'.tick = Ended.tick /\ pos'.off = Ended.off
         /\ pos'.bar = InSong(Ended.bar)
         /\ pos'.len = IF Ended.bar = pos.bar THEN pos.len ELSE Bars[pos'.bar]
<1> DEFINE e == Ended
           q == Over(pos, n)
<1>1. /\ Kept(pos) /\ Settled(e) /\ q \in Nat /\ \A b \in DOMAIN Bars : q < Bars[b]
      /\ e.len = pos.len
      /\ e.bar = IF pos.tick + q < pos.len THEN pos.bar ELSE pos.bar + 1
      /\ e.tick = IF pos.tick + q < pos.len THEN pos.tick + q ELSE (pos.tick + q) - pos.len
      /\ pos' = [(IF e.bar # pos.bar THEN Enter(e) ELSE e) EXCEPT !.fpt = tempo]
  BY EndedIs
<1> HIDE DEF e, q
<1>2. /\ pos \in Place /\ pos.bar \in DOMAIN Bars /\ pos.tick < pos.len /\ e \in Place
      /\ e.tick < e.len /\ -Half <= e.off /\ e.off + Half < e.fpt
      /\ \E b \in DOMAIN Bars : pos.len = Bars[b]
      /\ tempo \in Tempos
  BY <1>1 DEF Kept, Settled, IInv, Flags
<1>3. /\ pos.bar \in Nat \ {0} /\ pos.tick \in Nat /\ pos.len \in Nat \ {0}
      /\ e.bar \in Nat /\ e.tick \in Nat /\ e.off \in Int /\ e.fpt \in Tempos
      /\ e = [bar |-> e.bar, tick |-> e.tick, off |-> e.off, len |-> e.len, fpt |-> e.fpt]
  BY <1>2, PlaceFields, Constants
<1>4. InSong(e.bar) \in DOMAIN Bars /\ (e.bar = pos.bar => InSong(e.bar) = e.bar)
  BY <1>1, <1>2, <1>3, InSongIs
<1>5. /\ pos'.fpt = tempo /\ pos'.tick = e.tick /\ pos'.off = e.off
      /\ pos'.bar = InSong(e.bar)
      /\ pos'.len = IF e.bar = pos.bar THEN pos.len ELSE Bars[InSong(e.bar)]
      /\ pos' = [bar |-> pos'.bar, tick |-> pos'.tick, off |-> pos'.off, len |-> pos'.len,
                 fpt |-> pos'.fpt]
  <2>1. CASE e.bar = pos.bar  BY <1>1, <1>3, <1>4, <2>1
  <2>2. CASE e.bar # pos.bar  BY <1>1, <1>3, <1>4, <2>2 DEF Enter
  <2> QED  BY <2>1, <2>2
<1>6. pos'.len \in Nat \ {0} /\ \E b \in DOMAIN Bars : pos'.len = Bars[b]
  BY <1>2, <1>3, <1>4, <1>5, Constants
<1>7. pos' \in Place
  <2>1. pos'.bar \in Nat  BY <1>4, <1>5, Constants
  <2> QED  BY <1>2, <1>3, <1>5, <1>6, <2>1 DEF Place
<1>8. pos'.tick < pos'.len
  <2>1. CASE e.bar = pos.bar  BY <1>1, <1>2, <1>5, <2>1
  <2>2. CASE e.bar # pos.bar
    <3>1. e.tick < q  BY <1>1, <1>2, <1>3, <2>2
    <3>2. q < Bars[InSong(e.bar)] /\ Bars[InSong(e.bar)] \in Nat
      BY <1>1, <1>4, Constants
    <3> QED  BY <1>1, <1>3, <1>5, <2>2, <3>1, <3>2
  <2> QED  BY <2>1, <2>2
<1> QED  BY <1>2, <1>3, <1>4, <1>5, <1>6, <1>7, <1>8 DEF Kept, e

\* The next cycle begins with the tick at which this one has stopped.
LEMMA Resumes ==
  ASSUME IInv, Advance, rolling, ~torn, ~Overtaken(pos')
  PROVE  sounding /\ Tick(cur) \in Awaited(pos)'
<1> DEFINE e == Ended
           q == Over(pos, n)
<1>1. n > 0 /\ ~(sounding /\ at < n)  BY DEF Advance, Done
<1>2. pos = from /\ sounding /\ at \in Nat /\ tempo \in Tempos
  BY <1>1 DEF IInv, Flags
<1>3. /\ n \in Cycles /\ Kept(from) /\ Settled(e) /\ q \in Nat /\ q < from.len
      /\ \A b \in DOMAIN Bars : q < Bars[b]
      /\ q * from.fpt <= from.off + n * U + Half
      /\ from.off + n * U + Half < q * from.fpt + from.fpt
      /\ e.off = (from.off + n * U) - q * from.fpt /\ e.len = from.len
      /\ e.bar = IF from.tick + q < from.len THEN from.bar ELSE from.bar + 1
      /\ e.tick = IF from.tick + q < from.len
                  THEN from.tick + q ELSE (from.tick + q) - from.len
  BY <1>2, EndedIs
<1>4. /\ Kept(pos') /\ pos'.fpt = tempo /\ pos'.tick = e.tick /\ pos'.off = e.off
      /\ pos'.bar = InSong(e.bar)
      /\ pos'.len = IF e.bar = from.bar THEN from.len ELSE Bars[pos'.bar]
  BY <1>2, EnteredIs
<1>5. q = (from.off + n * U + Half) \div from.fpt  BY <1>2 DEF Over
<1> HIDE DEF e, q
<1>6. /\ Near(cur) /\ cur.len = from.len /\ cur.fpt = from.fpt
      /\ cur.bar \in {from.bar, from.bar + 1} /\ Steps >= 0
      /\ cur.off + Steps * from.fpt = from.off + at * U
      /\ cur.off + n * U + cur.fpt >= Half + at * U
  BY <1>2 DEF IInv, Walk
<1>7. from \in Place /\ cur \in Place /\ e \in Place /\ pos' \in Place /\ from.bar \in DOMAIN Bars
      /\ from.tick < from.len /\ cur.tick < cur.len /\ e.tick < e.len
  BY <1>3, <1>4, <1>6 DEF Kept, Near, Settled
<1>8. /\ from.bar \in Nat \ {0} /\ from.tick \in Nat /\ from.off \in Int /\ from.len \in Nat \ {0}
      /\ from.fpt \in Nat \ {0} /\ from.fpt > U
      /\ cur.bar \in Nat /\ cur.tick \in Nat /\ cur.off \in Int
      /\ -Half < cur.off /\ cur.off <= Half
      /\ e.bar \in Nat \ {0} /\ e.tick \in Nat /\ e.off \in Int
      /\ n \in Nat /\ at \in Nat /\ n <= at /\ U \in Nat /\ Half \in Nat /\ U = 2 * Half /\ Half > 0
  <2>1. /\ from.bar \in Nat \ {0} /\ from.tick \in Nat /\ from.off \in Int
        /\ from.len \in Nat \ {0} /\ from.fpt \in Nat \ {0} /\ from.fpt > U
    BY <1>7, PlaceFields, Constants
  <2>2. cur.bar \in Nat /\ cur.tick \in Nat /\ cur.off \in Int  BY <1>7, PlaceFields
  <2>3. e.tick \in Nat /\ e.off \in Int  BY <1>7, PlaceFields
  <2>4. e.bar \in Nat \ {0}  BY <1>3, <2>1
  <2>5. n \in Nat /\ U \in Nat /\ Half \in Nat /\ U = 2 * Half /\ Half > 0
    BY <1>3, Constants
  <2>6. n <= at  BY <1>1, <1>2, <2>5
  <2> QED  BY <1>2, <1>6, <2>1, <2>2, <2>3, <2>4, <2>5, <2>6 DEF Near
<1>9. Steps \in Nat
  <2>1. Steps \in Int  BY <1>8 DEF Steps, Gone
  <2> QED  BY <1>6, <2>1
<1>10. /\ n * U \in Nat /\ at * U \in Nat /\ Steps * from.fpt \in Int
       /\ q * from.fpt \in Int
  BY <1>3, <1>8, <1>9
<1>11. Gone(from, e) = q /\ e.bar \in {from.bar, from.bar + 1}
  <2>1. CASE from.tick + q < from.len
    <3>1. e.bar = from.bar /\ e.tick = from.tick + q  BY <1>3, <2>1
    <3>2. e.tick - from.tick = q  BY <1>3, <1>8, <3>1
    <3> QED  BY <3>1, <3>2 DEF Gone
  <2>2. CASE ~(from.tick + q < from.len)
    <3>1. e.bar = from.bar + 1 /\ e.tick = (from.tick + q) - from.len  BY <1>3, <2>2
    <3>2. e.tick + (from.len - from.tick) = q /\ e.bar # from.bar  BY <1>3, <1>8, <3>1
    <3> QED  BY <3>1, <3>2 DEF Gone
  <2> QED  BY <2>1, <2>2
<1>12. InSong(pos'.bar) = pos'.bar
  <2>1. pos'.bar \in DOMAIN Bars  BY <1>4 DEF Kept
  <2> QED  BY <2>1, InSongIs
<1>13. Settled(pos')
  <2>1. pos'.off + Half < pos'.fpt
    BY <1>2, <1>4, <1>8, Constants DEF Overtaken
  <2> QED  BY <1>4, <2>1 DEF Kept, Settled
<1>14. Normal(pos') = pos'  BY <1>13, SettledNormal
<1>15. Awaited(pos)' = {Tick(First(pos'))} \cup (IF PassedOver(pos') THEN {Tick(pos')} ELSE {})
  BY <1>14 DEF Awaited, Tick
<1>16. CASE q = Steps /\ e.off <= Half
  <2>1. e.bar = cur.bar /\ e.tick = cur.tick
    <3>1. Gone(from, cur) = Gone(from, e)  BY <1>11, <1>16 DEF Steps
    <3> QED  BY <1>3, <1>6, <1>7, <1>11, <3>1, GoneSame
  <2>2. Tick(pos') = Tick(cur)  BY <1>4, <1>12, <2>1 DEF Tick
  <2>3. CASE Snapped(pos')
    <3>1. First(pos') = pos'  BY <1>14, <2>3 DEF First
    <3> QED  BY <1>2, <1>15, <2>2, <3>1
  <2>4. CASE ~Snapped(pos')
    <3>1. -Half <= e.off  BY <1>3 DEF Settled
    <3>2. e.off = Half \/ e.off = -Half
      <4>1. ~(-Half < e.off /\ e.off < Half)  BY <1>4, <2>4 DEF Snapped
      <4> QED  BY <1>8, <1>16, <3>1, <4>1
    <3>3. PassedOver(pos')  BY <1>4, <3>2 DEF PassedOver
    <3> QED  BY <1>2, <1>15, <2>2, <3>3
  <2> QED  BY <2>3, <2>4
<1>17. CASE q = Steps - 1 /\ e.off >= Half
  <2>3. q = Steps - 1  BY <1>17
  <2>4. ~Snapped(pos')  BY <1>4, <1>8, <1>17 DEF Snapped
  <2>5. First(pos') = Following(pos')  BY <1>14, <2>4 DEF First
  <2>6. Following(pos').bar = NextBar(pos') /\ Following(pos').tick = NextTick(pos')
    <3>1. Following(pos') = Placed(pos', NextBar(pos'), NextTick(pos'),
                                   pos'.off + Gap(pos') * U - pos'.fpt)
      BY <1>13, FollowingIs
    <3> QED  BY <1>7, <3>1 DEF Placed, Place
  <2> DEFINE d == Placed(e, NextBar(e), NextTick(e), 0)
  <2>7. d \in Place /\ d.bar = NextBar(e) /\ d.tick = NextTick(e) /\ d.tick < from.len
    <3>1. NextBar(e) \in Nat /\ NextTick(e) \in Nat /\ NextTick(e) < from.len
      BY <1>3, <1>8 DEF NextBar, NextTick
    <3>2. e \in Place /\ 0 \in Int  BY <1>7
    <3>3. d \in Place /\ d.bar = NextBar(e) /\ d.tick = NextTick(e)
      BY <3>1, <3>2 DEF Placed, Place
    <3> QED  BY <3>1, <3>3
  <2> HIDE DEF d
  <2>8. d.bar \in {from.bar, from.bar + 1} /\ Gone(from, d) = q + 1
    <3>1. 0 <= Gone(from, e) /\ Gone(from, e) < from.len  BY <1>3, <1>11
    <3> QED  BY <1>3, <1>7, <1>11, <2>7, <3>1, GoneNext
  <2>9. d.bar = cur.bar /\ d.tick = cur.tick
    <3>1. Gone(from, cur) = Gone(from, d)  BY <1>9, <2>3, <2>8 DEF Steps
    <3> QED  BY <1>6, <1>7, <2>7, <2>8, <3>1, GoneSame
  <2>10. CASE e.bar = from.bar
    <3>1. InSong(e.bar) = e.bar  BY <1>7, <2>10, InSongIs
    <3>2. NextBar(pos') = NextBar(e) /\ NextTick(pos') = NextTick(e)
      BY <1>3, <1>4, <2>10, <3>1 DEF NextBar, NextTick
    <3> QED  BY <1>2, <1>15, <2>5, <2>6, <2>7, <2>9, <3>2 DEF Tick
  <2>11. CASE e.bar # from.bar
    <3>1. e.tick + 1 <= q  BY <1>3, <1>7, <1>8, <2>11
    <3>2. pos'.bar \in DOMAIN Bars  BY <1>4 DEF Kept
    <3>3. q < Bars[pos'.bar] /\ Bars[pos'.bar] \in Nat  BY <1>3, <3>2, Constants
    <3>4. e.tick + 1 < e.len /\ pos'.tick + 1 < pos'.len
      BY <1>3, <1>4, <1>8, <2>11, <3>1, <3>3
    <3>5. NextBar(e) = e.bar /\ NextTick(e) = e.tick + 1 /\ NextBar(pos') = pos'.bar
          /\ NextTick(pos') = e.tick + 1
      BY <1>4, <3>4 DEF NextBar, NextTick
    <3> QED  BY <1>2, <1>4, <1>12, <1>15, <2>5, <2>6, <2>7, <2>9, <3>5 DEF Tick
  <2> QED  BY <2>10, <2>11
<1>18. Steps \in Int /\ Steps * from.fpt \in Int /\ from.off + n * U + Half \in Int
  BY <1>8, <1>9, <1>10
<1>19. (Steps - 1) * from.fpt = Steps * from.fpt - from.fpt
  <2>1. Steps \in Int /\ -1 \in Int /\ from.fpt \in Int  BY <1>8, <1>18
  <2> HIDE DEF Steps
  <2> QED  BY <2>1
<1>20. ASSUME Steps * from.fpt <= from.off + n * U + Half
      PROVE  q = Steps /\ e.off <= Half
  <2> HIDE DEF Steps
  <2>1. CASE at = n
    <3>1. from.off + n * U + Half < Steps * from.fpt + from.fpt
      BY <1>6, <1>8, <1>10, <1>18, <2>1
    <3>2. q = Steps  BY <1>5, <1>8, <1>18, <1>20, <3>1, DivIs
    <3> QED  BY <1>3, <1>6, <1>8, <1>10, <1>18, <2>1, <3>2
  <2>2. CASE at # n
    <3>1. n + 1 <= at /\ n + 1 \in Int /\ at \in Int  BY <1>8, <2>2
    <3>2. (n + 1) * U <= at * U /\ (n + 1) * U = n * U + U  BY <1>8, <3>1, MulMono
    <3>3. from.off + n * U + Half <= Steps * from.fpt
      BY <1>6, <1>8, <1>10, <1>18, <3>2
    <3>4. from.off + n * U + Half < Steps * from.fpt + from.fpt  BY <1>8, <1>18, <3>3
    <3>5. q = Steps  BY <1>5, <1>8, <1>18, <1>20, <3>4, DivIs
    <3> QED  BY <1>3, <1>8, <1>10, <1>18, <3>3, <3>5
  <2> QED  BY <2>1, <2>2
<1>21. ASSUME ~(Steps * from.fpt <= from.off + n * U + Half)
      PROVE  q = Steps - 1 /\ e.off >= Half
  <2> HIDE DEF Steps
  <2>1. from.off + n * U + Half < Steps * from.fpt  BY <1>18, <1>21
  <2>2. from.off + n * U >= Half + (Steps - 1) * from.fpt
    BY <1>6, <1>8, <1>10, <1>18, <1>19
  <2>3. /\ Steps - 1 \in Int /\ (Steps - 1) * from.fpt \in Int
        /\ (Steps - 1) * from.fpt <= from.off + n * U + Half
        /\ from.off + n * U + Half < (Steps - 1) * from.fpt + from.fpt
    BY <1>8, <1>10, <1>18, <1>19, <2>1, <2>2
  <2>4. q = Steps - 1  BY <1>5, <1>8, <1>18, <2>3, DivIs
  <2> QED  BY <1>3, <1>8, <1>10, <2>2, <2>3, <2>4
<1> QED  BY <1>16, <1>17, <1>20, <1>21

LEMMA AdvanceOK ==
  ASSUME IInv, Advance
  PROVE  IInv'
<1>1. /\ n > 0 /\ n' = 0 /\ sounding' = FALSE /\ at' = 0 /\ out' = {} /\ torn' = FALSE
      /\ rolling' = rolling /\ tempo' = tempo
  BY DEF Advance, Done
<1>2. Walk' /\ Notes'  BY <1>1 DEF Walk, Notes, OnTime
<1>3. /\ None \in Nat \X Nat /\ n' \in Cycles \cup {0} /\ at' \in Nat /\ ~(n' > 0)
      /\ sounding' \in BOOLEAN /\ torn' \in BOOLEAN /\ ~sounding' /\ ~torn'
      /\ rolling' \in BOOLEAN /\ tempo' \in Tempos
  <2>1. rolling' \in BOOLEAN /\ tempo' \in Tempos  BY <1>1 DEF IInv, Flags
  <2>2. None \in Nat \X Nat  BY DEF None
  <2>3. n' \in Cycles \cup {0} /\ at' \in Nat /\ ~(n' > 0)  BY <1>1
  <2>4. sounding' \in BOOLEAN /\ torn' \in BOOLEAN /\ ~sounding' /\ ~torn'
    BY <1>1, Zenon
  <2> QED  BY <2>1, <2>2, <2>3, <2>4
<1>4. CASE ~rolling
  <2>1. pos' = pos /\ rewound' = rewound /\ due' = IF torn /\ sounding THEN None ELSE due
    BY <1>4 DEF Advance
  <2>2. Placing' /\ BarLength'  BY <1>1, <2>1 DEF IInv, Placing, BarLength
  <2>3. Flags'
    <3>1. due' \in Nat \X Nat  BY <1>3, <2>1 DEF IInv, Flags
    <3>2. rewound' \in BOOLEAN  BY <2>1 DEF IInv, Flags
    <3> QED  BY <1>1, <1>3, <3>1, <3>2 DEF Flags
  <2>4. sounding => torn  BY <1>1, <1>4 DEF IInv, Flags
  <2>5. Ordered'  BY <1>1, <2>1, <2>4 DEF IInv, Ordered, Tick
  <2> QED  BY <1>2, <2>2, <2>3, <2>5 DEF IInv
<1>5. CASE rolling
  <2>1. /\ rewound' = (rewound /\ Ended.bar = pos.bar)
        /\ due' = IF torn \/ Overtaken(pos') THEN None ELSE due
    BY <1>5, EndedIs
  <2>2. /\ Kept(pos') /\ pos'.bar = InSong(Ended.bar)
        /\ pos'.len = IF Ended.bar = pos.bar THEN pos.len ELSE Bars[pos'.bar]
    BY <1>5, EnteredIs
  <2>3. Placing'  BY <1>1, <2>2 DEF Placing
  <2>4. Flags'
    <3>1. rewound' \in BOOLEAN
      <4>1. CASE Ended.bar = pos.bar  BY <2>1, <4>1 DEF IInv, Flags
      <4>2. CASE Ended.bar # pos.bar  BY <2>1, <4>2
      <4> QED  BY <4>1, <4>2
    <3>2. due' \in Nat \X Nat
      <4>1. CASE torn \/ Overtaken(pos')  BY <1>3, <2>1, <4>1
      <4>2. CASE ~(torn \/ Overtaken(pos'))  BY <2>1, <4>2 DEF IInv, Flags
      <4> QED  BY <4>1, <4>2
    <3> QED  BY <1>1, <1>3, <3>1, <3>2 DEF Flags
  <2>5. BarLength'
    <3>1. CASE Ended.bar = pos.bar
      <4>1. pos.bar \in DOMAIN Bars  BY DEF IInv, Placing, Kept
      <4>2. pos'.bar = pos.bar /\ rewound' = rewound
        <5>1. rewound' = rewound  BY <2>1, <3>1 DEF IInv, Flags
        <5> QED  BY <2>2, <3>1, <4>1, <5>1, InSongIs
      <4> QED  BY <2>2, <3>1, <4>2 DEF IInv, BarLength
    <3>2. CASE Ended.bar # pos.bar  BY <2>2, <3>2 DEF BarLength
    <3> QED  BY <3>1, <3>2
  <2>6. Ordered'
    <3>1. ASSUME due' # None
          PROVE  due' \in Awaited(pos)'
      <4>1. ~torn /\ ~Overtaken(pos') /\ due' = due  BY <2>1, <3>1
      <4>2. sounding /\ Tick(cur) \in Awaited(pos)'  BY <1>5, <4>1, Resumes
      <4> QED  BY <3>1, <4>1, <4>2 DEF IInv, Ordered
    <3> QED  BY <1>1, <3>1 DEF Ordered
  <2> QED  BY <1>2, <2>3, <2>4, <2>5, <2>6 DEF IInv
<1> QED  BY <1>4, <1>5

-----------------------------------------------------------------------------
(* Theorems.                                                               *)

LEMMA StepOK ==
  ASSUME IInv, [Next]_vars, Seeks \subseteq DOMAIN Bars
  PROVE  IInv'
<1>1. CASE UNCHANGED vars
  <2>1. UNCHANGED cycle /\ pos' = pos /\ rolling' = rolling /\ tempo' = tempo /\ due' = due
        /\ torn' = torn /\ rewound' = rewound
    BY <1>1 DEF vars, cycle
  <2>2. n' = n /\ sounding' = sounding /\ out' = out /\ at' = at /\ cur' = cur /\ from' = from
    BY <2>1 DEF cycle
  <2>3. Placing' /\ Flags' /\ BarLength' /\ Ordered'
    BY <2>1, <2>2 DEF IInv, Placing, Flags, BarLength, Ordered, Tick
  <2> QED  BY <2>1, <2>3, CycleKept DEF IInv
<1>2. ASSUME NEW k \in Cycles, Begin(k)  PROVE IInv'  BY <1>2, BeginOK
<1>3. CASE Emit     BY <1>3, EmitOK
<1>4. CASE Advance  BY <1>4, AdvanceOK
<1>5. CASE Gui      BY <1>5, GuiOK
<1> QED  BY <1>1, <1>2, <1>3, <1>4, <1>5 DEF Next, Audio

\* The transport is always in IInv, when the GUI asks for bars of the song only
\* (setPatternPos() does not look).
THEOREM Invariance ==
  ASSUME Seeks \subseteq DOMAIN Bars
  PROVE  Spec => []IInv
<1>1. Init => IInv  BY InitOK
<1>2. IInv /\ [Next]_vars => IInv'  BY StepOK
<1> QED  BY <1>1, <1>2, PTL DEF Spec

\* The position and the copy of it that a cycle works on are positions of the
\* song.
THEOREM TypeCorrect ==
  ASSUME Seeks \subseteq DOMAIN Bars
  PROVE  Spec => []TypeOK
<1>1. ASSUME IInv  PROVE TypeOK
  <2>1. ASSUME NEW p, Kept(p)
        PROVE  p \in Positions(DOMAIN Bars, Int) /\ p.tick < p.len /\ -Half <= p.off
    BY <2>1 DEF Kept, Place, Positions
  <2>2. pos \in Positions(DOMAIN Bars, Int) /\ pos.tick < pos.len /\ -Half <= pos.off
        /\ (n > 0 => from \in Positions(DOMAIN Bars, Int))
    BY <1>1, <2>1 DEF IInv, Placing
  <2>3. sounding => /\ n > 0 /\ cur \in Positions(Nat, Int)
                    /\ cur.tick < cur.len /\ -Half < cur.off /\ cur.off <= Half
    <3> SUFFICES ASSUME sounding  PROVE /\ n > 0 /\ cur \in Positions(Nat, Int)
                                        /\ cur.tick < cur.len /\ -Half < cur.off
                                        /\ cur.off <= Half
      OBVIOUS
    <3>1. n > 0  BY <1>1, Constants DEF IInv, Flags
    <3> QED  BY <1>1, <3>1 DEF IInv, Walk, Near, Settled, Place, Positions
  <2>4. /\ rolling \in BOOLEAN /\ tempo \in Tempos /\ n \in Cycles \cup {0}
        /\ sounding \in BOOLEAN /\ at \in Nat /\ due \in Nat \X Nat /\ torn \in BOOLEAN
        /\ rewound \in BOOLEAN
        /\ out \subseteq [at : 0..n, group : DOMAIN Bars, bar : DOMAIN Bars, tick : Nat]
    BY <1>1 DEF IInv, Flags, Notes
  <2> QED  BY <2>2, <2>3, <2>4 DEF TypeOK
<1> QED  BY <1>1, Invariance, PTL

\* Whatever the tempos, bars and lengths of cycles, and whatever the GUI does
\* between any two steps of the audio thread, the next tick to sound is the one
\* after the last.  Three cases are left out, and no other: a tick exactly half a
\* frame from the beginning of a cycle is passed over; after a cycle that the GUI
\* tore, and after a tempo that was over the tick at once, any tick may be next.
THEOREM EachTickOnce ==
  ASSUME Seeks \subseteq DOMAIN Bars
  PROVE  Spec => []Regular
<1>1. IInv => Regular  BY DEF IInv, Ordered, Regular, Sequencing, Tick
<1> QED  BY <1>1, Invariance, PTL

\* Every note is put in at the frame nearest to its tick.
THEOREM TicksOnTime ==
  ASSUME Seeks \subseteq DOMAIN Bars
  PROVE  Spec => []OnTime
<1>1. IInv => OnTime  BY DEF IInv, Notes
<1> QED  BY <1>1, Invariance, PTL

\* The transport has the length of its bar right, unless locate(0) put it there.
THEOREM BarLengthKnown ==
  ASSUME Seeks \subseteq DOMAIN Bars
  PROVE  Spec => []BarLength
<1>1. IInv => BarLength  BY DEF IInv
<1> QED  BY <1>1, Invariance, PTL

\* No part of a frame is lost or gained when the transport moves on.
THEOREM TimeIsKept ==
  ASSUME Seeks \subseteq DOMAIN Bars
  PROVE  Spec => NoDrift
<1>1. ASSUME IInv, Advance, rolling
      PROVE  \E k \in {0, 1} :
               /\ pos'.bar = InSong(pos.bar + k)
               /\ Time(pos', pos.fpt) + k * pos.len * pos.fpt = Time(pos, pos.fpt) + n * U
  <2> DEFINE q == Over(pos, n)
  <2>1. /\ n \in Cycles /\ Kept(pos) /\ q \in Nat
        /\ Ended.off = (pos.off + n * U) - q * pos.fpt
        /\ Ended.bar = IF pos.tick + q < pos.len THEN pos.bar ELSE pos.bar + 1
        /\ Ended.tick = IF pos.tick + q < pos.len
                        THEN pos.tick + q ELSE (pos.tick + q) - pos.len
    BY <1>1, EndedIs
  <2> HIDE DEF q
  <2>2. pos'.tick = Ended.tick /\ pos'.off = Ended.off /\ pos'.bar = InSong(Ended.bar)
    BY <1>1, EnteredIs
  <2>3. /\ pos.bar \in Nat /\ pos.tick \in Int /\ pos.off \in Int /\ pos.len \in Int
        /\ pos.fpt \in Int /\ n \in Int /\ U \in Int /\ q \in Int
    BY <2>1, PlaceFields, Constants DEF Kept
  <2> DEFINE t == pos.tick * pos.fpt
             o == q * pos.fpt
             l == pos.len * pos.fpt
             u == n * U
  <2>4. t \in Int /\ o \in Int /\ l \in Int /\ u \in Int  BY <2>3
  <2>5. (pos.tick + q) * pos.fpt = t + o  BY <2>3, OneMore
  <2>6. Time(pos, pos.fpt) = t + pos.off  BY DEF Time
  <2>7. Time(pos', pos.fpt) = Ended.tick * pos.fpt + ((pos.off + u) - o)
    BY <2>1, <2>2 DEF Time
  <2>8. CASE pos.tick + q < pos.len
    <3>1. Ended.bar = pos.bar + 0 /\ Ended.tick = pos.tick + q  BY <2>1, <2>3, <2>8
    <3>2. 0 * pos.len * pos.fpt = 0  BY <2>3
    <3>3. Time(pos', pos.fpt) = (t + o) + ((pos.off + u) - o)  BY <2>5, <2>7, <3>1
    <3> HIDE DEF t, o, l, u
    <3>4. Time(pos', pos.fpt) + 0 = Time(pos, pos.fpt) + u  BY <2>3, <2>4, <2>6, <3>3
    <3> QED  BY <2>2, <3>1, <3>2, <3>4 DEF u
  <2>9. CASE ~(pos.tick + q < pos.len)
    <3>1. Ended.bar = pos.bar + 1 /\ Ended.tick = (pos.tick + q) - pos.len
      BY <2>1, <2>9
    <3>2. 1 * pos.len * pos.fpt = l  BY <2>3
    <3>3. Ended.tick * pos.fpt = (t + o) - l
      <4>1. Ended.tick + pos.len = pos.tick + q /\ Ended.tick \in Int  BY <2>3, <3>1
      <4>2. (Ended.tick + pos.len) * pos.fpt = Ended.tick * pos.fpt + l
        BY <2>3, <4>1, OneMore
      <4>3. Ended.tick * pos.fpt \in Int  BY <2>3, <4>1
      <4>4. Ended.tick * pos.fpt + l = t + o  BY <2>5, <4>1, <4>2
      <4> HIDE DEF t, o, l, u
      <4> QED  BY <2>4, <4>3, <4>4
    <3> HIDE DEF t, o, l, u
    <3>4. Time(pos', pos.fpt) + l = Time(pos, pos.fpt) + u
      BY <2>3, <2>4, <2>6, <2>7, <3>3
    <3> QED  BY <2>2, <3>1, <3>2, <3>4 DEF u
  <2> QED  BY <2>8, <2>9
<1> DEFINE A == Advance /\ rolling =>
                  \E k \in {0, 1} :
                    /\ pos'.bar = InSong(pos.bar + k)
                    /\ Time(pos', pos.fpt) + k * pos.len * pos.fpt = Time(pos, pos.fpt) + n * U
<1>2. IInv => A  BY <1>1
<1> HIDE DEF A
<1>3. IInv /\ [Next]_vars => [A]_vars  BY <1>2
<1>4. []IInv /\ [][Next]_vars => [][A]_vars  BY <1>3, PTL
<1>5. [][A]_vars => NoDrift  BY DEF A, NoDrift
<1> QED  BY <1>4, <1>5, Invariance, PTL DEF Spec
=============================================================================
