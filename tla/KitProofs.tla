----------------------------- MODULE KitProofs ------------------------------
(***************************************************************************)
(* The ports of the sampler and the channels of the mixer stay parallel,   *)
(* and an instrument has its own port and channel as long as the list is   *)
(* left to the sampler.                                                    *)
(***************************************************************************)
EXTENDS Kit, TLAPS

(* Ports are listed in the order they were allocated in.                   *)
Ordered ==
  /\ \A i, j \in 1..Len(ports) : i < j => ports[i] < ports[j]
  /\ \A j \in 1..Len(ports) : ports[j] <= made

(* clear() has released the first k ports.                                 *)
Released == IF pc = "clear" THEN k ELSE 0

Lists ==
  /\ Released <= Len(ports)
  /\ Len(channels) = Len(ports) - Released
  /\ \A j \in 1..Len(channels) : channels[j] = ports[j + Released]

(* Whom an operation has still to do with.                                 *)
Course ==
  /\ pc # "idle" => made + todo <= MaxInstruments
  /\ pc \in {"add", "match"} => ~edited
  /\ pc = "match" => op \in {"load", "install"}
  /\ pc = "match" /\ op = "install" => Len(list) > 0 /\ list[Len(list)] = made

(* How many of the instruments have got their settings.                    *)
Settled ==
  CASE op = "default" -> Len(list)
    [] op = "load"    -> IF pc = "add" THEN 0 ELSE IF pc = "match" THEN k ELSE Len(list)
    [] op = "install" -> IF pc = "match" THEN Len(list) - 1 ELSE Len(list)

Own ==
  pc # "clear" /\ ~edited =>
    /\ Len(list) <= Len(ports)
    /\ op \in {"default", "install"} => list = ports
    /\ \A j \in 1..Len(list) : list[j] <= made /\ posmap[list[j]] = j - 1
    /\ \A j \in 1..Len(list) : j <= Settled =>
         settings[ports[j]] = IF op = "default" THEN Defaults ELSE list[j]

IInv == TypeOK /\ Ordered /\ Lists /\ Course /\ Own

-----------------------------------------------------------------------------

LEMMA WithoutType ==
  ASSUME NEW S, NEW s \in Seq(S), NEW i \in 1..Len(s)
  PROVE  /\ Without(s, i) \in Seq(S)
         /\ Len(Without(s, i)) = Len(s) - 1
         /\ \A j \in 1..(Len(s) - 1) : Without(s, i)[j] = IF j < i THEN s[j] ELSE s[j + 1]
<1> DEFINE n == Len(s) - 1
<1>1. n \in Nat /\ \A j \in 1..n : j \in 1..Len(s) /\ j + 1 \in 1..Len(s)
  OBVIOUS
<1>2. \A j \in 1..n : (IF j < i THEN s[j] ELSE s[j + 1]) \in S
  BY <1>1
<1>3. Without(s, i) = [j \in 1..n |-> IF j < i THEN s[j] ELSE s[j + 1]]
  BY DEF Without
<1> HIDE DEF n
<1>4. Without(s, i) \in Seq(S) /\ Len(Without(s, i)) = n
  BY <1>1, <1>2, <1>3
<1> QED BY <1>3, <1>4 DEF n

LEMMA AppendOrdered ==
  ASSUME NEW s \in Seq(Instruments), NEW x \in Instruments,
         \A i, j \in 1..Len(s) : i < j => s[i] < s[j],
         \A j \in 1..Len(s) : s[j] < x
  PROVE  \A i, j \in 1..Len(Append(s, x)) : i < j => Append(s, x)[i] < Append(s, x)[j]
<1> DEFINE t == Append(s, x)
<1>1. /\ Len(t) = Len(s) + 1 /\ t[Len(s) + 1] = x /\ Len(s) \in Nat
      /\ \A j \in 1..Len(s) : t[j] = s[j]
  OBVIOUS
<1> HIDE DEF t
<1>2. ASSUME NEW i \in 1..Len(t), NEW j \in 1..Len(t), i < j
      PROVE  t[i] < t[j]
  <2>1. i \in 1..Len(s) /\ (j \in 1..Len(s) \/ j = Len(s) + 1)
    BY <1>1, <1>2
  <2>2. t[i] = s[i]
    BY <1>1, <2>1
  <2>3. CASE j \in 1..Len(s)
    BY <1>1, <1>2, <2>1, <2>2, <2>3
  <2>4. CASE j = Len(s) + 1
    BY <1>1, <2>1, <2>2, <2>4
  <2> QED BY <2>1, <2>3, <2>4
<1> QED BY <1>2 DEF t

LEMMA InitIInv == Init => IInv
<1> SUFFICES ASSUME Init PROVE IInv
  OBVIOUS
<1> USE DEF Init
<1>1. TypeOK
  <2>1. list \in Seq(Instruments) /\ ports \in Seq(Instruments) /\ channels \in Seq(Instruments)
    OBVIOUS
  <2>2. posmap \in [Instruments -> Int] /\ settings \in [Instruments -> {Defaults} \cup Instruments]
    BY DEF NotFound
  <2>3. made \in 0..MaxInstruments
    BY InstrumentsAssumption
  <2>4. pc \in {"idle", "clear", "add", "match"} /\ op \in {"default", "load", "install"}
    OBVIOUS
  <2> QED BY <2>1, <2>2, <2>3, <2>4 DEF TypeOK
<1>2. Ordered /\ Lists /\ Course /\ Own
  BY DEF Ordered, Lists, Released, Course, Own
<1> QED BY <1>1, <1>2 DEF IInv

LEMMA ReleaseInv ==
  ASSUME IInv, Release
  PROVE  IInv'
<1> USE DEF IInv, Release
<1>1. PICK i \in 1..Len(channels) : channels[i] = ports[k + 1] /\ channels' = Without(channels, i)
  BY DEF Erase
<1>2. /\ k \in Nat /\ Len(ports) \in Nat /\ Len(channels) \in Nat /\ Len(channels) = Len(ports) - k
      /\ \A j \in 1..Len(channels) : channels[j] = ports[j + k]
      /\ channels \in Seq(Instruments) /\ ports \in Seq(Instruments)
  BY DEF TypeOK, Lists, Released
<1>3. i = 1
  <2>1. ports[i + k] = ports[k + 1] /\ i + k \in 1..Len(ports) /\ k + 1 \in 1..Len(ports)
    BY <1>1, <1>2
  <2>2. ports[i + k] \in Nat /\ i \in Nat
    BY <2>1, <1>2, InstrumentsAssumption, SMTT(60) DEF Instruments
  <2>3. ~ (k + 1 < i + k)
    BY <2>1, <2>2 DEF Ordered
  <2> QED BY <2>3, <1>2
<1>4. /\ channels' \in Seq(Instruments) /\ Len(channels') = Len(channels) - 1
      /\ \A j \in 1..(Len(channels) - 1) : channels'[j] = channels[j + 1]
  <2>1. /\ Without(channels, i) \in Seq(Instruments)
        /\ Len(Without(channels, i)) = Len(channels) - 1
        /\ \A j \in 1..(Len(channels) - 1) :
             Without(channels, i)[j] = IF j < i THEN channels[j] ELSE channels[j + 1]
    BY <1>2, WithoutType
  <2> QED BY <2>1, <1>1, <1>2, <1>3
<1>5. TypeOK'
  <2>1. k' \in Nat /\ UNCHANGED <<list, posmap, ports, settings, made, host, pc, op, todo, edited>>
    BY <1>2
  <2> QED BY <2>1, <1>4 DEF TypeOK
<1>6. Lists'
  <2>1. Released' = k + 1 /\ ports' = ports
    BY DEF Released
  <2>2. Len(channels') = Len(ports) - (k + 1) /\ k + 1 <= Len(ports)
    BY <1>2, <1>4
  <2>3. ASSUME NEW j \in 1..Len(channels') PROVE channels'[j] = ports[j + (k + 1)]
    <3>1. j \in 1..(Len(channels) - 1) /\ j + 1 \in 1..Len(channels)
      BY <1>2, <1>4
    <3>2. channels'[j] = ports[(j + 1) + k]
      BY <3>1, <1>2, <1>4
    <3> QED BY <3>1, <3>2, <1>2
  <2> QED BY <2>1, <2>2, <2>3 DEF Lists
<1>7. Ordered' /\ Course' /\ Own'
  BY DEF Ordered, Course, Own
<1> QED BY <1>5, <1>6, <1>7

LEMMA ClearInv ==
  ASSUME IInv, Clear
  PROVE  IInv'
<1> USE DEF IInv, Clear, mixer
<1>1. Len(channels) = 0 /\ channels \in Seq(Instruments)
  BY DEF Lists, Released, TypeOK
<1>2. <<>> \in Seq(Instruments)
  OBVIOUS
<1>3. TypeOK'
  BY <1>2 DEF TypeOK
<1>4. Ordered' /\ Lists'
  BY <1>1 DEF Ordered, Lists, Released
<1>5. Course' /\ Own'
  BY DEF Course, Own
<1> QED BY <1>3, <1>4, <1>5

LEMMA AddInv ==
  ASSUME IInv, AddInstrument
  PROVE  IInv'
<1> USE InstrumentsAssumption DEF IInv, AddInstrument, Position, NextPos
<1> DEFINE x == made + 1
<1>1. x \in Instruments /\ made' = x /\ made \in Nat /\ ~edited /\ pc = "add" /\ todo \in Nat /\ todo > 0
  BY DEF Course, TypeOK, Instruments
<1>2. /\ list \in Seq(Instruments) /\ ports \in Seq(Instruments) /\ channels \in Seq(Instruments)
      /\ list' = Append(list, x) /\ ports' = Append(ports, x) /\ channels' = Append(channels, x)
      /\ posmap \in [Instruments -> Int] /\ posmap' = [posmap EXCEPT ![x] = Len(list)]
      /\ settings \in [Instruments -> {Defaults} \cup Instruments]
      /\ settings' = [settings EXCEPT ![x] = Defaults]
  BY <1>1 DEF TypeOK
<1>3. Len(channels) = Len(ports) /\ \A j \in 1..Len(ports) : channels[j] = ports[j]
  BY <1>1, <1>2 DEF Lists, Released
<1> HIDE DEF x
<1>4. /\ list' \in Seq(Instruments) /\ ports' \in Seq(Instruments) /\ channels' \in Seq(Instruments)
      /\ posmap' \in [Instruments -> Int]
      /\ settings' \in [Instruments -> {Defaults} \cup Instruments]
  BY <1>1, <1>2
<1>5. TypeOK'
  <2>1. made' \in 0..MaxInstruments /\ todo' \in Nat
    BY <1>1 DEF Instruments
  <2>2. pc' \in {"idle", "clear", "add", "match"}
    OBVIOUS
  <2> QED BY <2>1, <2>2, <1>4 DEF TypeOK
<1>6. /\ Len(ports') = Len(ports) + 1 /\ ports'[Len(ports) + 1] = x
      /\ \A j \in 1..Len(ports) : ports'[j] = ports[j] /\ ports[j] <= made
      /\ Len(list') = Len(list) + 1 /\ list'[Len(list) + 1] = x
      /\ \A j \in 1..Len(list) : list'[j] = list[j]
  BY <1>2 DEF Ordered
<1>7. Ordered'
  <2>1. \A j \in 1..Len(ports) : ports[j] \in Nat /\ ports[j] < x
    BY <1>1, <1>2, <1>6, SMTT(60) DEF Instruments, x
  <2>2. Len(ports) \in Nat /\ x \in Nat
    BY <1>1, <1>2 DEF x
  <2>3. \A i, j \in 1..Len(ports') : i < j => ports'[i] < ports'[j]
    BY <1>1, <1>2, <2>1, AppendOrdered DEF Ordered
  <2>4. ASSUME NEW j \in 1..Len(ports') PROVE ports'[j] <= made'
    <3>1. j \in 1..Len(ports) \/ j = Len(ports) + 1
      BY <2>2, <1>6
    <3> QED BY <3>1, <2>1, <2>2, <1>1, <1>6
  <2> QED BY <2>3, <2>4 DEF Ordered
<1>8. Lists'
  BY <1>1, <1>2, <1>3 DEF Lists, Released
<1>9. Course'
  BY <1>1, <1>6 DEF Course, x
<1>10. Own'
  <2>1. /\ Len(list) <= Len(ports) /\ (op \in {"default", "install"} => list = ports)
        /\ \A j \in 1..Len(list) : list[j] <= made /\ posmap[list[j]] = j - 1
    BY <1>1 DEF Own
  <2>2. \A j \in 1..Len(list) : list[j] \in Instruments /\ list[j] # x
    <3>1. \A j \in 1..Len(list) : list[j] \in Instruments
      BY <1>2
    <3>2. \A i \in Instruments : i <= made => i # x
      BY <1>1 DEF Instruments, x
    <3> QED BY <3>1, <3>2, <2>1
  <2>3. \A j \in 1..Len(ports) : ports[j] \in Instruments /\ ports[j] # x
    <3>1. \A j \in 1..Len(ports) : ports[j] \in Instruments
      BY <1>2
    <3>2. \A i \in Instruments : i <= made => i # x
      BY <1>1 DEF Instruments, x
    <3> QED BY <3>1, <3>2, <1>6
  <2>4. \A j \in 1..Len(list') : list'[j] <= made' /\ posmap'[list'[j]] = j - 1
    <3> SUFFICES ASSUME NEW j \in 1..Len(list') PROVE list'[j] <= made' /\ posmap'[list'[j]] = j - 1
      OBVIOUS
    <3>1. CASE j = Len(list) + 1
      BY <3>1, <1>1, <1>2, <1>6 DEF Instruments
    <3>2. CASE j \in 1..Len(list)
      <4>1. list'[j] = list[j] /\ list[j] <= made /\ posmap[list[j]] = j - 1 /\ list[j] # x /\ list[j] \in Instruments
        BY <3>2, <1>6, <2>1, <2>2
      <4>2. posmap'[list[j]] = posmap[list[j]]
        BY <4>1, <1>2
      <4>3. list[j] <= x
        BY <4>1, <1>1 DEF Instruments, x
      <4> QED BY <4>1, <4>2, <4>3, <1>1
    <3> QED BY <3>1, <3>2, <1>2, <1>6
  <2>5. \A j \in 1..Len(list') : j <= Settled' =>
          settings'[ports'[j]] = IF op' = "default" THEN Defaults ELSE list'[j]
    <3> SUFFICES ASSUME NEW j \in 1..Len(list'), j <= Settled'
                 PROVE  settings'[ports'[j]] = IF op = "default" THEN Defaults ELSE list'[j]
      OBVIOUS
    <3>1. CASE j \in 1..Len(list)
      <4>1. j \in 1..Len(ports) /\ ports'[j] = ports[j] /\ list'[j] = list[j] /\ settings'[ports[j]] = settings[ports[j]]
        BY <3>1, <2>1, <2>3, <1>2, <1>6
      <4>2. op # "load" /\ Settled = Len(list)
        <5>1. op # "load"
          BY <1>1, <3>1 DEF Settled
        <5>2. op \in {"default", "install"}
          BY <5>1 DEF TypeOK
        <5> QED BY <5>2, <1>1 DEF Settled
      <4>3. settings[ports[j]] = IF op = "default" THEN Defaults ELSE list[j]
        <5>1. j <= Settled
          BY <3>1, <4>2, <1>2
        <5> QED BY <5>1, <3>1, <1>1 DEF Own
      <4> QED BY <4>1, <4>3
    <3>2. CASE j = Len(list) + 1
      <4>1. op = "default"
        BY <3>2, <1>1, <1>2, <1>6 DEF Settled, TypeOK
      <4>2. list = ports
        BY <4>1, <2>1
      <4>3. ports'[j] = x
        BY <3>2, <4>2, <1>6
      <4>4. settings'[x] = Defaults
        BY <1>1, <1>2
      <4> QED BY <4>1, <4>3, <4>4
    <3>3. Len(list) \in Nat /\ j \in 1..(Len(list) + 1)
      BY <1>2, <1>6
    <3> HIDE DEF IInv, AddInstrument
    <3>4. j \in 1..Len(list) \/ j = Len(list) + 1
      BY <3>3
    <3> QED BY <3>1, <3>2, <3>4
  <2>6. Len(list') <= Len(ports') /\ (op' \in {"default", "install"} => list' = ports')
    BY <2>1, <1>2, <1>6
  <2> QED BY <2>4, <2>5, <2>6 DEF Own
<1> QED BY <1>5, <1>7, <1>8, <1>9, <1>10

LEMMA MatchInv ==
  ASSUME IInv, MatchLast \/ MatchEach
  PROVE  IInv'
<1> USE InstrumentsAssumption DEF IInv, MatchLast, MatchEach
<1>1. /\ ~edited /\ pc = "match" /\ op \in {"load", "install"}
      /\ Len(list) <= Len(ports) /\ (op = "install" => list = ports)
      /\ list \in Seq(Instruments) /\ ports \in Seq(Instruments) /\ channels \in Seq(Instruments)
      /\ Len(channels) = Len(ports) /\ \A j \in 1..Len(ports) : channels[j] = ports[j]
      /\ k \in Nat /\ made \in Nat
      /\ settings \in [Instruments -> {Defaults} \cup Instruments]
  BY DEF Course, Own, Lists, Released, TypeOK
<1> DEFINE n == IF op = "load" THEN k + 1 ELSE Len(list)
<1>2. /\ n \in 1..Len(list) /\ n \in 1..Len(ports) /\ ports[n] \in Instruments /\ list[n] \in Instruments
      /\ Settled = n - 1 /\ Settled' = n
      /\ settings' = [settings EXCEPT ![ports[n]] = list[n]]
  <2>1. CASE op = "load"
    <3>1. n \in 1..Len(list) /\ n \in 1..Len(ports) /\ MatchEach /\ n = k + 1
      BY <2>1, <1>1
    <3>2. ports[n] \in Instruments /\ list[n] \in Instruments /\ channels[n] = ports[n]
      BY <3>1, <1>1
    <3>3. Settled = n - 1 /\ Settled' = n
      BY <2>1, <3>1, <1>1 DEF Settled
    <3> QED BY <3>1, <3>2, <3>3
  <2>2. CASE op = "install"
    <3>1. n \in 1..Len(list) /\ n = Len(ports) /\ list[n] = made /\ MatchLast
      BY <2>2, <1>1 DEF Course
    <3>2. channels[Len(channels)] = ports[n]
      BY <3>1, <1>1
    <3> QED BY <2>2, <3>1, <3>2, <1>1 DEF Settled
  <2> QED BY <2>1, <2>2, <1>1
<1> HIDE DEF n
<1>3. TypeOK'
  <2>1. settings' \in [Instruments -> {Defaults} \cup Instruments]
    BY <1>1, <1>2
  <2>2. /\ UNCHANGED <<list, posmap, ports, channels, made, host, op, todo, edited>>
        /\ k' \in Nat /\ pc' \in {"idle", "clear", "add", "match"}
    BY <1>1
  <2> QED BY <2>1, <2>2 DEF TypeOK
<1>4. Ordered' /\ Lists' /\ Course'
  BY <1>1 DEF Ordered, Lists, Released, Course
<1>5. Own'
  <2>1. ASSUME NEW j \in 1..Len(list), j <= n
        PROVE  settings'[ports[j]] = list[j]
    <3>1. j \in 1..Len(ports) /\ ports[j] \in Instruments
      BY <1>1
    <3>2. CASE j = n
      BY <3>1, <3>2, <1>1, <1>2
    <3>3. CASE j # n
      <4>1. j < n /\ j <= Settled
        BY <3>3, <2>1, <1>1, <1>2
      <4>2. ports[j] < ports[n]
        BY <4>1, <3>1, <1>2 DEF Ordered
      <4>3. ports[j] # ports[n]
        BY <4>2, <3>1, <1>2 DEF Instruments
      <4>4. settings[ports[j]] = list[j]
        BY <4>1, <1>1 DEF Own
      <4> QED BY <4>3, <4>4, <3>1, <1>1, <1>2
    <3> QED BY <3>2, <3>3
  <2>2. UNCHANGED <<list, ports, posmap, op, edited, made>> /\ pc' # "clear"
    BY <1>1
  <2> QED BY <2>1, <2>2, <1>1, <1>2 DEF Own
<1> QED BY <1>3, <1>4, <1>5

LEMMA DoneInv ==
  ASSUME IInv, Added \/ Matched
  PROVE  IInv'
<1> USE DEF IInv, Added, Matched, mixer
<1>1. TypeOK'
  BY DEF TypeOK
<1>2. Ordered' /\ Lists' /\ Course'
  BY DEF Ordered, Lists, Released, Course, TypeOK
<1>3. Own'
  <2>1. ~edited /\ pc \in {"add", "match"} /\ pc' \in {"idle", "match"}
    BY DEF Course
  <2>2. Len(list) \in Nat
    BY DEF TypeOK
  <2>3. Settled' \in Nat /\ \A j \in 1..Len(list) : j <= Settled' => j <= Settled
    BY <2>1, <2>2 DEF Settled, TypeOK
  <2> QED BY <2>1, <2>3 DEF Own
<1> QED BY <1>1, <1>2, <1>3

LEMMA HostInv ==
  ASSUME IInv, Install \/ DefaultSong \/ LoadSong
  PROVE  IInv'
<1> USE InstrumentsAssumption, KitAssumption DEF IInv, Install, DefaultSong, LoadSong, Begin, mixer
<1>1. /\ pc = "idle" /\ pc' \in {"clear", "add"} /\ k' = 0 /\ todo' \in Nat /\ made' = made
      /\ made + todo' <= MaxInstruments /\ op' \in {"default", "load", "install"}
      /\ (pc' = "add" => op' = "load" /\ list' = <<>> /\ ~edited')
      /\ UNCHANGED <<ports, channels, posmap, settings, host>>
  OBVIOUS
<1>2. list' \in Seq(Instruments) /\ edited' \in BOOLEAN
  <2>1. <<>> \in Seq(Instruments) /\ list \in Seq(Instruments) /\ edited \in BOOLEAN
    BY DEF TypeOK
  <2>2. CASE LoadSong
    BY <2>1, <2>2
  <2>3. CASE Install \/ DefaultSong
    BY <2>1, <2>3
  <2> QED BY <2>2, <2>3
<1>3. TypeOK'
  BY <1>1, <1>2 DEF TypeOK
<1>4. Ordered' /\ Lists'
  BY <1>1 DEF Ordered, Lists, Released, TypeOK
<1>5. Course'
  BY <1>1 DEF Course, TypeOK
<1>6. Own'
  <2>1. CASE pc' = "add"
    BY <2>1, <1>1 DEF Own, TypeOK
  <2>2. CASE pc' = "clear"
    BY <2>2 DEF Own
  <2> QED BY <2>1, <2>2, <1>1
<1> QED BY <1>3, <1>4, <1>5, <1>6

LEMMA EditInv ==
  ASSUME IInv, LoadDrumkit \/ RemoveInstrument
  PROVE  IInv'
<1> USE InstrumentsAssumption, KitAssumption DEF IInv, mixer, calls
<1>1. /\ pc = "idle" /\ pc' = "idle" /\ edited' = TRUE
      /\ UNCHANGED <<ports, channels, settings, host, op, todo, k>>
  BY DEF LoadDrumkit, RemoveInstrument
<1>2. list \in Seq(Instruments) /\ made \in Nat /\ made <= MaxInstruments /\ posmap \in [Instruments -> Int]
  BY DEF TypeOK
<1>3. /\ list' \in Seq(Instruments) /\ made' \in 0..MaxInstruments /\ made <= made'
      /\ posmap' \in [Instruments -> Int]
  <2>1. CASE RemoveInstrument
    <3>1. PICK i \in 1..Len(list) : list' = Without(list, i)
      BY <2>1 DEF RemoveInstrument
    <3>2. list' \in Seq(Instruments)
      BY <3>1, <1>2, WithoutType
    <3> QED BY <2>1, <3>2, <1>2 DEF RemoveInstrument
  <2>2. ASSUME NEW n \in 1..MaxKit, n > Len(list), made + n - Len(list) <= MaxInstruments,
               made' = made + n - Len(list),
               list' = [j \in 1..n |-> IF j <= Len(list) THEN list[j] ELSE made + j - Len(list)],
               posmap' = [i \in Instruments |->
                 IF i \in (made + 1)..made' THEN Len(list) + i - made - 1 ELSE posmap[i]]
        PROVE  /\ list' \in Seq(Instruments) /\ made' \in 0..MaxInstruments /\ made <= made'
               /\ posmap' \in [Instruments -> Int]
    <3> DEFINE l == Len(list)
    <3>1. l \in Nat /\ n \in Nat /\ l < n
      BY <1>2, <2>2
    <3>2. \A j \in 1..n : (IF j <= l THEN list[j] ELSE made + j - l) \in Instruments
      <4> TAKE j \in 1..n
      <4>1. CASE j <= l
        BY <4>1, <3>1, <1>2
      <4>2. CASE ~ (j <= l)
        <5> HIDE DEF l
        <5>1. made + j - l \in Int /\ 1 <= made + j - l /\ made + j - l <= MaxInstruments
          BY <4>2, <3>1, <1>2, <2>2 DEF l
        <5> QED BY <4>2, <5>1 DEF Instruments
      <4> QED BY <4>1, <4>2
    <3>3. list' \in Seq(Instruments)
      BY <3>1, <3>2, <2>2
    <3>4. \A i \in Instruments : (Len(list) + i - made - 1) \in Int
      BY <3>1, <1>2 DEF Instruments
    <3>5. posmap' \in [Instruments -> Int]
      BY <3>4, <1>2, <2>2
    <3> QED BY <3>1, <3>3, <3>5, <1>2, <2>2
  <2>3. ASSUME NEW n \in 1..Len(list), list' = SubSeq(list, 1, n), UNCHANGED <<made, posmap>>
        PROVE  /\ list' \in Seq(Instruments) /\ made' \in 0..MaxInstruments /\ made <= made'
               /\ posmap' \in [Instruments -> Int]
    BY <2>3, <1>2
  <2> QED BY <2>1, <2>2, <2>3 DEF LoadDrumkit
<1>4. TypeOK'
  BY <1>1, <1>3 DEF TypeOK
<1>5. Ordered'
  <2>1. \A j \in 1..Len(ports) : ports[j] \in Nat
    BY DEF TypeOK, Instruments
  <2> QED BY <2>1, <1>1, <1>2, <1>3 DEF Ordered
<1>6. Lists' /\ Course' /\ Own'
  BY <1>1 DEF Lists, Released, Course, Own
<1> QED BY <1>4, <1>5, <1>6

THEOREM Invariance == Spec => []IInv
<1>1. IInv /\ [Next]_vars => IInv'
  <2> SUFFICES ASSUME IInv, [Next]_vars PROVE IInv'
    OBVIOUS
  <2>1. CASE UNCHANGED vars
    BY <2>1 DEF vars, mixer, calls, IInv, TypeOK, Ordered, Lists, Released, Course, Own, Settled
  <2> QED BY <2>1, ReleaseInv, ClearInv, AddInv, MatchInv, DoneInv, HostInv, EditInv DEF Next
<1> QED BY <1>1, InitIInv, PTL DEF Spec

(* The lists of the sampler and the mixer keep their types.                *)
THEOREM TypeCorrect == Spec => []TypeOK
<1>1. IInv => TypeOK
  BY DEF IInv
<1> QED BY <1>1, Invariance, PTL

(* The mixer has a channel for each port of the sampler and for no other,  *)
(* in the same order.                                                      *)
THEOREM PortsParallel == Spec => []Parallel
<1>1. IInv => Parallel
  <2> SUFFICES ASSUME IInv, pc = "idle" PROVE channels = ports
    BY DEF Parallel
  <2>1. /\ channels \in Seq(Instruments) /\ ports \in Seq(Instruments) /\ Len(channels) = Len(ports)
        /\ \A j \in 1..Len(channels) : channels[j] = ports[j]
    BY DEF IInv, TypeOK, Lists, Released
  <2> QED BY <2>1
<1> QED BY <1>1, Invariance, PTL

(* Until the list is changed behind the sampler's back, an instrument      *)
(* plays to the channel at its index, which has its settings.              *)
THEOREM OwnsChannel == Spec => []OwnChannel
<1>1. IInv => OwnChannel
  <2> SUFFICES ASSUME IInv, pc = "idle", ~edited, NEW j \in 1..Len(list)
               PROVE  /\ GetPos(list[j]) = j - 1
                      /\ j <= Len(ports) /\ channels[j] = ports[j]
                      /\ settings[channels[j]] = IF op = "default" THEN Defaults ELSE list[j]
    BY DEF OwnChannel
  <2>1. Len(list) <= Len(ports) /\ Len(list) \in Nat /\ Len(ports) \in Nat /\ j \in 1..Len(ports)
    BY DEF IInv, Own, TypeOK
  <2>2. channels[j] = ports[j]
    BY <2>1 DEF IInv, Lists, Released, TypeOK
  <2>3. Settled = Len(list)
    BY DEF Settled, IInv, TypeOK
  <2> QED BY <2>1, <2>2, <2>3 DEF IInv, Own, GetPos
<1> QED BY <1>1, Invariance, PTL
=============================================================================
