-------------------------------- MODULE Kit ---------------------------------
(***************************************************************************)
(* The instruments of the sampler, the ports it plays them to, and the     *)
(* channels of the mixer behind the ports: three lists that are kept by    *)
(* three objects and found by index in each other.                         *)
(*                                                                         *)
(* An instrument plays to the port at its position, which the list of      *)
(* instruments remembers in a map (get_pos()); its fader, and what is      *)
(* saved with it, is the channel at its index.                             *)
(*                                                                         *)
(* The LV2 plugin replaces the kit with clear() and add_instrument() of    *)
(* the sampler.  So does the application for its default song; for other   *)
(* songs it clears the list alone, and kits are loaded, and instruments    *)
(* added and removed, on the list directly.                                *)
(***************************************************************************)
EXTENDS Integers, Sequences

CONSTANTS
  Hosts,          \* who has the sampler
  MaxInstruments, \* how many instruments are made: bounds the model
  MaxKit          \* how many a kit or song has at most

ASSUME HostsAssumption       == Hosts \subseteq {"plugin", "app"}
ASSUME InstrumentsAssumption == MaxInstruments \in Nat
ASSUME KitAssumption         == MaxKit \in Nat

(* Instruments are numbered as they are made, and a port has the number of *)
(* the instrument it has been allocated for.  Settings are those that came *)
(* with an instrument, or the defaults.                                    *)
Instruments == 1..MaxInstruments
Defaults    == 0
NotFound    == -1

VARIABLES
  host,     \* who has the sampler
  list,     \* m_list of the list of instruments
  posmap,   \* m_posmap
  ports,    \* instrument_ports of the sampler
  channels, \* _in_ports of the mixer, by their ports
  settings, \* of the channel of a port
  made,     \* how many instruments have been made
  pc, op,   \* where the host is, and in which operation (or the last one)
  todo, k,  \* how many instruments it has still to add, the loop's index
  edited    \* whether the list has been changed behind the sampler's back

mixer == <<channels, settings>>
calls == <<host, pc, op, todo, k>>
vars  == <<list, posmap, ports, mixer, made, calls, edited>>

Init ==
  /\ host \in Hosts
  /\ list = <<>> /\ ports = <<>> /\ channels = <<>>
  /\ posmap = [i \in Instruments |-> NotFound]
  /\ settings = [p \in Instruments |-> Defaults]
  /\ made = 0
  /\ pc = "idle" /\ op = "default" /\ todo = 0 /\ k = 0
  /\ edited = FALSE

(* get_pos().                                                              *)
GetPos(i) == posmap[i]

Without(s, i) == [j \in 1..(Len(s) - 1) |-> IF j < i THEN s[j] ELSE s[j + 1]]

-----------------------------------------------------------------------------
(* The sampler's own operations, which the host calls: clear() releases    *)
(* each port and then empties the two lists.                               *)

Keep(i)  == channels                       \* mutant: the port is not released
Erase(i) == Without(channels, i)           \* MixerImplPrivate::delete_port()

Release ==
  /\ pc = "clear" /\ k < Len(ports)
  /\ \E i \in 1..Len(channels) :
       /\ channels[i] = ports[k + 1]
       /\ channels' = Erase(i)
  /\ k' = k + 1
  /\ UNCHANGED <<list, posmap, ports, settings, made, host, pc, op, todo, edited>>

Clear ==
  /\ pc = "clear" /\ k = Len(ports)
  /\ list' = <<>> /\ ports' = <<>>
  /\ pc' = "add" /\ edited' = FALSE
  /\ UNCHANGED <<posmap, mixer, made, host, op, todo, k>>

(* add_instrument(): a channel with a new port, and the two lists.  In the *)
(* bundle of the plugin the channel's settings follow its instrument; a    *)
(* song's are applied at the end.                                          *)
NextPos  == Len(list)
AheadPos == Len(list) + 1                  \* mutant: the size after adding
Position == NextPos

AddInstrument ==
  /\ pc = "add" /\ todo > 0
  /\ made' = made + 1
  /\ channels' = Append(channels, made')
  /\ settings' = [settings EXCEPT ![made'] = Defaults]
  /\ posmap' = [posmap EXCEPT ![made'] = Position]
  /\ list' = Append(list, made')
  /\ ports' = Append(ports, made')
  /\ todo' = todo - 1
  /\ pc' = IF op = "install" THEN "match" ELSE "add"
  /\ UNCHANGED <<host, op, k, edited>>

(* install_drumkit_bundle(): the settings go to the last channel.          *)
MatchLast ==
  /\ pc = "match" /\ op = "install"
  /\ settings' = [settings EXCEPT ![channels[Len(channels)]] = made]
  /\ pc' = "add"
  /\ UNCHANGED <<list, posmap, ports, channels, made, host, op, todo, k, edited>>

(* Song::load(): the settings go to the first channels, in order.          *)
MatchEach ==
  /\ pc = "match" /\ op = "load" /\ k < Len(list)
  /\ settings' = [settings EXCEPT ![channels[k + 1]] = list[k + 1]]
  /\ k' = k + 1
  /\ UNCHANGED <<list, posmap, ports, channels, made, host, pc, op, todo, edited>>

Added ==
  /\ pc = "add" /\ todo = 0
  /\ pc' = IF op = "load" THEN "match" ELSE "idle"
  /\ k' = 0
  /\ UNCHANGED <<list, posmap, ports, mixer, made, host, op, todo, edited>>

Matched ==
  /\ pc = "match" /\ op = "load" /\ k = Len(list)
  /\ pc' = "idle"
  /\ UNCHANGED <<list, posmap, ports, mixer, made, host, op, todo, k, edited>>

-----------------------------------------------------------------------------
(* The hosts.                                                              *)

Begin(o, p, n) ==
  /\ pc = "idle" /\ made + n <= MaxInstruments
  /\ op' = o /\ pc' = p /\ todo' = n /\ k' = 0
  /\ UNCHANGED <<posmap, ports, mixer, made, host>>

(* install_drumkit_bundle() of the plugin.                                 *)
Install ==
  /\ host = "plugin"
  /\ \E n \in 0..MaxKit : Begin("install", "clear", n)
  /\ UNCHANGED <<list, edited>>

(* get_default_song(): one instrument, without settings.                   *)
DefaultSong ==
  /\ host = "app"
  /\ Begin("default", "clear", 1)
  /\ UNCHANGED <<list, edited>>

(* Song::load(): clears the list, and leaves the ports to the sampler.     *)
LoadSong ==
  /\ host = "app"
  /\ \E n \in 0..MaxKit : Begin("load", "add", n)
  /\ list' = <<>>
  /\ edited' = FALSE

(* loadDrumkit(): the instruments of the list are made into those of the   *)
(* kit; it adds those it lacks, and removes those it has too many, from    *)
(* the end, up to one that patterns still use, but not the last one.       *)
LoadDrumkit ==
  /\ host = "app" /\ pc = "idle"
  /\ \/ \E n \in 1..MaxKit :
          /\ n > Len(list) /\ made + n - Len(list) <= MaxInstruments
          /\ made' = made + n - Len(list)
          /\ list' = [j \in 1..n |-> IF j <= Len(list) THEN list[j] ELSE made + j - Len(list)]
          /\ posmap' = [i \in Instruments |->
               IF i \in (made + 1)..made' THEN Len(list) + i - made - 1 ELSE posmap[i]]
     \/ \E n \in 1..Len(list) :
          /\ n < Len(list)
          /\ list' = SubSeq(list, 1, n)
          /\ UNCHANGED <<made, posmap>>
  /\ edited' = TRUE
  /\ UNCHANGED <<ports, mixer, calls>>

(* removeInstrument(), called by the user: the last one is only blanked.   *)
RemoveInstrument ==
  /\ host = "app" /\ pc = "idle" /\ Len(list) > 1
  /\ \E i \in 1..Len(list) : list' = Without(list, i)
  /\ edited' = TRUE
  /\ UNCHANGED <<posmap, ports, mixer, made, calls>>

Next == \/ Release \/ Clear \/ AddInstrument \/ MatchLast \/ MatchEach \/ Added \/ Matched
        \/ Install \/ DefaultSong \/ LoadSong \/ LoadDrumkit \/ RemoveInstrument

Spec == Init /\ [][Next]_vars

-----------------------------------------------------------------------------
(* Properties.                                                             *)

TypeOK ==
  /\ host \in Hosts
  /\ list \in Seq(Instruments) /\ ports \in Seq(Instruments) /\ channels \in Seq(Instruments)
  /\ posmap \in [Instruments -> Int]
  /\ settings \in [Instruments -> {Defaults} \cup Instruments]
  /\ made \in 0..MaxInstruments
  /\ pc \in {"idle", "clear", "add", "match"}
  /\ op \in {"default", "load", "install"}
  /\ todo \in Nat /\ k \in Nat
  /\ edited \in BOOLEAN

(* Between the host's operations the mixer has a channel for each port of  *)
(* the sampler and for no other, in the same order, however songs and kits *)
(* have come and gone: MixerImpl knows ports by their place, and a port    *)
(* that release_port() does not find would be erased at end().             *)
Parallel == pc = "idle" => channels = ports

(* Unless the list has been changed behind the sampler's back, the         *)
(* instrument at an index plays to the channel of that index, and the      *)
(* channel has the settings that came with the instrument.                 *)
OwnChannel ==
  pc = "idle" /\ ~edited => \A j \in 1..Len(list) :
    /\ GetPos(list[j]) = j - 1
    /\ j <= Len(ports) /\ channels[j] = ports[j]
    /\ settings[channels[j]] = IF op = "default" THEN Defaults ELSE list[j]
=============================================================================
