-------------------------------- MODULE Jack --------------------------------
(***************************************************************************)
(* The client of JACK that the audio output and the MIDI input share: it   *)
(* is opened by whichever comes first and closed when the last one leaves, *)
(* and it has one process callback, the engine's while there is an output. *)
(* The other one, of the MIDI input, is null: JackMidiDriver.cpp:85        *)
(* defines a pointer of the name of the function it means to pass.         *)
(* The engine starts and stops the two drivers while JACK, in a thread of  *)
(* its own, calls back; opening, ports and connections may fail, and the   *)
(* server may stop.                                                        *)
(*                                                                         *)
(* Engine has the engine's life cycle; of it there is here what decides    *)
(* whether a cycle runs, and how far.                                      *)
(*                                                                         *)
(* The names of the specification itself begin with Jack, for the sake of  *)
(* the module of proofs that extends this one and EventQueue.              *)
(***************************************************************************)
EXTENDS Naturals

CONSTANTS
  Failures,  \* of "open", "ports", "midiport", "connect", "server"
  Addresses  \* where drivers can be in memory; 0 is the null pointer

ASSUME FailuresAssumption ==
  Failures \subseteq {"open", "ports", "midiport", "connect", "server"}

ASSUME AddressesAssumption == Addresses \subseteq Nat \ {0}

VARIABLES
  client,  \* JackClient, with what JACK knows of it
  driver,  \* m_pAudioDriver
  outAt,   \* the address of the JackOutput
  outs,    \* its ports
  midi,    \* m_pMidiDriver
  midiAt,  \* its address
  ready,   \* whether m_audioEngineState is StateReady
  pc,      \* the engine's next step
  cycle,   \* the callback's next step
  twice    \* whether JACK has just been told to unregister ports that are gone

output   == <<driver, outAt, outs, twice>>
input    == <<midi, midiAt>>
jackVars == <<client, output, input, ready, pc, cycle>>

(* open is m_client; alive, active and callback are JACK's; audio and      *)
(* audioArg tell whether m_audio_process and its argument are set.         *)
NewClient == [open |-> FALSE, alive |-> FALSE, active |-> FALSE, callback |-> "none",
              audio |-> FALSE, audioArg |-> FALSE, children |-> {}]

JackInit ==
  /\ client = NewClient
  /\ driver = "none" /\ outAt = 0 /\ outs = "none"
  /\ midi = "none" /\ midiAt = 0
  /\ ready = FALSE
  /\ pc = "start" /\ cycle = "idle"
  /\ twice = FALSE

-----------------------------------------------------------------------------
(* JackClient.  Whatever deactivates the client waits for the cycle.       *)

WaitsNot  == TRUE                      \* mutant: does not wait
CycleOver == cycle = "idle"

Opened(c) ==
  IF c.open THEN {c}
  ELSE {[c EXCEPT !.open = TRUE, !.alive = TRUE, !.callback = "none"]}
         \cup (IF "open" \in Failures THEN {c} ELSE {})

Closed(c) == [c EXCEPT !.open = FALSE, !.alive = FALSE, !.active = FALSE]

(* setAudioProcessCallback() and setNonAudioProcessCallback(): JACK        *)
(* refuses only a client that is not there.  The second is called with a   *)
(* null pointer: without an output, JACK has no callback any more.         *)
AudioSet(c) ==
  IF c.open THEN [c EXCEPT !.active = FALSE, !.callback = "audio",
                           !.audio = TRUE, !.audioArg = TRUE]
            ELSE c

NonAudioSet(c) ==
  CASE ~c.open -> c
    [] c.open /\ c.audio  -> [c EXCEPT !.active = FALSE]
    [] c.open /\ ~c.audio -> [c EXCEPT !.active = FALSE, !.callback = "none"]

(* clearAudioProcessCallback(): there is no other callback that could take *)
(* over, and JACK keeps the one it has.                                    *)
Cleared(c) == IF c.audio THEN [c EXCEPT !.active = FALSE, !.audio = FALSE] ELSE c

Subscribed(c, child) == [c EXCEPT !.children = @ \cup {child}]

(* unsubscribe(): the last one to leave closes the client.                 *)
StaysOpen(c, child) == [c EXCEPT !.children = @ \ {child}]  \* mutant: it does not

Unsubscribed(c, child) ==
  LET left == [c EXCEPT !.children = @ \ {child}]
  IN  IF c.children # {} /\ left.children = {} THEN Closed(left) ELSE left

-----------------------------------------------------------------------------
(* JackOutput::disconnect(): ports are unregistered in an open client, and *)
(* not forgotten.                                                          *)

Disconnect(c) ==
  /\ client' = Unsubscribed(Cleared(c), outAt)
  /\ outs' = IF outs = "there" THEN "gone" ELSE outs
  /\ twice' = (c.alive /\ outs = "gone")

(* EnginePrivate::audioEngine_startAudioDrivers(): a new driver is         *)
(* anywhere but where the other one is.                                    *)
Start ==
  /\ pc = "start" /\ cycle # "render"
  /\ client' \in Opened(client)
  /\ driver' = "jack" /\ outs' = "none"
  /\ outAt' \in Addresses \ {midiAt}
  /\ pc' = "init"
  /\ UNCHANGED <<twice, input, ready, cycle>>

(* JackOutput::init().                                                     *)
InitOutput ==
  /\ pc = "init" /\ CycleOver
  /\ client' = AudioSet(client)
  /\ \/ client.alive /\ outs' = "there" /\ pc' = "midi"
     \/ (~client.alive \/ "ports" \in Failures) /\ UNCHANGED outs /\ pc' = "failed"
  /\ UNCHANGED <<driver, outAt, twice, input, ready, cycle>>

InitFailed ==
  /\ pc = "failed" /\ CycleOver
  /\ Disconnect(client)
  /\ driver' = "null" /\ outAt' = 0
  /\ pc' = "midi"
  /\ UNCHANGED <<input, ready, cycle>>

(* JackMidiDriver::open(), with the assertion on the argument.  The input  *)
(* subscribes whether or not it gets a port.                               *)
OpenMidi ==
  /\ pc = "midi" /\ CycleOver
  /\ \E c \in Opened(client), a \in Addresses \ {outAt} :
       IF c.audio \/ c.audioArg
       THEN /\ client' = Subscribed(NonAudioSet(c), a)
            /\ \/ c.alive /\ midi' = "port"
               \/ (~c.alive \/ "midiport" \in Failures) /\ midi' = "noport"
            /\ midiAt' = a
            /\ ready' = TRUE
            /\ pc' = "activate"
       ELSE /\ client' = c
            /\ pc' = "aborted"
            /\ UNCHANGED <<input, ready>>
  /\ UNCHANGED <<output, cycle>>

Activate ==
  /\ pc = "activate"
  /\ client' = [client EXCEPT !.active = client.alive]
  /\ pc' = "connect"
  /\ UNCHANGED <<output, input, ready, cycle>>

Connect ==
  /\ pc = "connect"
  /\ client' = IF driver = "jack" THEN Subscribed(client, outAt) ELSE client
  /\ \/ pc' = "on"
     \/ driver = "jack" /\ (~client.alive \/ "connect" \in Failures) /\ pc' = "replace"
  /\ UNCHANGED <<output, input, ready, cycle>>

(* The null driver takes the place of the output that cannot be connected. *)
Replace ==
  /\ pc = "replace" /\ CycleOver
  /\ Disconnect(client)
  /\ driver' = "null" /\ outAt' = 0
  /\ pc' = "on"
  /\ UNCHANGED <<input, ready, cycle>>

-----------------------------------------------------------------------------
(* EnginePrivate::audioEngine_stopAudioDrivers(): the state is lowered     *)
(* before the engine is locked.                                            *)

Halt ==
  /\ pc = "on"
  /\ ready' = FALSE
  /\ pc' = "stop"
  /\ UNCHANGED <<client, output, input, cycle>>

(* JackMidiDriver::close(), which may close the client; an input without a *)
(* port does not unsubscribe.                                              *)
CloseMidi ==
  /\ pc = "stop" /\ cycle # "render"
  /\ LET left == Unsubscribed(client, midiAt)
     IN  IF midi = "port" /\ client.open
         THEN /\ left.open \/ CycleOver
              /\ client' = left
         ELSE UNCHANGED client
  /\ midi' = "noport"
  /\ pc' = "delete"
  /\ UNCHANGED <<output, midiAt, ready, cycle>>

DeleteMidi ==
  /\ pc = "delete"
  /\ midi' = "none" /\ midiAt' = 0
  /\ pc' = "disconnect"
  /\ UNCHANGED <<client, output, ready, cycle>>

StopOutput ==
  /\ pc = "disconnect" /\ CycleOver
  /\ IF driver = "jack" THEN Disconnect(client) ELSE UNCHANGED <<client, outs, twice>>
  /\ pc' = "release"
  /\ UNCHANGED <<driver, outAt, input, ready, cycle>>

(* The destructor disconnects again.                                       *)
Release ==
  /\ pc = "release" /\ CycleOver
  /\ IF driver = "jack" THEN Disconnect(client) ELSE UNCHANGED <<client, outs, twice>>
  /\ driver' = "none" /\ outAt' = 0
  /\ pc' = "close"
  /\ UNCHANGED <<input, ready, cycle>>

Close ==
  /\ pc = "close" /\ CycleOver
  /\ client' = Closed(client)
  /\ twice' = FALSE
  /\ pc' = "start"
  /\ UNCHANGED <<driver, outAt, outs, input, ready, cycle>>

-----------------------------------------------------------------------------
(* JACK calls back.  engine_process_callback() is audioEngine_process():   *)
(* it fetches the buffers, tests the state, has the MIDI input read its    *)
(* port, locks the engine, and renders if the state is still what it was.  *)

OutputLocked == pc = "replace"
EngineLocked == pc \notin {"start", "activate", "connect", "replace", "on", "stop"}

Call ==
  /\ cycle = "idle"
  /\ client.open /\ client.active /\ client.callback # "none"
  /\ cycle' = "clear"
  /\ UNCHANGED <<client, output, input, ready, pc>>

Test ==
  /\ cycle = "clear" /\ ~OutputLocked
  /\ cycle' = IF ~ready THEN "idle" ELSE IF midi = "none" THEN "lock" ELSE "midi"
  /\ UNCHANGED <<client, output, input, ready, pc>>

ProcessMidi ==
  /\ cycle = "midi"
  /\ cycle' = "lock"
  /\ UNCHANGED <<client, output, input, ready, pc>>

Lock ==
  /\ cycle = "lock" /\ ~EngineLocked
  /\ cycle' = IF ready THEN "render" ELSE "idle"
  /\ UNCHANGED <<client, output, input, ready, pc>>

Return ==
  /\ cycle = "render"
  /\ cycle' = "idle"
  /\ UNCHANGED <<client, output, input, ready, pc>>

(* The server stops, and tells jackDriverShutdown() about it, which finds  *)
(* the client by way of the JackOutput.                                    *)
ServerStops ==
  /\ "server" \in Failures
  /\ client.alive /\ CycleOver
  /\ driver = "jack" /\ pc # "init"
  /\ client' = [Cleared(client) EXCEPT !.alive = FALSE, !.active = FALSE]
  /\ UNCHANGED <<output, input, ready, pc, cycle>>

Starting == Start \/ InitOutput \/ InitFailed \/ OpenMidi \/ Activate \/ Connect \/ Replace
Stopping == Halt \/ CloseMidi \/ DeleteMidi \/ StopOutput \/ Release \/ Close
Process  == Call \/ Test \/ ProcessMidi \/ Lock \/ Return

JackNext == Starting \/ Stopping \/ Process \/ ServerStops

JackSpec == JackInit /\ [][JackNext]_jackVars

-----------------------------------------------------------------------------
(* Properties.                                                             *)

Clients == [open : BOOLEAN, alive : BOOLEAN, active : BOOLEAN, callback : {"none", "audio"},
            audio : BOOLEAN, audioArg : BOOLEAN, children : SUBSET Addresses]

JackTypeOK ==
  /\ client \in Clients
  /\ driver \in {"none", "jack", "null"}
  /\ outs \in {"none", "there", "gone"}
  /\ midi \in {"none", "noport", "port"}
  /\ outAt \in Addresses \cup {0} /\ midiAt \in Addresses \cup {0}
  /\ ready \in BOOLEAN /\ twice \in BOOLEAN
  /\ pc \in {"start", "init", "failed", "midi", "activate", "connect", "replace", "on",
             "stop", "delete", "disconnect", "release", "close", "aborted"}
  /\ cycle \in {"idle", "clear", "midi", "lock", "render"}

(* JACK calls the engine only while there is an output with its ports,     *)
(* whatever fails and in whatever order drivers come and go, though JACK   *)
(* keeps the callback of an output that is gone.                           *)
CallsLive == cycle # "idle" => driver = "jack" /\ outs = "there"

(* Subscribers that are gone: a MIDI input that got no port never leaves.  *)
Strays == client.children \ {outAt, midiAt}

(* No port is unregistered twice unless a stray subscriber keeps the       *)
(* client open, though every output is disconnected twice and keeps its    *)
(* pointers; and a MIDI port has its client, though the output may leave   *)
(* before.                                                                 *)
PortsOnce ==
  /\ twice => Strays # {}
  /\ midi = "port" => client.open

-----------------------------------------------------------------------------
(* Why: what the client, the output and the MIDI input are like while the  *)
(* engine takes its steps.                                                 *)

Serving == {"activate", "connect", "replace", "on", "stop"}
Leaving == {"delete", "disconnect"}

(* Only a live client is active.  It calls the engine back only if there   *)
(* is an output.                                                           *)
ClientFits ==
  /\ client.active => client.alive
  /\ client.alive => client.open
  /\ client.open => pc # "start"
  /\ cycle # "idle" => client.active /\ client.callback = "audio"
  /\ (client.active \/ pc = "activate") /\ client.alive /\ client.callback = "audio" =>
       driver = "jack" /\ outs = "there"

(* A JackOutput has its ports from its init() on and, in a live client,    *)
(* its callback; it has left for good when it is disconnected again.       *)
OutputFits ==
  /\ driver = "jack" <=> outAt # 0
  /\ pc \in {"init", "failed", "replace"} => driver = "jack"
  /\ pc \in {"init", "failed"} => outs = "none" /\ ~client.active
  /\ driver = "none" <=> pc \in {"start", "close"}
  /\ driver = "jack" /\ pc \in {"midi"} \cup Serving \cup Leaving =>
       outs = "there" /\ (client.alive => client.audio)
  /\ pc = "midi" => ~client.active /\ (driver = "jack" => client.open)
  /\ driver # "jack" => ~client.audio
  /\ driver = "jack" /\ pc \in {"replace", "on", "stop"} \cup Leaving => outAt \in client.children
  /\ driver = "jack" /\ pc = "release" =>
       ~client.active /\ (client.alive => client.children \ {outAt} # {})

(* The MIDI input is a subscriber while the engine serves, and has gone    *)
(* before the output leaves.                                               *)
MidiFits ==
  /\ midi = "none" <=> midiAt = 0
  /\ midi # "none" <=> pc \in Serving \cup {"delete"}
  /\ midiAt # outAt \/ midiAt = 0
  /\ pc \in Serving => midiAt \in client.children
  /\ midi = "port" => pc \in Serving /\ client.open
  /\ twice => pc = "close" /\ client.children # {}

JackInv == JackTypeOK /\ ClientFits /\ OutputFits /\ MidiFits

(* "Make sure the process cycle is over before killing anything"           *)
(* (JackClient.cpp:240): no cycle is in a MIDI driver that is gone.        *)
MidiLive == cycle = "midi" => midi # "none"
=============================================================================
