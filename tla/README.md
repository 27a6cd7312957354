# A TLA+ model of Composite's Tritium engine

Composite is a drum machine and sampler, a fork of Hydrogen. Its engine is the
library `Tritium` (`src/Tritium/`); a Qt GUI (`src/composite-gui/`) and an LV2
plugin (`src/sampler/`) use it. This directory models the parts of Tritium
that are hard to test: data structures shared by the audio thread and the GUI,
life cycles with several threads in them, and bar/tick arithmetic. TLC checks
the models on small instances; TLAPS proves the most important results for every
size. Paths are relative to the repository's root; `T/` stands for
`src/Tritium/`.

## 1. Inventory

### Threads

| thread | what it runs |
| --- | --- |
| audio | `EnginePrivate::process`, called by JACK (`JackClient`), by the thread of `DiskWriterDriver` during an export, or by nobody (`NullDriver`, `FakeDriver` in a loop) |
| MIDI in | `MidiInput::handleMidiMessage` and the action handlers; with JACK MIDI this is the audio thread, inside `process` |
| GUI | everything the user does; a timer that drains the `EventQueue` |
| worker | `WorkerThread::run`, polls its clients (the serialiser) |
| logger | `LoggerThread`, writes the messages that the other threads queue |

### Components

**SeqScript** (`T/src/SeqScript*.cpp`): the queue of sequencer events between
the song sequencer, the MIDI input and the sampler. State: a pre-allocated
vector of slots, a singly linked list sorted by frame embedded in it (`m_head`,
`m_tail` the sentinel), an allocator that hands out slots round-robin
(`m_next_free`, `m_free`), `m_list_size`, a mutex. Operations: `reserve`,
`insert`, `insert_note` (an event and its note-off), `remove`, `clear`,
`consumed` (drop the past, rebase the rest). Correct when no slot is lost, linked
twice or handed out while in use, the list is sorted and ends, and events of one
frame stay in order.

**EventQueue** (`T/src/EventQueue.cpp`): a ring of `MAX_EVENTS` slots through
which the engine tells the GUI what happened. State: the ring, a read and a
write counter. Operations: `push_event` (any thread), `pop_event` (the GUI's
timer, until it gets `EVENT_NONE`). No synchronisation of any kind. Correct when
the GUI gets every event once, in order.

**Engine** (`T/src/Engine.cpp`, `T/src/EnginePrivate.hpp`): owns everything else.
State: `m_audioEngineState` (Uninitialized, Initialized, Prepared, Ready), the
song, the driver, the engine mutex with a record of its locker, and
`mutex_OutputPointer`. Operations: init/destroy, start/stop of drivers, setSong and
removeSong, loadDrumkit, removeInstrument, startExportSong and stopExportSong,
and `process`, which the audio thread runs every cycle. Correct when the audio
thread never uses a song, instrument or driver that is gone, when no lock is left
behind and when the life cycle can always go on.

**Transport** (`T/src/transport/`): `H2Transport` delegates to
`SimpleTransportMaster` or `JackTransportMaster`; `TransportPosition` holds
frame, bar, beat, tick and does the arithmetic between them. Correct when a
position is always normalised, bar and tick agree with the frame, and
relocation from another thread takes effect at a cycle boundary.

**Song, Pattern, PatternModeManager, SongSequencer** (`T/src/Song.cpp`,
`T/src/Pattern.cpp`, `T/src/SongSequencer.cpp`): the song as a list of pattern
groups, arithmetic from bars to ticks, the playing and the pending patterns of
pattern mode, and the sequencer that turns a transport position and a number of
frames into events of the script. Correct when each note is sequenced exactly once
and the next patterns take effect at the bar boundary.

**Sampler, Note, ADSR** (`T/src/Sampler.cpp`, `T/src/ADSR.cpp`): the notes that
play, their envelopes, mute groups, and the reference count `queued` that keeps
an instrument alive until the engine's death row lets go of it. Operations: `process` (drop the
notes beyond the limit, handle the script's events, render every note), `stop_playing_notes`,
`preview_sample`, `set_max_note_limit`, `add_instrument` and `remove_instrument`. Correct when
`queued` counts the notes that refer to an instrument, a note starts and is released at its frame
wherever the cycles begin, and the list of ports stays parallel to the list of instruments.

**Instrument list, mixer, ports** (`T/src/InstrumentList.cpp`, `T/src/MixerImpl.cpp`):
the instruments with a map of their positions, the ports the sampler plays them to, and the
mixer's channels behind the ports. Operations: `add`, `del`, `clear` of the list,
`allocate_port` and `release_port` of the mixer, `add_instrument` and `clear` of the sampler, and
the loading of songs and kits by the two hosts. Correct when an instrument plays to its own channel with
its own settings, and the mixer has the ports the sampler has.

**Serialization, WorkerThread, Logger** (`T/src/Serialization.cpp`,
`T/src/WorkerThread.cpp`, `T/src/Logger.cpp`): requests to load or save files,
put in a queue that the worker's loop polls, and messages that the logger writes.
Correct when what is queued is done once and in order, a caller that waits gets its answer and its
objects, nobody touches a request that has been freed, and the thread ends when it is told to.

**BeatCounter and tap tempo** (`T/src/BeatCounter.cpp`): the tempo from the
intervals between key presses.

**MIDI input, actions** (`T/src/IO/MidiInput.cpp`, `T/src/Action.cpp`,
`T/src/MidiMap.cpp`, `T/src/DefaultMidiImplementation.cpp`): messages to notes,
engine calls and actions.

**Drivers** (`T/src/IO/`): `JackClient` (opened on demand, closed by its last subscriber, with one
process callback for `JackOutput` or else `JackMidiDriver`), `DiskWriterDriver` (export thread),
`FakeDriver`, `NullDriver`. Correct when JACK never calls what is gone and is never asked to give up what it
no longer has.

**Instruments, samples, presets, playlist, preferences, local files, sound
library, SMF export, LADSPA effects** (the rest of `T/src/`): data, file formats
and plug-in hosting.

**GUI** (`src/composite-gui/`) and **LV2 plugin** (`src/sampler/`): clients of
the engine.

### How they interact

* The audio thread calls, under the engine mutex, `GuiInputQueue::process`,
  `SongSequencer::process`, `Sampler::process` and `Mixer::mix_down`; before it,
  the MIDI input's `processAudio`; after it, the transport's `processed_frames`
  and the script's `consumed`.
* The GUI calls the engine's operations, which take the engine mutex (twice, for
  `setSong`) or none, and change what the audio thread reads.
* The engine pushes to the `EventQueue` from whichever thread it runs in.
* `Song::load`, `Song::save` and `loadDrumkit` hand a request to the serialiser
  and poll a flag until the worker has done it.

### What is hard

Accesses without a lock from two threads (`EventQueue`, the serialiser's queue, the
mixer's lists, the state test before the lock in `process`); locks left held or
released twice on error paths; life cycles (start, stop, destroy, set a song
while another thread processes); loops that end only if a structure is intact;
counters at their limits; bars and ticks at a boundary inside a cycle.

## 2. Modules

| module | models | kind |
| --- | --- | --- |
| `SortedEvents` | sequences of events ordered by frame | operators |
| `SeqQueue` | what a script promises: a sorted, stable queue | abstract specification |
| `SeqScript` | `T/src/SeqScriptPrivate.cpp`, `insert_note` of `T/src/SeqScript.cpp` | component |
| `SeqScriptQueue` | `SeqScript` as an implementation of `SeqQueue` | refinement mapping |
| `SeqScriptProofs` | theorems about `SeqScript` | proofs |
| `EventQueue` | `T/src/EventQueue.cpp`, the GUI's timer | component |
| `CallbackProofs` | theorems about `EventQueue` and `Jack`, where threads of others call in | proofs |
| `Engine` | the life cycle in `T/src/Engine.cpp`, with the drivers' threads | composition of engine, drivers, transport state and export dialog |
| `EngineProofs` | theorems about `Engine` | proofs |
| `Transport` | `SimpleTransportMaster`, `TransportPosition`, the walk of `SongSequencer`, the bars of `Song` | composition of transport and sequencer |
| `TransportProofs` | theorems about `Transport` | proofs |
| `Sampler` | `T/src/Sampler.cpp`, the envelope's release, the count of `T/src/Instrument.cpp`, the death row of `T/src/Engine.cpp` | composition of sampler, instruments and death row |
| `SamplerProofs` | theorems about `Sampler` | proofs |
| `Fifo` | what a service with a queue promises | abstract specification |
| `Logger` | `T/src/Logger.cpp` and its worker, `T/src/WorkerThread.cpp` | component |
| `LoggerProofs` | theorems about `Logger` | proofs |
| `Serializer` | `SerializationQueue` of `T/src/Serialization.cpp`, its worker, and its two kinds of callers | composition of serialiser, worker and callers |
| `SerializerProofs` | theorems about `Serializer` | proofs |
| `Kit` | `InstrumentList`, the ports of `Sampler`, the channels of `MixerImpl`, and the hosts that load songs and kits | composition |
| `KitProofs` | theorems about `Kit` | proofs |
| `Jack` | `JackClient`, `JackOutput`, `JackMidiDriver`, their start and stop in `T/src/Engine.cpp` | composition of client, drivers and callbacks |
| `MC...` | constants of the runs | instances |

### SeqScript

One slot of `m_vec` is an index in `Slots`; a default-constructed iterator is
`Null`. `ev`, `next` and `used` are the slots' fields, the other variables the
members of the same meaning. An operation holds `m_mutex` from first to last, so
only one runs; each turn of its loops is a step (`pc` says which loop), so that
the invariants speak of every intermediate state and a loop without end is a
behaviour of the model. `Insert` is the call to `alloc()` up to its loop, `Seek` a
turn of that loop, `Link` and `Walk` the two ways to link the slot, `Pop` and
`Rebase` the two loops of `consumed()`, `Clear`, `ClearLoop`, `ClearEnd` the
parts of `clear()`. A failed `assert()` is the end of the program
(`pc = "aborted"`). Frames wrap at `FrameMod`, as `uint32_t` does. The payload of an
event is reduced to note on or off and an instrument. An event in a slot that is
released is forgotten in the model (nothing reads it again), which keeps the state
space small. `remove()`, which no part of the engine calls, is left out.

`SeqScriptQueue` is the refinement mapping: the queue is what one finds who follows `next` from the
first slot on (`Contents`). `clear()` and `consumed()` take effect on it as a whole when they are called, although the
list gets there in several steps; an insertion takes effect with its last step, which links the slot.

Every `clear()` costs a slot: the slot it takes for the sentinel is the sentinel already, and `m_free` goes
down all the same. The engine clears the script at each `setSong()`, `removeSong()` and stop
(`Engine.cpp:328-330`), so nothing in the model keeps the callers from it. The ghost variable `lost` counts the slots
gone this way since the construction or the last `reserve()`, and `AllocationSound` says that nothing else is lost: `m_free`
is short of exactly `lost`, and the `assert()` of `alloc()` fails (`OnlyClearAborts`) only when `clear()` has used up all slots.

`Spare` is how many slots the callers leave free when they insert. The code asks nothing of its
callers, and `Spare = 0` is the code as it is; the run and the theorems take the callers to leave one, because a script that has
been full is broken for good (section 4).

### EventQueue

Every access to shared memory is a step. `push_event()` reads the counter
(`Push`) and then has three stores left, the counter (`Publish`) and the two words of
the slot (`Fill`), which nothing orders. Any number of threads push at a time (`Writers`: the audio thread, MIDI, the GUI, the
disk writer), so that two may read the same counter and share a slot, and one may store a counter that the others have left behind.
The GUI's timer pops: `Pop` compares the counters and increments its own, `Take` reads a word of the slot. An event is the
pair of its writer and its number there. Two ghost variables name what the code loses: `back`, that a store has taken the counter
back, and `spoiled`, the events whose slot another event has got as well, by a lost increment or by a lap. `Pushes` and `Pops` bound
the number of events in the runs; the theorems hold for any value.

### Engine

The GUI's thread is at `pc`, in the operation `op`; the driver's thread is at
`cycle`. An operation is a chain of steps with names (`Goto(from, to)`), each of
them what lies between two things the other thread can see: taking or giving back a
mutex, or a test or store of `m_audioEngineState`, `m_pSong` or `m_pAudioDriver`
that the code makes without one. `stopAudioDrivers()`, for instance, lowers the state
before it locks (`Halt`), disconnects under the lock (`Disconnect`,
`Disconnected`), and lets the driver go under both (`Release`); restart, export and
destruction go through the same steps and part again at `AfterStop`.

* A disconnect ends when no cycle runs (`CycleOver`): `jack_deactivate()` does not
  return before, as `JackClient.cpp:240` says too, and `DiskWriterDriver` waits for
  its thread. The cycle may in turn wait for the mutex the GUI holds: these are the
  states `Stuck` names.
* `Fails` says whether JACK may refuse to connect the ports, after which
  `startAudioDrivers()` replaces the driver it has just activated.
* The export dialog is modal: while the disk writer is there, only it can be used
  (`Calls`). Everything else the GUI offers may come at any time, in any order.
* The state of the transport (`rolling`) is moved by the GUI and by MIDI messages.
  Its position is `Transport`'s business.

Left out: the note entry points, the peak meters, and the instrument list, which is in `Kit`.

### Transport

The audio thread takes the position (`Begin`: `get_position()` and the sequencer's
`ceil(TICK)`), goes from tick to tick over the frames of the cycle (`Emit`), and moves the
transport on (`Advance`: `processed_frames()`). Between any two of these steps the GUI
starts, stops or relocates the transport or changes the tempo; the transport's mutex
protects each call and not the cycle.

* Time is counted in units, `U` to a frame, in which the length of a tick is a whole
  number: the model has the rounding of the code (to the nearest frame) and not that
  of its doubles.
* `Gap` and `Following` are `operator++` of a position on its tick; `Normal` is
  `normalize()`, whose loops are a division here. `tick` is `tick_in_bar()`, beat and
  tick in one; a beat is one tick, and a bar a whole number of beats, as it is for every
  pattern length the GUI offers.
* Ticks may lie exactly half a frame off, as those of 64, 128 and 192 bpm at 48 kHz do. There the code
  is not of one mind: `ceil()` takes an offset for snapped when it is less than half
  a frame, `operator+=` when it is at most that. A tick half a frame before the end of a cycle, or half a frame behind
  the beginning of the next, is left to that next cycle, which passes over it (`PassedOver`). `Regular` says that these ticks are
  skipped and no others: `Begin` moves `due` on for them alone.
* `CyclesAssumption` says that a cycle and a tick are shorter than a bar, so that a cycle sees at
  most one end of a bar.
* The frame counter and `bar_start_tick` are left out: the sequencer uses differences of
  frames, and nobody reads `bar_start_tick`.
* `Rewind` is `locate(0)`; no other frame is ever asked for. It does not set
  `beats_per_bar`, which the ghost variable `rewound` records.
* `due` is a ghost variable: the tick that must sound next. It is given up (`None`) in two cases
  where the code loses ticks: the transport was moved, started or stopped during a cycle
  (`torn`), so that the frames of this cycle are added to a position the cycle was not played
  from; or the tempo has become so much faster that the next tick already is in the past
  (`Overtaken`).

`JackTransportMaster` (slave to an external transport) is left out: it converts positions and keeps no state.

### Sampler

`voices` is `current_notes`: a function from the place of a note in the order of the list to its
fields, so that dropping a note shortens the domain and leaves the others' names alone. A cycle is
`Begin` (notes beyond the limit are dropped), events in the order of their frames (`NoteOn` and `Push`, `NoteOff`,
`AllOff`), and `Render`, which plays every note, takes the finished ones off the list and counts them off
under `mutex_current_notes`. `handle_note_on()` is two steps, because the count goes up before the
note is on the list, and the GUI reads the count without a lock. Neither `stop_playing_notes()` nor `preview_sample()` takes a lock
for its walk over the list: the GUI counts one note off at a time (`StopAll`, `Walk`, `EndWalk`, and `Clear` for the whole list;
`PreviewSample`, `Erase`, `CountOld` for the last preview, `PreviewOn` and `PreviewPush` for the new one), at any moment of the cycle. `Add` and
`Remove` come with the engine locked, `Kill` without. What the GUI gives `set_max_note_limit()` is read once per cycle, so that it is
a choice of `Begin`.

* `walked` are the notes the GUI has counted off and not yet cleared. `stray` is a ghost variable: by how much the two threads have miscounted
  an instrument. There are three ways, and `Counted` says that there is no fourth: a note that ends after the walk has counted it off is counted off
  twice (`Drop`), a note that begins between the walk and `Clear` never is, and of two counts at the same time one may be lost (`Lost`,
  `queued` being a plain `int`).
* A walk that stands on an element the other thread erases has undefined behaviour; the model goes on with the next element of the list
  as it then is. The assertion of `dequeue()` (`queued > 0`) is not a step either: counts go below zero in the model, and `stray` is then negative.
* `Render` gives the net effect of the loop over the frames of a cycle: how far the sample has played
  (`Avail`), how many frames of release the envelope has gone through (`Ticks`), and whether the note is
  over (`Over`). The level of a note is not modelled, only whether its envelope has been released and has run
  out. `NeverHeard` is the case of a note whose release is asked for at its first frame:
  `ADSR::release()` then returns the initial level, 0, and the note is over.
* `late` is the effect of `GuiInputQueue::process()`: a note that was played by hand and is to be quantised
  is put off to a tick that may lie in a later cycle, and begins there whatever has become of its
  instrument.
* `age` and `asked` are ghost variables of a note: the frames since it was due, and since the
  cycle began in which something first asked for its release.
* Samples are rendered at their own rate (`render_note_resample()` is left out), an instrument has one
  layer, and `Remove` leaves the last instrument, as the code does.
* Adding an instrument is guarded by `Unknown`: a new instrument is a new object.

### Logger

`m_msg_queue` is a `std::list` that `log()` appends to under a mutex and that the worker walks, and erases
from the front, partly without it; `LoggerPrivate.hpp:54-70` argues why that may be done. The model checks the
argument: a list is its nodes with their `next` and `prev`, `End` its own node, and each write to a word that the
other side can see is a step (`Link` and `Tie` of `push_back()`, `Unhook` and `Free` of `erase()`). The worker prints what it finds
up to the last message and takes it off (`UntilLast`), and takes the last one off with the mutex
(`Enter`, `PopFront`). `Shutdown`, `Quit` and `Delete` are the end of the logger in the order of its destructor;
a thread begins no message once the logger is being deleted (what `log()` does through the pointer to an instance that is gone
is in section 4).

### Serializer

The queue of requests, by the words of its nodes as in `Logger`, but without a mutex. A request goes to the bundle of its
caller (`ObjectBundle` of the plugin, an object on the stack of `Song::load()` and its like): `Request`, `Link` and `Tie` are `load_uri()`
or `save_...()`, `Handle` is the reading of the file, whose objects go into the bundle unless there was an error, `Callback` the answer,
and `Step`, `Pop`, `Free` take the request off, after the answer. `Install` is the plugin's pick-up of a kit in its cycle, `Shutdown`, `Quit` and `Delete`
the destructor: a call makes it only when it has its answer (`Polled`), a host deactivates the plugin at any moment.

The plugin may append a request as soon as it has its answer, although the worker is then still at `Step`, `Pop` or `Free` of the one before
(`EngineLv2::_run` installs the kit and may ask for another at once). Two ghost variables name what this does: `met`, that the
two have been at the list at the same time (the plugin between `Request` and `Tie`, the worker between `Callback` and `Free`), and `lost`, that a request was hooked behind a
node that was already off the list, so that it is on no list and the plugin waits for ever. What a
thread has read before it writes is a variable (`tail`, `after`), because it may be stale by then. Nodes are numbered and no number comes twice: that the
allocator may give a freed node's address to the next request is not modelled.

The `save_...()` functions return without a request when they are given a null object. Every caller uses its object before it calls
(`Song.cpp:409-411`, `LocalFileMng.cpp:655`, `SongEditor.cpp:984`, `MainForm.cpp:453`), so the path cannot be reached and is left out.

### Fifo

What the logger promises: messages are taken on, done once each and in the order they were taken on, for as long
as the service is open. `InOrder` of `Logger` is its safety part under a refinement mapping. The serialiser's queue keeps no such promise,
since it may lose a request; and a caller never has more than one to be answered.

### Kit

Instruments are numbered as they are made, ports have the number of the instrument they were allocated for.
`list` with `posmap`, `ports` and `channels` are the three lists that the code finds by index in each other; `settings` are those of a channel. The
loops over them take a step per turn, so that the three can be seen at different lengths. The operations are those of the two hosts: the plugin installs
a kit (`Install`: `Sampler::clear()`, then `add_instrument()` with the settings put into the last channel), the application makes the default song, loads songs
(`LoadSong` clears the list alone), loads kits and removes instruments on the list directly. The latter two set `edited`,
after which the sampler's ports do not fit the list any longer until it is cleared.

### Jack

`client` is a record of `JackClient` with what JACK knows of it (`alive`, `active`, the callback). Each of the
client's operations that makes an operator here (`Opened`, `AudioSet`, `NonAudioSet`, `Cleared`, `Unsubscribed`, `Closed`) follows its
early returns. `Start` to `Replace` are `startAudioDrivers()` with its two ways to fall back on the null driver, `Halt` to `Close` are
`stopAudioDrivers()`; `Call` to `Return` are the callbacks. `Engine` has the locks and the state of the engine in full; `Jack` has of them what decides
how far a cycle gets (`OutputLocked`, `EngineLocked`, `ready`). `Failures` names what may fail. `ServerStops` is the shutdown callback, which
finds the client through the output and is called while there is one.

* Subscribers are a set of addresses (`m_children`), and each start makes a driver at an address of its own (`Addresses`). A MIDI input that got no port does not
  unsubscribe (`JackMidiDriver.cpp:131`): its address stays behind. `Strays` are these addresses, and while there is one no unsubscription closes the client.
* The MIDI input hands the client a null callback: `JackMidiDriver.cpp:85` defines a pointer `jackMidiFallbackProcess` in place of declaring the function
  of `Engine.cpp:1643`, and line 105 passes it. So there is one callback, the engine's; `NonAudioSet` takes it away from a client that has no output, and
  `Cleared`, which has nothing to switch to (`JackClient.cpp:243`), leaves it with JACK after its output is gone. `CallsLive` says that it is not called then.

## 3. Runs

| run | bounds | shows |
| --- | --- | --- |
| `seqscript` | 5 slots, 3 frames, one instrument, lengths 0 and 1, all operations the engine uses, `clear()` as often as one likes, one slot left free by those who insert | whole and sorted list, no slot lost but one for each `clear()` and no abort but by these, every call returns, refinement of `SeqQueue` |
| `eventqueue` | ring of 2, two writers with two events each, 5 events popped | no overtaking before the counter goes back, each event that has its slot to itself is read whole, progress |
| `engine` | two songs and the default one, all operations, connections that may fail | locks in order and given back, GUI and cycle wait for each other nowhere but in `Stuck`, one song per cycle, live buffers and a clean end, operations and cycles that return |
| `engine_export` | the same, one operation | finding 1 |
| `transport` | bars of 3 and 4 ticks, ticks of 2 1/2 and 3 1/4 frames, cycles of 1, 2 and 3 frames | ticks once and in order but for those half a frame off a cycle's beginning, on time, no drift, the length of the bar, every bar comes round |
| `transport_downbeat` | the same | finding 2 |
| `sampler` | two instruments of one mute group and the preview, samples of 3 frames, no release, cycles of 1 and 2 frames with as many events, two notes between silences, no limit or one note, one late note, the GUI at any moment until a note has been miscounted | counts but for the three ways to miscount, start and release in time, mute groups, deletion of silent instruments only, and that they fall silent |
| `logger` | two threads, five messages | no freed node is touched, messages printed once and in order, each of them unless the logger ends, which it can at any moment |
| `serializer` | a call with one request; the plugin with four, each as soon as the one before is answered, deactivated at any moment | no freed request or list is touched but for one word, the bundle has one owner at a time and the right objects, an answer to everybody whose request is not lost; the serialiser can be destroyed |
| `kit` | both hosts, five instruments made for kits and songs of up to three | the mixer has the ports of the sampler; an instrument plays to its own channel with its own settings |
| `jack` | three addresses; the client cannot be opened, ports of the output or the MIDI input not be registered, not be connected, the server stops | JACK calls nothing that is gone, and no port is unregistered twice unless a stray subscriber keeps the client |
| `jack_midi` | two addresses, nothing fails | finding 3 |

The type invariants (`TypeOK`) are not among the invariants of the runs: they are proved for every instance.

Five slots hold a sentinel and up to four events: enough for an insertion at the
head, in the middle and at the end, for equal frames, for a wrapped `m_next_free`
that has to skip slots in use, and for a `consumed()` that drops some, all or none.
A ring of two is lapped by four events, two of them at a time; two writers are enough for a lost increment, for a shared slot and for a counter that
goes back, before the GUI and behind it. Two songs let one be replaced by another and by
itself; an operation of the engine keeps nothing but the song, so that a third would not add
a behaviour. The tempos of `transport` do not divide a frame, a cycle or each other, so every
offset within the range occurs, both half frames among them; a cycle holds no tick, one or two, and ends bars in its middle and at
its end.

A sample of three frames is played over up to three cycles, and cut short by them in every way; two
instruments are enough for a mute group and for one to be removed while the other plays; two notes
let the limit drop one, and the GUI's walk be between them when a cycle begins or ends either. The walk goes on only while
nothing has been miscounted (`MaxStray = 0`), so that the run shows each way to miscount and what follows from it, but no second one on top;
the theorems have no such bound.

Two threads with five messages let the worker find an empty list, one message and several, and let both threads
append while it is anywhere in its walk. Four requests let the plugin's bundle go round more than once, with an error left behind by one
request and objects by the next, and the plugin meet the worker at the list at each of its three steps, once and again. With five instruments a kit of three can replace another one or be replaced, grow and shrink. `Jack` has no bound but the addresses, of which a stray subscriber,
an output and an input need three.

Fairness: `SeqScript` assumes that an operation that has begun goes on (it holds
the mutex and does not block); nobody is assumed to call one. `EventQueue` assumes
the same of a writer in the middle of a push, and that the GUI's timer keeps
firing. `Engine` assumes strong fairness of each thread in the middle of what it does: it waits for
mutexes that are free again and again between the cycles, which the scheduler will at some time
find free; nobody has to use the engine. `Transport` assumes that the driver keeps calling
`process`, and so does `Sampler` (`Goes`), which also assumes that the GUI ends what it has begun (`GuiEnds`); weak fairness is enough, as
neither waits for the other there.
`Logger` assumes that a thread that has begun to append goes on, that the worker does, and that the program ends what it
has begun to end; nobody has to log, and weak fairness is enough because messages are finite in number. `Serializer` assumes
the same of the caller and of the worker; nobody has to make a request or to end. `Kit` and `Jack` state safety only: the hosts
may do nothing for ever. `CHECK_DEADLOCK FALSE` is set where callers may stop: a GUI that does nothing is no
deadlock, and in `Engine` `GuiReturns` and `CyclesEnd` say which waits end. `Jack` may stop at the assertion of
`JackClient.cpp:221`, as the program does.

## 4. Findings

1. `engine_export`: the export stops the drivers, which leaves the engine not ready, and nothing is
   rendered or ever ends.
2. `transport_downbeat`: a bar that begins within a cycle is played from the pattern group of the bar before
   until the cycle ends.
3. `jack_midi`: `stopAudioDrivers()` deletes the MIDI input before it waits for the cycle; one that has tested the state already reads
   the ports of a driver that is gone.

The following were seen while modelling. Where the model shows one of them, the case is part of a passing run, and the property that
speaks of it names it as its exception, or it is the value of a constant that no run has.

In the script: once it has been full, `m_next_free` stays on a slot in use, the next
insertion links a slot to itself, and the audio thread loops for ever (in the model with `Spare = 0`: `EveryCallReturns` fails), and each `clear()` leaks a slot of
`m_free`, whose `assert` fails in the call that comes when all are gone (in the model; the exception of `AllocationSound`). `remove()` looks for the
predecessor among dead slots. `insert_note()` cancels no note-off, though `SeqScript.hpp:140-142` says that it will
"cancel any note-off events currently between the two" (the case needs two overlapping notes
of an instrument).

In the event queue: the counter is published before the slot is filled, and the GUI may take an old event for the new one, which it then never
gets (`EventQueue.cpp:45`); of two threads that push at the same time, one event may replace or mix with the other (`spoiled`), and the counter may go back,
after which the GUI overtakes it and receives the old contents of the ring until the counters wrap (`back`).

In the engine: `stopAudioDrivers()` waits for the cycle in progress with the mutex that cycle may
be waiting for, and a failed connection makes `startAudioDrivers()` destroy the driver with the output
mutex held while a cycle may wait for it (in the model: the two states of `Stuck`, which the liveness
properties except). The default song of the constructor is not given to the transport (`Engine.cpp:210`), so playing before the first
`setSong()` dereferences null. After an export the transport is left rolling. `setSong()` during an export would loop for ever (`Engine.cpp:956`); the
dialog prevents it.

In the transport: the bar before the first one is bar 0; when the transport rolls there, the
sequencer's `vector::at()` throws (`SimpleTransportMaster.cpp:90`, in the model with a bar of 0 in `Seeks`, which the header, "1, 2, 3...", and the theorems
exclude). A tick exactly half a frame from the beginning of a cycle is not played (`TransportPosition.cpp:361` tests `<.5` where `operator+=` tests `<=.5`; in the model,
`PassedOver`). A tempo made abruptly faster skips a
tick. A bar of less than a beat has no beats, and `normalize()` would not end (`TransportPosition.cpp:219`); the GUI offers no such
pattern. `bar_for_absolute_tick()` returns the number of bars plus one behind the end of the song, where its
comment promises -1.

In the sampler: `stop_playing_notes()` counts the notes off before it locks and clears the list; a cycle
that ends one of them in between counts it off again, contrary to the assertion in `dequeue()`, and a note that begins in between is never counted off, so that
its instrument stays on the death row for ever, and all behind it (in the model; the exceptions of `Counted`, `DeletedSilent` and `FallsSilent`). Two note-offs of an
instrument in one cycle leave the offset of the last, so the
release is late; a release offset that is behind the end of every later, shorter cycle is never told to the
envelope again, which then releases but ends no note before its sample does; `Sampler::note_off()` is private and
begins a note. A quantised note may begin on an instrument that has been removed and
deleted since, though `Engine.cpp:1357-1361` says that there is "no way" to play on it (the note's
pointer keeps the object alive). `per_instrument_outs` makes a loop over `MAX_INSTRUMENTS` ports, however many there are (`Sampler.cpp:150-153`).

In the logger: the constructor declares a local `m_logfile` that hides the member (`Logger.cpp:63`), so that the log file is never
written; messages that wait when the logger ends are lost (why `GetsPrinted` excepts the end); `log()` dereferences the instance after its
destruction.

In the serialiser: a request the plugin appends while the worker takes the one before off the
list may be hooked behind a node that is already off it or freed (`Serialization.cpp:171` and 253), and is lost: the caller is then never called
back, contrary to `Serialization.hpp:66-67` (in the model; the exceptions of `NoDangling` and `Answered`). `overwrite` is ignored; an error of `handle_load_tritium()` is overwritten by
`handle_callback(error = false)` (1223-1227); a failed save still calls `set_filename()` (658); `handle_load_song()` tests
`patternList_node` twice (972); the `save_...()` functions would silently do nothing without an object, and leave their caller polling
for ever, but no caller is without one; a program change that comes while the plugin is loading is dropped; two cases of `LocalFileMng.cpp:615-624` fall through.

In the kit: `InstrumentList::del()` and `clear()` leave `m_posmap` as it is, so that `get_pos()` returns stale
positions for instruments that moved or went, contrary to its comment (`InstrumentList.cpp:64`), and their notes play to whatever port is there;
`loadDrumkit()` and `removeInstrument()` work on the list directly (`Engine.cpp:1264`, and so does `MainForm.cpp:653`), contrary to `Sampler.cpp:617-620`: the port at
that position may not exist, or be another instrument's (why `OwnChannel` stops at `edited`). `Song::load()` clears the list of the instruments while the old song plays, and leaves
its ports to accumulate. `channel_for_port()` uses an index it has not initialised (`MixerImpl.cpp:282`), and `delete_port()` looks a port up before it locks
(275-276).

In the JACK drivers: without a server at the first start the program aborts at `JackClient.cpp:221` (in the model: `aborted`).
After a failed connection the client is not activated again, so that MIDI is dead until the next restart;
without an output there is no callback that could serve the MIDI input, since the one it hands over is null (`JackMidiDriver.cpp:85` defines a
pointer of the name of the function in `Engine.cpp:1643`). A MIDI input whose port could not be
registered never unsubscribes (`JackMidiDriver.cpp:131`), the client then outlives the output, and the ports are unregistered twice (in the model; the exception of
`PortsOnce`). `jack_on_shutdown()` keeps the address of a member of the `JackOutput`, which goes before the client does.
`JackClient::close()` returns an uninitialised value when there is nothing to close (171-175); `getTrackOut()` is off by one (`JackOutput.cpp:212`).

## 5. Proofs

`SeqScriptProofs` proves, for every number of slots, every frame range and every
choice of operations, when those who insert leave a slot free (`Spare >= 1`) and whatever number of times they clear, that `TypeOK`, `ListIntact`, `Sorted` and
`AllocationSound` hold for ever. The list is described by the sequence of slots in it
(`Listed`, a witness of the invariant), so that each link and unlink is an insertion or a removal in
a sequence. `Counting` adds that `m_free` is the number of slots that are free less what `clear()` has cost (`FreeCounts`), by which the
search for one in `alloc()` finds one, and the script is empty when the assertion fails.

`Refinement`: every step is a step of `SeqQueue` or a stutter (`ImplementsQueue`). That `Follow`, a recursive function, finds the
sequence of `Listed` is shown with the least number at which it would not, in place of an induction; then there is one lemma
for each operation, about what it does to the sequence of slots and so to the sequence of events.

`LoopsEnd`: what an operation has left to do (`Work`) is a natural number of at most `4*N+5`, and every step of a loop
makes it smaller. This is the part of `EveryCallReturns` that does not speak of fairness: no loop of the script goes round for
ever. That a step can be taken as long as there is one left stays with TLC.

`CallbackProofs` is about the two components in which a callback of another thread meets the engine's data: the GUI's timer and JACK's cycle.
Of `EventQueue` it proves, for any number of writers and any ring, `TypeOK`, `NeverAhead` and `Genuine`. The inductive part says who has which slot: an event in whose slot another is
still being stored is spoiled (`Sharing`), and a settled field of an event is in its slot (`Stored`). Of `Jack` it
proves `JackTypeOK`, `CallsLive` and `PortsOnce` for everything that may fail and any set of addresses. The invariant (`JackInv`, stated in `Jack`) says, for each step of start and stop, what the client, the output and the MIDI
input are like at it, and which callback JACK has when there is no output.

`EngineProofs` proves all safety properties of the run `engine`, for every set of songs and
operations and for connections that fail or do not. The invariant `IInv` is stated in `Engine` itself: which
steps hold which mutex (`LocksHeld`), in which steps the state is what (`StateFits`), what
each operation has done to songs and driver when it is at a step (`SongsFit`, `DriverFits`), and
that nothing runs between the wait for the last cycle and the next activation (`Quiet`). `NoOtherEmbrace`, a part of `LocksSound`, says that
GUI and cycle wait for each other in no state but `Stuck`; who waits is said with the guards of the steps
(`GuiWaits`, `CycleWaits`), not with `ENABLED`.

`TransportProofs` proves, for every unit, every set of tempos, every song and every set of cycle
lengths, `Regular`, `OnTime`, `NoDrift`, `BarLength` and `TypeOK`, when the GUI asks for bars of the song
only (`Seeks \subseteq DOMAIN Bars`; without it bar 0 is a counterexample), ticks half a frame off included. The invariant says that the
sequencer's position, reckoned in exact time from where the cycle began, is `Steps` ticks on (`Walk`), and that the tick
that is due is the first one a cycle beginning now would play (`Ordered`). What is hard is
`Resumes`: the tick at which one cycle stopped is the tick at which the next one begins, which needs that both
divisions by the length of a tick round the same way. The lemmas before it are the arithmetic of
`normalize()`: products and quotients are bounded one by one, as the solver does no nonlinear arithmetic.

`SamplerProofs` proves `TypeOK`, `OnTime` and `ReleaseAsked` for every kit, sample, envelope, limit, set of cycle lengths
and whatever the GUI does at whatever moment (`IInv`), and `Counted`, `Exclusive` (with `GroupInv`) and `DeletedSilent` likewise,
with the exceptions that these properties name. The invariant is reduced to one note at a time: what holds of a note in a
cycle of so many frames (`Fits`), and what each step does to the notes it finds. `Counted` is inductive, and about
cardinalities: a step adds one note to one instrument, or takes a set of notes away and the same number
from each count. `DeletedSilent` then follows although the GUI looks at the count during a cycle, because the
count goes up before, and down after, the note is on the list.

`LoggerProofs` proves, for any threads and number of messages, `TypeOK`, `NoDangling` and that every step is a step of the FIFO or a stutter
(`InOrder`). The invariant describes the list as an interval of messages, those not yet taken off (`Front`) up to those linked, with the exceptions
while somebody is at `Tie`, `Unhook` or `Free`; that the worker stops before the last node without the mutex keeps the two ends apart.

`SerializerProofs` proves `TypeOK`, `NoDangling` and `Owned` for any number of requests, made as soon as the one before is answered. At most two requests
have a node at a time, the one that is being taken off and the one that is being appended. The invariant says what the nodes from `End` on are (`Chain`), which are
allocated (`Allocated`), what the last node read may be (`Last`), and where the worker can be when the bundle is in its hands (`Places`, `Told`).

`KitProofs` proves `TypeOK`, `Parallel` and `OwnChannel` for every number of instruments and size of kits and for either host. The invariant says which
ports the mixer still has at each turn of the loops: the release removes the first channel each time, because the numbers of ports
increase (`Ordered`).

Stay with TLC: the liveness properties (`EveryCallReturns`, `CatchesUp`, `GuiReturns`, `CyclesEnd`,
`Plays`, `FallsSilent`, `GetsPrinted`, `Answered`, `Ends`), because they rest on fairness and so on `ENABLED`, which the
prover does not know; of `EveryCallReturns` only the variant is proved. For the others a variant like `Work` would be the next step,
for the worker of `Logger` (messages not yet printed, then those to be taken off) and that of `Serializer` first.

## 6. Not modelled

* Pattern mode (`PatternModeManager`, `PatternModeList`): the test in `PatternModeList::add()` is inverted (`Song.cpp:710`), so that its lists stay empty,
  `go_to_next_patterns()` would lock a mutex it holds (872), and the sequencer does not use any of it (`SongSequencer.cpp:54`). There is no behaviour to check.
* `JackTransportMaster`, `JackTimeMaster`: conversions of positions in real numbers, without a state of their own.
* `BeatCounter` and tap tempo: averages of real numbers in one thread.
* `SeqScript::remove()`, `Sampler::remove_instrument()`, `InstrumentList::replace()`, `RingBuffer`: nothing calls them.
* The note entry points of the engine, the peak meters, the list of `GuiInputQueue`: stores of single values, or a list under a mutex.
* File formats (XML, SMF, FLAC, presets, sound library, local files): conversions of data without a state of their own; what they yield
  is an error or objects in `Serializer`.
* Hosting of LADSPA plug-ins, the mixing itself, layers and resampling: the content of audio, not the control.
* The widgets of the GUI; its calls are the operations of the modules.

An extension worth its while would be the composition of `Engine` and `Jack` into one model, in which the locks that keep a cycle waiting are
those of `Engine` instead of `EngineLocked` and `OutputLocked`, and of `Kit` and `Sampler`, for the notes of instruments that have lost their port.
