-------------------------------- MODULE Engine --------------------------------
(***************************************************************************)
(* The life cycle of the engine (EnginePrivate): songs come and go, the    *)
(* drivers are started and stopped, a song is exported, a drum kit loaded, *)
(* all from the GUI's thread (pc), while the driver's thread runs one      *)
(* process cycle after the other (cycle).  A step lies between two         *)
(* accesses the other thread can see: a lock, an unlock, a test or a store *)
(* made without the lock; what is done in one critical section is a step.  *)
(***************************************************************************)
EXTENDS Naturals

CONSTANTS
  Songs,     \* the songs the GUI may open
  Default,   \* the song the constructor makes
  NoSong,    \* a null pointer
  Ops,       \* the operations the GUI uses
  Fails      \* whether JACK may refuse to connect the ports

ASSUME SongsAssumption == Default \notin Songs /\ NoSong \notin Songs \cup {Default}
ASSUME FailsAssumption == Fails \in BOOLEAN

VARIABLES
  state,                \* m_audioEngineState
  song, xsong, qsong,   \* the song of the engine, the transport, the sequencer
  rolling,              \* the state of the transport
  driver, ports,        \* m_pAudioDriver; its output ports exist
  main,                 \* the driver m_pMainBuffer_L and _R belong to
  active,               \* the driver's thread calls process
  mutex, output,        \* who holds __engine_mutex and mutex_OutputPointer
  pc, op, new, saved,   \* the GUI: its next step, its operation and the locals
  cycle                 \* the driver's thread: its next step

songs   == <<song, xsong, qsong>>
drivers == <<driver, ports, main, active>>
locks   == <<mutex, output>>
gui     == <<op, new, saved>>
vars    == <<state, songs, rolling, drivers, locks, pc, gui, cycle>>

(* audioEngine_init() is done and the constructor goes on to start the     *)
(* drivers.  The default song is the engine's only.                        *)
Init ==
  /\ state = "Initialized"
  /\ song = Default /\ xsong = NoSong /\ qsong = NoSong
  /\ rolling = FALSE
  /\ driver = "none" /\ ports = FALSE /\ main = "none" /\ active = FALSE
  /\ mutex = "free" /\ output = "free"
  /\ pc = "start" /\ op = "construct" /\ new = NoSong /\ saved = "Initialized"
  /\ cycle = "idle"

-----------------------------------------------------------------------------
(* The GUI's thread.  An operation is a chain of steps; from and to name    *)
(* the step taken and the one that follows.                                *)

Goto(from, to) == pc = from /\ pc' = to

(* The GUI begins an operation.  The dialog that exports a song is modal:   *)
(* while the disk writer is there, only it can be used.                    *)
Calls(f, first) == Goto("idle", first) /\ f \in Ops /\ op' = f /\ driver # "disk"

LockAnyway(from, to) ==                         \* mutant: tryLock(), not tested
  /\ Goto(from, to) /\ mutex' = "gui"
  /\ UNCHANGED <<state, songs, rolling, drivers, output, gui, cycle>>

LockEngine(from, to) ==
  /\ Goto(from, to) /\ mutex = "free" /\ mutex' = "gui"
  /\ UNCHANGED <<state, songs, rolling, drivers, output, gui, cycle>>

KeepsEngine(from, to) ==                        \* mutant: loadDrumkit() keeps the lock
  /\ Goto(from, to) /\ (from # "layer" => mutex' = "free") /\ (from = "layer" => UNCHANGED mutex)
  /\ UNCHANGED <<state, songs, rolling, drivers, output, gui, cycle>>

UnlockEngine(from, to) ==
  /\ Goto(from, to) /\ mutex' = "free"
  /\ UNCHANGED <<state, songs, rolling, drivers, output, gui, cycle>>

LockOutput(from, to) ==
  /\ Goto(from, to) /\ output = "free" /\ output' = "gui"
  /\ UNCHANGED <<state, songs, rolling, drivers, mutex, gui, cycle>>

UnlockOutput(from, to) ==
  /\ Goto(from, to) /\ output' = "free"
  /\ UNCHANGED <<state, songs, rolling, drivers, mutex, gui, cycle>>

(* removeSong(): nothing but the stop when the engine is not ready.         *)
RollsOn    == UNCHANGED rolling                 \* mutant: the transport is not stopped
Stops      == rolling' = FALSE
LeavesSong == FALSE                             \* mutant: the test fails
HasSong    == state = "Ready"

Drop ==
  /\ Goto("drop", "dropped")
  /\ Stops
  /\ IF HasSong
     THEN song' = NoSong /\ xsong' = NoSong /\ qsong' = NoSong /\ state' = "Prepared"
     ELSE UNCHANGED <<songs, state>>
  /\ UNCHANGED <<drivers, locks, gui, cycle>>

RemoveSong ==
  \/ LockEngine("remove", "drop")
  \/ Drop
  \/ UnlockEngine("dropped", IF op = "quit" THEN "halt" ELSE "empty")

(* setSong(): remove until no song is left, whatever it takes, then install *)
(* the new one.  The test of m_pSong is made without the lock.             *)
SetSongCalled ==
  /\ Calls("setSong", "empty")
  /\ new' \in Songs
  /\ UNCHANGED <<state, songs, rolling, drivers, locks, saved, cycle>>

Empty ==
  /\ Goto("empty", IF song = NoSong THEN "set" ELSE "remove")
  /\ UNCHANGED <<state, songs, rolling, drivers, locks, gui, cycle>>

Install ==
  /\ Goto("install", "installed")
  /\ song' = new /\ xsong' = new /\ qsong' = new
  /\ state' = "Ready" /\ rolling' = FALSE
  /\ UNCHANGED <<drivers, locks, gui, cycle>>

SetSong ==
  \/ SetSongCalled
  \/ Empty
  \/ LockEngine("set", "install")
  \/ Install
  \/ UnlockEngine("installed", "idle")

(* sequencer_play() and sequencer_stop() move the transport, unguarded.     *)
Play ==
  /\ Calls("play", "idle")
  /\ rolling' \in BOOLEAN
  /\ UNCHANGED <<state, songs, drivers, locks, new, saved, cycle>>

(* loadDrumkit(): the state is lowered without the lock, the layers are     *)
(* replaced under it (one, here), and the old state comes back.            *)
LoadDrumkit ==
  \/ /\ Calls("loadDrumkit", "kit")
     /\ saved' = state
     /\ state' = IF state = "Ready" THEN "Prepared" ELSE state
     /\ UNCHANGED <<songs, rolling, drivers, locks, new, cycle>>
  \/ LockEngine("kit", "layer")
  \/ UnlockEngine("layer", "resume")
  \/ /\ Goto("resume", "idle")
     /\ state' = saved
     /\ UNCHANGED <<songs, rolling, drivers, locks, gui, cycle>>

-----------------------------------------------------------------------------
(* startAudioDrivers(): a driver that cannot be created or connected is    *)
(* replaced by the null driver.                                            *)

Create ==
  /\ IF state = "Initialized"
     THEN /\ Goto("create", "created")
          /\ driver' \in {"jack", "null"}
          /\ ports' = (driver' = "jack")
          /\ state' = IF song = NoSong THEN "Prepared" ELSE "Ready"
          /\ UNCHANGED locks
     ELSE /\ Goto("create", "idle")
          /\ mutex' = "free" /\ output' = "free"
          /\ UNCHANGED <<driver, ports, state>>
  /\ UNCHANGED <<songs, rolling, main, active, gui, cycle>>

(* jack_activate(): the cycles begin.                                       *)
Activate ==
  /\ Goto("activate", "connect")
  /\ active' = (driver = "jack")
  /\ UNCHANGED <<state, songs, rolling, driver, ports, main, locks, gui, cycle>>

Connect ==
  /\ \/ Goto("connect", "buffers")
     \/ Fails /\ driver = "jack" /\ Goto("connect", "replace")
  /\ UNCHANGED <<state, songs, rolling, drivers, locks, gui, cycle>>

(* The JackOutput is replaced; its destructor deactivates the client, waits *)
(* for the cycle and takes the ports away.                                 *)
Swap ==
  /\ Goto("swap", "swapping")
  /\ driver' = "null" /\ active' = FALSE
  /\ UNCHANGED <<state, songs, rolling, ports, main, locks, gui, cycle>>

(* jack_deactivate() and QThread::wait() return when no cycle runs.         *)
WaitsNot  == TRUE                               \* mutant: does not wait
CycleOver == cycle = "idle"

Swapped ==
  /\ Goto("swapping", "swapped") /\ CycleOver
  /\ ports' = FALSE
  /\ UNCHANGED <<state, songs, rolling, driver, main, active, locks, gui, cycle>>

Buffers ==
  /\ Goto("buffers", "idle")
  /\ main' = driver
  /\ UNCHANGED <<state, songs, rolling, driver, ports, active, locks, gui, cycle>>

StartAudioDrivers ==
  \/ LockEngine("start", "startOut")
  \/ LockOutput("startOut", "create")
  \/ Create
  \/ UnlockOutput("created", "started")
  \/ UnlockEngine("started", "activate")
  \/ Activate
  \/ Connect
  \/ LockOutput("replace", "swap")
  \/ Swap
  \/ Swapped
  \/ UnlockOutput("swapped", "buffers")
  \/ Buffers

(* stopAudioDrivers(): the state is lowered before the lock is taken, and   *)
(* the driver is disconnected under it.                                    *)
AfterStop ==
  CASE op = "restart" -> "start"
    [] op = "export"  -> "write"
    [] op = "quit"    -> "destroy"

LowerNot == UNCHANGED state                     \* mutant: the state stays
Lower    == state' = "Initialized"

Halt ==
  /\ IF state \in {"Prepared", "Ready"}
     THEN Goto("halt", "stop") /\ Lower
     ELSE Goto("halt", AfterStop) /\ UNCHANGED state
  /\ rolling' = FALSE
  /\ UNCHANGED <<songs, drivers, locks, gui, cycle>>

Disconnect ==
  /\ Goto("disconnect", "disconnecting")
  /\ active' = FALSE
  /\ UNCHANGED <<state, songs, rolling, driver, ports, main, locks, gui, cycle>>

Disconnected ==
  /\ Goto("disconnecting", "reset") /\ CycleOver
  /\ ports' = FALSE
  /\ UNCHANGED <<state, songs, rolling, driver, main, active, locks, gui, cycle>>

Release ==
  /\ Goto("release", "released")
  /\ driver' = "none"
  /\ UNCHANGED <<state, songs, rolling, ports, main, active, locks, gui, cycle>>

StopAudioDrivers ==
  \/ Halt
  \/ LockEngine("stop", "disconnect")
  \/ Disconnect
  \/ Disconnected
  \/ LockOutput("reset", "release")
  \/ Release
  \/ UnlockOutput("released", "stopped")
  \/ UnlockEngine("stopped", AfterStop)

(* restartDrivers(), from the preferences.                                  *)
Restart ==
  /\ Calls("restart", "halt")
  /\ UNCHANGED <<state, songs, rolling, drivers, locks, new, saved, cycle>>

-----------------------------------------------------------------------------
(* startExportSong(): the disk writer takes the place of the driver, and   *)
(* its thread calls process until it is told to stop.                      *)

Export ==
  /\ Calls("export", "halt") /\ song # NoSong
  /\ rolling' = FALSE
  /\ UNCHANGED <<state, songs, drivers, locks, new, saved, cycle>>

Write ==
  /\ Goto("write", "run")
  /\ driver' = "disk" /\ main' = "disk"
  /\ UNCHANGED <<state, songs, rolling, ports, active, locks, gui, cycle>>

(* DiskWriterDriver::connect() starts the thread, and the thread starts the *)
(* transport and goes round its loop.                                      *)
Run ==
  /\ Goto("run", "idle")
  /\ active' = TRUE /\ cycle' = "begin"
  /\ UNCHANGED <<state, songs, rolling, driver, ports, main, locks, gui>>

(* stopExportSong(): the thread ends after its cycle, and the drivers start *)
(* again.                                                                  *)
StopExport ==
  /\ Goto("idle", "aborting") /\ driver = "disk"
  /\ op' = "stopExport" /\ active' = FALSE
  /\ UNCHANGED <<state, songs, rolling, driver, ports, main, locks, new, saved, cycle>>

Aborted ==
  /\ Goto("aborting", "start") /\ CycleOver
  /\ state' = "Initialized" /\ driver' = "none" /\ main' = "none"
  /\ UNCHANGED <<songs, rolling, ports, active, locks, gui, cycle>>

ExportSong == Export \/ Write \/ Run \/ StopExport \/ Aborted

(* ~Engine() and ~EnginePrivate(): the song is removed, the drivers stop,   *)
(* audioEngine_destroy().  A second removeSong() finds nothing to do.      *)
QuitCalled ==
  /\ Calls("quit", "remove")
  /\ rolling' = FALSE
  /\ UNCHANGED <<state, songs, drivers, locks, new, saved, cycle>>

Clean ==
  /\ Goto("clean", "cleaned")
  /\ state' = IF state = "Initialized" THEN "Uninitialized" ELSE state
  /\ UNCHANGED <<songs, rolling, drivers, locks, gui, cycle>>

Quit ==
  \/ QuitCalled
  \/ LockEngine("destroy", "clean")
  \/ Clean
  \/ UnlockEngine("cleaned", "gone")

Gui == RemoveSong \/ SetSong \/ Play \/ LoadDrumkit \/ StartAudioDrivers
         \/ StopAudioDrivers \/ Restart \/ ExportSong \/ Quit

-----------------------------------------------------------------------------
(* audioEngine_process(), once per cycle of the driver.                     *)

Step(from, to) == cycle = from /\ cycle' = to

Begin ==                                        \* of DiskWriterDriverThread::run()
  /\ Step("begin", "idle")
  /\ rolling' = TRUE
  /\ UNCHANGED <<state, songs, drivers, locks, pc, gui>>

Called ==
  /\ Step("idle", "clear") /\ active
  /\ UNCHANGED <<state, songs, rolling, drivers, locks, pc, gui>>

(* The buffers of the driver there is, under mutex_OutputPointer.           *)
Clear ==
  /\ Step("clear", "cleared") /\ output = "free"
  /\ output' = "cycle" /\ main' = driver
  /\ UNCHANGED <<state, songs, rolling, driver, ports, active, mutex, pc, gui>>

Keeps  == UNCHANGED output                      \* mutant: the lock is kept
Yields == output' = "free"

Cleared ==
  /\ Step("cleared", "test") /\ Yields
  /\ UNCHANGED <<state, songs, rolling, drivers, mutex, pc, gui>>

ReadyAlways == TRUE                             \* mutant: no test
Ready       == state = "Ready"

Test ==
  /\ Step("test", IF Ready THEN "midi" ELSE "idle")
  /\ UNCHANGED <<state, songs, rolling, drivers, locks, pc, gui>>

(* The MIDI messages of the cycle start and stop the transport, or do not.  *)
Midi ==
  /\ Step("midi", "lock")
  /\ rolling' \in BOOLEAN
  /\ UNCHANGED <<state, songs, drivers, locks, pc, gui>>

Lock ==
  /\ Step("lock", "retest") /\ mutex = "free"
  /\ mutex' = "cycle"
  /\ UNCHANGED <<state, songs, rolling, drivers, output, pc, gui>>

Retest ==
  /\ Step("retest", IF Ready THEN "render" ELSE "giveup")
  /\ UNCHANGED <<state, songs, rolling, drivers, locks, pc, gui>>

UnlockRendered ==                               \* mutant: the early return keeps the lock
  /\ \/ Step("render", "advance") /\ mutex' = "free"
     \/ Step("giveup", "idle") /\ UNCHANGED mutex
  /\ UNCHANGED <<state, songs, rolling, drivers, output, pc, gui>>

Unlock ==
  /\ \/ Step("render", "advance")
     \/ Step("giveup", "idle")
  /\ mutex' = "free"
  /\ UNCHANGED <<state, songs, rolling, drivers, output, pc, gui>>

(* processed_frames() and consumed(), after the lock is given back.         *)
Advance ==
  /\ Step("advance", "idle")
  /\ UNCHANGED <<state, songs, rolling, drivers, locks, pc, gui>>

Process == Begin \/ Called \/ Clear \/ Cleared \/ Test \/ Midi \/ Lock \/ Retest \/ Unlock \/ Advance

Next == Gui \/ Process
Spec == Init /\ [][Next]_vars

(* A thread goes on with what it has begun, and gets a mutex that is free   *)
(* again and again: the cycles leave the engine alone most of the time.    *)
(* The driver goes on calling process.  Nobody has to use the engine.       *)
FairSpec == Spec /\ SF_vars(Gui /\ pc # "idle") /\ SF_vars(Process)

-----------------------------------------------------------------------------
GuiSteps == {"start", "startOut", "create", "created", "started", "activate", "connect",
             "replace", "swap", "swapping", "swapped", "buffers", "remove", "drop",
             "dropped", "empty", "set", "install", "installed", "kit", "layer", "resume",
             "halt", "stop", "disconnect", "disconnecting", "reset", "release", "released",
             "stopped", "write", "run", "aborting", "destroy", "clean", "cleaned",
             "idle", "gone"}
CycleSteps == {"idle", "begin", "clear", "cleared", "test", "midi", "lock", "retest",
               "render", "giveup", "advance"}
States == {"Uninitialized", "Initialized", "Prepared", "Ready"}

TypeOK ==
  /\ state \in States /\ saved \in States
  /\ {song, xsong, qsong, new} \subseteq Songs \cup {Default, NoSong}
  /\ rolling \in BOOLEAN /\ ports \in BOOLEAN /\ active \in BOOLEAN
  /\ {driver, main} \subseteq {"none", "null", "jack", "disk"}
  /\ mutex \in {"free", "gui", "cycle"} /\ output \in {"free", "gui", "cycle"}
  /\ pc \in GuiSteps /\ cycle \in CycleSteps
  /\ op \in {"construct", "setSong", "play", "loadDrumkit", "restart", "export",
             "stopExport", "quit"}

(* Nobody waits for the engine's mutex while it holds the one of the output *)
(* pointer (EnginePrivate.hpp:253).                                         *)
LockOrder ==
  /\ output = "gui" => pc \notin {"remove", "set", "kit", "start", "stop", "destroy"}
  /\ output = "cycle" => cycle # "lock"

(* A thread that is not in the engine holds none of its mutexes, whichever  *)
(* way out the operation took.                                             *)
NoLockLeft ==
  /\ pc \in {"idle", "gone"} => mutex # "gui" /\ output # "gui"
  /\ cycle = "idle" => mutex # "cycle" /\ output # "cycle"

(* What a thread waits for: a mutex another has, or the end of the cycle.   *)
GuiWaits ==
  \/ pc \in {"remove", "set", "kit", "start", "stop", "destroy"} /\ mutex # "free"
  \/ pc \in {"startOut", "replace", "reset"} /\ output # "free"
  \/ pc \in {"disconnecting", "swapping", "aborting"} /\ cycle # "idle"
CycleWaits ==
  \/ cycle = "clear" /\ output # "free"
  \/ cycle = "lock" /\ mutex # "free"

(* The embraces the code allows: the GUI takes the driver away and waits    *)
(* for a cycle that waits for the mutex the GUI holds.                      *)
Stuck ==
  \/ pc = "disconnecting" /\ cycle = "lock"
  \/ pc = "swapping" /\ cycle = "clear"

NoOtherEmbrace == GuiWaits /\ CycleWaits => Stuck

(* The mutexes are taken in their order and given back on every way out,    *)
(* and the two threads wait for each other nowhere else than in Stuck.      *)
LocksSound == LockOrder /\ NoLockLeft /\ NoOtherEmbrace

(* From its second test on, a cycle works on one song: the engine's, the    *)
(* transport's and the sequencer's stay what they are, and once the GUI has *)
(* opened a song they are the same one.                                    *)
SongStable  == [][cycle = "render" => UNCHANGED songs]_vars
OneSong     == cycle = "render" /\ song # Default => song # NoSong /\ xsong = song /\ qsong = song

(* The buffers a cycle renders into belong to a driver whose ports are      *)
(* there, although the GUI replaces the driver without the engine's mutex   *)
(* when it cannot be connected.                                            *)
BuffersLive == cycle = "render" => main \in {"jack", "null"} /\ (main = "jack" => ports)

(* Whoever finds the engine ready finds a driver and a song to be ready for *)
(* (setSong() and the actions of MIDI use both untested).                   *)
ReadyHasDriver == state = "Ready" => driver # "none" /\ song # NoSong

(* The transport never moves on without a song when the cycle that played   *)
(* it is past the unlock and the GUI removes the song (processed_frames()   *)
(* reads it untested).                                                     *)
MovesWithSong == cycle = "advance" /\ rolling /\ song # Default => xsong # NoSong

(* When the engine is destroyed, no cycle runs and none will.               *)
QuitClean == state = "Uninitialized" => ~active /\ cycle = "idle"

(* No cycle outlives what it uses: its driver's buffers, nor the engine.    *)
DriversLive == BuffersLive /\ QuitClean

(* Every operation of the GUI ends, and so does every cycle, but for the    *)
(* embraces of Stuck.                                                       *)
GuiReturns == pc # "idle" ~> pc \in {"idle", "gone"} \/ Stuck
CyclesEnd  == cycle # "idle" ~> cycle = "idle" \/ Stuck


-----------------------------------------------------------------------------
(* Why the safety properties hold: what each thread holds where, which      *)
(* steps find the engine in which state, and that nothing runs from the end *)
(* of the wait for the last cycle to the next jack_activate().              *)

InEngine == {"drop", "dropped", "install", "installed", "layer", "startOut", "create",
             "created", "started", "disconnect", "disconnecting", "reset", "release",
             "released", "stopped", "clean", "cleaned"}
InOutput == {"create", "created", "swap", "swapping", "swapped", "release", "released"}

LocksHeld ==
  /\ mutex = "gui" <=> pc \in InEngine
  /\ output = "gui" <=> pc \in InOutput
  /\ mutex = "cycle" <=> cycle \in {"retest", "render", "giveup"}
  /\ output = "cycle" <=> cycle = "cleared"

Halted  == {"stop", "disconnect", "disconnecting", "reset", "release", "released", "stopped",
            "start", "startOut", "create", "write", "run", "destroy", "clean"}
Kit     == {"kit", "layer", "resume"}
Songless == {"dropped", "empty", "set", "install"}

StateFits ==
  /\ pc \in Halted => state = "Initialized"
  /\ pc \in Kit => saved = "Ready" /\ state = "Prepared"
  /\ pc \in {"cleaned", "gone"} => state = "Uninitialized"
  /\ pc \in Songless \/ (pc = "halt" /\ op = "quit") => state \in {"Prepared", "Ready"}
  /\ pc \notin Halted \cup Kit \cup Songless \cup {"halt", "cleaned", "gone", "idle", "aborting"}
       => state = "Ready"
  /\ pc = "halt" /\ op # "quit" => state = "Ready"
  /\ pc \in {"idle", "aborting"} => state = IF driver = "disk" THEN "Initialized" ELSE "Ready"

OpFits ==
  /\ op = "setSong" => new \in Songs
  /\ pc \in {"empty", "set", "install"} => op = "setSong"
  /\ pc \in {"remove", "drop", "dropped"} => op \in {"setSong", "quit"}
  /\ pc \in {"halt", "stop", "disconnect", "disconnecting", "reset", "release", "released", "stopped"}
       => op \in {"restart", "export", "quit"}
  /\ op = "quit" => pc \in Halted \cup {"remove", "drop", "dropped", "halt", "cleaned", "gone"}
  /\ pc \in {"start", "startOut", "create", "write", "run"} => op # "quit"
  /\ pc \in {"destroy", "clean", "cleaned", "gone"} => op = "quit"

SongsFit ==
  /\ song # Default => xsong = song /\ qsong = song
  /\ state = "Ready" \/ pc \in Kit => song # NoSong
  /\ state = "Prepared" /\ pc \notin Kit => song = NoSong
  /\ song = NoSong => pc \in Songless \/ op = "quit"
  /\ pc \in {"set", "install"} => song = NoSong
  /\ cycle = "render" => song # NoSong
  /\ MovesWithSong

Quiet == {"reset", "release", "released", "stopped", "start", "startOut", "create", "created",
          "started", "activate", "write", "run", "destroy", "clean", "cleaned", "gone", "swapped"}

DriverFits ==
  /\ pc \in Quiet => ~active /\ cycle = "idle"
  /\ pc \in {"aborting", "disconnecting", "swapping"} => ~active
  /\ pc = "swapping" => driver = "null"
  /\ driver = "none" => pc \in {"released", "stopped", "start", "startOut", "create", "write",
                                "destroy", "clean", "cleaned", "gone"}
  /\ driver = "disk" => pc \in {"run", "idle", "aborting"}
  /\ pc \in {"run", "aborting"} => driver = "disk"
  /\ driver = "disk" => cycle \in {"idle", "begin", "clear", "cleared", "test"}
  /\ cycle = "begin" => driver = "disk"
  /\ active \/ cycle # "idle" => driver = "disk" \/ ports
  /\ driver = "jack" /\ pc \notin {"reset", "release"} => ports
  /\ cycle \notin {"idle", "begin", "clear"} => driver = "disk" \/ main \in {"jack", "null"}

IInv == TypeOK /\ LocksHeld /\ StateFits /\ OpFits /\ SongsFit /\ DriverFits
=============================================================================
