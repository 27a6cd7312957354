---------------------------- MODULE EngineProofs ----------------------------
(***************************************************************************)
(* Theorems about Engine, for every set of songs, every choice of          *)
(* operations and connections that fail or do not.                         *)
(***************************************************************************)
EXTENDS Engine, TLAPS

USE SongsAssumption, FailsAssumption

(* The constructor's state has every part of the invariant.                 *)
LEMMA Initially == Init => IInv
  BY DEF Init, IInv, TypeOK, LocksHeld, StateFits, OpFits, SongsFit, DriverFits,
     MovesWithSong,
         GuiSteps, CycleSteps, States, InEngine, InOutput, Halted, Kit, Songless, Quiet

(* RemoveSong keeps the invariant.  *)
LEMMA RemoveSongKeeps == IInv /\ RemoveSong => IInv'
  <1> SUFFICES ASSUME IInv, RemoveSong PROVE IInv'
    OBVIOUS
  <1> USE DEF IInv, TypeOK, LocksHeld, StateFits, OpFits, SongsFit, DriverFits,
      MovesWithSong,
              GuiSteps, CycleSteps, States, InEngine, InOutput, Halted, Kit, Songless, Quiet,
              songs, drivers, locks, gui, Goto, Step, Calls
  <1>1. CASE LockEngine("remove", "drop")
    BY <1>1 DEF LockEngine
  <1>2. CASE Drop
    <2>1. TypeOK'
      <3> HIDE DEF IInv, LocksHeld, StateFits, OpFits, SongsFit, DriverFits, MovesWithSong,
                   GuiSteps, CycleSteps, States
      <3>1. TypeOK
        BY DEF IInv
      <3>2. pc' \in GuiSteps /\ cycle' \in CycleSteps
        BY <3>1, <1>2 DEF Drop, Stops, HasSong, GuiSteps, CycleSteps
      <3> QED
        BY <3>1, <3>2, <1>2 DEF Drop, Stops, HasSong, States
    <2>2. LocksHeld'
      BY <1>2 DEF Drop, Stops, HasSong
    <2>3. StateFits'
      BY <1>2 DEF Drop, Stops, HasSong
    <2>4. OpFits'
      BY <1>2 DEF Drop, Stops, HasSong
    <2>5. SongsFit'
      BY <1>2 DEF Drop, Stops, HasSong
    <2>6. DriverFits'
      BY <1>2 DEF Drop, Stops, HasSong
    <2> QED
      BY <2>1, <2>2, <2>3, <2>4, <2>5, <2>6
  <1>3. CASE UnlockEngine("dropped", IF op = "quit" THEN "halt" ELSE "empty")
    BY <1>3 DEF UnlockEngine, AfterStop
  <1> QED
    BY <1>1, <1>2, <1>3 DEF RemoveSong

(* SetSong keeps the invariant.  *)
LEMMA SetSongKeeps == IInv /\ SetSong => IInv'
  <1> SUFFICES ASSUME IInv, SetSong PROVE IInv'
    OBVIOUS
  <1> USE DEF IInv, TypeOK, LocksHeld, StateFits, OpFits, SongsFit, DriverFits,
      MovesWithSong,
              GuiSteps, CycleSteps, States, InEngine, InOutput, Halted, Kit, Songless, Quiet,
              songs, drivers, locks, gui, Goto, Step, Calls
  <1>1. CASE SetSongCalled
    BY <1>1 DEF SetSongCalled
  <1>2. CASE Empty
    <2>1. TypeOK'
      <3> HIDE DEF IInv, LocksHeld, StateFits, OpFits, SongsFit, DriverFits, MovesWithSong,
                   GuiSteps, CycleSteps, States
      <3>1. TypeOK
        BY DEF IInv
      <3>2. pc' \in GuiSteps /\ cycle' \in CycleSteps
        BY <3>1, <1>2 DEF Empty, GuiSteps, CycleSteps
      <3> QED
        BY <3>1, <3>2, <1>2 DEF Empty, States
    <2>2. LocksHeld'
      BY <1>2 DEF Empty
    <2>3. StateFits'
      BY <1>2 DEF Empty
    <2>4. OpFits'
      BY <1>2 DEF Empty
    <2>5. SongsFit'
      BY <1>2 DEF Empty
    <2>6. DriverFits'
      BY <1>2 DEF Empty
    <2> QED
      BY <2>1, <2>2, <2>3, <2>4, <2>5, <2>6
  <1>3. CASE LockEngine("set", "install")
    BY <1>3 DEF LockEngine
  <1>4. CASE Install
    <2>1. TypeOK'
      <3> HIDE DEF IInv, LocksHeld, StateFits, OpFits, SongsFit, DriverFits, MovesWithSong,
                   GuiSteps, CycleSteps, States
      <3>1. TypeOK
        BY DEF IInv
      <3>2. pc' \in GuiSteps /\ cycle' \in CycleSteps
        BY <3>1, <1>4 DEF Install, GuiSteps, CycleSteps
      <3> QED
        BY <3>1, <3>2, <1>4 DEF Install, States
    <2>2. LocksHeld'
      BY <1>4 DEF Install
    <2>3. StateFits'
      BY <1>4 DEF Install
    <2>4. OpFits'
      BY <1>4 DEF Install
    <2>5. SongsFit'
      BY <1>4 DEF Install
    <2>6. DriverFits'
      BY <1>4 DEF Install
    <2> QED
      BY <2>1, <2>2, <2>3, <2>4, <2>5, <2>6
  <1>5. CASE UnlockEngine("installed", "idle")
    BY <1>5 DEF UnlockEngine, AfterStop
  <1> QED
    BY <1>1, <1>2, <1>3, <1>4, <1>5 DEF SetSong

(* Play keeps the invariant.  *)
LEMMA PlayKeeps == IInv /\ Play => IInv'
  <1> SUFFICES ASSUME IInv, Play PROVE IInv'
    OBVIOUS
  <1> USE DEF IInv, TypeOK, LocksHeld, StateFits, OpFits, SongsFit, DriverFits,
      MovesWithSong,
              GuiSteps, CycleSteps, States, InEngine, InOutput, Halted, Kit, Songless, Quiet,
              songs, drivers, locks, gui, Goto, Step, Calls
  <1> QED
    BY DEF Play, LockEngine, UnlockEngine

(* LoadDrumkit keeps the invariant.  *)
LEMMA LoadDrumkitKeeps == IInv /\ LoadDrumkit => IInv'
  <1> SUFFICES ASSUME IInv, LoadDrumkit PROVE IInv'
    OBVIOUS
  <1> USE DEF IInv, TypeOK, LocksHeld, StateFits, OpFits, SongsFit, DriverFits,
      MovesWithSong,
              GuiSteps, CycleSteps, States, InEngine, InOutput, Halted, Kit, Songless, Quiet,
              songs, drivers, locks, gui, Goto, Step, Calls
  <1> QED
    BY DEF LoadDrumkit, LockEngine, UnlockEngine

(* StartAudioDrivers keeps the invariant.  *)
LEMMA StartAudioDriversKeeps == IInv /\ StartAudioDrivers => IInv'
  <1> SUFFICES ASSUME IInv, StartAudioDrivers PROVE IInv'
    OBVIOUS
  <1> USE DEF IInv, TypeOK, LocksHeld, StateFits, OpFits, SongsFit, DriverFits,
      MovesWithSong,
              GuiSteps, CycleSteps, States, InEngine, InOutput, Halted, Kit, Songless, Quiet,
              songs, drivers, locks, gui, Goto, Step, Calls
  <1>1. CASE LockEngine("start", "startOut")
    BY <1>1 DEF LockEngine
  <1>2. CASE LockOutput("startOut", "create")
    BY <1>2 DEF LockOutput
  <1>3. CASE Create
    <2>1. TypeOK'
      <3> HIDE DEF IInv, LocksHeld, StateFits, OpFits, SongsFit, DriverFits, MovesWithSong
      <3>1. TypeOK
        BY DEF IInv
      <3>2. CASE state = "Initialized"
        BY <1>3, <3>1, <3>2 DEF Create
      <3>3. CASE state # "Initialized"
        BY <1>3, <3>1, <3>3 DEF Create
      <3> QED
        BY <3>2, <3>3
    <2>2. LocksHeld'
      BY <1>3 DEF Create
    <2>3. StateFits'
      BY <1>3 DEF Create
    <2>4. OpFits'
      BY <1>3 DEF Create
    <2>5. SongsFit'
      BY <1>3 DEF Create
    <2>6. DriverFits'
      BY <1>3 DEF Create
    <2> QED
      BY <2>1, <2>2, <2>3, <2>4, <2>5, <2>6
  <1>4. CASE UnlockOutput("created", "started")
    BY <1>4 DEF UnlockOutput
  <1>5. CASE UnlockEngine("started", "activate")
    BY <1>5 DEF UnlockEngine, AfterStop
  <1>6. CASE Activate
    BY <1>6 DEF Activate
  <1>7. CASE Connect
    BY <1>7 DEF Connect
  <1>8. CASE LockOutput("replace", "swap")
    BY <1>8 DEF LockOutput
  <1>9. CASE Swap
    <2>1. TypeOK'
      <3> HIDE DEF IInv, LocksHeld, StateFits, OpFits, SongsFit, DriverFits, MovesWithSong,
                   GuiSteps, CycleSteps, States
      <3>1. TypeOK
        BY DEF IInv
      <3>2. pc' \in GuiSteps /\ cycle' \in CycleSteps
        BY <3>1, <1>9 DEF Swap, GuiSteps, CycleSteps
      <3> QED
        BY <3>1, <3>2, <1>9 DEF Swap, States
    <2>2. LocksHeld'
      BY <1>9 DEF Swap
    <2>3. StateFits'
      BY <1>9 DEF Swap
    <2>4. OpFits'
      BY <1>9 DEF Swap
    <2>5. SongsFit'
      BY <1>9 DEF Swap
    <2>6. DriverFits'
      BY <1>9 DEF Swap
    <2> QED
      BY <2>1, <2>2, <2>3, <2>4, <2>5, <2>6
  <1>10. CASE Swapped
    <2>1. TypeOK'
      <3> HIDE DEF IInv, LocksHeld, StateFits, OpFits, SongsFit, DriverFits, MovesWithSong,
                   GuiSteps, CycleSteps, States
      <3>1. TypeOK
        BY DEF IInv
      <3>2. pc' \in GuiSteps /\ cycle' \in CycleSteps
        BY <3>1, <1>10 DEF Swapped, CycleOver, GuiSteps, CycleSteps
      <3> QED
        BY <3>1, <3>2, <1>10 DEF Swapped, CycleOver, States
    <2>2. LocksHeld'
      BY <1>10 DEF Swapped, CycleOver
    <2>3. StateFits'
      BY <1>10 DEF Swapped, CycleOver
    <2>4. OpFits'
      BY <1>10 DEF Swapped, CycleOver
    <2>5. SongsFit'
      BY <1>10 DEF Swapped, CycleOver
    <2>6. DriverFits'
      BY <1>10 DEF Swapped, CycleOver
    <2> QED
      BY <2>1, <2>2, <2>3, <2>4, <2>5, <2>6
  <1>11. CASE UnlockOutput("swapped", "buffers")
    BY <1>11 DEF UnlockOutput
  <1>12. CASE Buffers
    BY <1>12 DEF Buffers
  <1> QED
    BY <1>1, <1>2, <1>3, <1>4, <1>5, <1>6, <1>7, <1>8, <1>9, <1>10, <1>11, <1>12 DEF
       StartAudioDrivers

(* StopAudioDrivers keeps the invariant.  *)
LEMMA StopAudioDriversKeeps == IInv /\ StopAudioDrivers => IInv'
  <1> SUFFICES ASSUME IInv, StopAudioDrivers PROVE IInv'
    OBVIOUS
  <1> USE DEF IInv, TypeOK, LocksHeld, StateFits, OpFits, SongsFit, DriverFits,
      MovesWithSong,
              GuiSteps, CycleSteps, States, InEngine, InOutput, Halted, Kit, Songless, Quiet,
              songs, drivers, locks, gui, Goto, Step, Calls
  <1>1. CASE Halt
    <2>1. pc = "halt" /\ state \in {"Prepared", "Ready"}
      BY <1>1 DEF Halt
    <2>2. /\ pc' = "stop" /\ state' = "Initialized" /\ rolling' = FALSE
          /\ UNCHANGED <<song, xsong, qsong, driver, ports, main, active, mutex, output, op,
                         new, saved, cycle>>
      BY <1>1, <2>1 DEF Halt, Lower
    <2>3. TypeOK'
      <3> HIDE DEF IInv, LocksHeld, StateFits, OpFits, SongsFit, DriverFits, MovesWithSong,
                   GuiSteps, CycleSteps, States
      <3>1. TypeOK
        BY DEF IInv
      <3>2. pc' \in GuiSteps /\ cycle' \in CycleSteps
        BY <3>1, <2>1, <2>2 DEF GuiSteps, CycleSteps
      <3> QED
        BY <3>1, <3>2, <2>1, <2>2 DEF States
    <2>4. LocksHeld'
      BY <2>1, <2>2
    <2>5. StateFits'
      BY <2>1, <2>2
    <2>6. OpFits'
      BY <2>1, <2>2
    <2>7. SongsFit'
      BY <2>1, <2>2
    <2>8. DriverFits'
      BY <2>1, <2>2
    <2> QED
      BY <2>3, <2>4, <2>5, <2>6, <2>7, <2>8
  <1>2. CASE LockEngine("stop", "disconnect")
    BY <1>2 DEF LockEngine
  <1>3. CASE Disconnect
    <2>1. TypeOK'
      <3> HIDE DEF IInv, LocksHeld, StateFits, OpFits, SongsFit, DriverFits, MovesWithSong,
                   GuiSteps, CycleSteps, States
      <3>1. TypeOK
        BY DEF IInv
      <3>2. pc' \in GuiSteps /\ cycle' \in CycleSteps
        BY <3>1, <1>3 DEF Disconnect, GuiSteps, CycleSteps
      <3> QED
        BY <3>1, <3>2, <1>3 DEF Disconnect, States
    <2>2. LocksHeld'
      BY <1>3 DEF Disconnect
    <2>3. StateFits'
      BY <1>3 DEF Disconnect
    <2>4. OpFits'
      BY <1>3 DEF Disconnect
    <2>5. SongsFit'
      BY <1>3 DEF Disconnect
    <2>6. DriverFits'
      BY <1>3 DEF Disconnect
    <2> QED
      BY <2>1, <2>2, <2>3, <2>4, <2>5, <2>6
  <1>4. CASE Disconnected
    <2>1. TypeOK'
      <3> HIDE DEF IInv, LocksHeld, StateFits, OpFits, SongsFit, DriverFits, MovesWithSong,
                   GuiSteps, CycleSteps, States
      <3>1. TypeOK
        BY DEF IInv
      <3>2. pc' \in GuiSteps /\ cycle' \in CycleSteps
        BY <3>1, <1>4 DEF Disconnected, CycleOver, GuiSteps, CycleSteps
      <3> QED
        BY <3>1, <3>2, <1>4 DEF Disconnected, CycleOver, States
    <2>2. LocksHeld'
      BY <1>4 DEF Disconnected, CycleOver
    <2>3. StateFits'
      BY <1>4 DEF Disconnected, CycleOver
    <2>4. OpFits'
      BY <1>4 DEF Disconnected, CycleOver
    <2>5. SongsFit'
      BY <1>4 DEF Disconnected, CycleOver
    <2>6. DriverFits'
      BY <1>4 DEF Disconnected, CycleOver
    <2> QED
      BY <2>1, <2>2, <2>3, <2>4, <2>5, <2>6
  <1>5. CASE LockOutput("reset", "release")
    BY <1>5 DEF LockOutput
  <1>6. CASE Release
    BY <1>6 DEF Release
  <1>7. CASE UnlockOutput("released", "stopped")
    BY <1>7 DEF UnlockOutput
  <1>8. CASE UnlockEngine("stopped", AfterStop)
    BY <1>8 DEF UnlockEngine, AfterStop
  <1> QED
    BY <1>1, <1>2, <1>3, <1>4, <1>5, <1>6, <1>7, <1>8 DEF StopAudioDrivers

(* Restart keeps the invariant.  *)
LEMMA RestartKeeps == IInv /\ Restart => IInv'
  <1> SUFFICES ASSUME IInv, Restart PROVE IInv'
    OBVIOUS
  <1> USE DEF IInv, TypeOK, LocksHeld, StateFits, OpFits, SongsFit, DriverFits,
      MovesWithSong,
              GuiSteps, CycleSteps, States, InEngine, InOutput, Halted, Kit, Songless, Quiet,
              songs, drivers, locks, gui, Goto, Step, Calls
  <1> QED
    BY DEF Restart, LockEngine, UnlockEngine

(* ExportSong keeps the invariant.  *)
LEMMA ExportSongKeeps == IInv /\ ExportSong => IInv'
  <1> SUFFICES ASSUME IInv, ExportSong PROVE IInv'
    OBVIOUS
  <1> USE DEF IInv, TypeOK, LocksHeld, StateFits, OpFits, SongsFit, DriverFits,
      MovesWithSong,
              GuiSteps, CycleSteps, States, InEngine, InOutput, Halted, Kit, Songless, Quiet,
              songs, drivers, locks, gui, Goto, Step, Calls
  <1>1. CASE Export
    <2>1. TypeOK'
      <3> HIDE DEF IInv, LocksHeld, StateFits, OpFits, SongsFit, DriverFits, MovesWithSong,
                   GuiSteps, CycleSteps, States
      <3>1. TypeOK
        BY DEF IInv
      <3>2. pc' \in GuiSteps /\ cycle' \in CycleSteps
        BY <3>1, <1>1 DEF Export, GuiSteps, CycleSteps
      <3> QED
        BY <3>1, <3>2, <1>1 DEF Export, States
    <2>2. LocksHeld'
      BY <1>1 DEF Export
    <2>3. StateFits'
      BY <1>1 DEF Export
    <2>4. OpFits'
      BY <1>1 DEF Export
    <2>5. SongsFit'
      BY <1>1 DEF Export
    <2>6. DriverFits'
      BY <1>1 DEF Export
    <2> QED
      BY <2>1, <2>2, <2>3, <2>4, <2>5, <2>6
  <1>2. CASE Write
    BY <1>2 DEF Write
  <1>3. CASE Run
    BY <1>3 DEF Run
  <1>4. CASE StopExport
    <2>1. TypeOK'
      <3> HIDE DEF IInv, LocksHeld, StateFits, OpFits, SongsFit, DriverFits, MovesWithSong,
                   GuiSteps, CycleSteps, States
      <3>1. TypeOK
        BY DEF IInv
      <3>2. pc' \in GuiSteps /\ cycle' \in CycleSteps
        BY <3>1, <1>4 DEF StopExport, GuiSteps, CycleSteps
      <3> QED
        BY <3>1, <3>2, <1>4 DEF StopExport, States
    <2>2. LocksHeld'
      BY <1>4 DEF StopExport
    <2>3. StateFits'
      BY <1>4 DEF StopExport
    <2>4. OpFits'
      BY <1>4 DEF StopExport
    <2>5. SongsFit'
      BY <1>4 DEF StopExport
    <2>6. DriverFits'
      BY <1>4 DEF StopExport
    <2> QED
      BY <2>1, <2>2, <2>3, <2>4, <2>5, <2>6
  <1>5. CASE Aborted
    <2>1. TypeOK'
      <3> HIDE DEF IInv, LocksHeld, StateFits, OpFits, SongsFit, DriverFits, MovesWithSong,
                   GuiSteps, CycleSteps, States
      <3>1. TypeOK
        BY DEF IInv
      <3>2. pc' \in GuiSteps /\ cycle' \in CycleSteps
        BY <3>1, <1>5 DEF Aborted, CycleOver, GuiSteps, CycleSteps
      <3> QED
        BY <3>1, <3>2, <1>5 DEF Aborted, CycleOver, States
    <2>2. LocksHeld'
      BY <1>5 DEF Aborted, CycleOver
    <2>3. StateFits'
      BY <1>5 DEF Aborted, CycleOver
    <2>4. OpFits'
      BY <1>5 DEF Aborted, CycleOver
    <2>5. SongsFit'
      BY <1>5 DEF Aborted, CycleOver
    <2>6. DriverFits'
      BY <1>5 DEF Aborted, CycleOver
    <2> QED
      BY <2>1, <2>2, <2>3, <2>4, <2>5, <2>6
  <1> QED
    BY <1>1, <1>2, <1>3, <1>4, <1>5 DEF ExportSong

(* Quit keeps the invariant.  *)
LEMMA QuitKeeps == IInv /\ Quit => IInv'
  <1> SUFFICES ASSUME IInv, Quit PROVE IInv'
    OBVIOUS
  <1> USE DEF IInv, TypeOK, LocksHeld, StateFits, OpFits, SongsFit, DriverFits,
      MovesWithSong,
              GuiSteps, CycleSteps, States, InEngine, InOutput, Halted, Kit, Songless, Quiet,
              songs, drivers, locks, gui, Goto, Step, Calls
  <1>1. CASE QuitCalled
    <2>1. TypeOK'
      <3> HIDE DEF IInv, LocksHeld, StateFits, OpFits, SongsFit, DriverFits, MovesWithSong,
                   GuiSteps, CycleSteps, States
      <3>1. TypeOK
        BY DEF IInv
      <3>2. pc' \in GuiSteps /\ cycle' \in CycleSteps
        BY <3>1, <1>1 DEF QuitCalled, GuiSteps, CycleSteps
      <3> QED
        BY <3>1, <3>2, <1>1 DEF QuitCalled, States
    <2>2. LocksHeld'
      BY <1>1 DEF QuitCalled
    <2>3. StateFits'
      BY <1>1 DEF QuitCalled
    <2>4. OpFits'
      BY <1>1 DEF QuitCalled
    <2>5. SongsFit'
      BY <1>1 DEF QuitCalled
    <2>6. DriverFits'
      BY <1>1 DEF QuitCalled
    <2> QED
      BY <2>1, <2>2, <2>3, <2>4, <2>5, <2>6
  <1>2. CASE LockEngine("destroy", "clean")
    BY <1>2 DEF LockEngine
  <1>3. CASE Clean
    BY <1>3 DEF Clean
  <1>4. CASE UnlockEngine("cleaned", "gone")
    BY <1>4 DEF UnlockEngine, AfterStop
  <1> QED
    BY <1>1, <1>2, <1>3, <1>4 DEF Quit

(* Process keeps the invariant.  *)
LEMMA ProcessKeeps == IInv /\ Process => IInv'
  <1> SUFFICES ASSUME IInv, Process PROVE IInv'
    OBVIOUS
  <1> USE DEF IInv, TypeOK, LocksHeld, StateFits, OpFits, SongsFit, DriverFits,
      MovesWithSong,
              GuiSteps, CycleSteps, States, InEngine, InOutput, Halted, Kit, Songless, Quiet,
              songs, drivers, locks, gui, Goto, Step, Calls
  <1>1. CASE Begin
    BY <1>1 DEF Begin
  <1>2. CASE Called
    BY <1>2 DEF Called
  <1>3. CASE Clear
    BY <1>3 DEF Clear
  <1>4. CASE Cleared
    BY <1>4 DEF Cleared, Yields
  <1>5. CASE Test
    BY <1>5 DEF Test, Ready
  <1>6. CASE Midi
    BY <1>6 DEF Midi
  <1>7. CASE Lock
    BY <1>7 DEF Lock
  <1>8. CASE Retest
    BY <1>8 DEF Retest, Ready
  <1>9. CASE Unlock
    BY <1>9 DEF Unlock
  <1>10. CASE Advance
    BY <1>10 DEF Advance
  <1> QED
    BY <1>1, <1>2, <1>3, <1>4, <1>5, <1>6, <1>7, <1>8, <1>9, <1>10 DEF Process

-----------------------------------------------------------------------------

(* Every step keeps the invariant.                                          *)
LEMMA StepKeeps == IInv /\ [Next]_vars => IInv'
<1> SUFFICES ASSUME IInv, [Next]_vars PROVE IInv'
  OBVIOUS
<1>1. CASE Gui
  BY <1>1, RemoveSongKeeps, SetSongKeeps, PlayKeeps, LoadDrumkitKeeps,
     StartAudioDriversKeeps,
     StopAudioDriversKeeps, RestartKeeps, ExportSongKeeps, QuitKeeps DEF Gui
<1>2. CASE Process
  BY <1>2, ProcessKeeps
<1>3. CASE UNCHANGED vars
  BY <1>3 DEF vars, songs, drivers, locks, gui, IInv, TypeOK, LocksHeld, StateFits, OpFits,
              SongsFit, DriverFits, MovesWithSong
<1> QED
  BY <1>1, <1>2, <1>3 DEF Next

(* The invariant of the life cycle.                                         *)
THEOREM Invariance == Spec => []IInv
<1> QED
  BY Initially, StepKeeps, PTL DEF Spec

(* The variables of the engine keep their types.                            *)
THEOREM TypeCorrect == Spec => []TypeOK
<1>1. IInv => TypeOK
  BY DEF IInv
<1> QED
  BY <1>1, Invariance, PTL

(* The mutexes are taken in their order and never left behind, and whenever *)
(* both threads wait they are in one of the two embraces of Stuck.          *)
THEOREM LocksCorrect == Spec => []LocksSound
<1>1. IInv => LockOrder /\ NoLockLeft
  BY DEF IInv, LocksHeld, LockOrder, NoLockLeft, InEngine, InOutput
<1>2. IInv => NoOtherEmbrace
  <2> SUFFICES ASSUME IInv, GuiWaits, CycleWaits PROVE Stuck
    BY DEF NoOtherEmbrace
  <2> USE DEF IInv, TypeOK, LocksHeld, InEngine, InOutput
  <2>1. CASE cycle = "clear" /\ output = "gui"
    BY <2>1 DEF GuiWaits, DriverFits, Quiet, Stuck
  <2>2. CASE cycle = "lock" /\ mutex = "gui"
    BY <2>2 DEF GuiWaits, DriverFits, Quiet, Stuck
  <2>3. QED
    BY <2>1, <2>2 DEF CycleWaits
<1>3. IInv => LocksSound
  BY <1>1, <1>2 DEF LocksSound
<1> QED
  BY <1>3, Invariance, PTL

(* A ready engine has a driver and a song.                                  *)
THEOREM ReadyCorrect == Spec => []ReadyHasDriver
<1>1. IInv => ReadyHasDriver
  BY DEF IInv, StateFits, SongsFit, DriverFits, ReadyHasDriver, Halted
<1> QED
  BY <1>1, Invariance, PTL

(* A cycle that renders has the same song in all three places.              *)
THEOREM OneSongEach == Spec => []OneSong
<1>1. IInv => OneSong
  BY DEF IInv, SongsFit, OneSong
<1> QED
  BY <1>1, Invariance, PTL

(* A transport that rolls moves on only while it has a song.                *)
THEOREM NeverWithoutSong == Spec => []MovesWithSong
<1>1. IInv => MovesWithSong
  BY DEF IInv, SongsFit
<1> QED
  BY <1>1, Invariance, PTL

(* The song of a cycle does not change while it renders.                    *)
THEOREM SongKept == Spec => SongStable
<1>1. ASSUME IInv, [Next]_vars PROVE [cycle = "render" => UNCHANGED songs]_vars
  <2>1. CASE cycle # "render"
    BY <2>1
  <2>2. CASE cycle = "render"
    <3>1. pc \notin InEngine
      BY <1>1, <2>2 DEF IInv, LocksHeld
    <3>2. ~Drop /\ ~Install
      BY <3>1 DEF Drop, Install, Goto, InEngine
    <3> QED
      BY <1>1, <3>2 DEF Next, Gui, Process, RemoveSong, SetSong, Play, LoadDrumkit,
           StartAudioDrivers, StopAudioDrivers, Restart, ExportSong, Quit, LockEngine,
           UnlockEngine, LockOutput, UnlockOutput, SetSongCalled, Empty, Create, Activate,
           Connect, Swap, Swapped, Buffers, Halt, Disconnect, Disconnected, Release, Export,
           Write, Run, StopExport, Aborted, QuitCalled, Clean, Begin, Called, Clear, Cleared,
           Test, Midi, Lock, Retest, Unlock, Advance, vars
  <2> QED
    BY <2>1, <2>2
<1>2. []IInv /\ [][Next]_vars => [][cycle = "render" => UNCHANGED songs]_vars
  BY <1>1, PTL
<1> QED
  BY <1>2, Invariance, PTL DEF Spec, SongStable

(* A cycle renders into the buffers of a driver that is there, and none     *)
(* runs when the engine is gone.                                           *)
THEOREM DriverCorrect == Spec => []DriversLive
<1>1. IInv => BuffersLive
  BY DEF IInv, DriverFits, BuffersLive
<1>2. IInv => QuitClean
  BY DEF IInv, TypeOK, StateFits, OpFits, DriverFits, QuitClean, GuiSteps, Quiet, Halted,
     Kit,
         Songless
<1>3. IInv => DriversLive
  BY <1>1, <1>2 DEF DriversLive
<1> QED
  BY <1>3, Invariance, PTL

=============================================================================
