--------------------------- MODULE MaDeviceProofs ---------------------------
(***************************************************************************)
(* Theorems about the miniaudio device, for any two devices and on every   *)
(* backend.  The invariant says, for each point of the isolate's call on a *)
(* device, where the device's worker can be and which of the three events  *)
(* it has signalled.  Up to the first start this holds whatever the system *)
(* does; from then on only where there are no notifications.               *)
(***************************************************************************)
EXTENDS MaDevice, TLAPS

Silent(d) == ~wakeup[d] /\ ~startEvent[d] /\ ~stopEvent[d]

\* Startings and stoppings are wrapped in the mutex.
Locked(d) ==
    \A t \in Thread : lock[d] = t <=> at[d][t] \in {"starting", "mark", "stopping"}

\* There is nothing yet that the system would start.
Fresh(d) == at[d]["system"] \in {"idle", "reroute"} /\ ~detached[d] /\ ~restart[d]

\* There is no worker.
Closed(d) ==
    /\ worker[d] = "none" /\ state[d] = "uninitialized" /\ Silent(d)
    /\ workResult[d] = "success" /\ ~initialized[d]
    /\ at[d]["system"] = "idle" /\ ~detached[d] /\ ~restart[d]

\* ma_device_init waits for the worker's first signal.
Booting(d) ==
    /\ \/ worker[d] = "boot" /\ state[d] = "uninitialized" /\ ~stopEvent[d]
       \/ worker[d] = "wait" /\ state[d] = "stopped" /\ stopEvent[d]
    /\ ~wakeup[d] /\ ~startEvent[d]
    /\ workResult[d] = "success" /\ ~initialized[d]

Ready(d) ==
    /\ worker[d] = "wait" /\ state[d] = "stopped" /\ Silent(d)
    /\ workResult[d] = "success" /\ initialized[d]

\* It may call back before its start has succeeded.
Early(d) == backend = "pulse" /\ d = Playback

\* The worker has a start to do, or has not managed it.
Starting(d) ==
    /\ \/ worker[d] = "wait" /\ wakeup[d] /\ ~startEvent[d] /\ workResult[d] = "success"
       \/ worker[d] = "backend" /\ ~wakeup[d] /\ ~startEvent[d] /\ workResult[d] = "success"
       \/ /\ worker[d] = "fill" /\ Early(d)
          /\ ~wakeup[d] /\ ~startEvent[d] /\ workResult[d] = "success"
       \/ worker[d] = "wait" /\ ~wakeup[d] /\ startEvent[d] /\ workResult[d] = "error"
    /\ state[d] = "starting" /\ ~stopEvent[d] /\ initialized[d]

\* Up to the first start, whatever the system does.
FirstStart(d) ==
    /\ at[d]["isolate"] = "idle" => initialized[d] \/ Closed(d)
    /\ at[d]["isolate"] = "init" => Booting(d) /\ Fresh(d)
    /\ at[d]["isolate"] = "startLock" => Ready(d) /\ Fresh(d)
    /\ at[d]["isolate"] = "starting" => startEvent[d] \/ (Starting(d) /\ Fresh(d))
    /\ at[d]["isolate"] \notin {"idle", "init"} => initialized[d]
    /\ at[d]["isolate"] # "reroute"

InLoop(d) == Streaming(d) \/ worker[d] = "checked"

\* The stream has started.  It may have ended by itself, and then a signal tells
\* that the worker has returned to its wait.
Running(d) ==
    /\ \/ InLoop(d) /\ state[d] = "started" /\ ~stopEvent[d]
       \/ worker[d] = "stopped" /\ state[d] = "stopped" /\ ~stopEvent[d]
       \/ worker[d] = "wait" /\ state[d] = "stopped" /\ stopEvent[d]
    /\ ~wakeup[d] /\ workResult[d] = "success" /\ initialized[d]

\* The stop has been asked for, of a stream that may have ended before.
Stopping(d) ==
    /\ \/ InLoop(d) /\ state[d] = "stopping" /\ ~stopEvent[d]
       \/ worker[d] = "stopped" /\ state[d] \in {"stopped", "stopping"} /\ ~stopEvent[d]
       \/ worker[d] = "wait" /\ state[d] \in {"stopped", "stopping"} /\ stopEvent[d]
    /\ ~wakeup[d] /\ ~startEvent[d] /\ workResult[d] = "success" /\ initialized[d]

\* The stream has ended: the worker will not touch the state again.
Ending(d) ==
    /\ worker[d] \in {"stopped", "wait"} /\ state[d] \in {"stopped", "stopping"}
    /\ ~wakeup[d] /\ ~startEvent[d] /\ initialized[d]

Leaving(d) ==
    /\ worker[d] \in {"stopped", "wait"} /\ state[d] = "uninitialized"
    /\ ~wakeup[d] /\ ~startEvent[d] /\ initialized[d]

\* The worker finds the device uninitialized when it wakes up, and exits.
Joining(d) ==
    /\ \/ worker[d] \in {"stopped", "wait"} /\ wakeup[d]
       \/ worker[d] = "exited" /\ ~wakeup[d] /\ workResult[d] = "success"
    /\ state[d] = "uninitialized" /\ ~startEvent[d] /\ initialized[d]

\* The isolate alone starts and stops the device.
Alone(d) ==
    /\ at[d]["system"] = "idle" /\ ~detached[d] /\ ~restart[d]
    /\ at[d]["isolate"] = "idle" => Closed(d) \/ (Running(d) /\ ~startEvent[d])
    /\ at[d]["isolate"] = "starting" => Starting(d) \/ (Running(d) /\ startEvent[d])
    /\ at[d]["isolate"] \in {"stopLock", "mark"} => Running(d) /\ ~startEvent[d]
    /\ at[d]["isolate"] = "stopping" => Stopping(d)
    /\ at[d]["isolate"] = "uninit" => Ending(d)
    /\ at[d]["isolate"] = "signal" => Leaving(d)
    /\ at[d]["isolate"] = "join" => Joining(d)

DeviceInv(d) == Locked(d) /\ FirstStart(d) /\ (backend # "wasapi" => Alone(d))

Inv == TypeOK /\ \A d \in Device : DeviceInv(d)

-----------------------------------------------------------------------------
(* Frames                                                                  *)

\* The other device, and the calls on it, if there are any, stay as they are.
Untouched(d) ==
    /\ backend' = backend
    /\ initialized'[d] = initialized[d] /\ state'[d] = state[d] /\ wakeup'[d] = wakeup[d]
    /\ startEvent'[d] = startEvent[d] /\ stopEvent'[d] = stopEvent[d]
    /\ workResult'[d] = workResult[d] /\ worker'[d] = worker[d] /\ lock'[d] = lock[d]
    /\ at'[d] = at[d] /\ detached'[d] = detached[d] /\ restart'[d] = restart[d]

\* A device that is left alone keeps its invariant,
LEMMA UntouchedInv ==
    ASSUME NEW d \in Device, DeviceInv(d), Untouched(d)
    PROVE  DeviceInv(d)'
BY
   DEF Untouched, DeviceInv, Locked, Fresh, Closed, Booting, Ready, Early, Starting, FirstStart,
    InLoop, Streaming, Running, Stopping, Ending, Leaving, Joining, Alone, Silent

\* and the engine sees it as it was.
LEMMA UntouchedPhase ==
    ASSUME NEW d \in Device, Untouched(d)
    PROVE  PhaseOf(d)' = PhaseOf(d) /\ CallingBack(d)' = CallingBack(d)
<1>1. Unstarted(d)' = Unstarted(d)
  BY DEF Untouched, Unstarted
<1>2. Streaming(d)' = Streaming(d)
  BY DEF Untouched, Streaming
<1> QED BY <1>1, <1>2 DEF Untouched, PhaseOf, CallingBack

-----------------------------------------------------------------------------
(* Steps                                                                   *)

\* The engine sees the device turn from one phase to another.
Turned(d, from, to) ==
    PhaseOf(d) = from /\ PhaseOf(d)' = to /\ ~CallingBack(d) /\ ~CallingBack(d)'

\* What a step does to the device the engine sees: nothing, or a step of
\* AudioDevice.
Seen(d) ==
    \/ PhaseOf(d)' = PhaseOf(d) /\ CallingBack(d)' = CallingBack(d)
    \/ Turned(d, "closed", "ready")
    \/ Turned(d, "ready", "open")
    \/ Turned(d, "ready", "ended")
    \/ Turned(d, "open", "ended")
    \/ backend = "wasapi" /\ Turned(d, "ended", "open")
    \/ Turned(d, "ended", "closed")
    \/ /\ PhaseOf(d) = "open" \/ (Early(d) /\ PhaseOf(d) = "ready")
       /\ PhaseOf(d)' = PhaseOf(d) /\ ~CallingBack(d) /\ CallingBack(d)'
    \/ PhaseOf(d)' = PhaseOf(d) /\ CallingBack(d) /\ ~CallingBack(d)'

\* A thread that goes on in a call on one device is nowhere else in a call.
LEMMA GoKeeps ==
    ASSUME TypeOK, NEW t \in Thread, NEW d \in Device, NEW here, NEW next \in Point,
           Go(t, d, here, next)
    PROVE  at' \in [Device -> [Thread -> Point]] /\ \A e \in Device \ {d} : at'[e] = at[e]
BY DEF TypeOK, Go

\* A step on one device keeps the types, and leaves the other alone.
LEMMA StepFrame ==
    ASSUME Inv, NEW d \in Device, DeviceNext(d)
    PROVE  TypeOK' /\ \A e \in Device \ {d} : Untouched(e)
<1> USE DEF Inv, TypeOK, SetState, Signal, Reset, events, shared, routing, State, Worker,
    Point, Thread, Untouched
<1>1. CASE InitDevice(d)
  BY <1>1 DEF InitDevice, ZeroDevice
<1>2. CASE InitReturns(d)
  BY <1>2 DEF InitReturns, Initialized, StartFrom
<1>3. CASE StopHardware(d)
  BY <1>3 DEF StopHardware, Begin, Go
<1>4. CASE UninitDevice(d)
  BY <1>4 DEF UninitDevice, Go
<1>5. CASE SignalExit(d)
  BY <1>5 DEF SignalExit, Go
<1>6. CASE UninitReturns(d)
  BY <1>6 DEF UninitReturns, ZeroDevice
<1>7. ASSUME NEW t \in Thread, StartDevice(t, d)
      PROVE  TypeOK' /\ \A e \in Device \ {d} : Untouched(e)
  <2>1. at' \in [Device -> [Thread -> Point]] /\ \A e \in Device \ {d} : at'[e] = at[e]
    BY <1>7, GoKeeps DEF StartDevice, Point, Inv
  <2>2. UNCHANGED <<backend, initialized, worker>>
    BY <1>7 DEF StartDevice, Go
  <2>3. CASE UNCHANGED <<shared, lock, routing>>
    BY <2>1, <2>2, <2>3 DEF Inv, TypeOK, Untouched, shared, events, routing
  <2>4. CASE ~UNCHANGED <<shared, lock, routing>>
    <3>1. lock' = [lock EXCEPT ![d] = t] /\ state' = [state EXCEPT ![d] = "starting"]
          /\ wakeup' = [wakeup EXCEPT ![d] = TRUE]
          /\ UNCHANGED <<startEvent, stopEvent, workResult, detached, restart>>
      BY <1>7, <2>4 DEF StartDevice, Locks, SetState, Signal, routing
    <3> QED BY <2>1, <2>2, <3>1 DEF Inv, TypeOK, Untouched, State
  <2> QED BY <2>3, <2>4
<1>8. ASSUME NEW t \in Thread, StartReturns(t, d)
      PROVE  TypeOK' /\ \A e \in Device \ {d} : Untouched(e)
  <2>1. at' \in [Device -> [Thread -> Point]] /\ \A e \in Device \ {d} : at'[e] = at[e]
    <3>1. CASE workResult[d] = "success"
      <4>1. Go(t, d, "starting", "idle")
        BY <1>8, <3>1 DEF StartReturns
      <4> QED BY <4>1, <1>8, GoKeeps DEF Point, Inv
    <3>2. CASE workResult[d] # "success"
      <4>1. Go(t, d, "starting", "uninit") \/ Go(t, d, "starting", "idle")
        BY <1>8, <3>2 DEF StartReturns
      <4> QED BY <4>1, <1>8, GoKeeps DEF Point, Inv
    <3> QED BY <3>1, <3>2
  <2>2. UNCHANGED <<backend, initialized, worker>>
    BY <1>8 DEF StartReturns, Go
  <2> QED BY <1>8, <2>1, <2>2
     DEF StartReturns, Unlocks, SetState, Reset, Inv, TypeOK, Untouched, shared, events,
     routing, State
<1>9. ASSUME NEW t \in Thread, StopDevice(t, d)
      PROVE  TypeOK' /\ \A e \in Device \ {d} : Untouched(e)
  <2>1. PICK next \in Point : Go(t, d, "stopLock", next)
    BY <1>9 DEF StopDevice, AfterStop, Point
  <2>2. at' \in [Device -> [Thread -> Point]] /\ \A e \in Device \ {d} : at'[e] = at[e]
    BY <2>1, GoKeeps DEF Inv
  <2>3. UNCHANGED <<backend, initialized, worker, shared, routing>>
    BY <1>9 DEF StopDevice, Go
  <2>4. lock' = lock \/ lock' = [lock EXCEPT ![d] = t]
    BY <1>9 DEF StopDevice, Locks
  <2> QED BY <2>2, <2>3, <2>4 DEF Inv, TypeOK, Untouched, shared, events, routing
<1>10. ASSUME NEW t \in Thread, MarkStopping(t, d)
      PROVE  TypeOK' /\ \A e \in Device \ {d} : Untouched(e)
  <2>1. CASE t = "isolate"
    BY <1>10, <2>1 DEF MarkStopping, Go
  <2>2. CASE t = "system"
    BY <1>10, <2>2 DEF MarkStopping, Go
  <2> QED BY <2>1, <2>2 DEF Thread
<1>11. ASSUME NEW t \in Thread, StopReturns(t, d)
      PROVE  TypeOK' /\ \A e \in Device \ {d} : Untouched(e)
  <2>1. CASE t = "isolate"
    BY <1>11, <2>1 DEF StopReturns, Go, Unlocks, AfterStop
  <2>2. CASE t = "system"
    BY <1>11, <2>2 DEF StopReturns, Go, Unlocks, AfterStop
  <2> QED BY <2>1, <2>2 DEF Thread
<1>12. CASE Unplugged(d)
  BY <1>12 DEF Unplugged, Notice, Go
<1>13. CASE PluggedIn(d)
  BY <1>13 DEF PluggedIn, Notice, Go, StartFrom
<1>14. CASE DefaultChanged(d)
  BY <1>14 DEF DefaultChanged, Notice, Go
<1>15. CASE NoRoute(d)
  BY <1>15 DEF NoRoute, Go
<1>16. CASE Reroute(d)
  BY <1>16 DEF Reroute, Go, StartFrom
<1>17. CASE Boot(d)
  BY <1>17 DEF Boot, Work
<1>18. CASE Wake(d)
  BY <1>18 DEF Wake, Work
<1>19. CASE BackendStarts(d)
  BY <1>19 DEF BackendStarts, Work
<1>20. CASE BackendFails(d)
  BY <1>20 DEF BackendFails, Work
<1>21. CASE ReadPeriod(d)
  BY <1>21 DEF ReadPeriod, Work
<1>22. CASE Deliver(d)
  BY <1>22 DEF Deliver, Work
<1>23. CASE CallbackReturns(d)
  BY <1>23 DEF CallbackReturns, Work
<1>24. CASE PeriodEnds(d)
  BY <1>24 DEF PeriodEnds, Work
<1>25. CASE Stop(d)
  BY <1>25 DEF Stop, Work, LeaveLoop
<1>26. CASE BackendStops(d)
  BY <1>26 DEF BackendStops, Work
<1>27. CASE SetStopped(d)
  BY <1>27 DEF SetStopped, Work
<1>28. CASE SignalStopped(d)
  BY <1>28 DEF SignalStopped, Work
<1>29. CASE Fill(d)
  BY <1>29 DEF Fill, Work
<1>30. CASE Fail(d)
  BY <1>30 DEF Fail, Work, LeaveLoop
<1>31. CASE Drain(d)
  BY <1>31 DEF Drain, Work
<1> QED BY <1>1, <1>2, <1>3, <1>4, <1>5, <1>6, <1>7, <1>8, <1>9, <1>10, <1>11, <1>12,
    <1>13, <1>14, <1>15, <1>16, <1>17, <1>18, <1>19, <1>20, <1>21, <1>22, <1>23, <1>24,
    <1>25, <1>26, <1>27, <1>28, <1>29, <1>30, <1>31
   DEF DeviceNext, Isolate, System, Calls, Notifies, Works, Thread

\* The system, going on to a new route or not, keeps the invariant.
LEMMA RerouteInv ==
    ASSUME Inv, NEW d \in Device, NoRoute(d) \/ Reroute(d)
    PROVE  DeviceInv(d)'
<1>1. backend = "wasapi" /\ backend' = "wasapi"
  BY DEF NoRoute, Reroute, Go, Inv, DeviceInv, Alone
<1>2. UNCHANGED <<initialized, state, wakeup, startEvent, stopEvent, workResult,
               worker, lock>>
  BY DEF NoRoute, Reroute, Go, shared, events
<1>3. /\ at[d]["system"] = "reroute" /\ at'[d]["system"] \in {"idle", "startLock"}
      /\ at'[d]["isolate"] = at[d]["isolate"]
  BY DEF NoRoute, Reroute, Go, StartFrom, Inv, TypeOK, Thread
<1>4. ~restart'[d]
  BY DEF NoRoute, Reroute, Inv, TypeOK
<1>5. Fresh(d) => Fresh(d)'
  BY <1>3, <1>4 DEF NoRoute, Reroute, Go, Fresh, Inv, TypeOK, Thread
<1>6. Locked(d)'
  BY <1>2, <1>3 DEF Locked, Inv, DeviceInv, Thread
<1>7. FirstStart(d)'
  <2>1. FirstStart(d) /\ ~Closed(d)
    BY <1>3 DEF Inv, DeviceInv, Closed
  <2>2. /\ Booting(d) => Booting(d)'
        /\ Ready(d) => Ready(d)'
        /\ Starting(d) => Starting(d)'
    BY <1>1, <1>2 DEF Booting, Ready, Starting, Early, Silent
  <2> QED BY <1>2, <1>3, <1>5, <2>1, <2>2 DEF FirstStart
<1> QED BY <1>1, <1>6, <1>7 DEF DeviceInv

\* The system, about to stop a device or to give it a new route, keeps it too.
LEMMA DefaultInv ==
    ASSUME Inv, NEW d \in Device, DefaultChanged(d)
    PROVE  DeviceInv(d)'
<1>1. backend = "wasapi" /\ backend' = "wasapi"
  BY DEF DefaultChanged, Notice, Go
<1>2. UNCHANGED <<initialized, state, wakeup, startEvent, stopEvent, workResult,
               worker, lock, detached>>
  BY DEF DefaultChanged, Notice, Go, shared, events
<1>3. /\ at[d]["system"] = "idle" /\ at'[d]["isolate"] = at[d]["isolate"]
      /\ at'[d]["system"] = IF state[d] = "started" THEN "stopLock" ELSE "reroute"
  BY DEF DefaultChanged, Notice, Go, Inv, TypeOK, Thread
<1>4. restart'[d] = (state[d] = "started")
  BY DEF DefaultChanged, Inv, TypeOK
<1>5. Locked(d)'
  BY <1>2, <1>3 DEF Locked, Inv, DeviceInv, Thread
<1>6. FirstStart(d)'
  <2>1. FirstStart(d) /\ ~Closed(d) /\ state[d] \notin {"uninitialized", "starting"}
    BY DEF DefaultChanged, Notice, Inv, DeviceInv, Closed
  <2>2. Booting(d) \/ Ready(d) => state[d] = "stopped"
    BY <2>1 DEF Booting, Ready
  <2>3. state[d] = "stopped" /\ Fresh(d) => Fresh(d)'
    BY <1>2, <1>3, <1>4 DEF Fresh
  <2>4. /\ Booting(d) => Booting(d)'
        /\ Ready(d) => Ready(d)'
        /\ ~Starting(d)
    BY <1>2, <2>1 DEF Booting, Ready, Starting, Silent
  <2> QED BY <1>2, <1>3, <2>1, <2>2, <2>3, <2>4 DEF FirstStart
<1> QED BY <1>1, <1>5, <1>6 DEF DeviceInv

\* Every step keeps the invariant of its device.
LEMMA StepInv ==
    ASSUME Inv, NEW d \in Device, DeviceNext(d)
    PROVE  DeviceInv(d)'
<1> USE DEF Inv, TypeOK, SetState, Signal, Reset, events, shared, routing, Thread,
    DeviceInv, Locked, Fresh, Closed, Booting, Ready, Early, Starting, FirstStart,
    InLoop, Streaming, Running, Stopping, Ending, Leaving, Joining, Alone, Silent
<1>1. CASE InitDevice(d)
  BY <1>1 DEF InitDevice, ZeroDevice
<1>2. CASE InitReturns(d)
  BY <1>2 DEF InitReturns, Initialized, StartFrom
<1>3. CASE StopHardware(d)
  BY <1>3 DEF StopHardware, Begin, Go
<1>4. CASE UninitDevice(d)
  BY <1>4 DEF UninitDevice, Go
<1>5. CASE SignalExit(d)
  BY <1>5 DEF SignalExit, Go
<1>6. CASE UninitReturns(d)
  BY <1>6 DEF UninitReturns, ZeroDevice
<1>7. ASSUME NEW t \in Thread, StartDevice(t, d) PROVE DeviceInv(d)'
  <2>1. CASE t = "isolate"
    BY <1>7, <2>1 DEF StartDevice, Go, Locks
  <2>2. CASE t = "system"
    BY <1>7, <2>2 DEF StartDevice, Go, Locks
  <2> QED BY <2>1, <2>2 DEF Thread
<1>8. ASSUME NEW t \in Thread, StartReturns(t, d) PROVE DeviceInv(d)'
  <2>1. CASE t = "isolate"
    BY <1>8, <2>1 DEF StartReturns, Go, Unlocks
  <2>2. CASE t = "system"
    BY <1>8, <2>2 DEF StartReturns, Go, Unlocks
  <2> QED BY <2>1, <2>2 DEF Thread
<1>9. ASSUME NEW t \in Thread, StopDevice(t, d) PROVE DeviceInv(d)'
  <2>1. CASE t = "isolate"
    BY <1>9, <2>1 DEF StopDevice, Go, Locks, AfterStop
  <2>2. CASE t = "system"
    BY <1>9, <2>2 DEF StopDevice, Go, Locks, AfterStop
  <2> QED BY <2>1, <2>2 DEF Thread
<1>10. ASSUME NEW t \in Thread, MarkStopping(t, d) PROVE DeviceInv(d)'
  <2>1. CASE t = "isolate"
    BY <1>10, <2>1 DEF MarkStopping, Go
  <2>2. CASE t = "system"
    BY <1>10, <2>2 DEF MarkStopping, Go
  <2> QED BY <2>1, <2>2 DEF Thread
<1>11. ASSUME NEW t \in Thread, StopReturns(t, d) PROVE DeviceInv(d)'
  <2>1. CASE t = "isolate"
    BY <1>11, <2>1 DEF StopReturns, Go, Unlocks, AfterStop
  <2>2. CASE t = "system"
    BY <1>11, <2>2 DEF StopReturns, Go, Unlocks, AfterStop
  <2> QED BY <2>1, <2>2 DEF Thread
<1>12. CASE Unplugged(d)
  BY <1>12 DEF Unplugged, Notice, Go
<1>13. CASE PluggedIn(d)
  BY <1>13 DEF PluggedIn, Notice, Go, StartFrom
<1>14. CASE DefaultChanged(d)
  BY <1>14, DefaultInv
<1>15. CASE NoRoute(d)
  BY <1>15, RerouteInv
<1>16. CASE Reroute(d)
  BY <1>16, RerouteInv
<1>17. CASE Boot(d)
  BY <1>17 DEF Boot, Work
<1>18. CASE Wake(d)
  BY <1>18 DEF Wake, Work
<1>19. CASE BackendStarts(d)
  BY <1>19 DEF BackendStarts, Work
<1>20. CASE BackendFails(d)
  BY <1>20 DEF BackendFails, Work
<1>21. CASE ReadPeriod(d)
  BY <1>21 DEF ReadPeriod, Work
<1>22. CASE Deliver(d)
  BY <1>22 DEF Deliver, Work
<1>23. CASE CallbackReturns(d)
  BY <1>23 DEF CallbackReturns, Work
<1>24. CASE PeriodEnds(d)
  BY <1>24 DEF PeriodEnds, Work
<1>25. CASE Stop(d)
  BY <1>25 DEF Stop, Work, LeaveLoop
<1>26. CASE BackendStops(d)
  BY <1>26 DEF BackendStops, Work
<1>27. CASE SetStopped(d)
  BY <1>27 DEF SetStopped, Work
<1>28. CASE SignalStopped(d)
  BY <1>28 DEF SignalStopped, Work
<1>29. CASE Fill(d)
  BY <1>29 DEF Fill, Work
<1>30. CASE Fail(d)
  BY <1>30 DEF Fail, Work, LeaveLoop
<1>31. CASE Drain(d)
  BY <1>31 DEF Drain, Work
<1> QED BY <1>1, <1>2, <1>3, <1>4, <1>5, <1>6, <1>7, <1>8, <1>9, <1>10, <1>11, <1>12,
    <1>13, <1>14, <1>15, <1>16, <1>17, <1>18, <1>19, <1>20, <1>21, <1>22, <1>23, <1>24,
    <1>25, <1>26, <1>27, <1>28, <1>29, <1>30, <1>31
   DEF DeviceNext, Isolate, System, Calls, Notifies, Works, Thread

\* Every step is one of the device the engine sees, or shows nothing.
LEMMA StepSeen ==
    ASSUME Inv, NEW d \in Device, DeviceNext(d)
    PROVE  Seen(d)
<1> USE DEF Inv, TypeOK, SetState, Signal, Reset, events, shared, routing, Thread,
    Seen, Turned, PhaseOf, CallingBack, Unstarted,
    DeviceInv, Locked, Fresh, Closed, Booting, Ready, Early, Starting, FirstStart,
    InLoop, Streaming, Running, Stopping, Ending, Leaving, Joining, Alone, Silent
<1>1. CASE InitDevice(d)
  BY <1>1 DEF InitDevice, ZeroDevice
<1>2. CASE InitReturns(d)
  BY <1>2 DEF InitReturns, Initialized, StartFrom
<1>3. CASE StopHardware(d)
  BY <1>3 DEF StopHardware, Begin, Go
<1>4. CASE UninitDevice(d)
  BY <1>4 DEF UninitDevice, Go
<1>5. CASE SignalExit(d)
  BY <1>5 DEF SignalExit, Go
<1>6. CASE UninitReturns(d)
  BY <1>6 DEF UninitReturns, ZeroDevice
<1>7. ASSUME NEW t \in Thread, StartDevice(t, d) PROVE Seen(d)
  <2>1. CASE t = "isolate"
    BY <1>7, <2>1 DEF StartDevice, Go, Locks
  <2>2. CASE t = "system"
    BY <1>7, <2>2 DEF StartDevice, Go, Locks
  <2> QED BY <2>1, <2>2 DEF Thread
<1>8. ASSUME NEW t \in Thread, StartReturns(t, d) PROVE Seen(d)
  <2>1. CASE t = "isolate"
    BY <1>8, <2>1 DEF StartReturns, Go, Unlocks
  <2>2. CASE t = "system"
    BY <1>8, <2>2 DEF StartReturns, Go, Unlocks
  <2> QED BY <2>1, <2>2 DEF Thread
<1>9. ASSUME NEW t \in Thread, StopDevice(t, d) PROVE Seen(d)
  <2>1. CASE t = "isolate"
    BY <1>9, <2>1 DEF StopDevice, Go, Locks, AfterStop
  <2>2. CASE t = "system"
    BY <1>9, <2>2 DEF StopDevice, Go, Locks, AfterStop
  <2> QED BY <2>1, <2>2 DEF Thread
<1>10. ASSUME NEW t \in Thread, MarkStopping(t, d) PROVE Seen(d)
  <2>1. CASE t = "isolate"
    BY <1>10, <2>1 DEF MarkStopping, Go
  <2>2. CASE t = "system"
    BY <1>10, <2>2 DEF MarkStopping, Go
  <2> QED BY <2>1, <2>2 DEF Thread
<1>11. ASSUME NEW t \in Thread, StopReturns(t, d) PROVE Seen(d)
  <2>1. CASE t = "isolate"
    BY <1>11, <2>1 DEF StopReturns, Go, Unlocks, AfterStop
  <2>2. CASE t = "system"
    BY <1>11, <2>2 DEF StopReturns, Go, Unlocks, AfterStop
  <2> QED BY <2>1, <2>2 DEF Thread
<1>12. CASE Unplugged(d)
  BY <1>12 DEF Unplugged, Notice, Go
<1>13. CASE PluggedIn(d)
  BY <1>13 DEF PluggedIn, Notice, Go, StartFrom
<1>14. CASE DefaultChanged(d)
  BY <1>14 DEF DefaultChanged, Notice, Go
<1>15. CASE NoRoute(d)
  BY <1>15 DEF NoRoute, Go
<1>16. CASE Reroute(d)
  BY <1>16 DEF Reroute, Go, StartFrom
<1>17. CASE Boot(d)
  BY <1>17 DEF Boot, Work
<1>18. CASE Wake(d)
  BY <1>18 DEF Wake, Work
<1>19. CASE BackendStarts(d)
  BY <1>19 DEF BackendStarts, Work
<1>20. CASE BackendFails(d)
  BY <1>20 DEF BackendFails, Work
<1>21. CASE ReadPeriod(d)
  BY <1>21 DEF ReadPeriod, Work
<1>22. CASE Deliver(d)
  BY <1>22 DEF Deliver, Work
<1>23. CASE CallbackReturns(d)
  BY <1>23 DEF CallbackReturns, Work
<1>24. CASE PeriodEnds(d)
  BY <1>24 DEF PeriodEnds, Work
<1>25. CASE Stop(d)
  BY <1>25 DEF Stop, Work, LeaveLoop
<1>26. CASE BackendStops(d)
  BY <1>26 DEF BackendStops, Work
<1>27. CASE SetStopped(d)
  BY <1>27 DEF SetStopped, Work
<1>28. CASE SignalStopped(d)
  BY <1>28 DEF SignalStopped, Work
<1>29. CASE Fill(d)
  <2>1. at[d]["isolate"] = "starting" /\ ~startEvent[d] /\ Starting(d)
    <3>1. worker[d] = "backend" /\ FirstStart(d) /\ Alone(d) /\ at[d]["isolate"] \in Point
      BY <1>29 DEF Fill, Work, Inv, TypeOK, DeviceInv, Thread
    <3> QED BY <3>1
       DEF Alone, Closed, FirstStart, Booting, Ready, Starting, Running, Stopping,
       Ending, Leaving, Joining, InLoop, Streaming, Point
  <2>2. initialized' = initialized /\ startEvent' = startEvent /\ at' = at
        /\ worker' = [worker EXCEPT ![d] = "fill"] /\ worker[d] = "backend" /\ Early(d)
    BY <1>29 DEF Fill, Work, Early, shared, events
  <2>3. worker'[d] = "fill"
    BY <2>2 DEF Inv, TypeOK
  <2>4. PhaseOf(d) = "ready" /\ PhaseOf(d)' = "ready"
    BY <2>1, <2>2, <2>3 DEF PhaseOf, Unstarted, Streaming, Starting
  <2> QED BY <2>2, <2>3, <2>4 DEF Seen, CallingBack
<1>30. CASE Fail(d)
  BY <1>30 DEF Fail, Work, LeaveLoop
<1>31. CASE Drain(d)
  BY <1>31 DEF Drain, Work
<1> QED BY <1>1, <1>2, <1>3, <1>4, <1>5, <1>6, <1>7, <1>8, <1>9, <1>10, <1>11, <1>12,
    <1>13, <1>14, <1>15, <1>16, <1>17, <1>18, <1>19, <1>20, <1>21, <1>22, <1>23, <1>24,
    <1>25, <1>26, <1>27, <1>28, <1>29, <1>30, <1>31
   DEF DeviceNext, Isolate, System, Calls, Notifies, Works, Thread

-----------------------------------------------------------------------------
(* Theorems                                                                *)

\* The invariant holds at first,
LEMMA InitInv == Init => Inv
BY DEF Init, Inv, TypeOK, DeviceInv, Locked, FirstStart, Alone, Closed, Silent,
   Device, State, Worker, Thread, Point

\* and every step of any thread, on either device, keeps it.
LEMMA NextInv == Inv /\ [Next]_vars => Inv'
<1> SUFFICES ASSUME Inv, [Next]_vars PROVE Inv'
  OBVIOUS
<1>1. CASE UNCHANGED vars
  <2>1. TypeOK'
    BY <1>1 DEF vars, shared, events, routing, Inv, TypeOK
  <2>2. \A d \in Device : DeviceInv(d)'
    BY <1>1, UntouchedInv DEF vars, shared, events, routing, Inv, Untouched
  <2> QED BY <2>1, <2>2 DEF Inv
<1>2. ASSUME NEW d \in Device, DeviceNext(d) PROVE Inv'
  <2>1. TypeOK' /\ DeviceInv(d)'
    BY <1>2, StepFrame, StepInv
  <2>2. \A e \in Device \ {d} : DeviceInv(e)'
    BY <1>2, StepFrame, UntouchedInv DEF Inv
  <2> QED BY <2>1, <2>2 DEF Inv
<1> QED BY <1>1, <1>2 DEF Next

\* The inductive invariant: at every point of the isolate's call, where the worker
\* can be and what it has signalled; up to the first start on every backend, and
\* through the whole life of a device where there are no notifications.
THEOREM InvHolds == Spec => []Inv
BY InitInv, NextInv, PTL DEF Spec

\* Type correctness, for any two devices.
THEOREM TypeCorrect == Spec => []TypeOK
<1>1. Inv => TypeOK
  BY DEF Inv
<1> QED BY InvHolds, <1>1, PTL

\* Without notifications, between two calls of start_hardware_* and stop_hardware_*
\* no event of ma_device holds a signal a later ma_event_wait could take for its
\* own, except the stop of a stream that has ended by itself, and then
\* ma_device_stop does not wait.
THEOREM NoStaleSignalHolds == Spec => []NoStaleSignal
<1>1. Inv => NoStaleSignal
  <2> SUFFICES ASSUME Inv, backend # "wasapi", Idle, NEW d \in Device
               PROVE  /\ ~wakeup[d] /\ ~startEvent[d]
                      /\ stopEvent[d] => /\ initialized[d] /\ worker[d] = "wait"
                                         /\ state[d] = "stopped"
    BY DEF NoStaleSignal
  <2>1. Closed(d) \/ (Running(d) /\ ~startEvent[d])
    BY DEF Inv, DeviceInv, Alone, Idle
  <2> QED BY <2>1 DEF Closed, Running, Silent
<1> QED BY InvHolds, <1>1, PTL

\* A step of one device is a step of that device as the engine sees it, and none
\* of the other; the backend stays.
LEMMA NextSeen == Inv /\ [Next]_vars => backend' = backend /\ \A d \in Device : Seen(d)
<1> SUFFICES ASSUME Inv, [Next]_vars, NEW e \in Device PROVE backend' = backend /\ Seen(e)
  BY DEF Device
<1>1. CASE UNCHANGED vars
  <2>1. Untouched(e)
    BY <1>1 DEF vars, shared, events, routing, Untouched
  <2> QED BY <2>1, UntouchedPhase DEF Seen, Untouched
<1>2. ASSUME NEW d \in Device, DeviceNext(d) PROVE backend' = backend /\ Seen(e)
  <2>1. backend' = backend
    BY <1>2, DevicesDiffer, StepFrame DEF Untouched, Device
  <2>2. CASE e = d
    BY <1>2, <2>1, <2>2, StepSeen
  <2>3. CASE e # d
    <3>1. Untouched(e)
      BY <1>2, <2>3, StepFrame
    <3> QED BY <2>1, <3>1, UntouchedPhase DEF Seen
  <2> QED BY <2>2, <2>3
<1> QED BY <1>1, <1>2 DEF Next

\* The refinement: the isolate, the system and the worker of ma_device, for both
\* devices, implement AudioDevice on every backend.  No data callback runs once
\* stop_hardware_* has returned, and a stream starts a second time on WASAPI alone.
THEOREM DeviceImplemented == Spec => ImplementsDevice
<1>1. Init => Microphone!Init /\ Speaker!Init
  BY DEF Init, Microphone!Init, Speaker!Init, PhaseOf, CallingBack, Device
<1>2. Inv /\ [Next]_vars => [Microphone!Next]_(Microphone!deviceVars)
  <2> SUFFICES ASSUME backend' = backend, Seen(Capture)
               PROVE  [Microphone!Next]_(Microphone!deviceVars)
    BY NextSeen DEF Device
  <2>1. ~Early(Capture)
    BY DevicesDiffer DEF Early
  <2>2. Microphone!kind' = Microphone!kind
    BY DEF Microphone!kind
  <2>3. CallingBack(Capture) \in BOOLEAN /\ CallingBack(Capture)' \in BOOLEAN
    BY DEF CallingBack
  <2> HIDE DEF CallingBack, PhaseOf
  <2>4. ASSUME NEW from, NEW to, Turned(Capture, from, to) PROVE Microphone!Turn(from, to)
    BY <2>2, <2>3, <2>4 DEF Turned, Microphone!Turn, Microphone!SameKind
  <2>5. CASE /\ PhaseOf(Capture)' = PhaseOf(Capture)
             /\ CallingBack(Capture)' = CallingBack(Capture)
    BY <2>5, <2>2 DEF Microphone!deviceVars
  <2>6. CASE \/ Turned(Capture, "closed", "ready") \/ Turned(Capture, "ready", "open")
             \/ Turned(Capture, "ready", "ended") \/ Turned(Capture, "open", "ended")
             \/ backend = "wasapi" /\ Turned(Capture, "ended", "open")
             \/ Turned(Capture, "ended", "closed")
    BY <2>4, <2>6
       DEF Microphone!Next, Microphone!Prepare, Microphone!Open, Microphone!Refuse,
       Microphone!End, Microphone!Restart, Microphone!Close
  <2>7. CASE /\ PhaseOf(Capture) = "open" \/ (Early(Capture) /\ PhaseOf(Capture) = "ready")
             /\ PhaseOf(Capture)' = PhaseOf(Capture)
             /\ ~CallingBack(Capture) /\ CallingBack(Capture)'
    BY <2>1, <2>2, <2>3, <2>7 DEF Microphone!Next, Microphone!Enter, Microphone!SameKind
  <2>8. CASE /\ PhaseOf(Capture)' = PhaseOf(Capture)
             /\ CallingBack(Capture) /\ ~CallingBack(Capture)'
    BY <2>2, <2>3, <2>8 DEF Microphone!Next, Microphone!Leave, Microphone!SameKind
  <2> QED BY <2>5, <2>6, <2>7, <2>8 DEF Seen
<1>3. Inv /\ [Next]_vars => [Speaker!Next]_(Speaker!deviceVars)
  <2> SUFFICES ASSUME backend' = backend, Seen(Playback)
               PROVE  [Speaker!Next]_(Speaker!deviceVars)
    BY NextSeen DEF Device
  <2>2. Speaker!kind' = Speaker!kind
    BY DEF Speaker!kind
  <2>3. CallingBack(Playback) \in BOOLEAN /\ CallingBack(Playback)' \in BOOLEAN
    BY DEF CallingBack
  <2> HIDE DEF CallingBack, PhaseOf
  <2>4. ASSUME NEW from, NEW to, Turned(Playback, from, to) PROVE Speaker!Turn(from, to)
    BY <2>2, <2>3, <2>4 DEF Turned, Speaker!Turn, Speaker!SameKind
  <2>5. CASE /\ PhaseOf(Playback)' = PhaseOf(Playback)
             /\ CallingBack(Playback)' = CallingBack(Playback)
    BY <2>5, <2>2 DEF Speaker!deviceVars
  <2>6. CASE \/ Turned(Playback, "closed", "ready") \/ Turned(Playback, "ready", "open")
             \/ Turned(Playback, "ready", "ended") \/ Turned(Playback, "open", "ended")
             \/ backend = "wasapi" /\ Turned(Playback, "ended", "open")
             \/ Turned(Playback, "ended", "closed")
    BY <2>4, <2>6 DEF Speaker!Next, Speaker!Prepare, Speaker!Open, Speaker!Refuse,
       Speaker!End, Speaker!Restart, Speaker!Close
  <2>7. CASE /\ PhaseOf(Playback) = "open" \/ (Early(Playback) /\ PhaseOf(Playback) = "ready")
             /\ PhaseOf(Playback)' = PhaseOf(Playback)
             /\ ~CallingBack(Playback) /\ CallingBack(Playback)'
    BY <2>2, <2>3, <2>7 DEF Early, Speaker!Next, Speaker!Enter, Speaker!SameKind
  <2>8. CASE /\ PhaseOf(Playback)' = PhaseOf(Playback)
             /\ CallingBack(Playback) /\ ~CallingBack(Playback)'
    BY <2>2, <2>3, <2>8 DEF Speaker!Next, Speaker!Leave, Speaker!SameKind
  <2> QED BY <2>5, <2>6, <2>7, <2>8 DEF Seen
<1> QED BY InvHolds, <1>1, <1>2, <1>3, PTL DEF Spec, ImplementsDevice,
  Microphone!Spec, Speaker!Spec
=============================================================================
