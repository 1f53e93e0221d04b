------------------------------ MODULE MaDevice ------------------------------
(***************************************************************************)
(* The miniaudio devices as libvoice_engine.c uses them, on the backends   *)
(* that have a worker thread.  Three kinds of thread meet in a device: the *)
(* isolate, which calls start_hardware_* and stop_hardware_*; the worker,  *)
(* which starts the backend, streams and stops; and on WASAPI the thread   *)
(* of the system that notifies of devices unplugged, plugged in and made   *)
(* the default, on which miniaudio stops and starts the device itself.     *)
(* They share the device's state, its three auto-reset events and          *)
(* startStopLock, which ma_device_uninit does not take.                    *)
(*                                                                         *)
(* PulseAudio calls the data callback while a device starts and stops.     *)
(* The asynchronous backends (Core Audio, AAudio) have no worker and are   *)
(* left out.                                                               *)
(***************************************************************************)
CONSTANTS
    Capture, Playback,  \* g_capture_device, g_playback_device
    Notified            \* the devices that something happens to; a bound for TLC

ASSUME DevicesDiffer == Capture # Playback
ASSUME NotifiedDevices == Notified \subseteq {Capture, Playback}

VARIABLES
    backend,      \* the backend of g_ma_context
    initialized,  \* g_capture_device_initialized, g_playback_device_initialized
    state,        \* pDevice->state
    wakeup,       \* pDevice->wakeupEvent is signalled
    startEvent,   \* pDevice->startEvent
    stopEvent,    \* pDevice->stopEvent
    workResult,   \* pDevice->workResult
    worker,       \* where the worker thread of a device is
    lock,         \* who holds pDevice->startStopLock
    at,           \* where the isolate and the system are in a call on a device
    detached,     \* pDevice->wasapi.isDetachedCapture, isDetachedPlayback
    restart       \* restartDevice of OnDefaultDeviceChanged

events == <<wakeup, startEvent, stopEvent>>
shared == <<state, events, workResult>>
routing == <<detached, restart>>
vars == <<backend, initialized, shared, worker, lock, at, routing>>

Device == {Capture, Playback}
Backend == {"alsa", "pulse", "wasapi"}
Thread == {"isolate", "system"}
State == {"uninitialized", "stopped", "starting", "started", "stopping"}
Worker == {"none", "boot", "wait", "backend", "fill", "loop", "deliver", "callback",
           "ended", "drain", "checked", "stopped", "exited"}
Point == {"idle", "init", "startLock", "starting", "stopLock", "mark", "stopping",
          "reroute", "uninit", "signal", "join"}

TypeOK ==
    /\ backend \in Backend
    /\ initialized \in [Device -> BOOLEAN]
    /\ state \in [Device -> State]
    /\ wakeup \in [Device -> BOOLEAN]
    /\ startEvent \in [Device -> BOOLEAN]
    /\ stopEvent \in [Device -> BOOLEAN]
    /\ workResult \in [Device -> {"success", "error"}]
    /\ worker \in [Device -> Worker]
    /\ lock \in [Device -> Thread \cup {"nobody"}]
    /\ at \in [Device -> [Thread -> Point]]
    /\ detached \in [Device -> BOOLEAN]
    /\ restart \in [Device -> BOOLEAN]

Init ==
    /\ backend \in Backend
    /\ initialized = [d \in Device |-> FALSE]
    /\ state = [d \in Device |-> "uninitialized"]
    /\ wakeup = [d \in Device |-> FALSE]
    /\ startEvent = [d \in Device |-> FALSE]
    /\ stopEvent = [d \in Device |-> FALSE]
    /\ workResult = [d \in Device |-> "success"]
    /\ worker = [d \in Device |-> "none"]
    /\ lock = [d \in Device |-> "nobody"]
    /\ at = [d \in Device |-> [t \in Thread |-> "idle"]]
    /\ detached = [d \in Device |-> FALSE]
    /\ restart = [d \in Device |-> FALSE]

\* A mistake: a device is counted as stopped under a name nobody tests for.
SetStateRenamed(d, s) == state' = [state EXCEPT ![d] = IF s = "stopped" THEN "paused" ELSE s]

SetState(d, s) == state' = [state EXCEPT ![d] = s]
Signal(event, d) == [event EXCEPT ![d] = TRUE]
Reset(event, d) == [event EXCEPT ![d] = FALSE]

-----------------------------------------------------------------------------
(* ma_device_start and ma_device_stop, which the isolate and the system    *)
(* call.  They look at the state before they take the lock, and again with *)
(* it; a thread is at startLock or stopLock from the first look on.        *)

\* Thread t goes on from one point of its call on device d to the next.
Go(t, d, here, next) ==
    /\ at[d][t] = here
    /\ at' = [at EXCEPT ![d][t] = next]
    /\ UNCHANGED <<backend, initialized, worker>>

Locks(t, d) == lock[d] = "nobody" /\ lock' = [lock EXCEPT ![d] = t]
Unlocks(t, d) == lock' = [lock EXCEPT ![d] = "nobody"]

\* Where a thread starts a device, unless there is nothing to start.
StartFrom(d) == IF state[d] \in {"uninitialized", "started"} THEN "idle" ELSE "startLock"

\* The isolate goes on to ma_device_uninit, the system perhaps to a new route.
AfterStop(t, d) ==
    IF t = "isolate" THEN "uninit" ELSE IF restart[d] THEN "reroute" ELSE "idle"

\* Another thread may have started the device since, or have begun to tear it
\* down, which is not looked for again.
StartDevice(t, d) ==
    /\ \/ /\ state[d] \in {"uninitialized", "started"}
          /\ Go(t, d, "startLock", "idle")
          /\ UNCHANGED <<shared, lock>>
       \/ /\ state[d] # "started"
          /\ Go(t, d, "startLock", "starting")
          /\ Locks(t, d)
          /\ SetState(d, "starting")
          /\ wakeup' = Signal(wakeup, d)
          /\ UNCHANGED <<startEvent, stopEvent, workResult>>
    /\ UNCHANGED routing

\* A start that failed puts the state back; the isolate then tears down.
StartReturns(t, d) ==
    /\ startEvent[d]
    /\ startEvent' = Reset(startEvent, d)
    /\ Unlocks(t, d)
    /\ \/ workResult[d] = "success" /\ Go(t, d, "starting", "idle") /\ UNCHANGED state
       \/ /\ workResult[d] = "error"
          /\ Go(t, d, "starting", IF t = "isolate" THEN "uninit" ELSE "idle")
          /\ SetState(d, "stopped")
    /\ UNCHANGED <<wakeup, stopEvent, workResult, routing>>

StopDevice(t, d) ==
    /\ \/ /\ state[d] \in {"uninitialized", "stopped"}
          /\ Go(t, d, "stopLock", AfterStop(t, d))
          /\ UNCHANGED lock
       \/ state[d] # "stopped" /\ Go(t, d, "stopLock", "mark") /\ Locks(t, d)
    /\ UNCHANGED <<shared, routing>>

\* The worker may have stopped by itself since the read: the write is blind.
MarkStopping(t, d) ==
    /\ Go(t, d, "mark", "stopping")
    /\ SetState(d, "stopping")
    /\ UNCHANGED <<events, workResult, lock, routing>>

StopReturns(t, d) ==
    /\ Go(t, d, "stopping", AfterStop(t, d))
    /\ stopEvent[d]
    /\ stopEvent' = Reset(stopEvent, d)
    /\ Unlocks(t, d)
    /\ UNCHANGED <<state, wakeup, startEvent, workResult, routing>>

Calls(t, d) ==
    StartDevice(t, d) \/ StartReturns(t, d) \/ StopDevice(t, d) \/ MarkStopping(t, d) \/ StopReturns(t, d)

-----------------------------------------------------------------------------
(* The isolate                                                             *)

Idle == \A d \in Device : at[d]["isolate"] = "idle"

\* MA_ZERO_OBJECT, and the events and locks of ma_device_init and ma_device_uninit.
ZeroDevice(d) ==
    /\ SetState(d, "uninitialized")
    /\ wakeup' = Reset(wakeup, d)
    /\ startEvent' = Reset(startEvent, d)
    /\ stopEvent' = Reset(stopEvent, d)
    /\ workResult' = [workResult EXCEPT ![d] = "success"]
    /\ lock' = [lock EXCEPT ![d] = "nobody"]
    /\ detached' = [detached EXCEPT ![d] = FALSE]
    /\ restart' = [restart EXCEPT ![d] = FALSE]

\* start_hardware_*: ma_device_init creates the worker.  An init that fails
\* leaves everything as it was.
InitDevice(d) ==
    /\ Idle
    /\ ~initialized[d]
    /\ at' = [at EXCEPT ![d]["isolate"] = "init"]
    /\ worker' = [worker EXCEPT ![d] = "boot"]
    /\ ZeroDevice(d)
    /\ UNCHANGED <<backend, initialized>>

Initialized(d) ==
    /\ at[d]["isolate"] = "init"
    /\ at' = [at EXCEPT ![d]["isolate"] = StartFrom(d)]
    /\ initialized' = [initialized EXCEPT ![d] = TRUE]
    /\ UNCHANGED <<backend, state, wakeup, startEvent, workResult, worker, lock, routing>>

\* A mistake: init looks at the state and leaves the worker's signal behind.
InitPolls(d) == state[d] = "stopped" /\ Initialized(d) /\ UNCHANGED stopEvent

\* The worker is ready, and ma_device_start follows.
InitReturns(d) ==
    /\ stopEvent[d]
    /\ stopEvent' = Reset(stopEvent, d)
    /\ Initialized(d)

Begin(d, next) ==
    /\ Idle
    /\ initialized[d]
    /\ Go("isolate", d, "idle", next)
    /\ UNCHANGED <<shared, lock, routing>>

\* A mistake: the device is torn down without ma_device_stop.
DropDevice(d) == Begin(d, "uninit")

\* stop_hardware_*: ma_device_stop returns at once when the device has stopped.
StopHardware(d) ==
    Begin(d, IF state[d] \in {"uninitialized", "stopped"} THEN "uninit" ELSE "stopLock")

\* ma_device_uninit takes no lock.
UninitDevice(d) ==
    /\ Go("isolate", d, "uninit", "signal")
    /\ SetState(d, "uninitialized")
    /\ UNCHANGED <<events, workResult, lock, routing>>

SignalExit(d) ==
    /\ Go("isolate", d, "signal", "join")
    /\ wakeup' = Signal(wakeup, d)
    /\ UNCHANGED <<state, startEvent, stopEvent, workResult, lock, routing>>

\* ma_thread_wait returns, the notifications end and the device is torn down.
\* Ending the notifications waits for one that is being handled.
UninitReturns(d) ==
    /\ at[d] = [isolate |-> "join", system |-> "idle"]
    /\ worker[d] = "exited"
    /\ at' = [at EXCEPT ![d]["isolate"] = "idle"]
    /\ worker' = [worker EXCEPT ![d] = "none"]
    /\ initialized' = [initialized EXCEPT ![d] = FALSE]
    /\ ZeroDevice(d)
    /\ UNCHANGED backend

Isolate(d) ==
    \/ Calls("isolate", d) \/ InitReturns(d)
    \/ UninitDevice(d) \/ SignalExit(d) \/ UninitReturns(d)

-----------------------------------------------------------------------------
(* The system's notifications: WASAPI, automatic stream routing.  A device *)
(* is told of what concerns it from its init to its teardown.              *)

Notice(d, next) ==
    /\ backend = "wasapi" /\ d \in Notified /\ worker[d] # "none"
    /\ Go("system", d, "idle", next)
    /\ UNCHANGED <<shared, lock>>

\* OnDeviceStateChanged, no longer active.
Unplugged(d) ==
    /\ state[d] = "started"
    /\ Notice(d, "stopLock")
    /\ detached' = [detached EXCEPT ![d] = TRUE]
    /\ restart' = [restart EXCEPT ![d] = FALSE]

\* OnDeviceStateChanged, active again: a device that was detached is started.
PluggedIn(d) ==
    /\ detached[d]
    /\ Notice(d, StartFrom(d))
    /\ detached' = [detached EXCEPT ![d] = FALSE]
    /\ UNCHANGED restart

\* OnDefaultDeviceChanged, which leaves a device alone that is about to start.
DefaultChanged(d) ==
    /\ state[d] \notin {"uninitialized", "starting"}
    /\ Notice(d, IF state[d] = "started" THEN "stopLock" ELSE "reroute")
    /\ restart' = [restart EXCEPT ![d] = (state[d] = "started")]
    /\ UNCHANGED detached

\* There may be no other device.
NoRoute(d) ==
    /\ Go("system", d, "reroute", "idle")
    /\ restart' = [restart EXCEPT ![d] = FALSE]
    /\ UNCHANGED <<shared, lock, detached>>

\* The stream is set up anew, and started if it was running or detached.
Reroute(d) ==
    /\ Go("system", d, "reroute", IF restart[d] \/ detached[d] THEN StartFrom(d) ELSE "idle")
    /\ detached' = [detached EXCEPT ![d] = FALSE]
    /\ restart' = [restart EXCEPT ![d] = FALSE]
    /\ UNCHANGED <<shared, lock>>

Notifies(d) == Unplugged(d) \/ PluggedIn(d) \/ DefaultChanged(d)

System(d) == Calls("system", d) \/ NoRoute(d) \/ Reroute(d)

-----------------------------------------------------------------------------
(* The worker thread of device d.                                          *)

Work(d, here, next) ==
    /\ worker[d] = here
    /\ worker' = [worker EXCEPT ![d] = next]
    /\ UNCHANGED <<backend, initialized, lock, at, routing>>

Boot(d) ==
    /\ Work(d, "boot", "wait")
    /\ SetState(d, "stopped")
    /\ stopEvent' = Signal(stopEvent, d)
    /\ UNCHANGED <<wakeup, startEvent, workResult>>

\* Only the state tells what the worker was woken for.
Wake(d) ==
    /\ wakeup[d]
    /\ wakeup' = Reset(wakeup, d)
    /\ workResult' = [workResult EXCEPT ![d] = "success"]
    /\ Work(d, "wait", IF state[d] = "uninitialized" THEN "exited" ELSE "backend")
    /\ UNCHANGED <<state, startEvent, stopEvent>>

\* PulseAudio's first buffer is filled before the stream is uncorked, which may
\* fail all the same.
Fill(d) ==
    /\ backend = "pulse" /\ d = Playback
    /\ state[d] \in {"starting", "started"}
    /\ Work(d, "backend", "fill")
    /\ UNCHANGED shared

BackendStarts(d) ==
    /\ Work(d, "backend", "loop")
    /\ SetState(d, "started")
    /\ startEvent' = Signal(startEvent, d)
    /\ UNCHANGED <<wakeup, stopEvent, workResult>>

\* A mistake: only a backend that starts signals startEvent.
BackendFailsSilently(d) ==
    /\ Work(d, "backend", "wait")
    /\ workResult' = [workResult EXCEPT ![d] = "error"]
    /\ UNCHANGED <<state, events>>

BackendFails(d) ==
    /\ Work(d, "backend", "wait")
    /\ workResult' = [workResult EXCEPT ![d] = "error"]
    /\ startEvent' = Signal(startEvent, d)
    /\ UNCHANGED <<state, wakeup, stopEvent>>

\* The loop reads a period, or prepares one to play, while the state is started.
ReadPeriod(d) ==
    /\ state[d] = "started"
    /\ Work(d, "loop", "deliver")
    /\ UNCHANGED shared

\* ma_device__on_data: no callback in the process of stopping.
Deliver(d) ==
    /\ Work(d, "deliver", IF state[d] = "stopping" THEN "loop" ELSE "callback")
    /\ UNCHANGED shared

\* A period may take more than one callback.
CallbackReturns(d) ==
    /\ \/ Work(d, "callback", "deliver")
       \/ Work(d, "fill", "backend") \/ Work(d, "drain", "ended")
    /\ UNCHANGED shared

PeriodEnds(d) == Work(d, "callback", "loop") /\ UNCHANGED shared

LeaveLoop(d) == Work(d, "loop", "ended") /\ UNCHANGED shared

\* The loop ends because the state is no longer started.
Stop(d) == state[d] # "started" /\ LeaveLoop(d)

\* A read or a write fails, as when the device is unplugged.
Fail(d) == state[d] = "started" /\ LeaveLoop(d)

\* PulseAudio's main loop runs on until the stream is corked.
Drain(d) ==
    /\ backend = "pulse"
    /\ state[d] = "started"
    /\ Work(d, "ended", "drain")
    /\ UNCHANGED shared

\* onDeviceStop, and a look whether the device is being torn down.
BackendStops(d) ==
    /\ Work(d, "ended", IF state[d] = "uninitialized" THEN "exited" ELSE "checked")
    /\ UNCHANGED shared

\* A second blind write: the isolate may have set the state since the look.
SetStopped(d) ==
    /\ Work(d, "checked", "stopped")
    /\ SetState(d, "stopped")
    /\ UNCHANGED <<events, workResult>>

SignalStopped(d) ==
    /\ Work(d, "stopped", "wait")
    /\ stopEvent' = Signal(stopEvent, d)
    /\ UNCHANGED <<state, wakeup, startEvent, workResult>>

Works(d) ==
    \/ Boot(d) \/ Wake(d) \/ BackendStarts(d) \/ BackendFails(d) \/ ReadPeriod(d)
    \/ Deliver(d) \/ CallbackReturns(d) \/ PeriodEnds(d) \/ Stop(d) \/ BackendStops(d)
    \/ SetStopped(d) \/ SignalStopped(d)

-----------------------------------------------------------------------------
DeviceNext(d) ==
    \/ InitDevice(d) \/ StopHardware(d) \/ Isolate(d)
    \/ Notifies(d) \/ System(d)
    \/ Works(d) \/ Fill(d) \/ Fail(d) \/ Drain(d)

Next == \E d \in Device : DeviceNext(d)

\* What goes on however many callbacks there are: a period is finite, and a cork
\* or an uncork that was asked for is done or fails.
Settles(d) == PeriodEnds(d) \/ BackendStarts(d) \/ BackendFails(d) \/ BackendStops(d)

\* All threads run.  A read that blocks returns at the latest when ma_device_stop
\* calls onDeviceDataLoopWakeup.
Spec ==
    /\ Init /\ [][Next]_vars
    /\ \A d \in Device : /\ WF_vars(Isolate(d)) /\ WF_vars(System(d))
                        /\ WF_vars(Works(d)) /\ SF_vars(Settles(d))

-----------------------------------------------------------------------------
(* The device the engine sees.                                             *)

Streaming(d) == worker[d] \in {"loop", "deliver", "callback", "ended", "drain"}

CallingBack(d) == worker[d] \in {"fill", "callback", "drain"}

Unstarted(d) ==
    \/ at[d]["isolate"] = "startLock"
    \/ at[d]["isolate"] = "starting" /\ ~startEvent[d] /\ worker[d] \in {"wait", "backend", "fill"}

PhaseOf(d) ==
    CASE ~initialized[d] -> "closed"
      [] initialized[d] /\ Streaming(d) -> "open"
      [] initialized[d] /\ ~Streaming(d) /\ Unstarted(d) -> "ready"
      [] OTHER -> "ended"

Microphone == INSTANCE AudioDevice
    WITH phase <- PhaseOf(Capture), busy <- CallingBack(Capture),
         early <- FALSE, resumes <- backend = "wasapi"
Speaker == INSTANCE AudioDevice
    WITH phase <- PhaseOf(Playback), busy <- CallingBack(Playback),
         early <- backend = "pulse", resumes <- backend = "wasapi"

\* The threads implement AudioDevice, on every backend: no data callback runs once
\* stop_hardware_* has returned and the engine's mutex may be destroyed, and none
\* before the start, whatever the race between a stream that fails by itself, the
\* system's ma_device_stop and ma_device_start, and the isolate's teardown.  A
\* stream starts a second time on WASAPI alone.
ImplementsDevice == Microphone!Spec /\ Speaker!Spec

\* Without the system's notifications every start_hardware_* and stop_hardware_*
\* returns: the Dart isolate that calls them does not hang in ma_event_wait or
\* ma_thread_wait.
CallsReturn ==
    \A d \in Device :
        (backend # "wasapi" /\ at[d]["isolate"] # "idle") ~> at[d]["isolate"] = "idle"

\* A signal left over in an auto-reset event would let a later wait return at
\* once.  Without the system's notifications, between two calls only a stream that
\* has ended by itself leaves one, and ma_device_stop then returns before it waits.
NoStaleSignal ==
    backend # "wasapi" /\ Idle =>
        \A d \in Device :
            /\ ~wakeup[d] /\ ~startEvent[d]
            /\ stopEvent[d] => initialized[d] /\ worker[d] = "wait" /\ state[d] = "stopped"

\* miniaudio.h, ma_device_uninit: putting the device into an uninitialized state
\* will make the worker thread return.
UninitStopsWorker ==
    \A d \in Device : at[d]["isolate"] = "join" ~> worker[d] \in {"exited", "none"}
=============================================================================
