----------------------------- MODULE AudioDevice -----------------------------
(***************************************************************************)
(* What the voice engine needs of an audio device, and what it must allow  *)
(* it.  Its data callback runs one call at a time, between the start and   *)
(* the end of a stream; when it has been closed no callback is running.    *)
(* Some backends call back before a start has succeeded, and some devices  *)
(* start again by themselves; the others must not.  MaDevice shows that    *)
(* the miniaudio device, used as libvoice_engine.c uses it, is one.        *)
(***************************************************************************)

VARIABLES
    phase,    \* closed; ready: initialised, its start not answered yet; open:
              \* streaming; ended: refused, stopped, or failed while streaming
    busy,     \* its data callback is running
    early,    \* it is one that calls back while it is ready
    resumes   \* it is one that the system may start again

kind == <<early, resumes>>
deviceVars == <<phase, busy, kind>>

Phase == {"closed", "ready", "open", "ended"}

DeviceTypeOK == phase \in Phase /\ busy \in BOOLEAN /\ early \in BOOLEAN /\ resumes \in BOOLEAN

Init == phase = "closed" /\ busy = FALSE /\ early \in BOOLEAN /\ resumes \in BOOLEAN

SameKind == kind' = kind

\* A device is turned from one phase to the next between two callbacks only.
Turn(from, to) == phase = from /\ phase' = to /\ ~busy /\ UNCHANGED busy /\ SameKind

Prepare == Turn("closed", "ready")

Open == Turn("ready", "open")

Refuse == Turn("ready", "ended")

\* The stream is stopped, or stops by itself.
End == Turn("open", "ended")

Restart == resumes /\ Turn("ended", "open")

Close == Turn("ended", "closed")

Enter ==
    /\ phase = "open" \/ (early /\ phase = "ready")
    /\ ~busy /\ busy' = TRUE
    /\ UNCHANGED phase /\ SameKind

Leave == busy /\ busy' = FALSE /\ UNCHANGED phase /\ SameKind

Next == Prepare \/ Open \/ Refuse \/ End \/ Restart \/ Close \/ Enter \/ Leave

Spec == Init /\ [][Next]_deviceVars
=============================================================================
