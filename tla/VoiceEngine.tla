----------------------------- MODULE VoiceEngine -----------------------------
(***************************************************************************)
(* The native audio engine, libvoice_engine.c, driven by audio_engine.dart. *)
(*                                                                         *)
(* All calls come from the one Dart isolate; what runs beside them are the *)
(* data callbacks of the two devices (AudioDevice), which share the rings  *)
(* with the calls under g_audio_mutex and read the flags outside it.  A    *)
(* Dart method that starts or stops hardware is a list of native steps, in *)
(* todo: the isolate waits for each, the callbacks go on meanwhile.        *)
(*                                                                         *)
(* A sample is a numbered block: levels, gains, the limiter and the device *)
(* formats are left out.  _isCapturing and _isPlaybackActive change        *)
(* together and are one flag, inVoice; so are _isLocalMuted and            *)
(* g_local_muted.  Nothing in the application calls set_ptt_state, so      *)
(* g_ptt_pressed stays false.                                              *)
(***************************************************************************)
EXTENDS SampleRing

CONSTANTS
    User,         \* the remote speakers
    Self,         \* the user of slot 0, the loopback of the microphone test
    Nobody,       \* the user of a slot that is not active
    MaxPeers,     \* MAX_PEERS
    Frame,        \* SAMPLES_PER_FRAME, in blocks
    Period,       \* most blocks a device callback handles
    Hangover,     \* vad_hangover_ms, in frames
    Packets,      \* the sizes of the packets that arrive, in blocks
    MaxBlocks,    \* bound: blocks the microphone and the network deliver
    Modes         \* the activation modes the user selects (TRUE: voice activity)

ASSUME EngineConstants ==
    /\ Self \notin User /\ Nobody \notin User /\ Self # Nobody
    /\ MaxPeers \in Nat \ {0} /\ Frame \in Nat \ {0} /\ Period \in Nat \ {0}
    /\ Frame < RingSize /\ Period < RingSize
    /\ Packets \subseteq 1 .. Frame /\ Hangover \in Nat /\ MaxBlocks \in Nat
    /\ Modes \subseteq BOOLEAN /\ Modes # {}

VARIABLES
    up,         \* the mutex and the miniaudio context exist
    inVoice,    \* _isCapturing, _isPlaybackActive
    testing,    \* _isTestingMic
    muted,      \* g_local_muted
    deafened,   \* g_local_deafened
    capturing,  \* g_capturing
    playing,    \* g_playing
    loopback,   \* g_mic_test_loopback
    vadMode,    \* g_vad_mode
    hangover,   \* g_hangover_ms_left, in frames
    speaking,   \* g_stats.is_speaking
    mic, micBusy, spk, spkBusy,  \* the two devices, see AudioDevice
    ring,       \* g_capture_ring
    peers,      \* g_peers
    todo,       \* what the Dart call under way has left to do
    captured,   \* history: blocks captured
    taken,      \* history: the last block capture_frame has handed out
    fed,        \* history: blocks received
    heard       \* history: the last block of each user that was mixed

flags == <<up, inVoice, testing, muted, deafened, capturing, playing, loopback, vadMode>>
voiceActivity == <<hangover, speaking>>
devices == <<mic, micBusy, spk, spkBusy>>
capture == <<ring, captured, taken>>
mixer == <<peers, fed, heard>>
vars == <<flags, voiceActivity, devices, capture, mixer, todo>>

\* The devices of any backend: one of PulseAudio may play early, and one of WASAPI
\* may start again by itself.
Microphone == INSTANCE AudioDevice
    WITH phase <- mic, busy <- micBusy, early <- FALSE, resumes <- TRUE
Speaker == INSTANCE AudioDevice
    WITH phase <- spk, busy <- spkBusy, early <- TRUE, resumes <- TRUE

Slot == 0 .. MaxPeers - 1
RemoteSlot == Slot \ {0}

\* The native steps a Dart method is made of.
Step == {"start capture", "stop capture", "start playback", "stop playback",
         "open mic", "close mic", "open spk", "close spk", "clear peers", "destroy"}

FreeSlot == [user |-> Nobody, ring |-> EmptyRing]

TypeOK ==
    /\ up \in BOOLEAN /\ inVoice \in BOOLEAN /\ testing \in BOOLEAN
    /\ muted \in BOOLEAN /\ deafened \in BOOLEAN
    /\ capturing \in BOOLEAN /\ playing \in BOOLEAN /\ loopback \in BOOLEAN
    /\ vadMode \in BOOLEAN /\ hangover \in 0 .. Hangover /\ speaking \in BOOLEAN
    /\ Microphone!DeviceTypeOK /\ Speaker!DeviceTypeOK
    /\ ring \in Ring
    /\ peers \in [Slot -> [user : User \cup {Self, Nobody}, ring : Ring]]
    /\ todo \in Seq(Step)
    /\ captured \in 0 .. MaxBlocks /\ taken \in 0 .. captured
    /\ fed \in 0 .. MaxBlocks - captured /\ heard \in [User \cup {Self} -> Nat]

\* voice_engine_init
Init ==
    /\ up = TRUE /\ inVoice = FALSE /\ testing = FALSE
    /\ muted = FALSE /\ deafened = FALSE
    /\ capturing = FALSE /\ playing = FALSE /\ loopback = FALSE
    /\ vadMode = TRUE /\ hangover = 0 /\ speaking = FALSE
    /\ Microphone!Init /\ Speaker!Init
    /\ ring = EmptyRing
    /\ peers = [i \in Slot |-> FreeSlot]
    /\ todo = <<>>
    /\ captured = 0 /\ taken = 0 /\ fed = 0
    /\ heard = [u \in User \cup {Self} |-> 0]

-----------------------------------------------------------------------------
(* The data callbacks.                                                     *)

\* The blocks that may still enter; one is kept for a callback under way.
Room == MaxBlocks - captured - fed - (IF micBusy THEN 1 ELSE 0)

\* ma_capture_callback: g_capturing is read before the mutex is taken.
MicEnter ==
    /\ capturing
    /\ Room > 0
    /\ Microphone!Enter
    /\ UNCHANGED <<flags, voiceActivity, spk, spkBusy, capture, mixer, todo>>

MicWrite ==
    /\ Microphone!Leave
    /\ \E n \in 1 .. Period :
          /\ n - 1 <= Room
          /\ ring' = Written(ring, captured + 1, n)
          /\ captured' = captured + n
    /\ UNCHANGED <<flags, voiceActivity, spk, spkBusy, taken, mixer, todo>>

\* ma_playback_callback: g_playing and g_local_deafened outside the mutex.
SpkEnter ==
    /\ playing
    /\ ~deafened
    /\ Speaker!Enter
    /\ UNCHANGED <<flags, voiceActivity, mic, micBusy, capture, mixer, todo>>

\* The slots mix_audio_streams reads: slot 0 in a microphone test only.
Audible(i) == peers[i].user # Nobody /\ (i = 0 => loopback)

\* mix_audio_streams for n blocks; it looks at g_local_deafened again.
SpkMix ==
    /\ Speaker!Leave
    /\ \/ deafened /\ UNCHANGED <<peers, heard>>
       \/ /\ ~deafened
          /\ \E n \in 1 .. Period :
                /\ peers' = [i \in Slot |->
                       IF Audible(i)
                       THEN [user |-> peers[i].user, ring |-> Drained(peers[i].ring, n)]
                       ELSE peers[i]]
                /\ heard' = [u \in User \cup {Self} |->
                       IF \E i \in Slot : Audible(i) /\ peers[i].user = u /\ Available(peers[i].ring) > 0
                       THEN LET r == peers[CHOOSE i \in Slot : Audible(i) /\ peers[i].user = u].ring
                            IN  Unread(r, (IF n < Available(r) THEN n ELSE Available(r)) - 1)
                       ELSE heard[u]]
    /\ UNCHANGED <<flags, voiceActivity, mic, micBusy, capture, fed, todo>>

\* A stream ends, and starts again, by itself: the flags that say it is open stay.
MicTurns ==
    /\ Microphone!End \/ Microphone!Restart
    /\ UNCHANGED <<flags, voiceActivity, spk, spkBusy, capture, mixer, todo>>

SpkTurns ==
    /\ Speaker!End \/ Speaker!Restart
    /\ UNCHANGED <<flags, voiceActivity, mic, micBusy, capture, mixer, todo>>

-----------------------------------------------------------------------------
(* Starting and stopping the hardware.                                     *)

\* The isolate is in no call.
Idle == up /\ todo = <<>>

Begin(step) == todo # <<>> /\ Head(todo) = step
Done == todo' = Tail(todo)
Then(step) == todo' = <<step>> \o Tail(todo)

StartCapture ==
    /\ Begin("start capture")
    /\ capturing' = TRUE
    /\ Then("open mic")
    /\ UNCHANGED <<up, inVoice, testing, muted, deafened, playing, loopback, vadMode,
                   voiceActivity, devices, capture, mixer>>

StopCapture ==
    /\ Begin("stop capture")
    /\ capturing' = FALSE
    /\ speaking' = FALSE
    /\ Then("close mic")
    /\ UNCHANGED <<up, inVoice, testing, muted, deafened, playing, loopback, vadMode,
                   hangover, devices, capture, mixer>>

StartPlayback ==
    /\ Begin("start playback")
    /\ playing' = TRUE
    /\ Then("open spk")
    /\ UNCHANGED <<up, inVoice, testing, muted, deafened, capturing, loopback, vadMode,
                   voiceActivity, devices, capture, mixer>>

StopPlayback ==
    /\ Begin("stop playback")
    /\ playing' = FALSE
    /\ Then("close spk")
    /\ UNCHANGED <<up, inVoice, testing, muted, deafened, capturing, loopback, vadMode,
                   voiceActivity, devices, capture, mixer>>

\* start_hardware_capture: nothing to do when the device has been opened, also
\* when its stream has ended since.  A device that does not start is closed.
OpenMic ==
    /\ Begin("open mic")
    /\ \/ mic \in {"closed", "open", "ended"} /\ Done /\ UNCHANGED <<mic, micBusy>>
       \/ Microphone!Prepare /\ UNCHANGED todo
       \/ Microphone!Open /\ UNCHANGED todo
       \/ Microphone!Refuse /\ Then("close mic")
    /\ UNCHANGED <<flags, voiceActivity, spk, spkBusy, capture, mixer>>

OpenSpk ==
    /\ Begin("open spk")
    /\ \/ spk \in {"closed", "open", "ended"} /\ Done /\ UNCHANGED <<spk, spkBusy>>
       \/ Speaker!Prepare /\ UNCHANGED todo
       \/ Speaker!Open /\ UNCHANGED todo
       \/ Speaker!Refuse /\ Then("close spk")
    /\ UNCHANGED <<flags, voiceActivity, mic, micBusy, capture, mixer>>

\* stop_hardware_capture: ma_device_stop waits for a callback under way.
CloseMic ==
    /\ Begin("close mic")
    /\ \/ mic = "closed" /\ Done /\ UNCHANGED <<mic, micBusy>>
       \/ Microphone!End /\ UNCHANGED todo
       \/ Microphone!Close /\ Done
    /\ UNCHANGED <<flags, voiceActivity, spk, spkBusy, capture, mixer>>

CloseSpk ==
    /\ Begin("close spk")
    /\ \/ spk = "closed" /\ Done /\ UNCHANGED <<spk, spkBusy>>
       \/ Speaker!End /\ UNCHANGED todo
       \/ Speaker!Close /\ Done
    /\ UNCHANGED <<flags, voiceActivity, mic, micBusy, capture, mixer>>

\* voice_engine_clear_peers
ClearPeers ==
    /\ Begin("clear peers")
    /\ loopback' = FALSE
    /\ peers' = [i \in Slot |-> FreeSlot]
    /\ Done
    /\ UNCHANGED <<up, inVoice, testing, muted, deafened, capturing, playing, vadMode,
                   voiceActivity, devices, capture, fed, heard>>

\* The end of voice_engine_destroy.
DestroyContext ==
    /\ Begin("destroy")
    /\ up' = FALSE
    /\ loopback' = FALSE
    /\ Done
    /\ UNCHANGED <<inVoice, testing, muted, deafened, capturing, playing, vadMode,
                   voiceActivity, devices, capture, mixer>>

Hardware ==
    \/ StartCapture \/ StopCapture \/ StartPlayback \/ StopPlayback
    \/ OpenMic \/ OpenSpk \/ CloseMic \/ CloseSpk \/ ClearPeers \/ DestroyContext

-----------------------------------------------------------------------------
(* The calls of the Dart isolate.                                          *)

\* A mistake: a device that is not in use is opened as well.
RestartAlways(close, open, needed) == <<close, open>>

\* A change of device stops and starts one that is in use.
Restart(close, open, needed) == IF needed THEN <<close, open>> ELSE <<>>

SlotOf(u) == {i \in RemoteSlot : peers[i].user = u}
FreeSlots == {i \in RemoteSlot : peers[i].user = Nobody}

\* A mistake: a free slot is taken before the user's own is looked for.
SlotForNewcomer(u) ==
    IF FreeSlots # {} THEN {i \in FreeSlots : \A j \in FreeSlots : i <= j} ELSE SlotOf(u)

\* The slot of user u, or the first free one; none when all are taken.
SlotFor(u) ==
    IF SlotOf(u) # {} THEN SlotOf(u)
    ELSE {i \in FreeSlots : \A j \in FreeSlots : i <= j}

\* The slot's ring for user u: rewound if the slot is new.
RingFor(u, i) == IF peers[i].user = u THEN peers[i].ring ELSE EmptyRing

\* Slot 0 after voice_engine_set_mic_test_loopback(false).
WithoutLoopback == [peers EXCEPT ![0] = FreeSlot]

\* AudioEngineService.stopMicTest, and what the caller goes on to do.
EndMicTest(next) ==
    /\ testing' = FALSE
    /\ loopback' = FALSE
    /\ peers' = WithoutLoopback
    /\ todo' = (IF inVoice THEN <<>> ELSE <<"stop capture", "stop playback">>) \o next
    /\ UNCHANGED <<up, muted, deafened, capturing, playing, vadMode,
                   voiceActivity, devices, capture, fed, heard>>

StopMicTest == Idle /\ EndMicTest(<<>>) /\ UNCHANGED inVoice

\* joinVoice, up to its first await.
PrepareVoice == Idle /\ EndMicTest(<<"clear peers">>) /\ UNCHANGED inVoice

Voice(on, steps) ==
    /\ Idle
    /\ inVoice' = on
    /\ todo' = steps
    /\ UNCHANGED <<up, testing, muted, deafened, capturing, playing, loopback, vadMode,
                   voiceActivity, devices, capture, mixer>>

\* joinVoice, after its last await, and the end of disconnect.
StartVoice == Voice(TRUE, <<"start capture", "start playback">>)
LeaveVoice == Voice(FALSE, <<"stop capture", "stop playback", "clear peers">>)

StartMicTest ==
    /\ Idle
    /\ ~testing
    /\ testing' = TRUE
    /\ loopback' = TRUE
    /\ todo' = (IF capturing THEN <<>> ELSE <<"start capture">>)
               \o (IF playing THEN <<>> ELSE <<"start playback">>)
               \o <<"start capture", "start playback">>
    /\ UNCHANGED <<up, inVoice, muted, deafened, capturing, playing, vadMode,
                   voiceActivity, devices, capture, mixer>>

\* AudioEngineService.destroy
Destroy ==
    /\ Idle
    /\ inVoice' = FALSE
    /\ EndMicTest(<<"stop capture", "stop playback", "stop capture", "stop playback",
                    "destroy">>)

\* A mistake: muting leaves the indicator.
SpeakingKept(mute) == speaking

\* voice_engine_set_local_mute clears the indicator.
SpeakingAfter(mute) == speaking /\ ~mute

\* toggleMute
SetLocalMute ==
    /\ Idle
    /\ muted' = ~muted
    /\ speaking' = SpeakingAfter(muted')
    /\ UNCHANGED <<up, inVoice, testing, deafened, capturing, playing, loopback, vadMode,
                   hangover, devices, capture, mixer, todo>>

\* toggleDeafen: deafening mutes, and undeafening does not unmute.
SetLocalDeafen ==
    /\ Idle
    /\ deafened' = ~deafened
    /\ muted' = (muted \/ ~deafened)
    /\ speaking' = SpeakingAfter(muted')
    /\ UNCHANGED <<up, inVoice, testing, capturing, playing, loopback, vadMode,
                   hangover, devices, capture, mixer, todo>>

SetVadMode ==
    /\ Idle
    /\ vadMode' \in Modes
    /\ UNCHANGED <<up, inVoice, testing, muted, deafened, capturing, playing, loopback,
                   voiceActivity, devices, capture, mixer, todo>>

Change(steps) ==
    /\ Idle
    /\ todo' = steps
    /\ UNCHANGED <<flags, voiceActivity, devices, capture, mixer>>

SetInputDevice == Change(Restart("close mic", "open mic", capturing))
SetOutputDevice == Change(Restart("close spk", "open spk", playing))

SetUserVolume(u) ==
    /\ Idle
    /\ \E i \in SlotFor(u) :
          peers' = [peers EXCEPT ![i] = [user |-> u, ring |-> RingFor(u, i)]]
    /\ UNCHANGED <<flags, voiceActivity, devices, capture, fed, heard, todo>>

\* A packet of k blocks; the notifier drops it when deafened, and the engine when
\* every slot is taken.
FeedInboundPacket(u, k) ==
    /\ Idle
    /\ ~deafened
    /\ k <= Room
    /\ \E i \in SlotFor(u) :
          peers' = [peers EXCEPT ![i] =
              [user |-> u, ring |-> Written(RingFor(u, i), fed + 1, k)]]
    /\ fed' = fed + k
    /\ UNCHANGED <<flags, voiceActivity, devices, capture, heard, todo>>

-----------------------------------------------------------------------------
(* The frame pump: voice_engine_capture_frame every 20 ms.                 *)

PumpRuns == Idle /\ (inVoice \/ testing)

CaptureSilence ==
    /\ PumpRuns
    /\ muted \/ ~(capturing \/ loopback)
    /\ speaking' = FALSE
    /\ UNCHANGED <<flags, hangover, devices, capture, mixer, todo>>

CaptureOn == PumpRuns /\ (capturing \/ loopback) /\ ~muted

\* A mistake: any sample at all makes a frame.
FrameBegun == Available(ring) > 0

FrameReady == Available(ring) >= Frame

CaptureStarved ==
    /\ CaptureOn
    /\ ~FrameReady
    /\ hangover' = 0
    /\ speaking' = FALSE
    /\ UNCHANGED <<flags, devices, capture, mixer, todo>>

\* A mistake: the hangover is counted down below zero.
HangoverUnderflows(loud) == IF loud THEN Hangover ELSE hangover - 1

\* The hangover of a frame in voice activity mode.
NextHangover(loud) ==
    CASE loud -> Hangover
      [] ~loud /\ hangover >= 1 -> hangover - 1
      [] ~loud /\ hangover = 0 -> 0

Detect(loud) ==
    IF vadMode
    THEN /\ speaking' = (loud \/ hangover >= 1)
         /\ hangover' = NextHangover(loud)
    ELSE speaking' = FALSE /\ UNCHANGED hangover

\* The frame goes to the network, and in a microphone test also to slot 0.
CaptureFrame ==
    /\ CaptureOn
    /\ FrameReady
    /\ \E loud \in BOOLEAN : Detect(loud)
    /\ ring' = Consumed(ring, Frame)
    /\ taken' = Unread(ring, Frame - 1)
    /\ peers' = IF loopback
                THEN [peers EXCEPT ![0] =
                    [user |-> Self, ring |-> Written(peers[0].ring, Unread(ring, 0), Frame)]]
                ELSE peers
    /\ UNCHANGED <<flags, devices, captured, fed, heard, todo>>

Pump == CaptureSilence \/ CaptureStarved \/ CaptureFrame

-----------------------------------------------------------------------------
Next ==
    \/ MicEnter \/ MicWrite \/ MicTurns \/ SpkEnter \/ SpkMix \/ SpkTurns
    \/ Hardware
    \/ StopMicTest \/ PrepareVoice \/ StartVoice \/ LeaveVoice \/ StartMicTest \/ Destroy
    \/ SetLocalMute \/ SetLocalDeafen \/ SetVadMode \/ SetInputDevice \/ SetOutputDevice
    \/ \E u \in User : SetUserVolume(u) \/ \E k \in Packets : FeedInboundPacket(u, k)
    \/ Pump

Spec == Init /\ [][Next]_vars

-----------------------------------------------------------------------------
\* What is waiting in the capture ring is the end of what was captured, in order,
\* and none of it has been handed out: whatever laps the microphone makes while
\* the user is muted, restarted devices and microphone tests lose samples, but the
\* network never gets one twice or out of order.
CaptureFifo ==
    \A i \in 0 .. Available(ring) - 1 :
        /\ Unread(ring, i) = captured - Available(ring) + 1 + i
        /\ Unread(ring, i) > taken

\* What waits in the ring of a slot is in the order it arrived and newer than all
\* that has been mixed of that user, although slots change hands and the mixer
\* and the receiver move the two indices from different threads.
PeerFifo ==
    \A i \in Slot :
        LET r == peers[i].ring
        IN  \A j \in 0 .. Available(r) - 1 :
                /\ peers[i].user # Nobody
                /\ Unread(r, j) > heard[peers[i].user]
                /\ j > 0 => Unread(r, j) > Unread(r, j - 1)

\* No user has two slots, so that a volume applies to all a user says; slot 0 is
\* the loopback's alone, and there only while a microphone test runs.
OneSlotPerUser ==
    /\ \A i, j \in Slot : peers[i].user = peers[j].user => i = j \/ peers[i].user = Nobody
    /\ \A i \in Slot : peers[i].user = Self => i = 0 /\ loopback /\ testing
    /\ peers[0].user \in {Self, Nobody}

\* With no call under way and neither a voice channel nor a microphone test the
\* microphone is off, whatever order joins, tests, device changes and unplugged
\* devices came in; and no callback can find the mutex or the context destroyed.
HardwareReleased ==
    /\ todo = <<>> /\ ~inVoice /\ ~testing => mic = "closed" /\ spk = "closed"
    /\ ~up => mic = "closed" /\ spk = "closed"

\* The user is never shown as speaking while muted or after capturing was stopped.
SpeakingIsLive == Idle /\ speaking => capturing /\ ~muted
=============================================================================
