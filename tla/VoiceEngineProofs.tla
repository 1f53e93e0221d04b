-------------------------- MODULE VoiceEngineProofs --------------------------
(***************************************************************************)
(* The native audio engine keeps the microphone's blocks and every         *)
(* speaker's in order, for any number of users and slots and any size of   *)
(* ring; it gives no user two slots, releases the hardware when nothing    *)
(* needs it, and shows nobody as speaking who is muted.                    *)
(*                                                                         *)
(* What a Dart call has left to do is the hard part of the invariant: a    *)
(* flag or a device may be in any state in the middle of a list of steps,  *)
(* so the invariant says where the rest of the list leads.                 *)
(***************************************************************************)
EXTENDS VoiceEngine, SampleRingProofs, SequenceTheorems


-----------------------------------------------------------------------------
(* Who writes what                                                         *)

\* The capture ring: the microphone's callback, and the pump.
LEMMA CaptureWriters ==
    ASSUME [Next]_vars
    PROVE  UNCHANGED capture \/ MicWrite \/ CaptureFrame
BY DEF Next, Hardware, Pump, vars, capture, MicEnter, MicTurns, SpkEnter, SpkMix,
   SpkTurns,
   StartCapture, StopCapture, StartPlayback, StopPlayback, OpenMic, OpenSpk, CloseMic,
   CloseSpk, ClearPeers, DestroyContext, EndMicTest, StopMicTest, PrepareVoice, Voice,
   StartVoice, LeaveVoice, StartMicTest, Destroy, SetLocalMute, SetLocalDeafen,
   SetVadMode,
   Change, SetInputDevice, SetOutputDevice, SetUserVolume, FeedInboundPacket,
   CaptureSilence,
   CaptureStarved

\* The slots.
LEMMA MixerWriters ==
    ASSUME [Next]_vars
    PROVE  \/ UNCHANGED mixer
           \/ SpkMix
           \/ UNCHANGED <<fed, heard>> /\ peers' = [i \in Slot |-> FreeSlot]
           \/ UNCHANGED <<fed, heard>> /\ peers' = WithoutLoopback
           \/ \E u \in User : SetUserVolume(u) \/ \E k \in Packets : FeedInboundPacket(u, k)
           \/ CaptureFrame
BY DEF Next, Hardware, Pump, vars, mixer, MicEnter, MicWrite, MicTurns, SpkEnter,
   SpkTurns,
   StartCapture, StopCapture, StartPlayback, StopPlayback, OpenMic, OpenSpk, CloseMic,
   CloseSpk, ClearPeers, DestroyContext, EndMicTest, StopMicTest, PrepareVoice, Voice,
   StartVoice, LeaveVoice, StartMicTest, Destroy, SetLocalMute, SetLocalDeafen,
   SetVadMode,
   Change, SetInputDevice, SetOutputDevice, CaptureSilence, CaptureStarved

-----------------------------------------------------------------------------
(* Types and the capture ring                                              *)

\* The flags are Boolean.
FlagsOK ==
    /\ up \in BOOLEAN /\ inVoice \in BOOLEAN /\ testing \in BOOLEAN
    /\ muted \in BOOLEAN /\ deafened \in BOOLEAN
    /\ capturing \in BOOLEAN /\ playing \in BOOLEAN /\ loopback \in BOOLEAN
    /\ vadMode \in BOOLEAN /\ speaking \in BOOLEAN

\* The devices are in one of their phases.
DevicesOK == Microphone!DeviceTypeOK /\ Speaker!DeviceTypeOK

\* Every step assigns the flags Boolean values.
LEMMA FlagsStep ==
    ASSUME FlagsOK, [Next]_vars
    PROVE  FlagsOK'
<1> USE DEF FlagsOK
<1>1. CASE UNCHANGED vars
  BY <1>1 DEF vars, flags, voiceActivity
<1>2. CASE MicEnter \/ MicWrite \/ MicTurns \/ SpkEnter \/ SpkMix \/ SpkTurns
  BY <1>2 DEF MicEnter, MicWrite, MicTurns, SpkEnter, SpkMix, SpkTurns, flags,
     voiceActivity
<1>3. CASE Hardware
  <2>1. CASE OpenMic \/ OpenSpk \/ CloseMic \/ CloseSpk
    <3>1. UNCHANGED <<flags, voiceActivity>>
      BY <2>1 DEF OpenMic, OpenSpk, CloseMic, CloseSpk
    <3> QED BY <3>1 DEF flags, voiceActivity
  <2>2. CASE StartCapture \/ StopCapture \/ StartPlayback \/ StopPlayback \/ ClearPeers
             \/ DestroyContext
    BY <2>2 DEF StartCapture, StopCapture, StartPlayback, StopPlayback, ClearPeers,
       DestroyContext, voiceActivity
  <2> QED BY <1>3, <2>1, <2>2 DEF Hardware
<1>4. CASE StopMicTest \/ PrepareVoice \/ StartVoice \/ LeaveVoice \/ StartMicTest \/ Destroy
  BY <1>4 DEF EndMicTest, StopMicTest, PrepareVoice, Voice, StartVoice, LeaveVoice,
     StartMicTest, Destroy, flags, voiceActivity
<1>5. CASE SetLocalMute \/ SetLocalDeafen \/ SetVadMode \/ SetInputDevice \/ SetOutputDevice
  BY <1>5, EngineConstants DEF SetLocalMute, SetLocalDeafen, SetVadMode,
     SpeakingAfter, Change,
     SetInputDevice, SetOutputDevice, flags, voiceActivity
<1>6. CASE \E u \in User : SetUserVolume(u) \/ \E k \in Packets : FeedInboundPacket(u, k)
  BY <1>6 DEF SetUserVolume, FeedInboundPacket, flags, voiceActivity
<1>7. CASE CaptureSilence \/ CaptureStarved
  BY <1>7 DEF CaptureSilence, CaptureStarved, flags
<1>8. CASE CaptureFrame
  BY <1>8 DEF CaptureFrame, Detect, flags
<1> QED BY <1>1, <1>2, <1>3, <1>4, <1>5, <1>6, <1>7, <1>8 DEF Next, Pump

\* The frames of hangover are counted down to zero and no further.
LEMMA HangoverStep ==
    ASSUME hangover \in 0 .. Hangover, [Next]_vars
    PROVE  hangover' \in 0 .. Hangover
<1> USE EngineConstants
<1>1. UNCHANGED hangover \/ CaptureStarved \/ CaptureFrame
  BY DEF Next, Hardware, Pump, vars, voiceActivity, MicEnter, MicWrite, MicTurns,
     SpkEnter,
     SpkMix, SpkTurns, StartCapture, StopCapture, StartPlayback, StopPlayback, OpenMic,
     OpenSpk, CloseMic, CloseSpk, ClearPeers, DestroyContext, EndMicTest, StopMicTest,
     PrepareVoice, Voice, StartVoice, LeaveVoice, StartMicTest, Destroy, SetLocalMute,
     SetLocalDeafen, SetVadMode, Change, SetInputDevice, SetOutputDevice, SetUserVolume,
     FeedInboundPacket, CaptureSilence
<1>2. \A loud \in BOOLEAN : NextHangover(loud) \in 0 .. Hangover
  BY DEF NextHangover
<1>3. CASE CaptureFrame
  BY <1>2, <1>3 DEF CaptureFrame, Detect
<1>4. CASE CaptureStarved
  BY <1>4 DEF CaptureStarved
<1> QED BY <1>1, <1>3, <1>4

\* A device moves from phase to phase.
LEMMA DevicesStep ==
    ASSUME DevicesOK, [Next]_vars
    PROVE  DevicesOK'
<1> USE DEF DevicesOK, Microphone!DeviceTypeOK, Speaker!DeviceTypeOK,
  Microphone!Phase, Speaker!Phase
<1>1. CASE UNCHANGED devices
  BY <1>1 DEF devices
<1>2. CASE MicEnter \/ MicWrite \/ MicTurns \/ OpenMic \/ CloseMic
  BY <1>2 DEF MicEnter, MicWrite, MicTurns, OpenMic, CloseMic, Microphone!Enter,
     Microphone!Leave, Microphone!End, Microphone!Prepare, Microphone!Open,
     Microphone!Refuse, Microphone!Restart, Microphone!Close, Microphone!Turn
<1>3. CASE SpkEnter \/ SpkMix \/ SpkTurns \/ OpenSpk \/ CloseSpk
  BY <1>3 DEF SpkEnter, SpkMix, SpkTurns, OpenSpk, CloseSpk, Speaker!Enter,
     Speaker!Leave, Speaker!End, Speaker!Prepare, Speaker!Open,
     Speaker!Refuse, Speaker!Restart, Speaker!Close, Speaker!Turn
<1>4. \/ UNCHANGED devices
      \/ MicEnter \/ MicWrite \/ MicTurns \/ OpenMic \/ CloseMic
      \/ SpkEnter \/ SpkMix \/ SpkTurns \/ OpenSpk \/ CloseSpk
  BY DEF Next, Hardware, Pump, vars, StartCapture, StopCapture, StartPlayback,
     StopPlayback,
     ClearPeers, DestroyContext, EndMicTest, StopMicTest, PrepareVoice, Voice,
     StartVoice,
     LeaveVoice, StartMicTest, Destroy, SetLocalMute, SetLocalDeafen, SetVadMode,
     Change,
     SetInputDevice, SetOutputDevice, SetUserVolume, FeedInboundPacket, CaptureSilence,
     CaptureStarved, CaptureFrame
<1> QED BY <1>1, <1>2, <1>3, <1>4

-----------------------------------------------------------------------------
(* Lists of steps                                                          *)

\* Lists are built from steps and from lists.
LEMMA Lists ==
    ASSUME NEW S
    PROVE  /\ <<>> \in Seq(S)
           /\ \A a \in S : <<a>> \in Seq(S)
           /\ \A a, b \in S : <<a, b>> \in Seq(S)
           /\ \A a, b, c \in S : <<a, b, c>> \in Seq(S)
           /\ \A a, b, c, d, e \in S : <<a, b, c, d, e>> \in Seq(S)
           /\ \A s, t \in Seq(S) : s \o t \in Seq(S)
OBVIOUS

\* The lists the Dart methods are made of.
LEMMA StepLists ==
    /\ <<>> \in Seq(Step) /\ <<"clear peers">> \in Seq(Step)
    /\ <<"start capture">> \in Seq(Step) /\ <<"start playback">> \in Seq(Step)
    /\ <<"start capture", "start playback">> \in Seq(Step)
    /\ <<"stop capture", "stop playback">> \in Seq(Step)
    /\ <<"close mic", "open mic">> \in Seq(Step) /\ <<"close spk", "open spk">> \in Seq(Step)
    /\ <<"stop capture", "stop playback", "clear peers">> \in Seq(Step)
    /\ <<"stop capture", "stop playback", "stop capture", "stop playback", "destroy">> \in Seq(Step)
<1>1. /\ "start capture" \in Step /\ "stop capture" \in Step /\ "start playback" \in Step
      /\ "stop playback" \in Step /\ "open mic" \in Step /\ "close mic" \in Step
      /\ "open spk" \in Step /\ "close spk" \in Step /\ "clear peers" \in Step
      /\ "destroy" \in Step
  BY DEF Step
<1>2. /\ <<>> \in Seq(Step)
      /\ \A a \in Step : <<a>> \in Seq(Step)
      /\ \A a, b \in Step : <<a, b>> \in Seq(Step)
      /\ \A a, b, c \in Step : <<a, b, c>> \in Seq(Step)
      /\ \A a, b, c, d, e \in Step : <<a, b, c, d, e>> \in Seq(Step)
  BY Lists, Zenon
<1>3. /\ <<"clear peers">> \in Seq(Step) /\ <<"start capture">> \in Seq(Step)
      /\ <<"start playback">> \in Seq(Step)
  BY <1>1, <1>2, Zenon
<1>4. /\ <<"start capture", "start playback">> \in Seq(Step)
      /\ <<"stop capture", "stop playback">> \in Seq(Step)
      /\ <<"close mic", "open mic">> \in Seq(Step) /\ <<"close spk", "open spk">> \in Seq(Step)
  BY <1>1, <1>2, Zenon
<1>5. <<"stop capture", "stop playback", "clear peers">> \in Seq(Step)
  BY <1>1, <1>2, Zenon
<1>6. <<"stop capture", "stop playback", "stop capture", "stop playback", "destroy">> \in Seq(Step)
  BY <1>1, <1>2, Zenon
<1> QED BY <1>2, <1>3, <1>4, <1>5, <1>6

\* The step under way is the first of the list.
LEMMA HardwareBegins ==
    ASSUME Hardware
    PROVE  todo # <<>>
BY DEF Hardware, Begin, StartCapture, StopCapture, StartPlayback, StopPlayback, OpenMic,
   OpenSpk, CloseMic, CloseSpk, ClearPeers, DestroyContext

\* What is left to do is a list of steps.
LEMMA TodoStep ==
    ASSUME todo \in Seq(Step), [Next]_vars
    PROVE  todo' \in Seq(Step)
<1>2. CASE Hardware
  <2>1. Tail(todo) \in Seq(Step)
    BY <1>2, HardwareBegins
  <2>2. todo' \in {todo, Tail(todo)} \/ \E x \in Step : todo' = <<x>> \o Tail(todo)
    <3>1. {"open mic", "close mic", "open spk", "close spk"} \subseteq Step
      BY DEF Step
    <3>2. \/ todo' \in {todo, Tail(todo)}
          \/ \E x \in {"open mic", "close mic", "open spk", "close spk"} :
                todo' = <<x>> \o Tail(todo)
      BY <1>2 DEF Hardware, Done, Then, StartCapture, StopCapture, StartPlayback,
         StopPlayback, OpenMic, OpenSpk, CloseMic, CloseSpk, ClearPeers, DestroyContext
    <3> QED BY <3>1, <3>2
  <2>3. \A x \in Step : <<x>> \o Tail(todo) \in Seq(Step)
    BY <2>1
  <2> QED BY <1>2, <2>1, <2>2, <2>3
<1>3. ASSUME NEW next \in Seq(Step), EndMicTest(next)
      PROVE  todo' \in Seq(Step)
  <2>1. (IF inVoice THEN <<>> ELSE <<"stop capture", "stop playback">>) \in Seq(Step)
    BY StepLists, Zenon
  <2>2. todo' = (IF inVoice THEN <<>> ELSE <<"stop capture", "stop playback">>) \o next
    BY <1>3 DEF EndMicTest
  <2>3. (IF inVoice THEN <<>> ELSE <<"stop capture", "stop playback">>) \o next \in Seq(Step)
    BY <2>1, Lists, Zenon
  <2> QED BY <2>2, <2>3
<1>4. CASE StopMicTest \/ PrepareVoice \/ Destroy
  BY <1>3, <1>4, StepLists, Zenon DEF StopMicTest, PrepareVoice, Destroy
<1>5. CASE StartVoice \/ LeaveVoice
  BY <1>5, StepLists, Zenon DEF StartVoice, LeaveVoice, Voice
<1>6. CASE StartMicTest
  <2>1. /\ (IF capturing THEN <<>> ELSE <<"start capture">>) \in Seq(Step)
        /\ (IF playing THEN <<>> ELSE <<"start playback">>) \in Seq(Step)
        /\ <<"start capture", "start playback">> \in Seq(Step)
    BY StepLists, Zenon
  <2> DEFINE s == (IF capturing THEN <<>> ELSE <<"start capture">>)
             t == (IF playing THEN <<>> ELSE <<"start playback">>)
  <2>2. todo' = s \o t \o <<"start capture", "start playback">>
    BY <1>6 DEF StartMicTest
  <2> HIDE DEF s, t
  <2>3. s \o t \in Seq(Step)
    BY <2>1, Lists, Zenon DEF s, t
  <2>4. s \o t \o <<"start capture", "start playback">> \in Seq(Step)
    BY <2>1, <2>3, Lists, Zenon
  <2> QED BY <2>2, <2>4
<1>7. CASE SetInputDevice \/ SetOutputDevice
  BY <1>7, StepLists, Zenon DEF SetInputDevice, SetOutputDevice, Change, Restart
<1>8. \/ UNCHANGED todo \/ Hardware
      \/ StopMicTest \/ PrepareVoice \/ StartVoice \/ LeaveVoice \/ StartMicTest \/ Destroy
      \/ SetInputDevice \/ SetOutputDevice
  BY DEF Next, Pump, vars, MicEnter, MicWrite, MicTurns, SpkEnter, SpkMix, SpkTurns,
     SetLocalMute,
     SetLocalDeafen, SetVadMode, SetUserVolume, FeedInboundPacket, CaptureSilence,
     CaptureStarved, CaptureFrame
<1> QED BY <1>2, <1>4, <1>5, <1>6, <1>7, <1>8

\* No step of the set is left in the list.
Never(S, s) == \A i \in DOMAIN s : s[i] \notin S

\* A step of T is left in the list, and none of S after it.
Closing(S, T, s) ==
    \E i \in DOMAIN s : s[i] \in T /\ \A j \in DOMAIN s : i < j => s[j] \notin S

\* The destruction of the context is the last step of a list.
DestroyLast(s) == \A i \in DOMAIN s : s[i] = "destroy" => i = Len(s)

\* The isolate has nothing left to do.
LEMMA EmptyList ==
    ASSUME NEW S, NEW T
    PROVE  Never(S, <<>>) /\ ~Closing(S, T, <<>>) /\ DestroyLast(<<>>)
BY DEF Never, Closing, DestroyLast

\* A list without its first step.
LEMMA ListTail ==
    ASSUME NEW S, NEW T, NEW A, NEW s \in Seq(A), s # <<>>
    PROVE  /\ Never(S, s) => Never(S, Tail(s)) /\ Head(s) \notin S
           /\ ~Never(S, s) /\ Head(s) \notin S => ~Never(S, Tail(s))
           /\ Closing(S, T, s) /\ Head(s) \notin T => Closing(S, T, Tail(s))
           /\ Closing(S, T, s) => Closing(S, T, Tail(s)) \/ Never(S, Tail(s))
<1> DEFINE t == Tail(s)
<1>1. /\ Len(s) \in Nat \ {0} /\ DOMAIN s = 1 .. Len(s) /\ Head(s) = s[1]
      /\ DOMAIN t = 1 .. Len(s) - 1 /\ \A i \in 1 .. Len(s) - 1 : t[i] = s[i + 1]
  OBVIOUS
<1> HIDE DEF t
<1>2. \A i \in DOMAIN s : i = 1 \/ (i - 1 \in DOMAIN t /\ t[i - 1] = s[i])
  BY <1>1
<1>3. \A i \in DOMAIN t : i + 1 \in DOMAIN s /\ t[i] = s[i + 1]
  BY <1>1
<1>4. Never(S, s) => Never(S, t) /\ Head(s) \notin S
  BY <1>1, <1>3 DEF Never
<1>5. ~Never(S, s) /\ Head(s) \notin S => ~Never(S, t)
  BY <1>1, <1>2 DEF Never
<1>6. ASSUME NEW i \in DOMAIN s, s[i] \in T, \A j \in DOMAIN s : i < j => s[j] \notin S
      PROVE  /\ Head(s) \notin T => Closing(S, T, t)
             /\ Closing(S, T, t) \/ Never(S, t)
  <2>1. CASE i = 1
    <3>1. Never(S, t)
      BY <1>1, <1>3, <1>6, <2>1 DEF Never
    <3> QED BY <1>1, <1>6, <2>1, <3>1
  <2>2. CASE i # 1
    <3>1. i - 1 \in DOMAIN t /\ t[i - 1] \in T
      BY <1>2, <1>6, <2>2
    <3>2. \A j \in DOMAIN t : i - 1 < j => t[j] \notin S
      BY <1>1, <1>3, <1>6
    <3> QED BY <3>1, <3>2 DEF Closing
  <2> QED BY <2>1, <2>2
<1>7. Closing(S, T, s) => /\ Head(s) \notin T => Closing(S, T, t)
                          /\ Closing(S, T, t) \/ Never(S, t)
  BY <1>6 DEF Closing
<1> QED BY <1>4, <1>5, <1>7 DEF t

\* A list behind a first part.
LEMMA ListJoined ==
    ASSUME NEW S, NEW T, NEW A, NEW r \in Seq(A), NEW s \in Seq(A)
    PROVE  /\ Never(S, r) /\ Never(S, s) => Never(S, r \o s)
           /\ ~Never(S, s) => ~Never(S, r \o s)
           /\ Closing(S, T, s) => Closing(S, T, r \o s)
           /\ Closing(S, T, r) /\ Never(S, s) => Closing(S, T, r \o s)
<1> DEFINE t == r \o s
<1>1. /\ Len(r) \in Nat /\ Len(s) \in Nat
      /\ DOMAIN r = 1 .. Len(r) /\ DOMAIN s = 1 .. Len(s) /\ DOMAIN t = 1 .. Len(r) + Len(s)
      /\ \A i \in 1 .. Len(r) + Len(s) : t[i] = IF i <= Len(r) THEN r[i] ELSE s[i - Len(r)]
  OBVIOUS
<1> HIDE DEF t
<1>2. \A i \in DOMAIN t : \/ i \in DOMAIN r /\ t[i] = r[i]
                          \/ i > Len(r) /\ i - Len(r) \in DOMAIN s /\ t[i] = s[i - Len(r)]
  BY <1>1
<1>3. \A i \in DOMAIN r : i \in DOMAIN t /\ t[i] = r[i]
  BY <1>1
<1>4. \A i \in DOMAIN s : i + Len(r) \in DOMAIN t /\ t[i + Len(r)] = s[i]
  BY <1>1
<1>5. Never(S, r) /\ Never(S, s) => Never(S, t)
  BY <1>2 DEF Never
<1>6. ~Never(S, s) => ~Never(S, t)
  BY <1>4 DEF Never
<1>7. ASSUME NEW i \in DOMAIN s, s[i] \in T, \A j \in DOMAIN s : i < j => s[j] \notin S
      PROVE  Closing(S, T, t)
  <2>1. \A j \in DOMAIN t : i + Len(r) < j => t[j] \notin S
    BY <1>1, <1>2, <1>7
  <2> QED BY <1>4, <1>7, <2>1 DEF Closing
<1>8. ASSUME NEW i \in DOMAIN r, r[i] \in T, Never(S, s),
             \A j \in DOMAIN r : i < j => r[j] \notin S
      PROVE  Closing(S, T, t)
  <2>1. \A j \in DOMAIN t : i < j => t[j] \notin S
    BY <1>1, <1>2, <1>8 DEF Never
  <2> QED BY <1>3, <1>8, <2>1 DEF Closing
<1>9. Closing(S, T, s) => Closing(S, T, t)
  BY <1>7 DEF Closing
<1>10. Closing(S, T, r) /\ Never(S, s) => Closing(S, T, t)
  BY <1>8 DEF Closing
<1> QED BY <1>5, <1>6, <1>9, <1>10 DEF t

\* A list of one step.
LEMMA ListOfOne ==
    ASSUME NEW S, NEW T, NEW x
    PROVE  /\ x \notin S => Never(S, <<x>>)
           /\ x \in S => ~Never(S, <<x>>)
           /\ x \in T => Closing(S, T, <<x>>)
BY DEF Never, Closing

\* A step that is done leaves the list; a step may leave another in its place.
LEMMA DoneFacts ==
    ASSUME NEW S, NEW T, todo \in Seq(Step), todo # <<>>, Done
    PROVE  /\ Never(S, todo) => Never(S, todo') /\ Head(todo) \notin S
           /\ ~Never(S, todo) /\ Head(todo) \notin S => ~Never(S, todo')
           /\ Closing(S, T, todo) /\ Head(todo) \notin T => Closing(S, T, todo')
           /\ Closing(S, T, todo) => Closing(S, T, todo') \/ Never(S, todo')
BY ListTail DEF Done

\* The same when the step leaves another: open_* after the flag, close_* too.
LEMMA ThenFacts ==
    ASSUME NEW S, NEW T, NEW x \in Step, todo \in Seq(Step), todo # <<>>, Then(x)
    PROVE  /\ Never(S, todo) => Head(todo) \notin S
           /\ Never(S, todo) /\ x \notin S => Never(S, todo')
           /\ ~Never(S, todo) /\ Head(todo) \notin S => ~Never(S, todo')
           /\ Closing(S, T, todo) /\ Head(todo) \notin T => Closing(S, T, todo')
           /\ Closing(S, T, todo) /\ x \notin S => Closing(S, T, todo') \/ Never(S, todo')
           /\ (Closing(S, T, todo) \/ Never(S, todo)) /\ x \in T => Closing(S, T, todo')
<1> DEFINE t == Tail(todo)
<1>1. t \in Seq(Step) /\ <<x>> \in Seq(Step) /\ todo' = <<x>> \o t
  BY Lists DEF Then
<1>2. /\ Never(S, todo) => Never(S, t) /\ Head(todo) \notin S
      /\ ~Never(S, todo) /\ Head(todo) \notin S => ~Never(S, t)
      /\ Closing(S, T, todo) /\ Head(todo) \notin T => Closing(S, T, t)
      /\ Closing(S, T, todo) => Closing(S, T, t) \/ Never(S, t)
  BY ListTail
<1> HIDE DEF t
<1>3. /\ Never(S, <<x>>) /\ Never(S, t) => Never(S, <<x>> \o t)
      /\ ~Never(S, t) => ~Never(S, <<x>> \o t)
      /\ Closing(S, T, t) => Closing(S, T, <<x>> \o t)
      /\ Closing(S, T, <<x>>) /\ Never(S, t) => Closing(S, T, <<x>> \o t)
  BY <1>1, ListJoined
<1>4. /\ x \notin S => Never(S, <<x>>)
      /\ x \in T => Closing(S, T, <<x>>)
  BY ListOfOne
<1> QED BY <1>1, <1>2, <1>3, <1>4, Zenon

-----------------------------------------------------------------------------
(* Where the hardware is heading                                           *)

\* The steps after which a flag can be set or a device open, and those that undo it.
OpensCapture == {"start capture"}
ClosesCapture == {"stop capture"}
OpensPlayback == {"start playback"}
ClosesPlayback == {"stop playback"}
OpensMic == {"start capture", "open mic"}
ClosesMic == {"stop capture", "close mic"}
OpensSpk == {"start playback", "open spk"}
ClosesSpk == {"stop playback", "close spk"}

\* The list ends with g_capturing, g_playing, the microphone, the speaker off.
CaptureOff ==
    Closing(OpensCapture, ClosesCapture, todo) \/ (~capturing /\ Never(OpensCapture, todo))
PlaybackOff ==
    Closing(OpensPlayback, ClosesPlayback, todo) \/ (~playing /\ Never(OpensPlayback, todo))
MicOff == Closing(OpensMic, ClosesMic, todo) \/ (mic = "closed" /\ Never(OpensMic, todo))
SpkOff == Closing(OpensSpk, ClosesSpk, todo) \/ (spk = "closed" /\ Never(OpensSpk, todo))

Released == CaptureOff /\ PlaybackOff /\ MicOff /\ SpkOff

\* A step of the hardware leaves the rest of the list leading where it led.
LEMMA CaptureOffStep ==
    ASSUME todo \in Seq(Step), CaptureOff, Hardware
    PROVE  CaptureOff'
<1> DEFINE S == OpensCapture
           T == ClosesCapture
<1>1. todo # <<>>
  BY HardwareBegins
<1>2. S = {"start capture"} /\ T = {"stop capture"}
  BY DEF OpensCapture, ClosesCapture
<1>3. {"open mic", "close mic", "open spk", "close spk"} \subseteq Step \ (S \cup T)
  BY <1>2 DEF Step
<1>4. Closing(S, T, todo) \/ (~capturing /\ Never(S, todo))
  BY DEF CaptureOff
<1> HIDE DEF S, T
<1>5. CASE StartCapture
  <2>1. Head(todo) = "start capture" /\ Then("open mic")
    BY <1>5 DEF StartCapture, Begin
  <2>2. Closing(S, T, todo')
    BY <1>1, <1>2, <1>3, <1>4, <2>1, ThenFacts
  <2> QED BY <2>2 DEF CaptureOff, S, T
<1>6. CASE StopCapture
  <2>1. Then("close mic") /\ capturing' = FALSE
    BY <1>6 DEF StopCapture
  <2>2. Closing(S, T, todo') \/ Never(S, todo')
    BY <1>1, <1>3, <1>4, <2>1, ThenFacts
  <2> QED BY <2>1, <2>2 DEF CaptureOff, S, T
<1>7. CASE ~(StartCapture \/ StopCapture)
  <2>1. /\ Head(todo) \notin S \cup T
        /\ \/ UNCHANGED todo
           \/ Done
           \/ \E x \in {"open mic", "close mic", "open spk", "close spk"} : Then(x)
    BY <1>2, <1>7 DEF Hardware, StartPlayback, StopPlayback, OpenMic, OpenSpk, CloseMic,
       CloseSpk, ClearPeers, DestroyContext, Begin
  <2>2. UNCHANGED capturing
    BY <1>7 DEF Hardware, StartPlayback, StopPlayback, OpenMic, OpenSpk, CloseMic,
       CloseSpk, ClearPeers, DestroyContext, flags
  <2>3. (Closing(S, T, todo) => Closing(S, T, todo')) /\ (Never(S, todo) => Never(S, todo'))
    <3>1. CASE UNCHANGED todo
      BY <3>1
    <3>2. CASE Done
      BY <1>1, <2>1, <3>2, DoneFacts
    <3>3. ASSUME NEW x \in {"open mic", "close mic", "open spk", "close spk"}, Then(x)
          PROVE  (Closing(S, T, todo) => Closing(S, T, todo')) /\ (Never(S, todo) => Never(S, todo'))
      BY <1>1, <1>3, <2>1, <3>3, ThenFacts
    <3> QED BY <2>1, <3>1, <3>2, <3>3
  <2> QED BY <1>4, <2>2, <2>3 DEF CaptureOff, S, T
<1> QED BY <1>5, <1>6, <1>7

\* The same of g_playing,
LEMMA PlaybackOffStep ==
    ASSUME todo \in Seq(Step), PlaybackOff, Hardware
    PROVE  PlaybackOff'
<1> DEFINE S == OpensPlayback
           T == ClosesPlayback
<1>1. todo # <<>>
  BY HardwareBegins
<1>2. S = {"start playback"} /\ T = {"stop playback"}
  BY DEF OpensPlayback, ClosesPlayback
<1>3. {"open spk", "close spk", "open mic", "close mic"} \subseteq Step \ (S \cup T)
  BY <1>2 DEF Step
<1>4. Closing(S, T, todo) \/ (~playing /\ Never(S, todo))
  BY DEF PlaybackOff
<1> HIDE DEF S, T
<1>5. CASE StartPlayback
  <2>1. Head(todo) = "start playback" /\ Then("open spk")
    BY <1>5 DEF StartPlayback, Begin
  <2>2. Closing(S, T, todo')
    BY <1>1, <1>2, <1>3, <1>4, <2>1, ThenFacts
  <2> QED BY <2>2 DEF PlaybackOff, S, T
<1>6. CASE StopPlayback
  <2>1. Then("close spk") /\ playing' = FALSE
    BY <1>6 DEF StopPlayback
  <2>2. Closing(S, T, todo') \/ Never(S, todo')
    BY <1>1, <1>3, <1>4, <2>1, ThenFacts
  <2> QED BY <2>1, <2>2 DEF PlaybackOff, S, T
<1>7. CASE ~(StartPlayback \/ StopPlayback)
  <2>1. /\ Head(todo) \notin S \cup T
        /\ \/ UNCHANGED todo
           \/ Done
           \/ \E x \in {"open spk", "close spk", "open mic", "close mic"} : Then(x)
    BY <1>2, <1>7 DEF Hardware, StartCapture, StopCapture, OpenMic, OpenSpk, CloseMic,
       CloseSpk, ClearPeers, DestroyContext, Begin
  <2>2. UNCHANGED playing
    BY <1>7 DEF Hardware, StartCapture, StopCapture, OpenMic, OpenSpk, CloseMic,
       CloseSpk, ClearPeers, DestroyContext, flags
  <2>3. (Closing(S, T, todo) => Closing(S, T, todo')) /\ (Never(S, todo) => Never(S, todo'))
    <3>1. CASE UNCHANGED todo
      BY <3>1
    <3>2. CASE Done
      BY <1>1, <2>1, <3>2, DoneFacts
    <3>3. ASSUME NEW x \in {"open spk", "close spk", "open mic", "close mic"}, Then(x)
          PROVE  (Closing(S, T, todo) => Closing(S, T, todo')) /\ (Never(S, todo) => Never(S, todo'))
      BY <1>1, <1>3, <2>1, <3>3, ThenFacts
    <3> QED BY <2>1, <3>1, <3>2, <3>3
  <2> QED BY <1>4, <2>2, <2>3 DEF PlaybackOff, S, T
<1> QED BY <1>5, <1>6, <1>7
\* of the microphone, whose stream can also end by itself,
LEMMA MicOffStep ==
    ASSUME todo \in Seq(Step), MicOff, Hardware
    PROVE  MicOff'
<1> DEFINE S == OpensMic
           T == ClosesMic
<1>1. todo # <<>>
  BY HardwareBegins
<1>2. S = {"start capture", "open mic"} /\ T = {"stop capture", "close mic"}
  BY DEF OpensMic, ClosesMic
<1>3. {"open spk", "close spk"} \subseteq Step \ (S \cup T)
  BY <1>2 DEF Step
<1>4. Closing(S, T, todo) \/ (mic = "closed" /\ Never(S, todo))
  BY DEF MicOff
<1>5. "open mic" \in Step /\ "close mic" \in Step /\ "close mic" \in T
  BY <1>2 DEF Step
<1> HIDE DEF S, T
<1>6. CASE StartCapture
  <2>1. Head(todo) = "start capture" /\ Then("open mic")
    BY <1>6 DEF StartCapture, Begin
  <2>2. Closing(S, T, todo')
    BY <1>1, <1>2, <1>4, <1>5, <2>1, ThenFacts
  <2> QED BY <2>2 DEF MicOff, S, T
<1>7. CASE StopCapture
  <2>1. Then("close mic")
    BY <1>7 DEF StopCapture
  <2>2. Closing(S, T, todo')
    BY <1>1, <1>4, <1>5, <2>1, ThenFacts
  <2> QED BY <2>2 DEF MicOff, S, T
<1>8. CASE OpenMic
  <2>1. Head(todo) = "open mic" /\ (UNCHANGED todo \/ Done \/ Then("close mic"))
    BY <1>8 DEF OpenMic, Begin
  <2>2. Closing(S, T, todo)
    <3>1. Never(S, todo) => Head(todo) \notin S
      BY <1>1, ListTail
    <3> QED BY <1>2, <1>4, <2>1, <3>1
  <2>3. Closing(S, T, todo')
    <3>1. CASE UNCHANGED todo
      BY <2>2, <3>1
    <3>2. CASE Done
      BY <1>1, <1>2, <2>1, <2>2, <3>2, DoneFacts
    <3>3. CASE Then("close mic")
      BY <1>1, <1>5, <2>2, <3>3, ThenFacts
    <3> QED BY <2>1, <3>1, <3>2, <3>3
  <2> QED BY <2>3 DEF MicOff, S, T
<1>9. CASE CloseMic
  <2>1. CASE mic = "open" /\ UNCHANGED todo
    BY <1>4, <2>1 DEF MicOff, S, T
  <2>2. CASE mic' = "closed" /\ Done
    <3>1. Closing(S, T, todo') \/ Never(S, todo')
      BY <1>1, <1>4, <2>2, DoneFacts
    <3> QED BY <2>2, <3>1 DEF MicOff, S, T
  <2> QED BY <1>9, <2>1, <2>2 DEF CloseMic, Microphone!End, Microphone!Close,
    Microphone!Turn
<1>10. CASE ~(StartCapture \/ StopCapture \/ OpenMic \/ CloseMic)
  <2>1. /\ Head(todo) \notin S \cup T
        /\ \/ UNCHANGED todo
           \/ Done
           \/ \E x \in {"open spk", "close spk"} : Then(x)
    BY <1>2, <1>10 DEF Hardware, StartPlayback, StopPlayback, OpenSpk,
       CloseSpk, ClearPeers, DestroyContext, Begin
  <2>2. UNCHANGED mic
    BY <1>10 DEF Hardware, StartPlayback, StopPlayback, OpenSpk,
       CloseSpk, ClearPeers, DestroyContext, devices
  <2>3. (Closing(S, T, todo) => Closing(S, T, todo')) /\ (Never(S, todo) => Never(S, todo'))
    <3>1. CASE UNCHANGED todo
      BY <3>1
    <3>2. CASE Done
      BY <1>1, <2>1, <3>2, DoneFacts
    <3>3. ASSUME NEW x \in {"open spk", "close spk"}, Then(x)
          PROVE  (Closing(S, T, todo) => Closing(S, T, todo')) /\ (Never(S, todo) => Never(S, todo'))
      BY <1>1, <1>3, <2>1, <3>3, ThenFacts
    <3> QED BY <2>1, <3>1, <3>2, <3>3
  <2> QED BY <1>4, <2>2, <2>3 DEF MicOff, S, T
<1> QED BY <1>6, <1>7, <1>8, <1>9, <1>10

\* and of the speaker.
LEMMA SpkOffStep ==
    ASSUME todo \in Seq(Step), SpkOff, Hardware
    PROVE  SpkOff'
<1> DEFINE S == OpensSpk
           T == ClosesSpk
<1>1. todo # <<>>
  BY HardwareBegins
<1>2. S = {"start playback", "open spk"} /\ T = {"stop playback", "close spk"}
  BY DEF OpensSpk, ClosesSpk
<1>3. {"open mic", "close mic"} \subseteq Step \ (S \cup T)
  BY <1>2 DEF Step
<1>4. Closing(S, T, todo) \/ (spk = "closed" /\ Never(S, todo))
  BY DEF SpkOff
<1>5. "open spk" \in Step /\ "close spk" \in Step /\ "close spk" \in T
  BY <1>2 DEF Step
<1> HIDE DEF S, T
<1>6. CASE StartPlayback
  <2>1. Head(todo) = "start playback" /\ Then("open spk")
    BY <1>6 DEF StartPlayback, Begin
  <2>2. Closing(S, T, todo')
    BY <1>1, <1>2, <1>4, <1>5, <2>1, ThenFacts
  <2> QED BY <2>2 DEF SpkOff, S, T
<1>7. CASE StopPlayback
  <2>1. Then("close spk")
    BY <1>7 DEF StopPlayback
  <2>2. Closing(S, T, todo')
    BY <1>1, <1>4, <1>5, <2>1, ThenFacts
  <2> QED BY <2>2 DEF SpkOff, S, T
<1>8. CASE OpenSpk
  <2>1. Head(todo) = "open spk" /\ (UNCHANGED todo \/ Done \/ Then("close spk"))
    BY <1>8 DEF OpenSpk, Begin
  <2>2. Closing(S, T, todo)
    <3>1. Never(S, todo) => Head(todo) \notin S
      BY <1>1, ListTail
    <3> QED BY <1>2, <1>4, <2>1, <3>1
  <2>3. Closing(S, T, todo')
    <3>1. CASE UNCHANGED todo
      BY <2>2, <3>1
    <3>2. CASE Done
      BY <1>1, <1>2, <2>1, <2>2, <3>2, DoneFacts
    <3>3. CASE Then("close spk")
      BY <1>1, <1>5, <2>2, <3>3, ThenFacts
    <3> QED BY <2>1, <3>1, <3>2, <3>3
  <2> QED BY <2>3 DEF SpkOff, S, T
<1>9. CASE CloseSpk
  <2>1. CASE spk = "open" /\ UNCHANGED todo
    BY <1>4, <2>1 DEF SpkOff, S, T
  <2>2. CASE spk' = "closed" /\ Done
    <3>1. Closing(S, T, todo') \/ Never(S, todo')
      BY <1>1, <1>4, <2>2, DoneFacts
    <3> QED BY <2>2, <3>1 DEF SpkOff, S, T
  <2> QED BY <1>9, <2>1, <2>2 DEF CloseSpk, Speaker!End, Speaker!Close, Speaker!Turn
<1>10. CASE ~(StartPlayback \/ StopPlayback \/ OpenSpk \/ CloseSpk)
  <2>1. /\ Head(todo) \notin S \cup T
        /\ \/ UNCHANGED todo
           \/ Done
           \/ \E x \in {"open mic", "close mic"} : Then(x)
    BY <1>2, <1>10 DEF Hardware, StartCapture, StopCapture, OpenMic,
       CloseMic, ClearPeers, DestroyContext, Begin
  <2>2. UNCHANGED spk
    BY <1>10 DEF Hardware, StartCapture, StopCapture, OpenMic,
       CloseMic, ClearPeers, DestroyContext, devices
  <2>3. (Closing(S, T, todo) => Closing(S, T, todo')) /\ (Never(S, todo) => Never(S, todo'))
    <3>1. CASE UNCHANGED todo
      BY <3>1
    <3>2. CASE Done
      BY <1>1, <2>1, <3>2, DoneFacts
    <3>3. ASSUME NEW x \in {"open mic", "close mic"}, Then(x)
          PROVE  (Closing(S, T, todo) => Closing(S, T, todo')) /\ (Never(S, todo) => Never(S, todo'))
      BY <1>1, <1>3, <2>1, <3>3, ThenFacts
    <3> QED BY <2>1, <3>1, <3>2, <3>3
  <2> QED BY <1>4, <2>2, <2>3 DEF SpkOff, S, T
<1> QED BY <1>6, <1>7, <1>8, <1>9, <1>10

-----------------------------------------------------------------------------
(* What the Dart methods leave behind                                      *)

\* A list that ends with both directions of the hardware closed.
Closes(s) ==
    /\ Closing(OpensCapture, ClosesCapture, s) /\ Closing(OpensPlayback, ClosesPlayback, s)
    /\ Closing(OpensMic, ClosesMic, s) /\ Closing(OpensSpk, ClosesSpk, s)

\* A list that opens none.
OpensNothing(s) ==
    /\ Never(OpensCapture, s) /\ Never(OpensPlayback, s)
    /\ Never(OpensMic, s) /\ Never(OpensSpk, s)

\* The list ends with g_capturing on, or clears the slots and the loopback.
Listening ==
    \/ Closing(ClosesCapture, OpensCapture, todo)
    \/ capturing /\ Never(ClosesCapture, todo)
    \/ ~Never({"clear peers"}, todo)

\* The destruction stays the last step while steps are done
LEMMA LastTail ==
    ASSUME NEW A, NEW s \in Seq(A), s # <<>>, DestroyLast(s)
    PROVE  DestroyLast(Tail(s)) /\ (Head(s) = "destroy" => Tail(s) = <<>>)
<1>1. /\ Len(s) \in Nat \ {0} /\ DOMAIN s = 1 .. Len(s) /\ Head(s) = s[1]
      /\ DOMAIN Tail(s) = 1 .. Len(s) - 1 /\ \A i \in 1 .. Len(s) - 1 : Tail(s)[i] = s[i + 1]
      /\ Len(Tail(s)) = Len(s) - 1 /\ Tail(s) \in Seq(A)
  OBVIOUS
<1>2. DestroyLast(Tail(s))
  BY <1>1 DEF DestroyLast
<1>3. Head(s) = "destroy" => Len(Tail(s)) = 0
  BY <1>1 DEF DestroyLast
<1>4. Len(Tail(s)) = 0 => Tail(s) = <<>>
  <2> DEFINE t == Tail(s)
  <2>1. t \in Seq(A)
    BY <1>1
  <2> HIDE DEF t
  <2>2. Len(t) = 0 => t = <<>>
    BY <2>1
  <2> QED BY <2>2 DEF t
<1> QED BY <1>2, <1>3, <1>4

\* and put before it.
LEMMA LastJoined ==
    ASSUME NEW A, NEW r \in Seq(A), NEW s \in Seq(A), Never({"destroy"}, r), DestroyLast(s)
    PROVE  DestroyLast(r \o s)
<1> DEFINE t == r \o s
<1>1. /\ Len(r) \in Nat /\ Len(s) \in Nat /\ Len(t) = Len(r) + Len(s)
      /\ DOMAIN r = 1 .. Len(r) /\ DOMAIN s = 1 .. Len(s) /\ DOMAIN t = 1 .. Len(r) + Len(s)
      /\ \A i \in 1 .. Len(r) + Len(s) : t[i] = IF i <= Len(r) THEN r[i] ELSE s[i - Len(r)]
  OBVIOUS
<1> HIDE DEF t
<1>2. \A i \in DOMAIN t : \/ i \in DOMAIN r /\ t[i] = r[i]
                          \/ i > Len(r) /\ i - Len(r) \in DOMAIN s /\ t[i] = s[i - Len(r)]
  BY <1>1
<1>3. ASSUME NEW i \in DOMAIN t, t[i] = "destroy"
      PROVE  i = Len(t)
  <2>1. \A k \in DOMAIN r : r[k] # "destroy"
    BY DEF Never
  <2>2. i - Len(r) \in DOMAIN s /\ s[i - Len(r)] = "destroy"
    BY <1>2, <1>3, <2>1
  <2>3. i - Len(r) = Len(s)
    BY <2>2 DEF DestroyLast
  <2> QED BY <1>1, <2>3
<1>4. DestroyLast(t)
  BY <1>3 DEF DestroyLast
<1> QED BY <1>4 DEF t

\* A list without a destruction.
LEMMA NeverDestroyed ==
    ASSUME NEW s, Never({"destroy"}, s)
    PROVE  DestroyLast(s)
BY DEF Never, DestroyLast

\* A list of a few steps.
LEMMA ListsNever ==
    ASSUME NEW S
    PROVE  /\ Never(S, <<>>)
           /\ \A a : a \notin S => Never(S, <<a>>)
           /\ \A a, b : a \notin S /\ b \notin S => Never(S, <<a, b>>)
           /\ \A a, b, c : a \notin S /\ b \notin S /\ c \notin S => Never(S, <<a, b, c>>)
           /\ \A a, b, c : c \in S => ~Never(S, <<a, b, c>>)
<1>1. Never(S, <<>>) /\ \A a : a \notin S => Never(S, <<a>>)
  BY DEF Never
<1>2. ASSUME NEW a, NEW b, a \notin S, b \notin S
      PROVE  Never(S, <<a, b>>)
  <2>1. \A i \in DOMAIN <<a, b>> : <<a, b>>[i] \in {a, b}
    OBVIOUS
  <2> QED BY <1>2, <2>1 DEF Never
<1>3. ASSUME NEW a, NEW b, NEW c
      PROVE  /\ a \notin S /\ b \notin S /\ c \notin S => Never(S, <<a, b, c>>)
             /\ c \in S => ~Never(S, <<a, b, c>>)
  <2>1. \A i \in DOMAIN <<a, b, c>> : <<a, b, c>>[i] \in {a, b, c}
    OBVIOUS
  <2>2. 3 \in DOMAIN <<a, b, c>> /\ <<a, b, c>>[3] = c
    OBVIOUS
  <2> QED BY <1>3, <2>1, <2>2 DEF Never
<1> QED BY <1>1, <1>2, <1>3

\* A list of two steps of which one closes.
LEMMA ListsClosing ==
    ASSUME NEW S, NEW T
    PROVE  /\ \A a, b : a \in T /\ b \notin S => Closing(S, T, <<a, b>>)
           /\ \A a, b : b \in T => Closing(S, T, <<a, b>>)
<1> SUFFICES ASSUME NEW a, NEW b
             PROVE  /\ a \in T /\ b \notin S => Closing(S, T, <<a, b>>)
                    /\ b \in T => Closing(S, T, <<a, b>>)
  OBVIOUS
<1> DEFINE s == <<a, b>>
<1>1. /\ 1 \in DOMAIN s /\ 2 \in DOMAIN s /\ s[1] = a /\ s[2] = b
      /\ \A j \in DOMAIN s : j = 1 \/ j = 2
  OBVIOUS
<1> HIDE DEF s
<1>2. a \in T /\ b \notin S => Closing(S, T, s)
  BY <1>1 DEF Closing
<1>3. b \in T => Closing(S, T, s)
  BY <1>1 DEF Closing
<1> QED BY <1>2, <1>3 DEF s

\* The longer lists in parts.
LEMMA ListsParts ==
    /\ <<"stop capture", "stop playback", "clear peers">>
       = <<"stop capture", "stop playback">> \o <<"clear peers">>
    /\ <<"stop capture", "stop playback", "destroy">>
       = <<"stop capture", "stop playback">> \o <<"destroy">>
    /\ <<"stop capture", "stop playback", "stop capture", "stop playback", "destroy">>
       = <<"stop capture", "stop playback">> \o <<"stop capture", "stop playback", "destroy">>
<1> DEFINE a == "stop capture"
           b == "stop playback"
           c == "clear peers"
           d == "destroy"
<1> HIDE DEF a, b, c, d
<1>1. <<a, b, c>> = <<a, b>> \o <<c>>
  OBVIOUS
<1>2. <<a, b, d>> = <<a, b>> \o <<d>>
  OBVIOUS
<1>3. <<a, b, a, b, d>> = <<a, b>> \o <<a, b, d>>
  OBVIOUS
<1> QED BY <1>1, <1>2, <1>3, Zenon DEF a, b, c, d

\* What the lists of the Dart methods close and open.
LEMMA ListsClose ==
    /\ Closes(<<"stop capture", "stop playback">>)
    /\ Closes(<<"stop capture", "stop playback", "clear peers">>)
    /\ Closes(<<"stop capture", "stop playback", "stop capture", "stop playback", "destroy">>)
    /\ OpensNothing(<<>>) /\ OpensNothing(<<"clear peers">>)
<1> DEFINE two == <<"stop capture", "stop playback">>
           three == <<"stop capture", "stop playback", "clear peers">>
           last == <<"stop capture", "stop playback", "destroy">>
           five == <<"stop capture", "stop playback", "stop capture", "stop playback", "destroy">>
<1>1. /\ "stop capture" \in ClosesCapture /\ "stop playback" \notin OpensCapture
      /\ "stop playback" \in ClosesPlayback
      /\ "stop capture" \in ClosesMic /\ "stop playback" \notin OpensMic
      /\ "stop playback" \in ClosesSpk
  BY DEF OpensCapture, ClosesCapture, OpensMic, ClosesMic, ClosesPlayback, ClosesSpk
<1>2. OpensNothing(<<>>) /\ OpensNothing(<<"clear peers">>) /\ OpensNothing(<<"destroy">>)
  <2>1. /\ "clear peers" \notin OpensCapture \cup OpensPlayback \cup OpensMic \cup OpensSpk
        /\ "destroy" \notin OpensCapture \cup OpensPlayback \cup OpensMic \cup OpensSpk
    BY DEF OpensCapture, OpensPlayback, OpensMic, OpensSpk
  <2> QED BY <2>1, ListsNever DEF OpensNothing
<1>3. Closes(two)
  <2>1. \A S, T : /\ "stop capture" \in T /\ "stop playback" \notin S => Closing(S, T, two)
                  /\ "stop playback" \in T => Closing(S, T, two)
    BY ListsClosing, Zenon
  <2> QED BY <1>1, <2>1, Zenon DEF Closes
<1>4. /\ two \in Seq(Step) /\ <<"clear peers">> \in Seq(Step) /\ <<"destroy">> \in Seq(Step)
  <2>1. "destroy" \in Step
    BY DEF Step
  <2> QED BY <2>1, Lists, StepLists
<1>5. ASSUME NEW r \in Seq(Step), NEW s \in Seq(Step), Closes(r), OpensNothing(s)
      PROVE  Closes(r \o s)
  BY <1>5, ListJoined, Zenon DEF Closes, OpensNothing
<1>6. ASSUME NEW r \in Seq(Step), NEW s \in Seq(Step), Closes(s)
      PROVE  Closes(r \o s)
  BY <1>6, ListJoined, Zenon DEF Closes
<1>7. three = two \o <<"clear peers">> /\ last = two \o <<"destroy">>
  BY ListsParts, Zenon
<1>8. five = two \o last
  BY ListsParts, Zenon
<1> HIDE DEF two, three, last, five
<1>9. Closes(three) /\ Closes(last)
  BY <1>2, <1>3, <1>4, <1>5, <1>7
<1>10. last \in Seq(Step)
  BY <1>4, <1>7, Lists, Zenon
<1>11. Closes(five)
  BY <1>4, <1>6, <1>8, <1>9, <1>10
<1> QED BY <1>2, <1>3, <1>9, <1>11 DEF two, three, five

\* What the lists of joinVoice, disconnect and the device changes leave on.
LEMMA ListsOpen ==
    /\ Closing(ClosesCapture, OpensCapture, <<"start capture", "start playback">>)
    /\ ~Never({"clear peers"}, <<"stop capture", "stop playback", "clear peers">>)
    /\ Never(ClosesCapture, <<>>)
    /\ Never(ClosesCapture, <<"close mic", "open mic">>)
    /\ Never(ClosesCapture, <<"close spk", "open spk">>)
<1>1. /\ "start capture" \in OpensCapture
      /\ \A x \in {"start playback", "close mic", "open mic", "close spk", "open spk"} :
            x \notin ClosesCapture
  BY DEF OpensCapture, ClosesCapture
<1>2. /\ "start playback" \notin ClosesCapture
      /\ "close mic" \notin ClosesCapture /\ "open mic" \notin ClosesCapture
      /\ "close spk" \notin ClosesCapture /\ "open spk" \notin ClosesCapture
      /\ "clear peers" \in {"clear peers"}
  BY <1>1
<1>3. Closing(ClosesCapture, OpensCapture, <<"start capture", "start playback">>)
  BY <1>1, <1>2, ListsClosing, Zenon
<1>4. ~Never({"clear peers"}, <<"stop capture", "stop playback", "clear peers">>)
  BY <1>2, ListsNever, Zenon
<1>5. Never(ClosesCapture, <<>>)
  BY ListsNever, Zenon
<1>6. /\ Never(ClosesCapture, <<"close mic", "open mic">>)
      /\ Never(ClosesCapture, <<"close spk", "open spk">>)
  BY <1>2, ListsNever, Zenon
<1> QED BY <1>3, <1>4, <1>5, <1>6

\* Only AudioEngineService.destroy destroys, and it does so last.
LEMMA ListsDestroy ==
    /\ Never({"destroy"}, <<>>) /\ Never({"destroy"}, <<"clear peers">>)
    /\ Never({"destroy"}, <<"start capture">>) /\ Never({"destroy"}, <<"start playback">>)
    /\ Never({"destroy"}, <<"start capture", "start playback">>)
    /\ Never({"destroy"}, <<"stop capture", "stop playback">>)
    /\ Never({"destroy"}, <<"close mic", "open mic">>)
    /\ Never({"destroy"}, <<"close spk", "open spk">>)
    /\ Never({"destroy"}, <<"stop capture", "stop playback", "clear peers">>)
    /\ DestroyLast(<<"stop capture", "stop playback", "stop capture", "stop playback", "destroy">>)
<1> DEFINE D == {"destroy"}
           two == <<"stop capture", "stop playback">>
           last == <<"stop capture", "stop playback", "destroy">>
           five == <<"stop capture", "stop playback", "stop capture", "stop playback", "destroy">>
<1>1. /\ "clear peers" \notin D /\ "start capture" \notin D /\ "start playback" \notin D
      /\ "stop capture" \notin D /\ "stop playback" \notin D
      /\ "close mic" \notin D /\ "open mic" \notin D
      /\ "close spk" \notin D /\ "open spk" \notin D
  OBVIOUS
<1>2. two \in Seq(Step) /\ <<"destroy">> \in Seq(Step)
  <2>1. "destroy" \in Step
    BY DEF Step
  <2> QED BY <2>1, Lists, StepLists
<1>3. last = two \o <<"destroy">>
  BY ListsParts, Zenon
<1>4. five = two \o last
  BY ListsParts, Zenon
<1>5. DestroyLast(<<"destroy">>)
  <2>1. \A i \in DOMAIN <<"destroy">> : i = Len(<<"destroy">>)
    OBVIOUS
  <2> QED BY <2>1, Zenon DEF DestroyLast
<1> HIDE DEF D
<1>6. /\ Never(D, <<>>) /\ Never(D, <<"clear peers">>)
      /\ Never(D, <<"start capture">>) /\ Never(D, <<"start playback">>)
  BY <1>1, ListsNever, Zenon
<1>7. /\ Never(D, <<"start capture", "start playback">>) /\ Never(D, two)
      /\ Never(D, <<"close mic", "open mic">>) /\ Never(D, <<"close spk", "open spk">>)
  BY <1>1, ListsNever, Zenon
<1>8. Never(D, <<"stop capture", "stop playback", "clear peers">>)
  BY <1>1, ListsNever, Zenon
<1> HIDE DEF two, last, five
<1>9. last \in Seq(Step)
  BY <1>2, <1>3, Lists, Zenon
<1>10. DestroyLast(last)
  BY <1>2, <1>3, <1>5, <1>7, LastJoined DEF D
<1>11. DestroyLast(five)
  BY <1>2, <1>4, <1>7, <1>9, <1>10, LastJoined DEF D
<1> QED BY <1>6, <1>7, <1>8, <1>11 DEF D, two, five

-----------------------------------------------------------------------------
(* The calls of the isolate                                                *)

\* With neither a voice channel nor a microphone test everything is being closed.
ReleasedInv == ~inVoice /\ ~testing => Released
\* The loopback is on in a microphone test only, and then the microphone is too.
ListenInv == loopback => testing /\ Listening
\* The context is destroyed after everything else, and out of every call.
DestroyInv == DestroyLast(todo) /\ (~Never({"destroy"}, todo) => ~inVoice /\ ~testing)
\* Once it is destroyed nothing is open and nothing is left to do.
DownInv == ~up => todo = <<>> /\ mic = "closed" /\ spk = "closed"
\* The indicator, also in the middle of a call.
SpeakInv == speaking => capturing /\ ~muted

\* The types the control needs.
TypesOK == FlagsOK /\ DevicesOK /\ todo \in Seq(Step)

\* The list of a call that ends a microphone test.
LEMMA EndedTest ==
    ASSUME NEW next \in Seq(Step), EndMicTest(next)
    PROVE  /\ ~loopback' /\ ~testing'
           /\ inVoice => todo' = next
           /\ ~inVoice => todo' = <<"stop capture", "stop playback">> \o next
<1>1. inVoice => todo' = <<>> \o next
  BY DEF EndMicTest
<1>2. <<>> \o next = next
  OBVIOUS
<1> QED BY <1>1, <1>2 DEF EndMicTest

\* A list that closes both directions releases the hardware.
LEMMA ClosingReleases ==
    ASSUME Closes(todo)
    PROVE  Released
BY Zenon DEF Closes, Released, CaptureOff, PlaybackOff, MicOff, SpkOff

\* Calls that leave the channel or the test close what they opened.
LEMMA ReleasedStep ==
    ASSUME TypesOK, ReleasedInv, [Next]_vars
    PROVE  ReleasedInv'
<1> SUFFICES ASSUME ~inVoice', ~testing'
             PROVE  Released'
  BY DEF ReleasedInv
<1> USE DEF TypesOK
<1>1. CASE Hardware
  <2>1. UNCHANGED <<inVoice, testing>>
    BY <1>1 DEF Hardware, StartCapture, StopCapture, StartPlayback, StopPlayback,
       OpenMic, OpenSpk,
       CloseMic, CloseSpk, ClearPeers, DestroyContext, flags
  <2>2. CaptureOff /\ PlaybackOff /\ MicOff /\ SpkOff
    BY <2>1 DEF ReleasedInv, Released
  <2> QED BY <1>1, <2>2, CaptureOffStep, PlaybackOffStep, MicOffStep, SpkOffStep
    DEF Released
<1>2. ASSUME NEW next \in Seq(Step), EndMicTest(next), ~inVoice, OpensNothing(next)
      PROVE  Released'
  <2>1. todo' = <<"stop capture", "stop playback">> \o next
    BY <1>2, EndedTest
  <2>2. \A S, T : Closing(S, T, <<"stop capture", "stop playback">>) /\ Never(S, next)
                  => Closing(S, T, todo')
    BY <2>1, StepLists, ListJoined
  <2>3. Closes(todo')
    BY <1>2, <2>2, ListsClose, Zenon DEF Closes, OpensNothing
  <2> QED BY <2>3, ClosingReleases DEF Closes, Released, CaptureOff, PlaybackOff,
    MicOff, SpkOff
<1>3. CASE StopMicTest \/ PrepareVoice
  <2>1. UNCHANGED inVoice /\ (EndMicTest(<<>>) \/ EndMicTest(<<"clear peers">>))
    BY <1>3 DEF StopMicTest, PrepareVoice
  <2> QED BY <1>2, <2>1, StepLists, ListsClose, Zenon
<1>4. CASE Destroy
  <2> DEFINE five == <<"stop capture", "stop playback", "stop capture", "stop playback", "destroy">>
  <2>1. todo' = five \/ todo' = <<"stop capture", "stop playback">> \o five
    BY <1>4, StepLists, EndedTest DEF Destroy, FlagsOK
  <2>2. five \in Seq(Step) /\ Closes(five) /\ <<"stop capture", "stop playback">> \in Seq(Step)
    BY StepLists, ListsClose
  <2> HIDE DEF five
  <2>3. \A S, T : Closing(S, T, five) => Closing(S, T, todo')
    BY <2>1, <2>2, ListJoined
  <2>4. Closes(todo')
    BY <2>2, <2>3, Zenon DEF Closes
  <2> QED BY <2>4 DEF Closes, Released, CaptureOff, PlaybackOff, MicOff, SpkOff
<1>5. CASE LeaveVoice
  <2>1. Closes(todo')
    BY <1>5, ListsClose, Zenon DEF LeaveVoice, Voice
  <2> QED BY <2>1 DEF Closes, Released, CaptureOff, PlaybackOff, MicOff, SpkOff
<1>6. CASE StartVoice \/ StartMicTest
  BY <1>6 DEF StartVoice, Voice, StartMicTest
<1>7. CASE UNCHANGED <<todo, capturing, playing, inVoice, testing>>
           /\ (mic' = mic \/ mic # "closed") /\ (spk' = spk \/ spk # "closed")
  <2>1. Released
    BY <1>7 DEF ReleasedInv
  <2> QED BY <1>7, <2>1 DEF Released, CaptureOff, PlaybackOff, MicOff, SpkOff
<1>8. CASE SetInputDevice \/ SetOutputDevice
  <2>1. UNCHANGED <<capturing, playing, mic, spk, inVoice, testing>> /\ todo = <<>>
    BY <1>8 DEF SetInputDevice, SetOutputDevice, Change, Idle, flags, devices
  <2>2. ~capturing /\ ~playing
    BY <2>1, EmptyList DEF ReleasedInv, Released, CaptureOff, PlaybackOff
  <2>3. UNCHANGED todo
    BY <1>8, <2>1, <2>2 DEF SetInputDevice, SetOutputDevice, Change, Restart
  <2> QED BY <1>7, <2>1, <2>3
<1>9. CASE MicEnter \/ MicWrite \/ MicTurns \/ SpkEnter \/ SpkMix \/ SpkTurns
  BY <1>7, <1>9 DEF MicEnter, MicWrite, MicTurns, SpkEnter, SpkMix, SpkTurns, flags,
     Microphone!Enter, Microphone!Leave, Microphone!End, Microphone!Restart, Microphone!Turn,
     Speaker!Enter, Speaker!Leave, Speaker!End, Speaker!Restart, Speaker!Turn
<1>10. CASE \/ UNCHANGED vars \/ SetLocalMute \/ SetLocalDeafen \/ SetVadMode \/ Pump
            \/ \E u \in User : SetUserVolume(u) \/ \E k \in Packets : FeedInboundPacket(u, k)
  BY <1>7, <1>10 DEF vars, SetLocalMute, SetLocalDeafen, SetVadMode, Pump,
     CaptureSilence,
     CaptureStarved, CaptureFrame, SetUserVolume, FeedInboundPacket, flags, devices
<1> QED BY <1>1, <1>3, <1>4, <1>5, <1>6, <1>8, <1>9, <1>10 DEF Next

\* The rest of a list is one.
LEMMA TailType ==
    ASSUME NEW A, NEW s \in Seq(A), s # <<>>
    PROVE  Tail(s) \in Seq(A)
OBVIOUS

\* No call comes after the destruction, and none before it reopens the channel.
LEMMA DestroyStep ==
    ASSUME TypesOK, DestroyInv, [Next]_vars
    PROVE  DestroyInv'
<1> DEFINE D == {"destroy"}
<1> USE DEF TypesOK
<1>1. CASE Hardware
  <2>1. todo # <<>>
    BY <1>1, HardwareBegins
  <2>2. UNCHANGED <<inVoice, testing>>
    BY <1>1 DEF Hardware, StartCapture, StopCapture, StartPlayback, StopPlayback,
       OpenMic, OpenSpk,
       CloseMic, CloseSpk, ClearPeers, DestroyContext, flags
  <2>3. \/ UNCHANGED todo \/ Done
        \/ \E x \in {"open mic", "close mic", "open spk", "close spk"} : Then(x)
    BY <1>1 DEF Hardware, StartCapture, StopCapture, StartPlayback, StopPlayback,
       OpenMic, OpenSpk,
       CloseMic, CloseSpk, ClearPeers, DestroyContext
  <2>4. CASE UNCHANGED todo
    BY <2>2, <2>4 DEF DestroyInv
  <2>5. CASE Done
    <3>1. DestroyLast(todo')
      BY <2>1, <2>5, LastTail DEF DestroyInv, Done
    <3>2. Never(D, todo) => Never(D, todo')
      BY <2>1, <2>5, DoneFacts
    <3> QED BY <2>2, <3>1, <3>2 DEF DestroyInv
  <2>6. ASSUME NEW x \in {"open mic", "close mic", "open spk", "close spk"}, Then(x)
        PROVE  DestroyInv'
    <3>1. x \in Step /\ x \notin D
      BY DEF Step
    <3>2. Tail(todo) \in Seq(Step)
      BY <2>1, TailType
    <3>7. <<x>> \in Seq(Step)
      BY <3>1, Lists, Zenon
    <3>8. todo' = <<x>> \o Tail(todo)
      BY <2>6 DEF Then
    <3>3. DestroyLast(Tail(todo)) /\ Never(D, <<x>>)
      BY <2>1, <3>1, LastTail, ListOfOne DEF DestroyInv
    <3>4. DestroyLast(todo')
      BY <3>2, <3>3, <3>7, <3>8, LastJoined
    <3>5. Never(D, todo) => Never(D, todo')
      BY <2>1, <2>6, <3>1, ThenFacts
    <3> QED BY <2>2, <3>4, <3>5 DEF DestroyInv
  <2> QED BY <2>3, <2>4, <2>5, <2>6
<1>2. ASSUME Never(D, todo')
      PROVE  DestroyInv'
  BY <1>2, NeverDestroyed DEF DestroyInv
<1>3. ASSUME NEW r \in Seq(Step), NEW s \in Seq(Step), Never(D, r), Never(D, s)
      PROVE  Never(D, r \o s)
  BY <1>3, ListJoined
<1>4. CASE StopMicTest \/ PrepareVoice
  <2>1. PICK next \in {<<>>, <<"clear peers">>} : EndMicTest(next)
    BY <1>4 DEF StopMicTest, PrepareVoice
  <2>2. next \in Seq(Step) /\ Never(D, next)
    BY <2>1, StepLists, ListsDestroy
  <2>3. Never(D, <<"stop capture", "stop playback">> \o next)
    BY <1>3, <2>2, StepLists, ListsDestroy
  <2> QED BY <1>2, <2>1, <2>2, <2>3, EndedTest
<1>5. CASE Destroy
  <2> DEFINE five == <<"stop capture", "stop playback", "stop capture", "stop playback", "destroy">>
  <2>1. /\ todo' = five \/ todo' = <<"stop capture", "stop playback">> \o five
        /\ ~inVoice' /\ ~testing'
    BY <1>5, StepLists, EndedTest DEF Destroy, FlagsOK
  <2>2. /\ five \in Seq(Step) /\ <<"stop capture", "stop playback">> \in Seq(Step)
        /\ Never(D, <<"stop capture", "stop playback">>) /\ DestroyLast(five)
    BY StepLists, ListsDestroy
  <2> HIDE DEF five
  <2>3. DestroyLast(todo')
    BY <2>1, <2>2, LastJoined
  <2> QED BY <2>1, <2>3 DEF DestroyInv
<1>6. CASE StartVoice \/ LeaveVoice \/ SetInputDevice \/ SetOutputDevice
  BY <1>2, <1>6, ListsDestroy DEF StartVoice, LeaveVoice, Voice, SetInputDevice,
     SetOutputDevice,
     Change, Restart
<1>7. CASE StartMicTest
  <2> DEFINE s == (IF capturing THEN <<>> ELSE <<"start capture">>)
             t == (IF playing THEN <<>> ELSE <<"start playback">>)
  <2>1. todo' = s \o t \o <<"start capture", "start playback">>
    BY <1>7 DEF StartMicTest
  <2>2. s \in Seq(Step) /\ t \in Seq(Step) /\ Never(D, s) /\ Never(D, t)
    BY StepLists, ListsDestroy, Zenon
  <2> HIDE DEF s, t
  <2>3. s \o t \in Seq(Step) /\ Never(D, s \o t)
    BY <1>3, <2>2
  <2>4. Never(D, todo')
    BY <1>3, <2>1, <2>3, StepLists, ListsDestroy
  <2> QED BY <1>2, <2>4
<1>8. \/ UNCHANGED <<todo, inVoice, testing>> \/ Hardware
      \/ StopMicTest \/ PrepareVoice \/ StartVoice \/ LeaveVoice \/ StartMicTest \/ Destroy
      \/ SetInputDevice \/ SetOutputDevice
  BY DEF Next, Pump, vars, flags, MicEnter, MicWrite, MicTurns, SpkEnter, SpkMix,
     SpkTurns, SetLocalMute,
     SetLocalDeafen, SetVadMode, SetUserVolume, FeedInboundPacket, CaptureSilence,
     CaptureStarved, CaptureFrame
<1>9. CASE UNCHANGED <<todo, inVoice, testing>>
  BY <1>9 DEF DestroyInv
<1> QED BY <1>1, <1>4, <1>5, <1>6, <1>7, <1>8, <1>9

\* The mutex goes last: both devices are closed by then.
LEMMA DownStep ==
    ASSUME TypesOK, ReleasedInv, DestroyInv, DownInv, [Next]_vars
    PROVE  DownInv'
<1> SUFFICES ASSUME ~up'
             PROVE  todo' = <<>> /\ mic' = "closed" /\ spk' = "closed"
  BY DEF DownInv
<1> USE DEF TypesOK
<1>1. CASE ~up
  <2>1. todo = <<>> /\ mic = "closed" /\ spk = "closed"
    BY <1>1 DEF DownInv
  <2>2. ~Idle /\ ~Hardware
    BY <1>1, <2>1, HardwareBegins DEF Idle
  <2>3. MicEnter \/ MicWrite \/ MicTurns \/ SpkEnter \/ SpkMix \/ SpkTurns \/ UNCHANGED vars
    BY <2>2 DEF Next, StopMicTest, PrepareVoice, Voice, StartVoice, LeaveVoice,
       StartMicTest, Destroy,
       SetLocalMute, SetLocalDeafen, SetVadMode, Change, SetInputDevice,
       SetOutputDevice,
       SetUserVolume, FeedInboundPacket, Pump, PumpRuns, CaptureSilence, CaptureStarved,
       CaptureFrame, CaptureOn
  <2> QED BY <2>1, <2>3 DEF vars, devices, MicEnter, MicWrite, MicTurns, SpkEnter,
    SpkMix, SpkTurns,
     Microphone!Enter, Microphone!Leave, Microphone!End, Microphone!Restart, Microphone!Turn,
     Speaker!Enter, Speaker!Leave, Speaker!End, Speaker!Restart, Speaker!Turn
<1>2. CASE up
  <2>1. DestroyContext
    BY <1>2 DEF Next, Hardware, Pump, vars, flags, MicEnter, MicWrite, MicTurns,
       SpkEnter, SpkMix,
       SpkTurns, StartCapture, StopCapture, StartPlayback, StopPlayback, OpenMic,
       OpenSpk,
       CloseMic, CloseSpk, ClearPeers, EndMicTest, StopMicTest, PrepareVoice, Voice,
       StartVoice, LeaveVoice, StartMicTest, Destroy, SetLocalMute, SetLocalDeafen,
       SetVadMode,
       Change, SetInputDevice, SetOutputDevice, SetUserVolume, FeedInboundPacket,
       CaptureSilence,
       CaptureStarved, CaptureFrame
  <2>2. todo # <<>> /\ Head(todo) = "destroy" /\ Hardware /\ Done
    BY <2>1 DEF DestroyContext, Begin, Hardware
  <2>3. todo' = <<>>
    BY <2>2, LastTail DEF DestroyInv, Done
  <2>4. ~inVoice /\ ~testing
    <3>1. Never({"destroy"}, todo) => Head(todo) \notin {"destroy"}
      BY <2>2, ListTail
    <3> QED BY <2>2, <3>1 DEF DestroyInv
  <2>5. MicOff' /\ SpkOff'
    BY <2>2, <2>4, MicOffStep, SpkOffStep DEF ReleasedInv, Released
  <2>6. /\ Closing(OpensMic, ClosesMic, todo') \/ mic' = "closed"
        /\ Closing(OpensSpk, ClosesSpk, todo') \/ spk' = "closed"
    BY <2>5, Zenon DEF MicOff, SpkOff
  <2>7. \A S, T : ~Closing(S, T, <<>>)
    BY EmptyList
  <2> QED BY <2>3, <2>6, <2>7
<1> QED BY <1>1, <1>2

\* While the loopback is on nothing leaves the microphone stopped for good.
LEMMA ListenStep ==
    ASSUME TypesOK, ListenInv, [Next]_vars
    PROVE  ListenInv'
<1> DEFINE S == ClosesCapture
           T == OpensCapture
           C == {"clear peers"}
<1> SUFFICES ASSUME loopback'
             PROVE  testing' /\ Listening'
  BY DEF ListenInv
<1> USE DEF TypesOK
<1>1. Listening <=> Closing(S, T, todo) \/ (capturing /\ Never(S, todo)) \/ ~Never(C, todo)
  BY DEF Listening
<1>2. Listening' <=> Closing(S, T, todo') \/ (capturing' /\ Never(S, todo')) \/ ~Never(C, todo')
  BY DEF Listening
<1>3. S = {"stop capture"} /\ T = {"start capture"}
  BY DEF OpensCapture, ClosesCapture
<1> HIDE DEF S, T, C
<1>4. CASE Hardware
  <2>1. todo # <<>>
    BY <1>4, HardwareBegins
  <2>2. ~(ClearPeers \/ DestroyContext)
    BY DEF ClearPeers, DestroyContext
  <2>3. UNCHANGED <<loopback, testing>>
    BY <1>4, <2>2 DEF Hardware, StartCapture, StopCapture, StartPlayback,
       StopPlayback, OpenMic, OpenSpk,
       CloseMic, CloseSpk, flags
  <2>4. testing /\ Listening
    BY <2>3 DEF ListenInv
  <2>5. {"open mic", "close mic", "open spk", "close spk"} \subseteq Step \ (S \cup T \cup C)
    BY <1>3 DEF Step, C
  <2>6. CASE StartCapture
    <3>1. Head(todo) \notin C /\ Then("open mic") /\ capturing'
      BY <2>6 DEF StartCapture, Begin, C
    <3>2. /\ Closing(S, T, todo) => Closing(S, T, todo') \/ Never(S, todo')
          /\ Never(S, todo) => Never(S, todo')
          /\ ~Never(C, todo) => ~Never(C, todo')
      <4>1. "open mic" \in Step /\ "open mic" \notin S
        BY <2>5
      <4> QED BY <2>1, <3>1, <4>1, ThenFacts
    <3> QED BY <1>1, <1>2, <2>3, <2>4, <3>1, <3>2
  <2>7. CASE StopCapture
    <3>1. Head(todo) = "stop capture" /\ Then("close mic")
      BY <2>7 DEF StopCapture, Begin
    <3>2. /\ Closing(S, T, todo) => Closing(S, T, todo')
          /\ ~Never(S, todo)
          /\ ~Never(C, todo) => ~Never(C, todo')
      <4>1. "close mic" \in Step /\ "stop capture" \notin T /\ "stop capture" \in S
            /\ "stop capture" \notin C
        BY <1>3, <2>5 DEF C
      <4>2. /\ Never(S, todo) => Head(todo) \notin S
            /\ Closing(S, T, todo) /\ Head(todo) \notin T => Closing(S, T, todo')
        BY <2>1, <3>1, <4>1, ThenFacts
      <4>3. ~Never(C, todo) /\ Head(todo) \notin C => ~Never(C, todo')
        BY <2>1, <3>1, <4>1, ThenFacts
      <4> QED BY <3>1, <4>1, <4>2, <4>3
    <3> QED BY <1>1, <1>2, <2>3, <2>4, <3>2
  <2>8. CASE ~(StartCapture \/ StopCapture)
    <3>1. /\ Head(todo) \notin S \cup T \cup C
          /\ \/ UNCHANGED todo
             \/ Done
             \/ \E x \in {"open mic", "close mic", "open spk", "close spk"} : Then(x)
      BY <1>3, <1>4, <2>2, <2>8 DEF Hardware, StartPlayback, StopPlayback, OpenMic,
         OpenSpk, CloseMic,
         CloseSpk, Begin, C
    <3>2. UNCHANGED capturing
      BY <1>4, <2>2, <2>8 DEF Hardware, StartPlayback, StopPlayback, OpenMic,
         OpenSpk, CloseMic,
         CloseSpk, flags
    <3>3. /\ Closing(S, T, todo) => Closing(S, T, todo')
          /\ Never(S, todo) => Never(S, todo')
          /\ ~Never(C, todo) => ~Never(C, todo')
      <4>1. CASE UNCHANGED todo
        BY <4>1
      <4>2. CASE Done
        BY <2>1, <3>1, <4>2, DoneFacts
      <4>3. ASSUME NEW x \in {"open mic", "close mic", "open spk", "close spk"}, Then(x)
            PROVE  /\ Closing(S, T, todo) => Closing(S, T, todo')
                   /\ Never(S, todo) => Never(S, todo')
                   /\ ~Never(C, todo) => ~Never(C, todo')
        <5>1. x \in Step /\ x \notin S
          BY <2>5
        <5> QED BY <2>1, <3>1, <4>3, <5>1, ThenFacts
      <4> QED BY <3>1, <4>1, <4>2, <4>3
    <3> QED BY <1>1, <1>2, <2>3, <2>4, <3>2, <3>3
  <2> QED BY <2>6, <2>7, <2>8
<1>5. CASE StopMicTest \/ PrepareVoice \/ Destroy
  BY <1>5 DEF StopMicTest, PrepareVoice, Destroy, EndMicTest
<1>6. CASE StartMicTest
  <2> DEFINE s == (IF capturing THEN <<>> ELSE <<"start capture">>)
             t == (IF playing THEN <<>> ELSE <<"start playback">>)
  <2>1. todo' = s \o t \o <<"start capture", "start playback">> /\ testing'
    BY <1>6 DEF StartMicTest
  <2>2. s \in Seq(Step) /\ t \in Seq(Step)
    BY StepLists, Zenon
  <2> HIDE DEF s, t
  <2>3. s \o t \in Seq(Step)
    BY <2>2, Lists, Zenon
  <2>4. Closing(S, T, <<"start capture", "start playback">>)
    BY ListsOpen, Zenon DEF S, T
  <2>5. Closing(S, T, todo')
    BY <2>1, <2>3, <2>4, StepLists, ListJoined
  <2> QED BY <1>2, <2>1, <2>5
<1>7. CASE StartVoice \/ LeaveVoice
  <2>1. UNCHANGED <<loopback, testing>>
    BY <1>7 DEF StartVoice, LeaveVoice, Voice
  <2>2. Closing(S, T, todo') \/ ~Never(C, todo')
    BY <1>7, ListsOpen, Zenon DEF StartVoice, LeaveVoice, Voice, S, T, C
  <2> QED BY <1>2, <2>1, <2>2 DEF ListenInv
<1>8. CASE SetInputDevice \/ SetOutputDevice
  <2>1. UNCHANGED <<capturing, loopback, testing>> /\ todo = <<>>
    BY <1>8 DEF SetInputDevice, SetOutputDevice, Change, Idle, flags
  <2>2. capturing
    BY <1>1, <2>1, EmptyList DEF ListenInv
  <2>3. Never(S, todo')
    <3>1. todo' \in {<<>>, <<"close mic", "open mic">>, <<"close spk", "open spk">>}
      BY <1>8 DEF SetInputDevice, SetOutputDevice, Change, Restart
    <3> QED BY <3>1, ListsOpen DEF S
  <2> QED BY <1>2, <2>1, <2>2, <2>3 DEF ListenInv
<1>9. CASE UNCHANGED <<todo, capturing, loopback, testing>>
  BY <1>9 DEF ListenInv, Listening
<1>10. \/ UNCHANGED <<todo, capturing, loopback, testing>> \/ Hardware
       \/ StopMicTest \/ PrepareVoice \/ StartVoice \/ LeaveVoice \/ StartMicTest \/ Destroy
       \/ SetInputDevice \/ SetOutputDevice
  BY DEF Next, Pump, vars, flags, MicEnter, MicWrite, MicTurns, SpkEnter, SpkMix,
     SpkTurns, SetLocalMute,
     SetLocalDeafen, SetVadMode, SetUserVolume, FeedInboundPacket, CaptureSilence,
     CaptureStarved, CaptureFrame
<1> QED BY <1>4, <1>5, <1>6, <1>7, <1>8, <1>9, <1>10

\* A frame is captured when capturing or, in a test, when the loopback is on.
LEMMA SpeakStep ==
    ASSUME TypesOK, ListenInv, SpeakInv, [Next]_vars
    PROVE  SpeakInv'
<1> USE DEF TypesOK, FlagsOK
<1>1. CASE UNCHANGED <<speaking, capturing, muted>>
  BY <1>1 DEF SpeakInv
<1>2. CASE ~speaking' \/ StartCapture
  BY <1>2 DEF SpeakInv, StartCapture, voiceActivity
<1>3. CASE SetLocalMute \/ SetLocalDeafen
  BY <1>3 DEF SpeakInv, SetLocalMute, SetLocalDeafen, SpeakingAfter
<1>4. CASE CaptureFrame
  <2>1. ~muted /\ (capturing \/ loopback) /\ todo = <<>> /\ UNCHANGED <<capturing, muted>>
    BY <1>4 DEF CaptureFrame, CaptureOn, PumpRuns, Idle, flags
  <2>2. loopback => capturing
    BY <2>1, EmptyList DEF ListenInv, Listening
  <2> QED BY <2>1, <2>2 DEF SpeakInv
<1>5. \/ UNCHANGED <<speaking, capturing, muted>> \/ ~speaking' \/ StartCapture
      \/ SetLocalMute \/ SetLocalDeafen \/ CaptureFrame
  BY DEF Next, Hardware, Pump, vars, flags, voiceActivity, MicEnter, MicWrite,
     MicTurns, SpkEnter,
     SpkMix, SpkTurns, StopCapture, StartPlayback, StopPlayback, OpenMic, OpenSpk,
     CloseMic, CloseSpk, ClearPeers, DestroyContext, EndMicTest, StopMicTest,
     PrepareVoice, Voice,
     StartVoice, LeaveVoice, StartMicTest, Destroy, SetVadMode,
     Change, SetInputDevice, SetOutputDevice, SetUserVolume, FeedInboundPacket,
     CaptureSilence,
     CaptureStarved
<1> QED BY <1>1, <1>2, <1>3, <1>4, <1>5

-----------------------------------------------------------------------------
(* The capture ring                                                        *)

\* What the capture ring holds, and what has been handed out of it.
CaptureInv ==
    /\ ring \in Ring /\ captured \in 0 .. MaxBlocks
    /\ taken \in 0 .. captured /\ fed \in 0 .. MaxBlocks - captured
    /\ TailOf(ring, captured) /\ taken <= captured - Available(ring)

\* The microphone appends to the ring, or laps what waits there.
LEMMA MicWriteStep ==
    ASSUME CaptureInv, micBusy \in BOOLEAN, MicWrite
    PROVE  CaptureInv'
<1> USE EngineConstants, RingSizeAssumption DEF CaptureInv
<1>1. PICK n \in 1 .. Period : /\ n - 1 <= Room
                               /\ ring' = Written(ring, captured + 1, n)
                               /\ captured' = captured + n
  BY DEF MicWrite
<1>2. UNCHANGED <<taken, fed>> /\ micBusy
  BY DEF MicWrite, mixer, Microphone!Leave
<1>3. n \in 1 .. RingSize - 1 /\ captured + n + fed <= MaxBlocks
  BY <1>1, <1>2 DEF Room
<1>4. ring' \in Ring /\ TailOf(ring', captured')
  BY <1>1, <1>3, TailWritten, WrittenFacts
<1>5. Available(ring) \in Nat /\ Available(ring') \in {Available(ring) + n, Available(ring) + n - RingSize}
  <2>1. captured + 1 \in Nat
    OBVIOUS
  <2> QED BY <1>1, <1>3, <2>1, WrittenFacts, AvailableType
<1> QED BY <1>1, <1>2, <1>3, <1>4, <1>5

\* A frame is the oldest blocks of the ring, all of them new.
LEMMA CaptureFrameStep ==
    ASSUME CaptureInv, CaptureFrame
    PROVE  /\ CaptureInv'
           /\ Unread(ring, 0) \in Nat /\ taken < Unread(ring, 0)
           /\ taken' = Unread(ring, 0) + Frame - 1
<1> USE EngineConstants, RingSizeAssumption DEF CaptureInv
<1> DEFINE a == Available(ring)
<1>1. /\ ring' = Consumed(ring, Frame) /\ taken' = Unread(ring, Frame - 1)
      /\ UNCHANGED <<captured, fed>> /\ a >= Frame
  BY DEF CaptureFrame, FrameReady
<1>2. a \in Nat /\ Frame \in 0 .. a /\ Frame \in Nat \ {0}
  BY <1>1, AvailableType
<1>3. ring' \in Ring /\ TailOf(ring', captured) /\ Available(ring') = a - Frame
  BY <1>1, <1>2, TailConsumed, ConsumedFacts
<1>4. \A i \in 0 .. a - 1 : Unread(ring, i) = captured - a + 1 + i
  BY DEF TailOf
<1> HIDE DEF a
<1>5. Unread(ring, Frame - 1) = captured - a + Frame /\ Unread(ring, 0) = captured - a + 1
  BY <1>2, <1>4
<1>6. taken <= captured - a
  BY DEF a
<1> QED BY <1>1, <1>2, <1>3, <1>5, <1>6

-----------------------------------------------------------------------------
(* The slots of the mixer                                                  *)

\* Those who have blocks to mix, and what a slot is.
Speaking == User \cup {Self}
Peer == [user : Speaking \cup {Nobody}, ring : Ring]

\* The types of the mixer.
MixerOK == peers \in [Slot -> Peer] /\ heard \in [Speaking -> Nat]

\* The slots and their numbers.
LEMMA SlotFacts ==
    /\ 0 \in Slot /\ RemoteSlot \subseteq Slot /\ 0 \notin RemoteSlot
    /\ Slot \subseteq Int /\ \A i \in Slot : i # 0 => i \in RemoteSlot
BY EngineConstants DEF Slot, RemoteSlot

\* A slot of the mixer.
LEMMA PeerType ==
    ASSUME MixerOK, NEW i \in Slot
    PROVE  /\ peers[i] \in Peer /\ peers[i].ring \in Ring
           /\ peers[i].user \in Speaking \cup {Nobody}
BY DEF MixerOK, Peer

\* A slot that is written as a whole.
LEMMA MadePeer ==
    ASSUME NEW u \in Speaking \cup {Nobody}, NEW r \in Ring
    PROVE  /\ [user |-> u, ring |-> r] \in Peer
           /\ [user |-> u, ring |-> r].user = u /\ [user |-> u, ring |-> r].ring = r
BY DEF Peer

\* A slot that is not active.
LEMMA FreeSlotFacts ==
    FreeSlot \in Peer /\ FreeSlot.user = Nobody /\ FreeSlot.ring = EmptyRing
BY EmptyRingFacts DEF FreeSlot, Peer

\* One slot is written.
LEMMA SlotWritten ==
    ASSUME MixerOK, NEW i \in Slot, NEW p \in Peer, peers' = [peers EXCEPT ![i] = p]
    PROVE  /\ peers' \in [Slot -> Peer]
           /\ peers'[i] = p /\ \A j \in Slot \ {i} : peers'[j] = peers[j]
BY DEF MixerOK

\* A slot of a user is one it has or a free one.
LEMMA SlotForFacts ==
    ASSUME NEW u \in User, NEW i \in SlotFor(u)
    PROVE  /\ i \in Slot /\ i # 0
           /\ \/ peers[i].user = u
              \/ peers[i].user = Nobody /\ \A j \in RemoteSlot : peers[j].user # u
BY SlotFacts DEF SlotFor, SlotOf, FreeSlots

\* The ring of the slot is its user's, or new.
LEMMA RingForFacts ==
    ASSUME MixerOK, NEW u \in User, NEW i \in Slot
    PROVE  /\ RingFor(u, i) \in Ring
           /\ peers[i].user = u => RingFor(u, i) = peers[i].ring
           /\ peers[i].user # u => RingFor(u, i) = EmptyRing
BY PeerType, EmptyRingFacts DEF RingFor

\* The mixer takes as much as there is.
LEMMA DrainedFacts ==
    ASSUME NEW r \in Ring, NEW n \in Nat
    PROVE  /\ Drained(r, n) \in Ring
           /\ Available(r) = 0 => Available(Drained(r, n)) = 0
<1>1. Available(r) \in Nat
  BY AvailableType, RingSizeAssumption
<1>2. PICK m \in 0 .. Available(r) : Drained(r, n) = Consumed(r, m)
  BY <1>1 DEF Drained
<1>3. Consumed(r, m) \in Ring /\ Available(Consumed(r, m)) = Available(r) - m
  BY ConsumedFacts
<1> QED BY <1>1, <1>2, <1>3

\* The types of the mixer hold on.
LEMMA MixerOKStep ==
    ASSUME CaptureInv, MixerOK, [Next]_vars
    PROVE  MixerOK'
<1> USE EngineConstants DEF MixerOK
<1>1. CASE UNCHANGED mixer
  BY <1>1 DEF mixer
<1>2. CASE SpkMix
  <2>1. CASE UNCHANGED <<peers, heard>>
    BY <2>1
  <2>2. ASSUME NEW n \in 1 .. Period,
               peers' = [i \in Slot |->
                   IF Audible(i)
                   THEN [user |-> peers[i].user, ring |-> Drained(peers[i].ring, n)]
                   ELSE peers[i]],
               heard' = [u \in User \cup {Self} |->
                   IF \E i \in Slot : Audible(i) /\ peers[i].user = u /\ Available(peers[i].ring) > 0
                   THEN LET r == peers[CHOOSE i \in Slot : Audible(i) /\ peers[i].user = u].ring
                        IN  Unread(r, (IF n < Available(r) THEN n ELSE Available(r)) - 1)
                   ELSE heard[u]]
        PROVE  MixerOK'
    <3>1. n \in Nat
      OBVIOUS
    <3>2. ASSUME NEW i \in Slot
          PROVE  (IF Audible(i)
                  THEN [user |-> peers[i].user, ring |-> Drained(peers[i].ring, n)]
                  ELSE peers[i]) \in Peer
      BY <3>1, PeerType, MadePeer, DrainedFacts
    <3>3. ASSUME NEW u \in Speaking
          PROVE  (IF \E i \in Slot : Audible(i) /\ peers[i].user = u /\ Available(peers[i].ring) > 0
                  THEN LET r == peers[CHOOSE i \in Slot : Audible(i) /\ peers[i].user = u].ring
                       IN  Unread(r, (IF n < Available(r) THEN n ELSE Available(r)) - 1)
                  ELSE heard[u]) \in Nat
      <4> DEFINE c == CHOOSE i \in Slot : Audible(i) /\ peers[i].user = u
                 m == (IF n < Available(peers[c].ring) THEN n ELSE Available(peers[c].ring)) - 1
      <4>1. CASE \E i \in Slot : Audible(i) /\ peers[i].user = u /\ Available(peers[i].ring) > 0
        <5>1. c \in Slot
          BY <4>1
        <5> HIDE DEF c
        <5>2. peers[c].ring \in Ring
          BY <5>1, PeerType
        <5>3. m \in Int
          BY <3>1, <5>2, AvailableType, RingSizeAssumption
        <5> HIDE DEF m
        <5>4. Unread(peers[c].ring, m) \in Nat
          BY <5>2, <5>3, UnreadType
        <5> QED BY <4>1, <5>4 DEF c, m
      <4>2. CASE ~(\E i \in Slot : Audible(i) /\ peers[i].user = u /\ Available(peers[i].ring) > 0)
        BY <4>2
      <4> QED BY <4>1, <4>2
    <3> QED BY <2>2, <3>2, <3>3, Zenon DEF Speaking
  <2> QED BY <1>2, <2>1, <2>2 DEF SpkMix
<1>3. CASE UNCHANGED heard /\ peers' = [i \in Slot |-> FreeSlot]
  BY <1>3, FreeSlotFacts
<1>4. CASE UNCHANGED heard /\ peers' = WithoutLoopback
  <2>1. 0 \in Slot /\ FreeSlot \in Peer
    BY SlotFacts, FreeSlotFacts
  <2> QED BY <1>4, <2>1, SlotWritten DEF WithoutLoopback
<1>5. ASSUME NEW u \in User, SetUserVolume(u)
      PROVE  MixerOK'
  <2>1. PICK i \in SlotFor(u) : peers' = [peers EXCEPT ![i] = [user |-> u, ring |-> RingFor(u, i)]]
    BY <1>5 DEF SetUserVolume
  <2>2. i \in Slot /\ [user |-> u, ring |-> RingFor(u, i)] \in Peer
    BY SlotForFacts, RingForFacts, MadePeer DEF Speaking
  <2> QED BY <1>5, <2>1, <2>2, SlotWritten DEF SetUserVolume
<1>6. ASSUME NEW u \in User, NEW k \in Packets, FeedInboundPacket(u, k)
      PROVE  MixerOK'
  <2>1. PICK i \in SlotFor(u) : peers' = [peers EXCEPT ![i] =
                  [user |-> u, ring |-> Written(RingFor(u, i), fed + 1, k)]]
    BY <1>6 DEF FeedInboundPacket
  <2>2. i \in Slot /\ RingFor(u, i) \in Ring /\ fed + 1 \in Nat /\ k \in Nat
    BY SlotForFacts, RingForFacts DEF CaptureInv
  <2>3. Written(RingFor(u, i), fed + 1, k) \in Ring
    BY <2>2, WrittenParts
  <2>4. [user |-> u, ring |-> Written(RingFor(u, i), fed + 1, k)] \in Peer
    BY <2>3, MadePeer DEF Speaking
  <2> QED BY <1>6, <2>1, <2>2, <2>4, SlotWritten DEF FeedInboundPacket
<1>7. CASE CaptureFrame
  <2> DEFINE w == Written(peers[0].ring, Unread(ring, 0), Frame)
  <2>1. 0 \in Slot /\ Unread(ring, 0) \in Nat /\ Frame \in Nat
    BY SlotFacts, UnreadType DEF CaptureInv
  <2>2. w \in Ring
    BY <2>1, PeerType, WrittenParts
  <2> HIDE DEF w
  <2>3. [user |-> Self, ring |-> w] \in Peer
    BY <2>2, MadePeer DEF Speaking
  <2>4. UNCHANGED heard /\ (peers' = [peers EXCEPT ![0] = [user |-> Self, ring |-> w]]
                            \/ UNCHANGED peers)
    BY <1>7 DEF CaptureFrame, w
  <2> QED BY <2>1, <2>3, <2>4, SlotWritten
<1> QED BY <1>1, <1>2, <1>3, <1>4, <1>5, <1>6, <1>7, MixerWriters

\* A slot is given to a user it belongs to already, or that has none.
LEMMA SlotGiven ==
    ASSUME MixerOK, OneSlotPerUser, UNCHANGED <<loopback, testing>>,
           NEW u \in User, NEW i \in SlotFor(u), NEW r \in Ring,
           peers' = [peers EXCEPT ![i] = [user |-> u, ring |-> r]]
    PROVE  OneSlotPerUser'
<1> USE EngineConstants
<1>1. /\ i \in Slot /\ i # 0 /\ u # Nobody /\ u # Self
      /\ \/ peers[i].user = u
         \/ peers[i].user = Nobody /\ \A j \in RemoteSlot : peers[j].user # u
  BY SlotForFacts
<1>2. [user |-> u, ring |-> r] \in Peer /\ [user |-> u, ring |-> r].user = u
  BY MadePeer DEF Speaking
<1>3. peers'[i].user = u /\ \A j \in Slot \ {i} : peers'[j].user = peers[j].user
  BY <1>1, <1>2, SlotWritten
<1>4. 0 \in Slot /\ \A j \in Slot : j # 0 => j \in RemoteSlot
  BY SlotFacts
<1>5. \A j \in Slot \ {i} : peers[j].user # u
  BY <1>1, <1>4 DEF OneSlotPerUser
<1> QED BY <1>1, <1>3, <1>4, <1>5 DEF OneSlotPerUser

\* No step gives a user a second slot, and slot 0 is taken in a test only.
LEMMA OneSlotStep ==
    ASSUME TypesOK, CaptureInv, MixerOK, ListenInv, DestroyInv, OneSlotPerUser, [Next]_vars
    PROVE  OneSlotPerUser'
<1> USE EngineConstants DEF TypesOK
<1>1. ASSUME \A i \in Slot : peers'[i].user = peers[i].user,
             loopback /\ testing => loopback' /\ testing'
      PROVE  OneSlotPerUser'
  BY <1>1, SlotFacts DEF OneSlotPerUser
<1>2. CASE peers' = [i \in Slot |-> FreeSlot]
  <2>1. \A i \in Slot : peers'[i].user = Nobody
    BY <1>2, FreeSlotFacts
  <2> QED BY <2>1, SlotFacts DEF OneSlotPerUser
<1>3. CASE peers' = WithoutLoopback
  <2>1. peers'[0].user = Nobody /\ \A i \in Slot \ {0} : peers'[i].user = peers[i].user
    BY <1>3, SlotFacts, FreeSlotFacts, SlotWritten DEF WithoutLoopback
  <2> QED BY <2>1, SlotFacts DEF OneSlotPerUser
<1>4. CASE DestroyContext
  <2>1. Head(todo) = "destroy" /\ todo # <<>> /\ UNCHANGED peers
    BY <1>4 DEF DestroyContext, Begin, mixer
  <2>2. ~testing
    <3>1. Never({"destroy"}, todo) => Head(todo) \notin {"destroy"}
      BY <2>1, ListTail
    <3> QED BY <2>1, <3>1 DEF DestroyInv
  <2>3. \A i \in Slot : peers[i].user # Self
    BY <2>2 DEF OneSlotPerUser
  <2> QED BY <2>1, <2>3 DEF OneSlotPerUser
<1>5. CASE StartMicTest
  BY <1>1, <1>5 DEF StartMicTest, mixer
<1>6. CASE SpkMix
  <2>1. \A i \in Slot : peers'[i].user = peers[i].user
    <3>1. CASE UNCHANGED peers
      BY <3>1
    <3>2. ASSUME NEW n \in 1 .. Period,
                 peers' = [i \in Slot |->
                   IF Audible(i)
                   THEN [user |-> peers[i].user, ring |-> Drained(peers[i].ring, n)]
                   ELSE peers[i]]
          PROVE  \A i \in Slot : peers'[i].user = peers[i].user
      BY <3>2
    <3> QED BY <1>6, <3>1, <3>2 DEF SpkMix
  <2>2. UNCHANGED <<loopback, testing>>
    BY <1>6 DEF SpkMix, flags
  <2> QED BY <1>1, <2>1, <2>2
<1>7. ASSUME NEW u \in User, SetUserVolume(u)
      PROVE  OneSlotPerUser'
  <2>1. PICK i \in SlotFor(u) : peers' = [peers EXCEPT ![i] = [user |-> u, ring |-> RingFor(u, i)]]
    BY <1>7 DEF SetUserVolume
  <2>2. RingFor(u, i) \in Ring /\ UNCHANGED <<loopback, testing>>
    BY <1>7, SlotForFacts, RingForFacts DEF SetUserVolume, flags
  <2> QED BY <2>1, <2>2, SlotGiven
<1>8. ASSUME NEW u \in User, NEW k \in Packets, FeedInboundPacket(u, k)
      PROVE  OneSlotPerUser'
  <2> DEFINE w(i) == Written(RingFor(u, i), fed + 1, k)
  <2>1. PICK i \in SlotFor(u) : peers' = [peers EXCEPT ![i] = [user |-> u, ring |-> w(i)]]
    BY <1>8 DEF FeedInboundPacket
  <2>2. RingFor(u, i) \in Ring /\ fed + 1 \in Nat /\ k \in Nat
    BY SlotForFacts, RingForFacts DEF CaptureInv
  <2>3. w(i) \in Ring
    BY <2>2, WrittenParts
  <2>4. UNCHANGED <<loopback, testing>>
    BY <1>8 DEF FeedInboundPacket, flags
  <2> HIDE DEF w
  <2> QED BY <2>1, <2>3, <2>4, SlotGiven
<1>9. CASE CaptureFrame
  <2> DEFINE w == Written(peers[0].ring, Unread(ring, 0), Frame)
  <2>1. /\ UNCHANGED <<loopback, testing>> /\ todo = <<>>
        /\ \/ loopback /\ peers' = [peers EXCEPT ![0] = [user |-> Self, ring |-> w]]
           \/ UNCHANGED peers
    BY <1>9 DEF CaptureFrame, CaptureOn, PumpRuns, Idle, flags
  <2>2. CASE loopback /\ peers' = [peers EXCEPT ![0] = [user |-> Self, ring |-> w]]
    <3>1. 0 \in Slot /\ Unread(ring, 0) \in Nat /\ Frame \in Nat
      BY SlotFacts, UnreadType DEF CaptureInv
    <3>2. w \in Ring
      BY <3>1, PeerType, WrittenParts
    <3> HIDE DEF w
    <3>3. [user |-> Self, ring |-> w] \in Peer /\ [user |-> Self, ring |-> w].user = Self
      BY <3>2, MadePeer DEF Speaking
    <3>4. peers'[0].user = Self /\ \A j \in Slot \ {0} : peers'[j].user = peers[j].user
      BY <2>2, <3>1, <3>3, SlotWritten
    <3>5. testing
      BY <2>2 DEF ListenInv
    <3> QED BY <2>1, <2>2, <3>1, <3>4, <3>5 DEF OneSlotPerUser
  <2>3. CASE UNCHANGED peers
    BY <1>1, <2>1, <2>3
  <2> QED BY <2>1, <2>2, <2>3
<1>10. \/ UNCHANGED <<peers, loopback, testing>>
       \/ SpkMix \/ DestroyContext \/ StartMicTest \/ CaptureFrame
       \/ peers' = [i \in Slot |-> FreeSlot]
       \/ peers' = WithoutLoopback
       \/ \E u \in User : SetUserVolume(u) \/ \E k \in Packets : FeedInboundPacket(u, k)
  BY DEF Next, Hardware, Pump, vars, flags, mixer, MicEnter, MicWrite, MicTurns,
     SpkEnter, SpkTurns,
     StartCapture, StopCapture, StartPlayback, StopPlayback, OpenMic, OpenSpk, CloseMic,
     CloseSpk, ClearPeers, EndMicTest, StopMicTest, PrepareVoice, Voice,
     StartVoice, LeaveVoice, Destroy, SetLocalMute, SetLocalDeafen, SetVadMode,
     Change, SetInputDevice, SetOutputDevice, CaptureSilence, CaptureStarved
<1>11. CASE UNCHANGED <<peers, loopback, testing>>
  BY <1>1, <1>11
<1> QED BY <1>2, <1>3, <1>4, <1>5, <1>6, <1>7, <1>8, <1>9, <1>10, <1>11

-----------------------------------------------------------------------------
(* What waits in the slots                                                 *)

\* The last block there can be of a user, when blocks were taken up to t and
\* received up to f.
Last(u, t, f) == IF u = Self THEN t ELSE f

\* What waits in a slot is in order and newer than what was mixed of its user.
InOrder(p, h, t, f) ==
    IF p.user = Nobody THEN Available(p.ring) = 0
    ELSE Rising(p.ring, h[p.user], Last(p.user, t, f))

\* All slots are in order, and nothing was mixed that has not arrived.
PeerInv ==
    /\ \A u \in Speaking : heard[u] <= Last(u, taken, fed)
    /\ \A i \in Slot : InOrder(peers[i], heard, taken, fed)

\* More blocks arrive, for this slot or another.
LEMMA InOrderLater ==
    ASSUME NEW p \in Peer, NEW h \in [Speaking -> Nat], NEW t \in Nat, NEW f \in Nat,
           NEW tt \in Nat, NEW ff \in Nat, t <= tt, f <= ff, InOrder(p, h, t, f)
    PROVE  InOrder(p, h, tt, ff)
<1> DEFINE u == p.user
           r == p.ring
<1>1. u \in Speaking \cup {Nobody} /\ r \in Ring
  BY DEF Peer
<1> HIDE DEF u, r
<1>2. CASE u = Nobody
  BY <1>2 DEF InOrder, u
<1>3. CASE u # Nobody
  <2>1. /\ h[u] \in Nat /\ Last(u, t, f) \in Nat /\ Last(u, tt, ff) \in Nat
        /\ Last(u, t, f) <= Last(u, tt, ff)
    BY <1>1, <1>3 DEF Last
  <2>2. Rising(r, h[u], Last(u, t, f))
    BY <1>3 DEF InOrder, u, r
  <2>3. Rising(r, h[u], Last(u, tt, ff))
    BY <1>1, <2>1, <2>2, RisingWider
  <2> QED BY <1>3, <2>3 DEF InOrder, u, r
<1> QED BY <1>2, <1>3

\* The histories are numbers.
LEMMA HistoryTypes ==
    ASSUME CaptureInv
    PROVE  taken \in Nat /\ fed \in Nat /\ captured \in Nat
BY EngineConstants DEF CaptureInv

\* One slot is written, the others keep what they hold.
LEMMA SlotChanged ==
    ASSUME CaptureInv, CaptureInv', MixerOK, PeerInv, UNCHANGED heard,
           NEW i \in Slot, NEW p \in Peer, peers' = [peers EXCEPT ![i] = p],
           fed <= fed', taken <= taken', InOrder(p, heard, taken', fed')
    PROVE  PeerInv'
<1> USE EngineConstants
<1>1. taken \in Nat /\ fed \in Nat /\ taken' \in Nat /\ fed' \in Nat
  BY DEF CaptureInv
<1>2. heard \in [Speaking -> Nat]
  BY DEF MixerOK
<1>3. ASSUME NEW u \in Speaking
      PROVE  heard'[u] <= Last(u, taken', fed')
  BY <1>1, <1>2, <1>3 DEF PeerInv, Last
<1>4. ASSUME NEW j \in Slot
      PROVE  InOrder(peers'[j], heard', taken', fed')
  <2>1. CASE j = i
    BY <2>1, SlotWritten
  <2>2. CASE j # i
    <3>1. peers'[j] = peers[j] /\ peers[j] \in Peer /\ InOrder(peers[j], heard, taken, fed)
      BY <2>2, SlotWritten, PeerType DEF PeerInv
    <3>2. InOrder(peers[j], heard, taken', fed')
      BY <1>1, <1>2, <3>1, InOrderLater
    <3> QED BY <3>1, <3>2
  <2> QED BY <2>1, <2>2
<1> QED BY <1>3, <1>4 DEF PeerInv

\* Blocks are taken in order, and a frame leaves the ring of the loopback in order.
LEMMA LoopbackStep ==
    ASSUME CaptureInv, MixerOK, OneSlotPerUser, PeerInv, CaptureFrame
    PROVE  PeerInv'
<1> USE EngineConstants
<1> DEFINE id == Unread(ring, 0)
           r == peers[0].ring
           w == Written(r, id, Frame)
<1>1. /\ CaptureInv' /\ id \in Nat /\ taken < id /\ taken' = id + Frame - 1
      /\ taken \in Nat /\ taken' \in Nat /\ UNCHANGED <<fed, heard>>
  <2>1. UNCHANGED <<fed, heard>>
    BY DEF CaptureFrame
  <2>2. /\ CaptureInv' /\ id \in Nat /\ taken < id /\ taken' = id + Frame - 1
    BY CaptureFrameStep
  <2> QED BY <2>1, <2>2, HistoryTypes
<1>2. taken <= taken' /\ fed \in Nat /\ fed <= fed'
  BY <1>1, HistoryTypes
<1>3. 0 \in Slot /\ r \in Ring /\ peers[0].user \in {Self, Nobody}
  BY SlotFacts, PeerType DEF OneSlotPerUser
<1>4. \/ peers' = [peers EXCEPT ![0] = [user |-> Self, ring |-> w]]
      \/ ~loopback /\ UNCHANGED peers
  BY DEF CaptureFrame
<1>5. Frame \in Nat /\ Frame \in 1 .. RingSize - 1
  BY RingSizeAssumption
<1> HIDE DEF id
<1>6. CASE peers' = [peers EXCEPT ![0] = [user |-> Self, ring |-> w]]
  <2>1. heard[Self] \in Nat /\ heard[Self] <= taken
    BY DEF MixerOK, Speaking, PeerInv, Last
  <2>2. Rising(r, heard[Self], taken)
    <3>1. CASE peers[0].user = Nobody
      <4>1. Available(r) = 0
        BY <1>3, <3>1 DEF PeerInv, InOrder
      <4> QED BY <4>1, RisingEmpty
    <3>2. CASE peers[0].user = Self
      BY <1>3, <3>2 DEF PeerInv, InOrder, Last
    <3> QED BY <1>3, <3>1, <3>2
  <2> HIDE DEF r
  <2>3. Rising(w, heard[Self], taken')
    <3>1. Rising(w, heard[Self], id + Frame - 1)
      BY <1>1, <1>3, <1>5, <2>1, <2>2, RisingWritten
    <3> QED BY <1>1, <3>1
  <2>4. w \in Ring
    BY <1>1, <1>3, <1>5, WrittenParts
  <2> HIDE DEF w
  <2> DEFINE p == [user |-> Self, ring |-> w]
  <2>5. p \in Peer /\ p.user = Self /\ p.ring = w
    BY <2>4, MadePeer DEF Speaking
  <2> HIDE DEF p
  <2>6. InOrder(p, heard, taken', fed')
    BY <2>3, <2>5 DEF InOrder, Last
  <2> QED BY <1>1, <1>2, <1>3, <1>6, <2>5, <2>6, SlotChanged DEF p
<1>7. CASE UNCHANGED peers
  <2>1. ASSUME NEW i \in Slot
        PROVE  InOrder(peers[i], heard, taken', fed')
    <3>1. peers[i] \in Peer /\ InOrder(peers[i], heard, taken, fed) /\ heard \in [Speaking -> Nat]
      BY PeerType DEF PeerInv, MixerOK
    <3> QED BY <1>1, <1>2, <3>1, InOrderLater
  <2>2. ASSUME NEW u \in Speaking
        PROVE  heard[u] <= Last(u, taken', fed')
    BY <1>1, <1>2 DEF PeerInv, MixerOK, Last
  <2> QED BY <1>1, <1>7, <2>1, <2>2 DEF PeerInv
<1> QED BY <1>4, <1>6, <1>7

\* The mixer reads the oldest blocks of every slot it hears.
LEMMA MixStep ==
    ASSUME CaptureInv, MixerOK, OneSlotPerUser, PeerInv, UNCHANGED <<taken, fed>>,
           NEW n \in Nat \ {0},
           peers' = [i \in Slot |->
               IF Audible(i)
               THEN [user |-> peers[i].user, ring |-> Drained(peers[i].ring, n)]
               ELSE peers[i]],
           heard' = [u \in User \cup {Self} |->
               IF \E i \in Slot : Audible(i) /\ peers[i].user = u /\ Available(peers[i].ring) > 0
               THEN LET r == peers[CHOOSE i \in Slot : Audible(i) /\ peers[i].user = u].ring
                    IN  Unread(r, (IF n < Available(r) THEN n ELSE Available(r)) - 1)
               ELSE heard[u]]
    PROVE  PeerInv'
<1> USE EngineConstants
<1>1. taken \in Nat /\ fed \in Nat
  BY HistoryTypes
<1>2. ASSUME NEW i \in Slot, Audible(i), Available(peers[i].ring) > 0
      PROVE  /\ InOrder(peers'[i], heard', taken, fed)
             /\ heard'[peers[i].user] <= Last(peers[i].user, taken, fed)
  <2> DEFINE u == peers[i].user
             r == peers[i].ring
             a == Available(r)
             m == IF n < a THEN n ELSE a
  <2>1. u \in Speaking /\ u # Nobody /\ r \in Ring
    BY <1>2, PeerType DEF Audible
  <2>2. a \in Nat /\ a > 0
    BY <1>2, <2>1, AvailableType, RingSizeAssumption
  <2>3. m \in 1 .. a
    BY <2>2
  <2>4. (CHOOSE j \in Slot : Audible(j) /\ peers[j].user = u) = i
    <3>1. \A j \in Slot : peers[j].user = u => j = i
      BY <2>1 DEF OneSlotPerUser
    <3>2. \E j \in Slot : Audible(j) /\ peers[j].user = u
      BY <1>2
    <3> QED BY <3>1, <3>2, Zenon
  <2>5. heard'[u] = Unread(r, m - 1)
    <3>1. \E j \in Slot : Audible(j) /\ peers[j].user = u /\ Available(peers[j].ring) > 0
      BY <1>2
    <3> DEFINE c == CHOOSE j \in Slot : Audible(j) /\ peers[j].user = u
    <3>2. heard'[u] = Unread(peers[c].ring,
                             (IF n < Available(peers[c].ring) THEN n ELSE Available(peers[c].ring)) - 1)
      <4> HIDE DEF u
      <4> QED BY <2>1, <3>1, Zenon DEF Speaking
    <3>3. c = i
      BY <2>4
    <3> HIDE DEF c
    <3> QED BY <3>2, <3>3
  <2>6. Drained(r, n) = Consumed(r, m)
    BY DEF Drained
  <2>7. peers'[i] = [user |-> u, ring |-> Drained(r, n)]
    BY <1>2
  <2>8. Rising(r, heard[u], Last(u, taken, fed))
    BY <2>1 DEF PeerInv, InOrder
  <2>9. heard[u] \in Nat /\ Last(u, taken, fed) \in Nat
    BY <1>1, <2>1 DEF MixerOK, Last
  <2> HIDE DEF u, r, m
  <2>10. /\ Rising(Consumed(r, m), Unread(r, m - 1), Last(u, taken, fed))
         /\ Unread(r, m - 1) <= Last(u, taken, fed)
    BY <2>1, <2>3, <2>8, <2>9, RisingConsumed
  <2>11. peers'[i].user = u /\ peers'[i].ring = Consumed(r, m)
    BY <2>6, <2>7
  <2>12. InOrder(peers'[i], heard', taken, fed)
    BY <2>1, <2>5, <2>10, <2>11 DEF InOrder
  <2> QED BY <2>5, <2>10, <2>12 DEF u
<1>3. ASSUME NEW u \in Speaking
      PROVE  heard'[u] <= Last(u, taken, fed)
  <2>1. CASE \E i \in Slot : Audible(i) /\ peers[i].user = u /\ Available(peers[i].ring) > 0
    BY <1>2, <2>1
  <2>2. CASE ~(\E i \in Slot : Audible(i) /\ peers[i].user = u /\ Available(peers[i].ring) > 0)
    <3>1. heard'[u] = heard[u]
      BY <2>2, Zenon DEF Speaking
    <3> QED BY <3>1 DEF PeerInv
  <2> QED BY <2>1, <2>2
<1>4. ASSUME NEW i \in Slot
      PROVE  InOrder(peers'[i], heard', taken, fed)
  <2>1. /\ peers[i] \in Peer /\ peers[i].ring \in Ring /\ peers[i].user \in Speaking \cup {Nobody}
        /\ InOrder(peers[i], heard, taken, fed) /\ Available(peers[i].ring) \in Nat
    BY PeerType, AvailableType, RingSizeAssumption DEF PeerInv
  <2>2. CASE Audible(i) /\ Available(peers[i].ring) > 0
    BY <1>2, <2>2
  <2>3. CASE Audible(i) /\ Available(peers[i].ring) = 0
    <3>1. peers'[i].ring = Drained(peers[i].ring, n)
      BY <2>3
    <3>2. Available(peers'[i].ring) = 0
      BY <2>1, <2>3, <3>1, DrainedFacts
    <3> QED BY <3>2, RisingEmpty DEF InOrder
  <2>4. CASE ~Audible(i)
    <3>1. peers'[i] = peers[i]
      BY <2>4
    <3>2. CASE peers[i].user = Nobody
      BY <2>1, <3>1, <3>2 DEF InOrder
    <3>3. CASE peers[i].user # Nobody
      <4>1. \A j \in Slot : peers[j].user = peers[i].user => j = i
        BY <3>3 DEF OneSlotPerUser
      <4>2. ~(\E j \in Slot : Audible(j) /\ peers[j].user = peers[i].user
                              /\ Available(peers[j].ring) > 0)
        BY <2>4, <4>1
      <4>3. heard'[peers[i].user] = heard[peers[i].user]
        BY <2>1, <3>3, <4>2, Zenon DEF Speaking
      <4> QED BY <2>1, <3>1, <4>3 DEF InOrder
    <3> QED BY <3>2, <3>3
  <2> QED BY <2>1, <2>2, <2>3, <2>4
<1> QED BY <1>3, <1>4 DEF PeerInv

\* The ring a packet or a volume is for waits in order.
LEMMA RingForInOrder ==
    ASSUME MixerOK, PeerInv, NEW u \in User, NEW i \in Slot
    PROVE  Rising(RingFor(u, i), heard[u], fed)
<1>1. CASE peers[i].user = u
  <2>1. u # Nobody /\ u # Self
    BY EngineConstants
  <2>2. Rising(peers[i].ring, heard[u], fed)
    BY <1>1, <2>1 DEF PeerInv, InOrder, Last
  <2> QED BY <1>1, <2>2, RingForFacts
<1>2. CASE peers[i].user # u
  <2>1. RingFor(u, i) = EmptyRing
    BY <1>2, RingForFacts
  <2> QED BY <2>1, EmptyRingFacts, RisingEmpty
<1> QED BY <1>1, <1>2

\* A packet goes behind what waits, also when its slot had another user before.
LEMMA FeedStep ==
    ASSUME CaptureInv, CaptureInv', MixerOK, PeerInv,
           NEW u \in User, NEW k \in Packets, FeedInboundPacket(u, k)
    PROVE  PeerInv'
<1> USE EngineConstants, RingSizeAssumption
<1> DEFINE w(i) == Written(RingFor(u, i), fed + 1, k)
<1>1. PICK i \in SlotFor(u) : peers' = [peers EXCEPT ![i] = [user |-> u, ring |-> w(i)]]
  BY DEF FeedInboundPacket
<1>2. UNCHANGED <<heard, taken>> /\ fed' = fed + k
  BY DEF FeedInboundPacket, capture
<1>3. fed \in Nat /\ k \in 1 .. RingSize - 1 /\ taken \in Nat
  BY HistoryTypes
<1>4. i \in Slot /\ RingFor(u, i) \in Ring
  BY SlotForFacts, RingForFacts
<1>5. w(i) \in Ring
  BY <1>3, <1>4, WrittenParts
<1>6. heard[u] \in Nat /\ heard[u] <= fed
  BY DEF MixerOK, PeerInv, Speaking, Last
<1>7. Rising(w(i), heard[u], fed')
  <2>1. Rising(RingFor(u, i), heard[u], fed)
    BY <1>4, RingForInOrder
  <2>2. fed + 1 \in Nat /\ fed < fed + 1
    BY <1>3
  <2>3. Rising(w(i), heard[u], fed + 1 + k - 1)
    BY <1>3, <1>4, <1>6, <2>1, <2>2, RisingWritten
  <2>4. fed + 1 + k - 1 = fed'
    BY <1>2, <1>3
  <2> HIDE DEF w
  <2> QED BY <2>3, <2>4
<1> HIDE DEF w
<1> DEFINE p == [user |-> u, ring |-> w(i)]
<1>8. p \in Peer /\ p.user = u /\ p.ring = w(i)
  BY <1>5, MadePeer DEF Speaking
<1>9. peers' = [peers EXCEPT ![i] = p]
  BY <1>1
<1> HIDE DEF p
<1>10. InOrder(p, heard, taken', fed')
  BY <1>7, <1>8 DEF InOrder, Last
<1>11. fed <= fed' /\ taken <= taken'
  BY <1>2, <1>3
<1> QED BY <1>2, <1>4, <1>8, <1>9, <1>10, <1>11, SlotChanged

\* Every step leaves every slot in order.
LEMMA PeerStep ==
    ASSUME CaptureInv, CaptureInv', MixerOK, OneSlotPerUser, PeerInv, [Next]_vars
    PROVE  PeerInv'
<1> USE EngineConstants
<1>1. taken \in Nat /\ fed \in Nat
  BY HistoryTypes
<1>2. CaptureFrame \/ UNCHANGED taken
  BY CaptureWriters DEF capture, MicWrite
<1>3. CASE CaptureFrame
  BY <1>3, LoopbackStep
<1>4. CASE UNCHANGED <<mixer, taken>>
  BY <1>4 DEF mixer, PeerInv
<1>5. CASE SpkMix
  <2>1. UNCHANGED <<taken, fed>>
    BY <1>5 DEF SpkMix, capture
  <2>2. CASE UNCHANGED <<peers, heard>>
    BY <2>1, <2>2 DEF PeerInv
  <2>3. CASE ~UNCHANGED <<peers, heard>>
    <3>1. PICK n \in 1 .. Period :
             /\ peers' = [i \in Slot |->
                   IF Audible(i)
                   THEN [user |-> peers[i].user, ring |-> Drained(peers[i].ring, n)]
                   ELSE peers[i]]
             /\ heard' = [u \in User \cup {Self} |->
                   IF \E i \in Slot : Audible(i) /\ peers[i].user = u /\ Available(peers[i].ring) > 0
                   THEN LET r == peers[CHOOSE i \in Slot : Audible(i) /\ peers[i].user = u].ring
                        IN  Unread(r, (IF n < Available(r) THEN n ELSE Available(r)) - 1)
                   ELSE heard[u]]
      BY <1>5, <2>3, Zenon DEF SpkMix
    <3>2. n \in Nat \ {0}
      OBVIOUS
    <3> QED BY <2>1, <3>1, <3>2, MixStep, Zenon
  <2> QED BY <2>2, <2>3
<1>6. CASE UNCHANGED <<fed, heard, taken>> /\ peers' = [i \in Slot |-> FreeSlot]
  <2>1. ASSUME NEW i \in Slot
        PROVE  InOrder(peers'[i], heard', taken', fed')
    <3>1. peers'[i] = FreeSlot
      BY <1>6
    <3> QED BY <3>1, FreeSlotFacts, EmptyRingFacts DEF InOrder
  <2> QED BY <1>6, <2>1 DEF PeerInv
<1>7. CASE UNCHANGED <<fed, heard, taken>> /\ peers' = WithoutLoopback
  <2>1. 0 \in Slot /\ FreeSlot \in Peer /\ InOrder(FreeSlot, heard, taken', fed')
    BY SlotFacts, FreeSlotFacts, EmptyRingFacts DEF InOrder
  <2>2. fed <= fed' /\ taken <= taken'
    BY <1>1, <1>7
  <2>3. peers' = [peers EXCEPT ![0] = FreeSlot] /\ UNCHANGED heard
    BY <1>7 DEF WithoutLoopback
  <2> QED BY <2>1, <2>2, <2>3, SlotChanged
<1>8. ASSUME NEW u \in User, SetUserVolume(u)
      PROVE  PeerInv'
  <2>1. PICK i \in SlotFor(u) : peers' = [peers EXCEPT ![i] = [user |-> u, ring |-> RingFor(u, i)]]
    BY <1>8 DEF SetUserVolume
  <2>2. UNCHANGED <<heard, taken, fed>>
    BY <1>8 DEF SetUserVolume, capture
  <2> DEFINE p == [user |-> u, ring |-> RingFor(u, i)]
  <2>3. i \in Slot /\ RingFor(u, i) \in Ring
    BY SlotForFacts, RingForFacts
  <2>4. p \in Peer /\ p.user = u /\ p.ring = RingFor(u, i)
    BY <2>3, MadePeer DEF Speaking
  <2>5. peers' = [peers EXCEPT ![i] = p]
    BY <2>1
  <2> HIDE DEF p
  <2>6. InOrder(p, heard, taken', fed')
    BY <2>2, <2>3, <2>4, RingForInOrder DEF InOrder, Last
  <2>7. fed <= fed' /\ taken <= taken'
    BY <1>1, <2>2
  <2> QED BY <2>2, <2>3, <2>4, <2>5, <2>6, <2>7, SlotChanged
<1>9. ASSUME NEW u \in User, NEW k \in Packets, FeedInboundPacket(u, k)
      PROVE  PeerInv'
  BY <1>9, FeedStep
<1> QED BY <1>2, <1>3, <1>4, <1>5, <1>6, <1>7, <1>8, <1>9, MixerWriters

-----------------------------------------------------------------------------
(* The invariant and the theorems                                          *)

\* Every step leaves the capture ring the end of what was captured.
LEMMA CaptureStep ==
    ASSUME CaptureInv, DevicesOK, [Next]_vars
    PROVE  CaptureInv'
<1>1. CASE MicWrite
  <2>1. micBusy \in BOOLEAN
    BY DEF DevicesOK, Microphone!DeviceTypeOK
  <2> QED BY <1>1, <2>1, MicWriteStep
<1>2. CASE CaptureFrame
  BY <1>2, CaptureFrameStep
<1>3. CASE UNCHANGED capture
  <2>1. UNCHANGED fed \/ \E u \in User, k \in Packets : FeedInboundPacket(u, k)
    <3>1. CASE SpkMix
      BY <3>1 DEF SpkMix
    <3>2. CASE CaptureFrame
      BY <3>2 DEF CaptureFrame
    <3>3. CASE \E u \in User : SetUserVolume(u)
      BY <3>3 DEF SetUserVolume
    <3> QED BY <3>1, <3>2, <3>3, MixerWriters DEF mixer
  <2>2. CASE UNCHANGED fed
    BY <1>3, <2>2 DEF capture, CaptureInv
  <2>3. ASSUME NEW u \in User, NEW k \in Packets, FeedInboundPacket(u, k)
        PROVE  CaptureInv'
    <3>1. k <= Room /\ fed' = fed + k
      BY <2>3 DEF FeedInboundPacket
    <3>2. micBusy \in BOOLEAN /\ k \in Nat
      BY EngineConstants DEF DevicesOK, Microphone!DeviceTypeOK
    <3>3. /\ fed \in 0 .. MaxBlocks - captured /\ captured \in 0 .. MaxBlocks
      BY DEF CaptureInv
    <3>4. fed' \in 0 .. MaxBlocks - captured
      BY <3>1, <3>2, <3>3, EngineConstants DEF Room
    <3> QED BY <1>3, <3>4 DEF capture, CaptureInv
  <2> QED BY <2>1, <2>2, <2>3
<1> QED BY <1>1, <1>2, <1>3, CaptureWriters

\* The inductive invariant.
IInv ==
    /\ TypesOK /\ hangover \in 0 .. Hangover /\ CaptureInv /\ MixerOK
    /\ ReleasedInv /\ ListenInv /\ DestroyInv /\ DownInv /\ SpeakInv
    /\ OneSlotPerUser /\ PeerInv

\* voice_engine_init establishes it,
LEMMA InitInv == Init => IInv
<1> SUFFICES ASSUME Init PROVE IInv
  OBVIOUS
<1> USE EngineConstants DEF Init
<1>1. TypesOK /\ hangover \in 0 .. Hangover
  <2>1. todo \in Seq(Step)
    BY StepLists
  <2>2. FlagsOK
    BY DEF FlagsOK
  <2>3. DevicesOK
    BY DEF DevicesOK, Microphone!DeviceTypeOK, Speaker!DeviceTypeOK,
       Microphone!Phase, Speaker!Phase,
       Microphone!Init, Speaker!Init
  <2>4. hangover \in 0 .. Hangover
    BY DEF Init
  <2> QED BY <2>1, <2>2, <2>3, <2>4 DEF TypesOK
<1>2. CaptureInv
  <2>1. Available(ring) = 0 /\ ring \in Ring
    BY EmptyRingFacts
  <2> QED BY <2>1 DEF CaptureInv, TailOf
<1>3. /\ peers \in [Slot -> Peer] /\ heard \in [Speaking -> Nat]
      /\ \A i \in Slot : peers[i] = FreeSlot /\ peers[i].user = Nobody /\ peers[i].ring = EmptyRing
  BY FreeSlotFacts DEF Speaking
<1>4. MixerOK /\ OneSlotPerUser
  BY <1>3, SlotFacts DEF MixerOK, OneSlotPerUser
<1>5. PeerInv
  <2>1. \A u \in Speaking : heard[u] <= Last(u, taken, fed)
    BY DEF Last, Speaking
  <2>2. \A i \in Slot : InOrder(peers[i], heard, taken, fed)
    BY <1>3, EmptyRingFacts DEF InOrder
  <2> QED BY <2>1, <2>2 DEF PeerInv
<1>6. \A S, T : Never(S, todo) /\ DestroyLast(todo)
  BY EmptyList
<1>7. mic = "closed" /\ spk = "closed"
  BY DEF Microphone!Init, Speaker!Init
<1>8. ReleasedInv /\ ListenInv /\ DestroyInv /\ DownInv /\ SpeakInv
  BY <1>6, <1>7 DEF ReleasedInv, Released, CaptureOff, PlaybackOff, MicOff, SpkOff,
     ListenInv,
     DestroyInv, DownInv, SpeakInv
<1> QED BY <1>1, <1>2, <1>4, <1>5, <1>8 DEF IInv

\* every step keeps it,
LEMMA StepInv == IInv /\ [Next]_vars => IInv'
<1> SUFFICES ASSUME IInv, [Next]_vars PROVE IInv'
  OBVIOUS
<1> USE DEF IInv
<1>1. TypesOK'
  BY FlagsStep, DevicesStep, TodoStep DEF TypesOK
<1>2. hangover' \in 0 .. Hangover
  BY HangoverStep
<1>3. CaptureInv'
  BY CaptureStep DEF TypesOK
<1>4. MixerOK'
  BY MixerOKStep
<1>5. ReleasedInv' /\ ListenInv' /\ DestroyInv' /\ DownInv' /\ SpeakInv'
  BY ReleasedStep, ListenStep, DestroyStep, DownStep, SpeakStep
<1>6. OneSlotPerUser'
  BY OneSlotStep
<1>7. PeerInv'
  BY <1>3, PeerStep
<1> QED BY <1>1, <1>2, <1>3, <1>4, <1>5, <1>6, <1>7

\* and so it holds.
LEMMA InvHolds == Spec => []IInv
<1>1. IInv /\ [Next]_vars => IInv'
  BY StepInv
<1> QED BY <1>1, InitInv, PTL DEF Spec

\* Type correctness, for any users, slots and sizes: the hangover is never negative,
\* no index leaves its ring, and no list of steps is anything but native steps.
THEOREM TypeCorrect == Spec => []TypeOK
<1>1. IInv => TypeOK
  <2> SUFFICES ASSUME IInv PROVE TypeOK
    OBVIOUS
  <2>1. FlagsOK /\ DevicesOK /\ todo \in Seq(Step) /\ hangover \in 0 .. Hangover
    BY DEF IInv, TypesOK
  <2>2. peers \in [Slot -> [user : User \cup {Self, Nobody}, ring : Ring]]
    <3>1. Peer = [user : User \cup {Self, Nobody}, ring : Ring]
      BY DEF Peer, Speaking
    <3> QED BY <3>1 DEF IInv, MixerOK
  <2>3. /\ ring \in Ring /\ captured \in 0 .. MaxBlocks /\ taken \in 0 .. captured
        /\ fed \in 0 .. MaxBlocks - captured /\ heard \in [User \cup {Self} -> Nat]
    BY DEF IInv, CaptureInv, MixerOK, Speaking
  <2> QED BY <2>1, <2>2, <2>3 DEF TypeOK, FlagsOK, DevicesOK
<1> QED BY <1>1, InvHolds, PTL

\* ma_capture_callback and voice_engine_capture_frame move the two indices of
\* g_capture_ring under the mutex (libvoice_engine.c:128-157 and 663-788): for any
\* size of ring, laps included, the network gets no block twice and none out of order.
THEOREM CaptureFifoHolds == Spec => []CaptureFifo
<1>1. IInv => CaptureFifo
  <2> SUFFICES ASSUME IInv, NEW i \in 0 .. Available(ring) - 1
               PROVE  /\ Unread(ring, i) = captured - Available(ring) + 1 + i
                      /\ Unread(ring, i) > taken
    BY DEF CaptureFifo
  <2> DEFINE a == Available(ring)
  <2>1. /\ Unread(ring, i) = captured - a + 1 + i /\ taken <= captured - a
        /\ ring \in Ring
    BY DEF IInv, CaptureInv, TailOf
  <2>2. a \in Nat /\ captured \in Nat /\ taken \in Nat
    <3>1. CaptureInv
      BY DEF IInv
    <3> QED BY <2>1, <3>1, AvailableType, HistoryTypes, RingSizeAssumption
  <2> HIDE DEF a
  <2>3. i \in 0 .. a - 1
    BY DEF a
  <2>4. Unread(ring, i) > taken
    BY <2>1, <2>2, <2>3
  <2> QED BY <2>1, <2>4 DEF a
<1> QED BY <1>1, InvHolds, PTL

\* mix_audio_streams, voice_engine_feed_inbound_packet and the loopback share the
\* slots, which change hands (libvoice_engine.c:527-661, 774-786 and 805-850): for any
\* number of users and slots what waits of a user is in order and newer than what was
\* mixed of it.
THEOREM PeerFifoHolds == Spec => []PeerFifo
<1>1. IInv => PeerFifo
  <2> SUFFICES ASSUME IInv, NEW i \in Slot, NEW j \in 0 .. Available(peers[i].ring) - 1
               PROVE  /\ peers[i].user # Nobody
                      /\ Unread(peers[i].ring, j) > heard[peers[i].user]
                      /\ j > 0 => Unread(peers[i].ring, j) > Unread(peers[i].ring, j - 1)
    BY Zenon DEF PeerFifo
  <2> DEFINE r == peers[i].ring
             u == peers[i].user
  <2>1. MixerOK /\ InOrder(peers[i], heard, taken, fed)
    BY DEF IInv, PeerInv
  <2>2. r \in Ring /\ u \in Speaking \cup {Nobody} /\ Available(r) \in Nat
    BY <2>1, PeerType, AvailableType, RingSizeAssumption
  <2>3. u # Nobody
    BY <2>1, <2>2 DEF InOrder
  <2>4. Rising(r, heard[u], Last(u, taken, fed))
    BY <2>1, <2>3 DEF InOrder
  <2>5. j \in 0 .. Available(r) - 1
    OBVIOUS
  <2>6. heard[u] \in Nat /\ Unread(r, j) \in Nat /\ Unread(r, j - 1) \in Nat
    <3>1. j \in Int /\ j - 1 \in Int
      BY <2>2
    <3> QED BY <2>1, <2>2, <2>3, <3>1, UnreadType DEF MixerOK
  <2> HIDE DEF r, u
  <2>7. heard[u] < Unread(r, j) /\ (j > 0 => Unread(r, j - 1) < Unread(r, j))
    BY <2>2, <2>4, <2>5 DEF Rising
  <2> QED BY <2>3, <2>6, <2>7 DEF r, u
<1> QED BY <1>1, InvHolds, PTL

\* voice_engine_set_user_volume and voice_engine_feed_inbound_packet look for the user
\* before they take a free slot, and leave slot 0 to the microphone test
\* (libvoice_engine.c:527-551 and 620-641): no user ever has two.
THEOREM OneSlotPerUserHolds == Spec => []OneSlotPerUser
<1>1. IInv => OneSlotPerUser
  BY DEF IInv
<1> QED BY <1>1, InvHolds, PTL

\* Joins, leaves, microphone tests, device changes and streams that end by themselves,
\* in any order (audio_engine.dart:563-573, libvoice_engine.c:366-379 and 481-505):
\* outside a channel and a test both devices are closed, and so they are once the
\* mutex is destroyed.
THEOREM HardwareReleasedHolds == Spec => []HardwareReleased
<1>1. IInv => HardwareReleased
  <2> SUFFICES ASSUME IInv PROVE HardwareReleased
    OBVIOUS
  <2>1. ~up => mic = "closed" /\ spk = "closed"
    BY DEF IInv, DownInv
  <2>2. ASSUME todo = <<>>, ~inVoice, ~testing
        PROVE  mic = "closed" /\ spk = "closed"
    <3>1. MicOff /\ SpkOff
      BY <2>2 DEF IInv, ReleasedInv, Released
    <3>2. \A S, T : ~Closing(S, T, todo)
      BY <2>2, EmptyList
    <3> QED BY <3>1, <3>2, Zenon DEF MicOff, SpkOff
  <2> QED BY <2>1, <2>2 DEF HardwareReleased
<1> QED BY <1>1, InvHolds, PTL

\* voice_engine_set_local_mute and voice_engine_stop_capture clear is_speaking
\* (libvoice_engine.c:487-521), and no frame of a muted user sets it again.
THEOREM SpeakingIsLiveHolds == Spec => []SpeakingIsLive
<1>1. IInv => SpeakingIsLive
  BY DEF IInv, SpeakInv, SpeakingIsLive
<1> QED BY <1>1, InvHolds, PTL
=============================================================================
