--------------------------- MODULE VoiceCallProofs ---------------------------
(***************************************************************************)
(* Theorems about the client's voice call: its subscription of captured    *)
(* frames, what a connected call rests on, and its types.                  *)
(***************************************************************************)
EXTENDS VoiceCall, SequenceTheorems, TLAPS

\* The end of any set of calls keeps the handle and the subscriptions together.
LEMMA EndKeepsSubscription ==
    ASSUME FramesSentOnce, NEW S, End(S)
    PROVE  FramesSentOnce'
BY DEF End, FramesSentOnce, audio

\* So do the request of a leave, and a leave that finds no connection.
LEMMA DisconnectKeepsSubscription ==
    ASSUME FramesSentOnce, Disconnect
    PROVE  FramesSentOnce'
BY DEF Disconnect, FramesSentOnce, audio

\* joinVoice cancels the subscription it is about to replace, and disconnect
\* cancels the one it forgets (voice_notifier.dart:273-275 and 326-327): however
\* many calls overlap, a captured frame is sent once.
THEOREM FramesSentOnceHolds == Spec => []FramesSentOnce
<1>1. Init => FramesSentOnce
  BY DEF Init, FramesSentOnce
<1>2. FramesSentOnce /\ [Next]_vars => FramesSentOnce'
  <2> SUFFICES ASSUME FramesSentOnce, [Next]_vars
               PROVE  FramesSentOnce'
    OBVIOUS
  <2>1. CASE UNCHANGED vars
    BY <2>1 DEF vars, notifier, FramesSentOnce
  <2>2. ASSUME NEW c \in Channel, Tap(c)
        PROVE  FramesSentOnce'
    <3>1. CASE Disconnect
      BY <3>1, DisconnectKeepsSubscription
    <3>2. CASE JoinVoice(c)
      BY <3>2 DEF JoinVoice, FramesSentOnce
    <3> QED BY <2>2, <3>1, <3>2 DEF Tap
  <2>3. ASSUME NEW i \in CallId, TimesOut(i)
        PROVE  FramesSentOnce'
    BY <2>3, EndKeepsSubscription DEF TimesOut
  <2>4. ASSUME NEW i \in CallId, BindEnds(i)
        PROVE  FramesSentOnce'
    <3>1. CASE Bound(i)
      <4>1. captureSub' = i /\ subs' = (subs \ {captureSub}) \cup {i} /\ i # 0
        BY <3>1, CallAssumption DEF Bound, Subscribe, CallId
      <4> QED BY <4>1 DEF FramesSentOnce
    <3>2. CASE BindFails(i)
      BY <3>2, EndKeepsSubscription DEF BindFails
    <3> QED BY <2>4, <3>1, <3>2 DEF BindEnds
  <2>5. CASE HangUp
    BY <2>5, DisconnectKeepsSubscription DEF HangUp
  <2>6. CASE Answered
    <3>1. CASE UNCHANGED subs /\ UNCHANGED captureSub
      BY <3>1 DEF FramesSentOnce
    <3>2. ASSUME NEW i, End({i})
          PROVE  FramesSentOnce'
      BY <3>2, EndKeepsSubscription
    <3> QED BY <2>6, <3>1, <3>2 DEF Answered, notifier
  <2>7. CASE ToldLeft
    <3>1. CASE Disconnect
      BY <3>1, DisconnectKeepsSubscription
    <3>2. CASE UNCHANGED notifier
      BY <3>2 DEF notifier, FramesSentOnce
    <3> QED BY <2>7, <3>1, <3>2 DEF ToldLeft
  <2>8. CASE ConnectionLost
    BY <2>8, EndKeepsSubscription DEF ConnectionLost
  <2>9. CASE \/ ToldMoved \/ Reconnect \/ ToggleMute \/ Serve \/ Dispatch
             \/ ServerMute \/ \E c \in Channel : Move(c)
    BY <2>9 DEF ToldMoved, Reconnect, ToggleMute, Serve, ServeOne, Dispatch, Move,
                ServerMute, notifier, FramesSentOnce
  <2> QED BY <2>1, <2>2, <2>3, <2>4, <2>5, <2>6, <2>7, <2>8, <2>9 DEF Next
<1> QED BY <1>1, <1>2, PTL DEF Spec

-----------------------------------------------------------------------------
(* The record of the calls.                                                *)

CallsOK == calls \in Seq(Call)

\* What a live call rests on.
CallInv == CallsOK /\ ConnectedIsLive

\* Calls that are moved on stay calls, if only joins are ever binding.
LEMMA AdvanceType ==
    ASSUME CallsOK, NEW S, NEW at \in {"binding", "done"},
           at = "binding" => \A i \in S \cap DOMAIN calls : calls[i].op = "join"
    PROVE  Advance(S, at) \in Seq(Call)
<1>1. \A i \in 1 .. Len(calls) : calls[i] \in Call
  BY DEF CallsOK
<1>2. DOMAIN calls = 1 .. Len(calls) /\ Len(calls) \in Nat
  BY DEF CallsOK
<1>3. ASSUME NEW i \in 1 .. Len(calls), i \in S
      PROVE  [calls[i] EXCEPT !.at = at] \in Call
  <2>1. calls[i] \in Call /\ (at = "binding" => calls[i].op = "join")
    BY <1>1, <1>2, <1>3
  <2> QED BY <2>1 DEF Call
<1>4. Advance(S, at) \in [1 .. Len(calls) -> Call]
  BY <1>1, <1>2, <1>3 DEF Advance
<1> QED BY <1>2, <1>4

\* The end of calls keeps the record, and is quiet or ends the connected call.
LEMMA EndKeepsCall ==
    ASSUME CallInv, NEW S, End(S)
    PROVE  CallInv'
<1>1. CallsOK'
  BY AdvanceType DEF CallInv, CallsOK, End
<1>2. ConnectedIsLive'
  <2>1. CASE S = {}
    <3>1. ~ \E i \in S : calls[i].op = "leave"
      BY <2>1
    <3>2. status' = status /\ UNCHANGED <<captureSub, subs, audio>>
      BY <2>1, <3>1 DEF End
    <3>3. DOMAIN calls' = DOMAIN calls /\ \A i \in DOMAIN calls : calls'[i] = calls[i]
      BY <2>1 DEF End, Advance
    <3> QED BY <3>2, <3>3 DEF CallInv, ConnectedIsLive, audio
  <2>2. CASE S # {}
    BY <2>2 DEF End, ConnectedIsLive
  <2> QED BY <2>1, <2>2
<1> QED BY <1>1, <1>2 DEF CallInv

\* A call that begins keeps the others where they are.
LEMMA SendKeepsCalls ==
    ASSUME CallsOK, NEW call \in Call, Send(call)
    PROVE  /\ CallsOK'
           /\ \A i \in DOMAIN calls : i \in DOMAIN calls' /\ calls'[i] = calls[i]
BY DEF CallsOK, Send

\* A leave begins, or ends at once when there is no connection.
LEMMA DisconnectKeepsCall ==
    ASSUME CallInv, Disconnect
    PROVE  CallInv'
<1> DEFINE call == [op |-> "leave", to |-> None, at |-> IF online THEN "asked" ELSE "done"]
<1>1. call \in Call
  BY DEF Call
<1>2. Send(call)
  BY DEF Disconnect
<1> HIDE DEF call
<1>3. CallsOK' /\ \A i \in DOMAIN calls : i \in DOMAIN calls' /\ calls'[i] = calls[i]
  BY <1>1, <1>2, SendKeepsCalls DEF CallInv
<1>4. ConnectedIsLive'
  <2>1. CASE online
    <3>1. UNCHANGED <<status, captureSub, subs, audio>>
      BY <2>1 DEF Disconnect
    <3> QED BY <1>3, <3>1 DEF CallInv, ConnectedIsLive, audio
  <2>2. CASE ~online
    BY <2>2 DEF Disconnect, ConnectedIsLive
  <2> QED BY <2>1, <2>2
<1> QED BY <1>3, <1>4 DEF CallInv

\* joinVoice up to its request.
LEMMA JoinKeepsCall ==
    ASSUME CallInv, NEW c \in Channel, JoinVoice(c)
    PROVE  CallInv'
<1> DEFINE call == [op |-> "join", to |-> c, at |-> IF online THEN "asked" ELSE "done"]
<1>1. call \in Call
  BY DEF Call
<1>2. Send(call)
  BY DEF JoinVoice
<1>3. CallsOK'
  BY <1>1, <1>2, SendKeepsCalls DEF CallInv
<1>4. status' # "connected"
  BY DEF JoinVoice
<1> QED BY <1>3, <1>4 DEF CallInv, ConnectedIsLive

\* A join that was awaiting its answer closes the old socket and binds a new one.
LEMMA AnsweredKeepsCall ==
    ASSUME CallInv, NEW i \in Pending, calls[i].op = "join",
           calls' = Advance({i}, "binding"),
           UNCHANGED <<status, channel, captureSub, subs, capturing>>
    PROVE  CallInv'
<1>1. i \in DOMAIN calls /\ calls[i] \in Call
  BY DEF Pending, CallInv, CallsOK
<1>2. CallsOK'
  BY AdvanceType DEF CallInv, CallsOK
<1>3. i \in DOMAIN calls' /\ calls'[i].at = "binding"
  BY <1>1 DEF Advance, Call
<1>4. ConnectedIsLive'
  BY <1>3 DEF CallInv, ConnectedIsLive
<1> QED BY <1>2, <1>4 DEF CallInv

\* When the socket is there everything else is started in the same step.
LEMMA BoundKeepsCall ==
    ASSUME CallInv, NEW i \in CallId, Bound(i)
    PROVE  CallInv'
<1>1. CallsOK'
  BY AdvanceType DEF CallInv, CallsOK, Bound
<1>2. socket' /\ capturing' /\ i \in subs'
  BY DEF Bound, StartCapture, Subscribe
<1> QED BY <1>1, <1>2 DEF CallInv, ConnectedIsLive

\* joinVoice starts the engine, subscribes and sets the status without an await
\* in between (voice_notifier.dart:270-310), and disconnect undoes the three
\* together: through every overlap of joins and leaves a call shown as connected
\* has its microphone, its frames and its socket, or a join is binding one.
THEOREM ConnectedIsLiveHolds == Spec => []ConnectedIsLive
<1>1. Init => CallInv
  BY DEF Init, CallInv, CallsOK, ConnectedIsLive
<1>2. CallInv /\ [Next]_vars => CallInv'
  <2> SUFFICES ASSUME CallInv, [Next]_vars
               PROVE  CallInv'
    OBVIOUS
  <2>0. CASE UNCHANGED <<notifier, audio>>
    BY <2>0 DEF notifier, audio, CallInv, CallsOK, ConnectedIsLive
  <2>1. CASE UNCHANGED vars
    BY <2>0, <2>1 DEF vars
  <2>2. ASSUME NEW c \in Channel, Tap(c)
        PROVE  CallInv'
    BY <2>2, DisconnectKeepsCall, JoinKeepsCall DEF Tap
  <2>3. ASSUME NEW i \in CallId, TimesOut(i)
        PROVE  CallInv'
    BY <2>3, EndKeepsCall DEF TimesOut
  <2>4. ASSUME NEW i \in CallId, BindEnds(i)
        PROVE  CallInv'
    BY <2>4, BoundKeepsCall, EndKeepsCall DEF BindEnds, BindFails
  <2>5. CASE HangUp
    BY <2>5, DisconnectKeepsCall DEF HangUp
  <2>6. CASE Answered
    BY <2>0, <2>6, AnsweredKeepsCall, EndKeepsCall DEF Answered
  <2>7. CASE ToldLeft
    <3>1. CASE Disconnect
      BY <3>1, DisconnectKeepsCall
    <3>2. CASE UNCHANGED <<notifier, audio>>
      BY <2>0, <3>2
    <3> QED BY <2>7, <3>1, <3>2 DEF ToldLeft
  <2>8. CASE ToldMoved
    BY <2>8 DEF ToldMoved, audio, CallInv, CallsOK, ConnectedIsLive
  <2>9. CASE ConnectionLost
    BY <2>9, EndKeepsCall DEF ConnectionLost
  <2>10. CASE \/ Reconnect \/ ToggleMute \/ Serve \/ Dispatch
              \/ ServerMute \/ \E c \in Channel : Move(c)
    BY <2>0, <2>10 DEF Reconnect, ToggleMute, Serve, ServeOne, Dispatch, Move, ServerMute
  <2> QED BY <2>1, <2>2, <2>3, <2>4, <2>5, <2>6, <2>7, <2>8, <2>9, <2>10 DEF Next
<1>3. CallInv => ConnectedIsLive
  BY DEF CallInv
<1> QED BY <1>1, <1>2, <1>3, PTL DEF Spec

-----------------------------------------------------------------------------
(* Types                                                                   *)

\* The calls that messages answer.
Replies(s) == {s[i].reply : i \in {j \in DOMAIN s : "reply" \in DOMAIN s[j]}}

NotifierInv ==
    /\ status \in {"disconnected", "connecting", "connected"} /\ channel \in Places
    /\ CallsOK /\ Len(calls) <= MaxCalls
    /\ captureSub \in DOMAIN calls \cup {0} /\ subs \subseteq DOMAIN calls
    /\ \A i \in subs : calls[i].op = "join" /\ calls[i].at = "done"
    /\ capturing \in BOOLEAN /\ socket \in BOOLEAN

\* A call is asked of the server once, and not after its answer is on the way.
QueueInv ==
    /\ requests \in Seq(0 .. Len(calls)) /\ inbox \in Seq(Message)
    /\ \A m, n \in DOMAIN requests : m < n /\ requests[m] # 0 => requests[m] # requests[n]
    /\ Replies(inbox) \subseteq 1 .. Len(calls)
    /\ \A n \in DOMAIN requests : requests[n] \notin Replies(inbox)

ServerInv ==
    /\ room \in Places /\ posted \in Seq(Event)
    /\ online \in BOOLEAN /\ outside \in 0 .. MaxOutside

TypeInv == NotifierInv /\ QueueInv /\ ServerInv

\* Only a join is ever binding, and a join is for a channel.
LEMMA CallParts ==
    ASSUME CallsOK, NEW i \in DOMAIN calls
    PROVE  /\ calls[i] \in Call /\ calls[i].op \in {"join", "leave"}
           /\ calls[i].at = "binding" => calls[i].op = "join"
           /\ calls[i].op = "join" => calls[i].to \in Channel
BY DEF CallsOK, Call

\* Moving calls on changes where they are, and nothing else.
LEMMA AdvanceParts ==
    ASSUME CallsOK, NEW S, NEW at
    PROVE  /\ DOMAIN Advance(S, at) = DOMAIN calls
           /\ \A i \in DOMAIN calls :
                 /\ Advance(S, at)[i].op = calls[i].op
                 /\ i \in S => Advance(S, at)[i].at = at
                 /\ i \notin S => Advance(S, at)[i] = calls[i]
<1>1. DOMAIN Advance(S, at) = DOMAIN calls
  BY DEF Advance
<1>2. ASSUME NEW i \in DOMAIN calls
      PROVE  /\ Advance(S, at)[i].op = calls[i].op
             /\ i \in S => Advance(S, at)[i].at = at
             /\ i \notin S => Advance(S, at)[i] = calls[i]
  <2>1. calls[i] \in Call
    BY DEF CallsOK
  <2>2. [calls[i] EXCEPT !.at = at].op = calls[i].op /\ [calls[i] EXCEPT !.at = at].at = at
    BY <2>1 DEF Call
  <2> QED BY <2>2 DEF Advance
<1> QED BY <1>1, <1>2

\* There are as many calls as before.
LEMMA AdvanceLen ==
    ASSUME CallsOK, NEW S, NEW at \in {"binding", "done"},
           at = "binding" => \A i \in S \cap DOMAIN calls : calls[i].op = "join"
    PROVE  Len(Advance(S, at)) = Len(calls)
<1>1. Advance(S, at) \in Seq(Call)
  BY AdvanceType
<1>2. DOMAIN Advance(S, at) = DOMAIN calls
  BY DEF Advance
<1> QED BY <1>1, <1>2 DEF CallsOK

\* Calls end, and a leave drops the subscription: none is left of an open join.
LEMMA EndNotifier ==
    ASSUME NotifierInv, NEW S, End(S)
    PROVE  NotifierInv' /\ Len(calls') = Len(calls)
<1>1. CallsOK /\ calls' = Advance(S, "done")
  BY DEF NotifierInv, End
<1>2. CallsOK' /\ Len(calls') = Len(calls)
  BY <1>1, AdvanceType, AdvanceLen DEF CallsOK
<1>3. /\ DOMAIN calls' = DOMAIN calls
      /\ \A i \in DOMAIN calls : /\ calls'[i].op = calls[i].op
                                 /\ calls[i].at = "done" => calls'[i].at = "done"
  BY <1>1, AdvanceParts
<1>4. subs' \subseteq subs /\ captureSub' \in {captureSub, 0}
  BY DEF End
<1>5. \A i \in subs' : calls'[i].op = "join" /\ calls'[i].at = "done"
  BY <1>3, <1>4 DEF NotifierInv
<1> QED BY <1>2, <1>3, <1>4, <1>5 DEF NotifierInv, End, audio

\* A call that begins keeps the others, and its request is a new one.
LEMMA SendTypes ==
    ASSUME NotifierInv, NEW call \in Call, Send(call)
    PROVE  /\ CallsOK' /\ Len(calls') = Len(calls) + 1 /\ Len(calls') <= MaxCalls
           /\ DOMAIN calls \subseteq DOMAIN calls'
           /\ \A i \in DOMAIN calls : calls'[i] = calls[i]
BY CallAssumption DEF NotifierInv, CallsOK, Send

\* No message on its way answers the new request.
LEMMA SendQueue ==
    ASSUME NotifierInv, QueueInv, NEW call \in Call, Send(call),
           inbox' \in Seq(Message), Replies(inbox') \subseteq Replies(inbox)
    PROVE  QueueInv'
<1>1. Len(calls') = Len(calls) + 1 /\ Len(calls) \in Nat
  BY SendTypes DEF NotifierInv, CallsOK
<1>2. requests \in Seq(0 .. Len(calls'))
  <2>1. 0 .. Len(calls) \subseteq 0 .. Len(calls')
    BY <1>1
  <2> QED BY <2>1, SeqMonotonic DEF QueueInv
<1>3. \A n \in DOMAIN requests : requests[n] \in 0 .. Len(calls)
  BY DEF QueueInv
<1>4. CASE requests' = requests
  BY <1>1, <1>2, <1>4 DEF QueueInv
<1>5. CASE requests' = Append(requests, Len(calls) + 1)
  <2>1. requests' \in Seq(0 .. Len(calls'))
    BY <1>1, <1>2, <1>5
  <2>2. /\ DOMAIN requests = 1 .. Len(requests) /\ DOMAIN requests' = 1 .. Len(requests) + 1
        /\ Len(requests) \in Nat
        /\ requests'[Len(requests) + 1] = Len(calls) + 1
        /\ \A n \in DOMAIN requests : requests'[n] = requests[n]
    BY <1>2, <1>5
  <2>3. Len(calls) + 1 \notin Replies(inbox)
    BY <1>1 DEF QueueInv
  <2>4. \A n \in DOMAIN requests' : requests'[n] \notin Replies(inbox')
    <3>1. ASSUME NEW n \in DOMAIN requests
          PROVE  requests'[n] \notin Replies(inbox')
      BY <2>2 DEF QueueInv
    <3>2. requests'[Len(requests) + 1] \notin Replies(inbox')
      BY <2>2, <2>3
    <3> QED BY <2>2, <3>1, <3>2
  <2>5. \A m, n \in DOMAIN requests' : m < n /\ requests'[m] # 0 => requests'[m] # requests'[n]
    <3> SUFFICES ASSUME NEW m \in DOMAIN requests', NEW n \in DOMAIN requests',
                        m < n, requests'[m] # 0
                 PROVE  requests'[m] # requests'[n]
      OBVIOUS
    <3>1. m \in DOMAIN requests /\ requests'[m] = requests[m]
      BY <2>2
    <3>2. CASE n \in DOMAIN requests
      BY <2>2, <3>1, <3>2 DEF QueueInv
    <3>3. CASE n = Len(requests) + 1
      BY <1>1, <1>3, <2>2, <3>1, <3>3
    <3> QED BY <2>2, <3>2, <3>3
  <2>6. Replies(inbox') \subseteq 1 .. Len(calls')
    BY <1>1 DEF QueueInv
  <2> QED BY <2>1, <2>4, <2>5, <2>6 DEF QueueInv
<1> QED BY <1>4, <1>5 DEF Send

\* A leave, with a connection and without.
LEMMA DisconnectTypes ==
    ASSUME NotifierInv, QueueInv, Disconnect,
           inbox' \in Seq(Message), Replies(inbox') \subseteq Replies(inbox)
    PROVE  NotifierInv' /\ QueueInv'
<1> DEFINE call == [op |-> "leave", to |-> None, at |-> IF online THEN "asked" ELSE "done"]
<1>1. call \in Call /\ Send(call)
  BY DEF Call, Disconnect
<1> HIDE DEF call
<1>2. QueueInv'
  BY <1>1, SendQueue
<1>3. subs' \subseteq subs /\ captureSub' \in {captureSub, 0} /\ UNCHANGED channel
      /\ status' \in {status, "disconnected"}
      /\ capturing' \in {capturing, FALSE} /\ socket' \in {socket, FALSE}
  BY DEF Disconnect, audio
<1>4. NotifierInv'
  BY <1>1, <1>3, SendTypes DEF NotifierInv
<1> QED BY <1>2, <1>4

\* joinVoice up to its request.
LEMMA JoinTypes ==
    ASSUME NotifierInv, QueueInv, NEW c \in Channel, JoinVoice(c), UNCHANGED inbox
    PROVE  NotifierInv' /\ QueueInv'
<1> DEFINE call == [op |-> "join", to |-> c, at |-> IF online THEN "asked" ELSE "done"]
<1>1. call \in Call /\ Send(call)
  BY DEF Call, JoinVoice
<1> HIDE DEF call
<1>2. QueueInv'
  BY <1>1, SendQueue DEF QueueInv
<1>3. UNCHANGED <<captureSub, subs, capturing, socket>> /\ channel' \in Places
      /\ status' \in {"connecting", "disconnected"}
  BY DEF JoinVoice, audio, Places
<1>4. NotifierInv'
  BY <1>1, <1>3, SendTypes DEF NotifierInv
<1> QED BY <1>2, <1>4

\* The subscription of a join is made in the step that ends it.
LEMMA BoundTypes ==
    ASSUME NotifierInv, NEW i \in CallId, Bound(i)
    PROVE  NotifierInv' /\ Len(calls') = Len(calls)
<1>1. CallsOK /\ calls' = Advance({i}, "done") /\ i \in DOMAIN calls /\ calls[i].at = "binding"
  BY DEF NotifierInv, Bound
<1>2. CallsOK' /\ Len(calls') = Len(calls)
  BY <1>1, AdvanceType, AdvanceLen DEF CallsOK
<1>3. /\ DOMAIN calls' = DOMAIN calls
      /\ \A j \in DOMAIN calls : /\ calls'[j].op = calls[j].op
                                 /\ j = i => calls'[j].at = "done"
                                 /\ calls[j].at = "done" => calls'[j].at = "done"
  BY <1>1, AdvanceParts
<1>4. calls[i].op = "join" /\ calls[i].to \in Channel
  BY <1>1, CallParts
<1>5. subs' \subseteq subs \cup {i} /\ captureSub' = i
  BY DEF Bound, Subscribe
<1>6. \A j \in subs' : calls'[j].op = "join" /\ calls'[j].at = "done"
  BY <1>1, <1>3, <1>4, <1>5 DEF NotifierInv
<1> QED BY <1>1, <1>2, <1>3, <1>4, <1>5, <1>6 DEF NotifierInv, Bound, StartCapture, Places

\* What is received is in the inbox no more.
LEMMA ReceiveQueue ==
    ASSUME NEW s \in Seq(Message), s # <<>>
    PROVE  /\ Tail(s) \in Seq(Message) /\ Replies(Tail(s)) \subseteq Replies(s)
           /\ Head(s) \in Message /\ ("reply" \in DOMAIN Head(s) => Head(s).reply \in Replies(s))
<1>1. Tail(s) \in Seq(Message) /\ Head(s) \in Message
      /\ \A i \in DOMAIN Tail(s) : i + 1 \in DOMAIN s /\ Tail(s)[i] = s[i + 1]
      /\ 1 \in DOMAIN s /\ Head(s) = s[1]
  OBVIOUS
<1>2. Replies(Tail(s)) \subseteq Replies(s)
  BY <1>1 DEF Replies
<1>3. "reply" \in DOMAIN Head(s) => Head(s).reply \in Replies(s)
  BY <1>1 DEF Replies
<1> QED BY <1>1, <1>2, <1>3

\* An event answers no call.
LEMMA EventIsNoReply ==
    ASSUME NEW e \in Event
    PROVE  e \in Message /\ "reply" \notin DOMAIN e
BY DEF Event, Message

\* The hub's events bring no answer.
LEMMA TellQueue ==
    ASSUME NEW s \in Seq(Message), NEW t \in Seq(Event)
    PROVE  s \o t \in Seq(Message) /\ Replies(s \o t) \subseteq Replies(s)
<1>1. Event \subseteq Message
  BY EventIsNoReply
<1>2. t \in Seq(Message)
  BY <1>1, SeqMonotonic
<1>3. s \o t \in Seq(Message)
  BY <1>2
<1>4. ASSUME NEW i \in DOMAIN (s \o t)
      PROVE  \/ i \in DOMAIN s /\ (s \o t)[i] = s[i]
             \/ (s \o t)[i] \in Event
  <2>1. i \in 1 .. Len(s) + Len(t) /\ Len(s) \in Nat /\ Len(t) \in Nat
    BY <1>2
  <2>2. CASE i <= Len(s)
    BY <1>2, <2>1, <2>2
  <2>3. CASE i > Len(s)
    <3>1. i - Len(s) \in 1 .. Len(t) /\ (s \o t)[i] = t[i - Len(s)]
      BY <1>2, <2>1, <2>3
    <3> QED BY <3>1, ElementOfSeq
  <2> QED BY <2>1, <2>2, <2>3
<1>5. Replies(s \o t) \subseteq Replies(s)
  BY <1>4, EventIsNoReply DEF Replies
<1> QED BY <1>3, <1>5

\* A reply answers one call.
LEMMA ReplyQueue ==
    ASSUME NEW s \in Seq(Message), NEW i \in CallId, NEW ok \in BOOLEAN
    PROVE  /\ Append(s, [reply |-> i, ok |-> ok]) \in Seq(Message)
           /\ Replies(Append(s, [reply |-> i, ok |-> ok])) \subseteq Replies(s) \cup {i}
<1> DEFINE m == [reply |-> i, ok |-> ok]
           t == Append(s, m)
<1>1. m \in Message /\ m.reply = i
  BY DEF Message
<1> HIDE DEF m
<1>2. t \in Seq(Message)
  BY <1>1
<1>3. ASSUME NEW j \in DOMAIN t
      PROVE  (j \in DOMAIN s /\ t[j] = s[j]) \/ t[j] = m
  OBVIOUS
<1> HIDE DEF t
<1>4. Replies(t) \subseteq Replies(s) \cup {i}
  BY <1>1, <1>3 DEF Replies
<1> QED BY <1>2, <1>4 DEF t, m

\* The server takes the oldest request; it is not asked again.
LEMMA TakeRequest ==
    ASSUME QueueInv, Len(calls) \in Nat, Len(calls) <= MaxCalls, Serve, UNCHANGED calls
    PROVE  /\ Head(requests) \in 0 .. Len(calls) /\ requests' \in Seq(0 .. Len(calls))
           /\ \A n \in DOMAIN requests' : /\ requests'[n] \notin Replies(inbox)
                                          /\ Head(requests) # 0 => requests'[n] # Head(requests)
           /\ \A m, n \in DOMAIN requests' :
                 m < n /\ requests'[m] # 0 => requests'[m] # requests'[n]
<1>1. /\ requests \in Seq(0 .. Len(calls)) /\ requests # <<>> /\ requests' = Tail(requests)
  BY DEF QueueInv, Serve
<1>2. /\ Head(requests) \in 0 .. Len(calls) /\ requests' \in Seq(0 .. Len(calls))
      /\ Head(requests) = requests[1] /\ 1 \in DOMAIN requests
      /\ \A n \in DOMAIN requests' : /\ n \in Nat \ {0} /\ n + 1 \in DOMAIN requests
                                     /\ requests'[n] = requests[n + 1]
  BY <1>1
<1>3. \A n \in DOMAIN requests' : /\ requests'[n] \notin Replies(inbox)
                                  /\ Head(requests) # 0 => requests'[n] # Head(requests)
  <2> SUFFICES ASSUME NEW n \in DOMAIN requests'
               PROVE  /\ requests'[n] \notin Replies(inbox)
                      /\ Head(requests) # 0 => requests'[n] # Head(requests)
    OBVIOUS
  <2>1. 1 < n + 1 /\ n + 1 \in DOMAIN requests /\ requests'[n] = requests[n + 1]
    BY <1>2
  <2> QED BY <1>2, <2>1 DEF QueueInv
<1>4. \A m, n \in DOMAIN requests' : m < n /\ requests'[m] # 0 => requests'[m] # requests'[n]
  <2> SUFFICES ASSUME NEW m \in DOMAIN requests', NEW n \in DOMAIN requests',
                      m < n, requests'[m] # 0
               PROVE  requests'[m] # requests'[n]
    OBVIOUS
  <2>1. /\ m + 1 < n + 1 /\ m + 1 \in DOMAIN requests /\ n + 1 \in DOMAIN requests
        /\ requests'[m] = requests[m + 1] /\ requests'[n] = requests[n + 1]
    BY <1>2
  <2> QED BY <2>1 DEF QueueInv
<1> QED BY <1>2, <1>3, <1>4

\* What has happened to the user is an event.
LEMMA LeftType ==
    Left \in Seq(Event)
<1>1. [event |-> "voice_state_update", channel |-> None] \in Event
  BY DEF Event, Places
<1> QED BY <1>1 DEF Left

\* So are those after which it happened.
LEMMA PostType ==
    ASSUME NEW s \in Seq(Event), NEW t \in Seq(Event)
    PROVE  s \o t \in Seq(Event)
OBVIOUS

\* The request that is answered has left the queue, and was in it once.
LEMMA ServeTypes ==
    ASSUME TypeInv, Serve
    PROVE  TypeInv'
<1> DEFINE r == Head(requests)
<1>1. /\ CallsOK /\ UNCHANGED <<notifier, audio, online, outside>> /\ ServeOne(r)
      /\ Len(calls) \in Nat /\ Len(calls) <= MaxCalls
  BY DEF TypeInv, NotifierInv, CallsOK, Serve, ServeOne
<1>2. /\ r \in 0 .. Len(calls) /\ requests' \in Seq(0 .. Len(calls))
      /\ \A n \in DOMAIN requests' : /\ requests'[n] \notin Replies(inbox)
                                     /\ r # 0 => requests'[n] # r
      /\ \A m, n \in DOMAIN requests' :
            m < n /\ requests'[m] # 0 => requests'[m] # requests'[n]
  BY <1>1, TakeRequest DEF TypeInv, notifier
<1>3. NotifierInv'
  BY <1>1 DEF TypeInv, NotifierInv, CallsOK, notifier, audio
<1>4. inbox \in Seq(Message) /\ Replies(inbox) \subseteq 1 .. Len(calls) /\ calls' = calls
      /\ room \in Places /\ posted \in Seq(Event)
  BY <1>1 DEF TypeInv, QueueInv, ServerInv, notifier
<1> HIDE DEF r
<1>5. CASE r = 0
  <2>1. [event |-> "voice_state_update", channel |-> room] \in Event
    BY <1>4 DEF Event
  <2>2. posted' \in Seq(Event) /\ UNCHANGED <<inbox, room>>
    BY <1>1, <1>4, <1>5, <2>1 DEF ServeOne, ServeVoiceState
  <2>3. QueueInv'
    BY <1>2, <1>4, <2>2 DEF QueueInv
  <2> QED BY <1>1, <1>3, <2>2, <2>3 DEF TypeInv, ServerInv
<1>6. CASE r # 0
  <2>1. r \in CallId /\ r \in DOMAIN calls /\ r \in 1 .. Len(calls)
    BY <1>1, <1>2, <1>6, CallAssumption DEF CallsOK, CallId
  <2>2. PICK ok \in BOOLEAN : inbox' = Append(inbox, [reply |-> r, ok |-> ok])
    BY <1>1, <1>6 DEF ServeOne, ServeJoin, ServeLeave, Reply
  <2>3. inbox' \in Seq(Message) /\ Replies(inbox') \subseteq Replies(inbox) \cup {r}
    BY <1>4, <2>1, <2>2, ReplyQueue
  <2>4. QueueInv'
    <3>1. \A n \in DOMAIN requests' : requests'[n] \notin Replies(inbox')
      BY <1>2, <1>6, <2>3
    <3>2. Replies(inbox') \subseteq 1 .. Len(calls)
      BY <1>4, <2>1, <2>3
    <3> QED BY <1>2, <1>4, <2>3, <3>1, <3>2 DEF QueueInv
  <2>5. room' \in Places /\ posted' \in Seq(Event)
    <3>1. CASE calls[r].op = "join"
      <4>1. calls[r].to \in Channel
        BY <1>1, <2>1, <3>1, CallParts
      <4> QED BY <1>1, <1>4, <1>6, <3>1, <4>1 DEF ServeOne, ServeJoin, Places
    <3>2. CASE calls[r].op # "join"
      BY <1>1, <1>4, <1>6, <3>2, LeftType, PostType DEF ServeOne, ServeLeave, Places
    <3> QED BY <3>1, <3>2
  <2> QED BY <1>1, <1>3, <2>4, <2>5 DEF TypeInv, ServerInv
<1> QED BY <1>5, <1>6

\* Steps that leave the calls as many as they are, and the queues alone or emptier.
LEMMA QueueStays ==
    ASSUME QueueInv, Len(calls') = Len(calls), UNCHANGED requests,
           inbox' \in Seq(Message), Replies(inbox') \subseteq Replies(inbox)
    PROVE  QueueInv'
BY DEF QueueInv

\* A reply moves the call that waits for it, and no other.
LEMMA AnsweredTypes ==
    ASSUME TypeInv, Answered
    PROVE  TypeInv'
<1> USE DEF TypeInv
<1> DEFINE i == Head(inbox).reply
<1>1. inbox' \in Seq(Message) /\ Replies(inbox') \subseteq Replies(inbox)
  BY ReceiveQueue DEF Answered, Receive, QueueInv
<1>2. UNCHANGED <<online, requests, room, posted, outside>>
  BY DEF Answered, server
<1>3. ServerInv'
  BY <1>2 DEF ServerInv
<1>4. CASE UNCHANGED <<notifier, audio>>
  <2>1. NotifierInv' /\ Len(calls') = Len(calls)
    BY <1>4 DEF NotifierInv, CallsOK, notifier, audio
  <2> QED BY <1>1, <1>2, <1>3, <2>1, QueueStays
<1>5. CASE End({i})
  BY <1>1, <1>2, <1>3, <1>5, EndNotifier, QueueStays
<1>6. CASE /\ i \in Pending /\ calls[i].op = "join"
           /\ calls' = Advance({i}, "binding") /\ socket' = FALSE
           /\ UNCHANGED <<status, channel, captureSub, subs, capturing>>
  <2>1. CallsOK /\ i \in DOMAIN calls /\ calls[i].at = "asked"
    BY <1>6 DEF NotifierInv, Pending
  <2>2. CallsOK' /\ Len(calls') = Len(calls)
    BY <1>6, <2>1, AdvanceType, AdvanceLen DEF CallsOK
  <2>3. /\ DOMAIN calls' = DOMAIN calls
        /\ \A j \in DOMAIN calls : j # i => calls'[j] = calls[j]
    BY <1>6, <2>1, AdvanceParts
  <2>4. \A j \in subs' : calls'[j].op = "join" /\ calls'[j].at = "done"
    BY <1>6, <2>1, <2>3 DEF NotifierInv
  <2>5. NotifierInv'
    BY <1>6, <2>2, <2>3, <2>4 DEF NotifierInv
  <2> QED BY <1>1, <1>2, <1>3, <2>2, <2>5, QueueStays
<1> QED BY <1>4, <1>5, <1>6 DEF Answered

\* A lost connection empties both queues.
LEMMA LostTypes ==
    ASSUME TypeInv, ConnectionLost
    PROVE  TypeInv'
<1> USE DEF TypeInv
<1>1. NotifierInv' /\ Len(calls') = Len(calls)
  BY EndNotifier DEF ConnectionLost
<1>2. QueueInv'
  BY DEF ConnectionLost, QueueInv, Replies
<1>3. posted' \in Seq(Event)
  BY LeftType, PostType DEF ConnectionLost, ServerInv
<1>4. ServerInv'
  <2>1. outside' \in 0 .. MaxOutside
    BY CallAssumption DEF ConnectionLost, ServerInv
  <2>2. room' \in Places /\ online' \in BOOLEAN
    BY DEF ConnectionLost, Places
  <2> QED BY <1>3, <2>1, <2>2 DEF ServerInv
<1> QED BY <1>1, <1>2, <1>4

\* set_voice_state is no call, and may be asked for twice.
LEMMA MuteTypes ==
    ASSUME TypeInv, ToggleMute
    PROVE  TypeInv'
<1> USE DEF TypeInv
<1>1. NotifierInv' /\ ServerInv'
  BY CallAssumption DEF ToggleMute, NotifierInv, CallsOK, ServerInv, notifier, audio, server
<1>2. /\ Len(calls) \in Nat /\ requests \in Seq(0 .. Len(calls)) /\ requests' = Append(requests, 0)
      /\ UNCHANGED <<calls, inbox>>
  BY DEF ToggleMute, NotifierInv, CallsOK, QueueInv, notifier
<1>3. /\ requests' \in Seq(0 .. Len(calls')) /\ Len(requests) \in Nat
      /\ DOMAIN requests = 1 .. Len(requests) /\ DOMAIN requests' = 1 .. Len(requests) + 1
      /\ requests'[Len(requests) + 1] = 0
      /\ \A n \in DOMAIN requests : requests'[n] = requests[n]
  BY <1>2
<1>4. 0 \notin Replies(inbox)
  BY <1>2 DEF QueueInv
<1>5. ASSUME NEW n \in DOMAIN requests'
      PROVE  requests'[n] \notin Replies(inbox')
  <2>1. CASE n \in DOMAIN requests
    BY <1>2, <1>3, <2>1 DEF QueueInv
  <2>2. CASE n = Len(requests) + 1
    BY <1>2, <1>3, <1>4, <2>2
  <2> QED BY <1>3, <2>1, <2>2
<1>6. ASSUME NEW m \in DOMAIN requests', NEW n \in DOMAIN requests', m < n, requests'[m] # 0
      PROVE  requests'[m] # requests'[n]
  <2>1. m \in DOMAIN requests /\ requests'[m] = requests[m]
    BY <1>3, <1>6
  <2>2. CASE n \in DOMAIN requests
    BY <1>3, <1>6, <2>1, <2>2 DEF QueueInv
  <2>3. CASE n = Len(requests) + 1
    BY <1>3, <1>6, <2>3
  <2> QED BY <1>3, <2>2, <2>3
<1>7. QueueInv'
  BY <1>2, <1>3, <1>5, <1>6 DEF QueueInv
<1> QED BY <1>1, <1>7

\* The hub hands an event on.
LEMMA DispatchTypes ==
    ASSUME TypeInv, Dispatch
    PROVE  TypeInv'
<1> USE DEF TypeInv
<1>1. NotifierInv' /\ UNCHANGED <<calls, requests>>
  BY DEF Dispatch, NotifierInv, CallsOK, notifier, audio
<1>2. posted' \in Seq(Event) /\ Head(posted) \in Event
  BY DEF Dispatch, ServerInv
<1>3. Told \in Seq(Event)
  BY <1>2 DEF Told
<1>4. inbox' \in Seq(Message) /\ Replies(inbox') \subseteq Replies(inbox)
  BY <1>3, TellQueue DEF Dispatch, QueueInv
<1>5. QueueInv'
  BY <1>1, <1>4, QueueStays
<1>6. ServerInv'
  BY <1>2 DEF Dispatch, ServerInv
<1> QED BY <1>1, <1>5, <1>6

\* A moderator's move or mute.
LEMMA ModeratorTypes ==
    ASSUME TypeInv, ServerMute \/ \E c \in Channel : Move(c)
    PROVE  TypeInv'
<1> USE DEF TypeInv
<1>1. /\ [event |-> "voice_state_update", channel |-> None] \in Event
      /\ \A c \in Channel : [event |-> "member_moved", channel |-> c] \in Event
  BY DEF Event, Places
<1>2. ServerInv'
  <2>1. CASE ServerMute
    BY <1>1, <2>1, CallAssumption DEF ServerMute, ServerInv
  <2>2. ASSUME NEW c \in Channel, Move(c) PROVE ServerInv'
    BY <1>1, <2>2, CallAssumption DEF Move, ServerInv, Places
  <2> QED BY <2>1, <2>2
<1>3. NotifierInv' /\ QueueInv'
  BY DEF Move, ServerMute, NotifierInv, CallsOK, QueueInv, notifier, audio
<1> QED BY <1>2, <1>3

\* The client hears that it was moved, or that it left.
LEMMA ToldTypes ==
    ASSUME TypeInv, ToldLeft \/ ToldMoved
    PROVE  TypeInv'
<1> USE DEF TypeInv
<1>1. inbox' \in Seq(Message) /\ Replies(inbox') \subseteq Replies(inbox)
      /\ Head(inbox) \in Message
  BY ReceiveQueue DEF ToldLeft, ToldMoved, Receive, QueueInv
<1>2. UNCHANGED <<online, room, posted, outside>>
  BY DEF ToldLeft, ToldMoved, server
<1>3. ServerInv'
  BY <1>2 DEF ServerInv
<1>4. CASE Disconnect
  BY <1>1, <1>3, <1>4, DisconnectTypes
<1>5. CASE UNCHANGED <<notifier, audio, requests>>
  <2>1. NotifierInv' /\ Len(calls') = Len(calls)
    BY <1>5 DEF NotifierInv, CallsOK, notifier, audio
  <2> QED BY <1>1, <1>3, <1>5, <2>1, QueueStays
<1>6. CASE ToldMoved
  <2>1. channel' \in Places
    <3>1. "event" \in DOMAIN Head(inbox) /\ channel' = Head(inbox).channel
      BY <1>6 DEF ToldMoved
    <3>2. Head(inbox) \in Event
      BY <1>1, <3>1 DEF Message
    <3> QED BY <3>1, <3>2 DEF Event
  <2>2. NotifierInv' /\ Len(calls') = Len(calls)
    BY <1>6, <2>1 DEF ToldMoved, NotifierInv, CallsOK, audio
  <2>3. UNCHANGED requests
    BY <1>6 DEF ToldMoved
  <2> QED BY <1>1, <1>3, <2>2, <2>3, QueueStays
<1> QED BY <1>4, <1>5, <1>6 DEF ToldLeft

\* Type correctness, with what it says of the calls: a live subscription is that of
\* a join that is over, and a request that is still to be served has no answer yet.
THEOREM TypeCorrect == Spec => []TypeOK
<1>1. Init => TypeInv
  <2> SUFFICES ASSUME Init
               PROVE  NotifierInv /\ QueueInv /\ ServerInv
    BY DEF TypeInv
  <2>1. NotifierInv
    <3>1. calls \in Seq(Call) /\ Len(calls) <= MaxCalls
      BY CallAssumption DEF Init
    <3>2. captureSub \in {0} /\ subs = {} /\ channel \in Places
      BY DEF Init, Places
    <3>3. status = "disconnected" /\ capturing = FALSE /\ socket = FALSE
      BY DEF Init
    <3> QED BY <3>1, <3>2, <3>3 DEF NotifierInv, CallsOK
  <2>2. QueueInv
    BY DEF Init, QueueInv, Replies
  <2>3. outside \in 0 .. MaxOutside
    BY CallAssumption DEF Init
  <2> QED BY <2>1, <2>2, <2>3 DEF Init, ServerInv, Places
<1>2. TypeInv /\ [Next]_vars => TypeInv'
  <2> SUFFICES ASSUME TypeInv, [Next]_vars
               PROVE  TypeInv'
    OBVIOUS
  <2>1. CASE UNCHANGED vars \/ Reconnect
    BY <2>1 DEF vars, Reconnect, notifier, audio, server, TypeInv, NotifierInv, QueueInv,
                ServerInv, CallsOK
  <2>2. CASE HangUp \/ \E c \in Channel : Tap(c)
    <3>1. UNCHANGED <<online, inbox, room, posted, outside>>
          /\ (Disconnect \/ \E c \in Channel : JoinVoice(c))
      BY <2>2 DEF HangUp, Tap, server
    <3>2. inbox' \in Seq(Message) /\ Replies(inbox') \subseteq Replies(inbox)
      BY <3>1 DEF TypeInv, QueueInv
    <3>3. NotifierInv' /\ QueueInv'
      BY <3>1, <3>2, DisconnectTypes, JoinTypes DEF TypeInv
    <3> QED BY <3>1, <3>3 DEF TypeInv, ServerInv
  <2>3. CASE \E i \in CallId : TimesOut(i) \/ BindEnds(i)
    <3>1. UNCHANGED <<online, requests, inbox, room, posted, outside>>
          /\ ((\E i \in CallId : Bound(i)) \/ (\E i \in CallId : End({i})))
      BY <2>3 DEF TimesOut, BindEnds, Bound, BindFails, server
    <3>2. NotifierInv' /\ Len(calls') = Len(calls)
      BY <3>1, BoundTypes, EndNotifier DEF TypeInv
    <3>3. inbox' \in Seq(Message) /\ Replies(inbox') \subseteq Replies(inbox)
      BY <3>1 DEF TypeInv, QueueInv
    <3> QED BY <3>1, <3>2, <3>3, QueueStays DEF TypeInv, ServerInv
  <2>4. CASE Answered \/ ToldLeft \/ ToldMoved \/ ConnectionLost \/ ToggleMute
    BY <2>4, AnsweredTypes, ToldTypes, LostTypes, MuteTypes
  <2>5. CASE Serve \/ Dispatch \/ ServerMute \/ \E c \in Channel : Move(c)
    BY <2>5, ServeTypes, DispatchTypes, ModeratorTypes
  <2> QED BY <2>1, <2>2, <2>3, <2>4, <2>5 DEF Next
<1>3. TypeInv => TypeOK
  <2> SUFFICES ASSUME TypeInv
               PROVE  TypeOK
    OBVIOUS
  <2>1. DOMAIN calls \subseteq CallId /\ calls \in Seq(Call) /\ Len(calls) <= MaxCalls
    BY CallAssumption DEF TypeInv, NotifierInv, CallsOK, CallId
  <2>2. \A i \in DOMAIN inbox :
           "reply" \in DOMAIN inbox[i] => inbox[i].reply \notin ToSet(requests)
    BY DEF TypeInv, QueueInv, Replies, ToSet
  <2> QED BY <2>1, <2>2 DEF TypeOK, TypeInv, NotifierInv, QueueInv, ServerInv
<1> QED BY <1>1, <1>2, <1>3, PTL DEF Spec
=============================================================================
