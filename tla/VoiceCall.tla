------------------------------ MODULE VoiceCall ------------------------------
(***************************************************************************)
(* A client's voice call: voice_notifier.dart over websocket_service.dart, *)
(* voice_client.dart and audio_engine.dart, and of the server what answers *)
(* it.  joinVoice and disconnect are asynchronous: each runs at once up to *)
(* its await and on from there when the answer, the timeout or the UDP     *)
(* socket is there, and any number of them overlap.  Between two awaits    *)
(* Dart runs a call without interruption, and so is one step here.         *)
(*                                                                         *)
(* Replies go into the connection directly, events through the hub's       *)
(* broadcast channel first; what the connection has taken stays in order.  *)
(***************************************************************************)
EXTENDS Integers, SequencesExt

CONSTANTS
    Channel,     \* voice channels
    None,        \* no channel
    MaxCalls,    \* bound: calls of joinVoice and disconnect
    MaxOutside   \* bound: moves, mutes, toggles and lost connections

ASSUME CallAssumption == None \notin Channel /\ MaxCalls \in Nat /\ MaxOutside \in Nat

VARIABLES
    status,      \* state.status
    channel,     \* state.connectedChannelId
    calls,       \* the calls of joinVoice and disconnect, in the order they began
    captureSub,  \* _captureSub: the call that made it, or 0
    subs,        \* the live subscriptions of captured frames
    capturing,   \* _isCapturing of the audio engine
    socket,      \* whether _socket of the voice client is open
    online,      \* whether the WebSocket has a channel
    requests,    \* requests on their way: a call, or 0 for set_voice_state
    inbox,       \* messages on their way to the client
    room,        \* activeVoiceChannel of the client's connection
    posted,      \* events about this user in the hub's broadcast channel
    outside      \* history: moves, mutes, toggles and lost connections

notifier == <<status, channel, calls, captureSub, subs>>
audio == <<capturing, socket>>
server == <<room, posted>>
vars == <<notifier, audio, online, requests, inbox, server, outside>>

Places == Channel \cup {None}
CallId == 1 .. MaxCalls
Call == [op : {"join"}, to : Channel, at : {"asked", "binding", "done"}]
        \cup [op : {"leave"}, to : {None}, at : {"asked", "done"}]
Event == [event : {"voice_state_update", "member_moved"}, channel : Places]
Message == Event \cup [reply : CallId, ok : BOOLEAN]

TypeOK ==
    /\ status \in {"disconnected", "connecting", "connected"}
    /\ channel \in Places /\ room \in Places
    /\ calls \in Seq(Call) /\ Len(calls) <= MaxCalls
    /\ captureSub \in CallId \cup {0} /\ subs \subseteq CallId
    /\ \A i \in subs : calls[i].op = "join" /\ calls[i].at = "done"
    /\ capturing \in BOOLEAN /\ socket \in BOOLEAN /\ online \in BOOLEAN
    /\ requests \in Seq(0 .. Len(calls)) /\ inbox \in Seq(Message)
    /\ posted \in Seq(Event)
    /\ \A i \in DOMAIN inbox :
          "reply" \in DOMAIN inbox[i] => inbox[i].reply \notin ToSet(requests)
    /\ outside \in 0 .. MaxOutside

Init ==
    /\ status = "disconnected" /\ channel = None /\ calls = <<>>
    /\ captureSub = 0 /\ subs = {}
    /\ capturing = FALSE /\ socket = FALSE
    /\ online = TRUE /\ requests = <<>> /\ inbox = <<>>
    /\ room = None /\ posted = <<>>
    /\ outside = 0

Pending == {i \in DOMAIN calls : calls[i].at = "asked"}

-----------------------------------------------------------------------------
(* The calls                                                               *)

Advance(S, at) == [i \in DOMAIN calls |-> IF i \in S THEN [calls[i] EXCEPT !.at = at] ELSE calls[i]]

\* The calls in S end: a join that has failed, or a leave, answered or not.  The
\* null that copyWith is given for the channel keeps the old one.
End(S) ==
    /\ calls' = Advance(S, "done")
    /\ status' = IF S = {} THEN status ELSE "disconnected"
    /\ IF \E i \in S : calls[i].op = "leave"
       THEN /\ subs' = subs \ {captureSub} /\ captureSub' = 0
            /\ capturing' = FALSE /\ socket' = FALSE
       ELSE UNCHANGED <<captureSub, subs, audio>>
    /\ UNCHANGED channel

\* sendRequest, which fails at once without a connection.
Send(call) ==
    /\ Len(calls) < MaxCalls
    /\ calls' = Append(calls, call)
    /\ requests' = IF online THEN Append(requests, Len(calls) + 1) ELSE requests

JoinVoice(c) ==
    /\ ~(channel = c /\ status = "connected")
    /\ channel' = c
    /\ Send([op |-> "join", to |-> c, at |-> IF online THEN "asked" ELSE "done"])
    /\ status' = IF online THEN "connecting" ELSE "disconnected"
    /\ UNCHANGED <<captureSub, subs, audio>>

Disconnect ==
    /\ Send([op |-> "leave", to |-> None, at |-> IF online THEN "asked" ELSE "done"])
    /\ UNCHANGED channel
    /\ IF online
       THEN UNCHANGED <<status, captureSub, subs, audio>>
       ELSE /\ status' = "disconnected"
            /\ subs' = subs \ {captureSub} /\ captureSub' = 0
            /\ capturing' = FALSE /\ socket' = FALSE

\* A tap on a channel in the list leaves it when it is the one of the state.
Tap(c) ==
    /\ IF c = channel THEN Disconnect ELSE JoinVoice(c)
    /\ UNCHANGED <<online, inbox, server, outside>>

\* The button of the call bar, which is there while connected or connecting.
HangUp ==
    /\ status # "disconnected"
    /\ Disconnect
    /\ UNCHANGED <<online, inbox, server, outside>>

\* The ten seconds are over; a later reply finds no request.
TimesOut(i) ==
    /\ i \in Pending
    /\ End({i})
    /\ UNCHANGED <<online, requests, inbox, server, outside>>

\* A mistake: the old subscription is dropped without being cancelled.
SubscribeAnew(i) == captureSub' = i /\ subs' = subs \cup {i}

Subscribe(i) == captureSub' = i /\ subs' = (subs \ {captureSub}) \cup {i}

\* A mistake: a join that has been overtaken by a later call leaves the engine alone.
StartUnlessOvertaken(i) == capturing' = (capturing \/ i = Len(calls))

StartCapture(i) == capturing' = TRUE

Bound(i) ==
    /\ i \in DOMAIN calls /\ calls[i].at = "binding"
    /\ calls' = Advance({i}, "done")
    /\ socket' = TRUE
    /\ StartCapture(i)
    /\ Subscribe(i)
    /\ status' = "connected" /\ channel' = calls[i].to
    /\ UNCHANGED <<online, requests, inbox, server, outside>>

\* A mistake: the socket is opened outside of the try block.
BindThrows(i) == calls' = Advance({i}, "done") /\ UNCHANGED <<status, channel, captureSub, subs, audio>>

BindFails(i) == End({i})

BindEnds(i) ==
    \/ Bound(i)
    \/ /\ i \in DOMAIN calls /\ calls[i].at = "binding"
       /\ BindFails(i)
       /\ UNCHANGED <<online, requests, inbox, server, outside>>

-----------------------------------------------------------------------------
(* What the WebSocket brings                                               *)

Receive == inbox # <<>> /\ inbox' = Tail(inbox)

\* A reply to a call that waits for it; the join's socket is closed before a
\* new one is opened.
Answered ==
    /\ Receive
    /\ "reply" \in DOMAIN Head(inbox)
    /\ LET i == Head(inbox).reply IN
       IF i \in Pending
       THEN IF calls[i].op = "join" /\ Head(inbox).ok
            THEN /\ calls' = Advance({i}, "binding")
                 /\ socket' = FALSE
                 /\ UNCHANGED <<status, channel, captureSub, subs, capturing>>
            ELSE End({i})
       ELSE UNCHANGED <<notifier, audio>>
    /\ UNCHANGED <<online, requests, server, outside>>

\* The user is said to be in no channel, or not said to be in one.
ToldLeft ==
    /\ Receive
    /\ Head(inbox) = [event |-> "voice_state_update", channel |-> None]
    /\ IF status = "connected" THEN Disconnect ELSE UNCHANGED <<notifier, audio, requests>>
    /\ UNCHANGED <<online, server, outside>>

ToldMoved ==
    /\ Receive
    /\ "event" \in DOMAIN Head(inbox)
    /\ Head(inbox).event = "member_moved"
    /\ channel' = Head(inbox).channel
    /\ UNCHANGED <<status, calls, captureSub, subs, audio, online, requests, server, outside>>

\* The connection ends, or the user is kicked: pending requests are rejected.  The
\* hub takes the user out of the room.
Left == IF room = None THEN <<>> ELSE <<[event |-> "voice_state_update", channel |-> None]>>

ConnectionLost ==
    /\ online /\ outside < MaxOutside
    /\ outside' = outside + 1
    /\ online' = FALSE
    /\ End(Pending)
    /\ requests' = <<>> /\ inbox' = <<>>
    /\ room' = None /\ posted' = posted \o Left

Reconnect ==
    /\ ~online
    /\ online' = TRUE
    /\ UNCHANGED <<notifier, audio, requests, inbox, server, outside>>

\* toggleMute and toggleDeafen tell the server.
ToggleMute ==
    /\ status = "connected" /\ online /\ outside < MaxOutside
    /\ outside' = outside + 1
    /\ requests' = Append(requests, 0)
    /\ UNCHANGED <<notifier, audio, online, inbox, server>>

-----------------------------------------------------------------------------
(* The server                                                              *)

Reply(i, ok) == inbox' = Append(inbox, [reply |-> i, ok |-> ok])

\* A refused join may have entered the room: when no token could be stored.
ServeJoin(i) ==
    \/ room' = calls[i].to /\ Reply(i, TRUE) /\ UNCHANGED posted
    \/ room' \in {room, calls[i].to} /\ Reply(i, FALSE) /\ UNCHANGED posted

ServeLeave(i) == room' = None /\ Reply(i, TRUE) /\ posted' = posted \o Left

\* handleSetVoiceState reports the room the connection is in, which may be none.
ServeVoiceState ==
    /\ posted' = Append(posted, [event |-> "voice_state_update", channel |-> room])
    /\ UNCHANGED <<inbox, room>>

ServeOne(r) ==
    /\ IF r = 0 THEN ServeVoiceState
       ELSE IF calls[r].op = "join" THEN ServeJoin(r) ELSE ServeLeave(r)
    /\ UNCHANGED <<notifier, audio, online, outside>>

\* A mistake: every request is given a goroutine of its own.
ServeAny ==
    \E n \in DOMAIN requests : requests' = RemoveAt(requests, n) /\ ServeOne(requests[n])

\* A mistake: a request stays queued when it has been answered.
ServeAgain == requests # <<>> /\ ServeOne(Head(requests)) /\ UNCHANGED requests

\* readPump handles one request at a time.
Serve == requests # <<>> /\ requests' = Tail(requests) /\ ServeOne(Head(requests))

\* A moderator moves the user.
Move(c) ==
    /\ room \notin {None, c} /\ outside < MaxOutside
    /\ outside' = outside + 1
    /\ room' = c
    /\ posted' = Append(posted, [event |-> "member_moved", channel |-> c])
    /\ UNCHANGED <<notifier, audio, online, requests, inbox>>

\* A moderator mutes, deafens or releases the user.  The event names no channel,
\* which the client takes for having left.
ServerMute ==
    /\ outside < MaxOutside
    /\ outside' = outside + 1
    /\ posted' = Append(posted, [event |-> "voice_state_update", channel |-> None])
    /\ UNCHANGED <<notifier, audio, online, requests, inbox, room>>

\* Run passes an event on, if there is a connection.  One that tells the user its
\* own channel changes nothing here.
Told == IF online /\ ~(Head(posted).event = "voice_state_update" /\ Head(posted).channel # None)
        THEN <<Head(posted)>> ELSE <<>>

Dispatch ==
    /\ posted # <<>>
    /\ posted' = Tail(posted)
    /\ inbox' = inbox \o Told
    /\ UNCHANGED <<notifier, audio, online, requests, room, outside>>

-----------------------------------------------------------------------------
Next ==
    \/ \E c \in Channel : Tap(c) \/ Move(c)
    \/ \E i \in CallId : TimesOut(i) \/ BindEnds(i)
    \/ HangUp \/ Answered \/ ToldLeft \/ ToldMoved
    \/ ConnectionLost \/ Reconnect \/ ToggleMute
    \/ ServerMute \/ Serve \/ Dispatch

\* Timers run out, a bind returns, and the server serves what it has read.
Fairness ==
    /\ WF_vars(Serve)
    /\ \A i \in CallId : WF_vars(TimesOut(i)) /\ WF_vars(BindEnds(i))

Spec == Init /\ [][Next]_vars /\ Fairness

-----------------------------------------------------------------------------
\* However joins and leaves overlap, a captured frame is sent once: the one live
\* subscription is the one a leave would cancel.
FramesSentOnce == subs = IF captureSub = 0 THEN {} ELSE {captureSub}

\* When the state says connected the microphone is on, its frames are subscribed
\* to and the socket is open, or is about to be for a join that began meanwhile.
ConnectedIsLive ==
    status = "connected" =>
        /\ capturing /\ subs # {}
        /\ socket \/ \E i \in DOMAIN calls : calls[i].at = "binding"

\* No join leaves the call bar at "connecting", whatever is lost or refused.
JoinEnds == (status = "connecting") ~> (status # "connecting")

\* A leave that no later call follows takes the user out of the room for good,
\* also when joins are still on their way to the server.
LeaveIsServed ==
    \A i \in CallId :
        (i = Len(calls) /\ calls[i].op = "leave") ~> [](room = None \/ i # Len(calls))
=============================================================================
