----------------------------- MODULE ClientConn -----------------------------
(***************************************************************************)
(* The delivery side of the control plane: client.go and the event loop of *)
(* hub.go.  Every connection has a read pump that replies to requests, a   *)
(* write pump, and a bounded send channel between them and the hub.  Run   *)
(* takes events from the broadcast channel and disconnect requests from    *)
(* the unregister channel; any goroutine posts events, and so does Run.    *)
(*                                                                         *)
(* A send on a closed channel panics, and nothing recovers: the process is *)
(* gone.  A connection is followed from its login on, and of the others    *)
(* what they do to the hub: they post events and their buffers overflow.   *)
(* What the handlers do to the hub's maps is in module Hub.  Events to one *)
(* channel go the way of the global ones, to fewer connections.            *)
(***************************************************************************)
EXTENDS Integers, SequencesExt

CONSTANTS
    Conn,              \* the connections that are followed, each made once
    Other,             \* any other connection
    SendBuffer,        \* sendBufferSize
    UnregisterBuffer,  \* capacity of h.unregister
    BroadcastBuffer,   \* capacity of h.broadcast
    MaxEvents,         \* bound: events posted
    MaxOverflows       \* bound: overflows of other connections

ASSUME ConnAssumption ==
    /\ Other \notin Conn
    /\ SendBuffer \in Nat \ {0} /\ UnregisterBuffer \in Nat \ {0}
    /\ BroadcastBuffer \in Nat \ {0} /\ MaxEvents \in Nat /\ MaxOverflows \in Nat

VARIABLES
    clients,     \* h.clients
    closed,      \* connections whose Close has run: flag set, send channel closed
    socket,      \* connections whose conn is open at this end
    send,        \* the send channel of every connection
    reader,      \* where the read pump of a connection is
    writing,     \* connections whose write pump runs
    unregister,  \* h.unregister
    broadcast,   \* h.broadcast
    late,        \* events in a goroutine that waits for room in h.broadcast
    run,         \* where Run is
    crashed,     \* whether a send has panicked, and whose
    overflows,   \* history: overflows of other connections
    posted,      \* history: the number of events posted; they are 1 .. posted
    delayed,     \* history: the events that found h.broadcast full
    received     \* history: the events the peer of a connection has been sent

hub == <<clients, unregister, broadcast, late, run>>
pumps == <<socket, send, reader, writing>>
history == <<overflows, posted, delayed, received>>
vars == <<hub, closed, pumps, crashed, history>>

Reply == 0
Event == 1 .. MaxEvents
Message == Event \cup {Reply}

\* Run waits in its select, posts an event of its own, or dispatches one under
\* h.mu.RLock, to the connections left; at is the one Send is in.
RunState ==
    [op : {"select", "post"}]
    \cup [op : {"dispatch"}, event : Event, left : SUBSET Conn, at : Conn \cup {Other}]

Selecting == [op |-> "select"]

TypeOK ==
    /\ clients \subseteq Conn /\ closed \subseteq Conn /\ socket \subseteq Conn
    /\ writing \subseteq Conn
    /\ send \in [Conn -> Seq(Message)]
    /\ \A c \in Conn : Len(send[c]) <= SendBuffer
    /\ reader \in [Conn -> {"new", "reading", "checked", "leaving", "gone"}]
    /\ unregister \in Seq(Conn \cup {Other}) /\ Len(unregister) <= UnregisterBuffer
    /\ broadcast \in Seq(Event) /\ Len(broadcast) <= BroadcastBuffer
    /\ late \subseteq Event
    /\ run \in RunState
    /\ crashed \in {"no", "reply", "broadcast"}
    /\ overflows \in 0 .. MaxOverflows /\ posted \in 0 .. MaxEvents /\ delayed \subseteq Event
    /\ received \in [Conn -> Seq(Event)]

Init ==
    /\ clients = {} /\ closed = {} /\ socket = {} /\ writing = {}
    /\ send = [c \in Conn |-> <<>>]
    /\ reader = [c \in Conn |-> "new"]
    /\ unregister = <<>> /\ broadcast = <<>> /\ late = {}
    /\ run = Selecting
    /\ crashed = "no"
    /\ overflows = 0 /\ posted = 0 /\ delayed = {}
    /\ received = [c \in Conn |-> <<>>]

Up == crashed = "no"

\* h.mu is free for a writer: Run is not dispatching.
Unlocked == run.op # "dispatch"

-----------------------------------------------------------------------------
(* Closing                                                                 *)

\* A mistake: Close runs without the hub's lock.
DropUnlocked(c) ==
    /\ clients' = clients \ {c}
    /\ closed' = closed \cup {c}
    /\ socket' = socket \ {c}

\* handleClientDisconnect for a connection in h.clients, and Close, under h.mu.
Drop(c) ==
    /\ Unlocked
    /\ clients' = clients \ {c}
    /\ closed' = closed \cup {c}
    /\ socket' = socket \ {c}

\* handleClientDisconnect
Disconnect(c) ==
    IF c \in clients THEN Drop(c)
    ELSE Unlocked /\ UNCHANGED <<clients, closed, socket>>

\* ServeWs
Register(c) ==
    /\ Up /\ Unlocked
    /\ reader[c] = "new"
    /\ reader' = [reader EXCEPT ![c] = "reading"]
    /\ clients' = clients \cup {c}
    /\ socket' = socket \cup {c}
    /\ writing' = writing \cup {c}
    /\ UNCHANGED <<closed, send, unregister, broadcast, late, run, crashed, history>>

\* handleKickMember, from the moderator's goroutine.
Kick(c) ==
    /\ Up
    /\ c \in clients
    /\ Drop(c)
    /\ UNCHANGED <<unregister, broadcast, late, run, send, reader, writing, crashed, history>>

-----------------------------------------------------------------------------
(* Posting an event: BroadcastEvent                                        *)

\* A mistake: the poster waits until the channel has room.
PublishBlocking ==
    /\ Len(broadcast) < BroadcastBuffer
    /\ posted' = posted + 1
    /\ broadcast' = Append(broadcast, posted + 1)
    /\ UNCHANGED <<late, delayed>>

\* A mistake: every event is posted from a goroutine of its own.
PublishAside ==
    /\ posted' = posted + 1
    /\ late' = late \cup {posted + 1}
    /\ UNCHANGED <<broadcast, delayed>>

\* An event that finds the channel full waits for it in a goroutine of its own.
Publish ==
    /\ posted' = posted + 1
    /\ \/ /\ Len(broadcast) < BroadcastBuffer
          /\ broadcast' = Append(broadcast, posted + 1)
          /\ UNCHANGED <<late, delayed>>
       \/ /\ Len(broadcast) = BroadcastBuffer
          /\ late' = late \cup {posted + 1}
          /\ delayed' = delayed \cup {posted + 1}
          /\ UNCHANGED broadcast

\* A handler or the SFU's VAD notifier posts an event.
Post ==
    /\ Up
    /\ posted < MaxEvents
    /\ Publish
    /\ UNCHANGED <<clients, closed, unregister, run, pumps, crashed, overflows, received>>

LateEnters(e) ==
    /\ Up
    /\ e \in late
    /\ Len(broadcast) < BroadcastBuffer
    /\ broadcast' = Append(broadcast, e)
    /\ late' = late \ {e}
    /\ UNCHANGED <<clients, closed, unregister, run, pumps, crashed, history>>

\* 500 ms have passed.
LateExpires(e) ==
    /\ Up
    /\ e \in late
    /\ late' = late \ {e}
    /\ UNCHANGED <<clients, closed, unregister, broadcast, run, pumps, crashed, history>>

-----------------------------------------------------------------------------
(* Send: the test of closed and the send on the channel are two steps.     *)

\* A mistake: a message that does not fit is written over the buffer's bound.
PushUnbounded(c, m) ==
    send' = [send EXCEPT ![c] = Append(@, m)] /\ UNCHANGED unregister

\* A disconnect is asked for, unless h.unregister is full.
Schedule(c) ==
    unregister' = IF Len(unregister) < UnregisterBuffer THEN Append(unregister, c)
                  ELSE unregister

\* The send; a full buffer schedules the disconnect instead.
Push(c, m) ==
    \/ /\ Len(send[c]) < SendBuffer
       /\ send' = [send EXCEPT ![c] = Append(@, m)]
       /\ UNCHANGED unregister
    \/ /\ Len(send[c]) = SendBuffer
       /\ Schedule(c)
       /\ UNCHANGED send

OtherOverflows ==
    /\ Up
    /\ overflows < MaxOverflows
    /\ overflows' = overflows + 1
    /\ Schedule(Other)
    /\ UNCHANGED <<clients, closed, broadcast, late, run, pumps, crashed, posted, delayed, received>>

-----------------------------------------------------------------------------
(* Run                                                                     *)

Take ==
    /\ Up
    /\ run.op = "select"
    /\ broadcast # <<>>
    /\ broadcast' = Tail(broadcast)
    /\ run' = [op |-> "dispatch", event |-> Head(broadcast), left |-> clients, at |-> Other]
    /\ UNCHANGED <<clients, closed, unregister, late, pumps, crashed, history>>

Skip(c) == [run EXCEPT !.left = @ \ {c}, !.at = Other]

\* Send to c: the test.
DispatchCheck(c) ==
    /\ Up
    /\ run.op = "dispatch" /\ run.at = Other /\ c \in run.left
    /\ run' = IF c \in closed THEN Skip(c) ELSE [run EXCEPT !.at = c]
    /\ UNCHANGED <<clients, closed, unregister, broadcast, late, pumps, crashed, history>>

DispatchSend(c) ==
    /\ Up
    /\ run.op = "dispatch" /\ run.at = c
    /\ \/ c \in closed /\ crashed' = "broadcast" /\ UNCHANGED <<run, send, unregister>>
       \/ c \notin closed /\ Push(c, run.event) /\ run' = Skip(c) /\ UNCHANGED crashed
    /\ UNCHANGED <<clients, closed, broadcast, late, socket, reader, writing, history>>

Dispatched ==
    /\ Up
    /\ run.op = "dispatch" /\ run.at = Other /\ run.left = {}
    /\ run' = Selecting
    /\ UNCHANGED <<clients, closed, unregister, broadcast, late, pumps, crashed, history>>

\* The departure is announced: Run posts to the channel it alone empties.
Unregister ==
    /\ Up
    /\ run.op = "select"
    /\ unregister # <<>>
    /\ unregister' = Tail(unregister)
    /\ Disconnect(Head(unregister))
    /\ run' = IF Head(unregister) \in clients \cup {Other} THEN [op |-> "post"] ELSE run
    /\ UNCHANGED <<broadcast, late, send, reader, writing, crashed, history>>

PostDeparture ==
    /\ Up
    /\ run.op = "post"
    /\ IF posted < MaxEvents THEN Publish ELSE UNCHANGED <<posted, broadcast, late, delayed>>
    /\ run' = Selecting
    /\ UNCHANGED <<clients, closed, unregister, pumps, crashed, overflows, received>>

Dispatch == \E c \in Conn : DispatchCheck(c) \/ DispatchSend(c)

RunStep == Take \/ Dispatch \/ Dispatched \/ PostDeparture

-----------------------------------------------------------------------------
(* The pumps of connection c                                               *)

Reads(c, here, next) == reader[c] = here /\ reader' = [reader EXCEPT ![c] = next]

\* A request has been read and its handler replies: the test of Send.
ReplyCheck(c) ==
    /\ Up
    /\ c \in socket /\ c \notin closed
    /\ Reads(c, "reading", "checked")
    /\ UNCHANGED <<hub, closed, socket, send, writing, crashed, history>>

ReplySend(c) ==
    /\ Up
    /\ Reads(c, "checked", "reading")
    /\ \/ c \in closed /\ crashed' = "reply" /\ UNCHANGED <<send, unregister>>
       \/ c \notin closed /\ Push(c, Reply) /\ UNCHANGED crashed
    /\ UNCHANGED <<clients, broadcast, late, run, closed, socket, writing, history>>

\* The peer closes or no pong has come for 60 s.
PeerLeaves(c) ==
    /\ Up
    /\ c \in socket
    /\ Reads(c, "reading", "leaving")
    /\ UNCHANGED <<hub, closed, socket, send, writing, crashed, history>>

\* A read of a closed socket fails.
ReadFails(c) ==
    /\ Up
    /\ c \notin socket
    /\ Reads(c, "reading", "leaving")
    /\ UNCHANGED <<hub, closed, socket, send, writing, crashed, history>>

\* The deferred UnregisterClient.
ReadPumpEnds(c) ==
    /\ Up
    /\ Reads(c, "leaving", "gone")
    /\ Disconnect(c)
    /\ UNCHANGED <<unregister, broadcast, late, run, send, writing, crashed, history>>

Write(c) ==
    /\ Up
    /\ c \in writing /\ c \in socket
    /\ send[c] # <<>>
    /\ send' = [send EXCEPT ![c] = Tail(@)]
    /\ received' = IF Head(send[c]) = Reply THEN received
                   ELSE [received EXCEPT ![c] = Append(@, Head(send[c]))]
    /\ UNCHANGED <<hub, closed, socket, reader, writing, crashed, overflows, posted, delayed>>

\* A mistake: the write pump does not close the connection when it returns.
LeaveSocket(c) == UNCHANGED socket

CloseSocket(c) == socket' = socket \ {c}

StopWriting(c) ==
    /\ Up
    /\ c \in writing
    /\ writing' = writing \ {c}
    /\ CloseSocket(c)
    /\ UNCHANGED <<hub, closed, send, reader, crashed, history>>

\* A write to a peer that is gone or too slow fails.
WriteFails(c) == c \in socket /\ StopWriting(c)

\* The channel or the socket is closed: the next message or ping ends the pump.
WritePumpEnds(c) == c \notin socket /\ StopWriting(c)

Pumps(c) == ReplySend(c) \/ ReadFails(c) \/ ReadPumpEnds(c)

-----------------------------------------------------------------------------
Next ==
    \/ \E c \in Conn :
          \/ Register(c) \/ Kick(c)
          \/ ReplyCheck(c) \/ PeerLeaves(c) \/ Pumps(c)
          \/ Write(c) \/ WriteFails(c) \/ WritePumpEnds(c)
    \/ Post \/ OtherOverflows
    \/ \E e \in Event : LateEnters(e) \/ LateExpires(e)
    \/ RunStep \/ Unregister

\* Goroutines run; a select that finds two channels ready picks either, and does
\* not prefer events for ever.
Fairness ==
    /\ WF_vars(RunStep)
    /\ SF_vars(Unregister)
    /\ \A c \in Conn : WF_vars(Pumps(c)) /\ WF_vars(WritePumpEnds(c))

Spec == Init /\ [][Next]_vars /\ Fairness

-----------------------------------------------------------------------------
\* Run never sends on a closed channel, although it tests closed in one step and
\* sends in another: Close runs under the lock Run holds while it dispatches.  Only
\* a handler's reply, sent without that lock, can meet a channel closed meanwhile.
BroadcastNeverPanics == crashed # "broadcast"

\* No peer is sent an event twice, and events reach it in the order they were
\* posted, except that one which had to wait for the channel may come later.
EventsInOrder ==
    \A c \in Conn : \A i, j \in 1 .. Len(received[c]) :
        i < j => /\ received[c][i] # received[c][j]
                 /\ received[c][j] < received[c][i] => received[c][j] \in delayed

\* A connection whose overflow has been reported is disconnected: Run reaches the
\* request although it posts to, and waits for, the channel it empties itself.
LaggardsGo ==
    \A c \in Conn : c \in ToSet(unregister) ~> (c \notin clients \/ ~Up)

\* When one pump of a connection ends so does the other, and the hub forgets the
\* connection: no goroutine is left behind, whoever closes first.
PumpsEndTogether ==
    \A c \in Conn :
        (reader[c] # "new" /\ (c \notin writing \/ reader[c] = "gone"))
        ~> (c \notin writing /\ reader[c] = "gone" /\ c \notin clients) \/ ~Up
=============================================================================
