-------------------------- MODULE ClientConnProofs --------------------------
(***************************************************************************)
(* Theorems about the delivery side of the control plane: its types, that  *)
(* no broadcast panics, and the order in which events reach a peer.        *)
(***************************************************************************)
EXTENDS ClientConn, SequenceTheorems, TLAPS

-----------------------------------------------------------------------------
(* Types                                                                   *)

\* While it dispatches, Run has an event, the connections left and the one at.
Dispatching(e, left, at) == [op |-> "dispatch", event |-> e, left |-> left, at |-> at]

\* Of a well-typed state, a dispatch has an event, connections left and one at.
LEMMA DispatchTyped ==
    ASSUME run \in RunState, run.op = "dispatch"
    PROVE  /\ run.event \in Event /\ run.left \subseteq Conn /\ run.at \in Conn \cup {Other}
           /\ run = Dispatching(run.event, run.left, run.at)
<1>1. run \in [op : {"dispatch"}, event : Event, left : SUBSET Conn, at : Conn \cup {Other}]
  BY DEF RunState
<1> QED BY <1>1 DEF Dispatching

\* What a test or a skip leaves of it is well-typed.
LEMMA DispatchStaysTyped ==
    ASSUME run \in RunState, run.op = "dispatch", NEW c \in Conn
    PROVE  /\ Skip(c) = Dispatching(run.event, run.left \ {c}, Other)
           /\ [run EXCEPT !.at = c] = Dispatching(run.event, run.left, c)
<1>1. run = Dispatching(run.event, run.left, run.at)
  BY DispatchTyped
<1>2. Skip(c) = Dispatching(run.event, run.left \ {c}, Other)
  <2>1. [run EXCEPT !.left = run.left \ {c}] = Dispatching(run.event, run.left \ {c}, run.at)
    BY <1>1 DEF Dispatching
  <2>2. [Dispatching(run.event, run.left \ {c}, run.at) EXCEPT !.at = Other]
        = Dispatching(run.event, run.left \ {c}, Other)
    BY DEF Dispatching
  <2>3. Skip(c) = [[run EXCEPT !.left = run.left \ {c}] EXCEPT !.at = Other]
    BY Zenon DEF Skip
  <2> HIDE DEF Dispatching
  <2> QED BY <2>1, <2>2, <2>3
<1>3. [run EXCEPT !.at = c] = Dispatching(run.event, run.left, c)
  BY <1>1 DEF Dispatching
<1> QED BY <1>2, <1>3

\* A dispatch put together of such parts is well-typed.
LEMMA DispatchingType ==
    ASSUME NEW e \in Event, NEW left \in SUBSET Conn, NEW at \in Conn \cup {Other}
    PROVE  Dispatching(e, left, at) \in RunState
BY DEF Dispatching, RunState

\* No channel grows beyond its capacity.
LEMMA PublishType ==
    ASSUME TypeOK, Publish, posted < MaxEvents
    PROVE  /\ posted' \in 0 .. MaxEvents /\ late' \subseteq Event /\ delayed' \subseteq Event
           /\ broadcast' \in Seq(Event) /\ Len(broadcast') <= BroadcastBuffer
<1> USE ConnAssumption
<1>1. posted + 1 \in Event
  BY DEF TypeOK, Event
<1>2. Len(broadcast) < BroadcastBuffer => /\ Append(broadcast, posted + 1) \in Seq(Event)
                                          /\ Len(Append(broadcast, posted + 1)) <= BroadcastBuffer
  BY <1>1 DEF TypeOK
<1>3. posted + 1 \in 0 .. MaxEvents
  BY DEF TypeOK
<1> QED BY <1>1, <1>2, <1>3 DEF TypeOK, Publish

LEMMA ScheduleType ==
    ASSUME unregister \in Seq(Conn \cup {Other}), Len(unregister) <= UnregisterBuffer,
           NEW c \in Conn \cup {Other}, Schedule(c)
    PROVE  unregister' \in Seq(Conn \cup {Other}) /\ Len(unregister') <= UnregisterBuffer
BY ConnAssumption DEF Schedule

LEMMA PushType ==
    ASSUME TypeOK, NEW c \in Conn, NEW m \in Message, Push(c, m)
    PROVE  /\ send' \in [Conn -> Seq(Message)] /\ \A d \in Conn : Len(send'[d]) <= SendBuffer
           /\ unregister' \in Seq(Conn \cup {Other}) /\ Len(unregister') <= UnregisterBuffer
<1>1. CASE /\ Len(send[c]) < SendBuffer
           /\ send' = [send EXCEPT ![c] = Append(@, m)]
           /\ UNCHANGED unregister
  <2>1. Append(send[c], m) \in Seq(Message) /\ Len(Append(send[c], m)) <= SendBuffer
    BY <1>1, ConnAssumption DEF TypeOK
  <2> QED BY <1>1, <2>1 DEF TypeOK
<1>2. CASE Schedule(c) /\ UNCHANGED send
  BY <1>2, ScheduleType DEF TypeOK
<1> QED BY <1>1, <1>2 DEF Push

LEMMA DisconnectType ==
    ASSUME TypeOK, NEW c \in Conn \cup {Other}, Disconnect(c)
    PROVE  clients' \subseteq Conn /\ closed' \subseteq Conn /\ socket' \subseteq Conn
BY DEF TypeOK, Disconnect, Drop

\* Type correctness, and with it the bounds of the three kinds of channel, for any
\* connections and capacities.
THEOREM TypeCorrect == Spec => []TypeOK
<1>1. Init => TypeOK
  BY ConnAssumption DEF Init, TypeOK, Selecting, RunState
<1>2. TypeOK /\ [Next]_vars => TypeOK'
  <2> SUFFICES ASSUME TypeOK, [Next]_vars PROVE TypeOK'
    OBVIOUS
  <2> USE ConnAssumption
  <2>1. CASE UNCHANGED vars
    BY <2>1 DEF vars, hub, pumps, history, TypeOK
  <2>2. ASSUME NEW c \in Conn, Register(c) PROVE TypeOK'
    BY <2>2 DEF Register, history, TypeOK
  <2>3. ASSUME NEW c \in Conn, Kick(c) PROVE TypeOK'
    BY <2>3 DEF Kick, Drop, history, TypeOK
  <2>4. ASSUME NEW c \in Conn, ReplyCheck(c) \/ PeerLeaves(c) \/ ReadFails(c) PROVE TypeOK'
    BY <2>4 DEF ReplyCheck, PeerLeaves, ReadFails, Reads, hub, history, TypeOK
  <2>5. ASSUME NEW c \in Conn, WriteFails(c) \/ WritePumpEnds(c) PROVE TypeOK'
    BY <2>5 DEF WriteFails, WritePumpEnds, StopWriting, CloseSocket, hub, history, TypeOK
  <2>6. ASSUME NEW c \in Conn, Write(c) PROVE TypeOK'
    <3>1. Head(send[c]) \in Message /\ Tail(send[c]) \in Seq(Message)
          /\ Len(Tail(send[c])) <= SendBuffer
      BY <2>6 DEF Write, TypeOK
    <3>2. send' \in [Conn -> Seq(Message)] /\ \A d \in Conn : Len(send'[d]) <= SendBuffer
      BY <2>6, <3>1 DEF Write, TypeOK
    <3>3. received' \in [Conn -> Seq(Event)]
      <4>1. CASE Head(send[c]) = Reply
        BY <2>6, <4>1 DEF Write, TypeOK
      <4>2. CASE Head(send[c]) # Reply
        <5>1. Head(send[c]) \in Event
          BY <3>1, <4>2 DEF Message
        <5>2. Append(received[c], Head(send[c])) \in Seq(Event)
          BY <5>1 DEF TypeOK
        <5> QED BY <2>6, <4>2, <5>2 DEF Write, TypeOK
      <4> QED BY <4>1, <4>2
    <3> QED BY <2>6, <3>2, <3>3 DEF Write, hub, TypeOK
  <2>7. ASSUME NEW c \in Conn, ReplySend(c) PROVE TypeOK'
    <3>1. /\ send' \in [Conn -> Seq(Message)] /\ \A d \in Conn : Len(send'[d]) <= SendBuffer
          /\ unregister' \in Seq(Conn \cup {Other}) /\ Len(unregister') <= UnregisterBuffer
          /\ crashed' \in {"no", "reply", "broadcast"}
      BY <2>7, PushType DEF ReplySend, Message, TypeOK
    <3> QED BY <2>7, <3>1 DEF ReplySend, Reads, history, TypeOK
  <2>8. ASSUME NEW c \in Conn, ReadPumpEnds(c) PROVE TypeOK'
    BY <2>8, DisconnectType DEF ReadPumpEnds, Reads, history, TypeOK
  <2>9. CASE Post
    BY <2>9, PublishType DEF Post, pumps, TypeOK
  <2>10. ASSUME NEW e \in Event, LateEnters(e) \/ LateExpires(e) PROVE TypeOK'
    <3>1. Len(broadcast) < BroadcastBuffer => /\ Append(broadcast, e) \in Seq(Event)
                                              /\ Len(Append(broadcast, e)) <= BroadcastBuffer
      BY <2>10 DEF TypeOK
    <3> QED BY <2>10, <3>1 DEF LateEnters, LateExpires, pumps, history, TypeOK
  <2>11. CASE OtherOverflows
    <3>1. unregister' \in Seq(Conn \cup {Other}) /\ Len(unregister') <= UnregisterBuffer
      BY <2>11, ScheduleType DEF OtherOverflows, TypeOK
    <3> QED BY <2>11, <3>1 DEF OtherOverflows, pumps, TypeOK
  <2>12. CASE Take
    <3>1. run' = Dispatching(Head(broadcast), clients, Other)
      BY <2>12 DEF Take, Dispatching
    <3>2. Head(broadcast) \in Event /\ broadcast' \in Seq(Event)
          /\ Len(broadcast') <= BroadcastBuffer
      BY <2>12 DEF Take, TypeOK
    <3>3. run' \in RunState
      BY <3>1, <3>2, DispatchingType DEF TypeOK
    <3> QED BY <2>12, <3>2, <3>3 DEF Take, pumps, history, TypeOK
  <2>13. ASSUME NEW c \in Conn, DispatchCheck(c) PROVE TypeOK'
    <3>1. run' \in RunState
      <4>1. run.op = "dispatch" /\ run \in RunState
        BY <2>13 DEF DispatchCheck, TypeOK
      <4>2. run' = Dispatching(run.event, run.left \ {c}, Other)
            \/ run' = Dispatching(run.event, run.left, c)
        BY <2>13, <4>1, DispatchStaysTyped DEF DispatchCheck
      <4> QED BY <4>1, <4>2, DispatchTyped, DispatchingType
    <3> QED BY <2>13, <3>1 DEF DispatchCheck, pumps, history, TypeOK
  <2>14. ASSUME NEW c \in Conn, DispatchSend(c) PROVE TypeOK'
    <3>1. run' \in RunState /\ run.event \in Message
      <4>1. run.op = "dispatch" /\ run \in RunState
        BY <2>14 DEF DispatchSend, TypeOK
      <4>2. run' = Dispatching(run.event, run.left \ {c}, Other) \/ run' = run
        BY <2>14, <4>1, DispatchStaysTyped DEF DispatchSend
      <4> QED BY <4>1, <4>2, DispatchTyped, DispatchingType DEF Message
    <3>2. /\ send' \in [Conn -> Seq(Message)] /\ \A d \in Conn : Len(send'[d]) <= SendBuffer
          /\ unregister' \in Seq(Conn \cup {Other}) /\ Len(unregister') <= UnregisterBuffer
          /\ crashed' \in {"no", "reply", "broadcast"}
      BY <2>14, <3>1, PushType DEF DispatchSend, TypeOK
    <3> QED BY <2>14, <3>1, <3>2 DEF DispatchSend, history, TypeOK
  <2>15. CASE Dispatched
    BY <2>15 DEF Dispatched, Selecting, RunState, pumps, history, TypeOK
  <2>16. CASE PostDeparture
    <3>1. run' \in RunState
      BY <2>16 DEF PostDeparture, Selecting, RunState
    <3> QED BY <2>16, <3>1, PublishType DEF PostDeparture, pumps, TypeOK
  <2>17. CASE Unregister
    <3>1. Head(unregister) \in Conn \cup {Other} /\ unregister' \in Seq(Conn \cup {Other})
          /\ Len(unregister') <= UnregisterBuffer
      BY <2>17 DEF Unregister, TypeOK
    <3>2. run' \in RunState
      BY <2>17 DEF Unregister, RunState, TypeOK
    <3> QED BY <2>17, <3>1, <3>2, DisconnectType DEF Unregister, history, TypeOK
  <2> QED BY <2>1, <2>2, <2>3, <2>4, <2>5, <2>6, <2>7, <2>8, <2>9, <2>10, <2>11, <2>12, <2>13,
             <2>14, <2>15, <2>16, <2>17
          DEF Next, Pumps, RunStep, Dispatch
<1> QED BY <1>1, <1>2, PTL DEF Spec

-----------------------------------------------------------------------------
(* No broadcast meets a closed channel                                     *)

\* Run is not about to send to a connection whose channel is closed.
SendsToOpen == run.op = "dispatch" => run.at \notin closed

\* A dispatch at an open connection, or at none, is one that may go on.
LEMMA DispatchingAt ==
    ASSUME NEW e, NEW left, NEW at, run' = Dispatching(e, left, at), at \notin closed'
    PROVE  SendsToOpen'
BY DEF SendsToOpen, Dispatching

\* handleClientDisconnect and handleKickMember call Close under the hub's write
\* lock, and dispatchBroadcast sends under its read lock (hub.go:133-171 and
\* 215-226, handler.go:837): a broadcast never meets a channel that was closed
\* between the test and the send.
THEOREM BroadcastNeverPanicsHolds == Spec => []BroadcastNeverPanics
<1> DEFINE Inv == SendsToOpen /\ BroadcastNeverPanics
<1>1. Init => Inv
  BY DEF Init, SendsToOpen, BroadcastNeverPanics, Selecting
<1>2. Inv /\ TypeOK /\ [Next]_vars => Inv'
  <2> SUFFICES ASSUME Inv, TypeOK, [Next]_vars
               PROVE  Inv'
    OBVIOUS
  <2> USE ConnAssumption DEF SendsToOpen, BroadcastNeverPanics
  <2>1. CASE UNCHANGED vars
    BY <2>1 DEF vars, hub
  <2>2. ASSUME NEW c \in Conn, Register(c) \/ ReplyCheck(c) \/ PeerLeaves(c) \/ ReadFails(c)
                               \/ Write(c) \/ WriteFails(c) \/ WritePumpEnds(c)
        PROVE  Inv'
    BY <2>2 DEF Register, ReplyCheck, PeerLeaves, ReadFails, Write, WriteFails,
                WritePumpEnds, StopWriting, hub
  <2>3. ASSUME NEW c \in Conn, Kick(c) \/ ReadPumpEnds(c)
        PROVE  Inv'
    BY <2>3 DEF Kick, ReadPumpEnds, Disconnect, Drop, Unlocked
  <2>4. ASSUME NEW c \in Conn, ReplySend(c)
        PROVE  Inv'
    BY <2>4 DEF ReplySend
  <2>5. CASE Post \/ OtherOverflows \/ \E e \in Event : LateEnters(e) \/ LateExpires(e)
    BY <2>5 DEF Post, OtherOverflows, LateEnters, LateExpires, pumps
  <2>6. CASE Take
    <3>1. run' = Dispatching(Head(broadcast), clients, Other) /\ Other \notin closed'
      BY <2>6 DEF Take, Dispatching, TypeOK
    <3> QED BY <2>6, <3>1, DispatchingAt DEF Take
  <2>7. ASSUME NEW c \in Conn, DispatchCheck(c)
        PROVE  Inv'
    <3>1. run.op = "dispatch" /\ run \in RunState /\ Other \notin closed
      BY <2>7 DEF DispatchCheck, TypeOK
    <3>2. \/ run' = Dispatching(run.event, run.left \ {c}, Other)
          \/ run' = Dispatching(run.event, run.left, c) /\ c \notin closed
      BY <2>7, <3>1, DispatchStaysTyped DEF DispatchCheck
    <3> QED BY <2>7, <3>1, <3>2, DispatchingAt DEF DispatchCheck
  <2>8. ASSUME NEW c \in Conn, DispatchSend(c)
        PROVE  Inv'
    <3>1. run.op = "dispatch" /\ run \in RunState /\ Other \notin closed
      BY <2>8 DEF DispatchSend, TypeOK
    <3>2. c \notin closed /\ run' = Skip(c) /\ UNCHANGED <<closed, crashed>>
      BY <2>8 DEF DispatchSend
    <3>3. run' = Dispatching(run.event, run.left \ {c}, Other)
      BY <3>1, <3>2, DispatchStaysTyped
    <3> QED BY <3>1, <3>2, <3>3, DispatchingAt
  <2>9. CASE Dispatched \/ PostDeparture
    BY <2>9 DEF Dispatched, PostDeparture, Selecting, pumps
  <2>10. CASE Unregister
    BY <2>10 DEF Unregister, Disconnect, Drop, Unlocked
  <2> QED BY <2>1, <2>2, <2>3, <2>4, <2>5, <2>6, <2>7, <2>8, <2>9, <2>10
          DEF Next, Pumps, RunStep, Dispatch
<1>3. Inv => BroadcastNeverPanics
  OBVIOUS
<1> QED BY TypeCorrect, <1>1, <1>2, <1>3, PTL DEF Spec

-----------------------------------------------------------------------------
(* The order of events                                                     *)

\* Event f may reach a peer after event e, when the events in D are late.
Follows(e, f, D) == e # f /\ (f < e => f \in D)

Before(A, B, D) == \A e \in A, f \in B : Follows(e, f, D)

\* The events in a sequence of messages.
EventsOf(s) == {s[i] : i \in DOMAIN s} \ {Reply}

\* They are in an order in which they may reach a peer.
Ordered(s, D) ==
    \A i, j \in DOMAIN s : i < j /\ s[i] # Reply /\ s[j] # Reply => Follows(s[i], s[j], D)

\* What has been sent to the peer of c, or is in its channel.
SentTo(c) == EventsOf(received[c]) \cup EventsOf(send[c])

Dispatches == run.op = "dispatch"

\* The events that have been posted and do not wait.
Entered == 1 .. posted \ late

ConnOrder(c) ==
    /\ Ordered(received[c], delayed) /\ Ordered(send[c], delayed)
    /\ Before(EventsOf(received[c]), EventsOf(send[c]), delayed)
    /\ Before(SentTo(c), EventsOf(broadcast), delayed)
    /\ SentTo(c) \subseteq Entered
    /\ Dispatches /\ c \in run.left => Before(SentTo(c), {run.event}, delayed)

HubOrder ==
    /\ Ordered(broadcast, delayed)
    /\ EventsOf(broadcast) \subseteq Entered
    /\ late \subseteq delayed \cap (1 .. posted)
    /\ Dispatches => /\ run.event \in Entered
                     /\ run.at \in run.left \cup {Other}
                     /\ Before({run.event}, EventsOf(broadcast), delayed)

OrderInv == TypeOK /\ HubOrder /\ \A c \in Conn : ConnOrder(c)

\* An event that may follow all others keeps the order at the end of a sequence.
LEMMA AppendOrdered ==
    ASSUME NEW s \in Seq(Int), NEW m \in Int, NEW D, Ordered(s, D),
           m # Reply => Before(EventsOf(s), {m}, D)
    PROVE  Ordered(Append(s, m), D) /\ EventsOf(Append(s, m)) = EventsOf(s) \cup ({m} \ {Reply})
<1> DEFINE t == Append(s, m)
<1>1. /\ t \in Seq(Int) /\ DOMAIN t = 1 .. (Len(s) + 1) /\ DOMAIN s = 1 .. Len(s) /\ Len(s) \in Nat
      /\ \A i \in 1 .. Len(s) : t[i] = s[i]
      /\ t[Len(s) + 1] = m
  OBVIOUS
<1> HIDE DEF t
<1>2. EventsOf(t) = EventsOf(s) \cup ({m} \ {Reply})
  <2>1. {t[i] : i \in DOMAIN t} = {s[i] : i \in DOMAIN s} \cup {m}
    BY <1>1
  <2> QED BY <2>1 DEF EventsOf
<1>3. Ordered(t, D)
  <2> SUFFICES ASSUME NEW i \in DOMAIN t, NEW j \in DOMAIN t, i < j, t[i] # Reply, t[j] # Reply
               PROVE  Follows(t[i], t[j], D)
    BY DEF Ordered
  <2>1. i \in DOMAIN s /\ t[i] = s[i]
    BY <1>1
  <2>2. CASE j \in DOMAIN s
    BY <1>1, <2>1, <2>2 DEF Ordered
  <2>3. CASE j = Len(s) + 1
    <3>1. t[j] = m /\ s[i] \in EventsOf(s)
      BY <1>1, <2>1, <2>3 DEF EventsOf
    <3> QED BY <2>1, <3>1 DEF Before
  <2> QED BY <1>1, <2>2, <2>3
<1> QED BY <1>2, <1>3 DEF t

\* The first of a sequence may come before all that is left of it.
LEMMA TailOrdered ==
    ASSUME NEW s \in Seq(Int), s # <<>>, NEW D, Ordered(s, D)
    PROVE  /\ Ordered(Tail(s), D) /\ EventsOf(Tail(s)) \subseteq EventsOf(s)
           /\ Head(s) # Reply => /\ Head(s) \in EventsOf(s)
                                 /\ Before({Head(s)}, EventsOf(Tail(s)), D)
<1> DEFINE t == Tail(s)
<1>1. /\ t \in Seq(Int) /\ DOMAIN t = 1 .. (Len(s) - 1) /\ DOMAIN s = 1 .. Len(s)
      /\ Len(s) \in Nat \ {0}
      /\ \A i \in DOMAIN t : i + 1 \in DOMAIN s /\ t[i] = s[i + 1]
      /\ Head(s) = s[1] /\ 1 \in DOMAIN s
  OBVIOUS
<1> HIDE DEF t
<1>2. EventsOf(t) \subseteq EventsOf(s)
  BY <1>1 DEF EventsOf
<1>3. Ordered(t, D)
  BY <1>1 DEF Ordered
<1>4. ASSUME Head(s) # Reply
      PROVE  Head(s) \in EventsOf(s) /\ Before({Head(s)}, EventsOf(t), D)
  <2>1. Head(s) \in EventsOf(s)
    BY <1>1, <1>4 DEF EventsOf
  <2>2. ASSUME NEW f \in EventsOf(t)
        PROVE  Follows(Head(s), f, D)
    <3>1. PICK i \in DOMAIN t : f = t[i] /\ f # Reply
      BY DEF EventsOf
    <3>2. 1 \in DOMAIN s /\ i + 1 \in DOMAIN s /\ 1 < i + 1 /\ s[1] = Head(s) /\ s[i + 1] = f
      BY <1>1, <3>1
    <3>3. Follows(s[1], s[i + 1], D)
      BY <1>4, <3>1, <3>2 DEF Ordered
    <3> QED BY <3>2, <3>3
  <2> QED BY <2>1, <2>2 DEF Before
<1> QED BY <1>2, <1>3, <1>4 DEF t

\* More late events keep an order.
LEMMA OrderedGrows ==
    ASSUME NEW s, NEW D, NEW E, D \subseteq E, Ordered(s, D)
    PROVE  Ordered(s, E)
BY DEF Ordered, Follows

LEMMA BeforeGrows ==
    ASSUME NEW A, NEW B, NEW D, NEW E, D \subseteq E, Before(A, B, D)
    PROVE  Before(A, B, E)
BY DEF Before, Follows

\* What the order needs of the types.
LEMMA TypedOrder ==
    ASSUME TypeOK
    PROVE  /\ broadcast \in Seq(Int) /\ posted \in Nat
           /\ \A c \in Conn : send[c] \in Seq(Int) /\ received[c] \in Seq(Int)
           /\ Message \subseteq Int /\ Event \subseteq Int \ {Reply}
<1>1. Message \subseteq Int /\ Event \subseteq Int \ {Reply}
  BY ConnAssumption DEF Message, Event, Reply
<1>2. ASSUME NEW S \in SUBSET Int, NEW s \in Seq(S)
      PROVE  s \in Seq(Int)
  BY SeqMonotonic
<1> QED BY <1>1, <1>2, ConnAssumption DEF TypeOK

\* What the order is about.
orderVars == <<send, received, broadcast, late, posted, delayed>>

\* A step that leaves it alone, and Run where it is or back in its select.
LEMMA OrderKept ==
    ASSUME HubOrder, \A c \in Conn : ConnOrder(c), UNCHANGED orderVars,
           run' = run \/ ~Dispatches'
    PROVE  HubOrder' /\ \A c \in Conn : ConnOrder(c)'
BY DEF HubOrder, ConnOrder, SentTo, Entered, Dispatches, orderVars

\* An event is posted: it is newer than all the others, and late or at the end.
LEMMA PublishOrder ==
    ASSUME OrderInv, Publish, UNCHANGED <<send, received>>, run' = run \/ ~Dispatches'
    PROVE  HubOrder' /\ \A c \in Conn : ConnOrder(c)'
<1> USE DEF OrderInv
<1>1. posted \in Nat /\ posted' = posted + 1 /\ broadcast \in Seq(Int)
  BY TypedOrder DEF Publish
<1>2. delayed \subseteq delayed'
  BY DEF Publish
<1>3. ASSUME NEW A, A \subseteq Entered
      PROVE  Before(A, {posted + 1}, delayed') /\ A \subseteq Entered'
  BY <1>1, <1>3 DEF Before, Follows, Entered, Publish
<1>4. Ordered(broadcast', delayed') /\ EventsOf(broadcast') \subseteq EventsOf(broadcast) \cup {posted + 1}
  <2>1. Ordered(broadcast, delayed')
    BY <1>2, OrderedGrows DEF HubOrder
  <2>2. CASE broadcast' = broadcast
    BY <2>1, <2>2
  <2>3. CASE broadcast' = Append(broadcast, posted + 1)
    <3>1. Before(EventsOf(broadcast), {posted + 1}, delayed')
      <4>1. EventsOf(broadcast) \subseteq Entered
        BY DEF HubOrder
      <4> QED BY Zenon, <1>3, <4>1
    <3>2. /\ Ordered(Append(broadcast, posted + 1), delayed')
          /\ EventsOf(Append(broadcast, posted + 1))
             = EventsOf(broadcast) \cup ({posted + 1} \ {Reply})
      <4>1. posted + 1 \in Int
        BY <1>1
      <4> QED BY Zenon, <1>1, <2>1, <3>1, <4>1, AppendOrdered
    <3> QED BY <2>3, <3>2
  <2> QED BY <2>2, <2>3 DEF Publish
<1>5. EventsOf(broadcast') \subseteq Entered' /\ late' \subseteq delayed' \cap (1 .. posted')
  BY <1>1, <1>3, <1>4 DEF HubOrder, Entered, Publish
<1>6. ASSUME NEW A, A \subseteq Entered, Before(A, EventsOf(broadcast), delayed)
      PROVE  Before(A, EventsOf(broadcast'), delayed')
  <2>1. Before(A, EventsOf(broadcast), delayed') /\ Before(A, {posted + 1}, delayed')
    BY <1>2, <1>3, <1>6, BeforeGrows
  <2> QED BY <1>4, <2>1 DEF Before
<1>7. HubOrder'
  <2>1. CASE Dispatches'
    <3>1. run' = run /\ Dispatches /\ {run.event} \subseteq Entered
          /\ run.at \in run.left \cup {Other}
          /\ Before({run.event}, EventsOf(broadcast), delayed)
      BY <2>1 DEF Dispatches, HubOrder
    <3>2. Before({run.event}, EventsOf(broadcast'), delayed') /\ run.event \in Entered'
      BY <1>3, <1>6, <3>1
    <3> QED BY <1>4, <1>5, <3>1, <3>2 DEF HubOrder
  <2>2. CASE ~Dispatches'
    BY <1>4, <1>5, <2>2 DEF HubOrder
  <2> QED BY <2>1, <2>2
<1>8. ASSUME NEW c \in Conn
      PROVE  ConnOrder(c)'
  <2>1. SentTo(c)' = SentTo(c) /\ SentTo(c) \subseteq Entered /\ SentTo(c) \subseteq Entered'
    BY <1>3 DEF SentTo, ConnOrder
  <2>2. Before(SentTo(c)', EventsOf(broadcast'), delayed')
    BY <1>6, <2>1 DEF ConnOrder
  <2>3. /\ Ordered(received[c], delayed') /\ Ordered(send[c], delayed')
        /\ Before(EventsOf(received[c]), EventsOf(send[c]), delayed')
    BY <1>2, OrderedGrows, BeforeGrows DEF ConnOrder
  <2>4. ASSUME Dispatches', c \in run'.left
        PROVE  Before(SentTo(c)', {run'.event}, delayed')
    <3>1. run' = run /\ Dispatches
      BY <2>4 DEF Dispatches
    <3>2. Before(SentTo(c), {run.event}, delayed)
      BY <2>4, <3>1 DEF ConnOrder
    <3> QED BY <1>2, <2>1, <3>1, <3>2, BeforeGrows
  <2> QED BY <2>1, <2>2, <2>3, <2>4 DEF ConnOrder
<1> QED BY <1>7, <1>8

\* An event that waited enters at the end: it may come after any other.
LEMMA LateOrder ==
    ASSUME OrderInv, NEW e \in Event, LateEnters(e)
    PROVE  HubOrder' /\ \A c \in Conn : ConnOrder(c)'
<1> USE DEF OrderInv
<1>1. /\ broadcast \in Seq(Int) /\ e \in Int \ {Reply}
      /\ e \in late /\ late' = late \ {e} /\ broadcast' = Append(broadcast, e)
      /\ UNCHANGED <<send, received, run, delayed, posted>>
  BY TypedOrder DEF LateEnters, pumps, history
<1>2. e \in delayed /\ e \in Entered' /\ e \notin Entered /\ Entered \subseteq Entered'
  BY <1>1 DEF HubOrder, Entered
<1>3. ASSUME NEW A, A \subseteq Entered
      PROVE  Before(A, {e}, delayed)
  BY <1>2, <1>3 DEF Before, Follows
<1>4. Ordered(broadcast', delayed) /\ EventsOf(broadcast') \subseteq EventsOf(broadcast) \cup {e}
  BY <1>1, <1>3, AppendOrdered DEF HubOrder
<1>5. ASSUME NEW A, A \subseteq Entered, Before(A, EventsOf(broadcast), delayed)
      PROVE  Before(A, EventsOf(broadcast'), delayed)
  BY <1>3, <1>4, <1>5 DEF Before
<1>6. HubOrder'
  <2>1. Ordered(broadcast', delayed') /\ EventsOf(broadcast') \subseteq Entered'
        /\ late' \subseteq delayed' \cap (1 .. posted')
    BY <1>1, <1>2, <1>4 DEF HubOrder
  <2>2. ASSUME Dispatches'
        PROVE  /\ run'.event \in Entered' /\ run'.at \in run'.left \cup {Other}
               /\ Before({run'.event}, EventsOf(broadcast'), delayed')
    <3>1. Dispatches /\ {run.event} \subseteq Entered /\ run.at \in run.left \cup {Other}
          /\ Before({run.event}, EventsOf(broadcast), delayed)
      BY <1>1, <2>2 DEF Dispatches, HubOrder
    <3> QED BY <1>1, <1>2, <1>5, <3>1
  <2> QED BY <2>1, <2>2 DEF HubOrder
<1>7. ASSUME NEW c \in Conn
      PROVE  ConnOrder(c)'
  <2>1. SentTo(c)' = SentTo(c) /\ SentTo(c) \subseteq Entered /\ SentTo(c) \subseteq Entered'
    BY <1>1, <1>2 DEF SentTo, ConnOrder
  <2>2. Before(SentTo(c)', EventsOf(broadcast'), delayed')
    BY <1>1, <1>5, <2>1 DEF ConnOrder
  <2> QED BY <1>1, <2>1, <2>2 DEF ConnOrder, Dispatches
<1> QED BY <1>6, <1>7

\* An event that expires was in no sequence.
LEMMA ExpiresOrder ==
    ASSUME OrderInv, NEW e \in Event, LateExpires(e)
    PROVE  HubOrder' /\ \A c \in Conn : ConnOrder(c)'
<1>1. late' \subseteq late /\ Entered \subseteq Entered'
      /\ UNCHANGED <<send, received, broadcast, run, delayed, posted>>
  BY DEF LateExpires, pumps, history, Entered
<1>2. HubOrder'
  BY <1>1 DEF OrderInv, HubOrder, Dispatches
<1>3. ASSUME NEW c \in Conn
      PROVE  ConnOrder(c)'
  BY <1>1 DEF OrderInv, ConnOrder, Dispatches, SentTo
<1> QED BY <1>2, <1>3

\* Run takes the first event: it may precede those it leaves.
LEMMA TakeOrder ==
    ASSUME OrderInv, Take
    PROVE  HubOrder' /\ \A c \in Conn : ConnOrder(c)'
<1> USE DEF OrderInv
<1> DEFINE e == Head(broadcast)
<1>1. /\ broadcast \in Seq(Int) /\ broadcast # <<>> /\ broadcast' = Tail(broadcast)
      /\ UNCHANGED <<send, received, late, delayed, posted>>
      /\ run' = Dispatching(e, clients, Other)
  BY TypedOrder DEF Take, pumps, history, Dispatching
<1>2. e # Reply
  BY TypedOrder, <1>1 DEF TypeOK
<1>3. /\ Ordered(broadcast', delayed) /\ EventsOf(broadcast') \subseteq EventsOf(broadcast)
      /\ e \in EventsOf(broadcast) /\ Before({e}, EventsOf(broadcast'), delayed)
  BY <1>1, <1>2, TailOrdered DEF HubOrder
<1>4. run'.event = e /\ run'.at = Other /\ Entered' = Entered
  BY <1>1 DEF Dispatching, Entered
<1> HIDE DEF e
<1>5. HubOrder'
  BY <1>1, <1>3, <1>4 DEF HubOrder
<1>6. ASSUME NEW c \in Conn
      PROVE  ConnOrder(c)'
  <2>1. SentTo(c)' = SentTo(c)
    BY <1>1 DEF SentTo
  <2>2. Before(SentTo(c), EventsOf(broadcast'), delayed) /\ Before(SentTo(c), {e}, delayed)
    BY <1>3 DEF ConnOrder, Before
  <2> QED BY <1>1, <1>4, <2>1, <2>2 DEF ConnOrder
<1> QED BY <1>5, <1>6

\* The connection Run tests or skips is one that is left.
LEMMA CheckOrder ==
    ASSUME OrderInv, NEW c \in Conn, DispatchCheck(c)
    PROVE  HubOrder' /\ \A d \in Conn : ConnOrder(d)'
<1> USE DEF OrderInv
<1>1. /\ Dispatches /\ c \in run.left /\ run \in RunState
      /\ UNCHANGED orderVars
  BY DEF DispatchCheck, Dispatches, orderVars, pumps, history, TypeOK
<1>2. \/ run' = Dispatching(run.event, run.left \ {c}, Other)
      \/ run' = Dispatching(run.event, run.left, c)
  BY <1>1, DispatchStaysTyped DEF DispatchCheck, Dispatches
<1>3. /\ run'.event = run.event /\ run'.left \subseteq run.left
      /\ run'.at \in run'.left \cup {Other}
  BY <1>1, <1>2 DEF Dispatching
<1>4. HubOrder'
  BY <1>1, <1>3 DEF HubOrder, Entered, orderVars
<1>5. ASSUME NEW d \in Conn
      PROVE  ConnOrder(d)'
  BY <1>1, <1>3 DEF ConnOrder, SentTo, Entered, orderVars
<1> QED BY <1>4, <1>5

\* A message put in the channel of c, an event that may follow what c has been sent
\* and precede what is in the hub's channel, or a reply.
LEMMA PushOrder ==
    ASSUME OrderInv, NEW c \in Conn, NEW m \in Message, Push(c, m),
           UNCHANGED <<received, broadcast, late, posted, delayed>>,
           m # Reply => /\ m \in Entered /\ Before(SentTo(c), {m}, delayed)
                        /\ Before({m}, EventsOf(broadcast), delayed)
    PROVE  /\ Ordered(send'[c], delayed')
           /\ Before(EventsOf(received'[c]), EventsOf(send'[c]), delayed')
           /\ Before(SentTo(c)', EventsOf(broadcast'), delayed')
           /\ SentTo(c)' \subseteq Entered'
           /\ SentTo(c)' \subseteq SentTo(c) \cup ({m} \ {Reply})
           /\ \A d \in Conn \ {c} : send'[d] = send[d]
<1> USE DEF OrderInv
<1>1. send \in [Conn -> Seq(Message)] /\ send[c] \in Seq(Int) /\ m \in Int
  BY TypedOrder DEF TypeOK
<1>2. Ordered(send[c], delayed) /\ Before(EventsOf(received[c]), EventsOf(send[c]), delayed)
      /\ Before(SentTo(c), EventsOf(broadcast), delayed) /\ SentTo(c) \subseteq Entered
  BY DEF ConnOrder
<1>3. Entered' = Entered
  BY DEF Entered
<1>4. CASE send' = send
  BY <1>2, <1>3, <1>4 DEF SentTo
<1>5. CASE send' = [send EXCEPT ![c] = Append(send[c], m)]
  <2>1. send'[c] = Append(send[c], m) /\ \A d \in Conn \ {c} : send'[d] = send[d]
    BY <1>1, <1>5
  <2>2. m # Reply => Before(EventsOf(send[c]), {m}, delayed)
                     /\ Before(EventsOf(received[c]), {m}, delayed)
    BY DEF SentTo, Before
  <2>3. /\ Ordered(send'[c], delayed)
        /\ EventsOf(send'[c]) = EventsOf(send[c]) \cup ({m} \ {Reply})
    <3>1. /\ Ordered(Append(send[c], m), delayed)
          /\ EventsOf(Append(send[c], m)) = EventsOf(send[c]) \cup ({m} \ {Reply})
      BY Zenon, <1>1, <1>2, <2>2, AppendOrdered
    <3> QED BY <2>1, <3>1
  <2>4. SentTo(c)' = SentTo(c) \cup ({m} \ {Reply})
    BY <2>3 DEF SentTo
  <2>5. Before(EventsOf(received[c]), EventsOf(send'[c]), delayed)
    BY <1>2, <2>2, <2>3 DEF Before
  <2>6. Before(SentTo(c)', EventsOf(broadcast), delayed)
    BY <1>2, <2>4 DEF Before
  <2> QED BY <1>2, <1>3, <2>1, <2>3, <2>4, <2>5, <2>6
<1> QED BY <1>4, <1>5 DEF Push

\* Run has tested c, which is therefore left; its event precedes those that wait.
LEMMA SendOrder ==
    ASSUME OrderInv, NEW c \in Conn, DispatchSend(c)
    PROVE  HubOrder' /\ \A d \in Conn : ConnOrder(d)'
<1> USE DEF OrderInv
<1>1. CASE c \in closed
  BY <1>1, OrderKept DEF DispatchSend, orderVars, history
<1>2. CASE c \notin closed
  <2>1. /\ Dispatches /\ run.at = c /\ run \in RunState
        /\ Push(c, run.event) /\ run' = Skip(c)
        /\ UNCHANGED <<received, broadcast, late, posted, delayed>>
    BY <1>2 DEF DispatchSend, Dispatches, history, TypeOK
  <2>2. c \in run.left /\ run.event \in Message \ {Reply}
    BY <2>1, DispatchTyped, TypedOrder, ConnAssumption DEF HubOrder, Dispatches, Message
  <2>3. run' = Dispatching(run.event, run.left \ {c}, Other)
    BY <2>1, DispatchStaysTyped DEF Dispatches
  <2>4. run'.event = run.event /\ run'.left = run.left \ {c} /\ run'.at = Other
    BY <2>3 DEF Dispatching
  <2>5. /\ run.event \in Entered /\ Before(SentTo(c), {run.event}, delayed)
        /\ Before({run.event}, EventsOf(broadcast), delayed)
    BY <2>1, <2>2 DEF HubOrder, ConnOrder
  <2>6. HubOrder'
    BY <2>1, <2>4 DEF HubOrder, Entered
  <2>7. /\ Ordered(send'[c], delayed')
        /\ Before(EventsOf(received'[c]), EventsOf(send'[c]), delayed')
        /\ Before(SentTo(c)', EventsOf(broadcast'), delayed')
        /\ SentTo(c)' \subseteq Entered'
        /\ \A d \in Conn \ {c} : send'[d] = send[d]
    BY <2>1, <2>2, <2>5, PushOrder
  <2>8. ConnOrder(c)'
    BY <2>1, <2>4, <2>7 DEF ConnOrder
  <2>9. ASSUME NEW d \in Conn \ {c}
        PROVE  ConnOrder(d)'
    BY <2>1, <2>4, <2>7 DEF ConnOrder, SentTo, Entered
  <2> QED BY <2>6, <2>8, <2>9
<1> QED BY <1>1, <1>2

\* A reply is no event.
LEMMA ReplyOrder ==
    ASSUME OrderInv, NEW c \in Conn, ReplySend(c)
    PROVE  HubOrder' /\ \A d \in Conn : ConnOrder(d)'
<1> USE DEF OrderInv
<1>1. CASE c \in closed
  BY <1>1, OrderKept DEF ReplySend, orderVars, history
<1>2. CASE c \notin closed
  <2>1. /\ Push(c, Reply) /\ Reply \in Message
        /\ UNCHANGED <<received, broadcast, late, posted, delayed, run>>
    BY <1>2 DEF ReplySend, history, Message
  <2>2. HubOrder'
    BY <2>1 DEF HubOrder, Entered, Dispatches
  <2>3. /\ Ordered(send'[c], delayed')
        /\ Before(EventsOf(received'[c]), EventsOf(send'[c]), delayed')
        /\ Before(SentTo(c)', EventsOf(broadcast'), delayed')
        /\ SentTo(c)' \subseteq Entered' /\ SentTo(c)' \subseteq SentTo(c)
        /\ \A d \in Conn \ {c} : send'[d] = send[d]
    BY <2>1, PushOrder
  <2>4. Dispatches' /\ c \in run'.left => Before(SentTo(c)', {run'.event}, delayed')
    BY <2>1, <2>3 DEF ConnOrder, Before, Dispatches
  <2>5. ConnOrder(c)'
    BY <2>1, <2>3, <2>4 DEF ConnOrder
  <2>6. ASSUME NEW d \in Conn \ {c}
        PROVE  ConnOrder(d)'
    BY <2>1, <2>3 DEF ConnOrder, SentTo, Entered, Dispatches
  <2> QED BY <2>2, <2>5, <2>6
<1> QED BY <1>1, <1>2

\* The write pump moves the first message of the channel to the peer.
LEMMA WriteOrder ==
    ASSUME OrderInv, NEW c \in Conn, Write(c)
    PROVE  HubOrder' /\ \A d \in Conn : ConnOrder(d)'
<1> USE DEF OrderInv
<1> DEFINE m == Head(send[c])
<1>1. /\ send[c] \in Seq(Int) /\ received[c] \in Seq(Int) /\ send[c] # <<>>
      /\ send'[c] = Tail(send[c]) /\ \A d \in Conn \ {c} : send'[d] = send[d]
      /\ m \in Int
      /\ UNCHANGED <<broadcast, late, posted, delayed, run>>
  BY TypedOrder DEF Write, TypeOK, hub
<1>2. /\ m = Reply => received' = received
      /\ m # Reply => received' = [received EXCEPT ![c] = Append(received[c], m)]
  BY DEF Write
<1>3. /\ Ordered(send'[c], delayed) /\ EventsOf(send'[c]) \subseteq EventsOf(send[c])
      /\ m # Reply => m \in EventsOf(send[c]) /\ Before({m}, EventsOf(send'[c]), delayed)
  BY Zenon, <1>1, TailOrdered DEF ConnOrder
<1> HIDE DEF m
<1>4. /\ Ordered(received'[c], delayed) /\ \A d \in Conn \ {c} : received'[d] = received[d]
      /\ EventsOf(received'[c]) \subseteq EventsOf(received[c]) \cup ({m} \ {Reply})
  <2>1. CASE m = Reply
    BY <1>2, <2>1 DEF ConnOrder
  <2>2. CASE m # Reply
    <3>1. received'[c] = Append(received[c], m)
          /\ \A d \in Conn \ {c} : received'[d] = received[d]
      BY <1>2, <2>2 DEF TypeOK
    <3>2. Before(EventsOf(received[c]), {m}, delayed)
      BY <1>3, <2>2 DEF ConnOrder, Before
    <3>3. Ordered(received[c], delayed)
      BY DEF ConnOrder
    <3> QED BY Zenon, <1>1, <3>1, <3>2, <3>3, AppendOrdered
  <2> QED BY <2>1, <2>2
<1>5. SentTo(c)' \subseteq SentTo(c)
  BY <1>3, <1>4 DEF SentTo
<1>6. Before(EventsOf(received'[c]), EventsOf(send'[c]), delayed)
  BY <1>3, <1>4 DEF ConnOrder, Before
<1>7. HubOrder'
  BY <1>1 DEF HubOrder, Entered, Dispatches
<1>8. ConnOrder(c)'
  <2>1. Before(SentTo(c)', EventsOf(broadcast), delayed) /\ SentTo(c)' \subseteq Entered'
    BY <1>1, <1>5 DEF ConnOrder, Before, Entered
  <2>2. Dispatches' /\ c \in run'.left => Before(SentTo(c)', {run'.event}, delayed')
    BY <1>1, <1>5 DEF ConnOrder, Before, Dispatches
  <2> QED BY <1>1, <1>3, <1>4, <1>6, <2>1, <2>2 DEF ConnOrder
<1>9. ASSUME NEW d \in Conn \ {c}
      PROVE  ConnOrder(d)'
  BY <1>1, <1>4 DEF ConnOrder, SentTo, Entered, Dispatches
<1> QED BY <1>7, <1>8, <1>9

\* BroadcastEvent's buffered channel, Run's dispatch and every connection's send
\* channel are queues with one reader each (hub.go:228-245, client.go:68-76): no peer
\* is sent an event twice, and none out of order but one that waited for room in a
\* goroutine of its own.
THEOREM EventsInOrderHolds == Spec => []EventsInOrder
<1>1. Init => HubOrder /\ \A c \in Conn : ConnOrder(c)
  BY DEF Init, HubOrder, ConnOrder, Dispatches, Selecting, SentTo, EventsOf, Ordered, Before
<1>2. OrderInv /\ TypeOK' /\ [Next]_vars => OrderInv'
  <2> SUFFICES ASSUME OrderInv, [Next]_vars
               PROVE  HubOrder' /\ \A c \in Conn : ConnOrder(c)'
    BY DEF OrderInv
  <2>1. CASE \/ UNCHANGED vars
             \/ \E c \in Conn : \/ Register(c) \/ Kick(c) \/ ReplyCheck(c) \/ PeerLeaves(c)
                                \/ ReadFails(c) \/ ReadPumpEnds(c)
                                \/ WriteFails(c) \/ WritePumpEnds(c)
             \/ OtherOverflows \/ Dispatched \/ Unregister
    <3>1. UNCHANGED orderVars /\ (run' = run \/ ~Dispatches')
      BY <2>1 DEF Register, Kick, ReplyCheck, PeerLeaves, ReadFails, ReadPumpEnds, WriteFails,
         WritePumpEnds, StopWriting, OtherOverflows, Dispatched, Unregister, Selecting,
         Dispatches, orderVars, vars, hub, pumps, history
    <3> QED BY <3>1, OrderKept DEF OrderInv
  <2>2. CASE Post \/ PostDeparture
    <3>1. UNCHANGED <<send, received>> /\ (run' = run \/ ~Dispatches')
      BY <2>2 DEF Post, PostDeparture, Selecting, Dispatches, pumps
    <3>2. Publish \/ UNCHANGED orderVars
      BY <2>2 DEF Post, PostDeparture, orderVars, pumps
    <3> QED BY <3>1, <3>2, PublishOrder, OrderKept DEF OrderInv
  <2>3. CASE \E e \in Event : LateEnters(e) \/ LateExpires(e)
    BY <2>3, LateOrder, ExpiresOrder
  <2>4. CASE Take \/ Dispatch
    BY <2>4, TakeOrder, CheckOrder, SendOrder DEF Dispatch
  <2>5. CASE \E c \in Conn : ReplySend(c) \/ Write(c)
    BY <2>5, ReplyOrder, WriteOrder
  <2> QED BY <2>1, <2>2, <2>3, <2>4, <2>5 DEF Next, Pumps, RunStep
<1>3. OrderInv => EventsInOrder
  <2> SUFFICES ASSUME OrderInv, NEW c \in Conn,
                      NEW i \in 1 .. Len(received[c]), NEW j \in 1 .. Len(received[c]), i < j
               PROVE  /\ received[c][i] # received[c][j]
                      /\ received[c][j] < received[c][i] => received[c][j] \in delayed
    BY DEF EventsInOrder
  <2>1. received[c] \in Seq(Event) /\ DOMAIN received[c] = 1 .. Len(received[c])
    BY DEF OrderInv, TypeOK
  <2>2. received[c][i] # Reply /\ received[c][j] # Reply
    BY <2>1, TypedOrder, ElementOfSeq DEF OrderInv
  <2> QED BY <2>1, <2>2 DEF OrderInv, ConnOrder, Ordered, Follows
<1> QED
  <2>1. Init /\ TypeOK => OrderInv
    BY <1>1 DEF OrderInv
  <2> QED BY TypeCorrect, <1>2, <1>3, <2>1, PTL DEF Spec
=============================================================================
