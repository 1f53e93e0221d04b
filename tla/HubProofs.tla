------------------------------ MODULE HubProofs ------------------------------
(***************************************************************************)
(* Theorems about Hub for every set of users, connections and channels,    *)
(* every limit and every set of moderators.                                *)
(***************************************************************************)
EXTENDS Hub, TLAPS

-----------------------------------------------------------------------------
(* Types *)

\* What a disconnect leaves of the maps.
LEMMA DisconnectType ==
    ASSUME TypeOK, NEW c \in Conn, Disconnect(c)
    PROVE  /\ clients' \in SUBSET Conn
           /\ userClients' \in [User -> SUBSET Conn]
           /\ voiceChannels' \in [Channel -> SUBSET Conn]
           /\ voiceStates' \in [User -> VoiceState \cup {Nil}]
<1>1. UserOf[c] \in User
  BY HubAssumption
<1>2. CASE c \notin authed
  BY <1>2 DEF Disconnect, TypeOK
<1>3. CASE c \in authed
  <2>1. voiceChannels' = [ch \in Channel |->
            IF ch = active[c] THEN voiceChannels[ch] \ {c} ELSE voiceChannels[ch]]
    BY <1>3 DEF Disconnect
  <2>2. voiceChannels' \in [Channel -> SUBSET Conn]
    BY <2>1 DEF TypeOK
  <2>3. userClients' \in [User -> SUBSET Conn]
    BY <1>1, <1>3 DEF Disconnect, TypeOK
  <2>4. voiceStates' \in [User -> VoiceState \cup {Nil}]
    BY <1>1, <1>3 DEF Disconnect, StatesWithout, TypeOK
  <2> QED BY <2>2, <2>3, <2>4 DEF Disconnect, TypeOK
<1> QED BY <1>2, <1>3

\* Whoever finishes what it was doing, or begins something else, has a frame.
LEMMA FrameType ==
    ASSUME TypeOK, NEW x \in Actor, NEW f \in Frame \cup {Nil}, Then(x, f)
    PROVE  frame' \in [Actor -> Frame \cup {Nil}]
  BY DEF TypeOK, Then

\* The frames the handlers build.
LEMMA FramesBuilt ==
    /\ [op |-> "enroll"] \in Frame
    /\ \A ch \in Channel : [op |-> "issue", channel |-> ch] \in Frame
    /\ \A ch \in Channel : [op |-> "pend", channel |-> ch] \in Frame
    /\ \A u \in User : [op |-> "remove", user |-> u] \in Frame
    /\ \A u \in User : [op |-> "revoked", user |-> u] \in Frame
    /\ \A u \in User, ch \in Channel : [op |-> "move", user |-> u, channel |-> ch] \in Frame
    /\ \A u \in User, fl \in Flag, on \in BOOLEAN :
          [op |-> "flag", user |-> u, flag |-> fl, on |-> on] \in Frame
    /\ \A u \in User, S \in SUBSET Conn :
          /\ [op |-> "kicked", user |-> u, closing |-> S] \in Frame
          /\ [op |-> "close", user |-> u, closing |-> S] \in Frame
          /\ [op |-> "ousted", user |-> u, closing |-> S] \in Frame
  BY DEF Frame

\* What the frames say when they are taken up again.
LEMMA FramesRead ==
    ASSUME NEW f \in Frame
    PROVE  /\ f.op = "issue" => f.channel \in Channel
           /\ f.op \in {"remove", "revoked"} => f.user \in User
           /\ f.op \in {"kicked", "close", "ousted"} =>
                f.user \in User /\ f.closing \in SUBSET Conn
  BY DEF Frame

\* Init and every step keep the types.
LEMMA TypeInit == Init => TypeOK
  BY HubAssumption DEF Init, TypeOK

\* Most steps write a frame and leave the rest, or the maps, to a fact above.
LEMMA TypeNext == TypeOK /\ [Next]_hubVars => TypeOK'
<1> SUFFICES ASSUME TypeOK, [Next]_hubVars PROVE TypeOK'
  OBVIOUS
<1>a. ASSUME NEW x \in Actor, frame[x] # Nil PROVE frame[x] \in Frame
  BY <1>a DEF TypeOK
<1>b. ASSUME NEW x \in Actor, NEW f \in Frame \cup {Nil}, Then(x, f)
      PROVE  frame' \in [Actor -> Frame \cup {Nil}]
  BY <1>b, FrameType
<1>c. /\ Conn \subseteq Actor /\ Moderator \subseteq Actor
      /\ Moderator \subseteq Conn /\ VoiceConn \subseteq Conn /\ SlowConn \subseteq Conn
      /\ Movable \subseteq User /\ Flagged \subseteq User /\ Kickable \subseteq User
      /\ Run \in Actor
      /\ \A x \in Conn : UserOf[x] \in User
  BY HubAssumption DEF Actor
<1>1. ASSUME NEW c \in Conn, ServeWs(c) PROVE TypeOK'
  BY <1>1 DEF ServeWs, TypeOK
<1>2. ASSUME NEW c \in Conn, ReadEnds(c) PROVE TypeOK'
  <2>1. (IF Departs(c) THEN [op |-> "remove", user |-> UserOf[c]] ELSE Nil)
            \in Frame \cup {Nil}
    BY <1>c, FramesBuilt
  <2>2. frame' \in [Actor -> Frame \cup {Nil}]
    BY <1>2, <1>b, <1>c, <2>1 DEF ReadEnds
  <2>3. /\ clients' \in SUBSET Conn
        /\ userClients' \in [User -> SUBSET Conn]
        /\ voiceChannels' \in [Channel -> SUBSET Conn]
        /\ voiceStates' \in [User -> VoiceState \cup {Nil}]
    <3>1. CASE c \in clients
      <4>1. Disconnect(c)
        BY <1>2, <3>1 DEF ReadEnds
      <4> QED BY <4>1, DisconnectType
    <3>2. CASE c \notin clients
      BY <1>2, <3>2 DEF ReadEnds, maps, TypeOK
    <3> QED BY <3>1, <3>2
  <2>4. /\ rows' \in SUBSET User /\ reading' \in SUBSET Conn /\ authed' \in SUBSET Conn
        /\ active' \in [Conn -> Channel \cup {Nil}]
    BY <1>2 DEF ReadEnds, TypeOK
  <2> QED BY <2>2, <2>3, <2>4 DEF TypeOK
<1>3. ASSUME NEW c \in Conn, Overflow(c) PROVE TypeOK'
  <2>1. (IF Departs(c) THEN [op |-> "remove", user |-> UserOf[c]] ELSE Nil)
            \in Frame \cup {Nil}
    BY <1>c, FramesBuilt
  <2>2. frame' \in [Actor -> Frame \cup {Nil}]
    BY <1>3, <1>b, <1>c, <2>1 DEF Overflow
  <2>3. Disconnect(c)
    BY <1>3 DEF Overflow
  <2> QED BY <1>3, <2>2, <2>3, DisconnectType DEF Overflow, TypeOK
<1>4. ASSUME NEW c \in Conn, Login(c) \/ Auth(c) PROVE TypeOK'
  <2>1. frame' \in [Actor -> Frame \cup {Nil}]
    <3>1. [op |-> "enroll"] \in Frame
      BY DEF Frame
    <3> QED BY <1>4, <1>b, <1>c, <3>1 DEF Login, Auth
  <2> QED BY <1>4, <1>c, <2>1 DEF Login, Auth, maps, TypeOK
<1>5. ASSUME NEW c \in Conn, Enroll(c) PROVE TypeOK'
  <2>1. frame' \in [Actor -> Frame \cup {Nil}]
    BY <1>5, <1>b, <1>c DEF Enroll
  <2> QED BY <1>5, <1>c, <2>1 DEF Enroll, TypeOK
<1>6. ASSUME NEW c \in Conn, NEW ch \in Channel, JoinVoice(c, ch) PROVE TypeOK'
  <2>1. frame' \in [Actor -> Frame \cup {Nil}]
    BY <1>6, <1>b, <1>c, FramesBuilt DEF JoinVoice
  <2>2. voiceStates' \in [User -> VoiceState \cup {Nil}]
    BY <1>6, <1>c DEF JoinVoice, VoiceState, TypeOK
  <2>3. voiceChannels' \in [Channel -> SUBSET Conn]
    BY <1>6 DEF JoinVoice, TypeOK
  <2> QED BY <1>6, <2>1, <2>2, <2>3 DEF JoinVoice, TypeOK
<1>7. ASSUME NEW c \in Conn, LeaveVoice(c) PROVE TypeOK'
  <2>1. frame' \in [Actor -> Frame \cup {Nil}]
    BY <1>7, <1>b, <1>c, FramesBuilt DEF LeaveVoice
  <2>2. /\ voiceStates' \in [User -> VoiceState \cup {Nil}]
        /\ active' \in [Conn -> Channel \cup {Nil}]
    BY <1>7, <1>c DEF LeaveVoice, TypeOK
  <2>3. voiceChannels' \in [Channel -> SUBSET Conn]
    BY <1>7 DEF LeaveVoice, TypeOK
  <2> QED BY <1>7, <2>1, <2>2, <2>3 DEF LeaveVoice, TypeOK
<1>8. ASSUME NEW c \in Moderator, NEW u \in User, NEW to \in Channel, MoveMember(c, u, to)
      PROVE  TypeOK'
  <2>1. frame' \in [Actor -> Frame \cup {Nil}]
    BY <1>8, <1>b, <1>c, FramesBuilt DEF MoveMember
  <2>2. voiceStates' \in [User -> VoiceState \cup {Nil}]
    BY <1>8 DEF MoveMember, VoiceState, TypeOK
  <2>3. voiceChannels' \in [Channel -> SUBSET Conn]
    BY <1>8 DEF MoveMember, ConnsMoved, TypeOK
  <2>4. active' \in [Conn -> Channel \cup {Nil}]
    BY <1>8 DEF MoveMember, TypeOK
  <2> QED BY <1>8, <2>1, <2>2, <2>3, <2>4 DEF MoveMember, TypeOK
<1>9. ASSUME NEW c \in Moderator, NEW u \in User, NEW fl \in Flag, NEW on \in BOOLEAN,
             SetServerFlag(c, u, fl, on)
      PROVE  TypeOK'
  <2>1. frame' \in [Actor -> Frame \cup {Nil}]
    BY <1>9, <1>b, <1>c, FramesBuilt DEF SetServerFlag
  <2>2. voiceStates' \in [User -> VoiceState \cup {Nil}]
    BY <1>9 DEF SetServerFlag, VoiceState, Flag, TypeOK
  <2> QED BY <1>9, <2>1, <2>2 DEF SetServerFlag, TypeOK
<1>10. ASSUME NEW c \in Moderator, NEW d \in Conn, KickConn(c, d) PROVE TypeOK'
  <2>1. frame[c].user \in User /\ frame[c].closing \in SUBSET Conn
    BY <1>10, <1>a, <1>c, FramesRead DEF KickConn
  <2>2. frame' \in [Actor -> Frame \cup {Nil}]
    <3>1. frame[c].closing \ {d} \in SUBSET Conn
      BY <2>1
    <3> QED BY <1>10, <1>b, <1>c, <2>1, <3>1, FramesBuilt DEF KickConn
  <2>3. /\ clients' \in SUBSET Conn
        /\ userClients' \in [User -> SUBSET Conn]
        /\ voiceChannels' \in [Channel -> SUBSET Conn]
        /\ voiceStates' \in [User -> VoiceState \cup {Nil}]
    <3>1. CASE d \in clients
      <4>1. Disconnect(d)
        BY <1>10, <3>1 DEF KickConn
      <4> QED BY <4>1, DisconnectType
    <3>2. CASE d \notin clients
      BY <1>10, <3>2 DEF KickConn, maps, TypeOK
    <3> QED BY <3>1, <3>2
  <2> QED BY <1>10, <2>2, <2>3 DEF KickConn, TypeOK
<1>11. ASSUME NEW c \in Moderator, KickFromMaps(c) PROVE TypeOK'
  <2>1. frame[c].user \in User
    BY <1>11, <1>a, <1>c, FramesRead DEF KickFromMaps
  <2>2. frame' \in [Actor -> Frame \cup {Nil}]
    <3>1. userClients[frame[c].user] \in SUBSET Conn
      BY <2>1 DEF TypeOK
    <3> QED BY <1>11, <1>b, <1>c, <2>1, <3>1, FramesBuilt DEF KickFromMaps
  <2>3. /\ voiceChannels' \in [Channel -> SUBSET Conn]
        /\ voiceStates' \in [User -> VoiceState \cup {Nil}]
    BY <1>11, <2>1 DEF KickFromMaps, TypeOK
  <2> QED BY <1>11, <2>2, <2>3 DEF KickFromMaps, TypeOK
<1>12. ASSUME NEW c \in VoiceConn, IssueToken(c) PROVE TypeOK'
  <2>1. frame[c].channel \in Channel
    BY <1>12, <1>a, <1>c, FramesRead DEF IssueToken
  <2>2. frame' \in [Actor -> Frame \cup {Nil}]
    BY <1>12, <1>b, <1>c, <2>1, FramesBuilt DEF IssueToken
  <2> QED BY <1>12, <2>2 DEF IssueToken, maps, TypeOK
<1>13. ASSUME NEW x \in Actor,
              PendToken(x) \/ SfuRemove(x) \/ SfuMove(x) \/ SfuFlag(x) \/ KickEnds(x)
       PROVE  TypeOK'
  <2>1. frame' \in [Actor -> Frame \cup {Nil}]
    BY <1>13, <1>b DEF PendToken, SfuRemove, SfuMove, SfuFlag, KickEnds
  <2> QED BY <1>13, <2>1
        DEF PendToken, SfuRemove, SfuMove, SfuFlag, KickEnds, maps, TypeOK
<1>14. ASSUME NEW c \in Moderator, KickFromSfu(c) PROVE TypeOK'
  <2>1. frame[c].user \in User /\ frame[c].closing \in SUBSET Conn
    BY <1>14, <1>a, <1>c, FramesRead DEF KickFromSfu
  <2>2. frame' \in [Actor -> Frame \cup {Nil}]
    BY <1>14, <1>b, <1>c, <2>1, FramesBuilt DEF KickFromSfu
  <2> QED BY <1>14, <2>2 DEF KickFromSfu, maps, TypeOK
<1>15. ASSUME NEW c \in Moderator, NEW u \in User, KickMember(c, u) PROVE TypeOK'
  <2>1. frame' \in [Actor -> Frame \cup {Nil}]
    BY <1>15, <1>b, <1>c, FramesBuilt DEF KickMember
  <2> QED BY <1>15, <2>1 DEF KickMember, maps, TypeOK
<1>16. CASE UNCHANGED hubVars
  BY <1>16 DEF hubVars, maps, TypeOK
<1>17. CASE HubLocal
  BY <1>17, <1>c, <1>1, <1>2, <1>3, <1>4, <1>5, <1>6, <1>7, <1>8, <1>9, <1>10, <1>11, <1>13
  DEF HubLocal
<1>18. CASE HubCalls
  BY <1>18, <1>c, <1>12, <1>13, <1>14, <1>15 DEF HubCalls
<1> QED BY <1>16, <1>17, <1>18 DEF Next

\* Every variable of the hub keeps its type (no handler leaves a half-written voice
\* state, roster or frame behind).
THEOREM TypeCorrect == Spec => []TypeOK
  BY TypeInit, TypeNext, PTL DEF Spec

-----------------------------------------------------------------------------
(* Rooms, roster and connections *)

\* No account has two connections at a time (with two, hub.go:173 breaks the agreement).
OneConnection == \A c, d \in Conn : UserOf[c] = UserOf[d] => c = d

Enrolling(c) == frame[c] # Nil /\ frame[c].op = "enroll"

\* Only connections with a read pump are in h.clients or authenticated.
Connections == clients \subseteq reading /\ authed \subseteq reading

Owned == \A u \in User : userClients[u] \subseteq {c \in Conn : UserOf[c] = u}

\* An authenticated connection is listed under its user, or about to be.
Enrolled ==
    \A c \in clients \cap authed : c \in userClients[UserOf[c]] \/ Enrolling(c)

\* An occupant is authenticated and listed: moves and kicks will find it.
Seated ==
    \A ch \in Channel : \A c \in voiceChannels[ch] :
        c \in authed /\ c \in userClients[UserOf[c]]

Places ==
    /\ Connections /\ Owned /\ Enrolled /\ Seated
    /\ RoomsAgree /\ VoiceStateKept /\ VoiceStateBacked

HubInv == TypeOK /\ Places

LEMMA PlacesInit == Init => Places
  BY HubAssumption DEF Init, Places, Connections, Owned, Enrolled, Seated, RoomsAgree,
     VoiceStateKept, VoiceStateBacked

\* Writing a frame leaves the others as they are.
LEMMA FrameKept ==
    ASSUME TypeOK, NEW x \in Actor, NEW f, Then(x, f)
    PROVE  frame'[x] = f /\ \A d \in Actor : d # x => frame'[d] = frame[d]
  BY DEF TypeOK, Then

\* Who is not enrolling can go on to anything without disturbing those who are.
LEMMA EnrollingKept ==
    ASSUME TypeOK, NEW x \in Actor, ~Enrolling(x), NEW f, Then(x, f)
    PROVE  \A d \in Actor : Enrolling(d) => Enrolling(d)'
  BY FrameKept DEF Enrolling

\* Steps that only write a frame.
LEMMA PlacesFrame ==
    ASSUME TypeOK, Places, UNCHANGED <<maps, reading, authed, active>>,
           \A d \in Conn : Enrolling(d) => Enrolling(d)'
    PROVE  Places'
<1>1. Enrolled'
  BY DEF Enrolled, Places, TypeOK, maps
<1>2. (Connections /\ Owned /\ Seated)'
  BY DEF Connections, Owned, Seated, Places, maps
<1>3. (RoomsAgree /\ VoiceStateKept /\ VoiceStateBacked)'
  BY DEF RoomsAgree, VoiceStateKept, VoiceStateBacked, Places, maps
<1> QED BY <1>1, <1>2, <1>3 DEF Places

\* The connection of a user who is in voice is the user's only one, and in the room
\* the roster shows.
LEMMA Backing ==
    ASSUME TypeOK, Places, OneConnection, NEW u \in User, voiceStates[u] # Nil
    PROVE  /\ voiceStates[u].channel \in Channel
           /\ \E s \in Conn : /\ UserOf[s] = u /\ userClients[u] = {s}
                              /\ s \in clients /\ s \in authed
                              /\ \A ch \in Channel :
                                    s \in voiceChannels[ch] <=> ch = voiceStates[u].channel
<1>1. voiceStates[u].channel \in Channel
  BY DEF TypeOK, VoiceState
<1>2. PICK s \in voiceChannels[voiceStates[u].channel] : UserOf[s] = u
  BY DEF Places, VoiceStateBacked
<1>3. s \in Conn
  BY <1>1, <1>2 DEF TypeOK
<1>4. s \in userClients[u] /\ s \in authed /\ s \in clients
  BY <1>1, <1>2 DEF Places, Seated, RoomsAgree
<1>5. userClients[u] = {s}
  BY <1>2, <1>3, <1>4 DEF Places, Owned, OneConnection
<1>6. \A ch \in Channel : s \in voiceChannels[ch] <=> ch = voiceStates[u].channel
  BY <1>2, <1>1 DEF Places, VoiceStateKept
<1> QED BY <1>1, <1>2, <1>3, <1>4, <1>5, <1>6

\* s leaves voice, and perhaps the hub.
LEMMA Unseat ==
    ASSUME TypeOK, TypeOK', Places, OneConnection, NEW s \in Conn,
           \A ch \in Channel : voiceChannels'[ch] = voiceChannels[ch] \ {s},
           voiceStates'[UserOf[s]] = Nil,
           \A u \in User : u # UserOf[s] =>
               voiceStates'[u] = voiceStates[u] /\ userClients'[u] = userClients[u],
           userClients'[UserOf[s]] \subseteq userClients[UserOf[s]],
           \A d \in Conn : d # s =>
               /\ active'[d] = active[d]
               /\ d \in clients' <=> d \in clients
               /\ d \in authed' <=> d \in authed
               /\ d \in reading' <=> d \in reading
               /\ Enrolling(d) => Enrolling(d)',
           s \in clients' \/ s \in authed' => s \in reading',
           s \in clients' /\ s \in authed' => s \in userClients'[UserOf[s]] \/ Enrolling(s)'
    PROVE  Places'
<1>1. \A d \in Conn : UserOf[d] \in User /\ (d # s => UserOf[d] # UserOf[s])
  BY HubAssumption DEF OneConnection
<1>2. Connections'
  BY DEF Places, Connections, TypeOK
<1>3. Owned'
  <2> SUFFICES ASSUME NEW u \in User PROVE userClients'[u] \subseteq {c \in Conn : UserOf[c] = u}
    BY DEF Owned
  <2>1. userClients'[u] \subseteq userClients[u]
    OBVIOUS
  <2> QED BY <2>1 DEF Places, Owned
<1>4. Enrolled'
  <2> SUFFICES ASSUME NEW c \in Conn, c \in clients', c \in authed', c # s
               PROVE  c \in userClients'[UserOf[c]] \/ Enrolling(c)'
    BY DEF Enrolled, TypeOK
  <2> QED BY <1>1 DEF Places, Enrolled
<1>5. ASSUME NEW ch \in Channel, NEW c \in voiceChannels'[ch]
      PROVE  c \in Conn /\ c # s /\ c \in voiceChannels[ch]
  BY <1>5 DEF TypeOK
<1>6. Seated'
  BY <1>1, <1>5 DEF Places, Seated
<1>7. RoomsAgree'
  BY <1>5 DEF Places, RoomsAgree
<1>8. VoiceStateKept'
  BY <1>1, <1>5 DEF Places, VoiceStateKept
<1>9. VoiceStateBacked'
  <2> SUFFICES ASSUME NEW u \in User, voiceStates'[u] # Nil
               PROVE  \E c \in voiceChannels'[voiceStates'[u].channel] : UserOf[c] = u
    BY DEF VoiceStateBacked
  <2>1. u # UserOf[s] /\ voiceStates'[u] = voiceStates[u]
    OBVIOUS
  <2>2. voiceStates[u].channel \in Channel
    BY <2>1 DEF TypeOK, VoiceState
  <2>3. PICK c \in voiceChannels[voiceStates[u].channel] : UserOf[c] = u
    BY <2>1 DEF Places, VoiceStateBacked
  <2> QED BY <2>1, <2>2, <2>3
<1> QED BY <1>2, <1>3, <1>4, <1>6, <1>7, <1>8, <1>9 DEF Places

\* s, listed and connected, goes to a room.
LEMMA Reseat ==
    ASSUME TypeOK, TypeOK', Places, OneConnection, NEW s \in Conn, NEW to \in Channel,
           s \in clients, s \in authed, s \in userClients[UserOf[s]],
           \A ch \in Channel :
               voiceChannels'[ch] = IF ch = to THEN voiceChannels[ch] \cup {s}
                                    ELSE voiceChannels[ch] \ {s},
           voiceStates'[UserOf[s]] # Nil /\ voiceStates'[UserOf[s]].channel = to,
           \A u \in User : u # UserOf[s] => voiceStates'[u] = voiceStates[u],
           active'[s] = to,
           \A d \in Conn : d # s => active'[d] = active[d],
           \A d \in Conn : Enrolling(d) => Enrolling(d)',
           UNCHANGED <<clients, userClients, reading, authed>>
    PROVE  Places'
<1>1. \A d \in Conn : UserOf[d] \in User /\ (d # s => UserOf[d] # UserOf[s])
  BY HubAssumption DEF OneConnection
<1>2. (Connections /\ Owned)'
  BY DEF Places, Connections, Owned
<1>3. Enrolled'
  BY DEF Places, Enrolled, TypeOK
<1>4. ASSUME NEW ch \in Channel, NEW c \in voiceChannels'[ch]
      PROVE  c \in Conn /\ ((c = s /\ ch = to) \/ (c # s /\ c \in voiceChannels[ch]))
  <2>1. c \in Conn
    BY <1>4 DEF TypeOK
  <2>2. CASE ch = to
    <3>1. voiceChannels'[ch] = voiceChannels[ch] \cup {s}
      BY <2>2
    <3> QED BY <2>1, <2>2, <3>1
  <2>3. CASE ch # to
    <3>1. voiceChannels'[ch] = voiceChannels[ch] \ {s}
      BY <2>3
    <3> QED BY <2>1, <2>3, <3>1
  <2> QED BY <2>1, <2>2, <2>3
<1>5. Seated'
  BY <1>4 DEF Places, Seated
<1>6. RoomsAgree'
  BY <1>4 DEF Places, RoomsAgree
<1>7. VoiceStateKept'
  BY <1>1, <1>4 DEF Places, VoiceStateKept
<1>8. VoiceStateBacked'
  <2> SUFFICES ASSUME NEW u \in User, voiceStates'[u] # Nil
               PROVE  \E c \in voiceChannels'[voiceStates'[u].channel] : UserOf[c] = u
    BY DEF VoiceStateBacked
  <2>1. CASE u = UserOf[s]
    BY <2>1
  <2>2. CASE u # UserOf[s]
    <3>1. voiceStates'[u] = voiceStates[u]
      BY <2>2
    <3>2. voiceStates[u].channel \in Channel
      BY <3>1 DEF TypeOK, VoiceState
    <3>3. PICK c \in voiceChannels[voiceStates[u].channel] : UserOf[c] = u
      BY <3>1 DEF Places, VoiceStateBacked
    <3> QED BY <2>2, <3>1, <3>2, <3>3
  <2> QED BY <2>1, <2>2
<1> QED BY <1>2, <1>3, <1>5, <1>6, <1>7, <1>8 DEF Places

\* handleClientDisconnect, or its early return for a connection that is not in
\* h.clients: the rooms lose c, and the user of c, who has no other, is in none.
LEMMA DisconnectPlaces ==
    ASSUME TypeOK, Places, OneConnection, NEW c \in Conn,
           IF c \in clients THEN Disconnect(c) ELSE UNCHANGED maps
    PROVE  /\ clients' = clients \ {c}
           /\ \A ch \in Channel : voiceChannels'[ch] = voiceChannels[ch] \ {c}
           /\ voiceStates'[UserOf[c]] = Nil
           /\ \A u \in User : u # UserOf[c] =>
                  voiceStates'[u] = voiceStates[u] /\ userClients'[u] = userClients[u]
           /\ userClients'[UserOf[c]] \subseteq userClients[UserOf[c]]
<1>1. UserOf[c] \in User
  BY HubAssumption
<1>2. CASE c \notin clients \/ c \notin authed
  <2>1. \A ch \in Channel : c \notin voiceChannels[ch]
    BY <1>2 DEF Places, Seated, RoomsAgree
  <2>2. voiceStates[UserOf[c]] = Nil
    <3>1. ASSUME voiceStates[UserOf[c]] # Nil PROVE FALSE
      BY <1>1, <2>1, <3>1, Backing DEF OneConnection
    <3> QED BY <3>1
  <2>3. /\ clients' = clients \ {c}
        /\ UNCHANGED <<userClients, voiceChannels, voiceStates>>
    BY <1>2 DEF Disconnect, maps
  <2> QED BY <2>1, <2>2, <2>3
<1>3. CASE c \in clients /\ c \in authed
  <2>1. clients' = clients \ {c}
    BY <1>3 DEF Disconnect
  <2>2. \A ch \in Channel : voiceChannels'[ch] = voiceChannels[ch] \ {c}
    <3>1. \A ch \in Channel : ch # active[c] => c \notin voiceChannels[ch]
      BY DEF Places, RoomsAgree
    <3> QED BY <1>3, <3>1 DEF Disconnect
  <2>3. userClients' = [userClients EXCEPT ![UserOf[c]] = @ \ {c}]
    BY <1>3 DEF Disconnect
  <2>4. userClients[UserOf[c]] \subseteq {c}
    BY <1>1 DEF Places, Owned, OneConnection
  <2>5. voiceStates' = [voiceStates EXCEPT ![UserOf[c]] = Nil]
    BY <1>3, <2>4 DEF Disconnect, StatesWithout
  <2> QED BY <1>1, <2>1, <2>2, <2>3, <2>5 DEF TypeOK
<1> QED BY <1>2, <1>3

LEMMA PlacesNext == OneConnection /\ HubInv /\ [Next]_hubVars => Places'
<1> SUFFICES ASSUME OneConnection, HubInv, [Next]_hubVars PROVE Places'
  OBVIOUS
<1>a. TypeOK /\ TypeOK' /\ Places
  BY TypeNext DEF HubInv
<1>b. /\ Conn \subseteq Actor /\ Moderator \subseteq Actor /\ VoiceConn \subseteq Actor
      /\ Moderator \subseteq Conn /\ VoiceConn \subseteq Conn /\ SlowConn \subseteq Conn
      /\ Movable \subseteq User /\ Flagged \subseteq User /\ Kickable \subseteq User
      /\ Run \in Actor /\ Run \notin Conn
      /\ \A x \in Conn : UserOf[x] \in User
  BY HubAssumption DEF Actor
<1>c. ASSUME NEW x \in Actor, ~Enrolling(x), NEW f, Then(x, f)
      PROVE  \A d \in Conn : Enrolling(d) => Enrolling(d)'
  BY <1>a, <1>b, <1>c, EnrollingKept
<1>d. ASSUME NEW c \in Conn, Ready(c) PROVE ~Enrolling(c) /\ c \in reading
  BY <1>d DEF Ready, Enrolling
<1>1. ASSUME NEW c \in Conn, ServeWs(c) PROVE Places'
  <2>1. c \notin authed
    BY <1>1, <1>a DEF ServeWs, Places, Connections
  <2>2. (Connections /\ Owned /\ Seated)'
    BY <1>1, <1>a DEF ServeWs, Places, Connections, Owned, Seated
  <2>3. Enrolled'
    BY <1>1, <1>a, <2>1 DEF ServeWs, Places, Enrolled, Enrolling
  <2>4. (RoomsAgree /\ VoiceStateKept /\ VoiceStateBacked)'
    BY <1>1, <1>a DEF ServeWs, Places, RoomsAgree, VoiceStateKept, VoiceStateBacked
  <2> QED BY <2>2, <2>3, <2>4 DEF Places
<1>2. ASSUME NEW c \in Conn, ReadEnds(c) PROVE Places'
  <2>1. IF c \in clients THEN Disconnect(c) ELSE UNCHANGED maps
    BY <1>2 DEF ReadEnds
  <2>2. \A d \in Conn : Enrolling(d) => Enrolling(d)'
    BY <1>2, <1>b, <1>c, <1>d DEF ReadEnds
  <2>3. \A d \in Conn : d # c =>
            /\ active'[d] = active[d]
            /\ d \in authed' <=> d \in authed
            /\ d \in reading' <=> d \in reading
    BY <1>2, <1>a DEF ReadEnds, TypeOK
  <2>4. c \notin authed'
    BY <1>2 DEF ReadEnds
  <2> QED BY <1>a, <2>1, <2>2, <2>3, <2>4, DisconnectPlaces, Unseat
<1>3. ASSUME NEW c \in Conn, Overflow(c) PROVE Places'
  <2>1. c \in clients /\ Disconnect(c)
    BY <1>3 DEF Overflow
  <2>2. \A d \in Conn : Enrolling(d) => Enrolling(d)'
    <3>1. \A d \in Conn : frame'[d] = frame[d]
      BY <1>3, <1>a, <1>b, FrameKept DEF Overflow
    <3> QED BY <3>1 DEF Enrolling
  <2>3. UNCHANGED <<reading, authed, active>>
    BY <1>3 DEF Overflow
  <2>4. c \in reading
    BY <2>1, <1>a DEF Places, Connections
  <2> QED BY <1>a, <2>1, <2>2, <2>3, <2>4, DisconnectPlaces, Unseat
<1>4. ASSUME NEW c \in Conn, Login(c) \/ Auth(c) PROVE Places'
  <2>1. /\ UNCHANGED <<maps, reading, active>> /\ authed' = authed \cup {c}
        /\ Ready(c) /\ Then(c, [op |-> "enroll"])
    BY <1>4 DEF Login, Auth
  <2>2. Enrolling(c)'
    BY <2>1, <1>a, <1>b, FrameKept, FramesBuilt, HubAssumption DEF Enrolling
  <2>3. \A d \in Conn : Enrolling(d) => Enrolling(d)'
    BY <2>1, <1>b, <1>c, <1>d
  <2>4. Connections'
    BY <2>1, <1>a, <1>d DEF Places, Connections, maps
  <2>5. Enrolled'
    BY <2>1, <2>2, <2>3, <1>a DEF Places, Enrolled, TypeOK, maps
  <2>6. (Owned /\ Seated /\ RoomsAgree /\ VoiceStateKept /\ VoiceStateBacked)'
    BY <2>1, <1>a DEF Places, Owned, Seated, RoomsAgree, VoiceStateKept, VoiceStateBacked, maps
  <2> QED BY <2>4, <2>5, <2>6 DEF Places
<1>5. ASSUME NEW c \in Conn, Enroll(c) PROVE Places'
  <2>1. userClients' = [userClients EXCEPT ![UserOf[c]] = @ \cup {c}]
    BY <1>5 DEF Enroll
  <2>2. \A u \in User : userClients[u] \subseteq userClients'[u]
    BY <2>1, <1>a DEF TypeOK
  <2>3. Owned'
    BY <2>1, <1>a DEF Places, Owned, TypeOK
  <2>4. \A d \in Conn : d # c /\ Enrolling(d) => Enrolling(d)'
    BY <1>5, <1>a, <1>b, FrameKept DEF Enrolling, Enroll
  <2>5. c \in userClients'[UserOf[c]]
    BY <2>1, <1>a, <1>b DEF TypeOK
  <2>6. (Enrolled /\ Seated)'
    BY <1>5, <1>a, <1>b, <2>2, <2>4, <2>5 DEF Enroll, Places, Enrolled, Seated, TypeOK
  <2>7. (Connections /\ RoomsAgree /\ VoiceStateKept /\ VoiceStateBacked)'
    BY <1>5, <1>a DEF Enroll, Places, Connections, RoomsAgree, VoiceStateKept, VoiceStateBacked
  <2> QED BY <2>3, <2>6, <2>7 DEF Places
<1>6. ASSUME NEW c \in VoiceConn, NEW ch \in Channel, JoinVoice(c, ch) PROVE Places'
  <2>1. c \in clients /\ c \in authed /\ ~Enrolling(c) /\ c \in Conn
    BY <1>6, <1>b, <1>d DEF JoinVoice, MayJoin
  <2>2. c \in userClients[UserOf[c]]
    BY <2>1, <1>a DEF Places, Enrolled
  <2>3. \A x \in Channel : x # active[c] => c \notin voiceChannels[x]
    BY <1>a DEF Places, RoomsAgree
  <2>4. \A x \in Channel :
            voiceChannels'[x] = IF x = ch THEN voiceChannels[x] \cup {c}
                                ELSE voiceChannels[x] \ {c}
    BY <1>6, <2>3 DEF JoinVoice
  <2>5. voiceStates'[UserOf[c]] # Nil /\ voiceStates'[UserOf[c]].channel = ch
    <3>1. voiceStates'[UserOf[c]] = [channel |-> ch, muted |-> FALSE, deafened |-> FALSE]
      BY <1>6, <1>a, <1>b DEF JoinVoice, TypeOK
    <3>2. voiceStates'[UserOf[c]] \in VoiceState
      BY <3>1 DEF VoiceState
    <3>3. voiceStates'[UserOf[c]] # Nil
      BY <3>2, HubAssumption DEF HubAssumption
    <3>4. voiceStates'[UserOf[c]].channel = ch
      BY <3>1
    <3> QED BY <3>3, <3>4
  <2>6. /\ \A u \in User : u # UserOf[c] => voiceStates'[u] = voiceStates[u]
        /\ active'[c] = ch /\ \A d \in Conn : d # c => active'[d] = active[d]
        /\ UNCHANGED <<clients, userClients, reading, authed>>
    BY <1>6, <2>1, <1>a DEF JoinVoice, TypeOK
  <2>7. \A d \in Conn : Enrolling(d) => Enrolling(d)'
    BY <1>6, <1>b, <1>c, <2>1 DEF JoinVoice
  <2> QED BY <1>a, <2>1, <2>2, <2>4, <2>5, <2>6, <2>7, Reseat
<1>7. ASSUME NEW c \in Conn, LeaveVoice(c) PROVE Places'
  <2>1. c \in authed /\ ~Enrolling(c) /\ c \in reading
    BY <1>7, <1>d DEF LeaveVoice
  <2>2. \A d \in Conn : Enrolling(d) => Enrolling(d)'
    BY <1>7, <1>b, <1>c, <2>1 DEF LeaveVoice
  <2>3. CASE active[c] = Nil
    <3>1. UNCHANGED <<maps, reading, authed, active>>
      BY <1>7, <2>3 DEF LeaveVoice, maps
    <3> QED BY <1>a, <2>2, <3>1, PlacesFrame
  <2>4. CASE active[c] # Nil
    <3>1. \A x \in Channel : x # active[c] => c \notin voiceChannels[x]
      BY <1>a DEF Places, RoomsAgree
    <3>2. \A x \in Channel : voiceChannels'[x] = voiceChannels[x] \ {c}
      BY <1>7, <2>4, <3>1, <1>a DEF LeaveVoice, TypeOK
    <3>3. /\ voiceStates'[UserOf[c]] = Nil
          /\ \A u \in User : u # UserOf[c] => voiceStates'[u] = voiceStates[u]
          /\ \A d \in Conn : d # c => active'[d] = active[d]
          /\ UNCHANGED <<clients, userClients, reading, authed>>
      BY <1>7, <2>4, <1>a, <1>b DEF LeaveVoice, TypeOK
    <3>4. c \in clients => c \in userClients[UserOf[c]]
      BY <2>1, <1>a DEF Places, Enrolled
    <3> QED BY <1>a, <2>1, <2>2, <3>2, <3>3, <3>4, Unseat
  <2> QED BY <2>3, <2>4
<1>8. ASSUME NEW c \in Moderator, NEW u \in User, NEW to \in Channel, MoveMember(c, u, to)
      PROVE  Places'
  <2>1. PICK s \in Conn :
            /\ UserOf[s] = u /\ userClients[u] = {s} /\ s \in clients /\ s \in authed
            /\ \A ch \in Channel : s \in voiceChannels[ch] <=> ch = voiceStates[u].channel
    BY <1>8, <1>a, Backing DEF MoveMember
  <2>2. \A x \in Channel :
            voiceChannels'[x] = IF x = to THEN voiceChannels[x] \cup {s}
                                ELSE voiceChannels[x] \ {s}
    BY <1>8, <2>1 DEF MoveMember, ConnsMoved
  <2>3. voiceStates'[u] # Nil /\ voiceStates'[u].channel = to
    <3>1. voiceStates[u] \in VoiceState
      BY <1>8, <1>a DEF MoveMember, TypeOK
    <3>2. voiceStates'[u] = [voiceStates[u] EXCEPT !.channel = to]
      BY <1>8, <1>a DEF MoveMember, TypeOK
    <3>3. voiceStates'[u] \in VoiceState /\ voiceStates'[u].channel = to
      BY <3>1, <3>2 DEF VoiceState
    <3> QED BY <3>3, HubAssumption DEF HubAssumption
  <2>4. /\ \A v \in User : v # u => voiceStates'[v] = voiceStates[v]
        /\ active'[s] = to /\ \A d \in Conn : d # s => active'[d] = active[d]
        /\ UNCHANGED <<clients, userClients, reading, authed>>
    BY <1>8, <2>1, <1>a DEF MoveMember, TypeOK
  <2>5. \A d \in Conn : Enrolling(d) => Enrolling(d)'
    BY <1>8, <1>b, <1>c, <1>d DEF MoveMember, Moderates
  <2>6. /\ s \in userClients[UserOf[s]]
        /\ voiceStates'[UserOf[s]] # Nil /\ voiceStates'[UserOf[s]].channel = to
        /\ \A v \in User : v # UserOf[s] => voiceStates'[v] = voiceStates[v]
    BY <2>1, <2>3, <2>4
  <2> QED BY ONLY <1>a, OneConnection, <2>1, <2>2, <2>4, <2>5, <2>6, Reseat
<1>9. ASSUME NEW c \in Moderator, NEW u \in User, NEW fl \in Flag, NEW on \in BOOLEAN,
             SetServerFlag(c, u, fl, on)
      PROVE  Places'
  <2>1. \A d \in Conn : Enrolling(d) => Enrolling(d)'
    BY <1>9, <1>b, <1>c, <1>d DEF SetServerFlag, Moderates
  <2>2. UNCHANGED <<clients, userClients, voiceChannels, reading, authed, active>>
    BY <1>9 DEF SetServerFlag
  <2>3. \A v \in User :
            /\ voiceStates'[v] = Nil <=> voiceStates[v] = Nil
            /\ voiceStates[v] # Nil => voiceStates'[v].channel = voiceStates[v].channel
    <3>1. CASE voiceStates[u] = Nil
      BY <1>9, <3>1 DEF SetServerFlag
    <3>2. CASE voiceStates[u] # Nil
      <4>1. voiceStates[u] \in VoiceState
        BY <3>2, <1>a DEF TypeOK
      <4>2. /\ voiceStates'[u] = [voiceStates[u] EXCEPT ![fl] = on]
            /\ \A v \in User : v # u => voiceStates'[v] = voiceStates[v]
        BY <1>9, <3>2, <1>a DEF SetServerFlag, TypeOK
      <4>3. voiceStates'[u] \in VoiceState /\ voiceStates'[u].channel = voiceStates[u].channel
        BY <4>1, <4>2 DEF VoiceState, Flag
      <4>4. voiceStates'[u] # Nil
        BY <4>3, HubAssumption DEF HubAssumption
      <4> QED BY <3>2, <4>2, <4>3, <4>4
    <3> QED BY <3>1, <3>2
  <2>4. (Connections /\ Owned /\ Seated /\ RoomsAgree)'
    BY <2>2, <1>a DEF Places, Connections, Owned, Seated, RoomsAgree
  <2>5. Enrolled'
    BY <2>1, <2>2, <1>a DEF Places, Enrolled, TypeOK
  <2>6. VoiceStateKept'
    BY <2>2, <2>3, <1>a, <1>b DEF Places, VoiceStateKept, TypeOK
  <2>7. VoiceStateBacked'
    BY <2>2, <2>3, <1>a DEF Places, VoiceStateBacked
  <2> QED BY <2>4, <2>5, <2>6, <2>7 DEF Places
<1>10. ASSUME NEW c \in Moderator, NEW d \in Conn, KickConn(c, d) PROVE Places'
  <2>1. IF d \in clients THEN Disconnect(d) ELSE UNCHANGED maps
    BY <1>10 DEF KickConn
  <2>2. ~Enrolling(c)
    BY <1>10 DEF KickConn, Enrolling
  <2>3. \A x \in Conn : Enrolling(x) => Enrolling(x)'
    BY <1>10, <1>b, <1>c, <2>2 DEF KickConn
  <2>4. UNCHANGED <<reading, authed, active>>
    BY <1>10 DEF KickConn
  <2>5. d \in authed => d \in reading
    BY <1>a DEF Places, Connections
  <2> QED BY <1>a, <2>1, <2>3, <2>4, <2>5, DisconnectPlaces, Unseat
<1>11. ASSUME NEW c \in Moderator, KickFromMaps(c) PROVE Places'
  <2> DEFINE u == frame[c].user
  <2>1. frame[c] # Nil /\ frame[c].op = "revoked" /\ u \in User
    BY <1>11, <1>a, <1>b, FramesRead DEF KickFromMaps, TypeOK
  <2>2. \A x \in Conn : Enrolling(x) => Enrolling(x)'
    <3>1. ~Enrolling(c)
      BY <2>1 DEF Enrolling
    <3> QED BY <1>11, <1>b, <1>c, <3>1 DEF KickFromMaps
  <2>3. CASE voiceStates[u] = Nil
    <3>1. UNCHANGED <<maps, reading, authed, active>>
      BY <1>11, <2>3 DEF KickFromMaps, maps
    <3> QED BY <1>a, <2>2, <3>1, PlacesFrame
  <2>4. CASE voiceStates[u] # Nil
    <3>1. PICK s \in Conn :
              /\ UserOf[s] = u /\ userClients[u] = {s} /\ s \in clients /\ s \in authed
              /\ \A ch \in Channel : s \in voiceChannels[ch] <=> ch = voiceStates[u].channel
      BY <2>1, <2>4, <1>a, Backing
    <3>2. \A x \in Channel : voiceChannels'[x] = voiceChannels[x] \ {s}
      BY <1>11, <2>4, <3>1, <1>a DEF KickFromMaps, TypeOK
    <3>3. /\ voiceStates'[u] = Nil
          /\ \A v \in User : v # u => voiceStates'[v] = voiceStates[v]
          /\ UNCHANGED <<clients, userClients, reading, authed, active>>
      BY <1>11, <2>1, <2>4, <1>a DEF KickFromMaps, TypeOK
    <3>4. s \in reading
      BY <3>1, <1>a DEF Places, Connections
    <3> QED BY <1>a, <2>2, <3>1, <3>2, <3>3, <3>4, Unseat
  <2> QED BY <2>3, <2>4
<1>12. ASSUME NEW x \in Actor,
              IssueToken(x) \/ PendToken(x) \/ SfuRemove(x) \/ SfuMove(x) \/ SfuFlag(x)
              \/ KickFromSfu(x) \/ KickEnds(x)
       PROVE  Places'
  <2>1. PICK f : Then(x, f)
    BY <1>12 DEF IssueToken, PendToken, SfuRemove, SfuMove, SfuFlag, KickFromSfu, KickEnds
  <2>2. ~Enrolling(x)
    BY <1>12 DEF Enrolling, IssueToken, PendToken, SfuRemove, SfuMove, SfuFlag, KickFromSfu,
       KickEnds
  <2>3. UNCHANGED <<maps, reading, authed, active>>
    BY <1>12 DEF IssueToken, PendToken, SfuRemove, SfuMove, SfuFlag, KickFromSfu, KickEnds
  <2> QED BY <1>a, <1>c, <2>1, <2>2, <2>3, PlacesFrame
<1>13. ASSUME NEW c \in Moderator, NEW u \in User, KickMember(c, u) PROVE Places'
  <2>1. \A d \in Conn : Enrolling(d) => Enrolling(d)'
    BY <1>13, <1>b, <1>c, <1>d DEF KickMember, Moderates
  <2> QED BY <1>13, <1>a, <2>1, PlacesFrame DEF KickMember
<1>14. CASE UNCHANGED hubVars
  <2>1. \A d \in Conn : Enrolling(d) => Enrolling(d)'
    BY <1>14 DEF hubVars, Enrolling
  <2> QED BY <1>14, <1>a, <2>1, PlacesFrame DEF hubVars
<1>15. CASE HubLocal
  BY <1>15, <1>b, <1>1, <1>2, <1>3, <1>4, <1>5, <1>6, <1>7, <1>8, <1>9, <1>10, <1>11, <1>12
  DEF HubLocal
<1>16. CASE HubCalls
  BY <1>16, <1>b, <1>12, <1>13 DEF HubCalls
<1> QED BY <1>14, <1>15, <1>16 DEF Next

\* While no account has two connections, the hub's four maps and the connections
\* agree as the named parts of Places say, whatever the handlers interleave.
THEOREM PlacesInvariant == OneConnection => (Spec => []HubInv)
<1> SUFFICES ASSUME OneConnection PROVE Spec => []HubInv
  OBVIOUS
<1>1. Init => HubInv
  BY TypeInit, PlacesInit DEF HubInv
<1>2. HubInv /\ [Next]_hubVars => HubInv'
  BY TypeNext, PlacesNext DEF HubInv
<1> QED BY <1>1, <1>2, PTL DEF Spec

\* Every occupant of a room is connected and believes it is there.
THEOREM RoomsAgreeHolds == OneConnection => (Spec => []RoomsAgree)
<1> SUFFICES ASSUME OneConnection PROVE Spec => []RoomsAgree
  OBVIOUS
<1>1. Spec => []HubInv
  BY PlacesInvariant
<1>2. HubInv => RoomsAgree
  BY DEF HubInv, Places
<1> QED BY <1>1, <1>2, PTL

\* The user of every occupant is shown in the room it occupies.
THEOREM VoiceStateKeptHolds == OneConnection => (Spec => []VoiceStateKept)
<1> SUFFICES ASSUME OneConnection PROVE Spec => []VoiceStateKept
  OBVIOUS
<1>1. Spec => []HubInv
  BY PlacesInvariant
<1>2. HubInv => VoiceStateKept
  BY DEF HubInv, Places
<1> QED BY <1>1, <1>2, PTL

\* Whoever is shown in a room has a connection there.
THEOREM VoiceStateBackedHolds == OneConnection => (Spec => []VoiceStateBacked)
<1> SUFFICES ASSUME OneConnection PROVE Spec => []VoiceStateBacked
  OBVIOUS
<1>1. Spec => []HubInv
  BY PlacesInvariant
<1>2. HubInv => VoiceStateBacked
  BY DEF HubInv, Places
<1> QED BY <1>1, <1>2, PTL

=============================================================================
