--------------------------------- MODULE Hub ---------------------------------
(***************************************************************************)
(* The WebSocket control plane: hub.go, handler.go and the read side of    *)
(* client.go in backend/internal/control.                                  *)
(*                                                                         *)
(* Every connection has a read pump that runs one handler at a time; the   *)
(* Run loop disconnects connections whose send buffer overflowed.  All     *)
(* share the maps of the Hub under h.mu.  A handler is cut where it        *)
(* releases h.mu or calls storage or the SFU: what it has left to do after *)
(* that is its frame.                                                      *)
(*                                                                         *)
(* Replies and broadcasts are left out: no handler reads them back.  So    *)
(* are the handlers that only read (get_roster, get_channels, history),    *)
(* chat, channel creation, the self-mute and speaking flags.               *)
(***************************************************************************)
EXTENDS Integers, FiniteSets

CONSTANTS
    User,       \* accounts
    Conn,       \* connections (*Client objects that can exist at one time)
    Channel,    \* voice channels
    Nil,        \* no channel, no voice state, no frame
    Run,        \* the Hub's event loop
    UserOf,     \* Conn -> the account its client logs in with
    Limit,      \* user_limit of every channel
    VoiceConn,  \* connections whose client joins voice
    Moderator,  \* connections of users with the moderators' permissions
    Movable,    \* users the moderators move
    Flagged,    \* users the moderators server-mute and server-deafen
    Kickable,   \* users the moderators kick (never the creator, user 1)
    SlowConn    \* connections whose send buffer can overflow

VARIABLES
    rows,           \* users with a row in the sessions table
    clients,        \* h.clients
    userClients,    \* h.userClients
    voiceChannels,  \* h.voiceChannels
    voiceStates,    \* h.voiceStates
    reading,        \* connections whose read pump is running
    authed,         \* connections with isAuthenticated (userID is UserOf then)
    active,         \* activeVoiceChannel of every connection
    frame           \* what the handler of a connection, or Run, has left to do

maps == <<clients, userClients, voiceChannels, voiceStates>>
hubVars == <<rows, maps, reading, authed, active, frame>>

Flag == {"muted", "deafened"}

VoiceState == [channel : Channel, muted : BOOLEAN, deafened : BOOLEAN]

\* enroll: enter userClients; issue, pend: the two halves of issuing a voice
\* token; remove, move, flag: the call into the SFU; revoked, kicked, close: the
\* stages of a kick, and ousted: the SFU call for one connection it has closed.
Frame ==
    [op : {"enroll"}] \cup [op : {"issue", "pend"}, channel : Channel]
    \cup [op : {"remove", "revoked"}, user : User]
    \cup [op : {"move"}, user : User, channel : Channel]
    \cup [op : {"flag"}, user : User, flag : Flag, on : BOOLEAN]
    \cup [op : {"kicked", "close", "ousted"}, user : User, closing : SUBSET Conn]

Actor == Conn \cup {Run}

ASSUME HubAssumption ==
    /\ UserOf \in [Conn -> User]
    /\ Limit \in Nat
    /\ Nil \notin Channel /\ Nil \notin VoiceState /\ Nil \notin Frame
    /\ Run \notin Conn
    /\ VoiceConn \subseteq Conn /\ Moderator \subseteq Conn /\ SlowConn \subseteq Conn
    /\ Movable \subseteq User /\ Flagged \subseteq User /\ Kickable \subseteq User

TypeOK ==
    /\ rows \in SUBSET User
    /\ clients \in SUBSET Conn
    /\ userClients \in [User -> SUBSET Conn]
    /\ voiceChannels \in [Channel -> SUBSET Conn]
    /\ voiceStates \in [User -> VoiceState \cup {Nil}]
    /\ reading \in SUBSET Conn
    /\ authed \in SUBSET Conn
    /\ active \in [Conn -> Channel \cup {Nil}]
    /\ frame \in [Actor -> Frame \cup {Nil}]

Init ==
    /\ rows = {} /\ clients = {} /\ reading = {} /\ authed = {}
    /\ userClients = [u \in User |-> {}]
    /\ voiceChannels = [ch \in Channel |-> {}]
    /\ voiceStates = [u \in User |-> Nil]
    /\ active = [c \in Conn |-> Nil]
    /\ frame = [x \in Actor |-> Nil]

-----------------------------------------------------------------------------
(* Connections *)

\* The read pump of c hands over the next message.  Messages that were read
\* before the socket was closed are still handled, so c may have left h.clients.
Ready(c) == c \in reading /\ frame[c] = Nil

Then(x, f) == frame' = [frame EXCEPT ![x] = f]

\* What handleKickMember has collected and not closed yet.
BeingClosed ==
    UNION {frame[x].closing :
        x \in {y \in Actor : frame[y] # Nil /\ frame[y].op \in {"kicked", "close", "ousted"}}}

\* A new Client: one that no map, handler or goroutine still refers to.
ServeWs(c) ==
    /\ c \notin reading /\ frame[c] = Nil
    /\ c \notin BeingClosed
    /\ \A u \in User : c \notin userClients[u]
    /\ \A ch \in Channel : c \notin voiceChannels[ch]
    /\ clients' = clients \cup {c}
    /\ reading' = reading \cup {c}
    /\ UNCHANGED <<rows, userClients, voiceChannels, voiceStates, authed, active, frame>>

\* A mistake: the roster is left as it is.
StatesKept(c) == voiceStates

\* The roster once c has gone: the user leaves it when c was in voice, and when c
\* was the user's last connection.
StatesWithout(c) ==
    IF active[c] # Nil \/ userClients[UserOf[c]] \subseteq {c}
    THEN [voiceStates EXCEPT ![UserOf[c]] = Nil] ELSE voiceStates

\* handleClientDisconnect up to the unlock, for c in h.clients.
Disconnect(c) ==
    /\ clients' = clients \ {c}
    /\ IF c \notin authed
       THEN UNCHANGED <<userClients, voiceChannels, voiceStates>>
       ELSE /\ userClients' = [userClients EXCEPT ![UserOf[c]] = @ \ {c}]
            /\ voiceChannels' = [ch \in Channel |->
                    IF ch = active[c] THEN voiceChannels[ch] \ {c} ELSE voiceChannels[ch]]
            /\ voiceStates' = StatesWithout(c)

\* Whether handleClientDisconnect goes on to RemoveSession.
Departs(c) == c \in clients /\ c \in authed /\ active[c] # Nil

\* The read pump ends.  Nothing reads the fields of c any more.
ReadEnds(c) ==
    /\ Ready(c)
    /\ reading' = reading \ {c}
    /\ IF c \in clients THEN Disconnect(c) ELSE UNCHANGED maps
    /\ authed' = authed \ {c}
    /\ active' = [active EXCEPT ![c] = Nil]
    /\ Then(c, IF Departs(c) THEN [op |-> "remove", user |-> UserOf[c]] ELSE Nil)
    /\ UNCHANGED rows

\* Send found the buffer full; Run takes the connection from h.unregister.
Overflow(c) ==
    /\ frame[Run] = Nil
    /\ c \in clients
    /\ Disconnect(c)
    /\ Then(Run, IF Departs(c) THEN [op |-> "remove", user |-> UserOf[c]] ELSE Nil)
    /\ UNCHANGED <<rows, reading, authed, active>>

-----------------------------------------------------------------------------
(* Accounts *)

\* register and login: a session row, then the fields of the Client.  A Client
\* that is authenticated may ask again.
Login(c) ==
    /\ Ready(c)
    /\ rows' = rows \cup {UserOf[c]}
    /\ authed' = authed \cup {c}
    /\ Then(c, [op |-> "enroll"])
    /\ UNCHANGED <<maps, reading, active>>

\* auth with a session token.
Auth(c) ==
    /\ Ready(c)
    /\ UserOf[c] \in rows
    /\ authed' = authed \cup {c}
    /\ Then(c, [op |-> "enroll"])
    /\ UNCHANGED <<rows, maps, reading, active>>

\* The second half of all three: into userClients, whether or not c is still in
\* h.clients.
Enroll(c) ==
    /\ frame[c] # Nil /\ frame[c].op = "enroll"
    /\ userClients' = [userClients EXCEPT ![UserOf[c]] = @ \cup {c}]
    /\ Then(c, Nil)
    /\ UNCHANGED <<rows, clients, voiceChannels, voiceStates, reading, authed, active>>

-----------------------------------------------------------------------------
(* Voice *)

HasRoom(c, ch) == Cardinality(voiceChannels[ch]) < Limit \/ c \in voiceChannels[ch]

\* A mistake: h.clients is not looked at again under the lock.
MayJoinLate(c, ch) == HasRoom(c, ch)

MayJoin(c, ch) == c \in clients /\ HasRoom(c, ch)

\* join_voice up to the unlock.
JoinVoice(c, ch) ==
    /\ Ready(c) /\ c \in authed
    /\ MayJoin(c, ch)
    /\ voiceChannels' = [d \in Channel |->
            IF d = ch THEN voiceChannels[d] \cup {c}
            ELSE IF d = active[c] THEN voiceChannels[d] \ {c} ELSE voiceChannels[d]]
    /\ active' = [active EXCEPT ![c] = ch]
    /\ voiceStates' = [voiceStates EXCEPT ![UserOf[c]] =
            [channel |-> ch, muted |-> FALSE, deafened |-> FALSE]]
    /\ Then(c, [op |-> "issue", channel |-> ch])
    /\ UNCHANGED <<rows, clients, userClients, reading, authed>>

\* GenerateUDPToken.
IssueToken(c) ==
    /\ frame[c] # Nil /\ frame[c].op = "issue"
    /\ Then(c, [op |-> "pend", channel |-> frame[c].channel])
    /\ UNCHANGED <<rows, maps, reading, authed, active>>

\* RegisterPending and the reply.
PendToken(c) ==
    /\ frame[c] # Nil /\ frame[c].op = "pend"
    /\ Then(c, Nil)
    /\ UNCHANGED <<rows, maps, reading, authed, active>>

\* A mistake: the voice state is reset instead of deleted.
LeaveVoiceReset(c) ==
    /\ Ready(c) /\ c \in authed
    /\ active[c] # Nil
    /\ voiceChannels' = [voiceChannels EXCEPT ![active[c]] = @ \ {c}]
    /\ active' = [active EXCEPT ![c] = Nil]
    /\ voiceStates' = [voiceStates EXCEPT ![UserOf[c]] =
            [channel |-> Nil, muted |-> FALSE, deafened |-> FALSE]]
    /\ Then(c, [op |-> "remove", user |-> UserOf[c]])
    /\ UNCHANGED <<rows, clients, userClients, reading, authed>>

\* leave_voice up to the unlock.
LeaveVoice(c) ==
    /\ Ready(c) /\ c \in authed
    /\ IF active[c] = Nil THEN UNCHANGED <<voiceChannels, active, voiceStates>>
       ELSE /\ voiceChannels' = [voiceChannels EXCEPT ![active[c]] = @ \ {c}]
            /\ active' = [active EXCEPT ![c] = Nil]
            /\ voiceStates' = [voiceStates EXCEPT ![UserOf[c]] = Nil]
    /\ Then(c, [op |-> "remove", user |-> UserOf[c]])
    /\ UNCHANGED <<rows, clients, userClients, reading, authed>>

\* RemoveSession for a user who has left voice or disconnected.
SfuRemove(x) ==
    /\ frame[x] # Nil /\ frame[x].op = "remove"
    /\ Then(x, Nil)
    /\ UNCHANGED <<rows, maps, reading, authed, active>>

-----------------------------------------------------------------------------
(* Moderation *)

Moderates(c) == Ready(c) /\ c \in authed /\ c \in Moderator

\* A mistake: the user's connections stay where they are.
ConnsStay(u, to) == voiceChannels

\* All the connections of the user go along, in voice or not, and the limit of the
\* channel is not looked at.
ConnsMoved(u, to) ==
    [ch \in Channel |->
        IF ch = to THEN voiceChannels[ch] \cup userClients[u]
        ELSE IF ch = voiceStates[u].channel THEN voiceChannels[ch] \ userClients[u]
        ELSE voiceChannels[ch]]

\* move_member up to the unlock.
MoveMember(c, u, to) ==
    /\ Moderates(c)
    /\ voiceStates[u] # Nil
    /\ voiceStates' = [voiceStates EXCEPT ![u].channel = to]
    /\ voiceChannels' = ConnsMoved(u, to)
    /\ active' = [d \in Conn |-> IF d \in userClients[u] THEN to ELSE active[d]]
    /\ Then(c, [op |-> "move", user |-> u, channel |-> to])
    /\ UNCHANGED <<rows, clients, userClients, reading, authed>>

SfuMove(c) ==
    /\ frame[c] # Nil /\ frame[c].op = "move"
    /\ Then(c, Nil)
    /\ UNCHANGED <<rows, maps, reading, authed, active>>

\* set_server_mute and set_server_deafen up to the unlock.
SetServerFlag(c, u, flag, on) ==
    /\ Moderates(c)
    /\ voiceStates' = IF voiceStates[u] = Nil THEN voiceStates
                      ELSE [voiceStates EXCEPT ![u][flag] = on]
    /\ Then(c, [op |-> "flag", user |-> u, flag |-> flag, on |-> on])
    /\ UNCHANGED <<rows, clients, userClients, voiceChannels, reading, authed, active>>

SfuFlag(c) ==
    /\ frame[c] # Nil /\ frame[c].op = "flag"
    /\ Then(c, Nil)
    /\ UNCHANGED <<rows, maps, reading, authed, active>>

\* kick_member: storage first ...
KickMember(c, u) ==
    /\ Moderates(c)
    /\ rows' = rows \ {u}
    /\ Then(c, [op |-> "revoked", user |-> u])
    /\ UNCHANGED <<maps, reading, authed, active>>

\* ... then the maps, in one critical section ...
KickFromMaps(c) ==
    LET u == frame[c].user IN
    /\ frame[c] # Nil /\ frame[c].op = "revoked"
    /\ IF voiceStates[u] = Nil THEN UNCHANGED <<voiceChannels, voiceStates>>
       ELSE /\ voiceChannels' =
                    [voiceChannels EXCEPT ![voiceStates[u].channel] = @ \ userClients[u]]
            /\ voiceStates' = [voiceStates EXCEPT ![u] = Nil]
    /\ Then(c, [op |-> "kicked", user |-> u, closing |-> userClients[u]])
    /\ UNCHANGED <<rows, clients, userClients, reading, authed, active>>

\* ... then the SFU, here and after every connection that was in voice ...
KickFromSfu(c) ==
    /\ frame[c] # Nil /\ frame[c].op \in {"kicked", "ousted"}
    /\ Then(c, [op |-> "close", user |-> frame[c].user, closing |-> frame[c].closing])
    /\ UNCHANGED <<rows, maps, reading, authed, active>>

\* ... and then every connection is closed in turn.
KickConn(c, d) ==
    /\ frame[c] # Nil /\ frame[c].op = "close"
    /\ d \in frame[c].closing
    /\ IF d \in clients THEN Disconnect(d) ELSE UNCHANGED maps
    /\ Then(c, [op |-> IF Departs(d) THEN "ousted" ELSE "close", user |-> frame[c].user,
                closing |-> frame[c].closing \ {d}])
    /\ UNCHANGED <<rows, reading, authed, active>>

KickEnds(c) ==
    /\ frame[c] # Nil /\ frame[c].op = "close" /\ frame[c].closing = {}
    /\ Then(c, Nil)
    /\ UNCHANGED <<rows, maps, reading, authed, active>>

-----------------------------------------------------------------------------

\* The steps that touch only the hub's own state and the sessions table.
HubLocal ==
    \/ \E c \in Conn : ServeWs(c) \/ ReadEnds(c) \/ Login(c) \/ Auth(c) \/ Enroll(c)
    \/ \E c \in SlowConn : Overflow(c)
    \/ \E c \in VoiceConn, ch \in Channel : JoinVoice(c, ch)
    \/ \E c \in Conn : LeaveVoice(c)
    \/ \E c \in Moderator, u \in Movable, to \in Channel : MoveMember(c, u, to)
    \/ \E c \in Moderator, u \in Flagged, f \in Flag, on \in BOOLEAN :
          SetServerFlag(c, u, f, on)
    \/ \E c \in Moderator, d \in Conn : KickConn(c, d)
    \/ \E c \in Moderator : KickFromMaps(c) \/ KickEnds(c)

\* The steps that are a call into the SFU or issue or revoke voice tokens.
HubCalls ==
    \/ \E c \in VoiceConn : IssueToken(c) \/ PendToken(c)
    \/ \E x \in Actor : SfuRemove(x)
    \/ \E c \in Moderator : SfuMove(c) \/ SfuFlag(c) \/ KickFromSfu(c)
    \/ \E c \in Moderator, u \in Kickable : KickMember(c, u)

Next == HubLocal \/ HubCalls

Spec == Init /\ [][Next]_hubVars

-----------------------------------------------------------------------------
(* Properties *)

\* The occupants of a room are connected and believe they are there.  A departed
\* connection that stayed would count against user_limit for ever, which is what
\* join_voice's second look at h.clients prevents.
RoomsAgree ==
    \A ch \in Channel : \A c \in voiceChannels[ch] : c \in clients /\ active[c] = ch

\* The roster agrees with the rooms: the user of an occupant is shown in the room
\* it occupies.  True only while a user has one connection (voiceStates is keyed by
\* user, voiceChannels holds connections).
VoiceStateKept ==
    \A ch \in Channel : \A c \in voiceChannels[ch] :
        voiceStates[UserOf[c]] # Nil /\ voiceStates[UserOf[c]].channel = ch

\* And the rooms agree with the roster: a user shown in a room has a connection
\* there, through every race of joins, moves, kicks and disconnects.
VoiceStateBacked ==
    \A u \in User : voiceStates[u] # Nil =>
        \E c \in voiceChannels[voiceStates[u].channel] : UserOf[c] = u

=============================================================================
