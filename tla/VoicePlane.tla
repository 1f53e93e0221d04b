----------------------------- MODULE VoicePlane -----------------------------
(***************************************************************************)
(* The hub and the SFU together: what a handler of the hub does after it   *)
(* has released the hub's lock is a call into the SessionManager or into   *)
(* the voice_tokens table, made while the read loop, the cleanup loop and  *)
(* the other handlers run.                                                 *)
(*                                                                         *)
(* Every step of the hub that makes such a call is joined with the action  *)
(* of the SFU it calls; every other step leaves the other half alone.      *)
(***************************************************************************)
EXTENDS SfuRouter

CONSTANTS
    Conn, Run, UserOf, Limit, VoiceConn, Moderator, Movable, Flagged, Kickable,
    SlowConn    \* as in Hub

VARIABLES
    rows, clients, userClients, voiceChannels, voiceStates, reading, authed,
    active, frame,  \* as in Hub
    udp             \* users whose client has its UDP socket open and pings

H == INSTANCE Hub

hub == <<rows, clients, userClients, voiceChannels, voiceStates, reading, authed,
         active, frame>>
planeVars == <<vars, hub, udp>>

ASSUME VoicePlaneAssumption ==
    /\ UserOf \in [Conn -> User]
    /\ Limit \in Nat
    /\ Nil \notin Channel /\ Nil \notin H!VoiceState /\ Nil \notin H!Frame
    /\ Run \notin Conn
    /\ VoiceConn \subseteq Conn /\ Moderator \subseteq Conn /\ SlowConn \subseteq Conn
    /\ Movable \subseteq User /\ Kickable \subseteq User
    /\ Flagged \subseteq Muted /\ Flagged \subseteq Deafened

PlaneInit == Init /\ H!Init /\ udp = {}

-----------------------------------------------------------------------------
(* The calls of the handlers: each does nothing when it finds nothing.     *)

Removes(u) ==
    IF byUser[u] # Nil \/ PendingOf(u) # {} THEN Leave(u) ELSE UNCHANGED vars

Moves(u, to) == IF byUser[u] # Nil THEN Move(u, to) ELSE UNCHANGED vars

Flags(u, flag, on) ==
    IF byUser[u] = Nil THEN UNCHANGED vars
    ELSE \/ flag = "muted" /\ Mute(u, on)
         \/ flag = "deafened" /\ Deafen(u, on)

Revokes(u) ==
    IF \E t \in Open(u) : ~tokens[t].revoked THEN RevokeVoiceTokens(u) ELSE UNCHANGED vars

\* A mistake: the token is answered and registered before its row is written.
IssueAtOnce(c) ==
    /\ H!IssueToken(c)
    /\ \E t \in Token :
          /\ tokens[t] = Nil
          /\ Underway(UserOf[c]) < MaxOpen
          /\ tokens' = [tokens EXCEPT ![t] =
                [userID |-> UserOf[c], channelID |-> frame[c].channel, age |-> 0,
                 pending |-> TRUE, stored |-> FALSE, sent |-> TRUE,
                 copies |-> Copies, revoked |-> FALSE]]
    /\ UNCHANGED <<heap, byUser, byAddr, byChannel, held, redeemed, quiet, udp>>

Issue(c) ==
    /\ H!IssueToken(c)
    /\ \E t \in Token : CreateVoiceToken(t, UserOf[c], frame[c].channel)
    /\ UNCHANGED udp

\* The reply opens the client's socket if the connection is still there to carry it.
Pend(c) ==
    /\ H!PendToken(c)
    /\ \E t \in Open(UserOf[c]) : RegisterPending(t)
    /\ udp' = IF c \in clients THEN udp \cup {UserOf[c]} ELSE udp

Remove(x) == H!SfuRemove(x) /\ Removes(frame[x].user) /\ UNCHANGED udp

MoveInSfu(c) ==
    H!SfuMove(c) /\ Moves(frame[c].user, frame[c].channel) /\ UNCHANGED udp

FlagInSfu(c) ==
    H!SfuFlag(c) /\ Flags(frame[c].user, frame[c].flag, frame[c].on) /\ UNCHANGED udp

KickFromStorage(c, u) == H!KickMember(c, u) /\ Revokes(u) /\ UNCHANGED udp

RemoveKicked(c) == H!KickFromSfu(c) /\ Removes(frame[c].user) /\ UNCHANGED udp

-----------------------------------------------------------------------------

\* The client closes its socket: it has left, was kicked, or has quit.  A lost
\* WebSocket connection does not make it do so.
Hangup(u) == u \in udp /\ udp' = udp \ {u} /\ UNCHANGED <<vars, hub>>

Calls ==
    \/ \E c \in VoiceConn : Issue(c) \/ Pend(c)
    \/ \E x \in Conn \cup {Run} : Remove(x)
    \/ \E c \in Moderator : MoveInSfu(c) \/ FlagInSfu(c) \/ RemoveKicked(c)
    \/ \E c \in Moderator, u \in Kickable : KickFromStorage(c, u)

\* Pings and voice come from the clients whose sockets are open.
Media ==
    \/ \E t \in Token, a \in Addr : HandleHandshake(t, a)
    \/ \E t \in Token : LoseHandshake(t)
    \/ HandshakeRegister
    \/ \E u \in Speakers \cap udp, ch \in Channel : \E a \in AddrsOf[u] : HandleVoice(u, ch, a)
    \/ \E p \in SessionId : Forward(p)
    \/ \E u \in udp : \E a \in AddrsOf[u] : HandlePing(u, a)
    \/ Clean
    \/ Tick

PlaneNext ==
    \/ Calls
    \/ H!HubLocal /\ UNCHANGED <<vars, udp>>
    \/ Media /\ UNCHANGED <<hub, udp>>
    \/ \E u \in User : Hangup(u)

\* The cleanup ticker and the clock run for ever.
PlaneSpec ==
    /\ PlaneInit /\ [][PlaneNext]_planeVars
    /\ WF_planeVars(Clean /\ UNCHANGED <<hub, udp>>)
    /\ WF_planeVars(Tick /\ UNCHANGED <<hub, udp>>)

-----------------------------------------------------------------------------
(* Properties *)

\* Everything the hub makes the SFU do is something SfuRouter allows, so that
\* what is shown of SfuRouter holds with the real control plane.
SfuImplemented == Spec

\* A member of no room whose client has closed its socket does not keep a session
\* for ever, although a handshake that was under way can open one after the leave,
\* the kick or the disconnect (router.go:221, server.go:153).
GhostSessionsGo ==
    \A u \in User :
        (byUser[u] # Nil /\ voiceStates[u] = Nil /\ u \notin udp) ~>
        (byUser[u] = Nil \/ voiceStates[u] # Nil \/ u \in udp)

BeingFlagged(u) ==
    \E c \in Moderator : frame[c] # Nil /\ frame[c].op = "flag" /\ frame[c].user = u

\* "Server-mute is enforced server-side" (test/tier3_interactions/
\* test_mod_server_mute.py:6): whom the roster shows muted, the SFU mutes.
MuteEnforced ==
    \A u \in User :
        /\ voiceStates[u] # Nil
        /\ byUser[u] # Nil
        /\ ~BeingFlagged(u)
        /\ voiceStates[u].muted
        => heap[byUser[u]].muted

=============================================================================
