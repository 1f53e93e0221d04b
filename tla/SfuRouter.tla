------------------------------ MODULE SfuRouter ------------------------------
(***************************************************************************)
(* The SFU of backend/internal/audio: router.go and server.go over the     *)
(* SessionManager.  Three kinds of goroutine run concurrently:             *)
(*                                                                         *)
(*   - the read loop, one datagram at a time (HandleVoice, HandlePing,     *)
(*     HandleHandshake);                                                   *)
(*   - the cleanup loop (CleanStaleSessions);                              *)
(*   - the control plane's handlers (join, leave, kick, move, mute,        *)
(*     deafen), which call the SessionManager and storage at any time.     *)
(*                                                                         *)
(* A handler of the read loop is cut where a step of another goroutine     *)
(* between two of its calls can be seen: between redeeming a stored token  *)
(* and registering the session, and between two writes of one fan-out.     *)
(***************************************************************************)
EXTENDS SessionManager

CONSTANTS
    AddrsOf,    \* User -> addresses its datagrams can come from
    Copies,     \* handshake datagrams one join can deliver (the client sends 3)
    MaxDelay,   \* largest token age, in ticks, at which one still arrives
    MaxOpen,    \* joins of one user whose handshakes can be under way at once
    Speakers,   \* users that send voice packets (all of them also ping)
    Muted,      \* users the moderators mute
    Deafened    \* users the moderators deafen

ASSUME SfuRouterAssumption ==
    /\ AddrsOf \in [User -> SUBSET Addr]
    /\ Copies \in Nat /\ MaxDelay \in Nat /\ MaxOpen \in Nat
    /\ Speakers \subseteq User /\ Muted \subseteq User /\ Deafened \subseteq User

VARIABLES
    redeemed,   \* the handshake between ConsumeVoiceToken and RegisterSession
    quiet       \* history: ticks since the user's last ping was handled or its
                \* session was made

vars == <<heap, byUser, byAddr, byChannel, tokens, held, redeemed, quiet>>

Handshake == [userID : User, channelID : Channel, addr : Addr]

TypeOK ==
    /\ heap \in [SessionId -> Session \cup {Nil}]
    /\ byUser \in [User -> SessionId \cup {Nil}]
    /\ byAddr \in [Addr -> SessionId \cup {Nil}]
    /\ byChannel \in [Channel -> [User -> SessionId \cup {Nil}]]
    /\ tokens \in [Token -> VoiceToken(Copies) \cup {Nil}]
    /\ held \in SUBSET SessionId
    /\ redeemed \in Handshake \cup {Nil}
    /\ quiet \in [User -> 0..(MaxIdle + 1)]

Init == SmInit /\ redeemed = Nil /\ quiet = [u \in User |-> 0]

\* A mistake: datagrams are handled concurrently.
ReadingAtOnce == TRUE

\* readLoop hands the next datagram over only when HandlePacket has returned.
Reading == held = {} /\ redeemed = Nil

-----------------------------------------------------------------------------
(* The control plane *)

Open(u) == {t \in Token : tokens[t] # Nil /\ tokens[t].userID = u}

\* The joins of u whose handshakes are under way, the one being redeemed included.
Underway(u) ==
    Cardinality(Open(u))
    + (IF redeemed # Nil /\ redeemed.userID = u THEN 1 ELSE 0)

\* GenerateUDPToken: the row is committed before RegisterPending runs.
CreateVoiceToken(t, u, c) ==
    /\ tokens[t] = Nil
    /\ Underway(u) < MaxOpen
    /\ tokens' = [tokens EXCEPT ![t] =
            [userID |-> u, channelID |-> c, age |-> 0, pending |-> FALSE,
             stored |-> TRUE, sent |-> FALSE, copies |-> 0,
             revoked |-> FALSE]]
    /\ UNCHANGED <<heap, byUser, byAddr, byChannel, held, redeemed, quiet>>

\* RegisterPending, then the join_voice response; the client answers it with
\* its handshakes.
RegisterPending(t) ==
    /\ tokens[t] # Nil /\ ~tokens[t].sent
    /\ tokens' = [tokens EXCEPT ![t] =
            [@ EXCEPT !.pending = TRUE, !.sent = TRUE, !.copies = Copies]]
    /\ UNCHANGED <<heap, byUser, byAddr, byChannel, held, redeemed, quiet>>

\* leave_voice and disconnect; a kick after RevokeVoiceTokens.
Leave(u) ==
    /\ RemoveSession(u)
    /\ quiet' = [quiet EXCEPT ![u] = 0]
    /\ UNCHANGED redeemed

\* The kick's storage step: the user's rows are deleted.
RevokeVoiceTokens(u) ==
    /\ \E t \in Open(u) : ~tokens[t].revoked
    /\ tokens' = [t \in Token |->
            IF t \in Open(u)
            THEN [tokens[t] EXCEPT !.stored = FALSE, !.revoked = TRUE]
            ELSE tokens[t]]
    /\ UNCHANGED <<heap, byUser, byAddr, byChannel, held, redeemed, quiet>>

Move(u, to) == MoveMember(u, to) /\ UNCHANGED <<redeemed, quiet>>

Mute(u, m) == SetServerMute(u, m) /\ UNCHANGED <<redeemed, quiet>>

Deafen(u, d) == SetServerDeafen(u, d) /\ UNCHANGED <<redeemed, quiet>>

-----------------------------------------------------------------------------
(* The read loop *)

\* handleHandshake's session creation: the history variables follow.
Registers(u, c, a) ==
    /\ RegisterSession(u, c, a)
    /\ quiet' = [quiet EXCEPT ![u] = 0]

\* The token after a handshake carrying it has been taken off the network.
Taken(t) == [tokens[t] EXCEPT !.copies = @ - 1]

\* A mistake: a handshake can be replayed without limit.
ArrivesAgain(t, a) ==
    /\ Reading
    /\ tokens[t] # Nil
    /\ a \in AddrsOf[tokens[t].userID]
    /\ tokens[t].age <= MaxDelay

\* A handshake datagram that carries t arrives.  The client builds it once,
\* with the channel the token was issued for.
Arrives(t, a) ==
    /\ Reading
    /\ tokens[t] # Nil /\ tokens[t].copies > 0
    /\ a \in AddrsOf[tokens[t].userID]
    /\ tokens[t].age <= MaxDelay

Activatable(t) == tokens[t].pending /\ Fresh(tokens[t])

Redeemable(t) == ~Activatable(t) /\ tokens[t].stored /\ Fresh(tokens[t])

\* 1. ActivatePending succeeds.
HandshakeActivate(t, a) ==
    /\ Arrives(t, a) /\ Activatable(t)
    /\ tokens' = Retired([tokens EXCEPT ![t] =
            [Taken(t) EXCEPT !.pending = FALSE]])
    /\ Registers(tokens[t].userID, tokens[t].channelID, a)
    /\ UNCHANGED redeemed

\* 2. ConsumeVoiceToken succeeds; RegisterSession is still to come.
HandshakeRedeem(t, a) ==
    /\ Arrives(t, a) /\ Redeemable(t)
    /\ tokens' = Retired([tokens EXCEPT ![t] =
            [Taken(t) EXCEPT !.stored = FALSE]])
    /\ redeemed' = [userID |-> tokens[t].userID,
                    channelID |-> tokens[t].channelID, addr |-> a]
    /\ UNCHANGED <<heap, byUser, byAddr, byChannel, held, quiet>>

HandshakeRegister ==
    /\ redeemed # Nil
    /\ Registers(redeemed.userID, redeemed.channelID, redeemed.addr)
    /\ redeemed' = Nil
    /\ UNCHANGED tokens

\* 3. Both have failed (an expired pending token was deleted on the way): the
\* user's session is given the channel of the packet, with no change to
\* byChannel, and its source address ...
HandshakeExisting(t, a) ==
    LET u == tokens[t].userID IN
    /\ Arrives(t, a) /\ ~Activatable(t) /\ ~Redeemable(t)
    /\ byUser[u] # Nil
    /\ tokens' = Retired([tokens EXCEPT ![t] = [Taken(t) EXCEPT !.pending = FALSE]])
    /\ byAddr' = AddrMoved(u, a)
    /\ UNCHANGED <<byUser, byChannel, held, redeemed, quiet>>
    /\ heap' = Collect(SetAddr(
            [heap EXCEPT ![byUser[u]].channelID = tokens[t].channelID], u, a))

\* ... or, without a session, is given one.
HandshakeFallback(t, a) ==
    /\ Arrives(t, a) /\ ~Activatable(t) /\ ~Redeemable(t)
    /\ byUser[tokens[t].userID] = Nil
    /\ tokens' = Retired([tokens EXCEPT ![t] = [Taken(t) EXCEPT !.pending = FALSE]])
    /\ Registers(tokens[t].userID, tokens[t].channelID, a)
    /\ UNCHANGED redeemed

HandleHandshake(t, a) ==
    \/ HandshakeActivate(t, a) \/ HandshakeRedeem(t, a)
    \/ HandshakeExisting(t, a) \/ HandshakeFallback(t, a)

\* The network loses a handshake.
LoseHandshake(t) ==
    /\ tokens[t] # Nil /\ tokens[t].copies > 0
    /\ tokens' = Retired([tokens EXCEPT ![t] = Taken(t)])
    /\ UNCHANGED <<heap, byUser, byAddr, byChannel, held, redeemed, quiet>>

\* handleVoice's lookup: by user, else by address if it is the same user's.
VoiceSession(u, a) ==
    IF byUser[u] # Nil THEN byUser[u]
    ELSE IF byAddr[a] # Nil /\ heap[byAddr[a]].userID = u THEN byAddr[a] ELSE Nil

\* handleVoice up to the fan-out: no session or another channel drops the
\* packet; the address follows the sender; a muted sender stops here; the
\* others are touched (UpdateSpeakingState) and the peers are collected.
HandleVoice(u, c, a) ==
    LET s == VoiceSession(u, a)
        roamed == heap[s].addr # a
        h == IF roamed THEN SetAddr(heap, u, a) ELSE heap
    IN
    /\ Reading
    /\ s # Nil
    /\ heap[s].channelID = c
    /\ byAddr' = IF roamed THEN AddrMoved(u, a) ELSE byAddr
    /\ held' = IF heap[s].muted THEN {} ELSE GetChannelPeers(c, u)
    /\ UNCHANGED <<byUser, byChannel, tokens, redeemed, quiet>>
    /\ heap' = Collect(IF heap[s].muted THEN h ELSE Touch(h, s))

\* One turn of the fan-out: the packet is written to the peer's address unless
\* the peer is deafened now.
Forward(p) ==
    /\ p \in held
    /\ held' = held \ {p}
    /\ UNCHANGED <<byUser, byAddr, byChannel, tokens, redeemed, quiet>>
    /\ heap' = Collect(heap)

\* handlePing: by user, else whatever session the address has.
PingSession(u, a) == IF byUser[u] # Nil THEN byUser[u] ELSE byAddr[a]

HandlePing(u, a) ==
    LET s == PingSession(u, a)
        w == heap[s].userID
        roamed == heap[s].addr # a
    IN
    /\ Reading
    /\ s # Nil
    /\ byAddr' = IF roamed THEN AddrMoved(w, a) ELSE byAddr
    /\ quiet' = [quiet EXCEPT ![u] = 0]
    /\ UNCHANGED <<byUser, byChannel, tokens, held, redeemed>>
    /\ heap' = Collect(IF roamed THEN SetAddr(heap, w, a) ELSE Touch(heap, s))

-----------------------------------------------------------------------------
(* The cleanup loop and the clock *)

Clean ==
    /\ CleanStaleSessions
    /\ quiet' = [u \in User |-> IF u \in Stale THEN 0 ELSE quiet[u]]
    /\ UNCHANGED redeemed

Older(n, top) == IF n > top THEN n ELSE n + 1

Tick ==
    /\ heap' = [s \in SessionId |-> IF heap[s] = Nil THEN Nil
                    ELSE [heap[s] EXCEPT !.idle = Older(@, MaxIdle)]]
    /\ tokens' = [t \in Token |-> IF tokens[t] = Nil THEN Nil
                    ELSE [tokens[t] EXCEPT !.age = Older(@, TokenTTL)]]
    /\ quiet' = [u \in User |-> IF byUser[u] = Nil THEN quiet[u]
                                ELSE Older(quiet[u], MaxIdle)]
    /\ UNCHANGED <<byUser, byAddr, byChannel, held, redeemed>>

-----------------------------------------------------------------------------

ControlPlane ==
    \/ \E t \in Token, u \in User, c \in Channel : CreateVoiceToken(t, u, c)
    \/ \E t \in Token : RegisterPending(t)
    \/ \E u \in User : Leave(u) \/ RevokeVoiceTokens(u)
    \/ \E u \in User, to \in Channel : Move(u, to)
    \/ \E u \in Muted, m \in BOOLEAN : Mute(u, m)
    \/ \E u \in Deafened, d \in BOOLEAN : Deafen(u, d)

ReadLoop ==
    \/ \E t \in Token, a \in Addr : HandleHandshake(t, a)
    \/ HandshakeRegister
    \/ \E u \in Speakers, c \in Channel : \E a \in AddrsOf[u] : HandleVoice(u, c, a)
    \/ \E p \in SessionId : Forward(p)
    \/ \E u \in User : \E a \in AddrsOf[u] : HandlePing(u, a)

Next == ControlPlane \/ ReadLoop \/ (\E t \in Token : LoseHandshake(t)) \/ Clean \/ Tick

Spec == Init /\ [][Next]_vars

-----------------------------------------------------------------------------
(* What RoomIsolation and FanoutLive suppose of the surroundings.  The code     *)
(* enforces neither: a handshake is sent three times (voice_client.dart), and   *)
(* a copy that comes after a move puts the session's channel back.              *)

\* A user's joins come one after another, and no handshake outlives its token.
Prompt == MaxOpen <= 1 /\ MaxDelay <= TokenTTL

\* A copy can still arrive of a handshake whose token memory no longer holds.
Trailing(t) ==
    /\ tokens[t] # Nil /\ tokens[t].sent /\ ~tokens[t].pending
    /\ tokens[t].copies > 0 /\ tokens[t].age <= MaxDelay

\* Members are moved only when no copy of theirs trails.
Settled ==
    \A u \in User, to \in Channel : Move(u, to) => \A t \in Open(u) : ~Trailing(t)

SettledSpec == Init /\ [][Next /\ Settled]_vars /\ WF_vars(Clean)

-----------------------------------------------------------------------------
(* Properties *)

\* The owner of every entry: a session is filed only under its own user, and the
\* live session of a user is always in some channel's map, so that the user can
\* be heard and can hear (session.go: register, move, remove, clean).
OwnTables ==
    /\ \A u \in User : byUser[u] # Nil =>
          /\ heap[byUser[u]] # Nil
          /\ heap[byUser[u]].userID = u
          /\ \E c \in Channel : byChannel[c][u] = byUser[u]
    /\ \A c \in Channel, u \in User : byChannel[c][u] # Nil =>
          heap[byChannel[c][u]] # Nil /\ heap[byChannel[c][u]].userID = u

\* The address index never outlives what it indexes: an entry names a live
\* session that is at that very address, whatever the order of roaming, address
\* reuse by another user, replacement, eviction and removal.
AddrIndexSound ==
    \A a \in Addr : byAddr[a] # Nil =>
        /\ heap[byAddr[a]] # Nil
        /\ heap[byAddr[a]].addr = a
        /\ byUser[heap[byAddr[a]].userID] = byAddr[a]

\* handleVoice's second lookup, by address, never finds a session the first one
\* missed: a sender without a session is never let in through its address.
AddressLookupRedundant ==
    \A u \in User, a \in Addr : VoiceSession(u, a) = byUser[u]

\* Room isolation ("SessionManager manages ... room isolation for all active UDP
\* sessions", session.go:112): who receives a channel's audio is exactly who is
\* a live member of it.
RoomIsolation ==
    \A c \in Channel, u \in User : byChannel[c][u] # Nil =>
        byChannel[c][u] = byUser[u] /\ heap[byUser[u]].channelID = c

\* What a voice packet is about to be written to is the live session of its user
\* (so the deafen flag tested is the one the moderators set), unless the session
\* was removed after the peers were collected.
FanoutLive == \A p \in held : byUser[heap[p].userID] \in {p, Nil}

\* The scavenger evicts no user whose ping was handled within MaxIdle, whatever
\* address the ping came from (the silent listener of router.go:140-141).
KeepAlive == [][Clean => \A u \in User : u \in Stale => quiet[u] > MaxIdle]_vars

\* A token a kick has revoked and memory no longer holds gives no session.
RevokedIsFinal ==
    [][\A t \in Token, a \in Addr :
        tokens[t] # Nil /\ tokens[t].revoked /\ ~tokens[t].pending =>
            ~HandshakeFallback(t, a)]_vars

\* A peer that has been silent for longer than MaxIdle does not stay in a room's
\* audience for ever (cleanupLoop): it is dropped or it is heard again.
SilentPeersDropped ==
    \A c \in Channel, u \in User :
        (byChannel[c][u] # Nil /\ heap[byChannel[c][u]].idle > MaxIdle) ~>
        (byChannel[c][u] = Nil \/ heap[byChannel[c][u]].idle <= MaxIdle)

=============================================================================
