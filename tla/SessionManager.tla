---------------------------- MODULE SessionManager ----------------------------
(***************************************************************************)
(* The SessionManager of backend/internal/audio/session.go: the routing    *)
(* tables of the SFU.                                                      *)
(*                                                                         *)
(* Go keeps *Session pointers in three maps (byUser, byAddr, byChannel).   *)
(* An object that has left byUser can survive in another map, so pointer   *)
(* identity matters and the model keeps an explicit heap.  An object that  *)
(* no map and no goroutine refers to is collected (Collect), which is what *)
(* lets its identifier be used again.                                      *)
(*                                                                         *)
(* Every operator here is what one method does under SessionManager.mu:    *)
(* SfuRouter turns them into actions.                                      *)
(***************************************************************************)
EXTENDS Integers, FiniteSets

CONSTANTS
    User,       \* user IDs
    Channel,    \* voice channel IDs
    Addr,       \* UDP source addresses (net.Addr as a string)
    Token,      \* token strings that can be outstanding at one time (bound)
    SessionId,  \* heap identifiers of Session objects (bound)
    Nil,        \* the nil pointer, an absent map entry
    MaxIdle,    \* the maxIdle of CleanStaleSessions, in clock ticks
    TokenTTL    \* life of a voice token, in clock ticks

VARIABLES
    heap,       \* SessionId -> Session object
    byUser,     \* map[uint32]*Session
    byAddr,     \* map[string]*Session
    byChannel,  \* map[uint32]map[uint32]*Session
    tokens,     \* token string -> what memory, storage and network hold of it
    held        \* the pointers GetChannelPeers returned and handleVoice has
                \* not yet written to

smVars == <<heap, byUser, byAddr, byChannel, tokens, held>>

(***************************************************************************)
(* LastSeen is kept as the number of clock ticks since it was set, which   *)
(* is all CleanStaleSessions reads of it; it saturates one past MaxIdle.   *)
(* SSRC, IsSpeaking and EnergyLevel are read by no property and left out.  *)
(***************************************************************************)
Session ==
    [userID : User, channelID : Channel, addr : Addr, idle : 0..(MaxIdle + 1),
     muted : BOOLEAN, deafened : BOOLEAN]

ASSUME SessionManagerAssumption ==
    /\ MaxIdle \in Nat
    /\ TokenTTL \in Nat
    /\ Nil \notin SessionId
    /\ Nil \notin Session

NewSession(u, c, a) ==
    [userID |-> u, channelID |-> c, addr |-> a, idle |-> 0,
     muted |-> FALSE, deafened |-> FALSE]

(***************************************************************************)
(* One voice token.  pending: pendingTokens maps it; stored: voice_tokens  *)
(* has an unconsumed row for it; sent: join_voice has answered with it;    *)
(* copies: handshake datagrams carrying it that can still arrive;          *)
(* revoked, a history: a kick has revoked it.                              *)
(* Memory and storage hold the same user, channel and expiry.              *)
(***************************************************************************)
VoiceToken(maxCopies) ==
    [userID : User, channelID : Channel, age : 0..(TokenTTL + 1),
     pending : BOOLEAN, stored : BOOLEAN, sent : BOOLEAN,
     copies : 0..maxCopies, revoked : BOOLEAN]

Fresh(tk) == tk.age <= TokenTTL

\* A token that nothing can present any more is forgotten: its string is
\* random, so CreateVoiceToken never issues it twice.
Retired(tks) ==
    [t \in Token |->
        IF /\ tks[t] # Nil
           /\ tks[t].sent /\ ~tks[t].pending /\ tks[t].copies = 0
        THEN Nil ELSE tks[t]]

\* The tokens after the pendingTokens entries in S are deleted.
Purged(S) ==
    [t \in Token |-> IF t \in S THEN [tokens[t] EXCEPT !.pending = FALSE]
                                ELSE tokens[t]]

PendingOf(u) ==
    {t \in Token : tokens[t] # Nil /\ tokens[t].userID = u /\ tokens[t].pending}

ExpiredPending ==
    {t \in Token : tokens[t] # Nil /\ tokens[t].pending /\ ~Fresh(tokens[t])}

-----------------------------------------------------------------------------
(* Garbage collection *)

Referenced ==
    {byUser[u] : u \in User} \cup {byAddr[a] : a \in Addr}
    \cup {byChannel[c][u] : c \in Channel, u \in User} \cup held

\* The heap h after a step that has set the other variables.
Collect(h) == [s \in SessionId |-> IF s \in Referenced' THEN h[s] ELSE Nil]

Unreferenced == SessionId \ Referenced

-----------------------------------------------------------------------------
(* Methods *)

\* Mistakes: the address index, or the channel map, is forgotten.
ByAddrKept(S) == byAddr
ByChannelKept(S) == byChannel

\* byAddr and byChannel once the sessions of the users in S are unlinked: the
\* entry at the session's own address, whosever session is there now, and the
\* entry of the user in the channel the session names.
ByAddrWithout(S) ==
    [a \in Addr |-> IF \E u \in S : byUser[u] # Nil /\ heap[byUser[u]].addr = a
                    THEN Nil ELSE byAddr[a]]

ByChannelWithout(S) ==
    [c \in Channel |->
        [u \in User |-> IF u \in S /\ byUser[u] # Nil /\ heap[byUser[u]].channelID = c
                        THEN Nil ELSE byChannel[c][u]]]

\* RegisterSession, and the tail of ActivatePending: replace the user's session
\* by a new object.
RegisterSession(u, c, a) ==
    \E s \in Unreferenced :
       /\ byUser' = [byUser EXCEPT ![u] = s]
       /\ byAddr' = [ByAddrWithout({u}) EXCEPT ![a] = s]
       /\ byChannel' = [ByChannelWithout({u}) EXCEPT ![c][u] = s]
       /\ held' = held
       /\ heap' = Collect([heap EXCEPT ![s] = NewSession(u, c, a)])

\* The users' sessions are taken out of all three maps.
Unlink(S) ==
    /\ byUser' = [u \in User |-> IF u \in S THEN Nil ELSE byUser[u]]
    /\ byAddr' = ByAddrWithout(S)
    /\ byChannel' = ByChannelWithout(S)
    /\ held' = held
    /\ heap' = Collect(heap)

\* Mistakes: the old address is left behind; a new address is no sign of life.
AddrCopied(u, a) ==
    IF byUser[u] = Nil THEN byAddr ELSE [byAddr EXCEPT ![a] = byUser[u]]

SetAddrOnly(h, u, a) ==
    IF byUser[u] = Nil THEN h ELSE [h EXCEPT ![byUser[u]].addr = a]

\* UpdateAddr on byAddr and on heap h: a no-op for a user without a session.
AddrMoved(u, a) ==
    IF byUser[u] = Nil THEN byAddr
    ELSE [[byAddr EXCEPT ![heap[byUser[u]].addr] = Nil] EXCEPT ![a] = byUser[u]]

SetAddr(h, u, a) ==
    IF byUser[u] = Nil THEN h
    ELSE [h EXCEPT ![byUser[u]].addr = a, ![byUser[u]].idle = 0]

Touch(h, s) == [h EXCEPT ![s].idle = 0]

RemoveSession(u) ==
    /\ byUser[u] # Nil \/ PendingOf(u) # {}
    /\ tokens' = Retired(Purged(PendingOf(u)))
    /\ Unlink({u})

\* Mistakes: the member leaves a room and enters none, or enters one and stays in
\* the other.
MoveMemberOut(u, to) ==
    /\ byUser[u] # Nil
    /\ byChannel' = [byChannel EXCEPT ![heap[byUser[u]].channelID][u] = Nil]
    /\ UNCHANGED <<byUser, byAddr, tokens, held>>
    /\ heap' = Collect([heap EXCEPT ![byUser[u]].channelID = to])

MoveMemberCopied(u, to) ==
    /\ byUser[u] # Nil
    /\ byChannel' = [byChannel EXCEPT ![to][u] = byUser[u]]
    /\ UNCHANGED <<byUser, byAddr, tokens, held>>
    /\ heap' = Collect([heap EXCEPT ![byUser[u]].channelID = to])

MoveMember(u, to) ==
    /\ byUser[u] # Nil
    /\ byChannel' = [[byChannel EXCEPT ![heap[byUser[u]].channelID][u] = Nil]
                        EXCEPT ![to][u] = byUser[u]]
    /\ UNCHANGED <<byUser, byAddr, tokens, held>>
    /\ heap' = Collect([heap EXCEPT ![byUser[u]].channelID = to])

SetServerMute(u, m) ==
    /\ byUser[u] # Nil
    /\ heap' = [heap EXCEPT ![byUser[u]].muted = m]
    /\ UNCHANGED <<byUser, byAddr, byChannel, tokens, held>>

SetServerDeafen(u, d) ==
    /\ byUser[u] # Nil
    /\ heap' = [heap EXCEPT ![byUser[u]].deafened = d]
    /\ UNCHANGED <<byUser, byAddr, byChannel, tokens, held>>

\* A mistake: muted members are waited for.
StaleUnmuted ==
    {u \in User : byUser[u] # Nil /\ heap[byUser[u]].idle > MaxIdle /\ ~heap[byUser[u]].muted}

\* The users CleanStaleSessions evicts.
Stale == {u \in User : byUser[u] # Nil /\ heap[byUser[u]].idle > MaxIdle}

CleanStaleSessions ==
    /\ Stale # {} \/ ExpiredPending # {}
    /\ tokens' = Retired(Purged(ExpiredPending))
    /\ Unlink(Stale)

GetChannelPeers(c, u) == {byChannel[c][v] : v \in User \ {u}} \ {Nil}

SmInit ==
    /\ heap = [s \in SessionId |-> Nil]
    /\ byUser = [u \in User |-> Nil]
    /\ byAddr = [a \in Addr |-> Nil]
    /\ byChannel = [c \in Channel |-> [u \in User |-> Nil]]
    /\ tokens = [t \in Token |-> Nil]
    /\ held = {}

=============================================================================
