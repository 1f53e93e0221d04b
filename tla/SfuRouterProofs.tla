--------------------------- MODULE SfuRouterProofs ---------------------------
(***************************************************************************)
(* Theorems about SfuRouter for every set of users, channels, addresses,   *)
(* tokens and every number of handshake copies.                            *)
(*                                                                         *)
(* The inductive invariant is Tables: the typing of the heap and of the    *)
(* three maps, OwnTables and AddrIndexSound together.  None of the three   *)
(* is inductive alone: a lookup is well typed only because no map entry    *)
(* dangles, and an address entry is deleted with its session only because  *)
(* the session's own address field says where the entry is.                *)
(*                                                                         *)
(* Room isolation rests on them and on what a late copy of a handshake may *)
(* do, which only the tokens tell (OneJoin, TrailingAgree).                *)
(***************************************************************************)
EXTENDS SfuRouter, FiniteSetTheorems, TLAPS

MapsOK ==
    /\ heap \in [SessionId -> Session \cup {Nil}]
    /\ byUser \in [User -> SessionId \cup {Nil}]
    /\ byAddr \in [Addr -> SessionId \cup {Nil}]
    /\ byChannel \in [Channel -> [User -> SessionId \cup {Nil}]]

Tables == MapsOK /\ OwnTables /\ AddrIndexSound

-----------------------------------------------------------------------------
(* Sessions and the heap *)

\* What NewSession builds is a session and not the nil pointer.
LEMMA NewSessionType ==
    ASSUME NEW u \in User, NEW c \in Channel, NEW a \in Addr
    PROVE  NewSession(u, c, a) \in Session /\ NewSession(u, c, a) # Nil
<1>1. MaxIdle \in Nat
  BY SessionManagerAssumption
<1>2. NewSession(u, c, a) \in Session
  BY <1>1 DEF NewSession, Session
<1> QED BY <1>2, SessionManagerAssumption

\* Collection keeps every object that some map still refers to.
LEMMA CollectKeeps ==
    ASSUME NEW h \in [SessionId -> Session \cup {Nil}], heap' = Collect(h), MapsOK
    PROVE  /\ heap' \in [SessionId -> Session \cup {Nil}]
           /\ \A u \in User : byUser'[u] \in SessionId => heap'[byUser'[u]] = h[byUser'[u]]
           /\ \A a \in Addr : byAddr'[a] \in SessionId => heap'[byAddr'[a]] = h[byAddr'[a]]
           /\ \A c \in Channel, u \in User :
                byChannel'[c][u] \in SessionId =>
                    heap'[byChannel'[c][u]] = h[byChannel'[c][u]]
<1>1. ASSUME NEW s \in SessionId, s \in Referenced' PROVE heap'[s] = h[s]
  BY <1>1 DEF Collect
<1>2. \A u \in User : byUser'[u] \in Referenced'
  BY DEF Referenced
<1>3. \A a \in Addr : byAddr'[a] \in Referenced'
  BY DEF Referenced
<1>4. \A c \in Channel, u \in User : byChannel'[c][u] \in Referenced'
  BY DEF Referenced
<1>5. heap' \in [SessionId -> Session \cup {Nil}]
  BY DEF Collect
<1> QED BY <1>1, <1>2, <1>3, <1>4, <1>5

\* Registering a session, whether the user had one or not.
LEMMA RegisterKeepsTables ==
    ASSUME Tables, NEW u \in User, NEW c \in Channel, NEW a \in Addr,
           RegisterSession(u, c, a)
    PROVE  Tables'
<1> USE DEF Tables, MapsOK
<1>1. PICK s \in Unreferenced :
         /\ byUser' = [byUser EXCEPT ![u] = s]
         /\ byAddr' = [ByAddrWithout({u}) EXCEPT ![a] = s]
         /\ byChannel' = [ByChannelWithout({u}) EXCEPT ![c][u] = s]
         /\ heap' = Collect([heap EXCEPT ![s] = NewSession(u, c, a)])
  BY DEF RegisterSession
<1> DEFINE h == [heap EXCEPT ![s] = NewSession(u, c, a)]
<1>2. s \in SessionId /\ s \notin Referenced
  BY DEF Unreferenced
<1>3. /\ \A v \in User : byUser[v] # s
      /\ \A b \in Addr : byAddr[b] # s
      /\ \A d \in Channel, v \in User : byChannel[d][v] # s
  BY <1>2 DEF Referenced
<1>4. NewSession(u, c, a) \in Session /\ NewSession(u, c, a) # Nil
  BY NewSessionType
<1>5. h \in [SessionId -> Session \cup {Nil}]
  BY <1>2, <1>4
<1>6. /\ h[s].userID = u /\ h[s].addr = a /\ h[s] # Nil
      /\ \A r \in SessionId : r # s => h[r] = heap[r]
  BY <1>2, <1>4 DEF NewSession
<1>7. /\ byUser' \in [User -> SessionId \cup {Nil}]
      /\ byAddr' \in [Addr -> SessionId \cup {Nil}]
      /\ byChannel' \in [Channel -> [User -> SessionId \cup {Nil}]]
  BY <1>1, <1>2 DEF ByAddrWithout, ByChannelWithout
<1>8. /\ heap' \in [SessionId -> Session \cup {Nil}]
      /\ \A v \in User : byUser'[v] \in SessionId => heap'[byUser'[v]] = h[byUser'[v]]
      /\ \A b \in Addr : byAddr'[b] \in SessionId => heap'[byAddr'[b]] = h[byAddr'[b]]
      /\ \A d \in Channel, v \in User :
           byChannel'[d][v] \in SessionId => heap'[byChannel'[d][v]] = h[byChannel'[d][v]]
  <2>1. heap' = Collect(h)
    BY <1>1
  <2> HIDE DEF h
  <2> QED BY <2>1, <1>5, CollectKeeps
<1> HIDE DEF h
<1>9. OwnTables'
  <2>1. ASSUME NEW v \in User, byUser'[v] # Nil
        PROVE  /\ heap'[byUser'[v]] # Nil
               /\ heap'[byUser'[v]].userID = v
               /\ \E d \in Channel : byChannel'[d][v] = byUser'[v]
    <3>1. CASE v = u
      BY <3>1, <1>1, <1>2, <1>6, <1>7, <1>8 DEF ByChannelWithout
    <3>2. CASE v # u
      <4>1. byUser'[v] = byUser[v] /\ byUser[v] \in SessionId /\ byUser[v] # s
        BY <3>2, <2>1, <1>1, <1>3
      <4>2. \A d \in Channel : byChannel'[d][v] = byChannel[d][v]
        BY <3>2, <1>1 DEF ByChannelWithout
      <4>3. heap'[byUser'[v]] = heap[byUser[v]]
        BY <4>1, <1>6, <1>8
      <4> QED BY <2>1, <4>1, <4>2, <4>3 DEF OwnTables
    <3> QED BY <3>1, <3>2
  <2>2. ASSUME NEW d \in Channel, NEW v \in User, byChannel'[d][v] # Nil
        PROVE  heap'[byChannel'[d][v]] # Nil /\ heap'[byChannel'[d][v]].userID = v
    <3>1. CASE d = c /\ v = u
      BY <3>1, <1>1, <1>2, <1>6, <1>8 DEF ByChannelWithout
    <3>2. CASE ~(d = c /\ v = u)
      <4>1. /\ byChannel'[d][v] = byChannel[d][v]
            /\ byChannel[d][v] \in SessionId /\ byChannel[d][v] # s
        BY <3>2, <2>2, <1>1, <1>3 DEF ByChannelWithout
      <4>2. heap'[byChannel'[d][v]] = heap[byChannel[d][v]]
        BY <4>1, <1>6, <1>8
      <4> QED BY <2>2, <4>1, <4>2 DEF OwnTables
    <3> QED BY <3>1, <3>2
  <2> QED BY <2>1, <2>2 DEF OwnTables
<1>10. AddrIndexSound'
  <2> SUFFICES ASSUME NEW b \in Addr, byAddr'[b] # Nil
               PROVE  /\ heap'[byAddr'[b]] # Nil
                      /\ heap'[byAddr'[b]].addr = b
                      /\ byUser'[heap'[byAddr'[b]].userID] = byAddr'[b]
    BY DEF AddrIndexSound
  <2>1. CASE b = a
    BY <2>1, <1>1, <1>2, <1>6, <1>8 DEF ByAddrWithout
  <2>2. CASE b # a
    <3>1. /\ byAddr'[b] = byAddr[b] /\ byAddr[b] \in SessionId /\ byAddr[b] # s
          /\ ~(byUser[u] # Nil /\ heap[byUser[u]].addr = b)
      BY <2>2, <1>1, <1>3 DEF ByAddrWithout
    <3>2. /\ heap[byAddr[b]] # Nil /\ heap[byAddr[b]].addr = b
          /\ byUser[heap[byAddr[b]].userID] = byAddr[b]
      BY <3>1 DEF AddrIndexSound
    <3>3. heap'[byAddr'[b]] = heap[byAddr[b]]
      BY <3>1, <1>6, <1>8
    <3>4. heap[byAddr[b]].userID # u
      BY <3>1, <3>2
    <3>5. heap[byAddr[b]].userID \in User
      BY <3>1, <3>2 DEF Session
    <3> QED BY <3>1, <3>2, <3>3, <3>4, <3>5, <1>1
  <2> QED BY <2>1, <2>2
<1> QED BY <1>7, <1>8, <1>9, <1>10

\* Taking the sessions of any set of users out of the maps.
LEMMA UnlinkKeepsTables ==
    ASSUME Tables, NEW S \in SUBSET User, Unlink(S)
    PROVE  Tables'
<1> USE DEF Tables, MapsOK
<1>1. /\ byUser' = [u \in User |-> IF u \in S THEN Nil ELSE byUser[u]]
      /\ byAddr' = ByAddrWithout(S)
      /\ byChannel' = ByChannelWithout(S)
      /\ heap' = Collect(heap)
  BY DEF Unlink
<1>2. /\ byUser' \in [User -> SessionId \cup {Nil}]
      /\ byAddr' \in [Addr -> SessionId \cup {Nil}]
      /\ byChannel' \in [Channel -> [User -> SessionId \cup {Nil}]]
  BY <1>1 DEF ByAddrWithout, ByChannelWithout
<1>3. /\ heap' \in [SessionId -> Session \cup {Nil}]
      /\ \A u \in User : byUser'[u] \in SessionId => heap'[byUser'[u]] = heap[byUser'[u]]
      /\ \A a \in Addr : byAddr'[a] \in SessionId => heap'[byAddr'[a]] = heap[byAddr'[a]]
      /\ \A c \in Channel, u \in User :
           byChannel'[c][u] \in SessionId => heap'[byChannel'[c][u]] = heap[byChannel'[c][u]]
  BY <1>1, CollectKeeps
<1>4. OwnTables'
  <2>1. ASSUME NEW u \in User, byUser'[u] # Nil
        PROVE  /\ heap'[byUser'[u]] # Nil
               /\ heap'[byUser'[u]].userID = u
               /\ \E c \in Channel : byChannel'[c][u] = byUser'[u]
    <3>1. u \notin S /\ byUser'[u] = byUser[u] /\ byUser[u] \in SessionId
      BY <2>1, <1>1
    <3>2. \A c \in Channel : byChannel'[c][u] = byChannel[c][u]
      BY <3>1, <1>1 DEF ByChannelWithout
    <3> QED BY <2>1, <3>1, <3>2, <1>3 DEF OwnTables
  <2>2. ASSUME NEW c \in Channel, NEW u \in User, byChannel'[c][u] # Nil
        PROVE  heap'[byChannel'[c][u]] # Nil /\ heap'[byChannel'[c][u]].userID = u
    <3>1. byChannel'[c][u] = byChannel[c][u] /\ byChannel[c][u] \in SessionId
      BY <2>2, <1>1 DEF ByChannelWithout
    <3> QED BY <2>2, <3>1, <1>3 DEF OwnTables
  <2> QED BY <2>1, <2>2 DEF OwnTables
<1>5. AddrIndexSound'
  <2> SUFFICES ASSUME NEW b \in Addr, byAddr'[b] # Nil
               PROVE  /\ heap'[byAddr'[b]] # Nil
                      /\ heap'[byAddr'[b]].addr = b
                      /\ byUser'[heap'[byAddr'[b]].userID] = byAddr'[b]
    BY DEF AddrIndexSound
  <2>1. /\ byAddr'[b] = byAddr[b] /\ byAddr[b] \in SessionId /\ byAddr[b] # Nil
        /\ ~(\E u \in S : byUser[u] # Nil /\ heap[byUser[u]].addr = b)
    BY <1>1 DEF ByAddrWithout
  <2>2. /\ heap[byAddr[b]] # Nil /\ heap[byAddr[b]].addr = b
        /\ byUser[heap[byAddr[b]].userID] = byAddr[b]
    BY <2>1 DEF AddrIndexSound
  <2>3. heap[byAddr[b]].userID \in User /\ heap[byAddr[b]].userID \notin S
    BY <2>1, <2>2 DEF Session
  <2> QED BY <2>1, <2>2, <2>3, <1>1, <1>3
<1> QED BY <1>2, <1>3, <1>4, <1>5

\* A step that moves no map entry and rewrites neither owner nor address of a
\* session a map refers to.
LEMMA SameMapsKeepTables ==
    ASSUME Tables, UNCHANGED <<byUser, byAddr, byChannel>>,
           heap' \in [SessionId -> Session \cup {Nil}],
           \A s \in SessionId : s \in Referenced /\ heap[s] # Nil =>
                heap'[s] # Nil /\ heap'[s].userID = heap[s].userID
                /\ heap'[s].addr = heap[s].addr
    PROVE  Tables'
<1> USE DEF Tables, MapsOK
<1>1. \A u \in User : byUser[u] \in Referenced
  BY DEF Referenced
<1>2. \A a \in Addr : byAddr[a] \in Referenced
  BY DEF Referenced
<1>3. \A c \in Channel, u \in User : byChannel[c][u] \in Referenced
  BY DEF Referenced
<1>4. OwnTables'
  BY <1>1, <1>3 DEF OwnTables
<1>5. AddrIndexSound'
  BY <1>2 DEF AddrIndexSound
<1> QED BY <1>4, <1>5

\* SetAddr on the session of u.
LEMMA SetAddrType ==
    ASSUME NEW u \in User, NEW a \in Addr, byUser[u] \in SessionId,
           NEW g \in [SessionId -> Session \cup {Nil}], g[byUser[u]] \in Session
    PROVE  /\ SetAddr(g, u, a) \in [SessionId -> Session \cup {Nil}]
           /\ SetAddr(g, u, a)[byUser[u]] \in Session
           /\ SetAddr(g, u, a)[byUser[u]].userID = g[byUser[u]].userID
           /\ SetAddr(g, u, a)[byUser[u]].addr = a
           /\ SetAddr(g, u, a)[byUser[u]].idle = 0
           /\ \A s \in SessionId : s # byUser[u] => SetAddr(g, u, a)[s] = g[s]
<1> DEFINE r == [g[byUser[u]] EXCEPT !.addr = a, !.idle = 0]
<1>1. MaxIdle \in Nat /\ Nil \notin SessionId
  BY SessionManagerAssumption
<1>2. /\ r \in Session /\ r.userID = g[byUser[u]].userID
      /\ r.addr = a /\ r.idle = 0
  <2>1. 0 \in 0..(MaxIdle + 1)
    BY <1>1
  <2> QED BY <2>1 DEF Session
<1>3. SetAddr(g, u, a) = [g EXCEPT ![byUser[u]] = r]
  BY <1>1 DEF SetAddr, Session
<1> HIDE DEF r
<1>4. /\ SetAddr(g, u, a) \in [SessionId -> Session \cup {Nil}]
      /\ SetAddr(g, u, a)[byUser[u]] = r
      /\ \A s \in SessionId : s # byUser[u] => SetAddr(g, u, a)[s] = g[s]
  BY <1>2, <1>3
<1> QED BY <1>2, <1>4 DEF r

\* A user's session changes address: h is the heap with the session rewritten.
LEMMA AddrMoveKeepsTables ==
    ASSUME Tables, NEW u \in User, NEW a \in Addr, byUser[u] # Nil,
           NEW h \in [SessionId -> Session \cup {Nil}],
           h[byUser[u]] # Nil, h[byUser[u]].userID = u, h[byUser[u]].addr = a,
           \A s \in SessionId : s # byUser[u] => h[s] = heap[s],
           byAddr' = AddrMoved(u, a), UNCHANGED <<byUser, byChannel>>,
           heap' = Collect(h)
    PROVE  Tables'
<1> USE DEF Tables, MapsOK
<1>1. byUser[u] \in SessionId /\ heap[byUser[u]] # Nil /\ heap[byUser[u]].userID = u
  BY DEF OwnTables
<1>2. byAddr' = [[byAddr EXCEPT ![heap[byUser[u]].addr] = Nil] EXCEPT ![a] = byUser[u]]
  BY DEF AddrMoved
<1>3. byAddr' \in [Addr -> SessionId \cup {Nil}]
  BY <1>1, <1>2
<1>4. /\ heap' \in [SessionId -> Session \cup {Nil}]
      /\ \A v \in User : byUser'[v] \in SessionId => heap'[byUser'[v]] = h[byUser'[v]]
      /\ \A b \in Addr : byAddr'[b] \in SessionId => heap'[byAddr'[b]] = h[byAddr'[b]]
      /\ \A c \in Channel, v \in User :
           byChannel'[c][v] \in SessionId => heap'[byChannel'[c][v]] = h[byChannel'[c][v]]
  BY CollectKeeps
<1>5. \A s \in SessionId : heap[s] # Nil => h[s] # Nil /\ h[s].userID = heap[s].userID
  BY <1>1
<1>6. OwnTables'
  <2>1. ASSUME NEW v \in User, byUser[v] # Nil
        PROVE  heap'[byUser[v]] # Nil /\ heap'[byUser[v]].userID = v
    BY <2>1, <1>4, <1>5 DEF OwnTables
  <2>2. ASSUME NEW c \in Channel, NEW v \in User, byChannel[c][v] # Nil
        PROVE  heap'[byChannel[c][v]] # Nil /\ heap'[byChannel[c][v]].userID = v
    BY <2>2, <1>4, <1>5 DEF OwnTables
  <2> QED BY <2>1, <2>2 DEF OwnTables
<1>7. AddrIndexSound'
  <2> SUFFICES ASSUME NEW b \in Addr, byAddr'[b] # Nil
               PROVE  /\ heap'[byAddr'[b]] # Nil
                      /\ heap'[byAddr'[b]].addr = b
                      /\ byUser[heap'[byAddr'[b]].userID] = byAddr'[b]
    BY DEF AddrIndexSound
  <2>1. CASE b = a
    BY <2>1, <1>1, <1>2, <1>4
  <2>2. CASE b # a
    <3>1. byAddr'[b] = byAddr[b] /\ byAddr[b] \in SessionId /\ byAddr[b] # Nil
          /\ b # heap[byUser[u]].addr
      BY <2>2, <1>1, <1>2
    <3>2. /\ heap[byAddr[b]] # Nil /\ heap[byAddr[b]].addr = b
          /\ byUser[heap[byAddr[b]].userID] = byAddr[b]
      BY <3>1 DEF AddrIndexSound
    <3>3. byAddr[b] # byUser[u]
      BY <3>1, <3>2
    <3> QED BY <3>1, <3>2, <3>3, <1>4
  <2> QED BY <2>1, <2>2
<1> QED BY <1>3, <1>4, <1>6, <1>7

\* UpdateAddr, on a heap g in which other fields of the session may have been set.
LEMMA UpdateAddrKeepsTables ==
    ASSUME Tables, NEW u \in User, NEW a \in Addr, byUser[u] # Nil,
           NEW g \in [SessionId -> Session \cup {Nil}],
           g[byUser[u]] \in Session, g[byUser[u]].userID = u,
           \A s \in SessionId : s # byUser[u] => g[s] = heap[s],
           byAddr' = AddrMoved(u, a), UNCHANGED <<byUser, byChannel>>,
           heap' = Collect(SetAddr(g, u, a))
    PROVE  Tables'
<1> DEFINE h == SetAddr(g, u, a)
<1>1. byUser[u] \in SessionId
  BY DEF Tables, MapsOK
<1>2. /\ h \in [SessionId -> Session \cup {Nil}] /\ h[byUser[u]] \in Session
      /\ h[byUser[u]].userID = u /\ h[byUser[u]].addr = a
      /\ \A s \in SessionId : s # byUser[u] => h[s] = g[s]
  <2>1. /\ SetAddr(g, u, a) \in [SessionId -> Session \cup {Nil}]
        /\ SetAddr(g, u, a)[byUser[u]] \in Session
        /\ SetAddr(g, u, a)[byUser[u]].userID = g[byUser[u]].userID
        /\ SetAddr(g, u, a)[byUser[u]].addr = a
        /\ \A s \in SessionId : s # byUser[u] => SetAddr(g, u, a)[s] = g[s]
    BY <1>1, SetAddrType
  <2> QED BY <2>1
<1>3. heap' = Collect(h)
  OBVIOUS
<1> HIDE DEF h
<1>4. h[byUser[u]] # Nil
  BY <1>2, SessionManagerAssumption
<1>5. \A s \in SessionId : s # byUser[u] => h[s] = heap[s]
  BY <1>2
<1> QED BY <1>2, <1>3, <1>4, <1>5, AddrMoveKeepsTables

\* MoveMember: the entry of the channel the session names goes, the new one comes.
LEMMA MoveKeepsTables ==
    ASSUME Tables, NEW u \in User, NEW to \in Channel, MoveMember(u, to)
    PROVE  Tables'
<1> USE DEF Tables, MapsOK
<1> DEFINE h == [heap EXCEPT ![byUser[u]].channelID = to]
<1>1. /\ byUser[u] # Nil
      /\ byChannel' = [[byChannel EXCEPT ![heap[byUser[u]].channelID][u] = Nil]
                            EXCEPT ![to][u] = byUser[u]]
      /\ byUser' = byUser /\ byAddr' = byAddr
      /\ heap' = Collect(h)
  BY DEF MoveMember
<1>2. /\ byUser[u] \in SessionId /\ heap[byUser[u]] \in Session
      /\ heap[byUser[u]] # Nil /\ heap[byUser[u]].userID = u
  BY <1>1 DEF OwnTables
<1>3. h \in [SessionId -> Session \cup {Nil}]
  BY <1>2 DEF Session
<1>4. \A s \in SessionId : heap[s] # Nil =>
         h[s] # Nil /\ h[s].userID = heap[s].userID /\ h[s].addr = heap[s].addr
  BY <1>2, <1>3, SessionManagerAssumption DEF Session
<1>5. byChannel' \in [Channel -> [User -> SessionId \cup {Nil}]]
  BY <1>1, <1>2
<1> HIDE DEF h
<1>6. /\ heap' \in [SessionId -> Session \cup {Nil}]
      /\ \A v \in User : byUser'[v] \in SessionId => heap'[byUser'[v]] = h[byUser'[v]]
      /\ \A b \in Addr : byAddr'[b] \in SessionId => heap'[byAddr'[b]] = h[byAddr'[b]]
      /\ \A c \in Channel, v \in User :
           byChannel'[c][v] \in SessionId => heap'[byChannel'[c][v]] = h[byChannel'[c][v]]
  BY <1>1, <1>3, CollectKeeps
<1>7. OwnTables'
  <2>1. ASSUME NEW v \in User, byUser'[v] # Nil
        PROVE  heap'[byUser'[v]] # Nil /\ heap'[byUser'[v]].userID = v
    BY <2>1, <1>1, <1>4, <1>6 DEF OwnTables
  <2>2. ASSUME NEW v \in User, byUser'[v] # Nil
        PROVE  \E c \in Channel : byChannel'[c][v] = byUser'[v]
    <3>1. CASE v = u
      BY <3>1, <1>1
    <3>2. CASE v # u
      <4>1. \A c \in Channel : byChannel'[c][v] = byChannel[c][v]
        BY <3>2, <1>1
      <4> QED BY <2>2, <4>1, <1>1 DEF OwnTables
    <3> QED BY <3>1, <3>2
  <2>3. ASSUME NEW c \in Channel, NEW v \in User, byChannel'[c][v] # Nil
        PROVE  heap'[byChannel'[c][v]] # Nil /\ heap'[byChannel'[c][v]].userID = v
    <3>1. \/ byChannel'[c][v] = byChannel[c][v]
          \/ v = u /\ byChannel'[c][v] = byUser[u]
      BY <2>3, <1>1
    <3>2. heap[byChannel'[c][v]] # Nil /\ heap[byChannel'[c][v]].userID = v
      BY <2>3, <3>1, <1>2 DEF OwnTables
    <3> QED BY <2>3, <3>2, <1>4, <1>5, <1>6
  <2> QED BY <2>1, <2>2, <2>3 DEF OwnTables
<1>8. AddrIndexSound'
  BY <1>1, <1>4, <1>6 DEF AddrIndexSound
<1> QED BY <1>1, <1>5, <1>6, <1>7, <1>8

\* A step that moves no map entry and rewrites the heap to g, then collects.
LEMMA CollectSameKeepsTables ==
    ASSUME Tables, UNCHANGED <<byUser, byAddr, byChannel>>,
           NEW g \in [SessionId -> Session \cup {Nil}], heap' = Collect(g),
           \A s \in SessionId : heap[s] # Nil =>
                g[s] # Nil /\ g[s].userID = heap[s].userID /\ g[s].addr = heap[s].addr
    PROVE  Tables'
<1> USE DEF Tables, MapsOK
<1>1. /\ heap' \in [SessionId -> Session \cup {Nil}]
      /\ \A v \in User : byUser[v] \in SessionId => heap'[byUser[v]] = g[byUser[v]]
      /\ \A b \in Addr : byAddr[b] \in SessionId => heap'[byAddr[b]] = g[byAddr[b]]
      /\ \A c \in Channel, v \in User :
           byChannel[c][v] \in SessionId => heap'[byChannel[c][v]] = g[byChannel[c][v]]
  BY CollectKeeps
<1>2. OwnTables'
  BY <1>1 DEF OwnTables
<1>3. AddrIndexSound'
  BY <1>1 DEF AddrIndexSound
<1> QED BY <1>1, <1>2, <1>3

\* Touch on a live session.
LEMMA TouchType ==
    ASSUME NEW s \in SessionId, NEW g \in [SessionId -> Session \cup {Nil}],
           g[s] \in Session
    PROVE  /\ Touch(g, s) \in [SessionId -> Session \cup {Nil}]
           /\ Touch(g, s)[s] \in Session
           /\ Touch(g, s)[s].userID = g[s].userID
           /\ Touch(g, s)[s].addr = g[s].addr
           /\ Touch(g, s)[s].idle = 0
           /\ \A r \in SessionId : r # s => Touch(g, s)[r] = g[r]
<1> DEFINE x == [g[s] EXCEPT !.idle = 0]
<1>1. 0 \in 0..(MaxIdle + 1)
  BY SessionManagerAssumption
<1>2. x \in Session /\ x.userID = g[s].userID /\ x.addr = g[s].addr /\ x.idle = 0
  BY <1>1 DEF Session
<1>3. Touch(g, s) = [g EXCEPT ![s] = x]
  BY DEF Touch
<1> HIDE DEF x
<1> QED BY <1>2, <1>3

\* The clock ages sessions and touches nothing else of them.
LEMMA TickHeap ==
    ASSUME heap \in [SessionId -> Session \cup {Nil}], Tick
    PROVE  /\ heap' \in [SessionId -> Session \cup {Nil}]
           /\ \A s \in SessionId : heap[s] # Nil =>
                /\ heap'[s] # Nil
                /\ heap'[s].userID = heap[s].userID /\ heap'[s].addr = heap[s].addr
                /\ heap'[s].idle = Older(heap[s].idle, MaxIdle)
<1>1. heap' = [s \in SessionId |-> IF heap[s] = Nil THEN Nil
                  ELSE [heap[s] EXCEPT !.idle = Older(@, MaxIdle)]]
  BY DEF Tick
<1>2. \A n \in 0..(MaxIdle + 1) : Older(n, MaxIdle) \in 0..(MaxIdle + 1)
  BY SessionManagerAssumption DEF Older
<1>3. ASSUME NEW x \in Session
      PROVE  LET y == [x EXCEPT !.idle = Older(@, MaxIdle)] IN
             /\ y \in Session /\ y.userID = x.userID /\ y.addr = x.addr
             /\ y.idle = Older(x.idle, MaxIdle)
  BY <1>2 DEF Session
<1> QED BY <1>1, <1>3, SessionManagerAssumption

\* handleVoice's lookup by address finds nothing the lookup by user missed.
LEMMA LookupByAddress == Tables => AddressLookupRedundant
BY DEF Tables, MapsOK, AddrIndexSound, AddressLookupRedundant, VoiceSession

\* handleVoice, roaming or not, muted or not.
LEMMA VoiceKeepsTables ==
    ASSUME Tables, NEW u \in User, NEW c \in Channel, NEW a \in Addr,
           HandleVoice(u, c, a)
    PROVE  Tables'
<1> DEFINE s == VoiceSession(u, a)
           roamed == heap[s].addr # a
           h == IF roamed THEN SetAddr(heap, u, a) ELSE heap
<1>1. /\ s # Nil
      /\ byAddr' = IF roamed THEN AddrMoved(u, a) ELSE byAddr
      /\ byUser' = byUser /\ byChannel' = byChannel
      /\ heap' = Collect(IF heap[s].muted THEN h ELSE Touch(h, s))
  BY DEF HandleVoice
<1>2. s = byUser[u]
  BY LookupByAddress DEF AddressLookupRedundant
<1>3. /\ byUser[u] \in SessionId /\ heap[byUser[u]] \in Session
      /\ heap[byUser[u]].userID = u /\ heap \in [SessionId -> Session \cup {Nil}]
  BY <1>1, <1>2 DEF Tables, MapsOK, OwnTables
<1> HIDE DEF s
<1>4. CASE ~roamed
  <2> DEFINE g == IF heap[s].muted THEN heap ELSE Touch(heap, s)
  <2>1. heap' = Collect(g) /\ UNCHANGED <<byUser, byAddr, byChannel>>
    BY <1>1, <1>4
  <2>2. /\ g \in [SessionId -> Session \cup {Nil}]
        /\ \A r \in SessionId : heap[r] # Nil =>
              g[r] # Nil /\ g[r].userID = heap[r].userID /\ g[r].addr = heap[r].addr
    BY <1>2, <1>3, TouchType, SessionManagerAssumption
  <2> HIDE DEF g
  <2> QED BY <2>1, <2>2, CollectSameKeepsTables
<1>5. CASE roamed /\ heap[s].muted
  BY <1>1, <1>2, <1>3, <1>5, UpdateAddrKeepsTables
<1>6. CASE roamed /\ ~heap[s].muted
  <2> DEFINE k == SetAddr(heap, u, a)
             h2 == Touch(k, s)
  <2>1. /\ k \in [SessionId -> Session \cup {Nil}] /\ k[s] \in Session
        /\ k[s].userID = u /\ k[s].addr = a
        /\ \A r \in SessionId : r # s => k[r] = heap[r]
    <3>1. /\ SetAddr(heap, u, a) \in [SessionId -> Session \cup {Nil}]
          /\ SetAddr(heap, u, a)[byUser[u]] \in Session
          /\ SetAddr(heap, u, a)[byUser[u]].userID = heap[byUser[u]].userID
          /\ SetAddr(heap, u, a)[byUser[u]].addr = a
          /\ \A r \in SessionId : r # byUser[u] => SetAddr(heap, u, a)[r] = heap[r]
      BY <1>3, SetAddrType
    <3> QED BY <1>2, <1>3, <3>1
  <2>2. heap' = Collect(h2) /\ byAddr' = AddrMoved(u, a)
    BY <1>1, <1>6
  <2> HIDE DEF k
  <2>3. /\ h2 \in [SessionId -> Session \cup {Nil}] /\ h2[s] \in Session
        /\ h2[s].userID = u /\ h2[s].addr = a
        /\ \A r \in SessionId : r # s => h2[r] = heap[r]
    BY <1>2, <1>3, <2>1, TouchType
  <2> HIDE DEF h2
  <2>4. h2[s] # Nil
    BY <2>3, SessionManagerAssumption
  <2> QED BY <1>1, <1>2, <2>2, <2>3, <2>4, AddrMoveKeepsTables
<1> QED BY <1>4, <1>5, <1>6

\* handlePing, for the sender's session or for the one its address has.
LEMMA PingKeepsTables ==
    ASSUME Tables, NEW u \in User, NEW a \in Addr, HandlePing(u, a)
    PROVE  Tables'
<1> DEFINE s == PingSession(u, a)
           w == heap[s].userID
           roamed == heap[s].addr # a
<1>1. /\ s # Nil
      /\ byAddr' = IF roamed THEN AddrMoved(w, a) ELSE byAddr
      /\ byUser' = byUser /\ byChannel' = byChannel
      /\ heap' = Collect(IF roamed THEN SetAddr(heap, w, a) ELSE Touch(heap, s))
  BY DEF HandlePing
<1>2. /\ s \in SessionId /\ heap[s] \in Session /\ w \in User /\ byUser[w] = s
      /\ heap \in [SessionId -> Session \cup {Nil}]
  BY <1>1 DEF Tables, MapsOK, OwnTables, AddrIndexSound, PingSession, Session
<1> HIDE DEF s
<1>3. CASE ~roamed
  <2> DEFINE g == Touch(heap, s)
  <2>1. heap' = Collect(g) /\ UNCHANGED <<byUser, byAddr, byChannel>>
    BY <1>1, <1>3
  <2>2. /\ g \in [SessionId -> Session \cup {Nil}]
        /\ \A r \in SessionId : heap[r] # Nil =>
              g[r] # Nil /\ g[r].userID = heap[r].userID /\ g[r].addr = heap[r].addr
    BY <1>2, TouchType, SessionManagerAssumption
  <2> HIDE DEF g
  <2> QED BY <2>1, <2>2, CollectSameKeepsTables
<1>4. CASE roamed
  <2>1. heap' = Collect(SetAddr(heap, w, a)) /\ byAddr' = AddrMoved(w, a)
    BY <1>1, <1>4
  <2>2. byUser[w] # Nil
    BY <1>1, <1>2
  <2> DEFINE x == w
  <2>3. x \in User /\ heap[byUser[x]] \in Session /\ heap[byUser[x]].userID = x
        /\ heap' = Collect(SetAddr(heap, x, a)) /\ byAddr' = AddrMoved(x, a)
        /\ byUser[x] # Nil
    BY <1>2, <2>1, <2>2
  <2> HIDE DEF x
  <2> QED BY <1>1, <1>2, <2>3, UpdateAddrKeepsTables
<1> QED BY <1>3, <1>4

-----------------------------------------------------------------------------
(* The invariant of the tables *)

\* Every step of the SFU keeps the tables sound.
LEMMA NextKeepsTables == Tables /\ TypeOK /\ [Next]_vars => Tables'
<1> SUFFICES ASSUME Tables, TypeOK, [Next]_vars PROVE Tables'
  OBVIOUS
<1>1. CASE UNCHANGED vars
  BY <1>1 DEF vars, Tables, MapsOK, OwnTables, AddrIndexSound
<1>2. ASSUME UNCHANGED <<heap, byUser, byAddr, byChannel>> PROVE Tables'
  BY <1>2 DEF Tables, MapsOK, OwnTables, AddrIndexSound
<1>3. CASE \E t \in Token, u \in User, c \in Channel : CreateVoiceToken(t, u, c)
  BY <1>2, <1>3 DEF CreateVoiceToken
<1>4. CASE \E t \in Token : RegisterPending(t) \/ LoseHandshake(t)
  BY <1>2, <1>4 DEF RegisterPending, LoseHandshake
<1>5. CASE \E u \in User : Leave(u)
  <2> PICK u \in User : RemoveSession(u)
    BY <1>5 DEF Leave
  <2> {u} \in SUBSET User /\ Unlink({u})
    BY DEF RemoveSession
  <2> QED BY UnlinkKeepsTables
<1>6. CASE \E u \in User : RevokeVoiceTokens(u)
  BY <1>2, <1>6 DEF RevokeVoiceTokens
<1>7. CASE \E u \in User, to \in Channel : Move(u, to)
  BY <1>7, MoveKeepsTables DEF Move
<1>8. CASE \E u \in Muted, m \in BOOLEAN : Mute(u, m)
  <2> PICK u \in User, m \in BOOLEAN : SetServerMute(u, m)
    BY <1>8, SfuRouterAssumption DEF Mute
  <2>1. byUser[u] \in SessionId /\ heap[byUser[u]] \in Session
    BY DEF SetServerMute, Tables, MapsOK, OwnTables
  <2>2. heap' = [heap EXCEPT ![byUser[u]].muted = m]
    BY DEF SetServerMute
  <2>3. /\ heap' \in [SessionId -> Session \cup {Nil}]
        /\ \A s \in SessionId : heap[s] # Nil => heap'[s] # Nil
             /\ heap'[s].userID = heap[s].userID /\ heap'[s].addr = heap[s].addr
    <3>1. [heap[byUser[u]] EXCEPT !.muted = m] \in Session
      BY <2>1 DEF Session
    <3>2. /\ [heap[byUser[u]] EXCEPT !.muted = m].userID = heap[byUser[u]].userID
          /\ [heap[byUser[u]] EXCEPT !.muted = m].addr = heap[byUser[u]].addr
      BY <2>1 DEF Session
    <3> QED BY <2>1, <2>2, <3>1, <3>2, SessionManagerAssumption DEF Tables, MapsOK
  <2> QED BY <2>3, SameMapsKeepTables DEF SetServerMute
<1>9. CASE \E u \in Deafened, d \in BOOLEAN : Deafen(u, d)
  <2> PICK u \in User, d \in BOOLEAN : SetServerDeafen(u, d)
    BY <1>9, SfuRouterAssumption DEF Deafen
  <2>1. byUser[u] \in SessionId /\ heap[byUser[u]] \in Session
    BY DEF SetServerDeafen, Tables, MapsOK, OwnTables
  <2>2. heap' = [heap EXCEPT ![byUser[u]].deafened = d]
    BY DEF SetServerDeafen
  <2>3. /\ heap' \in [SessionId -> Session \cup {Nil}]
        /\ \A s \in SessionId : heap[s] # Nil => heap'[s] # Nil
             /\ heap'[s].userID = heap[s].userID /\ heap'[s].addr = heap[s].addr
    <3>1. [heap[byUser[u]] EXCEPT !.deafened = d] \in Session
      BY <2>1 DEF Session
    <3>2. /\ [heap[byUser[u]] EXCEPT !.deafened = d].userID = heap[byUser[u]].userID
          /\ [heap[byUser[u]] EXCEPT !.deafened = d].addr = heap[byUser[u]].addr
      BY <2>1 DEF Session
    <3> QED BY <2>1, <2>2, <3>1, <3>2, SessionManagerAssumption DEF Tables, MapsOK
  <2> QED BY <2>3, SameMapsKeepTables DEF SetServerDeafen
<1>10. CASE \E t \in Token, a \in Addr : HandleHandshake(t, a)
  <2> PICK t \in Token, a \in Addr : HandleHandshake(t, a)
    BY <1>10
  <2> DEFINE u == tokens[t].userID
             c == tokens[t].channelID
  <2>1. u \in User /\ c \in Channel
    BY DEF HandleHandshake, HandshakeActivate, HandshakeRedeem, HandshakeExisting,
           HandshakeFallback, Arrives, TypeOK, VoiceToken
  <2>2. CASE HandshakeActivate(t, a) \/ HandshakeFallback(t, a)
    BY <2>1, <2>2, RegisterKeepsTables DEF HandshakeActivate, HandshakeFallback, Registers
  <2>3. CASE HandshakeRedeem(t, a)
    BY <1>2, <2>3 DEF HandshakeRedeem
  <2>4. CASE HandshakeExisting(t, a)
    <3>1. /\ byUser[u] # Nil /\ byAddr' = AddrMoved(u, a)
          /\ UNCHANGED <<byUser, byChannel>>
          /\ heap' = Collect(SetAddr([heap EXCEPT ![byUser[u]].channelID = c], u, a))
      BY <2>4 DEF HandshakeExisting
    <3>2. /\ byUser[u] \in SessionId /\ heap[byUser[u]] \in Session
          /\ heap[byUser[u]].userID = u
      BY <2>1, <3>1 DEF Tables, MapsOK, OwnTables
    <3> DEFINE g == [heap EXCEPT ![byUser[u]].channelID = c]
    <3>3. /\ g \in [SessionId -> Session \cup {Nil}] /\ g[byUser[u]] \in Session
          /\ g[byUser[u]].userID = u
          /\ \A s \in SessionId : s # byUser[u] => g[s] = heap[s]
      BY <2>1, <3>2 DEF Session, Tables, MapsOK
    <3>4. heap' = Collect(SetAddr(g, u, a))
      BY <3>1
    <3> HIDE DEF g, u
    <3> QED BY <2>1, <3>1, <3>3, <3>4, UpdateAddrKeepsTables
  <2> QED BY <2>2, <2>3, <2>4 DEF HandleHandshake
<1>11. CASE HandshakeRegister
  <2>1. redeemed \in Handshake
    BY <1>11 DEF HandshakeRegister, TypeOK
  <2>2. redeemed.userID \in User /\ redeemed.channelID \in Channel /\ redeemed.addr \in Addr
    BY <2>1 DEF Handshake
  <2> QED BY <1>11, <2>2, RegisterKeepsTables DEF HandshakeRegister, Registers
<1>12. CASE \E u \in Speakers, c \in Channel : \E a \in AddrsOf[u] : HandleVoice(u, c, a)
  BY <1>12, SfuRouterAssumption, VoiceKeepsTables
<1>13. CASE \E p \in SessionId : Forward(p)
  <2>1. heap' = Collect(heap) /\ UNCHANGED <<byUser, byAddr, byChannel>>
    BY <1>13 DEF Forward
  <2> QED BY <2>1, CollectSameKeepsTables DEF Tables, MapsOK
<1>14. CASE \E u \in User : \E a \in AddrsOf[u] : HandlePing(u, a)
  BY <1>14, SfuRouterAssumption, PingKeepsTables
<1>15. CASE Clean
  <2>1. Stale \in SUBSET User /\ Unlink(Stale)
    BY <1>15 DEF Clean, CleanStaleSessions, Stale
  <2> QED BY <2>1, UnlinkKeepsTables
<1>16. CASE Tick
  <2>1. UNCHANGED <<byUser, byAddr, byChannel>>
    BY <1>16 DEF Tick
  <2>2. /\ heap' \in [SessionId -> Session \cup {Nil}]
        /\ \A s \in SessionId : heap[s] # Nil => heap'[s] # Nil
             /\ heap'[s].userID = heap[s].userID /\ heap'[s].addr = heap[s].addr
    BY <1>16, TickHeap DEF Tables, MapsOK
  <2> QED BY <2>1, <2>2, SameMapsKeepTables
<1> QED
  BY <1>1, <1>3, <1>4, <1>5, <1>6, <1>7, <1>8, <1>9, <1>10, <1>11, <1>12, <1>13,
     <1>14, <1>15, <1>16
  DEF Next, ControlPlane, ReadLoop

-----------------------------------------------------------------------------
(* The typing of tokens, pointers in flight and history *)

RestOK ==
    /\ tokens \in [Token -> VoiceToken(Copies) \cup {Nil}]
    /\ held \in SUBSET SessionId
    /\ redeemed \in Handshake \cup {Nil}
    /\ quiet \in [User -> 0..(MaxIdle + 1)]

\* Forgetting tokens that nothing can present keeps the others as they are.
LEMMA RetiredType ==
    ASSUME NEW tks \in [Token -> VoiceToken(Copies) \cup {Nil}]
    PROVE  Retired(tks) \in [Token -> VoiceToken(Copies) \cup {Nil}]
BY DEF Retired

\* Deleting pendingTokens entries, then forgetting.
LEMMA PurgedType ==
    ASSUME RestOK, NEW S \in SUBSET Token, \A t \in S : tokens[t] # Nil
    PROVE  Retired(Purged(S)) \in [Token -> VoiceToken(Copies) \cup {Nil}]
<1>1. ASSUME NEW t \in S PROVE [tokens[t] EXCEPT !.pending = FALSE] \in VoiceToken(Copies)
  <2>1. tokens[t] \in VoiceToken(Copies)
    BY DEF RestOK
  <2> QED BY <2>1 DEF VoiceToken
<1>2. Purged(S) \in [Token -> VoiceToken(Copies) \cup {Nil}]
  BY <1>1 DEF Purged, RestOK
<1> QED BY <1>2, RetiredType

\* A token whose handshake has been taken off the network is still a token,
\* whatever the handshake did to its two flags.
LEMMA TakenType ==
    ASSUME RestOK, NEW t \in Token, tokens[t] # Nil, tokens[t].copies > 0
    PROVE  /\ Taken(t) \in VoiceToken(Copies)
           /\ [Taken(t) EXCEPT !.pending = FALSE] \in VoiceToken(Copies)
           /\ [Taken(t) EXCEPT !.stored = FALSE] \in VoiceToken(Copies)
<1>1. tokens[t] \in VoiceToken(Copies) /\ tokens[t].copies - 1 \in 0..Copies
  BY SfuRouterAssumption DEF RestOK, VoiceToken
<1>2. Taken(t) \in VoiceToken(Copies)
  BY <1>1 DEF Taken, VoiceToken
<1> HIDE DEF Taken
<1> QED BY <1>2 DEF VoiceToken

\* A handshake leaves well-typed tokens, history and hand-over.
LEMMA HandshakeRest ==
    ASSUME RestOK, NEW t \in Token, NEW a \in Addr, HandleHandshake(t, a)
    PROVE  RestOK'
<1> DEFINE u == tokens[t].userID
           c == tokens[t].channelID
<1>1. tokens[t] # Nil /\ tokens[t].copies > 0
  BY DEF HandleHandshake, HandshakeActivate, HandshakeRedeem, HandshakeExisting,
         HandshakeFallback, Arrives
<1>2. u \in User /\ c \in Channel
  BY <1>1 DEF RestOK, VoiceToken
<1>3. tokens' \in [Token -> VoiceToken(Copies) \cup {Nil}]
  <2>1. \A x \in VoiceToken(Copies) :
           [tokens EXCEPT ![t] = x] \in [Token -> VoiceToken(Copies) \cup {Nil}]
    BY DEF RestOK
  <2>2. PICK x \in VoiceToken(Copies) : tokens' = Retired([tokens EXCEPT ![t] = x])
    BY <1>1, TakenType DEF HandleHandshake, HandshakeActivate, HandshakeRedeem,
       HandshakeExisting, HandshakeFallback
  <2> QED BY <2>1, <2>2, RetiredType
<1>4. held' = held
  BY DEF HandleHandshake, HandshakeActivate, HandshakeRedeem, HandshakeExisting,
         HandshakeFallback, Registers, RegisterSession
<1>5. redeemed' \in Handshake \cup {Nil}
  BY <1>2 DEF HandleHandshake, HandshakeActivate, HandshakeRedeem, HandshakeExisting,
         HandshakeFallback, RestOK, Handshake
<1>6. quiet' \in [User -> 0..(MaxIdle + 1)]
  <2>1. quiet' = quiet \/ quiet' = [quiet EXCEPT ![u] = 0]
    BY DEF HandleHandshake, HandshakeActivate, HandshakeRedeem, HandshakeExisting,
         HandshakeFallback, Registers
  <2> QED BY <2>1, <1>2, SessionManagerAssumption DEF RestOK
<1> QED BY <1>3, <1>4, <1>5, <1>6 DEF RestOK

\* Every other step does too.
LEMMA NextKeepsRest == RestOK /\ MapsOK /\ [Next]_vars => RestOK'
<1> SUFFICES ASSUME RestOK, MapsOK, [Next]_vars PROVE RestOK'
  OBVIOUS
<1>1. CASE UNCHANGED vars
  BY <1>1 DEF vars, RestOK
<1>2. CASE \E t \in Token, u \in User, c \in Channel : CreateVoiceToken(t, u, c)
  BY <1>2, SessionManagerAssumption, SfuRouterAssumption
  DEF CreateVoiceToken, RestOK, VoiceToken
<1>3. CASE \E t \in Token : RegisterPending(t)
  <2> PICK t \in Token : RegisterPending(t)
    BY <1>3
  <2>1. tokens[t] \in VoiceToken(Copies)
    BY DEF RegisterPending, RestOK
  <2>2. Copies \in 0..Copies
    BY SfuRouterAssumption
  <2>3. [tokens[t] EXCEPT !.pending = TRUE, !.sent = TRUE, !.copies = Copies]
            \in VoiceToken(Copies)
    BY <2>1, <2>2 DEF VoiceToken
  <2> QED BY <2>3 DEF RegisterPending, RestOK
<1>4. CASE \E t \in Token : LoseHandshake(t)
  <2> PICK t \in Token : LoseHandshake(t)
    BY <1>4
  <2>1. Taken(t) \in VoiceToken(Copies)
    BY TakenType DEF LoseHandshake
  <2>2. [tokens EXCEPT ![t] = Taken(t)] \in [Token -> VoiceToken(Copies) \cup {Nil}]
    BY <2>1 DEF RestOK
  <2> QED BY <2>2, RetiredType DEF LoseHandshake, RestOK
<1>5. CASE \E u \in User : Leave(u)
  <2> PICK u \in User : Leave(u)
    BY <1>5
  <2>1. tokens' \in [Token -> VoiceToken(Copies) \cup {Nil}]
    BY PurgedType DEF Leave, RemoveSession, PendingOf
  <2> QED BY <2>1, SessionManagerAssumption DEF Leave, RemoveSession, Unlink, RestOK
<1>6. CASE \E u \in User : RevokeVoiceTokens(u)
  <2> PICK u \in User : RevokeVoiceTokens(u)
    BY <1>6
  <2>1. ASSUME NEW t \in Open(u)
        PROVE  [tokens[t] EXCEPT !.stored = FALSE, !.revoked = TRUE] \in VoiceToken(Copies)
    <3>1. tokens[t] \in VoiceToken(Copies)
      BY DEF Open, RestOK
    <3> QED BY <3>1 DEF VoiceToken
  <2> QED BY <2>1 DEF RevokeVoiceTokens, RestOK
<1>7. CASE \/ \E u \in User, to \in Channel : Move(u, to)
           \/ \E u \in Muted, m \in BOOLEAN : Mute(u, m)
           \/ \E u \in Deafened, d \in BOOLEAN : Deafen(u, d)
  BY <1>7 DEF Move, Mute, Deafen, MoveMember, SetServerMute, SetServerDeafen, RestOK
<1>8. CASE \E t \in Token, a \in Addr : HandleHandshake(t, a)
  BY <1>8, HandshakeRest
<1>9. CASE HandshakeRegister
  <2>1. redeemed.userID \in User
    BY <1>9 DEF HandshakeRegister, RestOK, Handshake
  <2> QED BY <1>9, <2>1, SessionManagerAssumption
          DEF HandshakeRegister, Registers, RegisterSession, RestOK
<1>10. CASE \E u \in Speakers, c \in Channel : \E a \in AddrsOf[u] : HandleVoice(u, c, a)
  <2> PICK u \in Speakers, c \in Channel : \E a \in AddrsOf[u] : HandleVoice(u, c, a)
    BY <1>10
  <2> PICK a \in AddrsOf[u] : HandleVoice(u, c, a)
    OBVIOUS
  <2>1. GetChannelPeers(c, u) \in SUBSET SessionId
    BY DEF GetChannelPeers, MapsOK
  <2> QED BY <2>1 DEF HandleVoice, RestOK
<1>11. CASE \E p \in SessionId : Forward(p)
  BY <1>11 DEF Forward, RestOK
<1>12. CASE \E u \in User : \E a \in AddrsOf[u] : HandlePing(u, a)
  BY <1>12, SessionManagerAssumption DEF HandlePing, RestOK
<1>13. CASE Clean
  <2>1. tokens' \in [Token -> VoiceToken(Copies) \cup {Nil}]
    BY <1>13, PurgedType DEF Clean, CleanStaleSessions, ExpiredPending
  <2> QED BY <1>13, <2>1, SessionManagerAssumption
          DEF Clean, CleanStaleSessions, Unlink, RestOK
<1>14. CASE Tick
  <2>1. \A n \in 0..(TokenTTL + 1) : Older(n, TokenTTL) \in 0..(TokenTTL + 1)
    BY SessionManagerAssumption DEF Older
  <2>2. \A n \in 0..(MaxIdle + 1) : Older(n, MaxIdle) \in 0..(MaxIdle + 1)
    BY SessionManagerAssumption DEF Older
  <2>3. ASSUME NEW x \in VoiceToken(Copies)
        PROVE  [x EXCEPT !.age = Older(@, TokenTTL)] \in VoiceToken(Copies)
    BY <2>1 DEF VoiceToken
  <2>4. tokens' \in [Token -> VoiceToken(Copies) \cup {Nil}]
    BY <1>14, <2>3 DEF Tick, RestOK
  <2>5. quiet' \in [User -> 0..(MaxIdle + 1)]
    BY <1>14, <2>2 DEF Tick, RestOK
  <2> QED BY <1>14, <2>4, <2>5 DEF Tick, RestOK
<1> QED
  BY <1>1, <1>2, <1>3, <1>4, <1>5, <1>6, <1>7, <1>8, <1>9, <1>10, <1>11, <1>12,
     <1>13, <1>14
  DEF Next, ControlPlane, ReadLoop

-----------------------------------------------------------------------------
(* Theorems *)

TablesInv == Tables /\ TypeOK

\* The tables of an SFU that has just started.
LEMMA InitTables == Init => TablesInv
BY SessionManagerAssumption
DEF Init, SmInit, TablesInv, Tables, MapsOK, OwnTables, AddrIndexSound, TypeOK

\* The inductive invariant.
THEOREM TablesInvariant == Spec => []TablesInv
<1>1. TablesInv /\ [Next]_vars => TablesInv'
  <2> SUFFICES ASSUME TablesInv, [Next]_vars PROVE TablesInv'
    OBVIOUS
  <2>1. Tables'
    BY NextKeepsTables DEF TablesInv
  <2>2. RestOK'
    BY NextKeepsRest DEF TablesInv, Tables, TypeOK, RestOK
  <2> QED BY <2>1, <2>2 DEF TablesInv, Tables, MapsOK, TypeOK, RestOK
<1> QED BY InitTables, <1>1, PTL DEF Spec

\* Every variable keeps its type through any interleaving of the read loop,
\* the cleanup loop and the control plane.
THEOREM TypeCorrect == Spec => []TypeOK
<1>1. TablesInv => TypeOK
  BY DEF TablesInv
<1> QED BY TablesInvariant, <1>1, PTL

\* A session is filed only under its own user, and a live one is in a room.
THEOREM OwnTablesInvariant == Spec => []OwnTables
<1>1. TablesInv => OwnTables
  BY DEF TablesInv, Tables
<1> QED BY TablesInvariant, <1>1, PTL

\* The address index never outlives what it indexes.
THEOREM AddrIndexInvariant == Spec => []AddrIndexSound
<1>1. TablesInv => AddrIndexSound
  BY DEF TablesInv, Tables
<1> QED BY TablesInvariant, <1>1, PTL

\* handleVoice's lookup by address never finds what the one by user missed.
THEOREM AddressLookupInvariant == Spec => []AddressLookupRedundant
<1>1. TablesInv => AddressLookupRedundant
  BY LookupByAddress DEF TablesInv
<1> QED BY TablesInvariant, <1>1, PTL

-----------------------------------------------------------------------------
(* The scavenger and the ping *)

\* A session has never been idle for longer than its user's pings stopped: what
\* voice packets and roaming do to LastSeen only makes it younger.
IdleBound == \A u \in User : byUser[u] # Nil => heap[byUser[u]].idle <= quiet[u]

\* What the tables say of the sessions the first two maps refer to.
LEMMA LiveSessions ==
    ASSUME Tables
    PROVE  /\ heap \in [SessionId -> Session \cup {Nil}]
           /\ \A u \in User : byUser[u] # Nil =>
                byUser[u] \in SessionId /\ heap[byUser[u]] \in Session
                /\ heap[byUser[u]].userID = u
           /\ \A a \in Addr : byAddr[a] # Nil =>
                byAddr[a] \in SessionId /\ heap[byAddr[a]] \in Session
                /\ byUser[heap[byAddr[a]].userID] = byAddr[a]
BY DEF Tables, MapsOK, OwnTables, AddrIndexSound

\* A step that leaves every session of byUser either just touched or as it was.
LEMMA YoungerKeepsIdle ==
    ASSUME TablesInv, TablesInv', IdleBound,
           NEW h \in [SessionId -> Session \cup {Nil}], heap' = Collect(h),
           \A u \in User : byUser'[u] # Nil =>
              \/ h[byUser'[u]].idle = 0
              \/ /\ byUser'[u] = byUser[u] /\ quiet'[u] = quiet[u]
                 /\ h[byUser[u]].idle = heap[byUser[u]].idle
    PROVE  IdleBound'
<1>1. \A u \in User : byUser'[u] \in SessionId => heap'[byUser'[u]] = h[byUser'[u]]
  BY CollectKeeps DEF TablesInv, Tables
<1> SUFFICES ASSUME NEW u \in User, byUser'[u] # Nil
             PROVE  heap'[byUser'[u]].idle <= quiet'[u]
  BY DEF IdleBound
<1>2. heap'[byUser'[u]] = h[byUser'[u]]
  BY <1>1 DEF TablesInv, Tables, MapsOK
<1>3. quiet'[u] \in Nat
  BY SessionManagerAssumption DEF TablesInv, TypeOK
<1> QED BY <1>2, <1>3 DEF IdleBound

\* A session made by a handshake is new, and so is its user's silence.
LEMMA RegisterKeepsIdle ==
    ASSUME TablesInv, TablesInv', IdleBound, NEW u \in User, NEW c \in Channel,
           NEW a \in Addr, Registers(u, c, a)
    PROVE  IdleBound'
<1>1. PICK s \in Unreferenced :
         /\ byUser' = [byUser EXCEPT ![u] = s]
         /\ heap' = Collect([heap EXCEPT ![s] = NewSession(u, c, a)])
  BY DEF Registers, RegisterSession
<1>2. s \in SessionId /\ \A v \in User : byUser[v] # s
  BY <1>1 DEF Unreferenced, Referenced
<1>3. NewSession(u, c, a) \in Session /\ NewSession(u, c, a).idle = 0
  BY NewSessionType DEF NewSession
<1> DEFINE h == [heap EXCEPT ![s] = NewSession(u, c, a)]
<1>4. /\ h \in [SessionId -> Session \cup {Nil}] /\ h[s].idle = 0
      /\ \A r \in SessionId : r # s => h[r] = heap[r]
  BY <1>2, <1>3 DEF TablesInv, Tables, MapsOK
<1>5. quiet' = [quiet EXCEPT ![u] = 0]
  BY DEF Registers
<1>6. heap' = Collect(h)
  BY <1>1
<1> HIDE DEF h
<1>7. ASSUME NEW v \in User, byUser'[v] # Nil
      PROVE  \/ h[byUser'[v]].idle = 0
             \/ /\ byUser'[v] = byUser[v] /\ quiet'[v] = quiet[v]
                /\ h[byUser[v]].idle = heap[byUser[v]].idle
  BY <1>1, <1>2, <1>4, <1>5, <1>7 DEF TablesInv, Tables, MapsOK, TypeOK
<1> QED BY <1>4, <1>6, <1>7, YoungerKeepsIdle

\* Unlinking sessions leaves the others alone.
LEMMA UnlinkKeepsIdle ==
    ASSUME TablesInv, TablesInv', IdleBound, NEW S \in SUBSET User, Unlink(S),
           \A u \in User \ S : quiet'[u] = quiet[u]
    PROVE  IdleBound'
<1>1. heap' = Collect(heap) /\ heap \in [SessionId -> Session \cup {Nil}]
  BY DEF Unlink, TablesInv, Tables, MapsOK
<1>2. \A u \in User : byUser'[u] # Nil =>
         u \notin S /\ byUser'[u] = byUser[u] /\ quiet'[u] = quiet[u]
  BY DEF Unlink
<1> QED BY <1>1, <1>2, YoungerKeepsIdle

\* A voice packet makes no session older.
LEMMA VoiceKeepsIdle ==
    ASSUME TablesInv, TablesInv', IdleBound, NEW u \in User, NEW c \in Channel,
           NEW a \in Addr, HandleVoice(u, c, a)
    PROVE  IdleBound'
<1> DEFINE s == VoiceSession(u, a)
           k == IF heap[s].addr # a THEN SetAddr(heap, u, a) ELSE heap
           h == IF heap[s].muted THEN k ELSE Touch(k, s)
<1>1. /\ s # Nil /\ byUser' = byUser /\ quiet' = quiet
      /\ heap' = Collect(h)
  BY DEF HandleVoice
<1>2. s = byUser[u]
  BY LookupByAddress DEF AddressLookupRedundant, TablesInv
<1>3. /\ s \in SessionId /\ heap[s] \in Session
      /\ heap \in [SessionId -> Session \cup {Nil}]
  BY <1>1, <1>2 DEF TablesInv, Tables, MapsOK, OwnTables
<1> HIDE DEF s
<1>4. /\ k \in [SessionId -> Session \cup {Nil}] /\ k[s] \in Session
      /\ k[s].idle = heap[s].idle \/ k[s].idle = 0
      /\ \A r \in SessionId : r # s => k[r] = heap[r]
  <2>1. CASE heap[s].addr # a
    <3>1. /\ SetAddr(heap, u, a) \in [SessionId -> Session \cup {Nil}]
          /\ SetAddr(heap, u, a)[byUser[u]] \in Session
          /\ SetAddr(heap, u, a)[byUser[u]].idle = 0
          /\ \A r \in SessionId : r # byUser[u] => SetAddr(heap, u, a)[r] = heap[r]
      BY <1>2, <1>3, SetAddrType
    <3> QED BY <1>2, <2>1, <3>1
  <2>2. CASE heap[s].addr = a
    BY <1>3, <2>2
  <2> QED BY <2>1, <2>2
<1> HIDE DEF k
<1>5. /\ h \in [SessionId -> Session \cup {Nil}]
      /\ h[s].idle = heap[s].idle \/ h[s].idle = 0
      /\ \A r \in SessionId : r # s => h[r] = heap[r]
  BY <1>3, <1>4, TouchType
<1> HIDE DEF h
<1>6. \A v \in User : byUser[v] # Nil => byUser[v] \in SessionId
  BY DEF TablesInv, Tables, MapsOK
<1> QED BY <1>1, <1>5, <1>6, YoungerKeepsIdle

\* A ping touches the session of its sender, or, if the sender has none, the one
\* at the sender's address, which cannot then be the sender's.
LEMMA PingKeepsIdle ==
    ASSUME TablesInv, TablesInv', IdleBound, NEW u \in User, NEW a \in Addr,
           HandlePing(u, a)
    PROVE  IdleBound'
<1> DEFINE s == PingSession(u, a)
           w == heap[s].userID
           h == IF heap[s].addr # a THEN SetAddr(heap, w, a) ELSE Touch(heap, s)
<1>1. /\ s # Nil /\ byUser' = byUser /\ quiet' = [quiet EXCEPT ![u] = 0]
      /\ heap' = Collect(h) /\ (byUser[u] # Nil => s = byUser[u])
  BY DEF HandlePing, PingSession
<1>2. /\ s \in SessionId /\ heap[s] \in Session /\ w \in User /\ byUser[w] = s
      /\ heap \in [SessionId -> Session \cup {Nil}]
  <2>1. Tables
    BY DEF TablesInv
  <2>2. /\ s \in SessionId /\ heap[s] \in Session /\ byUser[w] = s
        /\ heap \in [SessionId -> Session \cup {Nil}]
    BY <1>1, <2>1, LiveSessions DEF PingSession
  <2> QED BY <2>2 DEF Session
<1> HIDE DEF s
<1>3. /\ h \in [SessionId -> Session \cup {Nil}] /\ h[s].idle = 0
      /\ \A r \in SessionId : r # s => h[r] = heap[r]
  <2>1. CASE heap[s].addr # a
    <3> DEFINE x == w
    <3>1. x \in User /\ byUser[x] = s
      BY <1>2
    <3> HIDE DEF x
    <3>2. /\ SetAddr(heap, x, a) \in [SessionId -> Session \cup {Nil}]
          /\ SetAddr(heap, x, a)[byUser[x]].idle = 0
          /\ \A r \in SessionId : r # byUser[x] => SetAddr(heap, x, a)[r] = heap[r]
      BY <1>2, <3>1, SetAddrType
    <3> QED BY <2>1, <3>1, <3>2 DEF x
  <2>2. CASE heap[s].addr = a
    BY <1>2, <2>2, TouchType
  <2> QED BY <2>1, <2>2
<1> HIDE DEF h
<1>4. \A v \in User : byUser[v] # Nil => byUser[v] \in SessionId
  BY DEF TablesInv, Tables, MapsOK
<1>5. \A v \in User : byUser[v] # Nil /\ byUser[v] # s => quiet'[v] = quiet[v]
  BY <1>1 DEF TablesInv, TypeOK
<1> QED BY <1>1, <1>3, <1>4, <1>5, YoungerKeepsIdle

\* Every step keeps the bound on a session's idle time.
LEMMA NextKeepsIdle ==
    TablesInv /\ TablesInv' /\ IdleBound /\ [Next]_vars => IdleBound'
<1> SUFFICES ASSUME TablesInv, TablesInv', IdleBound, [Next]_vars PROVE IdleBound'
  OBVIOUS
<1>0. Tables
  BY DEF TablesInv
<1>1. ASSUME UNCHANGED <<heap, byUser, quiet>> PROVE IdleBound'
  BY <1>1 DEF IdleBound
<1>2. CASE UNCHANGED vars
  BY <1>1, <1>2 DEF vars
<1>3. CASE \/ \E t \in Token, u \in User, c \in Channel : CreateVoiceToken(t, u, c)
           \/ \E t \in Token : RegisterPending(t) \/ LoseHandshake(t)
           \/ \E u \in User : RevokeVoiceTokens(u)
  BY <1>1, <1>3 DEF CreateVoiceToken, RegisterPending, LoseHandshake, RevokeVoiceTokens
<1>4. CASE \E u \in User : Leave(u)
  <2> PICK u \in User : Leave(u)
    BY <1>4
  <2>1. {u} \in SUBSET User /\ Unlink({u}) /\ \A v \in User \ {u} : quiet'[v] = quiet[v]
    BY DEF Leave, RemoveSession, TablesInv, TypeOK
  <2> QED BY <2>1, UnlinkKeepsIdle
<1>5. CASE \E u \in User, to \in Channel : Move(u, to)
  <2> PICK u \in User, to \in Channel : Move(u, to)
    BY <1>5
  <2> DEFINE h == [heap EXCEPT ![byUser[u]].channelID = to]
  <2>1. heap' = Collect(h) /\ byUser' = byUser /\ quiet' = quiet
    BY DEF Move, MoveMember
  <2>2. byUser[u] \in SessionId /\ heap[byUser[u]] \in Session
        /\ heap \in [SessionId -> Session \cup {Nil}]
    BY <1>0, LiveSessions DEF Move, MoveMember
  <2>3. /\ h \in [SessionId -> Session \cup {Nil}]
        /\ \A s \in SessionId : heap[s] # Nil => h[s].idle = heap[s].idle
    BY <2>2 DEF Session
  <2> HIDE DEF h
  <2>4. \A v \in User : byUser[v] # Nil => byUser[v] \in SessionId /\ heap[byUser[v]] # Nil
    BY DEF TablesInv, Tables, MapsOK, OwnTables
  <2> QED BY <2>1, <2>3, <2>4, YoungerKeepsIdle
<1>6. CASE \/ \E u \in Muted, m \in BOOLEAN : Mute(u, m)
           \/ \E u \in Deafened, d \in BOOLEAN : Deafen(u, d)
  <2>1. PICK u \in User, b \in BOOLEAN :
          /\ byUser[u] # Nil
          /\ \/ heap' = [heap EXCEPT ![byUser[u]].muted = b]
             \/ heap' = [heap EXCEPT ![byUser[u]].deafened = b]
    BY <1>6, SfuRouterAssumption DEF Mute, Deafen, SetServerMute, SetServerDeafen
  <2>2. byUser' = byUser /\ quiet' = quiet
    BY <1>6 DEF Mute, Deafen, SetServerMute, SetServerDeafen
  <2>3. byUser[u] \in SessionId /\ heap[byUser[u]] \in Session
        /\ heap \in [SessionId -> Session \cup {Nil}]
    BY <1>0, <2>1, LiveSessions
  <2>4. \A s \in SessionId : heap[s] # Nil => heap'[s].idle = heap[s].idle
    BY <2>1, <2>3 DEF Session
  <2>5. \A v \in User : byUser[v] # Nil => byUser[v] \in SessionId /\ heap[byUser[v]] # Nil
    BY DEF TablesInv, Tables, MapsOK, OwnTables
  <2> QED BY <2>2, <2>4, <2>5 DEF IdleBound
<1>7. CASE \E t \in Token, a \in Addr : HandleHandshake(t, a)
  <2> PICK t \in Token, a \in Addr : HandleHandshake(t, a)
    BY <1>7
  <2> DEFINE u == tokens[t].userID
             c == tokens[t].channelID
  <2>1. u \in User /\ c \in Channel
    BY DEF HandleHandshake, HandshakeActivate, HandshakeRedeem, HandshakeExisting,
           HandshakeFallback, Arrives, TablesInv, TypeOK, VoiceToken
  <2>2. CASE HandshakeActivate(t, a) \/ HandshakeFallback(t, a)
    BY <2>1, <2>2, RegisterKeepsIdle DEF HandshakeActivate, HandshakeFallback
  <2>3. CASE HandshakeRedeem(t, a)
    BY <1>1, <2>3 DEF HandshakeRedeem
  <2>4. CASE HandshakeExisting(t, a)
    <3> DEFINE g == [heap EXCEPT ![byUser[u]].channelID = c]
               h == SetAddr(g, u, a)
    <3>1. byUser[u] # Nil /\ byUser' = byUser /\ quiet' = quiet /\ heap' = Collect(h)
      BY <2>4 DEF HandshakeExisting
    <3>2. byUser[u] \in SessionId /\ heap[byUser[u]] \in Session
          /\ heap \in [SessionId -> Session \cup {Nil}]
      BY <1>0, <2>1, <3>1, LiveSessions
    <3>3. /\ g \in [SessionId -> Session \cup {Nil}] /\ g[byUser[u]] \in Session
          /\ \A s \in SessionId : s # byUser[u] => g[s] = heap[s]
      BY <2>1, <3>2 DEF Session
    <3> HIDE DEF g, u
    <3>4. /\ SetAddr(g, u, a) \in [SessionId -> Session \cup {Nil}]
          /\ SetAddr(g, u, a)[byUser[u]].idle = 0
          /\ \A s \in SessionId : s # byUser[u] => SetAddr(g, u, a)[s] = g[s]
      BY <2>1, <3>2, <3>3, SetAddrType
    <3>5. /\ h \in [SessionId -> Session \cup {Nil}] /\ h[byUser[u]].idle = 0
          /\ \A s \in SessionId : s # byUser[u] => h[s] = heap[s]
      BY <3>3, <3>4
    <3> HIDE DEF h
    <3>6. \A v \in User : byUser[v] # Nil => byUser[v] \in SessionId
      BY DEF TablesInv, Tables, MapsOK
    <3> QED BY <3>1, <3>5, <3>6, YoungerKeepsIdle
  <2> QED BY <2>2, <2>3, <2>4 DEF HandleHandshake
<1>8. CASE HandshakeRegister
  <2>1. redeemed.userID \in User /\ redeemed.channelID \in Channel /\ redeemed.addr \in Addr
    BY <1>8 DEF HandshakeRegister, TablesInv, TypeOK, Handshake
  <2> QED BY <1>8, <2>1, RegisterKeepsIdle DEF HandshakeRegister
<1>9. CASE \E u \in Speakers, c \in Channel : \E a \in AddrsOf[u] : HandleVoice(u, c, a)
  BY <1>9, SfuRouterAssumption, VoiceKeepsIdle
<1>10. CASE \E p \in SessionId : Forward(p)
  <2>1. heap' = Collect(heap) /\ byUser' = byUser /\ quiet' = quiet
        /\ heap \in [SessionId -> Session \cup {Nil}]
    BY <1>10 DEF Forward, TablesInv, Tables, MapsOK
  <2> QED BY <2>1, YoungerKeepsIdle
<1>11. CASE \E u \in User : \E a \in AddrsOf[u] : HandlePing(u, a)
  BY <1>11, SfuRouterAssumption, PingKeepsIdle
<1>12. CASE Clean
  <2>1. Stale \in SUBSET User /\ Unlink(Stale)
        /\ \A u \in User \ Stale : quiet'[u] = quiet[u]
    BY <1>12 DEF Clean, CleanStaleSessions, Stale
  <2> QED BY <2>1, UnlinkKeepsIdle
<1>13. CASE Tick
  <2> SUFFICES ASSUME NEW u \in User, byUser[u] # Nil
               PROVE  heap'[byUser[u]].idle <= quiet'[u]
    BY <1>13 DEF IdleBound, Tick
  <2>1. byUser[u] \in SessionId /\ heap[byUser[u]] # Nil /\ heap[byUser[u]] \in Session
    BY DEF TablesInv, Tables, MapsOK, OwnTables
  <2>2. heap'[byUser[u]].idle = Older(heap[byUser[u]].idle, MaxIdle)
    BY <1>13, <2>1, TickHeap DEF TablesInv, Tables, MapsOK
  <2>3. quiet'[u] = Older(quiet[u], MaxIdle)
    BY <1>13 DEF Tick
  <2>4. heap[byUser[u]].idle \in 0..(MaxIdle + 1) /\ quiet[u] \in 0..(MaxIdle + 1)
        /\ heap[byUser[u]].idle <= quiet[u]
    BY <2>1 DEF Session, TablesInv, TypeOK, IdleBound
  <2> QED BY <2>2, <2>3, <2>4, SessionManagerAssumption DEF Older
<1> QED
  BY <1>2, <1>3, <1>4, <1>5, <1>6, <1>7, <1>8, <1>9, <1>10, <1>11, <1>12, <1>13
  DEF Next, ControlPlane, ReadLoop

\* The scavenger never evicts a user whose ping was handled within MaxIdle: not
\* after any roaming, muting, moving or re-joining.
THEOREM KeepAliveHolds == Spec => KeepAlive
<1> DEFINE I == TablesInv /\ IdleBound
<1>1. Init => IdleBound
  BY DEF Init, SmInit, IdleBound
<1>2. TablesInv /\ TablesInv' /\ IdleBound /\ [Next]_vars => IdleBound'
  BY NextKeepsIdle
<1>3. TablesInv /\ IdleBound
        => [Clean => \A u \in User : u \in Stale => quiet[u] > MaxIdle]_vars
  <2> SUFFICES ASSUME TablesInv, IdleBound, NEW u \in User, u \in Stale
               PROVE  quiet[u] > MaxIdle
    OBVIOUS
  <2>1. byUser[u] \in SessionId /\ heap[byUser[u]] \in Session
    BY DEF Stale, TablesInv, Tables, MapsOK, OwnTables
  <2>2. heap[byUser[u]].idle \in Nat /\ quiet[u] \in Nat
    BY <2>1, SessionManagerAssumption DEF Session, TablesInv, TypeOK
  <2> QED BY <2>1, <2>2, SessionManagerAssumption DEF Stale, IdleBound
<1> QED BY TablesInvariant, <1>1, <1>2, <1>3, PTL DEF Spec, KeepAlive

-----------------------------------------------------------------------------
(* The voice tokens and their handshakes *)

\* Of one user at most one join is under way: one token, or the handshake being
\* redeemed and what is left of its copies.
OneJoin ==
    /\ \A t \in Token : tokens[t] # Nil /\ (tokens[t].pending \/ tokens[t].copies > 0)
                            => tokens[t].sent
    /\ \A t, q \in Token : tokens[t] # Nil /\ tokens[q] # Nil
                                /\ tokens[t].userID = tokens[q].userID => t = q
    /\ redeemed # Nil => \A t \in Open(redeemed.userID) :
                              tokens[t].channelID = redeemed.channelID

\* What a step other than its creation does to a token.
Continues(t) ==
    /\ tokens[t] # Nil
    /\ tokens'[t].userID = tokens[t].userID
    /\ tokens'[t].channelID = tokens[t].channelID
    /\ tokens[t].sent => tokens'[t].sent
    /\ tokens'[t].pending => tokens[t].pending \/ tokens'[t].sent
    /\ tokens'[t].copies > 0 => tokens[t].copies > 0 \/ tokens'[t].sent

\* Forgetting leaves a token as it was or takes it away.
LEMMA RetiredEntry ==
    ASSUME NEW tks, NEW t \in Token, Retired(tks)[t] # Nil
    PROVE  /\ Retired(tks)[t] = tks[t]
           /\ ~(tks[t].sent /\ ~tks[t].pending /\ tks[t].copies = 0)
BY DEF Retired

\* Purging pendingTokens touches nothing but the tokens purged.
LEMMA PurgedEntry ==
    ASSUME TypeOK, NEW S \in SUBSET Token, \A t \in S : tokens[t] # Nil,
           tokens' = Retired(Purged(S)), NEW t \in Token, tokens'[t] # Nil
    PROVE  /\ Continues(t)
           /\ t \notin S => tokens'[t] = tokens[t]
           /\ t \in S => tokens'[t].age = tokens[t].age
<1>1. tokens'[t] = Purged(S)[t]
  BY RetiredEntry
<1>2. CASE t \in S
  <2>1. tokens[t] \in VoiceToken(Copies)
    BY <1>2 DEF TypeOK
  <2>2. tokens'[t] = [tokens[t] EXCEPT !.pending = FALSE]
    BY <1>1, <1>2 DEF Purged
  <2>3. /\ tokens'[t].userID = tokens[t].userID
        /\ tokens'[t].channelID = tokens[t].channelID
        /\ tokens'[t].age = tokens[t].age /\ tokens'[t].copies = tokens[t].copies
    BY <2>1, <2>2 DEF VoiceToken
  <2>4. tokens'[t].sent = tokens[t].sent /\ tokens'[t].pending = FALSE
    BY <2>1, <2>2 DEF VoiceToken
  <2> QED BY <1>2, <2>3, <2>4 DEF Continues
<1>3. CASE t \notin S
  BY <1>1, <1>3 DEF Purged, Continues, TypeOK
<1> QED BY <1>2, <1>3

\* A handshake takes one copy off the network and leaves its token out of
\* memory; the token stays only if other copies are to come.
LEMMA HandshakeEntry ==
    ASSUME TypeOK, OneJoin, Prompt, NEW t \in Token, NEW a \in Addr,
           HandleHandshake(t, a), NEW q \in Token, tokens'[q] # Nil
    PROVE  /\ Continues(q)
           /\ q # t => tokens'[q] = tokens[q]
           /\ q = t => ~tokens'[q].pending /\ tokens'[q].copies = tokens[q].copies - 1
                       /\ tokens'[q].copies > 0
<1>1. /\ tokens[t] \in VoiceToken(Copies) /\ tokens[t] # Nil
      /\ tokens[t].copies > 0 /\ tokens[t].age <= MaxDelay
  BY DEF HandleHandshake, HandshakeActivate, HandshakeRedeem, HandshakeExisting,
         HandshakeFallback, Arrives, TypeOK
<1>2. tokens[t].sent
  BY <1>1 DEF OneJoin
<1>3. Fresh(tokens[t])
  BY <1>1, SessionManagerAssumption, SfuRouterAssumption DEF Prompt, Fresh, VoiceToken
<1>4. PICK x : /\ tokens' = Retired([tokens EXCEPT ![t] = x])
               /\ \/ x = [Taken(t) EXCEPT !.pending = FALSE]
                  \/ x = [Taken(t) EXCEPT !.stored = FALSE] /\ ~tokens[t].pending
  BY <1>3 DEF HandleHandshake, HandshakeActivate, HandshakeRedeem, HandshakeExisting,
     HandshakeFallback, Redeemable, Activatable
<1>5. /\ Taken(t).userID = tokens[t].userID /\ Taken(t).channelID = tokens[t].channelID
      /\ Taken(t).copies = tokens[t].copies - 1
  BY <1>1 DEF Taken, VoiceToken
<1>6. Taken(t).sent = tokens[t].sent /\ Taken(t).pending = tokens[t].pending
  BY <1>1 DEF Taken, VoiceToken
<1>7. /\ x.userID = tokens[t].userID /\ x.channelID = tokens[t].channelID
      /\ x.copies = tokens[t].copies - 1
  BY <1>1, <1>4 DEF Taken, VoiceToken
<1>8. x.sent = tokens[t].sent
  BY <1>1, <1>4 DEF Taken, VoiceToken
<1>9. x.pending = FALSE
  <2>1. CASE x = [Taken(t) EXCEPT !.pending = FALSE]
    BY <1>1, <2>1 DEF Taken, VoiceToken
  <2>2. CASE x = [Taken(t) EXCEPT !.stored = FALSE] /\ ~tokens[t].pending
    <3>1. x.pending = tokens[t].pending
      BY <1>1, <2>2 DEF Taken, VoiceToken
    <3>2. tokens[t].pending \in BOOLEAN
      BY <1>1 DEF VoiceToken
    <3> QED BY <2>2, <3>1, <3>2
  <2> QED BY <1>4, <2>1, <2>2
<1>10. /\ tokens'[q] = [tokens EXCEPT ![t] = x][q]
       /\ ~(tokens'[q].sent /\ ~tokens'[q].pending /\ tokens'[q].copies = 0)
  <2> DEFINE tks == [tokens EXCEPT ![t] = x]
  <2>1. tokens' = Retired(tks)
    BY <1>4
  <2> HIDE DEF tks
  <2>2. /\ Retired(tks)[q] = tks[q]
        /\ ~(tks[q].sent /\ ~tks[q].pending /\ tks[q].copies = 0)
    BY <2>1, RetiredEntry
  <2> QED BY <2>1, <2>2 DEF tks
<1>11. CASE q # t
  <2>1. tokens'[q] = tokens[q]
    BY <1>10, <1>11 DEF TypeOK
  <2> QED BY <1>11, <2>1 DEF Continues
<1>12. CASE q = t
  <2>1. tokens'[q] = x
    BY <1>10, <1>12 DEF TypeOK
  <2>2. x.copies # 0
    BY <1>2, <1>8, <1>9, <1>10, <2>1
  <2>3. x.copies > 0
    BY <1>1, <1>7, <2>2 DEF VoiceToken
  <2>4. Continues(q)
    BY <1>1, <1>2, <1>7, <1>8, <1>9, <1>12, <2>1 DEF Continues
  <2> QED BY <1>7, <1>9, <1>12, <2>1, <2>3, <2>4
<1> QED BY <1>11, <1>12

\* A lost handshake.
LEMMA LostEntry ==
    ASSUME TypeOK, NEW t \in Token, LoseHandshake(t), NEW q \in Token, tokens'[q] # Nil
    PROVE  /\ Continues(q)
           /\ q # t => tokens'[q] = tokens[q]
           /\ q = t => tokens'[q].pending = tokens[q].pending
           /\ q = t => tokens'[q].age = tokens[q].age /\ tokens[q].copies > 0
           /\ q = t => tokens'[q].sent = tokens[q].sent
<1>1. /\ tokens[t] \in VoiceToken(Copies) /\ tokens[t] # Nil /\ tokens[t].copies > 0
      /\ tokens' = Retired([tokens EXCEPT ![t] = Taken(t)])
  BY DEF LoseHandshake, TypeOK
<1>2. tokens'[q] = [tokens EXCEPT ![t] = Taken(t)][q]
  BY <1>1, RetiredEntry
<1>3. CASE q # t
  <2>1. tokens'[q] = tokens[q]
    BY <1>2, <1>3 DEF TypeOK
  <2> QED BY <1>3, <2>1 DEF Continues
<1>4. CASE q = t
  <2>1. tokens'[q] = Taken(t)
    BY <1>2, <1>4 DEF TypeOK
  <2>2. /\ Taken(t).userID = tokens[t].userID /\ Taken(t).channelID = tokens[t].channelID
        /\ Taken(t).age = tokens[t].age
    BY <1>1 DEF Taken, VoiceToken
  <2>3. Taken(t).sent = tokens[t].sent /\ Taken(t).pending = tokens[t].pending
    BY <1>1 DEF Taken, VoiceToken
  <2> QED BY <1>1, <1>4, <2>1, <2>2, <2>3 DEF Continues
<1> QED BY <1>3, <1>4

\* A user may start a join only when nothing of an earlier one is left.
LEMMA NothingUnderway ==
    ASSUME TypeOK, OneJoin, Prompt, NEW u \in User, Underway(u) < MaxOpen
    PROVE  Open(u) = {} /\ ~(redeemed # Nil /\ redeemed.userID = u)
<1>1. MaxOpen \in Nat /\ MaxOpen <= 1
  BY SfuRouterAssumption DEF Prompt
<1>2. Open(u) = {}
  <2> SUFFICES ASSUME NEW t \in Open(u) PROVE FALSE
    OBVIOUS
  <2>1. Open(u) = {t}
    BY DEF Open, OneJoin
  <2>2. Cardinality(Open(u)) = 1
    BY <2>1, FS_Singleton
  <2> QED BY <1>1, <2>2 DEF Underway
<1>3. Cardinality(Open(u)) = 0
  BY <1>2, FS_EmptySet
<1> QED BY <1>1, <1>2, <1>3 DEF Underway

\* If every token there is after a step was there before it, and the handshake
\* being redeemed is the same or gone, one join is still one join.
LEMMA ContinuesKeepsOneJoin ==
    ASSUME TypeOK, OneJoin, \A t \in Token : tokens'[t] # Nil => Continues(t),
           redeemed' = redeemed \/ redeemed' = Nil
    PROVE  OneJoin'
<1>1. ASSUME NEW t \in Token, tokens'[t] # Nil,
             tokens'[t].pending \/ tokens'[t].copies > 0
      PROVE  tokens'[t].sent
  BY <1>1 DEF OneJoin, Continues
<1>2. ASSUME NEW t \in Token, NEW q \in Token, tokens'[t] # Nil, tokens'[q] # Nil,
             tokens'[t].userID = tokens'[q].userID
      PROVE  t = q
  BY <1>2 DEF OneJoin, Continues
<1>3. ASSUME redeemed' # Nil, NEW t \in Token, tokens'[t] # Nil,
             tokens'[t].userID = redeemed'.userID
      PROVE  tokens'[t].channelID = redeemed'.channelID
  <2>1. redeemed' = redeemed /\ tokens[t] # Nil /\ tokens[t].userID = redeemed.userID
    BY <1>3 DEF Continues
  <2>2. tokens[t].channelID = redeemed.channelID
    BY <1>3, <2>1 DEF OneJoin, Open
  <2> QED BY <1>3, <2>1, <2>2 DEF Continues
<1> QED BY <1>1, <1>2, <1>3 DEF OneJoin, Open

\* What a step does to the joins: one begins, a handshake is handed over to be
\* redeemed, or what there is goes on or goes.
LEMMA StepContinues ==
    ASSUME TypeOK, Prompt, OneJoin, [Next]_vars
    PROVE  \/ \E t \in Token, u \in User, c \in Channel : CreateVoiceToken(t, u, c)
           \/ \E t \in Token, a \in Addr : HandshakeRedeem(t, a)
           \/ /\ \A t \in Token : tokens'[t] # Nil => Continues(t)
              /\ redeemed' = redeemed \/ redeemed' = Nil
<1>0. ASSUME tokens' = tokens PROVE \A t \in Token : tokens'[t] # Nil => Continues(t)
  BY <1>0 DEF Continues
<1>1. CASE UNCHANGED vars
  BY <1>0, <1>1 DEF vars
<1>3. CASE \E t \in Token : RegisterPending(t)
  <2> PICK t \in Token : RegisterPending(t)
    BY <1>3
  <2>1. tokens[t] \in VoiceToken(Copies) /\ redeemed' = redeemed /\ tokens[t] # Nil
    BY DEF RegisterPending, TypeOK
  <2>2. /\ tokens'[t] = [tokens[t] EXCEPT !.pending = TRUE, !.sent = TRUE, !.copies = Copies]
        /\ \A q \in Token \ {t} : tokens'[q] = tokens[q]
    BY DEF RegisterPending, TypeOK
  <2>3. tokens'[t].userID = tokens[t].userID /\ tokens'[t].channelID = tokens[t].channelID
    BY <2>1, <2>2 DEF VoiceToken
  <2>4. tokens'[t].sent
    BY <2>1, <2>2 DEF VoiceToken
  <2>5. Continues(t)
    BY <2>1, <2>3, <2>4 DEF Continues
  <2>6. \A q \in Token \ {t} : tokens'[q] # Nil => Continues(q)
    BY <2>2 DEF Continues
  <2> QED BY <2>1, <2>5, <2>6
<1>4. CASE \E t \in Token : LoseHandshake(t)
  BY <1>4, LostEntry DEF LoseHandshake
<1>5. CASE \E u \in User : Leave(u)
  <2> PICK u \in User : Leave(u)
    BY <1>5
  <2> DEFINE S == PendingOf(u)
  <2>1. /\ tokens' = Retired(Purged(S)) /\ redeemed' = redeemed
        /\ S \in SUBSET Token /\ \A t \in S : tokens[t] # Nil
    BY DEF Leave, RemoveSession, PendingOf
  <2> HIDE DEF S
  <2>2. \A t \in Token : tokens'[t] # Nil => Continues(t)
    BY <2>1, PurgedEntry
  <2> QED BY <2>1, <2>2
<1>6. CASE \E u \in User : RevokeVoiceTokens(u)
  <2> PICK u \in User : RevokeVoiceTokens(u)
    BY <1>6
  <2>1. ASSUME NEW t \in Token, tokens'[t] # Nil PROVE Continues(t)
    <3>1. CASE t \notin Open(u)
      BY <2>1, <3>1 DEF RevokeVoiceTokens, Continues
    <3>2. CASE t \in Open(u)
      <4>1. tokens[t] \in VoiceToken(Copies) /\ tokens[t] # Nil
        BY <3>2 DEF Open, TypeOK
      <4>2. tokens'[t] = [tokens[t] EXCEPT !.stored = FALSE, !.revoked = TRUE]
        BY <3>2 DEF RevokeVoiceTokens
      <4>3. /\ tokens'[t].userID = tokens[t].userID
            /\ tokens'[t].channelID = tokens[t].channelID
            /\ tokens'[t].copies = tokens[t].copies
        BY <4>1, <4>2 DEF VoiceToken
      <4>4. tokens'[t].sent = tokens[t].sent /\ tokens'[t].pending = tokens[t].pending
        BY <4>1, <4>2 DEF VoiceToken
      <4> QED BY <4>1, <4>3, <4>4 DEF Continues
    <3> QED BY <3>1, <3>2
  <2> QED BY <2>1 DEF RevokeVoiceTokens
<1>7. CASE \/ \E u \in User, to \in Channel : Move(u, to)
           \/ \E u \in Muted, m \in BOOLEAN : Mute(u, m)
           \/ \E u \in Deafened, d \in BOOLEAN : Deafen(u, d)
  BY <1>0, <1>7 DEF Move, MoveMember, Mute, SetServerMute, Deafen, SetServerDeafen
<1>8. CASE \E t \in Token, a \in Addr : HandleHandshake(t, a)
  <2> PICK t \in Token, a \in Addr : HandleHandshake(t, a)
    BY <1>8
  <2>1. \A q \in Token : tokens'[q] # Nil => Continues(q)
    BY HandshakeEntry
  <2> QED BY <2>1
    DEF HandleHandshake, HandshakeActivate, HandshakeExisting, HandshakeFallback
<1>9. CASE HandshakeRegister
  BY <1>0, <1>9 DEF HandshakeRegister
<1>10. CASE \/ \E u \in Speakers, c \in Channel : \E a \in AddrsOf[u] : HandleVoice(u, c, a)
            \/ \E p \in SessionId : Forward(p)
            \/ \E u \in User : \E a \in AddrsOf[u] : HandlePing(u, a)
  BY <1>0, <1>10 DEF HandleVoice, Forward, HandlePing
<1>11. CASE Clean
  <2> DEFINE S == ExpiredPending
  <2>1. /\ tokens' = Retired(Purged(S)) /\ redeemed' = redeemed
        /\ S \in SUBSET Token /\ \A t \in S : tokens[t] # Nil
    BY <1>11 DEF Clean, CleanStaleSessions, ExpiredPending
  <2> HIDE DEF S
  <2>2. \A t \in Token : tokens'[t] # Nil => Continues(t)
    BY <2>1, PurgedEntry
  <2> QED BY <2>1, <2>2
<1>12. CASE Tick
  <2>1. ASSUME NEW t \in Token, tokens'[t] # Nil PROVE Continues(t)
    <3>1. tokens[t] \in VoiceToken(Copies) /\ tokens[t] # Nil
          /\ tokens'[t] = [tokens[t] EXCEPT !.age = Older(@, TokenTTL)]
      BY <1>12, <2>1 DEF Tick, TypeOK
    <3>2. /\ tokens'[t].userID = tokens[t].userID
          /\ tokens'[t].channelID = tokens[t].channelID
          /\ tokens'[t].copies = tokens[t].copies
      BY <3>1 DEF VoiceToken
    <3>3. tokens'[t].sent = tokens[t].sent /\ tokens'[t].pending = tokens[t].pending
      BY <3>1 DEF VoiceToken
    <3> QED BY <3>1, <3>2, <3>3 DEF Continues
  <2> QED BY <1>12, <2>1 DEF Tick
<1> QED
  BY <1>1, <1>3, <1>4, <1>5, <1>6, <1>7, <1>8, <1>9, <1>10, <1>11, <1>12
  DEF Next, ControlPlane, ReadLoop

\* Every step keeps it so.
LEMMA NextKeepsOneJoin == TypeOK /\ Prompt /\ OneJoin /\ [Next]_vars => OneJoin'
<1> SUFFICES ASSUME TypeOK, Prompt, OneJoin, [Next]_vars PROVE OneJoin'
  OBVIOUS
<1>1. CASE \E t \in Token, u \in User, c \in Channel : CreateVoiceToken(t, u, c)
  <2> PICK t \in Token, u \in User, c \in Channel : CreateVoiceToken(t, u, c)
    BY <1>1
  <2>1. Open(u) = {} /\ ~(redeemed # Nil /\ redeemed.userID = u) /\ redeemed' = redeemed
    BY NothingUnderway DEF CreateVoiceToken
  <2>2. /\ tokens[t] = Nil /\ tokens'[t].userID = u
        /\ tokens'[t].copies = 0 /\ \A q \in Token \ {t} : tokens'[q] = tokens[q]
    BY DEF CreateVoiceToken, TypeOK
  <2>3. tokens'[t].pending = FALSE
    BY DEF CreateVoiceToken, TypeOK
  <2>4. \A q \in Token \ {t} : tokens[q] # Nil => tokens[q].userID # u
    BY <2>1 DEF Open
  <2>5. ASSUME NEW q \in Token, tokens'[q] # Nil,
               tokens'[q].pending \/ tokens'[q].copies > 0
        PROVE  tokens'[q].sent
    <3>1. q # t
      BY <2>2, <2>3, <2>5
    <3> QED BY <2>2, <2>5, <3>1 DEF OneJoin
  <2>6. ASSUME NEW p \in Token, NEW q \in Token, tokens'[p] # Nil, tokens'[q] # Nil,
               tokens'[p].userID = tokens'[q].userID
        PROVE  p = q
    BY <2>2, <2>4, <2>6 DEF OneJoin
  <2>7. ASSUME redeemed' # Nil, NEW q \in Token, tokens'[q] # Nil,
               tokens'[q].userID = redeemed'.userID
        PROVE  tokens'[q].channelID = redeemed'.channelID
    BY <2>1, <2>2, <2>7 DEF OneJoin, Open
  <2> QED BY <2>5, <2>6, <2>7 DEF OneJoin, Open
<1>2. CASE \E t \in Token, a \in Addr : HandshakeRedeem(t, a)
  <2> PICK t \in Token, a \in Addr : HandshakeRedeem(t, a)
    BY <1>2
  <2>0. \A q \in Token : tokens'[q] # Nil => Continues(q)
    BY HandshakeEntry DEF HandleHandshake
  <2>1. /\ tokens[t] # Nil /\ redeemed = Nil
        /\ redeemed' = [userID |-> tokens[t].userID,
                        channelID |-> tokens[t].channelID, addr |-> a]
    BY DEF HandshakeRedeem, Arrives, Reading
  <2>2. ASSUME NEW q \in Token, tokens'[q] # Nil,
               tokens'[q].pending \/ tokens'[q].copies > 0
        PROVE  tokens'[q].sent
    BY <2>0, <2>2 DEF OneJoin, Continues
  <2>3. ASSUME NEW p \in Token, NEW q \in Token, tokens'[p] # Nil, tokens'[q] # Nil,
               tokens'[p].userID = tokens'[q].userID
        PROVE  p = q
    BY <2>0, <2>3 DEF OneJoin, Continues
  <2>4. ASSUME NEW q \in Token, tokens'[q] # Nil, tokens'[q].userID = redeemed'.userID
        PROVE  tokens'[q].channelID = redeemed'.channelID
    <3>1. tokens[q] # Nil /\ tokens[q].userID = tokens[t].userID
      BY <2>0, <2>1, <2>4 DEF Continues
    <3>2. q = t
      BY <2>1, <3>1 DEF OneJoin
    <3> QED BY <2>0, <2>1, <2>4, <3>2 DEF Continues
  <2> QED BY <2>2, <2>3, <2>4 DEF OneJoin, Open
<1> QED BY <1>1, <1>2, StepContinues, ContinuesKeepsOneJoin

-----------------------------------------------------------------------------
(* The rooms *)

\* Outside S, a step has changed no session's user and no session's channel.
KeptRooms(S) ==
    \A v \in User \ S : byUser'[v] # Nil =>
        /\ byUser'[v] = byUser[v]
        /\ heap'[byUser'[v]].channelID = heap[byUser[v]].channelID

\* A new session: its user is in its channel's map and in no other.
LEMMA RegisterRooms ==
    ASSUME Tables, Tables', RoomIsolation, NEW u \in User, NEW c \in Channel,
           NEW a \in Addr, RegisterSession(u, c, a)
    PROVE  /\ RoomIsolation' /\ KeptRooms({u})
           /\ byUser'[u] # Nil /\ heap'[byUser'[u]].channelID = c
<1>1. PICK s \in Unreferenced :
         /\ byUser' = [byUser EXCEPT ![u] = s]
         /\ byChannel' = [ByChannelWithout({u}) EXCEPT ![c][u] = s]
         /\ heap' = Collect([heap EXCEPT ![s] = NewSession(u, c, a)])
  BY DEF RegisterSession
<1>2. /\ s \in SessionId /\ s # Nil
      /\ \A v \in User : byUser[v] # s
  BY <1>1, SessionManagerAssumption DEF Unreferenced, Referenced
<1> DEFINE h == [heap EXCEPT ![s] = NewSession(u, c, a)]
<1>3. NewSession(u, c, a) \in Session /\ NewSession(u, c, a).channelID = c
  BY NewSessionType DEF NewSession
<1>4. /\ h \in [SessionId -> Session \cup {Nil}] /\ h[s].channelID = c
      /\ \A r \in SessionId : r # s => h[r] = heap[r]
  BY <1>2, <1>3 DEF Tables, MapsOK
<1>5. heap' = Collect(h)
  BY <1>1
<1> HIDE DEF h
<1>6. \A v \in User : byUser'[v] \in SessionId => heap'[byUser'[v]] = h[byUser'[v]]
  BY <1>4, <1>5, CollectKeeps DEF Tables
<1>7. byUser'[u] = s /\ heap'[s] = h[s]
  BY <1>1, <1>2, <1>6 DEF Tables, MapsOK
<1>8. ASSUME NEW v \in User, v # u
      PROVE  /\ byUser'[v] = byUser[v]
             /\ byUser[v] # Nil => heap'[byUser[v]].channelID = heap[byUser[v]].channelID
             /\ \A d \in Channel : byChannel'[d][v] = byChannel[d][v]
  <2>1. byUser'[v] = byUser[v] /\ \A d \in Channel : byChannel'[d][v] = byChannel[d][v]
    BY <1>1, <1>8 DEF Tables, MapsOK, ByChannelWithout
  <2> QED BY <1>2, <1>4, <1>6, <2>1 DEF Tables, MapsOK
<1>9. KeptRooms({u})
  BY <1>8 DEF KeptRooms
<1>10. ASSUME NEW d \in Channel, byChannel'[d][u] # Nil
       PROVE  d = c /\ byChannel'[d][u] = s
  <2>1. CASE d = c
    BY <1>1, <2>1 DEF ByChannelWithout
  <2>2. CASE d # c
    <3>1. byChannel'[d][u] = ByChannelWithout({u})[d][u]
      BY <1>1, <2>2 DEF ByChannelWithout
    <3>2. byChannel[d][u] # Nil /\ ~(byUser[u] # Nil /\ heap[byUser[u]].channelID = d)
      BY <1>10, <3>1 DEF ByChannelWithout
    <3> QED BY <3>2 DEF RoomIsolation
  <2> QED BY <2>1, <2>2
<1>11. RoomIsolation'
  BY <1>4, <1>7, <1>8, <1>10 DEF RoomIsolation
<1> QED BY <1>2, <1>4, <1>7, <1>9, <1>11

\* Unlinked users are in no room.
LEMMA UnlinkRooms ==
    ASSUME Tables, RoomIsolation, NEW S \in SUBSET User, Unlink(S)
    PROVE  RoomIsolation' /\ KeptRooms({}) /\ \A v \in S : byUser'[v] = Nil
<1>1. /\ byUser' = [u \in User |-> IF u \in S THEN Nil ELSE byUser[u]]
      /\ byChannel' = ByChannelWithout(S)
      /\ heap' = Collect(heap) /\ heap \in [SessionId -> Session \cup {Nil}]
  BY DEF Unlink, Tables, MapsOK
<1>2. \A v \in User : byUser'[v] \in SessionId => heap'[byUser'[v]] = heap[byUser'[v]]
  BY <1>1, CollectKeeps DEF Tables
<1>3. KeptRooms({})
  BY <1>1, <1>2 DEF KeptRooms, Tables, MapsOK
<1>4. ASSUME NEW d \in Channel, NEW v \in User, byChannel'[d][v] # Nil
      PROVE  byChannel'[d][v] = byUser'[v] /\ heap'[byUser'[v]].channelID = d
  <2>1. /\ byChannel'[d][v] = byChannel[d][v]
        /\ ~(v \in S /\ byUser[v] # Nil /\ heap[byUser[v]].channelID = d)
    BY <1>1, <1>4 DEF ByChannelWithout
  <2>2. byChannel[d][v] = byUser[v] /\ heap[byUser[v]].channelID = d
    BY <1>4, <2>1 DEF RoomIsolation
  <2> QED BY <1>1, <1>2, <1>4, <2>1, <2>2 DEF Tables, MapsOK
<1> QED BY <1>1, <1>3, <1>4 DEF RoomIsolation

\* A step that moves no entry of byUser and byChannel and rewrites no channel.
LEMMA SameRooms ==
    ASSUME RoomIsolation, UNCHANGED <<byUser, byChannel>>,
           \A v \in User : byUser[v] # Nil =>
              heap'[byUser[v]].channelID = heap[byUser[v]].channelID
    PROVE  RoomIsolation' /\ KeptRooms({})
BY DEF RoomIsolation, KeptRooms

\* The same, for a heap rewritten and collected.
LEMMA CollectRooms ==
    ASSUME Tables, RoomIsolation, UNCHANGED <<byUser, byChannel>>,
           NEW h \in [SessionId -> Session \cup {Nil}], heap' = Collect(h),
           \A v \in User : byUser[v] # Nil =>
              h[byUser[v]].channelID = heap[byUser[v]].channelID
    PROVE  RoomIsolation' /\ KeptRooms({})
<1>1. \A v \in User : byUser'[v] \in SessionId => heap'[byUser'[v]] = h[byUser'[v]]
  BY CollectKeeps DEF Tables
<1>2. \A v \in User : byUser[v] # Nil =>
         heap'[byUser[v]].channelID = heap[byUser[v]].channelID
  BY <1>1 DEF Tables, MapsOK
<1> QED BY <1>2, SameRooms

\* A member that is moved leaves one room and enters another.
LEMMA MoveRooms ==
    ASSUME Tables, RoomIsolation, NEW u \in User, NEW to \in Channel, MoveMember(u, to)
    PROVE  RoomIsolation' /\ KeptRooms({u})
<1> DEFINE h == [heap EXCEPT ![byUser[u]].channelID = to]
<1>1. /\ byUser[u] # Nil
      /\ byChannel' = [[byChannel EXCEPT ![heap[byUser[u]].channelID][u] = Nil]
                            EXCEPT ![to][u] = byUser[u]]
      /\ byUser' = byUser /\ heap' = Collect(h)
  BY DEF MoveMember
<1>2. /\ byUser[u] \in SessionId /\ heap[byUser[u]] \in Session
      /\ \A v \in User \ {u} : byUser[v] # Nil => byUser[v] # byUser[u]
      /\ \A v \in User : byUser[v] # Nil => byUser[v] \in SessionId
  BY <1>1 DEF Tables, MapsOK, OwnTables
<1>3. /\ h \in [SessionId -> Session \cup {Nil}] /\ h[byUser[u]].channelID = to
      /\ \A s \in SessionId : s # byUser[u] => h[s] = heap[s]
  BY <1>2 DEF Session, Tables, MapsOK
<1> HIDE DEF h
<1>4. \A v \in User : byUser[v] # Nil => heap'[byUser[v]] = h[byUser[v]]
  BY <1>1, <1>2, <1>3, CollectKeeps DEF Tables
<1>5. KeptRooms({u})
  BY <1>1, <1>2, <1>3, <1>4 DEF KeptRooms
<1>6. ASSUME NEW d \in Channel, NEW v \in User, byChannel'[d][v] # Nil
      PROVE  byChannel'[d][v] = byUser[v] /\ heap'[byUser[v]].channelID = d
  <2>1. CASE v = u
    <3>1. CASE d = to
      BY <1>1, <1>3, <1>4, <2>1, <3>1 DEF Tables, MapsOK
    <3>2. CASE d # to
      <4>1. byChannel[d][u] # Nil /\ d # heap[byUser[u]].channelID
        BY <1>1, <1>6, <2>1, <3>2 DEF Tables, MapsOK
      <4> QED BY <4>1 DEF RoomIsolation
    <3> QED BY <3>1, <3>2
  <2>2. CASE v # u
    <3>1. byChannel'[d][v] = byChannel[d][v]
      BY <1>1, <2>2 DEF Tables, MapsOK
    <3>2. byChannel[d][v] = byUser[v] /\ heap[byUser[v]].channelID = d /\ byUser[v] # Nil
      BY <1>6, <3>1 DEF RoomIsolation
    <3> QED BY <1>2, <1>3, <1>4, <2>2, <3>1, <3>2
  <2> QED BY <2>1, <2>2
<1>7. byUser' = byUser
  BY <1>1
<1>8. RoomIsolation'
  BY <1>6, <1>7 DEF RoomIsolation
<1> QED BY <1>5, <1>8

\* UpdateAddr writes no channel.
LEMMA SetAddrChannel ==
    ASSUME NEW u \in User, NEW a \in Addr, byUser[u] \in SessionId,
           NEW g \in [SessionId -> Session \cup {Nil}], g[byUser[u]] \in Session
    PROVE  \A s \in SessionId : SetAddr(g, u, a)[s].channelID = g[s].channelID
<1> DEFINE r == [g[byUser[u]] EXCEPT !.addr = a, !.idle = 0]
<1>1. r.channelID = g[byUser[u]].channelID
  BY DEF Session
<1>2. SetAddr(g, u, a) = [g EXCEPT ![byUser[u]] = r]
  BY SessionManagerAssumption DEF SetAddr, Session
<1> HIDE DEF r
<1> QED BY <1>1, <1>2

\* Nor does Touch.
LEMMA TouchChannel ==
    ASSUME NEW s \in SessionId, NEW g \in [SessionId -> Session \cup {Nil}],
           g[s] \in Session
    PROVE  \A r \in SessionId : Touch(g, s)[r].channelID = g[r].channelID
<1> DEFINE x == [g[s] EXCEPT !.idle = 0]
<1>1. x.channelID = g[s].channelID
  BY DEF Session
<1>2. Touch(g, s) = [g EXCEPT ![s] = x]
  BY DEF Touch
<1> HIDE DEF x
<1> QED BY <1>1, <1>2

\* A voice packet changes no room, wherever it comes from.
LEMMA VoiceRooms ==
    ASSUME Tables, RoomIsolation, NEW u \in User, NEW c \in Channel, NEW a \in Addr,
           HandleVoice(u, c, a)
    PROVE  RoomIsolation' /\ KeptRooms({})
<1> DEFINE s == VoiceSession(u, a)
           k == IF heap[s].addr # a THEN SetAddr(heap, u, a) ELSE heap
           h == IF heap[s].muted THEN k ELSE Touch(k, s)
<1>1. s # Nil /\ UNCHANGED <<byUser, byChannel>> /\ heap' = Collect(h)
  BY DEF HandleVoice
<1>2. s = byUser[u]
  BY LookupByAddress DEF AddressLookupRedundant
<1>3. /\ s \in SessionId /\ heap[s] \in Session
      /\ heap \in [SessionId -> Session \cup {Nil}]
      /\ \A v \in User : byUser[v] # Nil => byUser[v] \in SessionId
  BY <1>1, <1>2, LiveSessions
<1> HIDE DEF s
<1>4. /\ k \in [SessionId -> Session \cup {Nil}] /\ k[s] \in Session
      /\ \A r \in SessionId : k[r].channelID = heap[r].channelID
  <2>1. CASE heap[s].addr # a
    BY <1>2, <1>3, <2>1, SetAddrType, SetAddrChannel
  <2>2. CASE heap[s].addr = a
    BY <1>3, <2>2
  <2> QED BY <2>1, <2>2
<1> HIDE DEF k
<1>5. /\ h \in [SessionId -> Session \cup {Nil}]
      /\ \A r \in SessionId : h[r].channelID = heap[r].channelID
  BY <1>3, <1>4, TouchType, TouchChannel
<1> HIDE DEF h
<1> QED BY <1>1, <1>3, <1>5, CollectRooms

\* A ping changes no room, be it of a session that is not its sender's.
LEMMA PingRooms ==
    ASSUME Tables, RoomIsolation, NEW u \in User, NEW a \in Addr, HandlePing(u, a)
    PROVE  RoomIsolation' /\ KeptRooms({})
<1> DEFINE s == PingSession(u, a)
           w == heap[s].userID
           h == IF heap[s].addr # a THEN SetAddr(heap, w, a) ELSE Touch(heap, s)
<1>1. s # Nil /\ UNCHANGED <<byUser, byChannel>> /\ heap' = Collect(h)
  BY DEF HandlePing
<1>2. /\ s \in SessionId /\ heap[s] \in Session /\ byUser[w] = s
      /\ heap \in [SessionId -> Session \cup {Nil}]
      /\ \A v \in User : byUser[v] # Nil => byUser[v] \in SessionId
  BY <1>1, LiveSessions DEF PingSession
<1>3. w \in User
  BY <1>2 DEF Session
<1> HIDE DEF s
<1>4. /\ h \in [SessionId -> Session \cup {Nil}]
      /\ \A r \in SessionId : h[r].channelID = heap[r].channelID
  <2>1. CASE heap[s].addr # a
    <3> DEFINE x == w
    <3>1. x \in User /\ byUser[x] = s
      BY <1>2, <1>3
    <3> HIDE DEF x
    <3>2. /\ SetAddr(heap, x, a) \in [SessionId -> Session \cup {Nil}]
          /\ \A r \in SessionId : SetAddr(heap, x, a)[r].channelID = heap[r].channelID
      BY <1>2, <3>1, SetAddrType, SetAddrChannel
    <3> QED BY <2>1, <3>2 DEF x
  <2>2. CASE heap[s].addr = a
    BY <1>2, <2>2, TouchType, TouchChannel
  <2> QED BY <2>1, <2>2
<1> HIDE DEF h
<1> QED BY <1>1, <1>2, <1>4, CollectRooms

\* A trailing copy names the channel its user's session is in: what redeems it,
\* or falls through to the session there is, changes no room.
TrailingAgree ==
    \A t \in Token : Trailing(t) /\ byUser[tokens[t].userID] # Nil =>
        heap[byUser[tokens[t].userID]].channelID = tokens[t].channelID

Rooms == TablesInv /\ OneJoin /\ RoomIsolation /\ TrailingAgree

\* A handshake of a token memory no longer holds is a trailing copy.
LEMMA ArrivesTrailing ==
    ASSUME TypeOK, OneJoin, Prompt, NEW t \in Token, NEW a \in Addr, Arrives(t, a)
    PROVE  Fresh(tokens[t]) /\ (~Activatable(t) => Trailing(t))
<1>1. /\ tokens[t] \in VoiceToken(Copies) /\ tokens[t] # Nil
      /\ tokens[t].copies > 0 /\ tokens[t].age <= MaxDelay
  BY DEF Arrives, TypeOK
<1>2. Fresh(tokens[t])
  BY <1>1, SessionManagerAssumption, SfuRouterAssumption DEF Prompt, Fresh, VoiceToken
<1> QED BY <1>1, <1>2 DEF OneJoin, Trailing, Activatable

\* A copy that trails after a step trailed before it, unless its user is left
\* without a session or its token has just been activated.
LEMMA TrailsOn ==
    ASSUME TypeOK, OneJoin, Prompt, [Next]_vars, NEW t \in Token, Trailing(t)'
    PROVE  /\ tokens[t] # Nil
           /\ tokens'[t].userID = tokens[t].userID
           /\ tokens'[t].channelID = tokens[t].channelID
           /\ \/ Trailing(t)
              \/ byUser'[tokens[t].userID] = Nil
              \/ \E a \in Addr : HandshakeActivate(t, a)
<1>0. /\ tokens'[t] # Nil /\ tokens'[t].sent /\ ~tokens'[t].pending
      /\ tokens'[t].copies > 0 /\ tokens'[t].age <= MaxDelay
  BY DEF Trailing
<1>a. ASSUME tokens'[t] = tokens[t]
      PROVE  /\ Trailing(t) /\ tokens[t] # Nil
             /\ tokens'[t].userID = tokens[t].userID
             /\ tokens'[t].channelID = tokens[t].channelID
  BY <1>0, <1>a DEF Trailing
<1>1. CASE UNCHANGED vars
  BY <1>1, <1>a DEF vars
<1>2. CASE \E q \in Token, u \in User, c \in Channel : CreateVoiceToken(q, u, c)
  <2> PICK q \in Token, u \in User, c \in Channel : CreateVoiceToken(q, u, c)
    BY <1>2
  <2>1. tokens'[q].sent = FALSE /\ \A r \in Token \ {q} : tokens'[r] = tokens[r]
    BY DEF CreateVoiceToken, TypeOK
  <2> QED BY <1>0, <1>a, <2>1
<1>3. CASE \E q \in Token : RegisterPending(q)
  <2> PICK q \in Token : RegisterPending(q)
    BY <1>3
  <2>1. tokens[q] \in VoiceToken(Copies)
    BY DEF RegisterPending, TypeOK
  <2>2. tokens'[q].pending = TRUE /\ \A r \in Token \ {q} : tokens'[r] = tokens[r]
    BY <2>1 DEF RegisterPending, TypeOK, VoiceToken
  <2> QED BY <1>0, <1>a, <2>2
<1>4. CASE \E q \in Token : LoseHandshake(q)
  <2> PICK q \in Token : LoseHandshake(q)
    BY <1>4
  <2>1. CASE t # q
    BY <1>0, <1>a, <2>1, LostEntry
  <2>2. CASE t = q
    <3>1. Continues(t)
      BY <1>0, LostEntry
    <3>2. tokens'[t].pending = tokens[t].pending /\ tokens'[t].sent = tokens[t].sent
      BY <1>0, <2>2, LostEntry
    <3>3. tokens'[t].age = tokens[t].age /\ tokens[t].copies > 0
      BY <1>0, <2>2, LostEntry
    <3>4. Trailing(t)
      BY <1>0, <3>1, <3>2, <3>3 DEF Trailing, Continues
    <3> QED BY <3>1, <3>4 DEF Continues
  <2> QED BY <2>1, <2>2
<1>5. CASE \E u \in User : Leave(u)
  <2> PICK u \in User : Leave(u)
    BY <1>5
  <2> DEFINE S == PendingOf(u)
  <2>1. /\ tokens' = Retired(Purged(S)) /\ byUser'[u] = Nil
        /\ S \in SUBSET Token /\ \A q \in S : tokens[q] # Nil /\ tokens[q].userID = u
    BY DEF Leave, RemoveSession, PendingOf, Unlink
  <2> HIDE DEF S
  <2>2. Continues(t) /\ (t \notin S => tokens'[t] = tokens[t])
    BY <1>0, <2>1, PurgedEntry
  <2>3. CASE t \in S
    BY <2>1, <2>2, <2>3 DEF Continues
  <2>4. CASE t \notin S
    BY <1>a, <2>2, <2>4
  <2> QED BY <2>3, <2>4
<1>6. CASE \E u \in User : RevokeVoiceTokens(u)
  <2> PICK u \in User : RevokeVoiceTokens(u)
    BY <1>6
  <2>1. CASE t \notin Open(u)
    BY <1>a, <2>1 DEF RevokeVoiceTokens
  <2>2. CASE t \in Open(u)
    <3>1. tokens[t] \in VoiceToken(Copies) /\ tokens[t] # Nil
      BY <2>2 DEF Open, TypeOK
    <3>2. tokens'[t] = [tokens[t] EXCEPT !.stored = FALSE, !.revoked = TRUE]
      BY <2>2 DEF RevokeVoiceTokens
    <3>3. /\ tokens'[t].userID = tokens[t].userID
          /\ tokens'[t].channelID = tokens[t].channelID
          /\ tokens'[t].copies = tokens[t].copies /\ tokens'[t].age = tokens[t].age
      BY <3>1, <3>2 DEF VoiceToken
    <3>4. tokens'[t].sent = tokens[t].sent /\ tokens'[t].pending = tokens[t].pending
      BY <3>1, <3>2 DEF VoiceToken
    <3>5. Trailing(t)
      BY <1>0, <3>1, <3>3, <3>4 DEF Trailing
    <3> QED BY <3>1, <3>3, <3>5
  <2> QED BY <2>1, <2>2
<1>7. CASE \/ \E u \in User, to \in Channel : Move(u, to)
           \/ \E u \in Muted, m \in BOOLEAN : Mute(u, m)
           \/ \E u \in Deafened, d \in BOOLEAN : Deafen(u, d)
  BY <1>7, <1>a DEF Move, MoveMember, Mute, SetServerMute, Deafen, SetServerDeafen
<1>8. CASE \E q \in Token, a \in Addr : HandleHandshake(q, a)
  <2> PICK q \in Token, a \in Addr : HandleHandshake(q, a)
    BY <1>8
  <2>1. Continues(t) /\ (t # q => tokens'[t] = tokens[t])
    BY <1>0, HandshakeEntry
  <2>2. CASE t # q
    BY <1>a, <2>1, <2>2
  <2>3. CASE t = q /\ ~HandshakeActivate(t, a)
    <3>1. Arrives(t, a) /\ ~Activatable(t)
      BY <2>3 DEF HandleHandshake, HandshakeRedeem, HandshakeExisting,
         HandshakeFallback, Redeemable
    <3>2. Trailing(t)
      BY <3>1, ArrivesTrailing
    <3> QED BY <2>1, <3>2 DEF Continues
  <2>4. CASE t = q /\ HandshakeActivate(t, a)
    BY <2>1, <2>4 DEF Continues
  <2> QED BY <2>2, <2>3, <2>4
<1>9. CASE HandshakeRegister
  BY <1>9, <1>a DEF HandshakeRegister
<1>10. CASE \/ \E u \in Speakers, c \in Channel : \E a \in AddrsOf[u] : HandleVoice(u, c, a)
            \/ \E p \in SessionId : Forward(p)
            \/ \E u \in User : \E a \in AddrsOf[u] : HandlePing(u, a)
  BY <1>10, <1>a DEF HandleVoice, Forward, HandlePing
<1>11. CASE Clean
  <2> DEFINE S == ExpiredPending
  <2>1. /\ tokens' = Retired(Purged(S)) /\ S \in SUBSET Token
        /\ \A q \in S : tokens[q] # Nil /\ ~Fresh(tokens[q])
    BY <1>11 DEF Clean, CleanStaleSessions, ExpiredPending
  <2> HIDE DEF S
  <2>2. /\ Continues(t) /\ (t \notin S => tokens'[t] = tokens[t])
        /\ (t \in S => tokens'[t].age = tokens[t].age)
    BY <1>0, <2>1, PurgedEntry
  <2>3. tokens[t] \in VoiceToken(Copies)
    BY <2>2 DEF Continues, TypeOK
  <2>4. t \notin S
    BY <1>0, <2>1, <2>2, <2>3, SessionManagerAssumption, SfuRouterAssumption
    DEF Prompt, Fresh, VoiceToken
  <2> QED BY <1>a, <2>2, <2>4
<1>12. CASE Tick
  <2>1. tokens[t] \in VoiceToken(Copies) /\ tokens[t] # Nil
        /\ tokens'[t] = [tokens[t] EXCEPT !.age = Older(@, TokenTTL)]
    BY <1>0, <1>12 DEF Tick, TypeOK
  <2>2. /\ tokens'[t].userID = tokens[t].userID
        /\ tokens'[t].channelID = tokens[t].channelID
        /\ tokens'[t].copies = tokens[t].copies
        /\ tokens'[t].age = Older(tokens[t].age, TokenTTL)
        /\ tokens[t].age \in Int
    BY <2>1 DEF VoiceToken
  <2>3. tokens'[t].sent = tokens[t].sent /\ tokens'[t].pending = tokens[t].pending
    BY <2>1 DEF VoiceToken
  <2>4. tokens[t].age <= MaxDelay
    <3>1. tokens'[t].age <= MaxDelay
      BY <1>0
    <3> QED BY <2>2, <3>1, SfuRouterAssumption, SessionManagerAssumption DEF Older, Prompt
  <2>5. Trailing(t)
    BY <1>0, <2>1, <2>2, <2>3, <2>4 DEF Trailing
  <2> QED BY <2>1, <2>2, <2>5
<1> QED
  BY <1>1, <1>2, <1>3, <1>4, <1>5, <1>6, <1>7, <1>8, <1>9, <1>10, <1>11, <1>12
  DEF Next, ControlPlane, ReadLoop

\* A step that changes no room of the users outside S, and takes care of the
\* trailing copies of those in S.
LEMMA KeptTrailing ==
    ASSUME Rooms, TablesInv', Prompt, [Next]_vars, NEW S \in SUBSET User, KeptRooms(S),
           \A t \in Token : Trailing(t)' /\ tokens[t].userID \in S =>
              heap'[byUser'[tokens[t].userID]].channelID = tokens[t].channelID
    PROVE  TrailingAgree'
<1>0. TypeOK /\ OneJoin /\ TrailingAgree /\ Tables /\ Tables' /\ RoomIsolation
  BY DEF Rooms, TablesInv
<1> SUFFICES ASSUME NEW t \in Token, Trailing(t)', byUser'[tokens'[t].userID] # Nil
             PROVE  heap'[byUser'[tokens'[t].userID]].channelID = tokens'[t].channelID
  BY DEF TrailingAgree
<1> DEFINE v == tokens[t].userID
           c == tokens[t].channelID
<1>1. /\ tokens[t] # Nil /\ tokens'[t].userID = v /\ tokens'[t].channelID = c
      /\ Trailing(t) \/ \E a \in Addr : HandshakeActivate(t, a)
  BY <1>0, TrailsOn
<1>2. v \in User /\ c \in Channel
  BY <1>0, <1>1 DEF TypeOK, VoiceToken
<1>3. CASE \E a \in Addr : HandshakeActivate(t, a)
  <2> PICK a \in Addr : RegisterSession(v, c, a)
    BY <1>3 DEF HandshakeActivate, Registers
  <2> HIDE DEF v, c
  <2> QED BY <1>0, <1>1, <1>2, RegisterRooms
<1>4. CASE v \in S
  BY <1>1, <1>4
<1>5. CASE Trailing(t) /\ v \notin S
  <2>1. /\ byUser'[v] = byUser[v] /\ byUser'[v] # Nil
        /\ heap'[byUser'[v]].channelID = heap[byUser[v]].channelID
    BY <1>1, <1>2, <1>5 DEF KeptRooms
  <2>2. heap[byUser[v]].channelID = c
    BY <1>0, <1>5, <2>1 DEF TrailingAgree
  <2> QED BY <1>1, <2>1, <2>2
<1> QED BY <1>1, <1>3, <1>4, <1>5

\* Every step keeps members and rooms in agreement, if members are moved only
\* when nothing of theirs trails.
LEMMA NextKeepsRooms ==
    ASSUME Prompt, Rooms, TablesInv', OneJoin', [Next /\ Settled]_vars
    PROVE  Rooms'
<1> SUFFICES RoomIsolation' /\ TrailingAgree'
  BY DEF Rooms
<1>0. /\ TypeOK /\ Tables /\ Tables' /\ OneJoin /\ RoomIsolation /\ TrailingAgree
      /\ [Next]_vars
  BY DEF Rooms, TablesInv
<1>a. ASSUME RoomIsolation' /\ KeptRooms({}) PROVE RoomIsolation' /\ TrailingAgree'
  <2>1. {} \in SUBSET User
    OBVIOUS
  <2> QED BY <1>0, <1>a, <2>1, KeptTrailing
<1>b. ASSUME UNCHANGED <<heap, byUser, byChannel>> PROVE RoomIsolation' /\ TrailingAgree'
  BY <1>0, <1>a, <1>b, SameRooms
<1>1. CASE UNCHANGED vars
  BY <1>1, <1>b DEF vars
<1>2. CASE \/ \E t \in Token, u \in User, c \in Channel : CreateVoiceToken(t, u, c)
           \/ \E t \in Token : RegisterPending(t) \/ LoseHandshake(t)
           \/ \E u \in User : RevokeVoiceTokens(u)
  BY <1>2, <1>b DEF CreateVoiceToken, RegisterPending, LoseHandshake, RevokeVoiceTokens
<1>3. CASE \E u \in User : Leave(u)
  <2> PICK u \in User : Leave(u)
    BY <1>3
  <2>1. {u} \in SUBSET User /\ Unlink({u})
    BY DEF Leave, RemoveSession
  <2> QED BY <1>0, <1>a, <2>1, UnlinkRooms
<1>4. CASE Settled /\ \E u \in User, to \in Channel : Move(u, to)
  <2> PICK u \in User, to \in Channel : Move(u, to)
    BY <1>4
  <2>1. MoveMember(u, to) /\ tokens' = tokens /\ {u} \in SUBSET User
    BY DEF Move, MoveMember
  <2>2. RoomIsolation' /\ KeptRooms({u})
    BY <1>0, <2>1, MoveRooms
  <2>3. \A t \in Open(u) : ~Trailing(t)
    BY <1>4 DEF Settled
  <2>4. \A t \in Token : Trailing(t)' => tokens[t].userID \notin {u}
    BY <2>1, <2>3 DEF Trailing, Open
  <2> QED BY <1>0, <2>1, <2>2, <2>4, KeptTrailing
<1>5. CASE \/ \E u \in Muted, m \in BOOLEAN : Mute(u, m)
           \/ \E u \in Deafened, d \in BOOLEAN : Deafen(u, d)
  <2>1. PICK u \in User, b \in BOOLEAN :
          /\ byUser[u] # Nil
          /\ \/ heap' = [heap EXCEPT ![byUser[u]].muted = b]
             \/ heap' = [heap EXCEPT ![byUser[u]].deafened = b]
    BY <1>5, SfuRouterAssumption DEF Mute, Deafen, SetServerMute, SetServerDeafen
  <2>2. UNCHANGED <<byUser, byChannel>>
    BY <1>5 DEF Mute, Deafen, SetServerMute, SetServerDeafen
  <2>3. /\ byUser[u] \in SessionId /\ heap[byUser[u]] \in Session
        /\ heap \in [SessionId -> Session \cup {Nil}]
        /\ \A v \in User : byUser[v] # Nil => byUser[v] \in SessionId
    BY <1>0, <2>1, LiveSessions
  <2>4. \A s \in SessionId : heap'[s].channelID = heap[s].channelID
    BY <2>1, <2>3 DEF Session
  <2>5. RoomIsolation' /\ KeptRooms({})
    BY <1>0, <2>2, <2>3, <2>4, SameRooms
  <2> QED BY <1>a, <2>5
<1>6. CASE \E t \in Token, a \in Addr : HandleHandshake(t, a)
  <2> PICK t \in Token, a \in Addr : HandleHandshake(t, a)
    BY <1>6
  <2> DEFINE u == tokens[t].userID
             c == tokens[t].channelID
  <2>1. Arrives(t, a) /\ tokens[t] # Nil /\ tokens[t] \in VoiceToken(Copies)
    BY <1>0 DEF HandleHandshake, HandshakeActivate, HandshakeRedeem, HandshakeExisting,
           HandshakeFallback, Arrives, TypeOK
  <2>2. u \in User /\ c \in Channel
    BY <2>1 DEF VoiceToken
  <2>3. CASE HandshakeActivate(t, a) \/ HandshakeFallback(t, a)
    <3>1. RegisterSession(u, c, a)
      BY <2>3 DEF HandshakeActivate, HandshakeFallback, Registers
    <3>2. RoomIsolation' /\ KeptRooms({u}) /\ heap'[byUser'[u]].channelID = c
      BY <1>0, <2>2, <3>1, RegisterRooms
    <3>3. \A q \in Token : Trailing(q)' /\ tokens[q].userID = u => q = t
      <4>1. \A q \in Token : Trailing(q)' => tokens[q] # Nil
        BY <1>0, TrailsOn
      <4> QED BY <1>0, <2>1, <4>1 DEF OneJoin
    <3>4. \A q \in Token : Trailing(q)' /\ tokens[q].userID \in {u} =>
              heap'[byUser'[tokens[q].userID]].channelID = tokens[q].channelID
      BY <3>2, <3>3
    <3>5. {u} \in SUBSET User
      BY <2>2
    <3> HIDE DEF u
    <3> QED BY <1>0, <3>2, <3>4, <3>5, KeptTrailing
  <2>4. CASE HandshakeRedeem(t, a)
    BY <1>b, <2>4 DEF HandshakeRedeem
  <2>5. CASE HandshakeExisting(t, a)
    <3> DEFINE g == [heap EXCEPT ![byUser[u]].channelID = c]
    <3>1. /\ byUser[u] # Nil /\ UNCHANGED <<byUser, byChannel>> /\ ~Activatable(t)
          /\ heap' = Collect(SetAddr(g, u, a))
      BY <2>5 DEF HandshakeExisting
    <3>2. /\ byUser[u] \in SessionId /\ heap[byUser[u]] \in Session
          /\ heap \in [SessionId -> Session \cup {Nil}]
          /\ \A v \in User : byUser[v] # Nil => byUser[v] \in SessionId
      BY <1>0, <2>2, <3>1, LiveSessions
    <3>3. Trailing(t)
      BY <1>0, <2>1, <3>1, ArrivesTrailing
    <3>4. heap[byUser[u]].channelID = c
      BY <1>0, <3>1, <3>3 DEF TrailingAgree
    <3>5. g = heap
      BY <3>2, <3>4 DEF Session
    <3> DEFINE h == SetAddr(heap, u, a)
    <3>6. heap' = Collect(h)
      BY <3>1, <3>5
    <3> HIDE DEF g, u
    <3>7. /\ h \in [SessionId -> Session \cup {Nil}]
          /\ \A v \in User : byUser[v] # Nil =>
               h[byUser[v]].channelID = heap[byUser[v]].channelID
      <4>1. /\ SetAddr(heap, u, a) \in [SessionId -> Session \cup {Nil}]
            /\ \A s \in SessionId :
                 SetAddr(heap, u, a)[s].channelID = heap[s].channelID
        BY <2>2, <3>2, SetAddrType, SetAddrChannel
      <4> QED BY <3>2, <4>1
    <3> HIDE DEF h
    <3> QED BY <1>0, <1>a, <3>1, <3>6, <3>7, CollectRooms
  <2> QED BY <2>3, <2>4, <2>5 DEF HandleHandshake
<1>7. CASE HandshakeRegister
  <2> DEFINE u == redeemed.userID
             c == redeemed.channelID
  <2>1. /\ u \in User /\ c \in Channel /\ redeemed.addr \in Addr /\ redeemed # Nil
        /\ RegisterSession(u, c, redeemed.addr)
    BY <1>0, <1>7 DEF HandshakeRegister, Registers, TypeOK, Handshake
  <2>2. \A q \in Token : tokens[q] # Nil /\ tokens[q].userID = u =>
            tokens[q].channelID = c
    BY <1>0, <2>1 DEF OneJoin, Open
  <2> HIDE DEF u, c
  <2>3. RoomIsolation' /\ KeptRooms({u}) /\ heap'[byUser'[u]].channelID = c
    BY <1>0, <2>1, RegisterRooms
  <2>4. \A q \in Token : Trailing(q)' => tokens[q] # Nil
    BY <1>0, TrailsOn
  <2>5. \A q \in Token : Trailing(q)' /\ tokens[q].userID \in {u} =>
            heap'[byUser'[tokens[q].userID]].channelID = tokens[q].channelID
    BY <2>2, <2>3, <2>4
  <2>6. {u} \in SUBSET User
    BY <2>1
  <2> QED BY <1>0, <2>3, <2>5, <2>6, KeptTrailing
<1>8. CASE \E u \in Speakers, c \in Channel : \E a \in AddrsOf[u] : HandleVoice(u, c, a)
  <2> PICK u \in User, c \in Channel, a \in Addr : HandleVoice(u, c, a)
    BY <1>8, SfuRouterAssumption
  <2> QED BY <1>0, <1>a, VoiceRooms
<1>9. CASE \E p \in SessionId : Forward(p)
  <2>1. heap' = Collect(heap) /\ UNCHANGED <<byUser, byChannel>>
        /\ heap \in [SessionId -> Session \cup {Nil}]
    BY <1>0, <1>9 DEF Forward, Tables, MapsOK
  <2> QED BY <1>0, <1>a, <2>1, CollectRooms
<1>10. CASE \E u \in User : \E a \in AddrsOf[u] : HandlePing(u, a)
  <2> PICK u \in User, a \in Addr : HandlePing(u, a)
    BY <1>10, SfuRouterAssumption
  <2> QED BY <1>0, <1>a, PingRooms
<1>11. CASE Clean
  <2>1. Unlink(Stale) /\ Stale \in SUBSET User
    BY <1>11 DEF Clean, CleanStaleSessions, Stale
  <2> QED BY <1>0, <1>a, <2>1, UnlinkRooms
<1>12. CASE Tick
  <2>1. /\ UNCHANGED <<byUser, byChannel>>
        /\ heap' = [s \in SessionId |-> IF heap[s] = Nil THEN Nil
                      ELSE [heap[s] EXCEPT !.idle = Older(@, MaxIdle)]]
    BY <1>12 DEF Tick
  <2>2. \A v \in User : byUser[v] # Nil =>
           byUser[v] \in SessionId /\ heap[byUser[v]] \in Session
    BY <1>0, LiveSessions
  <2>3. \A v \in User : byUser[v] # Nil =>
           heap'[byUser[v]].channelID = heap[byUser[v]].channelID
    BY <2>1, <2>2, SessionManagerAssumption DEF Session
  <2> QED BY <1>0, <1>a, <2>1, <2>3, SameRooms
<1> QED
  BY <1>1, <1>2, <1>3, <1>4, <1>5, <1>6, <1>7, <1>8, <1>9, <1>10, <1>11, <1>12
  DEF Next, ControlPlane, ReadLoop

-----------------------------------------------------------------------------
(* The fan-out *)

\* What GetChannelPeers returned are objects, each still the session of its user
\* unless the user has none; and no handshake is handled meanwhile.
FanoutOK ==
    /\ \A p \in held : heap[p] # Nil /\ byUser[heap[p].userID] \in {p, Nil}
    /\ held # {} => redeemed = Nil

\* A step that adds no pointer, rewrites no owner and gives no user a session.
LEMMA FewerHeld ==
    ASSUME FanoutOK, TablesInv, held' \subseteq held, redeemed' = redeemed,
           \A u \in User : byUser'[u] \in {byUser[u], Nil},
           \A p \in held' : heap'[p] # Nil /\ heap'[p].userID = heap[p].userID
    PROVE  FanoutOK'
<1>1. \A p \in held : p \in SessionId /\ heap[p] \in Session \cup {Nil}
  BY DEF TablesInv, TypeOK
<1>2. ASSUME NEW p \in held' PROVE byUser'[heap'[p].userID] \in {p, Nil}
  <2>1. p \in held /\ heap[p] # Nil /\ heap[p] \in Session
    BY <1>1 DEF FanoutOK
  <2>2. heap[p].userID \in User
    BY <2>1 DEF Session
  <2> QED BY <2>1, <2>2 DEF FanoutOK
<1> QED BY <1>2 DEF FanoutOK

\* Collection keeps the objects that pointers in flight refer to.
LEMMA CollectHeld ==
    ASSUME FanoutOK, TablesInv, held' \subseteq held, redeemed' = redeemed,
           \A u \in User : byUser'[u] \in {byUser[u], Nil},
           NEW h, heap' = Collect(h),
           \A p \in held : h[p] # Nil /\ h[p].userID = heap[p].userID
    PROVE  FanoutOK'
<1>1. \A p \in held' : p \in SessionId /\ p \in Referenced'
  BY DEF TablesInv, TypeOK, Referenced
<1>2. \A p \in held' : heap'[p] = h[p]
  BY <1>1 DEF Collect
<1> QED BY <1>2, FewerHeld

\* With nothing in flight there is nothing to keep.
LEMMA NothingHeld == held' = {} => FanoutOK'
BY DEF FanoutOK

\* Every step: the peers are collected from a channel's map, whose entries are
\* the live sessions of its members, and none is replaced before the fan-out ends.
LEMMA NextKeepsFanout ==
    ASSUME FanoutOK, TablesInv, TablesInv', RoomIsolation', [Next]_vars
    PROVE  FanoutOK'
<1>0. /\ Tables /\ heap \in [SessionId -> Session \cup {Nil}]
      /\ \A p \in held : p \in SessionId /\ heap[p] \in Session /\ heap[p] # Nil
  BY DEF TablesInv, Tables, MapsOK, TypeOK, FanoutOK
<1>a. ASSUME UNCHANGED <<heap, byUser, held, redeemed>> PROVE FanoutOK'
  BY <1>a DEF FanoutOK
<1>b. ASSUME NEW S \in SUBSET User, Unlink(S), redeemed' = redeemed PROVE FanoutOK'
  <2>1. /\ held' = held /\ heap' = Collect(heap)
        /\ \A u \in User : byUser'[u] \in {byUser[u], Nil}
    BY <1>b DEF Unlink
  <2> QED BY <1>0, <1>b, <2>1, CollectHeld
<1>1. CASE UNCHANGED vars
  BY <1>1, <1>a DEF vars
<1>2. CASE \/ \E t \in Token, u \in User, c \in Channel : CreateVoiceToken(t, u, c)
           \/ \E t \in Token : RegisterPending(t) \/ LoseHandshake(t)
           \/ \E u \in User : RevokeVoiceTokens(u)
  BY <1>2, <1>a DEF CreateVoiceToken, RegisterPending, LoseHandshake, RevokeVoiceTokens
<1>3. CASE \E u \in User : Leave(u)
  <2> PICK u \in User : Leave(u)
    BY <1>3
  <2>1. {u} \in SUBSET User /\ Unlink({u}) /\ redeemed' = redeemed
    BY DEF Leave, RemoveSession
  <2> QED BY <2>1, <1>b
<1>4. CASE \E u \in User, to \in Channel : Move(u, to)
  <2> PICK u \in User, to \in Channel : Move(u, to)
    BY <1>4
  <2> DEFINE h == [heap EXCEPT ![byUser[u]].channelID = to]
  <2>1. /\ heap' = Collect(h) /\ byUser' = byUser /\ held' = held
        /\ redeemed' = redeemed
    BY DEF Move, MoveMember
  <2>2. byUser[u] \in SessionId /\ heap[byUser[u]] \in Session
    BY <1>0, LiveSessions DEF Move, MoveMember
  <2>3. \A s \in SessionId : heap[s] # Nil => h[s] # Nil /\ h[s].userID = heap[s].userID
    BY <1>0, <2>2, SessionManagerAssumption DEF Session
  <2> HIDE DEF h
  <2>4. \A v \in User : byUser'[v] \in {byUser[v], Nil}
    BY <2>1
  <2> QED BY <1>0, <2>1, <2>3, <2>4, CollectHeld
<1>5. CASE \/ \E u \in Muted, m \in BOOLEAN : Mute(u, m)
           \/ \E u \in Deafened, d \in BOOLEAN : Deafen(u, d)
  <2>1. PICK u \in User, b \in BOOLEAN :
          /\ byUser[u] # Nil
          /\ \/ heap' = [heap EXCEPT ![byUser[u]].muted = b]
             \/ heap' = [heap EXCEPT ![byUser[u]].deafened = b]
    BY <1>5, SfuRouterAssumption DEF Mute, Deafen, SetServerMute, SetServerDeafen
  <2>2. UNCHANGED <<byUser, held, redeemed>>
    BY <1>5 DEF Mute, Deafen, SetServerMute, SetServerDeafen
  <2>3. byUser[u] \in SessionId /\ heap[byUser[u]] \in Session
    BY <1>0, <2>1, LiveSessions
  <2>4. \A s \in SessionId : heap[s] # Nil =>
            heap'[s] # Nil /\ heap'[s].userID = heap[s].userID
    <3> DEFINE x == [heap[byUser[u]] EXCEPT !.muted = b]
               y == [heap[byUser[u]] EXCEPT !.deafened = b]
    <3>1. x \in Session /\ y \in Session
      BY <2>3 DEF Session
    <3>2. x.userID = heap[byUser[u]].userID /\ y.userID = heap[byUser[u]].userID
      BY <2>3 DEF Session
    <3>3. heap' = [heap EXCEPT ![byUser[u]] = x] \/ heap' = [heap EXCEPT ![byUser[u]] = y]
      BY <2>1
    <3> HIDE DEF x, y
    <3> QED BY <1>0, <2>3, <3>1, <3>2, <3>3, SessionManagerAssumption
  <2> QED BY <1>0, <2>2, <2>4, FewerHeld
<1>6. CASE \E t \in Token, a \in Addr : HandleHandshake(t, a)
  BY <1>6, NothingHeld
  DEF HandleHandshake, HandshakeActivate, HandshakeRedeem, HandshakeExisting,
      HandshakeFallback, Arrives, Reading, Registers, RegisterSession
<1>7. CASE HandshakeRegister
  <2>1. held = {} /\ held' = held
    BY <1>7 DEF HandshakeRegister, Registers, RegisterSession, FanoutOK
  <2> QED BY <2>1, NothingHeld
<1>8. CASE \E u \in Speakers, c \in Channel : \E a \in AddrsOf[u] : HandleVoice(u, c, a)
  <2> PICK u \in User, c \in Channel, a \in Addr : HandleVoice(u, c, a)
    BY <1>8, SfuRouterAssumption
  <2>1. /\ held' \subseteq GetChannelPeers(c, u) /\ redeemed' = Nil
        /\ byUser' = byUser /\ byChannel' = byChannel
    BY DEF HandleVoice, Reading
  <2>2. ASSUME NEW p \in held'
        PROVE  heap'[p] # Nil /\ byUser'[heap'[p].userID] \in {p, Nil}
    <3>1. PICK v \in User : p = byChannel'[c][v] /\ p # Nil
      BY <2>1 DEF GetChannelPeers
    <3>2. heap'[p] # Nil /\ heap'[p].userID = v
      BY <3>1 DEF TablesInv, Tables, OwnTables
    <3>3. p = byUser'[v]
      BY <3>1 DEF RoomIsolation
    <3> QED BY <3>2, <3>3
  <2> QED BY <2>1, <2>2 DEF FanoutOK
<1>9. CASE \E p \in SessionId : Forward(p)
  <2>1. /\ heap' = Collect(heap) /\ byUser' = byUser /\ redeemed' = redeemed
        /\ held' \subseteq held
    BY <1>9 DEF Forward
  <2>2. \A v \in User : byUser'[v] \in {byUser[v], Nil}
    BY <2>1
  <2> QED BY <1>0, <2>1, <2>2, CollectHeld
<1>10. CASE \E u \in User : \E a \in AddrsOf[u] : HandlePing(u, a)
  BY <1>10, NothingHeld DEF HandlePing, Reading
<1>11. CASE Clean
  <2>1. Stale \in SUBSET User /\ Unlink(Stale) /\ redeemed' = redeemed
    BY <1>11 DEF Clean, CleanStaleSessions, Stale
  <2> QED BY <2>1, <1>b
<1>12. CASE Tick
  <2>1. UNCHANGED <<byUser, held, redeemed>>
    BY <1>12 DEF Tick
  <2>2. \A p \in held : heap'[p] # Nil /\ heap'[p].userID = heap[p].userID
    BY <1>0, <1>12, TickHeap
  <2> QED BY <1>0, <2>1, <2>2, FewerHeld
<1> QED
  BY <1>1, <1>2, <1>3, <1>4, <1>5, <1>6, <1>7, <1>8, <1>9, <1>10, <1>11, <1>12
  DEF Next, ControlPlane, ReadLoop

-----------------------------------------------------------------------------
\* The invariant of the rooms in one piece.
RoomsInv == Rooms /\ FanoutOK

\* It holds in the empty tables.
LEMMA InitRooms == Init => RoomsInv
<1> SUFFICES ASSUME Init PROVE RoomsInv
  OBVIOUS
<1>1. TablesInv
  BY InitTables
<1>2. OneJoin /\ RoomIsolation /\ TrailingAgree /\ FanoutOK
  BY DEF Init, SmInit, OneJoin, RoomIsolation, TrailingAgree, Trailing, FanoutOK
<1> QED BY <1>1, <1>2 DEF RoomsInv, Rooms

\* Every step keeps it, tokens first, then rooms, then the pointers in flight.
LEMMA SettledKeepsRooms ==
    Prompt /\ RoomsInv /\ TablesInv' /\ [Next /\ Settled]_vars => RoomsInv'
<1> SUFFICES ASSUME Prompt, RoomsInv, TablesInv', [Next /\ Settled]_vars PROVE RoomsInv'
  OBVIOUS
<1>1. OneJoin'
  BY NextKeepsOneJoin DEF RoomsInv, Rooms, TablesInv
<1>2. Rooms'
  BY <1>1, NextKeepsRooms DEF RoomsInv
<1>3. FanoutOK'
  BY <1>2, NextKeepsFanout DEF RoomsInv, Rooms
<1> QED BY <1>2, <1>3 DEF RoomsInv

\* So it is an invariant of the behaviours in which members are moved settled.
LEMMA RoomsInvariant == ASSUME Prompt PROVE Spec /\ [][Settled]_vars => []RoomsInv
<1>1. Init => RoomsInv
  BY InitRooms
<1>2. RoomsInv /\ TablesInv' /\ [Next]_vars /\ [Settled]_vars => RoomsInv'
  BY SettledKeepsRooms
<1> QED BY <1>1, <1>2, TablesInvariant, PTL DEF Spec

\* SettledSpec describes those behaviours.
LEMMA SettledBehaviours == SettledSpec => Spec /\ [][Settled]_vars
<1>1. [Next /\ Settled]_vars => [Next]_vars /\ [Settled]_vars
  OBVIOUS
<1> QED BY <1>1, PTL DEF SettledSpec, Spec

\* Who is in a channel's map is exactly who is a live member of it, for any number of
\* copies of a handshake: the copies that come after a session is made name its room.
THEOREM RoomIsolationHolds == ASSUME Prompt PROVE SettledSpec => []RoomIsolation
<1>1. RoomsInv => RoomIsolation
  BY DEF RoomsInv, Rooms
<1> QED BY RoomsInvariant, SettledBehaviours, <1>1, PTL

\* What handleVoice collected under the lock and writes to after it are live sessions
\* of their users, or of users who have left.
THEOREM FanoutLiveHolds == ASSUME Prompt PROVE SettledSpec => []FanoutLive
<1>1. RoomsInv => FanoutLive
  BY DEF RoomsInv, FanoutOK, FanoutLive
<1> QED BY RoomsInvariant, SettledBehaviours, <1>1, PTL
=============================================================================
