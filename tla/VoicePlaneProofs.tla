-------------------------- MODULE VoicePlaneProofs --------------------------
(***************************************************************************)
(* The control plane of the hub drives the SFU only in ways SfuRouter      *)
(* allows, so what is proved of SfuRouter holds of the two together.       *)
(***************************************************************************)
EXTENDS VoicePlane, SfuRouterProofs

-----------------------------------------------------------------------------
(* What a handler has kept for its call into the SFU *)

Fits(f) ==
    /\ f.op = "issue" => f.channel \in Channel
    /\ f.op \in {"remove", "revoked", "kicked", "close", "ousted"} => f.user \in User
    /\ f.op = "move" => f.user \in User /\ f.channel \in Channel
    /\ f.op = "flag" => f.user \in Flagged /\ f.on \in BOOLEAN

\* Every frame names a user and a channel that exist; only users have sockets.
CallsFit ==
    /\ frame = [x \in H!Actor |-> frame[x]]
    /\ \A x \in H!Actor : frame[x] = Nil \/ Fits(frame[x])
    /\ udp \subseteq User

LEMMA CallsFitInit == PlaneInit => CallsFit
  BY DEF PlaneInit, H!Init, CallsFit

LEMMA ThenFits ==
    ASSUME CallsFit, NEW x \in H!Actor, NEW f, f = Nil \/ Fits(f), H!Then(x, f),
           udp' \subseteq User
    PROVE  CallsFit'
<1>1. frame' = [y \in H!Actor |-> IF y = x THEN f ELSE frame[y]]
  BY DEF CallsFit, H!Then
<1>2. \A y \in H!Actor : frame'[y] = Nil \/ Fits(frame'[y])
  BY <1>1 DEF CallsFit
<1> QED BY <1>1, <1>2 DEF CallsFit, Fits

\* The steps of the hub that finish, begin or go on with a handler.
LEMMA HubLocalFits == CallsFit /\ H!HubLocal /\ udp' \subseteq User => CallsFit'
<1> SUFFICES ASSUME CallsFit, H!HubLocal, udp' \subseteq User PROVE CallsFit'
  OBVIOUS
<1>a. /\ Conn \subseteq H!Actor /\ Moderator \subseteq H!Actor /\ VoiceConn \subseteq H!Actor
      /\ Run \in H!Actor /\ SlowConn \subseteq Conn /\ Movable \subseteq User
      /\ \A x \in Conn : UserOf[x] \in User
  BY VoicePlaneAssumption DEF H!Actor
<1>b. ASSUME NEW x \in H!Actor, NEW f, f = Nil \/ Fits(f), H!Then(x, f) PROVE CallsFit'
  BY <1>b, ThenFits
<1>c. ASSUME NEW u \in User
      PROVE  /\ Fits([op |-> "remove", user |-> u]) /\ Fits([op |-> "enroll"])
             /\ \A ch \in Channel : /\ Fits([op |-> "issue", channel |-> ch])
                                    /\ Fits([op |-> "move", user |-> u, channel |-> ch])
             /\ \A S : /\ Fits([op |-> "kicked", user |-> u, closing |-> S])
                       /\ Fits([op |-> "close", user |-> u, closing |-> S])
                       /\ Fits([op |-> "ousted", user |-> u, closing |-> S])
  BY DEF Fits
<1>1. ASSUME NEW c \in Conn, H!ServeWs(c) PROVE CallsFit'
  BY <1>1 DEF H!ServeWs, CallsFit
<1>2. ASSUME NEW c \in Conn, H!ReadEnds(c) \/ H!LeaveVoice(c) PROVE CallsFit'
  BY <1>2, <1>a, <1>b, <1>c DEF H!ReadEnds, H!LeaveVoice
<1>3. ASSUME NEW c \in Conn, H!Overflow(c) PROVE CallsFit'
  BY <1>3, <1>a, <1>b, <1>c DEF H!Overflow
<1>4. ASSUME NEW c \in Conn, H!Login(c) \/ H!Auth(c) \/ H!Enroll(c) PROVE CallsFit'
  BY <1>4, <1>a, <1>b, <1>c DEF H!Login, H!Auth, H!Enroll
<1>5. ASSUME NEW c \in VoiceConn, NEW ch \in Channel, H!JoinVoice(c, ch) PROVE CallsFit'
  <2>1. Fits([op |-> "issue", channel |-> ch])
    BY DEF Fits
  <2> QED BY <1>5, <1>a, <1>b, <2>1 DEF H!JoinVoice
<1>6. ASSUME NEW c \in Moderator, NEW u \in Movable, NEW to \in Channel, H!MoveMember(c, u, to)
      PROVE  CallsFit'
  BY <1>6, <1>a, <1>b, <1>c DEF H!MoveMember
<1>7. ASSUME NEW c \in Moderator, NEW u \in Flagged, NEW fl \in H!Flag, NEW on \in BOOLEAN,
             H!SetServerFlag(c, u, fl, on)
      PROVE  CallsFit'
  <2>1. Fits([op |-> "flag", user |-> u, flag |-> fl, on |-> on])
    BY DEF Fits
  <2> QED BY <1>7, <1>a, <1>b, <2>1 DEF H!SetServerFlag
<1>8. ASSUME NEW c \in Moderator, NEW d \in Conn, H!KickConn(c, d) PROVE CallsFit'
  <2>1. frame[c].user \in User
    BY <1>8, <1>a DEF CallsFit, Fits, H!KickConn
  <2> QED BY <1>8, <1>a, <1>b, <1>c, <2>1 DEF H!KickConn
<1>9. ASSUME NEW c \in Moderator, H!KickFromMaps(c) PROVE CallsFit'
  <2>1. frame[c].user \in User
    BY <1>9, <1>a DEF CallsFit, Fits, H!KickFromMaps
  <2> QED BY <1>9, <1>a, <1>b, <1>c, <2>1 DEF H!KickFromMaps
<1>10. ASSUME NEW c \in Moderator, H!KickEnds(c) PROVE CallsFit'
  BY <1>10, <1>a, <1>b DEF H!KickEnds
<1> QED BY <1>a, <1>1, <1>2, <1>3, <1>4, <1>5, <1>6, <1>7, <1>8, <1>9, <1>10 DEF H!HubLocal

LEMMA CallsFitHub == CallsFit /\ Calls => CallsFit'
<1> SUFFICES ASSUME CallsFit, Calls PROVE CallsFit'
  OBVIOUS
<1>a. /\ Conn \subseteq H!Actor /\ Moderator \subseteq H!Actor /\ VoiceConn \subseteq H!Actor
      /\ H!Actor = Conn \cup {Run} /\ VoiceConn \subseteq Conn /\ Kickable \subseteq User
      /\ \A x \in Conn : UserOf[x] \in User
  BY VoicePlaneAssumption DEF H!Actor
<1>b. ASSUME NEW x \in H!Actor, NEW f, f = Nil \/ Fits(f), H!Then(x, f), udp' \subseteq User
      PROVE  CallsFit'
  BY <1>b, ThenFits
<1>1. ASSUME NEW c \in VoiceConn, Issue(c) \/ Pend(c) PROVE CallsFit'
  <2>1. \A ch : Fits([op |-> "pend", channel |-> ch])
    BY DEF Fits
  <2>2. udp' \subseteq User
    BY <1>1, <1>a DEF CallsFit, Issue, Pend
  <2> QED BY <1>1, <1>a, <1>b, <2>1, <2>2 DEF Issue, Pend, H!IssueToken, H!PendToken
<1>2. ASSUME NEW x \in Conn \cup {Run}, Remove(x) PROVE CallsFit'
  BY <1>2, <1>a, <1>b DEF CallsFit, Remove, H!SfuRemove
<1>3. ASSUME NEW c \in Moderator, MoveInSfu(c) \/ FlagInSfu(c) PROVE CallsFit'
  BY <1>3, <1>a, <1>b DEF CallsFit, MoveInSfu, FlagInSfu, H!SfuMove, H!SfuFlag
<1>4. ASSUME NEW c \in Moderator, RemoveKicked(c) PROVE CallsFit'
  <2>1. frame[c].user \in User
    BY <1>4, <1>a DEF CallsFit, Fits, RemoveKicked, H!KickFromSfu
  <2>2. Fits([op |-> "close", user |-> frame[c].user, closing |-> frame[c].closing])
    BY <2>1 DEF Fits
  <2>3. udp' \subseteq User
    BY <1>4 DEF CallsFit, RemoveKicked
  <2> QED BY <1>4, <1>a, <1>b, <2>2, <2>3 DEF RemoveKicked, H!KickFromSfu
<1>5. ASSUME NEW c \in Moderator, NEW u \in Kickable, KickFromStorage(c, u) PROVE CallsFit'
  <2>1. Fits([op |-> "revoked", user |-> u])
    BY <1>a DEF Fits
  <2>2. udp' \subseteq User
    BY <1>5 DEF CallsFit, KickFromStorage
  <2> QED BY <1>5, <1>a, <1>b, <2>1, <2>2 DEF KickFromStorage, H!KickMember
<1> QED BY <1>1, <1>2, <1>3, <1>4, <1>5 DEF Calls

LEMMA CallsFitNext == CallsFit /\ [PlaneNext]_planeVars => CallsFit'
<1> SUFFICES ASSUME CallsFit, [PlaneNext]_planeVars PROVE CallsFit'
  OBVIOUS
<1>1. CASE H!HubLocal /\ UNCHANGED <<vars, udp>>
  BY <1>1, HubLocalFits DEF CallsFit
<1>2. CASE Media /\ UNCHANGED <<hub, udp>>
  BY <1>2 DEF CallsFit, hub
<1>3. ASSUME NEW u \in User, Hangup(u) PROVE CallsFit'
  BY <1>3 DEF CallsFit, Hangup, hub
<1>4. CASE UNCHANGED planeVars
  BY <1>4 DEF CallsFit, planeVars, hub
<1> QED BY <1>1, <1>2, <1>3, <1>4, CallsFitHub DEF PlaneNext

-----------------------------------------------------------------------------
(* What the SFU sees *)

\* A handler's calls are among the calls of ControlPlane, or find nothing to do.
LEMMA CallsAreControlPlane == CallsFit /\ Calls => ControlPlane \/ UNCHANGED vars
<1> SUFFICES ASSUME CallsFit, Calls PROVE ControlPlane \/ UNCHANGED vars
  OBVIOUS
<1>a. /\ Conn \cup {Run} = H!Actor /\ Moderator \subseteq H!Actor /\ VoiceConn \subseteq H!Actor
      /\ VoiceConn \subseteq Conn /\ Kickable \subseteq User
      /\ Flagged \subseteq Muted /\ Flagged \subseteq Deafened
      /\ \A x \in Conn : UserOf[x] \in User
  BY VoicePlaneAssumption DEF H!Actor
<1>b. ASSUME NEW u \in User, Removes(u) PROVE ControlPlane \/ UNCHANGED vars
  BY <1>b DEF Removes, ControlPlane
<1>1. ASSUME NEW c \in VoiceConn, Issue(c) PROVE ControlPlane
  <2>1. frame[c].channel \in Channel /\ UserOf[c] \in User
    BY <1>1, <1>a DEF Issue, H!IssueToken, CallsFit, Fits
  <2> QED BY <1>1, <2>1 DEF Issue, ControlPlane
<1>2. ASSUME NEW c \in VoiceConn, Pend(c) PROVE ControlPlane
  <2>1. PICK t \in Open(UserOf[c]) : RegisterPending(t)
    BY <1>2 DEF Pend
  <2>2. t \in Token
    BY DEF Open
  <2> QED BY <2>1, <2>2 DEF ControlPlane
<1>3. ASSUME NEW x \in Conn \cup {Run}, Remove(x) PROVE ControlPlane \/ UNCHANGED vars
  <2>1. frame[x].user \in User
    BY <1>3, <1>a DEF Remove, H!SfuRemove, CallsFit, Fits
  <2> QED BY <1>3, <1>b, <2>1 DEF Remove
<1>4. ASSUME NEW c \in Moderator, RemoveKicked(c) PROVE ControlPlane \/ UNCHANGED vars
  <2>1. frame[c].user \in User
    BY <1>4, <1>a DEF RemoveKicked, H!KickFromSfu, CallsFit, Fits
  <2> QED BY <1>4, <1>b, <2>1 DEF RemoveKicked
<1>5. ASSUME NEW c \in Moderator, MoveInSfu(c) PROVE ControlPlane \/ UNCHANGED vars
  <2>1. frame[c].user \in User /\ frame[c].channel \in Channel
    BY <1>5, <1>a DEF MoveInSfu, H!SfuMove, CallsFit, Fits
  <2> QED BY <1>5, <2>1 DEF MoveInSfu, Moves, ControlPlane
<1>6. ASSUME NEW c \in Moderator, FlagInSfu(c) PROVE ControlPlane \/ UNCHANGED vars
  <2>1. frame[c].user \in Flagged /\ frame[c].on \in BOOLEAN
    BY <1>6, <1>a DEF FlagInSfu, H!SfuFlag, CallsFit, Fits
  <2> QED BY <1>6, <1>a, <2>1 DEF FlagInSfu, Flags, ControlPlane
<1>7. ASSUME NEW c \in Moderator, NEW u \in Kickable, KickFromStorage(c, u)
      PROVE  ControlPlane \/ UNCHANGED vars
  BY <1>7, <1>a DEF KickFromStorage, Revokes, ControlPlane
<1> QED BY <1>1, <1>2, <1>3, <1>4, <1>5, <1>6, <1>7 DEF Calls

\* The datagrams of open sockets are datagrams ReadLoop expects.
LEMMA MediaIsNext == CallsFit /\ Media => Next
  BY DEF CallsFit, Media, Next, ReadLoop

\* The hub, whatever its handlers interleave, never asks of the SFU what SfuRouter
\* does not allow.
THEOREM PlaneImplementsSfu == PlaneSpec => SfuImplemented
<1>1. PlaneInit => Init /\ CallsFit
  BY CallsFitInit DEF PlaneInit
<1>2. CallsFit /\ [PlaneNext]_planeVars => [Next]_vars
  <2> SUFFICES ASSUME CallsFit, [PlaneNext]_planeVars PROVE [Next]_vars
    OBVIOUS
  <2>1. CASE Calls
    BY <2>1, CallsAreControlPlane DEF Next
  <2>2. CASE H!HubLocal /\ UNCHANGED <<vars, udp>>
    BY <2>2
  <2>3. CASE Media /\ UNCHANGED <<hub, udp>>
    BY <2>3, MediaIsNext
  <2>4. ASSUME NEW u \in User, Hangup(u) PROVE UNCHANGED vars
    BY <2>4 DEF Hangup
  <2>5. CASE UNCHANGED planeVars
    BY <2>5 DEF planeVars
  <2> QED BY <2>1, <2>2, <2>3, <2>4, <2>5 DEF PlaneNext
<1> QED BY <1>1, <1>2, CallsFitNext, PTL DEF PlaneSpec, SfuImplemented, Spec

\* The tables of the SFU stay sound under the real control plane.
THEOREM PlaneTables == PlaneSpec => []TablesInv
  BY PlaneImplementsSfu, TablesInvariant, PTL DEF SfuImplemented

\* So do the rooms, whatever the hub's handlers interleave and however often the
\* client repeats a handshake: a fan-out writes to the members of the room, as long
\* as no member is moved while a copy of its handshake is still to come.
THEOREM PlaneIsolates ==
    ASSUME Prompt
    PROVE  PlaneSpec /\ [][Settled]_vars => []RoomIsolation /\ []FanoutLive
<1>1. RoomsInv => RoomIsolation /\ FanoutLive
  BY DEF RoomsInv, Rooms, FanoutOK, FanoutLive
<1> QED BY PlaneImplementsSfu, RoomsInvariant, <1>1, PTL DEF SfuImplemented

=============================================================================
