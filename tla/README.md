# A verification project for low_latency_voice_app

TLA+ models of the voice server in `backend/` and of the client's call and audio engine in `client/`, checked with TLC and
proved with TLAPS.  Every definition that models code names its lines in
`PROJECT.json` ("map").

## 1. The system

| component | state it keeps | operations | talks to |
|---|---|---|---|
| SFU session tables, `internal/audio/session.go` | `byUser`, `byAddr`, `byChannel` (pointers to `Session`), `pendingTokens` | RegisterPending, ActivatePending, RegisterSession, UpdateAddr, MoveMember, SetServerMute/Deafen, RemoveSession, CleanStaleSessions, GetChannelPeers | called by the router, the cleanup loop and the hub's handlers |
| SFU router and UDP server, `router.go`, `server.go` | none of its own | handshake, voice, ping; cleanup loop | session tables, storage (`ConsumeVoiceToken`), peers over UDP, the hub (voice activity) |
| packet format and buffer pool, `packet.go`, `pool.go` | pooled buffers | parse, build | router |
| control hub, `internal/control/hub.go`, `handler.go` | `clients`, `userClients`, `voiceChannels`, `voiceStates` | connect, disconnect, register, login, auth, join, leave, move, mute, deafen, kick, chat, channels, roster | storage, auth, SFU tables, every connection |
| client connection, `client.go` | identity, `activeVoiceChannel`, send channel, `closed`, rate window | read pump, write pump, Send, Close, AllowMessage | hub |
| auth service, `internal/auth` | none (storage) | Register, Login, ValidateSession, GenerateUDPToken | storage |
| storage, `internal/storage` | SQLite tables | rows of users, sessions, voice tokens, roles, channels, messages | everything above |
| client services (Dart) | socket, pending requests, reconnect timer; UDP socket | connect, request, disconnect; handshake burst, keepalive | server |
| client state (Dart) | voice, chat, channels, roster, auth, settings | one notifier each, fed by events and replies | services, user interface |
| voice engine (C), `client/native/libvoice_engine.c` | rings, peer slots, voice-activity gate | capture and playback callbacks, push and pull | Dart by FFI, the sound device |
| audio device, `client/native/miniaudio.h` (vendored) | device state, three events, `startStopLock`, WASAPI's detached flags | init, start, stop, uninit; a worker thread; WASAPI's notifications | voice engine, sound backend |
| start-up, UI, runners, scripts, tests | - | - | - |

What is hard here, and what would make each part correct:

* *SFU tables.*  Sessions are heap objects in three maps that six methods edit by
  hand.  Correct: an entry never outlives or misnames what it indexes; the room a
  session names is the room it is listed in; nobody alive is scavenged and
  nobody dead stays.
* *SFU router.*  A handshake is sent three times and can be lost, repeated and delayed
  past a leave, a move or a kick.  A fan-out uses pointers read before it started.
  Correct: audio goes to the members of the room and to nobody else; a revoked token
  opens no session.
* *Hub.*  A handler runs in the goroutine of its connection, releases the lock in the
  middle and calls storage and the SFU without it.  The roster is keyed by user, rooms
  by connection.  Correct: rooms, roster and connections agree.
* *Hub and SFU together.*  Two copies of the same facts (room, mute, membership) that
  are changed in two steps.  Correct: a change made at the hub reaches the SFU.
* *Connection.*  `Send` and `Close` share a channel, `Run` posts events to the channel that
  only `Run` empties, and each pump waits for the other in a different place.  Correct:
  a broadcast never panics, events stay in order, a slow connection costs only itself,
  no goroutine is left behind.
* *A call (Dart).*  Joins and leaves overlap, and each goes on after an `await` in a state others
  have changed; replies, timeouts and events race.  Correct: each frame is sent once, a
  connected call has microphone and socket, a join ends, a leave is obeyed.
* *Engine.*  Rings are shared by two callbacks and the isolate without a count of samples; a
  device can die, be changed or refuse to start.  Correct: samples in order and once,
  one slot per user, hardware off when nobody uses it.
* *Device (miniaudio).*  The thread that starts and stops a device and its worker hand it over through a state and
  three auto-reset events.  On WASAPI the system's notifications stop and start it too, under a lock that the
  teardown does not take.  Correct: every start and stop returns, no callback runs before a start or after a
  teardown, and no signal of one call is taken for that of another.

`PROJECT.json` lists the hazards at their lines.

## 2. Modules

| module | models | proved about |
|---|---|---|
| `SessionManager` | `session.go` as operators over an explicit heap; voice tokens as memory, storage and network hold them | yes |
| `SfuRouter` | the read loop, the cleanup loop, the control plane's calls and the network over `SessionManager` | yes |
| `SfuRouterProofs` | the theorems of the SFU | |
| `MCSfuRouter` | instances for TLC | |
| `Hub` | the WebSocket control plane: connections, authentication, voice and moderation handlers | yes |
| `HubProofs` | the theorems of the hub | |
| `MCHub` | instances for TLC | |
| `VoicePlane` | `Hub` and `SfuRouter` together, each handler's call joined with the SFU action it calls | yes |
| `VoicePlaneProofs` | that the two together implement `SfuRouter` | |
| `MCVoicePlane` | instances for TLC | |
| `ClientConn` | one connection's two pumps and send channel, and the event loop of the hub | yes |
| `ClientConnProofs` | types, that broadcasts never panic, that events stay in order | |
| `VoiceCall` | the client's joins and leaves across their awaits, and the server's answers | yes |
| `VoiceCallProofs` | types, that frames are sent once and a connected call is live | |
| `SampleRing` | the circular sample buffers, as operators | yes |
| `SampleRingProofs` | what the operators compute, for any size of ring (lemmas) | |
| `VoiceEngine` | the audio engine and the Dart service that drives it, over `SampleRing` and two `AudioDevice`s | yes |
| `VoiceEngineProofs` | the theorems of the engine | |
| `MCVoiceEngine` | symmetry for TLC | |
| `AudioDevice` | abstract: what the engine needs of a device | |
| `MaDevice` | the miniaudio device, its worker thread and the system's notifications; implements `AudioDevice` | yes |
| `MaDeviceProofs` | that it does on every backend, and that without notifications no signal is left over | |

### SessionManager and SfuRouter

The heap.  Go keeps pointers; a session that has left `byUser` can survive in
`byAddr` or `byChannel` and be used there.  So `heap` maps identifiers to sessions,
the maps hold identifiers, and every step ends with `Collect`: an object that no map
and no goroutine refers to disappears, which frees its identifier.  Identity is what
the stale entries are about, so it is not abstracted.

Time.  `LastSeen` is read only by the scavenger, as an age.  `idle` is that age in
ticks, saturating one past `MaxIdle`; a token's `age` likewise saturates past its
life.  `Tick` is always enabled and the clock is not fair: nothing proved or
checked relies on it moving.

Tokens.  One record per token says whether `pendingTokens` has it (`pending`),
whether storage has an unconsumed row (`stored`), whether the join has been answered
(`sent`) and how many handshakes carrying it can still arrive (`copies`).  `used` and
`revoked` are history.  A token that nothing can present any more is forgotten.

Atomicity.  A method of the session tables runs under their lock and is one action.  The read loop
handles one datagram at a time (`Reading`), so only other goroutines can run in the
middle of a handler.  A handler is cut where such a step can be seen: between
redeeming a stored token and registering the session (`redeemed`), and between two
writes of a fan-out (`held`, the pointers `GetChannelPeers` returned).  Elsewhere a handler
makes several calls in one action:

* a voice packet's lookups and `GetChannelPeers` are one action: the packet is
  delivered as if it had been looked up when the peers were collected; what a move or
  a mute between the two could change is the channel or the flag of that one packet;
* a ping's lookup and its update are one action: both are by the read loop, which is
  the only goroutine that creates sessions or changes addresses; a removal in between
  leaves an object that nothing refers to;
* leave and kick reach the SFU through `RemoveSession`, one critical section.

`LastSeen`, `ServerMuted` and `ServerDeafened` are read and written without one common
lock; each is a word whose old or new value is read, which the order of the actions covers.

Left out: SSRC, `IsSpeaking` and `EnergyLevel` (no decision depends on them),
`RevokePending` (tests only), the branch of `ActivatePending` for a mismatch of user
or channel (this client sends what it was given), deleting an empty inner map
(the same as an empty one).

### Hub

One action per critical section of a handler.  What a handler has left to do after
releasing the lock is its `frame`; the `Run` loop has one too.  A connection identifier
is used again (`ServeWs`) once no map, frame or goroutine refers to the old `Client`.
The read pump goes on handling messages it had read before the socket was closed, so a
handler can run for a connection that has left `h.clients`: `reading` and `clients` are
separate.

`KickMember` deletes session rows and voice tokens in one action, although the code
makes two storage calls: no step reads both.  `Login` stands for register and login: row, then fields.
Session expiry, storage errors and broadcasts are left out; no handler reads a
broadcast back.  The target of a move is a channel of the server, as the client's menu
offers it; the code does not test it.

### VoicePlane

`Hub` is split into `HubLocal` and `HubCalls`.  `VoicePlane` leaves the first alone and joins each
disjunct of the second with what it calls: issuing a token writes a row, pending it makes the SFU
wait for the handshake and, if the reply can still be sent, makes the client open its socket (`udp`);
leave, disconnect and kick call `RemoveSession`; move and mute call their namesakes.  `Media` is
the SFU's own part, with pings and voice only from open sockets.  A client closes its socket
when it likes (`Hangup`): losing the WebSocket does not make it do so.

### ClientConn

The part of a connection `Hub` leaves out: how messages get to it.  `Run` is a loop with a
state of its own (`run`): it selects, dispatches under the read lock to the connections left, or
posts the departure it has just made.  `Send` is two steps, the test of `closed` and the send,
as the code releases the lock in between; `Drop` waits for a dispatch to end, because `Close` is
called under the hub's write lock.  A send on a closed channel is a panic nothing recovers
(`crashed`): the process is gone, and the system stops.

`Conn` are the connections followed from registration to the end of both pumps.  All
others are one symbol, `Other`, that can overflow and post.  Events are numbered as posted; a
handler's own posts, the one after a read pump's end included, are `Post`.

### VoiceCall

Dart runs a function without interruption up to an `await`, and so each step here is the code
between two awaits.  `calls` are the calls of `joinVoice` and `disconnect` begun so far, with
the point each is at: waiting for its answer (`asked`), for the UDP socket
(`binding`), or `done`.  Nobody awaits them, so any number overlap.  `copyWith` takes null
for "keep", which is why `End` leaves `channel` alone.  `captureSub` is the notifier's handle,
`subs` the subscriptions that really receive frames.

The server is here what answers: requests of one connection are served in order by its read pump;
replies go into the connection directly, events through `posted`, the hub's broadcast
channel, so that they can be overtaken.  A kick closes the connection and is a lost connection;
the hub notices a lost connection at once.  A refused join may have entered the room (storage
failed after the room was entered).  `Tap` and `HangUp` are the only ways the interface calls.

`ServerMute` is a moderator's `set_server_mute` or `set_server_deafen`.  Its event has no `channel_id`, which
`voice_notifier.dart:162-171` reads as having left, so it is the event of a departure here: a member who is muted
or released hangs up.  The properties hold with it.  No text of the repository that this could contradict speaks of
the client: the test of the server's mute uses a client of its own.

### SampleRing, VoiceEngine

A sample is a numbered block, so "in order" and "once" can be said; levels, gains, the limiter
and formats are left out, and a frame is loud or not.  The isolate makes one native call at a time;
`todo` holds the native steps its Dart method has left, and the callbacks run between them.
A callback is two steps, the flags it reads before the mutex and the rings it uses under
it.  `mic` and `spk` are `AudioDevice`s: the engine only opens and closes them with
`Prepare`, `Open`, `Refuse`, `End` and `Close`.  `MicTurns` and `SpkTurns` are what nobody asked for, a stream that ends
by itself or, as on WASAPI, starts again; the loudspeaker may call back before its start has succeeded, as on PulseAudio.
The ring overwrites what has not been read; a full lap leaves it looking empty.

`_isCapturing` and `_isPlaybackActive` change in one call and are one flag.  `set_ptt_state` is
called by nothing in the application, so in push-to-talk mode nobody ever speaks; the
interface offers that mode.

### AudioDevice, MaDevice

`MaDevice` is the control engine of miniaudio for the two devices, on the backends with a worker thread that the engine
runs on: ALSA, PulseAudio and WASAPI (`backend`, chosen once).  Three threads meet in a device:

* the *isolate*, in `start_hardware_*` and `stop_hardware_*`: init, start, stop and uninit of one device at a time;
* the *worker* (`worker`): waits, starts the backend, streams, stops;
* the *system*, on WASAPI, in `OnDeviceStateChanged` and `OnDefaultDeviceChanged`: stops a device that is unplugged or no
  longer the default and starts it again when it is plugged in or rerouted.  This concerns the default devices, which the
  engine opens unless the user has chosen one; a chosen one is a device nothing happens to.

`at` is the point the isolate and the system are at in a call on a device.  `ma_device_start` and `ma_device_stop` look at the state,
take `startStopLock`, look again and wait for an event that the worker signals; `ma_device_uninit` takes no
lock.  An event is auto-reset: a wait takes the signal.  What the second look lets through is the code's: a start whose
device has become uninitialized in between writes `starting`, and a stop whose stream has ended in between writes `stopping`.
The assertions that would stop there (`MA_ASSERT`) are compiled out of release builds.  A backend may refuse to start, or fail while
it streams.  PulseAudio fills the loudspeaker's first buffer through the data callback in state `starting` (`Fill`), also when
the start then fails, and its main loop may call back until the stream is corked (`Drain`).

External: `UnregisterEndpointNotificationCallback` is taken to wait for a notification that is being handled, and the
system to deliver one at a time to a device.  A reroute that fails or succeeds leaves the same state here.

`ImplementsDevice` maps the three threads to the phases of `AudioDevice` (`PhaseOf`) and checks that every step is one
of its steps or none: this is what entitles `VoiceEngine` to use it.  `AudioDevice` allows callbacks before a start has
succeeded only of a device that is `early` (PulseAudio's loudspeaker), and a second start only of one that `resumes` (WASAPI's).

## 3. Runs

| run | question | instance and why it is enough |
|---|---|---|
| `sfu_core` (pass) | Do the tables stay sound, and is no listener scavenged, when handshakes are repeated, delayed past expiry and lost, and addresses shared? | two users, one of which roams onto the other's address, two channels, one token at a time with two copies.  Three heap objects: the live sessions of both users and one replaced.  An entry is wrong by pointing at another's or a dead session, which two users and two addresses show. |
| `sfu_prompt` (pass) | Are rooms isolated, fan-outs to live sessions only, and silent peers dropped, when handshakes are repeated or lost but arrive in time, and members are moved only when no copy of theirs trails (`SettledSpec`)? | two users with an address each, mute and deafen included, two copies: one makes the session, the other redeems the row or, after a kick, falls through to the session there is |
| `sfu_revoked` (violation) | Is a revoked token final? | a handshake after a kick falls through to `RegisterSession` |
| `hub_core` (pass) | Do rooms, roster and connections agree? | three users with one connection each: two moderators and a member they move, mute and kick at the same time, limit 1, one connection whose send buffer overflows |
| `hub_devices` (violation) | The same with two connections of one user | the end of the old one deletes the voice state of the new one |
| `plane_core` (pass) | Does the hub use the SFU as `SfuRouter` says, and do sessions left behind by a leave or a kick go? | a member who joins and a moderator; one room, one token at a time, two heap objects (old session and new) |
| `plane_mute` (violation) | Is a server mute enforced? | a mute between `join_voice` and the handshake finds no session |
| `conn_core` (pass) | Does delivery never panic, reorder, block or leave goroutines behind? | one connection followed, every channel one place long, three events and two overflows elsewhere: each channel can be full while the others are full or empty, and an event can wait, expire, or arrive late. |
| `client_core` (pass) | Is a call sent once, live, ended and left, however calls overlap? | two channels, three overlapping calls, two faults or moves: enough for a join that is overtaken by a leave and by another join, with a move, a toggle, a server mute or a lost connection in between |
| `engine_core` (pass) | Do samples stay in order, slots unique and the hardware released? | three speakers for the two slots left beside the loopback, rings of three blocks and frames of two, so that a callback laps the ring; four blocks in all.  Speakers are interchangeable (symmetry; safety only).  Voice-activity mode only, as the other speaks never. |
| `device_core` (pass) | Is each device an `AudioDevice` on every backend, and does, without notifications, every start and stop return and no signal stay behind? | both devices, three backends.  `Notified` bounds the notifications to the microphone: devices have no state in common, and the isolate, which is busy with one at a time, is where they meet.  Nothing else is bounded. |
| `device_reroute` (violation) | Does a teardown make the worker return? | a notification past its first look at the state writes over `uninitialized`; the worker goes back to its wait, and the isolate hangs in `ma_thread_wait` |

Bounds: `Token`, `SessionId`, `Copies`, `MaxOpen` and `MaxDelay` of the SFU, and `Conn`
of the hub, are declared as CONSTANTS with their meaning.  `MaxIdle = 0` and `TokenTTL = 0` are one tick
wide: an age is either within the limit or past it, which is all the code tests.  `MaxEvents`
and `MaxOverflows` bound what is posted to the hub, `MaxCalls` the taps of a user and `MaxOutside` the
moves, mutes, toggles and lost connections; `MaxBlocks` what microphone and network
deliver.  When `MaxCalls` is used up an event that would make the client leave waits at the head of its
inbox: those behaviours stop early.

The runs of the server look for deadlock.  `conn_core` may stop (all
events posted and the connection gone, or a panic), and so may `client_core` (the user has made the last call),
`engine_core` (destroyed) and the two of the device (the isolate hangs in the teardown that `device_reroute` finds).

Fairness.  `SettledSpec` has weak fairness of `Clean` only: `cleanupLoop` runs from a
ticker for the life of the server, and the lock is never held while waiting.  Neither clients,
nor moderators, nor the network, nor the clock are fair.  `SilentPeersDropped`
starts from a session that is already stale.  `PlaneSpec` has weak fairness of the cleanup and of
the clock (a session must be able to become stale), and of nothing else.
`ClientConn`: goroutines run, so `Run`'s own steps and the pumps' are weakly fair; `Unregister` is strongly
fair, because Go's `select` picks at random among the ready channels, so that events do not
win for ever.  A peer need not read, a moderator need not kick.  `LaggardsGo` and `PumpsEndTogether`
end when the process has crashed.  `VoiceCall`: the ten-second timer runs out, a bind returns or fails, the
server serves what it has read; events, replies and reconnects need not come.  `MaDevice`: the isolate, the system and the
worker run (weakly fair, each on each device), and a blocked read returns at the latest when `ma_device_stop` wakes it.
`Settles` is strongly fair: a period ends although it may take another callback, and a cork or uncork that PulseAudio
was asked for is done or fails, although callbacks come before.  No device need start, fail or be plugged in.

What was seen and is not a run of its own:

* A token lives in `pendingTokens` and in `voice_tokens`, and consuming one leaves the other:
  the second copy of a handshake redeems the row and replaces the session.  `sfu_core`
  shows what survives it (the tables), `sfu_prompt` that the rooms do too.
* A third copy that arrives after a move assigns `ChannelID` without moving the room entry, so
  that `RoomIsolation` fails; `sfu_prompt` supposes that it does not happen (`Settled`).
* `move_member` does not look at `user_limit`: a moderator can fill a room past it.
* A handler's reply that meets a connection closed by `Run`, by the end of a read pump or by a kick sends on a closed channel.
  `conn_core` reaches it (`crashed = "reply"`): `BroadcastNeverPanics` claims less on purpose.
* A join of a second channel that fails leaves the first one's microphone, subscription and
  socket on with status `disconnected`; a late event about an earlier lost connection ends a new call.
* Samples captured while muted are handed out after the unmute, as nothing empties the ring; a
  device that has died is still counted as initialized, and the next start does nothing; on WASAPI only a notification
  brings it back.
* On WASAPI a stop that finds its stream ended by itself returns early and leaves `stopEvent` signalled; a notification starts
  the device again, and the next stop returns at once with the worker streaming.  So `NoStaleSignal` speaks of the other
  backends.  The teardown that follows each stop still waits for the worker: `ImplementsDevice` holds.
* After a leave the state keeps the channel's id (`copyWith` takes null for "keep"), so a tap on that channel leaves again.

## 4. Proofs

`SfuRouterProofs` proves, for every value of the constants under the two named
assumptions, the five properties `sfu_core` checks:

* `TablesInvariant`: `Spec => []TablesInv`, with `TablesInv == Tables /\ TypeOK`.
  `Tables` is the inductive invariant: the typing of the heap and the three maps
  together with `OwnTables` and `AddrIndexSound`.  None of the three is inductive alone.
  A lookup is well typed only because no map entry dangles; an address entry is
  deleted with its session only because the session's own address says where the entry is; and a
  move or removal takes the right room entry only because the session found is the user's own.
* `TypeCorrect`, `OwnTablesInvariant`, `AddrIndexInvariant`, `AddressLookupInvariant`
  follow from it.
* `KeepAliveHolds`: the action property.  Its strengthening (`IdleBound`) is that the
  session of a user has never been idle for longer than the user has been quiet.

`RoomIsolationHolds` and `FanoutLiveHolds`, the safety properties of `sfu_prompt`, hold for any number of copies of
a handshake under three conditions: the joins of a user do not overlap and no handshake outlives its token (`Prompt`), and
no member is moved while a copy can still arrive of a handshake whose token memory no longer holds (`Settled`; without it
they are false).  The invariant (`RoomsInv`) has two parts that speak of tokens.  `OneJoin`: a user has one token, or a
handshake being redeemed and what is left of its copies, all for one channel.  `TrailingAgree`: a copy that trails
names the channel its user's session is in, so that whether it redeems the row or falls through to the session, no
room changes.  `TrailsOn` goes through the actions once and says where a trailing copy can come from; the rest is a
lemma per method.  `FanoutOK` follows: peers are taken from rooms, and none is replaced before the fan-out ends,
since the read loop does both.  The
conditions are assumptions about clients, network and moderators; nothing in the code ensures them.

There is one lemma per method of the session tables, and one per conjunct for the steps that
disturb several; each action of `SfuRouter` then cites the lemma of the method it calls.

`HubProofs` proves `TypeCorrect` (`Spec => []TypeOK`) and, for a system in which no account has two
connections (`OneConnection`, an assumption of the theorems; `hub_devices` shows that without
it they are false), the three agreements `hub_core` checks: `RoomsAgreeHolds`,
`VoiceStateKeptHolds`, `VoiceStateBackedHolds`.  `PlacesInvariant` is the induction.  The three are
not inductive: a move follows `userClients`, so an occupant must be listed there (`Seated`), under its
own user (`Owned`); a join finds it listed unless the second half of its login is still to
come (`Enrolled`); a new `Client` is clean because only one with a read pump is in `h.clients` or
authenticated (`Connections`).  The steps reduce to two lemmas: a connection leaves
its room (`Unseat`: leave, kick, every disconnect) or goes to one (`Reseat`: join, move).

`VoicePlaneProofs` proves `PlaneImplementsSfu`: `PlaneSpec => SfuImplemented`, that is, the behaviours
of hub and SFU together are behaviours of `SfuRouter`.  Its invariant (`CallsFit`) is that what a
handler has kept for its call names a user, a channel and a flag that exist.  So the theorems of
`SfuRouterProofs` carry over, of which it states two: `PlaneTables`, and `PlaneIsolates` for any number of copies under
the conditions of `RoomIsolationHolds` (`Prompt`, `Settled`).

`ClientConnProofs` proves, for any connections and buffer sizes:

* `TypeCorrect`: the channels stay within their capacities.
* `BroadcastNeverPanicsHolds`.  The invariant is that a connection `Run` has tested and is about to send to is not
  closed (`SendsToOpen`): `Drop` waits while `Run` dispatches, so every step that closes a connection starts with
  `Run` outside of a dispatch (`DisconnectWaits`).
* `EventsInOrderHolds`.  What a peer has been sent is only the end of the path, so the invariant (`OrderInv`)
  orders the whole of it: the hub's channel, the event being dispatched, the connection's channel, what the write
  pump has written (`HubOrder`, `ConnOrder`), and says where an event that waited for room may stand.

`VoiceCallProofs` proves, for any number of calls, `FramesSentOnceHolds`, which is inductive as it stands, and
`ConnectedIsLiveHolds`.  The second needs the record of the calls to be well typed (`CallsOK`): the socket of a
connected call may be closed only by a join that is then `binding`, and a step of another call must leave that
one where it is.  Each way a call begins, goes on or ends has its lemma.  `TypeCorrect` needs more than types
(`TypeInv`): a request is queued or answered once, so an answer finds the call that waits for it, and a live
subscription is that of a join that is over.

`MaDeviceProofs` proves, for any two devices, on each of the three backends and with notifications of both,
`TypeCorrect` and the refinement `DeviceImplemented` (`Spec => ImplementsDevice`), and `NoStaleSignalHolds`.  The
invariant (`Inv`) has three parts.

* `Locked`: a thread holds `startStopLock` exactly between its second look at the state and the event it waits for.
* `FirstStart`, on every backend: up to the first start of a device only the isolate starts it, whatever the system is
  notified of, because nothing is detached or was running (`Fresh`).  This is what the refinement needs: a device is `ready`
  once, and streams or calls back only from there.
* `Alone`, on ALSA and PulseAudio: for every point of a call, the positions of the worker and the signals that can go
  with it (`Closed`, `Booting`, `Ready`, `Starting`, `Running`, `Stopping`, `Ending`, `Leaving`, `Joining`).  `NoStaleSignal` speaks of
  the time between calls only.  A stream that ends by itself in `Running` is what makes it long: the worker may
  already be back at its wait, having signalled a stop nobody asked for.  From it follows that a stream is not started twice.

On WASAPI a signal may be left over and a teardown may hang, and nothing is proved that denies it.

`VoiceEngineProofs` proves all six properties of `engine_core`, for any users, slots, sizes of ring, frame and
callback (below the ring's, as `EngineConstants` says), packets and hangover.  The invariant (`IInv`) has two
halves.

* *What a call has left to do.*  In the middle of a Dart method a flag or a device may be in any state, so
  `HardwareReleased` says something only between calls, and nothing about it is inductive.  `Released` says where
  the rest of `todo` leads: each flag and device is off and nothing left opens it, or a step that turns it off is
  left and none after it that turns it on (`Closing`, `Never`).  `SpeakingIsLiveHolds` rests on the opposite,
  `Listening`: with the loopback on, the list ends with the microphone on.  `DestroyInv`: the mutex goes last.
* *The rings.*  `SampleRingProofs` reduces the arithmetic modulo `RingSize` once (`WrittenFacts`, `ConsumedFacts`):
  a write appends, or laps what waits; a read takes the oldest.  What waits in the capture ring is then the end of
  what was captured (`TailOf`), and in a slot an increasing sequence above what was mixed and up to what has arrived
  (`Rising`).  The upper bound is what makes `PeerFifo` inductive: a new packet is later than all that waits.
  `OneSlotPerUser` is needed for the mixer: it advances `heard` of a user by the one slot it reads.

The constants' assumptions used are `SessionManager`'s and `SfuRouter`'s, `HubAssumption`, `VoicePlaneAssumption`,
`ConnAssumption`, `CallAssumption`, `DevicesDiffer`, `RingSizeAssumption` and `EngineConstants`.

With TLC only: liveness (`SilentPeersDropped`, `GhostSessionsGo`, `LaggardsGo`, `PumpsEndTogether`, `JoinEnds`,
`LeaveIsServed`, `CallsReturn`), which is out of the prover's reach.  Every invariant and every other action property of a passing run
is a theorem.

## 5. Plan

Every property of a passing run that the prover can reach is proved.  Still to model: overlapping connects of the WebSocket service; chat history; roles and message paging as
operators against reference definitions.

## 6. Not modelled

* User interface beyond the two calls `VoiceCall` takes from it, models and JSON, start-up and HTTP, platform
  runners, scripts: no protocol state.  Packet encoding and the buffer pool: pure or library code.
* The rate limiter: sequential, without a second actor.
* `WebSocketService.connect` while another connect is under way, the heartbeat, and the chat, channel, roster and
  login notifiers.  Roles, channels and message paging of the storage.
* Opus (the client sends PCM), voice levels and gains, device enumeration.
* miniaudio's asynchronous backends (Core Audio, AAudio, OpenSL and others), which have no worker.
* miniaudio beyond the life of a device.  It is a vendored file of 95,864 lines, of which this program runs a device with
  its worker thread; the decoders, converters, mixers, node graph, resource manager, the
  platform backends and the tables of their functions are not this project's code.  `MaDevice` has
  what the voice engine depends on, and no share of that file that would be called coverage is
  sought: the file is 98% of the C code of the repository.
