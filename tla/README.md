# Verification of the Apple protocols

This directory holds TLA+ models of `@basmilius/apple-protocols`, the TLC
configurations that check them and the TLAPS proofs about them. The repository
implements AirPlay 2, RAOP and Companion Link in TypeScript. It runs in one
thread, so there are no data races; what makes it hard is that everything is
asynchronous. A method is suspended at an `await` while sockets fail, timers
fire, the device drops the session and the user calls `disconnect()`. The models
take the code between two awaits as one step and let all of that happen between
the steps.

1. [The system](#the-system)
2. [Modules and code](#modules-and-code)
3. [Runs](#runs)
4. [Fairness](#fairness)
5. [Proofs](#proofs)
6. [What the runs found](#what-the-runs-found)
7. [What is not modelled](#what-is-not-modelled)
8. [Plan](#plan)

## The system

| Component | Source (`src/packages/…`) | State | Operations | Hard because |
|---|---|---|---|---|
| Connection | `common/src/connection.ts` | socket, state, retry timer and counter, the promise of `connect()` | `connect`, `disconnect`, `destroy`, five socket events, the retry timer | retries hand a promise from owner to owner; events queued on a socket run after the call that destroyed it |
| ConnectionRecovery | `common/src/recovery.ts` | attempt, errors, timer, interval, generation, disposed | `handleDisconnect`, `reset`, `dispose`, timer, interval | awaits a callback while being reset, disposed and told of more losses |
| RTSP client | `rtsp/src/client.ts` | `#cseq`, the map of requests, buffers | `exchange`, data, close, error, timeout of a request | late, reordered and missing replies; failures reported synchronously from inside `exchange` |
| AirPlay session manager | `sdk/src/internal/airplay-manager.ts` | current protocol, `#disconnect`, `#ready`, close listeners, feedback timer; a second and third protocol for `playUrl` and `streamAudio` | `connect`, `disconnect`, listeners, `playUrl`, `streamAudio` | a setup of a dozen awaits over three streams which anything may interrupt |
| AirPlay protocol | `airplay/src/protocol.ts` | the streams of one session | `connect`, `setupEventStream`, `setupDataStream`, `disconnect` | opens streams one after the other, each dependent on the former |
| AirPlay data and event streams | `airplay/src/dataStream.ts`, `eventStream.ts`, `encryption.ts` | exchanges by identifier, two frame buffers, cipher counters | `exchange`, `reply`, data, close, error | frames split over reads; counters that must stay in step; listeners that disconnect in the middle of a read |
| AirPlay control stream, pairing | `airplay/src/controlStream.ts`, `pairing.ts`, `common/src/pairing.ts` | keys | pair-setup, pair-verify, requests | cryptography; otherwise straight-line |
| AirPlay audio | `airplay/src/audioStream.ts`, `audioMultiplexer.ts`, `streamTiming.ts`, `latencyManager.ts` | sockets, synchronisation interval, packet backlog, 16-bit sequence numbers, latency tier | setup, prepare, stream, finish, close, retransmit | wrap-around, partial failure over several receivers, closing while a step is awaited |
| AirPlay messages | `airplay/src/dataStreamMessages.ts`, `proto/` | none | constructors | — |
| Companion Link stream | `companion-link/src/stream.ts` | queue by xid, one key for pairing, buffer | `exchange`, `send`, data, error | one key shared by all pairing exchanges |
| Companion Link protocol | `companion-link/src/protocol.ts` | text session, queue of commands | sessions, text input, graceful stop | a command is built for a session that may have ended |
| Companion Link manager | `sdk/src/internal/companion-link-manager.ts` | protocol, heartbeat, `#disconnect` | `connect`, `disconnect`, listeners | `connect` is not serialised |
| Now-playing state | `sdk/src/internal/airplay-state.ts`, `airplay-client.ts`, `airplay-player.ts` | clients, their players, which of each is active, the last snapshot | pushed updates, `clear` | a client or player may be made active before it is known and removed while it is shown; one event compares, the other does not |
| Devices and controllers | `sdk/src/device`, `sdk/src/controller` | none of their own | forwarding | — |
| Pairing session | `sdk/src/pairing/pairing-session.ts` | finished flag | `start`, `pin`, `end`, `abort` | abort during start |
| Timing servers | `common/src/timing` | sockets, timers | start, stop | stop during start |
| Discovery, storage | `common/src/discovery.ts`, `mdns.ts`, `storage.ts` | caches, files | lookups | I/O |
| Encodings, cryptography | `encoding`, `encryption`, `rtsp/src/encoding.ts` | none | codecs | byte-level |
| RAOP client | `raop/src` | like AirPlay audio | stream | like AirPlay audio |
| Audio sources | `audio-source/src` | `Live`: ring buffer, waiting reader | write, read, end, reset | a reader waiting at the limits |
| Proxy, diagnostics | `proxy`, `diagnostics` | tools | — | diagnostics drives ConnectionRecovery |

How they interact:

```
diagnostics ── onReconnect ──> ConnectionRecovery <── handleDisconnect ── manager 'disconnected'
     │
     └─> AirPlayManager ──owns──> Protocol ──> control stream = RtspClient  ┐
              ^   (connect,            ──────> event stream                 ├ each a Connection
              │    close listeners)    ──────> data stream                  ┘
              └── 'close', 'error', 'timeout' events of the streams
```

* A `Connection` tells its subclass of socket events by overridable handlers and
  its users by events. `connect()` is a promise, settled by a socket event or when
  the retries run out.
* `RtspClient` and `DataStream` add a request/response layer, `exchange()`.
* `AirPlayManager` creates a new `Protocol` for every session, opens its streams
  one by one with exchanges on the control stream in between, and listens to the
  close of all three.
* `ConnectionRecovery` is given the manager's `connect()` as a callback.

What makes each modelled component correct:

* **Connection.** It stops for good when told to; no `connect()` is lost between
  retries; the retry budget is kept; a live socket is not replaced under its users;
  what callers wait for settles.
* **ConnectionRecovery.** One chain of attempts at a time; results of an earlier
  generation do not count; nothing starts after `dispose()`; a recovery ends.
* **RTSP client.** Every exchange is settled once, with the reply to its own request
  or an error; no entry and no timer is left behind; nobody waits on a dead
  connection.
* **Companion Link stream.** An ordinary request is settled once, with the response
  to it, whatever events and late responses carry its number; an outstanding request
  keeps its entry and its timer; nobody waits on a dead connection.
* **AirPlay manager.** *Connected* means that three observed streams are there;
  whatever interrupts a session, it is torn down completely and reported exactly
  once with the right reason; a loss is noticed; `connect()` comes to an end.
* **Data stream.** However TCP cuts the stream, frames are handled in order and
  acknowledged; the framing never loses its place by itself; an exchange is settled
  with its own answer.
* **Now-playing state.** What the listeners were told is what the state shows; nothing
  removed or outdated is shown.
* **Audio.** The ring and the backlog keep the newest; a receiver is torn down after
  its audio and the silence that drains it; a streaming that ends or fails closes every
  stream it opened.
* **Companion Link manager.** Its `connect()` is not serialised, so calls may set up
  each other's protocol; even so a session is reported as ended once and with the
  right reason, stays closed, and is closed after `disconnect()`; `connect()` settles.

`PROJECT.json` lists, line by line, what can go wrong in this code that a test
would hardly reach (`hazards`), with the properties that would catch it.

## Modules and code

| Module | Models |
|---|---|
| `Connection` | class `Connection`, one instance |
| `ConnectionRecovery` | class `ConnectionRecovery`; its names differ from those of `Connection`, so that `CommonProofs` can extend both |
| `Exchange` | abstract: what `exchange()` promises its callers |
| `RtspClient` | class `RtspClient`; implements `Exchange` |
| `CompanionStream` | class `Stream` of Companion Link; implements `Exchange` for ordinary requests |
| `MCCompanionStream` | the same with the symmetry of the requests, for TLC |
| `AirPlayManager` | the session of `AirPlayManager` with the parts of `Protocol` it drives; the streams are reduced Connections |
| `CompanionLinkManager` | class `CompanionLinkManager` with `connect()` and `disconnect()` of its `Protocol`; the streams are reduced Connections |
| `DataStream` | class `DataStream` over the cipher frames of `encryption.ts`; implements `Exchange` |
| `NowPlaying` | `AirPlayState`'s clients and players with `AirPlayClient` and `AirPlayPlayer` |
| `MCNowPlaying` | the same with the symmetry of apps and items, for TLC |
| `LiveQueue` | abstract: what a live source promises its producer and its reader |
| `LiveSource` | the ring buffer of class `Live`, as operators on a record |
| `AudioStream` | classes `AudioStream` and `AudioMultiplexer`, `streamWithTiming()`, and `Live` with its waiting reader; extends `LiveSource`, implements `LiveQueue` |
| `CommonProofs` (`Connection` and `ConnectionRecovery`), `RtspClientProofs`, `CompanionStreamProofs`, `DataStreamProofs`, `NowPlayingProofs`, `CompanionLinkManagerProofs`, `AirPlayManagerProofs`, `AudioStreamProofs` | the theorems and their proofs |

Every action stands for one path through a method or handler, up to its return or
next `await`. `PROJECT.json` maps each definition to its lines. The operators
`Bug…` beside a definition are plausible mistakes in it. No action uses them; a
run in which one takes the place of the definition it precedes breaks the property
it is aimed at, which shows that the property depends on that piece of code.
History variables, marked as such, are read by properties only.

**`Connection`.** The socket is `net.Socket`: an error destroys it, `'error'` is
emitted on a later tick, `'close'` after that, and API calls run in between.
`socket` says how far it has come ("errored": `'error'` to be emitted; "broken":
`'close'` with an error to be emitted; "destroyed": a plain `'close'`; "ended": a
FIN sent or received). `connectPromise` and `retryTimeout` hold the *call* of
`connect()` that is settled in the end: the promise created for a retry is only
awaited by the timer's callback, which forwards its outcome to the promise it
captured. `None` is no promise, `Noop` the callback that does nothing, captured
when no caller waits. `connect()` is three actions (returns, throws, starts),
`disconnect()` three (idle, dead socket, live socket). `OnTimeoutDestroyed`,
`OnCloseStopped` and `OnCloseReconnects` are the handlers with a listener that
calls back into the connection while the event is being emitted. `disconnect()`
on a destroyed socket whose `close` is still queued is `DisconnectDead`; that it
also keeps a subclass from hearing of that close is not in `RtspClient`, because the
AirPlay protocol does not call `destroy()` and then `disconnect()` (the hazard at
`connection.ts:171`); `CompanionLinkManager` has it. `write()` changes no state of the class and is in
`RtspClient`.

`disciplined` records that no caller started a connection while one was still
being ended or retried. No class of the repository does; the properties that need
it say so, and the remaining behaviours are in the model all the same.

**`ConnectionRecovery`.** `retryTimeout` is the generation the callback captured,
`retryFlights` the calls of `onReconnect` whose outcome is awaited. The guards on
`disposed` and the generation are the checks after each `await`. Delays are left
out; listeners of its events that call back are too.

**`RtspClient`.** The map of requests and the armed timers are sets of
`<<CSeq, request>>`. The bytes on the wire are reduced to which requests the device
has yet to answer (`device`) and which answers have not been received
(`responses`). An answer carries the request the device answered, which no action
reads except to record it in `got`. `link` is the connection as far as the client
depends on it. `inStep` says whether the incoming bytes can be decrypted: an
overflow of the buffer drops it in the middle of a frame, a reconnect may come back
with the counters of the old connection. A response without `CSeq` has `NoCseq`.
A request that cannot be serialised or encrypted throws before it has an entry and has
used up its number (`ExchangeThrows`).
`onRtspTimeout` rejects nothing that can be outstanding while the socket is still
connecting and is not an action.

**`CompanionStream`.** Like `RtspClient`, with the differences that matter. The queue
is a Map keyed by `xid`, except that all pairing exchanges share the key −1: a
second one replaces the entry of the first, whose promise is then settled by its own
timer only, and a timer deletes whatever is under its key when it fires. `overtaken`
is a history variable that records which pairing exchanges were outstanding
together. A frame is `<<number, kind, request answered>>`; only a "response" is
matched by number, and a frame that matches nothing, an event included, is taken for
the answer to the pairing exchange if there is one (`OnPairing`). Requests that
cannot be encoded (`ExchangeUnencodable`) are rejected and leave their entry to the
timer; requests on a dead connection (`ExchangeUnwritable`) are rejected by the
`'error'` that `write()` emits before it returns, with everything else in the queue. A
bad frame or an overflow rejects all requests and leaves the connection up; after
an overflow the stream is out of step, as it may be after `disconnect()`, which drops the
buffer before the socket. Framing and encryption are reduced to
`inStep`; frames behind a bad one stay in the buffer, which is a delay.

**`AirPlayManager`.** The setup is one coroutine, `step` the await it is suspended
in. `connect()` joins a setup that is under way, so there is never a second one.
`life` holds, for each session and stream, how far its Connection has come. One
`retries` counter is enough, since at most one Connection at a time is between the
start of its attempts and being connected; a second stream that failed unobserved
cannot exist, because only the event stream can be up and unobserved. When
a teardown destroys a Connection whose retry is armed, and the setup awaits that
Connection, the promise is lost and the setup is "hung": this is what module
`Connection` shows, carried into the manager. An exchange may still be answered on
a stream that was just destroyed ("dying"): the response may have been received
before. Left out: the state tracker but for its subscription (`nowPlaying`),
artwork, the choice of timing server, `playUrl` and `streamAudio`, which open
protocols of their own.

**`CompanionLinkManager`.** Every `connect()` is a coroutine of its own, `step[c]` the
await it is suspended in. It creates protocol `c`, and after each await goes on with
`#protocol`, the current one: `verify.start()` stays on the stream it was given,
`#setup` and the heartbeat do not. Only the current stream has the manager's
listeners, so a replaced one that fails is reconnected by its Connection
(`CloseUnheard`), and destroys nothing when its last attempt times out.
`disconnect()` waits for `gracefulStop()` (`stopping`), during
which the stream is up and everything else goes on, and then stops the protocol it
was called for (`GracefulStopEnds`). `heartbeat` is the interval the manager can
clear, `intervals` are those that run; they differ when a second setup overwrites
the handle. The `'close'` of a socket that `disconnect()` finds destroyed is lost
with its listeners (`StreamStopped`), as is the promise of a `connect()` that was
between two attempts or ended while connecting ("hung"). `orderly` records that
calls did not overlap in the ways that leak a heartbeat; only
`HeartbeatFollowsSession` needs it. Left out: the keys, so that requests encrypted for
another stream are requests that may fail, the forwarding of the state tracker's
events, and the event `'connected'`, which is emitted even when the stream is lost
during the initial fetch, whose errors are swallowed.

**`DataStream`.** What the device writes is a sequence of frames (`sent`), each cut into
cipher frames (`wire`), of which the last ends it. A buffer is the stretch of the
device's bytes it holds: `#encryptedBuffer` the halves of cipher frames after
`cipherFrom`, `#buffer` the cipher frames after `plainFrom`. TCP delivers any number of
halves at a time, so a chunk may end inside a cipher frame, inside a header and inside
a message, or hold several messages. Decrypting under a counter that is not that of
the cipher frame at hand, or taking the middle of a frame for a header, is an error, or
a wait for a length that is not one (`DataGarbled`, `LengthInvalid`); both happen only
after `disconnect()` emptied the buffers. `onStreamData()` runs to its end before the
event loop goes on (`Busy`), but a listener of the message being handled may call
`disconnect()`, `destroy()` or `exchange()` between two of its frames, which is why a
frame is an action and the loop is not. `ackOwed` is the place between a `sync`
frame's message and `reply()`. A body is the request it answers, or one of three
others; an acknowledgement (`rply`) has none. Frames are written under one key: the
stream is always encrypted when it is used. Two requests have two identifiers; the type of a
message, under which a request without an identifier waits (`dataStream.ts:224`), is left out.

**`NowPlaying`.** A handler is an action, its parameters the fields of the message that
matter, `None` where the device left one out. A client is its active player and a
function from its known players to what they play. Most messages create what they
mention (`Registered`). `Shown` is the snapshot of the client shown, with the player
that is active or else the default one. The playback state keeps the timestamp that
orders it; the item stands for the other fields, which all follow the same two rules:
replaced if the message has them, amended if the player has them. `told` is what the
last `activePlayerChanged` since `clear()` named: `clear()` itself tells nobody, so that
`ListenersAreCurrent` speaks of one session.

**`AudioStream`.** A receiver's stream is a record: what it awaits (`at`), its sockets, its
synchronisation interval, RTP number, padding, nonce and backlog. The caller, `phase`, is
`stream()` with one receiver, which pads with silence inside its loop, or the
multiplexer with all, which reads once, sends to each, and at the end lets each pad
and tear down by itself. Errors before the loop leave everything as it is
(`AwaitFails`), errors in it close every target (`SendFails`, `FinishFails`), and the
steps of the others go on with their sockets gone. `OwnerCloses` is
`Protocol.disconnect()`, or `clear()`, at any moment. The source is `LiveSource`, one cell a
frame, and a frame is its number, so that order and loss show; `Write`, `End` and
`ReadFrames` are `write()`, `end()` and `readFrames()`, with the reader that is resolved
from inside the other two. RTP numbers are modulo `SeqLimit` and begin with
`FirstSeq`, which the code draws at random. Left out: the redundant
payloads, which are off by default; synchronisation packets and the answers to
retransmission requests, which read this state only; the compensation of
`streamWithTiming()` for lost time, which is how long a step takes. One difference is on
purpose: the compensating packets ignore an end of the source they meet, and meet it
again in the next turn of the loop.

## Runs

| Run | Checks | Bounds | Distinct states |
|---|---|---|---|
| `connection` | `TypeOK`, `RetryOnlyWhileWanted`, `LiveSocketKept`, `ConnectSettles`, `DisconnectSettles` | 2 calls of `connect()`, 2 of `disconnect()`, any number of `destroy()`, 2 retries | 20 383 |
| `recovery` | `TypeOK`, `RecoveryHasOneDriver`, `RecoveryEnds` | 2 attempts, interval on, 3 generations | 276 |
| `rtsp` | `TypeOK`, `ImplementsExchange`, `ExchangesSettle` | 3 requests | 18 126 |
| `companion` | `TypeOK`, `PendingIsHeld`, `ImplementsExchange` | 2 ordinary requests, 2 pairing exchanges, 1 event under way | 533 892 (up to symmetry) |
| `airplay` | `TypeOK`, `ReadyIsWired`, `NothingLeftBehind`, `ReportedOnce`, `SetupSettles`, `LossIsNoticed` | 2 sessions, 1 retry per stream | 41 393 |
| `companion_link` | `TypeOK`, `EndedStaysClosed`, `HeartbeatFollowsSession`, `ReportedAsAsked`, `ConnectSettles`, `AskedIsClosed` | 2 calls of `connect()`, any number of `disconnect()`, 1 retry per stream | 7 562 |
| `data_stream` | `TypeOK`, `InOrder`, `FailsOnlyOnBrokenFrames`, `ImplementsExchange`, `MessagesArrive` | 2 requests, 2 frames written by the device, each of 1 or 2 cipher frames | 250 698 |
| `now_playing` | `TypeOK`, `ActiveExists`, `ListenersAreCurrent` | 2 apps of 2 players, 2 items, 1 state besides unknown, 2 timestamps | 119 964 (up to symmetry) |
| `audio` | `TypeOK`, `BacklogIsNewest`, `TeardownAfterAudio`, `NothingLeftOpen`, `ImplementsQueue`, `StreamSettles` | `stream()` to 1 receiver and the multiplexer to 3; ring of 3 frames, packets of 2, silence of 3, backlog of 2, RTP numbers modulo 4 from 3 on, 7 frames written | 29 401 |
| `connection_hang` | `EveryConnectSettles` — violated | as `connection` | |
| `airplay_fresh` | `StreamsAreFresh` — violated | as `airplay` | |
| `heartbeat_cleared` | `HeartbeatCleared` — violated | 1 call of `connect()` | |

Deadlock is checked in `data_stream` and `now_playing`; the other bounded systems come to a stop when
their callers have made their calls.

Why the bounds are enough. *Connection*: two retries make a first, an inner and a
last attempt different; two calls of `connect()` and of `disconnect()` are the least
that can overlap, and a third would meet the same states again, since a Connection
holds at most one promise in `connectPromise` and one in the timer. *Recovery*: two
attempts separate "one more" from "none left"; three generations let a result
arrive two resets late. *RTSP*: with three requests one can be late, one
outstanding and one answered out of order, with reconnects in between. *Companion
Link*: two pairing exchanges are needed for one to take the other's entry, two
ordinary requests for a late response to meet an outstanding one; `MaxEvents` bounds
the events not yet handled, and one at a time can carry any number in use. *AirPlay*:
two sessions are the least in which an old stream can disturb a new session; one
retry separates a stream that comes back from one that gives up. *Companion Link
manager*: two calls of `connect()` are the least that overlap, and the manager only
tells the current protocol from the others. *Data stream*: two frames of two cipher
frames give every place a chunk can end in, a chunk of parts of both, and a second frame
behind a first that breaks or disconnects; its safety properties are proved for any
number. *Now playing*: with two apps and two players each message is about the one
shown, another one or none; the invariants are proved for any number. *Audio*: every
size is the least at which its wrap-around differs from a fresh start: packets do not
divide the ring, the silence is no whole number of packets, the backlog is smaller than
the range of numbers, and seven frames go round the ring twice; three receivers let one
fail while one still pads and one is done.

What the runs show in words:

* A `Connection` to which `disconnect()` or `destroy()` was said has no timer and no
  attempt that could reopen it, although the timer callback itself checks nothing.
  A pending `connect()` is always held by the attempt or by the timer. `disconnect()`
  resolves in every order of the events already queued.
* A recovery that is marked as under way is driven by exactly one thing, in spite of
  resets while a reconnect is in flight, and the errors it reports are its own.
* `RtspClient` implements `Exchange`: no reply is given to a request it was not
  meant for, and every way a request can end clears its entry and its timer.
* The Companion Link stream implements `Exchange` for ordinary requests, although
  events share the number space and timers delete by key. Pairing exchanges can only
  take each other's entry, and keep their own timers, so that they still end.
* The AirPlay manager keeps its promises through every interruption of its setup.
  Its guards after each `await` are needed: dropping one breaks `NothingLeftBehind`.
* The Companion Link manager reports and closes sessions correctly although its calls
  are not serialised. That `disconnect()` keeps the protocol it was called for across
  its await is needed: without it `AskedIsClosed` fails, as the comment there says.
* The data stream handles the device's frames in order and none twice, wherever TCP
  cuts them, and acknowledges the ones that ask for it in that order. It implements
  `Exchange`: acknowledgements, pushed messages and late answers settle nothing. Until
  `disconnect()`, it gives its connection up for a frame that cannot be parsed and
  nothing else; one counter advanced on an incomplete cipher frame breaks that.
* The listeners of the now-playing state were last told what it shows, though the two
  events follow different rules and some handlers announce nothing.
* The ring and the backlog keep the newest over every wrap-around. To its reader the ring
  is a plain queue (`LiveQueue`) that loses the oldest frames on overflow and nothing else,
  also when `end()` meets a reader that waits for more than is left. Once the audio
  loop has begun, whatever fails in it, at whichever receiver, and at whatever place the
  others are, all streams are closed in the end; a receiver that is torn down has
  been sent all audio and the silence.

## Fairness

* `Connection`: an attempt connects, fails or runs into `SOCKET_TIMEOUT` (30 s,
  `connection.ts`), while an open socket may stay open for ever; queued socket events and the retry timer run; an ended socket is
  closed by the peer or, through TCP keep-alive, by the system. `connect()`,
  `disconnect()`, `destroy()` and events the peer must start have no fairness.
* `ConnectionRecovery`: its timer fires and `onReconnect` settles. The latter is the
  callback's contract; with `AirPlayManager.connect()` behind it, `SetupSettles` shows
  when it is kept, and the finding below when it is not.
* `RtspClient` and `CompanionStream`: the timer of an exchange fires. The device need
  not answer and the connection need not fail.
* `AirPlayManager`: a request is answered, or fails after `HTTP_TIMEOUT` (6 s); an
  attempt connects or fails; a retry timer (3 s) fires; a socket that failed or was
  destroyed closes. All four are what the layers below guarantee: the second and
  third by `Connection`, the first by `ExchangesSettle`.
* `CompanionLinkManager`: the same, for every call and stream; `gracefulStop()` is four
  exchanges and so ends. `connect()` and `disconnect()` have no fairness.

* `DataStream`: TCP delivers what the device wrote while the connection is up, and
  `onStreamData()` goes on to its end. The device need not write anything.
* `AudioStream`: the loop goes on, each of its awaits being a timer or the callback of a
  UDP send; the awaits of a receiver's `setup()`, `prepare()` and `finish()` end, being
  RTSP exchanges, for which `ExchangesSettle` says so, and callbacks of open sockets. A
  data socket closed before its `connect()` calls back never does, and has no step.
  Nothing makes the producer write or end.

## Proofs

TLAPS proves these for every value of the constants (any set of calls or requests,
any retry budget of at least one, any number of attempts, of sessions and of calls of
`connect()`; any receivers, ring, packet size, latency and backlog). With them every
invariant and every action property of the passing runs is proved; what is left to TLC
is liveness.

| Theorem | States |
|---|---|
| `CommonProofs!TypeCorrect` | `Spec => []TypeOK` |
| `CommonProofs!StopsForGood` | `Spec => []RetryOnlyWhileWanted` |
| `CommonProofs!NoLostConnect` | `Spec => []PendingIsOwned` |
| `CommonProofs!BoundedRetries` | `Spec => []RetryBudget` |
| `CommonProofs!LiveSocketSafe` | `Spec => LiveSocketKept` |
| `CommonProofs!RecoveryTypeCorrect` | `RecoverySpec => []RecoveryTypeOK` |
| `CommonProofs!OneDriver` | `RecoverySpec => []RecoveryHasOneDriver` |
| `CommonProofs!OwnErrors` | `RecoverySpec => []ErrorsMatchAttempts` |
| `CommonProofs!DisposedForGood` | `RecoverySpec => DisposedStartsNothing` |
| `RtspClientProofs!TypeCorrect` | `Spec => []TypeOK` |
| `RtspClientProofs!NothingLeftBehind` | `Spec => []EntriesArePending` |
| `RtspClientProofs!CloseRejectsAll` | `Spec => []NothingOutstandingWhenDown` |
| `RtspClientProofs!Implements` | `Spec => ImplementsExchange`, the refinement |
| `CompanionStreamProofs!TypeCorrect` | `Spec => []TypeOK` |
| `CompanionStreamProofs!EntriesAreKept` | `Spec => []PendingIsHeld` |
| `CompanionStreamProofs!CloseRejectsAll` | `Spec => []NothingOutstandingWhenDown` |
| `CompanionStreamProofs!Implements` | `Spec => ImplementsExchange`, the refinement for ordinary requests |
| `DataStreamProofs!TypeCorrect` | `Spec => []TypeOK` |
| `DataStreamProofs!HandledInOrder` | `Spec => []InOrder` |
| `DataStreamProofs!OnlyBrokenFramesEnd` | `Spec => []FailsOnlyOnBrokenFrames` |
| `DataStreamProofs!Implements` | `Spec => ImplementsExchange`, the refinement |
| `NowPlayingProofs!TypeCorrect` | `Spec => []TypeOK` |
| `NowPlayingProofs!NoDanglingPlayer` | `Spec => []ActiveExists` |
| `NowPlayingProofs!ListenersKnow` | `Spec => []ListenersAreCurrent` |
| `CompanionLinkManagerProofs!TypeCorrect` | `Spec => []TypeOK` |
| `CompanionLinkManagerProofs!EndedForGood` | `Spec => []EndedStaysClosed` |
| `CompanionLinkManagerProofs!OneHeartbeat` | `Spec => []HeartbeatFollowsSession` |
| `CompanionLinkManagerProofs!Reports` | `Spec => ReportedAsAsked` |
| `AirPlayManagerProofs!TypeCorrect` | `Spec => []TypeOK` |
| `AirPlayManagerProofs!ReadyMeansWired` | `Spec => []ReadyIsWired` |
| `AirPlayManagerProofs!TeardownIsComplete` | `Spec => []NothingLeftBehind` |
| `AirPlayManagerProofs!ToldOnce` | `Spec => []ReportedOnce` |
| `AudioStreamProofs!TypeCorrect` | `Spec => []TypeOK` |
| `AudioStreamProofs!NewestHeld` | `Spec => []RingHoldsNewest` |
| `AudioStreamProofs!BacklogKept` | `Spec => []BacklogIsNewest` |
| `AudioStreamProofs!SilenceBeforeTeardown` | `Spec => []TeardownAfterAudio` |
| `AudioStreamProofs!EverythingClosed` | `Spec => []NothingLeftOpen` |
| `AudioStreamProofs!Implements` | `Spec => ImplementsQueue`, the refinement of `LiveQueue` |

`PendingIsOwned`, `RetryBudget`, `ErrorsMatchAttempts`, `DisposedStartsNothing`,
`EntriesArePending`, `NothingOutstandingWhenDown` and `RingHoldsNewest` are proved and not in
a run: TLC checked them before they were proved, and the theorem says more.

*Assumptions.* `None` and `Noop` are no calls, `NoTimer` is no generation; the retry
budget is at least one (it is three, and nothing changes it); `NoCseq` is no number; ordinary requests and
pairing exchanges are different calls; the bodies that answer nothing are no requests;
`None` is no client, player, state or item, and the default player is a player; the
bounds of the two managers are at least one. Of the audio: a packet fits in the ring, the
backlog has fewer entries than there are sequence numbers, of which the first is one, and
sizes are positive. (A ring
smaller than a packet could never serve a read; the code's holds 2 s, and its backlog
1000 of 65536 numbers.)

*Connection.* `PendingIsOwned`, `RetryOnlyWhileWanted`, `RetryBudget` and
`LiveSocketKept` are not inductive. The invariant `Inv` adds four facts.
`StoppedMeansOff`: retries are enabled, and a timer armed, only while a connection
is wanted. `WaitersMeanAbandoned`: while a `disconnect()` waits for the close, every
pending call has been given up. `ConnectedMeansSettled`: a connected Connection owes
nobody a promise. And, under discipline, `RetryWaitIsQuiet` (no socket, no promise
and nobody waiting beside an armed timer) and `TriesCounted`: at most
`retryAttempt + 1` sockets were opened, and at most `retryAttempt` while the timer
is armed. Each step preserves the conjunction; the proof has one case per action.

*ConnectionRecovery.* The generation carries the argument: no call in flight is of a
later generation than the current one (`FlightsAreKnown`), so `reset()` and
`dispose()` leave all of them behind, and an armed timer is of the current one
(`TimerIsCurrent`). With `DisposedIsOff` (a disposed recovery is not under way) and
`AttemptsCounted` (one under way has begun an attempt) these make
`RecoveryHasOneDriver` and `ErrorsMatchAttempts` inductive; `DisposedStartsNothing`
follows step by step. `RecoverStep` treats `#recover` once for its two callers.

*RtspClient.* The invariant `Inv` adds two facts to the checked invariants.
`Numbered`: a CSeq in use, in the map, at the device or on its way back, belongs to
one request; it stays so because `cseq` is above every number in use (`TypeOK`) and
goes on rising over a reconnect. `UnderWay`: what the device has was asked for, and
a response on its way was given by the device. It follows that the entry a response
finds under its CSeq is the request it answers, which is the one non-trivial step
of the refinement.
All ways of losing the connection map to `Fail` of a set of requests; every other
step maps to a step of the same request or to a stutter.

*CompanionStream.* Numbers do for ordinary requests what they do in `RtspClient`
(`Numbered`, `UnderWay`; an entry has the pairing key exactly if it is a pairing
exchange's). For pairing exchanges `PairingsOverlap` takes their place: a timer
under the pairing key belongs to an exchange that is still outstanding, and two that
are outstanding at once are both in `overtaken`. So when a timer deletes the entry of
another exchange, the two overlapped, which makes `PendingIsHeld` inductive; and
`NothingOutstandingWhenDown` follows, because `RejectAll` rejects what has an entry. A
step that rejects requests maps to `Fail` of the ordinary ones among those not yet
settled, a response to `Answer` or, if its request has been settled, to a stutter, and
steps of pairing exchanges and events to stutters.

*DataStream.* The invariant has two halves. That of the calls (`Waiting`, `Honest`) is what
`RtspClient` needs numbers for and gets from the identifier in the body. That of the
stream says where the buffers begin. `Wired`: the cipher frames of one frame lie
together, in the order of the frames, and each frame has one that ends it. `InPlace`: until
`disconnect()`, the encrypted buffer begins where the last decryption ended, under the
counter of that cipher frame, and the decrypted one behind the last frame handled. From
these, `NextFrame`: the frame taken next is the one after those handled. It makes
`NothingSkipped` and `FailsOnlyOnBrokenFrames` inductive. After `disconnect()` the place
is lost, but what remains to be handled still ends behind what was (`Ahead`), which
keeps the order; `Acked` carries it over to the acknowledgements. `NextSteps` shows for each
action that the invariant is kept and that the step is one of `Exchange`, or none.

*NowPlaying.* The three invariants and the ranges of the records are inductive together.
`ShownIs` writes what is shown as a function of the record of the client shown, and each
handler is a case of replacing that record by one that shows the same (`ClientRegistered`, `PlayerRegistered`), or
of announcing what it shows now.

*CompanionLinkManager.* What a call waits for is on a stream that is up (`Exchanging`):
whatever takes a stream down rejects its exchanges. `AskedMeans` ties `#disconnect` to the
history: as long as the end of the current session is not reported, it holds exactly if
that end was asked for, which gives `ReportedAsAsked` step by step. A closed session
stays closed because no action revives one. `HeartbeatFollowsSession` is inductive only
with `Orderly`: while calls do not overlap, a call under way is that of the current
session and waits for its stream, the exchanges run in a session that nobody asked to
end, and no heartbeat runs before the setup is over. So the heartbeat is set once per
session; and it is cleared when the session's end is noticed or asked for.

*AirPlayManager.* None of the checked invariants is inductive, because none says what the
setup has reached while it is under way. `Running` does: until the session has ended,
`step` determines which streams are observed (`Heard`), that these are connected, which
one is on its way, and what is registered; only the event stream may do anything while
the RECORD is pending. `Ended` takes over when `#disconnect` is set: nothing is left but
the stream that the setup, which does not look at `#disconnect` before opening it, may be
opening, and that one is gone when the setup has come to an end. `Opening` (what the
setup waits for is on its way) makes every teardown end or strand a setup that is
opening a stream, so none is left open behind it. Three lemmas carry the actions:
`EndKeeps` for `#endSession`, `FailKeeps` for a setup that throws, and `StreamGoes` for
what the streams do by themselves.

*AudioStream.* The invariant `Inv` has five parts, of which TLC checked the conjunction
before it was proved.
`Control` says where the caller and each stream can be at the same time (`Fits`), that the
targets are the streams that were set up, and that the loop begins only when all have been
prepared. `Supply` is about the source alone: the ring holds, from the read position on, the
last `available` frames written, in order (`Ordered`), and a reader waits only for frames
that are not there (`Waits`). It is kept whatever the streams do, and the rest uses it.
`Numbering` ties a packet's sequence number to the nonce, which never wraps: the next number
is `FirstSeq` plus the nonce, modulo `SeqLimit`, and the backlog *is* the sequence of the last `BacklogSize`
packets (`Newest`), which says more than that its keys are theirs; a number still in the
backlog is not given out again because the backlog is smaller than `SeqLimit`. `Playing`: what was padded was sent
as silence, and only when the source was over, which it stays. `Opened`: before the loop only targets are open; since then, only
while the caller, or the end of the stream itself, has yet to close them. For each
action there is one lemma (`…Effect`) on what it does to one stream, and the five parts cite
only those. The ring and the numbers rest on lemmas about `%` that the solver does not find:
a position that was reduced may be advanced and reduced again (`ModAdd`, `ModSubtract`),
and numbers less than the divisor apart have different remainders (`ModApart`), which is why
frames kept and frames written do not meet in the ring. The refinement follows from
`Ordered` alone: what the ring holds is always one row of consecutive frames (`HeldRow`), of
which a read cuts off the front (`ResolveTakes`) and which a write continues, to be cut to
its newest (`StoreAppends`); the steps of the streams are none of the queue's.

*Only model-checked.* Liveness (`ConnectSettles`, `DisconnectSettles`,
`RecoveryEnds`, `ExchangesSettle`, `SetupSettles`, `LossIsNoticed`, `AskedIsClosed`,
`MessagesArrive`, `StreamSettles`), which the proof system does not reach: each rests on
the fairness stated above.

## What the runs found

* `connection_hang`: `disconnect()` or `destroy()` between two attempts clears the
  timer whose closure is the only holder of the promise of `connect()`; the promise
  never settles, against `connection.ts:228-229` and `:311`. In the AirPlay manager
  the setup then hangs, and every later `connect()` joins it.
* `airplay_fresh`: an event stream that fails while the RECORD is pending is
  reconnected by its own retry, with the encryption counters of the lost one, and
  carried into a ready session, against `docs/plan-herstel-en-tekstinvoer.md:31`.
* `heartbeat_cleared`: `disconnect()` during the setup of the Companion Link manager.
  The setup goes on while the graceful stop is under way and starts a heartbeat that
  nothing clears any more, against the comment at `companion-link-manager.ts:151`.

Met while modelling, and in no run:

* After `'failed'` the attempt of a `ConnectionRecovery` stays at its maximum, against the
  comment on the getter (`recovery.ts:73`); without a `reset()` the next loss fails at
  once (`Fail` in the module).
* `AudioMultiplexer.stream()` says that all streams are closed on an error
  (`audioMultiplexer.ts:51-56`), but its `try` begins after `setup()` and `prepare()`. A
  receiver that fails there leaves the others with their sockets and, if they were
  faster, their synchronisation interval. `NothingLeftOpen` is about errors from the
  first packet on (`began`).
* `clear()` or a disconnect during the FLUSH of `prepare()` closes the stream, and the
  answer then starts the synchronisation interval (`Flushed`), which only another
  `close()` ends; one during the `connect()` of the data socket leaves `prepare()`
  waiting for ever. `NothingLeftOpen` leaves such histories out (`early`).
* `PtpMaster.stop()` between the two binds of `start()` closes nothing that is bound
  later, and `start()` then starts its timers on a master that was stopped
  (`common/src/timing/ptp/index.ts:150`).
* `abort()` of a `PairingSession` during `start()` marks it finished; the connection that
  `start()` goes on to open is never closed (`sdk/src/pairing/pairing-session.ts:35`).
* `Live.reset()` drops a waiting reader without settling it; nothing calls it.

## What is not modelled

* Codecs, cryptography, protobuf and message constructors: pure functions over
  bytes, tested against fixtures; nothing in them is concurrent.
* Discovery and storage: I/O with caches of no interest here.
* Devices and controllers of the SDK: they forward to the managers.
* The proxy and the diagnostics application: tools around the library.
* The RAOP client: the same shape as AirPlay audio.
* The event stream's request loop: the two buffers of the data stream, and a reply per
  request that keeps no state. Its life is in `AirPlayManager`.
* `playUrl` and `streamAudio` of the AirPlay manager: protocols of their own, which share
  nothing with the session but its timing server. Their races are among themselves:
  the protocol is stored only after pairing, so a `disconnect()` before that tears nothing
  down (`airplay-manager.ts:401`).
* Pairing sessions and the timing servers: a few awaits in a row, with the one race each
  described above; the rest of them is cryptography and clock arithmetic.
* A `connect()` called by a listener of the 'disconnected' that the AirPlay manager's own
  `connect()` emits for the former session, before it has marked a setup as under way
  (`airplay-manager.ts:198-210`): it would be a second setup beside the first.
* The initial fetch of the Companion Link state, which overwrites what was pushed while it
  was awaited (`companion-link-state.ts:184`): nothing says which value is to win.
* The keyboard, volume, output device and artwork handlers of `AirPlayState`: one
  assignment and one event each.
* Two behaviours the models do contain have no property, because nothing in the
  repository promises otherwise: a second `connect()` beside an armed retry, and an
  attempt that connects after its last timeout, whose socket nobody owns
  (`connection.ts:404`).

## Plan

Done, in this order: `Connection` and `ConnectionRecovery`; `Exchange` and `RtspClient`;
`AirPlayManager`; `CompanionStream`; `CompanionLinkManager`; `DataStream`, implementing
`Exchange`; `NowPlaying`; `LiveSource` with `AudioStream`, implementing
`LiveQueue`; and the proofs about all of them.

Next, where the most is to be gained:

1. `SideSessions`: the protocols of `playUrl` and `streamAudio` against `disconnect()`.
2. `ConnectionRecovery` composed with a session that connects, drops and is
   disconnected, as the diagnostics application wires them.
