--------------------------- MODULE CompanionStream ---------------------------
(***************************************************************************)
(* Requests and responses of Companion Link: companion-link/src/stream.ts, *)
(* class Stream.  A request is numbered by xid and kept in a queue until   *)
(* its response, its timer or the end of the connection settles it.        *)
(* Pairing frames carry no number back: all pairing exchanges share one    *)
(* key of the queue, and a frame that matches no request is taken for the  *)
(* answer of the one that holds it.                                        *)
(*                                                                         *)
(* The queue, a Map, is the set of its <<key, request>> entries.  A frame  *)
(* is its number, its kind and the request the device answered with it;    *)
(* the device may answer in any order and push events under any number.    *)
(***************************************************************************)
EXTENDS Integers, FiniteSets

CONSTANTS
    Ordinary, \* calls of exchange() with an OPack frame
    Pairings, \* calls of exchange() with a pairing frame
    None,     \* no answer, or an answer to nobody
    MaxEvents \* bound: events under way at a time

ASSUME RequestsAssumption == Ordinary \intersect Pairings = {} /\ None \notin Ordinary \union Pairings
ASSUME EventsAssumption == MaxEvents \in Nat

VARIABLES
    link,      \* Connection: "up", "closing" (ended), "dying" (destroyed) or "down"
    inStep,    \* can the incoming bytes still be framed and decrypted?
    xid,       \* #xid, counted from the random number it starts with
    queue,     \* #queue
    timers,    \* the armed timers of exchange(), with the key they captured
    status,    \* what became of the promise of each exchange()
    device,    \* the requests of this connection the device has not answered
    frames,    \* the frames of this connection not yet handled
    (* History variables, which no action reads.                            *)
    got,       \* the request whose answer an exchange() was settled with
    replied,   \* the requests the device answered
    overtaken  \* pairing exchanges that were outstanding together

vars == <<link, inStep, xid, queue, timers, status, device, frames, got, replied, overtaken>>

Requests   == Ordinary \union Pairings
PairingKey == -1    \* PAIRING_QUEUE_IDENTIFIER
Pending(r) == status[r] = "pending"

Init ==
    /\ link = "down"
    /\ inStep = TRUE
    /\ xid = 0
    /\ queue = {}
    /\ timers = {}
    /\ status = [r \in Requests |-> "idle"]
    /\ device = {}
    /\ frames = {}
    /\ got = [r \in Requests |-> None]
    /\ replied = {}
    /\ overtaken = {}

-----------------------------------------------------------------------------
(* Helpers                                                                 *)

Without(map, key) == {e \in map : e[1] # key}
Values(map)       == {e[2] : e \in map}

\* resolve() and reject() do nothing on a settled promise.
Settled(S, how) == [r \in Requests |-> IF r \in S /\ status[r] \in {"idle", "pending"}
                                       THEN how ELSE status[r]]

\* The loop of #cleanup() and onStreamError().
RejectAll(map) ==
    /\ status' = Settled(Values(map), "failed")
    /\ queue' = {}
    /\ timers' = timers \ map

-----------------------------------------------------------------------------
(* exchange(): the entry and the timer, then sendOPack().                  *)

Key(r) == IF r \in Pairings THEN PairingKey ELSE xid

Overtakes(r) ==
    overtaken' = LET others == {p \in Pairings : Pending(p)}
                 IN IF r \in Pairings /\ others # {} THEN overtaken \union others \union {r}
                                                     ELSE overtaken

BugEnqueueUncounted(r) ==
    /\ status[r] = "idle"
    /\ queue' = Without(queue, Key(r)) \union {<<Key(r), r>>}
    /\ timers' = timers \union {<<Key(r), r>>}
    /\ Overtakes(r)
    /\ UNCHANGED xid

Enqueue(r) ==
    /\ status[r] = "idle"
    /\ queue' = Without(queue, Key(r)) \union {<<Key(r), r>>}
    /\ timers' = timers \union {<<Key(r), r>>}
    /\ xid' = xid + 1
    /\ Overtakes(r)

ExchangeWritten(r) ==
    /\ link = "up"
    /\ Enqueue(r)
    /\ status' = [status EXCEPT ![r] = "pending"]
    /\ device' = device \union {<<Key(r), r>>}
    /\ UNCHANGED <<link, inStep, frames, got, replied>>

\* write() finds no writable socket and emits 'error'.
ExchangeUnwritable(r) ==
    /\ status[r] = "idle"
    /\ link # "up"
    /\ xid' = xid + 1
    /\ RejectAll(Without(queue, Key(r)) \union {<<Key(r), r>>})
    /\ Overtakes(r)
    /\ UNCHANGED <<link, inStep, device, frames, got, replied>>

\* OPack cannot encode the message: the promise is rejected, the entry remains.
ExchangeUnencodable(r) ==
    /\ r \in Ordinary
    /\ Enqueue(r)
    /\ status' = [status EXCEPT ![r] = "failed"]
    /\ UNCHANGED <<link, inStep, device, frames, got, replied>>

\* The timer deletes whatever is under its key by now.
TimerFires(k, r) ==
    /\ <<k, r>> \in timers
    /\ timers' = timers \ {<<k, r>>}
    /\ queue' = Without(queue, k)
    /\ status' = Settled({r}, "failed")
    /\ UNCHANGED <<link, inStep, xid, device, frames, got, replied, overtaken>>

-----------------------------------------------------------------------------
(* onStreamData() and #handle()                                            *)

Receiving  == link \in {"up", "closing"}
Handles(f) == Receiving /\ inStep /\ f \in frames /\ frames' = frames \ {f}

BugMatchesEvents(f, e) == e[1] = f[1]
Matches(f, e) == f[2] = "response" /\ e[1] = f[1]

\* An entry is resolved with the frame, which clears its timer, and deleted.
BugTimerNotCleared(e, f) ==
    /\ status' = Settled({e[2]}, "answered")
    /\ got' = [got EXCEPT ![e[2]] = f[3]]
    /\ queue' = queue \ {e}
    /\ UNCHANGED timers

Resolve(e, f) ==
    /\ status' = Settled({e[2]}, "answered")
    /\ got' = [got EXCEPT ![e[2]] = IF Pending(e[2]) THEN f[3] ELSE @]
    /\ queue' = queue \ {e}
    /\ timers' = timers \ {e}

OnResponse(f, e) ==
    /\ Handles(f)
    /\ e \in queue
    /\ Matches(f, e)
    /\ Resolve(e, f)
    /\ UNCHANGED <<link, inStep, xid, device, replied, overtaken>>

Unmatched(f) == ~\E e \in queue : Matches(f, e)

\* Any frame that matches no request, a late response or an event included.
OnPairing(f, e) ==
    /\ Handles(f)
    /\ Unmatched(f)
    /\ e \in queue
    /\ e[1] = PairingKey
    /\ Resolve(e, f)
    /\ UNCHANGED <<link, inStep, xid, device, replied, overtaken>>

\* An event is emitted, any other frame logged.
OnUnsolicited(f) ==
    /\ Handles(f)
    /\ Unmatched(f)
    /\ \A e \in queue : e[1] # PairingKey
    /\ UNCHANGED <<link, inStep, xid, queue, timers, status, device, got, replied, overtaken>>

\* A frame cannot be decrypted or decoded, or a listener of its event throws: 'error'
\* on a connection that stays up.  So does an overflow of the buffer, after which the
\* stream starts in the middle of a frame.
OnBadFrame(f) ==
    /\ Handles(f)
    /\ RejectAll(queue)
    /\ UNCHANGED <<link, inStep, xid, device, got, replied, overtaken>>

OnOverflow ==
    /\ Receiving
    /\ frames # {}
    /\ frames' = {}
    /\ inStep' = FALSE
    /\ RejectAll(queue)
    /\ UNCHANGED <<link, xid, device, got, replied, overtaken>>

\* Out of step, what comes in waits for a frame that never ends, or is garbage.
OnGarbage ==
    /\ Receiving
    /\ ~inStep
    /\ frames # {}
    /\ frames' = {}
    /\ \/ UNCHANGED <<queue, timers, status>>
       \/ RejectAll(queue)
    /\ UNCHANGED <<link, inStep, xid, device, got, replied, overtaken>>

-----------------------------------------------------------------------------
(* The connection, and the device                                          *)

Cut(to) ==
    /\ link' = to
    /\ frames' = {}
    /\ device' = {}
    /\ UNCHANGED <<inStep, xid, got, replied, overtaken>>

OnStreamError == Receiving /\ Cut("dying") /\ RejectAll(queue)

OnStreamClose == link # "down" /\ Cut("down") /\ RejectAll(queue)

\* destroy(): no 'error', the 'close' is still to come.
Destroys == Receiving /\ Cut("dying") /\ UNCHANGED <<queue, timers, status>>

\* disconnect() drops the buffer, which may hold the head of a frame, or the garbage that
\* keeps the stream out of step.
Disconnect ==
    /\ RejectAll(queue)
    /\ link' = IF link = "up" THEN "closing" ELSE link
    /\ inStep' \in BOOLEAN
    /\ UNCHANGED <<xid, device, frames, got, replied, overtaken>>

\* The device's FIN.
PeerEnds ==
    /\ link = "up"
    /\ link' = "closing"
    /\ UNCHANGED <<inStep, xid, queue, timers, status, device, frames, got, replied, overtaken>>

\* connect(), or a retry of Connection, with the counters of the old connection.
Reconnects ==
    /\ link = "down"
    /\ link' = "up"
    /\ inStep' \in BOOLEAN
    /\ UNCHANGED <<xid, queue, timers, status, device, frames, got, replied, overtaken>>

DeviceReplies(e) ==
    /\ Receiving
    /\ e \in device
    /\ device' = device \ {e}
    /\ frames' = frames \union {<<e[1], IF e[2] \in Pairings THEN "pairing" ELSE "response", e[2]>>}
    /\ replied' = replied \union {e[2]}
    /\ UNCHANGED <<link, inStep, xid, queue, timers, status, got, overtaken>>

\* An event, under no number or one that is in use.
DevicePushes(x) ==
    /\ Receiving
    /\ Cardinality({f \in frames : f[2] = "event"}) < MaxEvents
    /\ frames' = frames \union {<<x, "event", None>>}
    /\ UNCHANGED <<link, inStep, xid, queue, timers, status, device, got, replied, overtaken>>

-----------------------------------------------------------------------------
Next ==
    \/ \E r \in Requests : ExchangeWritten(r)
    \/ \E r \in Requests : ExchangeUnwritable(r)
    \/ \E r \in Requests : ExchangeUnencodable(r)
    \/ \E e \in timers : TimerFires(e[1], e[2])
    \/ \E f \in frames, e \in queue : OnResponse(f, e)
    \/ \E f \in frames, e \in queue : OnPairing(f, e)
    \/ \E f \in frames : OnUnsolicited(f)
    \/ \E f \in frames : OnBadFrame(f)
    \/ OnOverflow \/ OnGarbage \/ OnStreamError \/ OnStreamClose
    \/ Destroys \/ Disconnect \/ PeerEnds \/ Reconnects
    \/ \E e \in device : DeviceReplies(e)
    \/ \E x \in {PairingKey} \union {e[1] : e \in queue} : DevicePushes(x)

Spec == Init /\ [][Next]_vars

-----------------------------------------------------------------------------
(* Properties                                                              *)

Keys == (0..xid-1) \union {PairingKey}

\* Keys are the pairing key or numbers given out, and the queue is a Map: no key
\* has two entries.
TypeOK ==
    /\ link \in {"up", "closing", "dying", "down"}
    /\ inStep \in BOOLEAN
    /\ xid \in Nat
    /\ queue \subseteq Keys \X Requests
    /\ \A e, f \in queue : e[1] = f[1] => e = f
    /\ timers \subseteq Keys \X Requests
    /\ status \in [Requests -> {"idle", "pending", "answered", "failed"}]
    /\ device \subseteq Keys \X Requests
    /\ frames \subseteq Keys \X {"response", "pairing", "event"} \X (Requests \union {None})
    /\ got \in [Requests -> Requests \union {None}]
    /\ replied \subseteq Requests
    /\ overtaken \subseteq Pairings

\* A request that is outstanding can still be answered: its entry is there, with a
\* timer of its own.  Timers delete by key, so one that outlived its pairing exchange
\* would take the next one's entry; only pairing exchanges that were outstanding
\* together do that to each other.  One of those may lose its entry, to the other or to
\* its timer, but never its own timer, which nothing but its settlement clears.
PendingIsHeld ==
    /\ queue \subseteq timers
    /\ \A r \in Requests : Pending(r) => r \in Values(timers)
    /\ \A r \in Requests : Pending(r) /\ r \notin overtaken => r \in Values(queue)

\* Once 'close' has been handled no request waits for an answer that cannot come.
NothingOutstandingWhenDown ==
    link = "down" => \A r \in Requests : Pending(r) => r \in overtaken

\* Requests get the response to themselves, never an event that reuses their number
\* and never a late response: for ordinary requests the stream implements Exchange.
Promise == INSTANCE Exchange WITH
    Requests <- Ordinary,
    status   <- [r \in Ordinary |-> status[r]],
    got      <- [r \in Ordinary |-> got[r]],
    replied  <- replied \intersect Ordinary
ImplementsExchange == Promise!Spec
=============================================================================
