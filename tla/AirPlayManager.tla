--------------------------- MODULE AirPlayManager ---------------------------
(***************************************************************************)
(* The AirPlay session of the SDK: sdk/src/internal/airplay-manager.ts,    *)
(* class AirPlayManager, with the parts of airplay/src/protocol.ts it      *)
(* drives.  A session is a fresh Protocol with three essential streams.    *)
(* connect() runs one asynchronous setup over them, and in the middle of   *)
(* it the caller may disconnect, a stream may be lost, or the device may   *)
(* drop the session.                                                       *)
(*                                                                         *)
(* The setup is a program counter, `step`: which await it is suspended in. *)
(* What runs between two awaits is one action.  connect() joins a setup    *)
(* that is under way, so there is never a second one; a listener of the    *)
(* 'disconnected' that connect() itself emits for the session before, and  *)
(* that calls connect() again, is left out.  Each stream is a              *)
(* Connection (module Connection), reduced to how far its socket has come  *)
(* and whether a retry is armed; an exchange on it is answered or fails    *)
(* (module RtspClient).                                                    *)
(***************************************************************************)
EXTENDS Naturals, Sequences

CONSTANTS
    MaxSessions,    \* bound: how often connect() starts a setup
    RetryAttempts   \* of each Connection

ASSUME BoundsAssumption == MaxSessions \in Nat \ {0} /\ RetryAttempts \in Nat \ {0}

VARIABLES
    protocol,       \* #protocol: the number of the session, 0 before the first
    step,           \* the await the setup is suspended in; "hung" for good
    life,           \* the streams of every session's Protocol; of 0, none
    retries,        \* #retryAttempt of the one Connection that may be retrying
    disconnect,     \* #disconnect
    ready,          \* #ready
    closeListeners, \* #closeListeners: the streams whose 'close' is observed
    prev,           \* whose streams #prevDataStream and #prevEventStream are; 0 if unset
    feedback,       \* #feedbackInterval is running
    nowPlaying,     \* how often onNowPlayingChanged is registered
    reported,       \* the 'disconnected' events of each session
    (* History variables, which no action reads.                            *)
    asked,          \* sessions ended by a call of disconnect() or connect()
    established,    \* sessions that emitted 'connected'
    reused          \* sessions with a stream reconnected under its old encryption state

flags == <<disconnect, ready, closeListeners, prev, feedback, nowPlaying, reported>>
history == <<asked, established, reused>>
vars == <<protocol, step, life, retries, flags, history>>

Sessions == 1..MaxSessions
Streams  == {"control", "data", "event"}

\* A "broken" socket has failed and has its 'close' to emit; a "dying" one was
\* destroyed and has; "waiting" is a Connection between two attempts.
Lives     == {"none", "opening", "waiting", "up", "broken", "dying", "closed"}
Connected == {"up", "broken", "dying"}

Connecting == [connect |-> "control", eventConnect |-> "event", dataConnect |-> "data"]
Requesting ==
    [info |-> "control", verify |-> "control", pairing |-> "control", transient |-> "control",
     eventSetup |-> "control", record |-> "control", dataSetup |-> "control", deviceInfo |-> "data"]
Steps == {"idle", "hung"} \union DOMAIN Connecting \union DOMAIN Requesting

\* The stream whose connect() or exchange() the setup is waiting for.
Opens(k) == step \in DOMAIN Connecting /\ Connecting[step] = k
Asks(k)  == step \in DOMAIN Requesting /\ Requesting[step] = k

streams == life[protocol]

Init ==
    /\ protocol = 0
    /\ step = "idle"
    /\ life = [p \in 0..MaxSessions |-> [k \in Streams |-> "none"]]
    /\ retries = 0
    /\ disconnect = TRUE
    /\ ready = FALSE
    /\ closeListeners = {}
    /\ prev = 0
    /\ feedback = FALSE
    /\ nowPlaying = 0
    /\ reported = [p \in Sessions |-> <<>>]
    /\ asked = {}
    /\ established = {}
    /\ reused = {}

-----------------------------------------------------------------------------
(* Teardown                                                                *)

\* Protocol.disconnect(): destroying a Connection cancels its retry.
Destroyed(s) ==
    [k \in Streams |-> CASE s[k] \in {"opening", "up", "broken"} -> "dying"
                         [] s[k] = "waiting" -> "closed"
                         [] OTHER -> s[k]]

\* Where that leaves the setup: destroy() rejects the promise of an attempt under
\* way, but loses the one that is waiting for its retry; a request fails later.
BugPromiseKept(s) ==
    IF \E k \in Streams : Opens(k) /\ s[k] = "waiting" THEN "hung" ELSE step

AfterDestroy(s) ==
    CASE \E k \in Streams : Opens(k) /\ s[k] = "opening" -> "idle"
      [] \E k \in Streams : Opens(k) /\ s[k] = "waiting" -> "hung"
      [] OTHER -> step

Unsubscribed == IF nowPlaying = 0 THEN 0 ELSE nowPlaying - 1

\* #endSession, past its guard, on streams s.
EndSession(unexpected, s) ==
    /\ disconnect' = TRUE
    /\ ready' = FALSE
    /\ closeListeners' = {}
    /\ prev' = 0
    /\ feedback' = FALSE
    /\ nowPlaying' = Unsubscribed
    /\ life' = [life EXCEPT ![protocol] = Destroyed(s)]
    /\ reported' = [reported EXCEPT ![protocol] = Append(@, unexpected)]

\* The setup throws: the catch blocks of #setup and #connect.
BugFailReportsTwice(s) ==
    /\ step' = "idle"
    /\ EndSession(FALSE, s)

Fail(s) ==
    /\ step' = "idle"
    /\ \/ ~disconnect /\ EndSession(FALSE, s)
       \/ disconnect /\ life' = [life EXCEPT ![protocol] = Destroyed(s)] /\ UNCHANGED flags

-----------------------------------------------------------------------------
(* connect() and disconnect()                                              *)

Start(ended) ==
    /\ step = "idle"
    /\ protocol < MaxSessions
    /\ protocol' = protocol + 1
    /\ step' = "connect"
    /\ retries' = 0
    /\ life' = [ended EXCEPT ![protocol + 1] = [@ EXCEPT !.control = "opening"]]
    /\ disconnect' = FALSE
    /\ ready' = FALSE
    /\ closeListeners' = {<<protocol + 1, "control">>}

Connect ==
    /\ disconnect
    /\ Start(life)
    /\ UNCHANGED <<prev, feedback, nowPlaying, reported, history>>

\* connect() on an established session ends that one first.
Reconnect ==
    /\ ~disconnect
    /\ Start([life EXCEPT ![protocol] = Destroyed(streams)])
    /\ prev' = 0
    /\ feedback' = FALSE
    /\ nowPlaying' = Unsubscribed
    /\ reported' = [reported EXCEPT ![protocol] = Append(@, FALSE)]
    /\ asked' = asked \union {protocol}
    /\ UNCHANGED <<established, reused>>

Disconnect ==
    /\ ~disconnect
    /\ EndSession(FALSE, streams)
    /\ step' = AfterDestroy(streams)
    /\ asked' = asked \union {protocol}
    /\ UNCHANGED <<protocol, retries, established, reused>>

-----------------------------------------------------------------------------
(* The setup.  An answer may have arrived before the stream was destroyed. *)

Answered(k) == Asks(k) /\ streams[k] \in {"up", "dying"}

\* The guards (assertCurrent, and those of #setup) find the session ended.  After
\* the event stream connects it is the RECORD that cannot be written, and after the
\* device info the data stream that is gone.
Interrupted ==
    /\ disconnect
    /\ \E k \in Streams : Answered(k)
    /\ step \notin {"eventSetup", "dataSetup"}
    /\ Fail(streams)
    /\ UNCHANGED <<protocol, retries, history>>

\* fetchInfo, verify.start, pairing.start and pairing.transient are answered;
\* the credentials decide which pairing it is.
NextRequest ==
    \/ step = "info"    /\ step' \in {"verify", "pairing"}
    \/ step = "pairing" /\ step' = "transient"

Paired ==
    /\ ~disconnect
    /\ Answered("control")
    /\ NextRequest
    /\ UNCHANGED <<protocol, life, retries, flags, history>>

\* The head of #setup.
SetupStarts ==
    /\ ~disconnect
    /\ Answered("control")
    /\ step \in {"verify", "transient"}
    /\ step' = "eventSetup"
    /\ nowPlaying' = Unsubscribed
    /\ UNCHANGED <<protocol, life, retries, disconnect, ready, closeListeners, prev,
                   feedback, reported, history>>

\* The SETUPs are answered: the stream is opened without another look at #disconnect.
StreamOpens(from, k, to) ==
    /\ step = from
    /\ Answered("control")
    /\ step' = to
    /\ life' = [life EXCEPT ![protocol][k] = "opening"]
    /\ retries' = 0
    /\ UNCHANGED <<protocol, flags, history>>

\* #observeClose, which throws if the stream is gone already.
Observes(k) == closeListeners' = closeListeners \union {<<protocol, k>>}

BugRecordUnobserved ==
    /\ ~disconnect
    /\ step = "record"
    /\ Answered("control")
    /\ IF streams.event \in Connected
       THEN step' = "dataSetup" /\ UNCHANGED <<life, flags>>
       ELSE Fail(streams)
    /\ UNCHANGED <<protocol, retries, history>>

Recorded ==
    /\ ~disconnect
    /\ step = "record"
    /\ Answered("control")
    /\ IF streams.event \in Connected
       THEN /\ step' = "dataSetup"
            /\ Observes("event")
            /\ UNCHANGED <<life, disconnect, ready, prev, feedback, nowPlaying, reported>>
       ELSE Fail(streams)
    /\ UNCHANGED <<protocol, retries, history>>

\* The rest of #setup and of #connect once the device info is answered.
Completed ==
    /\ ~disconnect
    /\ step = "deviceInfo"
    /\ Answered("data")
    /\ IF \A k \in Streams : streams[k] \in Connected
       THEN /\ step' = "idle"
            /\ ready' = TRUE
            /\ nowPlaying' = nowPlaying + 1
            /\ established' = established \union {protocol}
            /\ UNCHANGED <<life, disconnect, closeListeners, prev, feedback, reported>>
       ELSE Fail(streams) /\ UNCHANGED established
    /\ UNCHANGED <<protocol, retries, asked, reused>>

\* A response with an error status, or none within HTTP_TIMEOUT.
RequestFails ==
    /\ step \in DOMAIN Requesting
    /\ Fail(streams)
    /\ UNCHANGED <<protocol, retries, history>>

-----------------------------------------------------------------------------
(* The streams connect, retry, fail and close.                             *)

SocketConnects(k) ==
    /\ streams[k] = "opening"
    /\ retries' = 0

Up(k) == [streams EXCEPT ![k] = "up"]

ControlConnects ==
    /\ SocketConnects("control")
    /\ step' = "info"
    /\ life' = [life EXCEPT ![protocol] = Up("control")]
    /\ UNCHANGED <<protocol, flags, history>>

EventConnects ==
    /\ SocketConnects("event")
    /\ step = "eventConnect"
    /\ \/ ~disconnect /\ step' = "record" /\ life' = [life EXCEPT ![protocol] = Up("event")]
          /\ UNCHANGED flags
       \/ disconnect /\ Fail(Up("event"))
    /\ UNCHANGED <<protocol, history>>

\* The retry of an event stream that was lost while the RECORD was pending.
EventReconnects ==
    /\ SocketConnects("event")
    /\ step # "eventConnect"
    /\ life' = [life EXCEPT ![protocol] = Up("event")]
    /\ reused' = reused \union {protocol}
    /\ UNCHANGED <<protocol, step, flags, asked, established>>

BugDataUnguarded ==
    /\ SocketConnects("data")
    /\ step' = "deviceInfo"
    /\ life' = [life EXCEPT ![protocol] = Up("data")]
    /\ Observes("data")
    /\ prev' = protocol
    /\ feedback' = TRUE
    /\ UNCHANGED <<protocol, disconnect, ready, nowPlaying, reported, history>>

DataConnects ==
    /\ SocketConnects("data")
    /\ \/ /\ ~disconnect
          /\ step' = "deviceInfo"
          /\ life' = [life EXCEPT ![protocol] = Up("data")]
          /\ Observes("data")
          /\ prev' = protocol
          /\ feedback' = TRUE
          /\ UNCHANGED <<disconnect, ready, nowPlaying, reported>>
       \/ disconnect /\ Fail(Up("data"))
    /\ UNCHANGED <<protocol, history>>

\* #scheduleRetry, with a retry left.
BugRetriedOnceMore(p, k) ==
    /\ retries <= RetryAttempts
    /\ retries' = retries + 1
    /\ life' = [life EXCEPT ![p][k] = "waiting"]
    /\ UNCHANGED <<step, flags>>

RetryArmed(p, k) ==
    /\ retries < RetryAttempts
    /\ retries' = retries + 1
    /\ life' = [life EXCEPT ![p][k] = "waiting"]
    /\ UNCHANGED <<step, flags>>

AttemptFails(k) ==
    /\ streams[k] = "opening"
    /\ \/ RetryArmed(protocol, k)
       \/ /\ retries = RetryAttempts
          /\ UNCHANGED retries
          /\ LET gone == [streams EXCEPT ![k] = "dying"]
             IN IF Opens(k)
                THEN Fail(gone)
                ELSE life' = [life EXCEPT ![protocol] = gone] /\ UNCHANGED <<step, flags>>
    /\ UNCHANGED <<protocol, history>>

\* onTimeout destroys the control stream before its Connection can retry.
ControlTimesOut ==
    /\ step = "connect"
    /\ streams.control = "opening"
    /\ Fail(streams)
    /\ UNCHANGED <<protocol, retries, history>>

RetryFires(k) ==
    /\ streams[k] = "waiting"
    /\ life' = [life EXCEPT ![protocol][k] = "opening"]
    /\ UNCHANGED <<protocol, step, retries, flags, history>>

\* 'error' on an established stream: its exchanges fail; once the listeners are
\* bound, onStreamError destroys the control stream.
StreamErrors(k) ==
    /\ streams[k] = "up"
    /\ LET lost == [streams EXCEPT ![k] = "broken"]
       IN IF Asks(k)
          THEN Fail(lost)
          ELSE /\ life' = [life EXCEPT ![protocol] =
                             IF prev = protocol /\ k # "control"
                             THEN [lost EXCEPT !.control = "dying"] ELSE lost]
               /\ UNCHANGED <<step, flags>>
    /\ UNCHANGED <<protocol, retries, history>>

\* onConnectionState, and onStreamError for an error that leaves the socket open.
ControlDropped ==
    /\ prev = protocol
    /\ streams.control = "up"
    /\ life' = [life EXCEPT ![protocol].control = "dying"]
    /\ UNCHANGED <<protocol, step, retries, flags, history>>

\* 'close' with an observer: onClose, after the exchanges of the stream failed.
ObservedClose(p, k) ==
    /\ <<p, k>> \in closeListeners
    /\ p = protocol
    /\ EndSession(TRUE, [streams EXCEPT ![k] = "closed"])
    /\ step' = IF Asks(k) THEN "idle" ELSE AfterDestroy(streams)
    /\ UNCHANGED retries

\* Without one, a stream that failed is reconnected by its Connection.
UnobservedClose(p, k) ==
    /\ <<p, k>> \notin closeListeners
    /\ IF life[p][k] = "broken"
       THEN RetryArmed(p, k)
       ELSE /\ IF p = protocol /\ Asks(k)
               THEN Fail([streams EXCEPT ![k] = "closed"])
               ELSE life' = [life EXCEPT ![p][k] = "closed"] /\ UNCHANGED <<step, flags>>
            /\ UNCHANGED retries

BugCloseOnlyControl(p, k) ==
    /\ IF k = "control" /\ <<p, k>> \in closeListeners
       THEN ObservedClose(p, k)
       ELSE /\ life' = [life EXCEPT ![p][k] = "closed"]
            /\ UNCHANGED <<step, retries, flags>>
    /\ UNCHANGED <<protocol, history>>

Close(p, k) ==
    /\ ObservedClose(p, k) \/ UnobservedClose(p, k)
    /\ UNCHANGED <<protocol, history>>

StreamCloses(p, k) == life[p][k] \in {"broken", "dying"} /\ Close(p, k)
\* The peer's FIN, without an error.
PeerEnds(k) == streams[k] = "up" /\ Close(protocol, k)

-----------------------------------------------------------------------------
Answers == Interrupted \/ Paired \/ SetupStarts \/ Recorded \/ Completed
           \/ StreamOpens("eventSetup", "event", "eventConnect")
           \/ StreamOpens("dataSetup", "data", "dataConnect")

Connects == ControlConnects \/ EventConnects \/ EventReconnects \/ DataConnects

Next ==
    \/ Connect \/ Reconnect \/ Disconnect
    \/ Answers \/ RequestFails
    \/ Connects \/ ControlTimesOut \/ ControlDropped
    \/ \E k \in Streams : AttemptFails(k) \/ RetryFires(k) \/ StreamErrors(k) \/ PeerEnds(k)
    \/ \E p \in Sessions, k \in Streams : StreamCloses(p, k)

\* A request is answered or times out, an attempt connects or fails, a retry timer
\* fires and a socket that failed or was destroyed closes.  No caller has to call,
\* and no device has to drop or end anything.
Fairness ==
    /\ WF_vars(Answers \/ RequestFails)
    /\ WF_vars(Connects \/ \E k \in Streams : AttemptFails(k))
    /\ WF_vars(\E k \in Streams : RetryFires(k))
    /\ WF_vars(\E p \in Sessions, k \in Streams : StreamCloses(p, k))

Spec     == Init /\ [][Next]_vars
FairSpec == Spec /\ Fairness

-----------------------------------------------------------------------------
(* Properties                                                              *)

\* The types of the fields.
TypeOK ==
    /\ protocol \in 0..MaxSessions
    /\ step \in Steps
    /\ life \in [0..MaxSessions -> [Streams -> Lives]]
    /\ retries \in 0..RetryAttempts
    /\ disconnect \in BOOLEAN
    /\ ready \in BOOLEAN
    /\ closeListeners \subseteq Sessions \X Streams
    /\ prev \in 0..MaxSessions
    /\ feedback \in BOOLEAN
    /\ nowPlaying \in Nat
    /\ reported \in [Sessions -> Seq(BOOLEAN)]
    /\ asked \subseteq Sessions
    /\ established \subseteq Sessions
    /\ reused \subseteq Sessions

\* isConnected is honest: while a session is ready all three streams have been
\* connected and none has closed, each close is observed, and there is one feedback
\* timer and one now-playing listener, however many sessions came before.
ReadyIsWired ==
    ready =>
        /\ ~disconnect /\ step = "idle"
        /\ \A k \in Streams : streams[k] \in Connected
        /\ closeListeners = {protocol} \X Streams
        /\ prev = protocol /\ feedback /\ nowPlaying = 1

\* Teardown is complete: a session that was ended, deliberately, by a loss or by the
\* next connect(), leaves no stream, armed retry, listener or timer behind, whatever
\* the setup was doing at the time.
NothingLeftBehind ==
    /\ \A p \in 1..protocol, k \in Streams :
          p < protocol \/ (disconnect /\ step \in {"idle", "hung"})
              => life[p][k] \in {"none", "dying", "closed"}
    /\ disconnect => /\ closeListeners = {}
                     /\ prev = 0 /\ ~feedback /\ nowPlaying = 0

\* Every session ends with exactly one 'disconnected': unexpected only if nobody
\* asked, expected only if somebody asked or it was never established.
ReportedOnce ==
    \A p \in 1..protocol :
        IF p = protocol /\ ~disconnect
        THEN reported[p] = <<>>
        ELSE \/ reported[p] = <<TRUE>>  /\ p \notin asked
             \/ reported[p] = <<FALSE>> /\ (p \in asked \/ p \notin established)

\* connect() comes to an end, unless a teardown took the promise it was waiting for.
SetupSettles == step \notin {"idle", "hung"} ~> step \in {"idle", "hung"}

\* A session does not stay up in name only: once one of its streams is lost it is
\* reported disconnected.
LossIsNoticed ==
    \A p \in Sessions :
        (ready /\ protocol = p /\ \E k \in Streams : streams[k] # "up") ~> reported[p] # <<>>

\* "Do not reuse old encryption counters or session ports": a ready session has no
\* stream that its Connection reconnected under the counters of the lost one.
StreamsAreFresh == ready => protocol \notin reused

=============================================================================
