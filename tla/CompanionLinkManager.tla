------------------------ MODULE CompanionLinkManager ------------------------
(***************************************************************************)
(* The Companion Link session of the SDK:                                  *)
(* sdk/src/internal/companion-link-manager.ts, class CompanionLinkManager, *)
(* with connect() and disconnect() of companion-link/src/protocol.ts.      *)
(*                                                                         *)
(* Every connect() creates a Protocol with a stream of its own and makes   *)
(* it the current one.  Calls are not serialised: they go on after an      *)
(* await with whatever Protocol is current by then.  Call c created        *)
(* protocol c; step[c] is the await it is suspended in and on[c] the       *)
(* protocol whose stream it waits for.  Streams are Connections (module    *)
(* Connection) with exchanges (module CompanionStream), reduced to how far *)
(* they have come.                                                         *)
(***************************************************************************)
EXTENDS Naturals, Sequences

CONSTANTS
    MaxConnects,  \* bound: calls of connect()
    RetryAttempts \* of each Connection

ASSUME BoundsAssumption == MaxConnects \in Nat \ {0} /\ RetryAttempts \in Nat \ {0}

VARIABLES
    protocol,   \* #protocol, 0 before the first connect()
    disconnect, \* #disconnect
    heartbeat,  \* #heartbeatInterval: the call that set it, or 0
    intervals,  \* the heartbeats that are running
    step,       \* the await each call is suspended in, or what became of it
    on,         \* the protocol it waits for
    life,       \* how far the stream of each protocol has come
    retries,    \* #retryAttempt of its Connection
    stopping,   \* protocols in the middle of their gracefulStop()
    reported,   \* the 'disconnected' events while a protocol was current
    (* History variables, which no action reads.                            *)
    asked,      \* protocols that were current when disconnect() was called
    orderly     \* no connect() beside another or a heartbeat, no disconnect() amid exchanges

session == <<disconnect, heartbeat, intervals>>
calls   == <<step, on>>
streams == <<life, retries, stopping>>
history == <<asked, orderly>>
vars    == <<protocol, session, calls, streams, reported, history>>

Calls == 1..MaxConnects

\* "waiting" is a Connection between two attempts; a "broken" socket has failed and
\* a "dying" one was destroyed, with 'close' to come; "ending" and "cancelled" ones
\* were ended, by disconnect(), after and before they connected.
Lives == {"none", "opening", "waiting", "up", "broken", "dying", "ending", "cancelled", "closed"}

\* The exchanges of verify.start() and #setup, in order.
Verifying == {"verifyStart", "verifyFinish"}
Following == [verifyStart |-> "verifyFinish", verifyFinish |-> "systemInfo",
          systemInfo |-> "sessionStart", sessionStart |-> "tvrcSessionStart",
          tvrcSessionStart |-> "touchStart", touchStart |-> "tiStart", tiStart |-> "fetch"]
SettingUp == DOMAIN Following \ Verifying
Asking    == DOMAIN Following \union {"fetch"}
Over      == {"idle", "done", "failed", "hung"}

Init ==
    /\ protocol = 0
    /\ disconnect = FALSE
    /\ heartbeat = 0
    /\ intervals = {}
    /\ step = [c \in Calls |-> "idle"]
    /\ on = [c \in Calls |-> 0]
    /\ life = [p \in Calls |-> "none"]
    /\ retries = [p \in Calls |-> 0]
    /\ stopping = {}
    /\ reported = [p \in Calls |-> <<>>]
    /\ asked = {}
    /\ orderly = TRUE

-----------------------------------------------------------------------------
(* Helpers                                                                 *)

ClearHeartbeat ==
    /\ heartbeat' = 0
    /\ intervals' = intervals \ {heartbeat}
KeepHeartbeat == UNCHANGED <<heartbeat, intervals>>

Waiting(c, p) == step[c] \in Asking /\ on[c] = p

\* #setup clears the heartbeat when it throws.
SetupRejected(p) == \E c \in Calls : Waiting(c, p) /\ step[c] \in SettingUp
ClearRejected(p) == IF SetupRejected(p) THEN ClearHeartbeat ELSE KeepHeartbeat

\* The exchanges of p are rejected: verify.start() and #setup throw, and the initial
\* fetch goes on without an answer.
RejectExchanges(p) ==
    /\ step' = [c \in Calls |-> CASE ~Waiting(c, p)    -> step[c]
                                  [] step[c] = "fetch" -> "done"
                                  [] OTHER             -> "failed"]
    /\ UNCHANGED on

\* Call c sends its next request on protocol q, which throws unless its stream is up.
Sends(c, next, q, s) ==
    IF s[q] = "up"
    THEN /\ step' = [step EXCEPT ![c] = next]
         /\ on' = [on EXCEPT ![c] = q]
         /\ KeepHeartbeat
    ELSE /\ step' = [step EXCEPT ![c] = "failed"]
         /\ IF next \in SettingUp THEN ClearHeartbeat ELSE KeepHeartbeat
         /\ UNCHANGED on

\* Connection.disconnect() on the stream of p.  What is not connected yet is ended
\* all the same, a retry is cancelled together with the promise it was to settle, and
\* a socket that is gone loses its 'close'.
StreamStopped(p) ==
    [life EXCEPT ![p] = CASE @ = "up"      -> "ending"
                          [] @ = "opening" -> "cancelled"
                          [] @ \in {"waiting", "broken", "dying"} -> "closed"
                          [] OTHER -> @]

\* Stream.disconnect() on a stream that is not up, so has no exchanges to reject.
StopStream(p) ==
    /\ life' = StreamStopped(p)
    /\ step' = IF step[p] = "connect" /\ life[p] = "waiting"
               THEN [step EXCEPT ![p] = "hung"] ELSE step

-----------------------------------------------------------------------------
(* connect() and disconnect()                                              *)

BugConnectStaysDisconnected == UNCHANGED disconnect
ConnectWanted == disconnect' = FALSE

\* The listeners move from the old stream to the new one, so that p = protocol says
\* whose events the manager hears.
Connect ==
    /\ protocol < MaxConnects
    /\ protocol' = protocol + 1
    /\ ConnectWanted
    /\ step' = [step EXCEPT ![protocol'] = "connect"]
    /\ on' = [on EXCEPT ![protocol'] = protocol']
    /\ life' = [life EXCEPT ![protocol'] = "opening"]
    /\ orderly' = (orderly /\ intervals = {} /\ \A c \in Calls : step[c] \in Over)
    /\ KeepHeartbeat
    /\ UNCHANGED <<retries, stopping, reported, asked>>

\* Up to the first await in gracefulStop(); with no connection there is none, and the
\* stream is stopped.  Before the first connect() it throws.
Disconnect ==
    /\ protocol # 0
    /\ disconnect' = TRUE
    /\ ClearHeartbeat
    /\ \/ /\ life[protocol] = "up"
          /\ stopping' = stopping \union {protocol}
          /\ UNCHANGED <<life, step>>
       \/ /\ life[protocol] # "up"
          /\ StopStream(protocol)
          /\ UNCHANGED stopping
    /\ asked' = asked \union {protocol}
    /\ orderly' = (orderly /\ \A c \in Calls : step[c] \notin DOMAIN Following)
    /\ UNCHANGED <<protocol, on, retries, reported>>

\* gracefulStop() is done: its requests were answered or timed out.
BugStopsCurrent(p) == p \in stopping /\ life' = StreamStopped(protocol)
GracefulStopEnds(p) == p \in stopping /\ life' = StreamStopped(p)

Stops(p) ==
    /\ GracefulStopEnds(p)
    /\ stopping' = stopping \ {p}
    /\ RejectExchanges(p)
    /\ ClearRejected(p)
    /\ UNCHANGED <<protocol, disconnect, retries, reported, history>>

-----------------------------------------------------------------------------
(* The exchanges of connect()                                              *)

\* A request is answered, and the next one sent: by verify.start() on the stream it
\* was given, by #setup on the one that is current by now.  switchActiveUserAccount,
\* where it is configured, is one more of them.  Which of two pairing exchanges on one
\* stream gets an answer is the subject of CompanionStream; here it may be either.
Answered(c) ==
    /\ step[c] \in DOMAIN Following \ {"tiStart"}
    /\ life[on[c]] = "up"
    /\ Sends(c, Following[step[c]], IF step[c] = "verifyStart" THEN on[c] ELSE protocol, life)
    /\ UNCHANGED <<protocol, disconnect, streams, reported, history>>

\* The rest of #setup: heartbeat, state tracker and initial fetch.  The forwarding of
\* the tracker's events is left out.
SetUp(c) ==
    /\ step[c] = "tiStart"
    /\ life[on[c]] = "up"
    /\ heartbeat' = c
    /\ intervals' = intervals \union {c}
    /\ step' = [step EXCEPT ![c] = IF life[protocol] = "up" THEN "fetch" ELSE "done"]
    /\ on' = [on EXCEPT ![c] = protocol]
    /\ UNCHANGED <<protocol, disconnect, streams, reported, history>>

Fetched(c) ==
    /\ step[c] = "fetch"
    /\ life[on[c]] = "up"
    /\ step' = [step EXCEPT ![c] = "done"]
    /\ UNCHANGED <<protocol, session, on, streams, reported, history>>

\* One request times out, or its answer is an error.
\* (A bad frame, which rejects all and leaves the stream up, is this step for each.)
RequestFails(c) ==
    /\ step[c] \in DOMAIN Following
    /\ step' = [step EXCEPT ![c] = "failed"]
    /\ IF step[c] \in SettingUp THEN ClearHeartbeat ELSE KeepHeartbeat
    /\ UNCHANGED <<protocol, disconnect, on, streams, reported, history>>

-----------------------------------------------------------------------------
(* The streams connect, retry, fail and close.                             *)

\* A socket that was ended while connecting sends its FIN first thing, and takes no
\* requests; its connect() is resolved all the same.
StreamConnects(p) ==
    /\ life[p] \in {"opening", "cancelled"}
    /\ life' = [life EXCEPT ![p] = IF @ = "opening" THEN "up" ELSE "ending"]
    /\ retries' = [retries EXCEPT ![p] = 0]
    /\ IF step[p] = "connect"
       THEN Sends(p, "verifyStart", protocol, life')
       ELSE KeepHeartbeat /\ UNCHANGED calls
    /\ UNCHANGED <<protocol, disconnect, stopping, reported, history>>

BugAttemptThrowsNothing(p) == UNCHANGED step
ConnectThrows(p) == step' = IF step[p] = "connect" THEN [step EXCEPT ![p] = "failed"] ELSE step

\* #scheduleRetry, with a retry left.
BugRetriedOnceMore(p) ==
    /\ retries[p] <= RetryAttempts
    /\ retries' = [retries EXCEPT ![p] = @ + 1]
    /\ life' = [life EXCEPT ![p] = "waiting"]

RetryArmed(p) ==
    /\ retries[p] < RetryAttempts
    /\ retries' = [retries EXCEPT ![p] = @ + 1]
    /\ life' = [life EXCEPT ![p] = "waiting"]

\* The last timeout of a replaced stream destroys nothing: its socket may yet connect.
AttemptFails(p) ==
    /\ life[p] = "opening"
    /\ \/ RetryArmed(p) /\ UNCHANGED step
       \/ /\ retries[p] = RetryAttempts
          /\ life' = [life EXCEPT ![p] = "dying"] \/ (p # protocol /\ UNCHANGED life)
          /\ ConnectThrows(p)
          /\ UNCHANGED retries
    /\ UNCHANGED <<protocol, session, on, stopping, reported, history>>

\* onTimeout destroys the stream before its Connection can retry.  In a replaced
\* stream, a timeout is one more attempt that fails.
TimesOut ==
    /\ protocol # 0
    /\ life[protocol] \in {"opening", "cancelled"}
    /\ life' = [life EXCEPT ![protocol] = "dying"]
    /\ ConnectThrows(protocol)
    /\ UNCHANGED <<protocol, session, on, retries, stopping, reported, history>>

RetryFires(p) ==
    /\ life[p] = "waiting"
    /\ life' = [life EXCEPT ![p] = "opening"]
    /\ UNCHANGED <<protocol, session, calls, retries, stopping, reported, history>>

\* 'error' rejects the exchanges; those of a gracefulStop() end it, and the stream is
\* stopped before its 'close'.
StreamErrors(p) ==
    /\ life[p] = "up"
    /\ life' = [life EXCEPT ![p] = IF p \in stopping THEN "closed" ELSE "broken"]
    /\ stopping' = stopping \ {p}
    /\ RejectExchanges(p)
    /\ ClearRejected(p)
    /\ UNCHANGED <<protocol, disconnect, retries, reported, history>>

BugCloseKeepsHeartbeat(p) == ClearRejected(p)
CloseClears(p) ==
    IF (p = protocol /\ ~disconnect) \/ SetupRejected(p) THEN ClearHeartbeat ELSE KeepHeartbeat

BugCloseStopsNothing(p) ==
    /\ p = protocol
    /\ disconnect' = TRUE
    /\ IF life[p] = "broken"
       THEN RetryArmed(p)
       ELSE life' = [life EXCEPT ![p] = "closed"] /\ UNCHANGED retries
    /\ reported' = [reported EXCEPT ![p] = Append(@, ~disconnect)]

\* onClose(), on the current stream.  disconnectSafely() finds it closed and cancels
\* the retry its Connection arms after the event.
OnClose(p) ==
    /\ p = protocol
    /\ disconnect' = TRUE
    /\ life' = [life EXCEPT ![p] = "closed"]
    /\ reported' = [reported EXCEPT ![p] = Append(@, ~disconnect)]
    /\ UNCHANGED retries

\* A replaced stream that fails is reconnected by its Connection.
CloseUnheard(p) ==
    /\ p # protocol
    /\ IF life[p] = "broken"
       THEN RetryArmed(p)
       ELSE life' = [life EXCEPT ![p] = "closed"] /\ UNCHANGED retries
    /\ UNCHANGED <<disconnect, reported>>

\* The 'close' of a socket that failed, was destroyed or was ended.  The promise of a
\* connect() is lost if disconnect() ended the socket while it was connecting.
StreamCloses(p) ==
    /\ life[p] \in {"broken", "dying", "ending", "cancelled"}
    /\ OnClose(p) \/ CloseUnheard(p)
    /\ CloseClears(p)
    /\ step' = IF life[p] = "cancelled" /\ step[p] = "connect"
               THEN [step EXCEPT ![p] = "hung"] ELSE step
    /\ UNCHANGED <<protocol, on, stopping, history>>

\* The peer closes the connection without an error; the exchanges are rejected first.
PeerEnds(p) ==
    /\ life[p] = "up"
    /\ OnClose(p) \/ CloseUnheard(p)
    /\ CloseClears(p)
    /\ RejectExchanges(p)
    /\ stopping' = stopping \ {p}
    /\ UNCHANGED <<protocol, history>>

-----------------------------------------------------------------------------
Streaming(p) ==
    \/ StreamConnects(p) \/ AttemptFails(p) \/ RetryFires(p)
    \/ StreamErrors(p) \/ StreamCloses(p) \/ PeerEnds(p) \/ Stops(p)
Calling(c) == Answered(c) \/ SetUp(c) \/ Fetched(c) \/ RequestFails(c)

Next ==
    \/ Connect \/ Disconnect \/ TimesOut
    \/ \E c \in Calls : Calling(c) \/ Streaming(c)

\* Attempts end (SOCKET_TIMEOUT) and so do requests (the timeout of exchange());
\* timers and queued events run, the peer answers the FIN of an ended socket.
Fairness == \A p \in Calls :
    /\ WF_vars(Calling(p))
    /\ WF_vars(StreamConnects(p) \/ AttemptFails(p) \/ RetryFires(p))
    /\ WF_vars(StreamCloses(p))
    /\ WF_vars(Stops(p))

Spec     == Init /\ [][Next]_vars
FairSpec == Spec /\ Fairness

-----------------------------------------------------------------------------
(* Properties                                                              *)

\* The types of the fields of CompanionLinkManager.
TypeOK ==
    /\ protocol \in 0..MaxConnects
    /\ disconnect \in BOOLEAN
    /\ heartbeat \in 0..MaxConnects
    /\ intervals \subseteq Calls
    /\ step \in [Calls -> Over \union Asking \union {"connect"}]
    /\ on \in [Calls -> 0..MaxConnects]
    /\ life \in [Calls -> Lives]
    /\ retries \in [Calls -> 0..RetryAttempts]
    /\ stopping \subseteq Calls
    /\ reported \in [Calls -> Seq(BOOLEAN)]
    /\ asked \subseteq Calls
    /\ orderly \in BOOLEAN

\* A session is reported as ended at most once, and as unexpectedly exactly if nobody
\* had asked for its end, whatever calls overlap: onClose() reads #disconnect, which
\* connect(), disconnect() and onClose() itself write.
ReportedAsAsked ==
    [][\A p \in Calls : reported'[p] # reported[p] => reported'[p] = <<p \notin asked>>]_vars

\* Once a session is reported as ended its Connection is closed, and stays closed: the
\* retry that Connection.onClose() arms after the event does not bring it back.
EndedStaysClosed == \A p \in Calls : reported[p] # <<>> => life[p] = "closed"

\* While connect() is never called beside another call or a running heartbeat, nor
\* disconnect() amid the exchanges of one, the heartbeat that runs is the one the
\* manager can clear, of a session whose end has not been noticed or asked for.
HeartbeatFollowsSession ==
    orderly /\ intervals # {} =>
        /\ intervals = {heartbeat}
        /\ heartbeat = protocol
        /\ ~disconnect
        /\ life[protocol] \in {"up", "broken"}

\* disconnect() "clears heartbeat interval" (companion-link-manager.ts:151): none runs
\* in a session that was disconnected.
HeartbeatCleared == disconnect => intervals = {}

\* connect() settles, unless its session was disconnected meanwhile (module Connection,
\* EveryConnectSettles): no exchange or attempt keeps it waiting for good.
ConnectSettles == \A c \in Calls :
    step[c] \in Asking \union {"connect"} ~> step[c] \in {"done", "failed"} \/ c \in asked

\* A session that disconnect() was called for ends closed, though other connect()s may
\* have replaced it while its gracefulStop() was under way.
AskedIsClosed == \A p \in Calls : p \in asked ~> life[p] = "closed"
=============================================================================
