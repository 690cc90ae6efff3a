----------------------------- MODULE Connection -----------------------------
(***************************************************************************)
(* The TCP connection wrapper every protocol of the repository is built    *)
(* on: common/src/connection.ts, class Connection.  A Connection owns at   *)
(* most one socket, retries a failed attempt after a timer, and settles    *)
(* the promise of connect() when the socket connects or the retries run    *)
(* out.                                                                    *)
(*                                                                         *)
(* The handlers below are the methods of the class, one action per path    *)
(* through a method.  The socket is Node's net.Socket: an error destroys   *)
(* it, 'error' is emitted on a later tick and 'close' on a still later     *)
(* one, and API calls may run between those ticks.  A promise created for  *)
(* a retry is only ever awaited by the timer callback that forwards its    *)
(* outcome to the promise it captured, so connectPromise and retryTimeout  *)
(* hold the connect() call whose promise is settled in the end.            *)
(***************************************************************************)
EXTENDS Naturals, FiniteSets

CONSTANTS
    Calls,          \* invocations of connect()
    Closers,        \* invocations of disconnect()
    RetryAttempts,  \* #retryAttempts
    None,           \* undefined
    Noop            \* NOOP_PROMISE_HANDLER

ASSUME CallsAssumption == None \notin Calls /\ Noop \notin Calls /\ None # Noop
\* Three by default; nothing in the repository calls retry() to change it.
ASSUME RetryAssumption == RetryAttempts \in Nat \ {0}

VARIABLES
    state,          \* #state
    socket,         \* #socket, as far as its life has come
    retryEnabled,   \* #retryEnabled
    retryAttempt,   \* #retryAttempt
    retryTimeout,   \* #retryTimeout: None, or whose handlers the armed timer captured
    connectPromise, \* #connectPromise: None, or whose promise it settles
    calls,          \* what became of each connect()
    closers,        \* what became of each disconnect()
    closeWaiters,   \* disconnect() calls listening for 'close' on the current socket
    (* History variables, which no action reads.                            *)
    wanted,         \* the last connect(), disconnect() or destroy() asked for a connection
    tries,          \* sockets opened since connect() or the last 'connect' event
    abandoned,      \* calls that were pending when disconnect() or destroy() ran
    disciplined     \* no caller has started something while another was under way

vars == <<state, socket, retryEnabled, retryAttempt, retryTimeout, connectPromise,
          calls, closers, closeWaiters, wanted, tries, abandoned, disciplined>>

States == {"disconnected", "connecting", "connected", "closing", "failed"}

\* "opening" and "open" as in readyState; the "ended" ones have sent or seen a
\* FIN; an "errored" socket has an 'error' event to emit, a "broken" one emitted
\* it and has a 'close' with hadError to emit, a "destroyed" one a plain 'close'.
Destroyed == {"errored", "broken", "destroyed", "closed"}
Alive     == {"opening", "endedOpening", "open", "ended"}
Sockets   == {"none"} \union Alive \union Destroyed

Pending(c) == calls[c] = "pending"

Init ==
    /\ state = "disconnected"
    /\ socket = "none"
    /\ retryEnabled = TRUE
    /\ retryAttempt = 0
    /\ retryTimeout = None
    /\ connectPromise = None
    /\ calls = [c \in Calls |-> "idle"]
    /\ closers = [d \in Closers |-> "idle"]
    /\ closeWaiters = {}
    /\ wanted = FALSE
    /\ tries = 0
    /\ abandoned = {}
    /\ disciplined = TRUE

-----------------------------------------------------------------------------
(* Helpers shared by the methods.                                          *)

Settle(how) ==
    calls' = IF connectPromise \in Calls
             THEN [calls EXCEPT ![connectPromise] = how]
             ELSE calls

Destroy(s) == IF s \in Alive THEN "destroyed" ELSE s

\* #attemptConnect: a fresh socket, whose predecessor loses all its listeners.
AttemptConnect(promise) ==
    /\ state' = "connecting"
    /\ connectPromise' = promise
    /\ socket' = "opening"
    /\ closeWaiters' = {}

\* #cleanup, but for the timer.
Cleanup ==
    /\ socket' = "none"
    /\ closeWaiters' = {}
    /\ state' = "disconnected"
    /\ connectPromise' = None

BugExhaustedLate == ~retryEnabled \/ retryAttempt > RetryAttempts
Exhausted == ~retryEnabled \/ retryAttempt >= RetryAttempts

\* #scheduleRetry, when no retry is left: the socket keeps its listeners.
BugGiveUpSilently ==
    /\ Exhausted
    /\ state' = "failed"
    /\ connectPromise' = None
    /\ UNCHANGED <<retryAttempt, retryTimeout, closeWaiters, calls>>

GiveUp ==
    /\ Exhausted
    /\ state' = "failed"
    /\ Settle("rejected")
    /\ connectPromise' = None
    /\ UNCHANGED <<retryAttempt, retryTimeout, closeWaiters>>

\* #scheduleRetry, when one is: the timer captures the handlers of the promise.
BugArmKeepsSocket ==
    /\ ~Exhausted
    /\ retryAttempt' = retryAttempt + 1
    /\ retryTimeout' = IF connectPromise = None THEN Noop ELSE connectPromise
    /\ UNCHANGED <<calls, socket, closeWaiters, state, connectPromise>>

ArmRetry ==
    /\ ~Exhausted
    /\ retryAttempt' = retryAttempt + 1
    /\ retryTimeout' = IF connectPromise = None THEN Noop ELSE connectPromise
    /\ Cleanup
    /\ UNCHANGED calls

\* #scheduleRetry; a socket that is not retried stays what the event left it.
ScheduleRetry(left) == (GiveUp /\ socket' = left) \/ ArmRetry

-----------------------------------------------------------------------------
(* connect(), destroy() and disconnect()                                   *)

\* Nothing of an earlier session is left when connect() starts a new one: so it
\* is for the protocols of the repository, which connect a Connection once.
Quiet ==
    /\ retryTimeout = None
    /\ socket \in {"none", "closed"}
    /\ closeWaiters = {}
    /\ \A c \in Calls : Pending(c) => c \in abandoned

ConnectReturns(c) ==
    /\ calls[c] = "idle"
    /\ state = "connected"
    /\ calls' = [calls EXCEPT ![c] = "resolved"]
    /\ UNCHANGED <<state, socket, retryEnabled, retryAttempt, retryTimeout,
                   connectPromise, closers, closeWaiters, wanted, tries, abandoned,
                   disciplined>>

ConnectThrows(c) ==
    /\ calls[c] = "idle"
    /\ state = "connecting"
    /\ calls' = [calls EXCEPT ![c] = "rejected"]
    /\ UNCHANGED <<state, socket, retryEnabled, retryAttempt, retryTimeout,
                   connectPromise, closers, closeWaiters, wanted, tries, abandoned,
                   disciplined>>

ConnectStarts(c) ==
    /\ calls[c] = "idle"
    /\ state \notin {"connected", "connecting"}
    /\ retryEnabled' = TRUE
    /\ retryAttempt' = 0
    /\ AttemptConnect(c)
    /\ calls' = [calls EXCEPT ![c] = "pending"]
    /\ wanted' = TRUE
    /\ tries' = 1
    /\ disciplined' = (disciplined /\ Quiet)
    /\ UNCHANGED <<retryTimeout, closers, abandoned>>

Abandon == abandoned' = abandoned \union {c \in Calls : Pending(c)}

DestroyConnection ==
    /\ retryEnabled' = FALSE
    /\ retryTimeout' = None
    /\ Settle("rejected")
    /\ connectPromise' = None
    /\ socket' = Destroy(socket)
    /\ wanted' = FALSE
    /\ Abandon
    /\ UNCHANGED <<state, retryAttempt, closers, closeWaiters, tries, disciplined>>

\* The head of disconnect(), which every path shares.
BugStopKeepsTimer(d) ==
    /\ closers[d] = "idle"
    /\ retryEnabled' = FALSE
    /\ wanted' = FALSE
    /\ Abandon
    /\ disciplined' = (disciplined /\ closeWaiters = {})
    /\ UNCHANGED <<retryAttempt, retryTimeout, calls, tries>>

StopRetrying(d) ==
    /\ closers[d] = "idle"
    /\ retryTimeout' = None
    /\ retryEnabled' = FALSE
    /\ wanted' = FALSE
    /\ Abandon
    /\ disciplined' = (disciplined /\ closeWaiters = {})
    /\ UNCHANGED <<retryAttempt, calls, tries>>

DisconnectIdle(d) ==
    /\ StopRetrying(d)
    /\ socket = "none" \/ state = "disconnected"
    /\ closers' = [closers EXCEPT ![d] = "done"]
    /\ UNCHANGED <<state, socket, connectPromise, closeWaiters>>

DisconnectDead(d) ==
    /\ StopRetrying(d)
    /\ state # "disconnected"
    /\ socket \in Destroyed
    /\ Cleanup
    /\ closers' = [closers EXCEPT ![d] = "done"]

DisconnectEnds(d) ==
    /\ StopRetrying(d)
    /\ state # "disconnected"
    /\ socket \in Alive
    /\ state' = "closing"
    /\ closers' = [closers EXCEPT ![d] = "waiting"]
    /\ closeWaiters' = closeWaiters \union {d}
    /\ socket' = IF socket \in {"opening", "endedOpening"} THEN "endedOpening" ELSE "ended"
    /\ UNCHANGED connectPromise

-----------------------------------------------------------------------------
(* Socket events and the retry timer                                       *)

OnConnect ==
    /\ socket \in {"opening", "endedOpening"}
    /\ socket' = IF socket = "opening" THEN "open" ELSE "ended"
    /\ state' = "connected"
    /\ retryAttempt' = 0
    /\ Settle("resolved")
    /\ connectPromise' = None
    /\ tries' = 0
    /\ UNCHANGED <<retryEnabled, retryTimeout, closers, closeWaiters, wanted, abandoned, disciplined>>

\* The peer's FIN: allowHalfOpen is off, so the socket ends its side too.
OnEnd ==
    /\ socket = "open"
    /\ socket' = "ended"
    /\ UNCHANGED <<state, retryEnabled, retryAttempt, retryTimeout, connectPromise,
                   calls, closers, closeWaiters, wanted, tries, abandoned, disciplined>>

\* The network fails: the socket destroys itself, its events are still queued.
SocketFails ==
    /\ socket \in Alive
    /\ socket' = "errored"
    /\ UNCHANGED <<state, retryEnabled, retryAttempt, retryTimeout, connectPromise,
                   calls, closers, closeWaiters, wanted, tries, abandoned, disciplined>>

OnErrorRetries ==
    /\ socket = "errored"
    /\ state = "connecting"
    /\ ScheduleRetry("broken")
    /\ UNCHANGED <<retryEnabled, closers, wanted, tries, abandoned, disciplined>>

OnErrorReports ==
    /\ socket = "errored"
    /\ state # "connecting"
    /\ socket' = "broken"
    /\ UNCHANGED <<state, retryEnabled, retryAttempt, retryTimeout, connectPromise,
                   calls, closers, closeWaiters, wanted, tries, abandoned, disciplined>>

\* The idle timer set in #attemptConnect, cleared by onConnect; it fires once.
OnTimeout ==
    /\ socket \in {"opening", "endedOpening"}
    /\ \/ /\ state = "connecting"
          /\ ScheduleRetry(socket)
       \/ /\ state = "closing"
          /\ state' = "failed"
          /\ socket' = "destroyed"
          /\ UNCHANGED <<retryAttempt, retryTimeout, connectPromise, calls, closeWaiters>>
    /\ UNCHANGED <<retryEnabled, closers, wanted, tries, abandoned, disciplined>>

\* A 'timeout' listener destroys the connection, as the AirPlay manager's does:
\* the handler then finds the retries disabled and gives up.
OnTimeoutDestroyed ==
    /\ socket = "opening"
    /\ state = "connecting"
    /\ retryEnabled' = FALSE
    /\ retryTimeout' = None
    /\ Settle("rejected")
    /\ connectPromise' = None
    /\ socket' = "destroyed"
    /\ state' = "failed"
    /\ wanted' = FALSE
    /\ Abandon
    /\ UNCHANGED <<retryAttempt, closers, closeWaiters, tries, disciplined>>

Closes == socket \in {"broken", "destroyed", "ended"}
Dropped == state = "connected" /\ retryEnabled /\ socket = "broken"

\* onClose, on an established connection that died of an error.
OnCloseRetries ==
    /\ Dropped
    /\ ScheduleRetry("closed")
    /\ UNCHANGED <<retryEnabled, closers, wanted, tries, abandoned, disciplined>>

\* A 'close' listener calls disconnect(), as the AirPlay manager's does: the state
\* is already disconnected, so only the retries are switched off, just in time.
OnCloseStopped(d) ==
    /\ Dropped
    /\ StopRetrying(d)
    /\ closers' = [closers EXCEPT ![d] = "done"]
    /\ state' = "disconnected"
    /\ socket' = "closed"
    /\ UNCHANGED <<connectPromise, closeWaiters>>

\* A 'close' listener calls connect(): onClose then schedules a retry on top of
\* the attempt just started, which takes over its promise and drops its socket.
OnCloseReconnects(c) ==
    /\ Dropped
    /\ calls[c] = "idle"
    /\ calls' = [calls EXCEPT ![c] = "pending"]
    /\ retryAttempt' = 1
    /\ retryTimeout' = c
    /\ Cleanup
    /\ wanted' = TRUE
    /\ tries' = 1
    /\ disciplined' = (disciplined /\ closeWaiters = {})
    /\ UNCHANGED <<retryEnabled, closers, abandoned>>

\* onClose, then the once('close') listeners of disconnect().
BugFinishUnresolved ==
    /\ Closes
    /\ ~Dropped
    /\ closeWaiters # {}
    /\ retryTimeout' = None
    /\ Cleanup
    /\ UNCHANGED <<retryEnabled, retryAttempt, calls, closers, wanted, tries, abandoned, disciplined>>

OnCloseFinishes ==
    /\ Closes
    /\ ~Dropped
    /\ closeWaiters # {}
    /\ retryTimeout' = None
    /\ Cleanup
    /\ closers' = [d \in Closers |-> IF d \in closeWaiters THEN "done" ELSE closers[d]]
    /\ UNCHANGED <<retryEnabled, retryAttempt, calls, wanted, tries, abandoned, disciplined>>

OnCloseReports ==
    /\ Closes
    /\ ~Dropped
    /\ closeWaiters = {}
    /\ socket' = "closed"
    /\ state' = IF state = "closing" THEN state ELSE "disconnected"
    /\ UNCHANGED <<retryEnabled, retryAttempt, retryTimeout, connectPromise,
                   calls, closers, closeWaiters, wanted, tries, abandoned, disciplined>>

RetryFires ==
    /\ retryTimeout # None
    /\ retryTimeout' = None
    /\ AttemptConnect(retryTimeout)
    /\ tries' = tries + 1
    /\ UNCHANGED <<retryEnabled, retryAttempt, calls, closers, wanted, abandoned, disciplined>>

-----------------------------------------------------------------------------
Connect(c)    == ConnectReturns(c) \/ ConnectThrows(c) \/ ConnectStarts(c)
Disconnect(d) == DisconnectIdle(d) \/ DisconnectDead(d) \/ DisconnectEnds(d)
OnError       == OnErrorRetries \/ OnErrorReports
OnClose       == OnCloseRetries \/ OnCloseFinishes \/ OnCloseReports
OnCloseReacts == \/ \E d \in Closers : OnCloseStopped(d)
                 \/ \E c \in Calls : OnCloseReconnects(c)

Next ==
    \/ \E c \in Calls : Connect(c)
    \/ \E d \in Closers : Disconnect(d)
    \/ DestroyConnection
    \/ OnConnect \/ OnEnd \/ SocketFails \/ OnTimeout \/ OnTimeoutDestroyed
    \/ OnCloseReacts
    \/ OnError \/ OnClose \/ RetryFires

AttemptEnds == socket \in {"opening", "endedOpening"} /\ (OnConnect \/ SocketFails \/ OnTimeout)

\* What comes by itself: an attempt connects, fails or times out (SOCKET_TIMEOUT);
\* an ended socket is closed by the peer or by keep-alive; queued events and
\* timers run.  Nobody has to call the API, and an open socket may stay open.
Fairness ==
    /\ WF_vars(AttemptEnds)
    /\ WF_vars(OnError)
    /\ WF_vars(OnClose)
    /\ WF_vars(RetryFires)

Spec     == Init /\ [][Next]_vars
FairSpec == Spec /\ Fairness

-----------------------------------------------------------------------------
(* Properties                                                              *)

Outcomes == {"idle", "pending", "resolved", "rejected"}

\* The types of the fields of Connection.
TypeOK ==
    /\ state \in States
    /\ socket \in Sockets
    /\ retryEnabled \in BOOLEAN
    /\ retryAttempt \in 0..RetryAttempts
    /\ retryTimeout \in Calls \union {None, Noop}
    /\ connectPromise \in Calls \union {None, Noop}
    /\ calls \in [Calls -> Outcomes]
    /\ closers \in [Closers -> {"idle", "waiting", "done"}]
    /\ closeWaiters \subseteq Closers
    /\ wanted \in BOOLEAN
    /\ tries \in Nat
    /\ abandoned \subseteq Calls
    /\ disciplined \in BOOLEAN

\* disconnect() and destroy() stop the connection for good: no retry timer is
\* armed, and no socket is being opened that could be retried, once the caller
\* asked for neither.  The timer callback checks nothing, so every path that
\* stops must have cleared it.
RetryOnlyWhileWanted ==
    retryTimeout # None \/ (retryEnabled /\ state = "connecting") => wanted

\* A call to connect() that nobody gave up on is still in somebody's hands: the
\* attempt under way settles it, or the armed timer does.  Every hand-over
\* between #connectPromise and the captured handlers keeps it so, unless callers
\* start a second connection on top of the first.
PendingIsOwned ==
    disciplined => \A c \in Calls : Pending(c) /\ c \notin abandoned
                                        => c \in {connectPromise, retryTimeout}

\* The retry budget: one connect(), or one drop of an established connection,
\* opens at most #retryAttempts sockets beyond the first.
RetryBudget == disciplined => tries <= RetryAttempts + 1

\* A live connection is not replaced under its users: attemptConnect takes the
\* listeners off the old socket, so they would never hear of its end.
LiveSocketKept ==
    [][disciplined' /\ state = "connected" /\ socket = "open" => socket' # "opening"]_vars

\* connect() settles, whatever the network does, unless the caller gives it up.
ConnectSettles ==
    \A c \in Calls : Pending(c) ~> (~Pending(c) \/ c \in abandoned \/ ~disciplined)

\* disconnect() resolves: the 'close' it waits for comes, on the socket it ended.
DisconnectSettles ==
    \A d \in Closers : closers[d] = "waiting" ~> (closers[d] = "done" \/ ~disciplined)

-----------------------------------------------------------------------------
(* What the comments of connection.ts say, and the code does not do        *)

\* "The returned promise resolves on successful connect or rejects after all
\* retries are exhausted": also when disconnect() or destroy() intervenes.
EveryConnectSettles == \A c \in Calls : Pending(c) ~> ~Pending(c)
=============================================================================
