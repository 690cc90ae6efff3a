-------------------------- MODULE CommonProofs --------------------------
(***************************************************************************)
(* Proofs about the two classes of packages/common: that Connection keeps  *)
(* its safety properties for every number of calls and every retry limit,  *)
(* and ConnectionRecovery for every limit on its attempts.                 *)
(*                                                                         *)
(* None of Connection's properties is inductive.  Inv adds what they rest  *)
(* on: that a retry timer excludes a socket and an attempt                 *)
(* (RetryWaitIsQuiet), that the listeners of disconnect() are only there   *)
(* once every pending call was given up (WaitersMeanAbandoned), that       *)
(* 'connect' settles the promise (ConnectedMeansSettled), and how far the  *)
(* retry counter lags behind the sockets opened (TriesCounted).            *)
(*                                                                         *)
(* Those of ConnectionRecovery rest on the generation: it is never behind  *)
(* a call in flight (FlightsAreKnown), so that reset() and dispose() move  *)
(* away from all of them, and an armed timer is always of the current one  *)
(* (TimerIsCurrent).                                                       *)
(*                                                                         *)
(* The two share no name, so that one module can speak of both; whatever   *)
(* one of the classes does leaves the state of the other alone.            *)
(***************************************************************************)
EXTENDS Connection, ConnectionRecovery, TLAPS

-----------------------------------------------------------------------------
(* Connection: the inductive invariant                                     *)

\* Once stopped, retries are off; before the first connect() nothing exists.
StoppedMeansOff ==
    /\ retryTimeout # None => wanted
    /\ retryEnabled => \/ wanted
                       \/ socket = "none" /\ state = "disconnected"

\* Between two attempts there is no socket, no promise and nobody waiting.
RetryWaitIsQuiet ==
    retryTimeout # None => /\ socket = "none"
                           /\ state = "disconnected"
                           /\ connectPromise = None

WaitersMeanAbandoned ==
    closeWaiters # {} => \A c \in Calls : Pending(c) => c \in abandoned

ConnectedMeansSettled == state = "connected" => connectPromise = None

TriesCounted ==
    /\ tries <= retryAttempt + 1
    /\ retryTimeout # None => tries <= retryAttempt

Inv ==
    /\ TypeOK
    /\ StoppedMeansOff
    /\ WaitersMeanAbandoned
    /\ ConnectedMeansSettled
    /\ disciplined => RetryWaitIsQuiet /\ TriesCounted
    /\ PendingIsOwned

-----------------------------------------------------------------------------

\* The invariant holds of a new Connection.
LEMMA InitInv == Init => Inv
  <1> SUFFICES ASSUME Init PROVE Inv
    OBVIOUS
  <1>1. TypeOK
    <2>1. calls \in [Calls -> Outcomes] /\ closers \in [Closers -> {"idle", "waiting",
    "done"}]
      BY DEF Init, Outcomes
    <2>2. retryAttempt \in 0..RetryAttempts /\ tries \in Nat
      BY RetryAssumption DEF Init
    <2> QED
      BY <2>1, <2>2 DEF Init, TypeOK, States, Sockets
  <1>2. \A c \in Calls : ~Pending(c)
    BY DEF Init, Pending
  <1>3. /\ StoppedMeansOff /\ WaitersMeanAbandoned /\ ConnectedMeansSettled
       /\ RetryWaitIsQuiet /\ PendingIsOwned
    BY <1>2 DEF Init, StoppedMeansOff, WaitersMeanAbandoned, ConnectedMeansSettled,
                RetryWaitIsQuiet, PendingIsOwned
  <1>4. TriesCounted
    BY DEF Init, TriesCounted
  <1> QED
    BY <1>1, <1>3, <1>4 DEF Inv

\* Every action keeps the types.
LEMMA TypeStep == TypeOK /\ [Next]_vars => TypeOK'
  <1> SUFFICES ASSUME TypeOK, [Next]_vars PROVE TypeOK'
    OBVIOUS
  <1> USE CallsAssumption, RetryAssumption
      DEF TypeOK, States, Sockets, Alive, Destroyed, Outcomes
  <1>1. ASSUME NEW c \in Calls, Connect(c) PROVE TypeOK'
    <2>1. CASE ConnectReturns(c) \/ ConnectThrows(c)
      BY <2>1 DEF ConnectReturns, ConnectThrows
    <2>2. CASE ConnectStarts(c)
      BY <2>2 DEF ConnectStarts, AttemptConnect, Quiet
    <2> QED
      BY <1>1, <2>1, <2>2 DEF Connect
  <1>2. ASSUME NEW d \in Closers, Disconnect(d) PROVE TypeOK'
    BY <1>2 DEF Disconnect, DisconnectIdle, DisconnectDead, DisconnectEnds, StopRetrying,
                Cleanup, Abandon, Pending
  <1>3. CASE DestroyConnection
    BY <1>3 DEF DestroyConnection, Settle, Destroy, Abandon, Pending
  <1>4. CASE OnConnect
    BY <1>4 DEF OnConnect, Settle
  <1>5. CASE OnEnd \/ SocketFails
    BY <1>5 DEF OnEnd, SocketFails
  <1>6. ASSUME NEW left \in Sockets, ScheduleRetry(left)
        PROVE  /\ state' \in States /\ socket' \in Sockets
               /\ retryAttempt' \in 0..RetryAttempts
               /\ retryTimeout' \in Calls \union {None, Noop}
               /\ connectPromise' \in Calls \union {None, Noop}
               /\ calls' \in [Calls -> Outcomes]
               /\ closeWaiters' \subseteq Closers
    BY <1>6 DEF ScheduleRetry, GiveUp, ArmRetry, Exhausted, Cleanup, Settle
  <1>7. CASE OnTimeout
    BY <1>6, <1>7 DEF OnTimeout
  <1>8. CASE OnError
    BY <1>6, <1>8 DEF OnError, OnErrorRetries, OnErrorReports
  <1>9. CASE OnClose
    BY <1>6, <1>9 DEF OnClose, OnCloseRetries, OnCloseFinishes, OnCloseReports, Cleanup
  <1>10. CASE RetryFires
    BY <1>10 DEF RetryFires, AttemptConnect
  <1>11. CASE OnTimeoutDestroyed
    BY <1>11 DEF OnTimeoutDestroyed, Settle, Abandon, Pending
  <1>12. CASE OnCloseReacts
    <2>1. ASSUME NEW d \in Closers, OnCloseStopped(d) PROVE TypeOK'
      BY <2>1 DEF OnCloseStopped, StopRetrying, Abandon, Pending
    <2>2. ASSUME NEW c \in Calls, OnCloseReconnects(c) PROVE TypeOK'
      <3>1. retryAttempt' \in 0..RetryAttempts /\ tries' \in Nat
        BY <2>2 DEF OnCloseReconnects
      <3>2. disciplined' \in BOOLEAN
        BY <2>2 DEF OnCloseReconnects
      <3> QED
        BY <2>2, <3>1, <3>2 DEF OnCloseReconnects, Cleanup
    <2> QED
      BY <1>12, <2>1, <2>2 DEF OnCloseReacts
  <1>13. CASE UNCHANGED vars
    BY <1>13 DEF vars
  <1> QED
    BY <1>1, <1>2, <1>3, <1>4, <1>5, <1>7, <1>8, <1>9, <1>10, <1>11, <1>12, <1>13 DEF Next

\* scheduleRetry on a socket that exists: the promise goes with the timer, or it
\* is rejected with the connection.
LEMMA RetryStep ==
  ASSUME Inv, socket # "none", NEW left \in Sockets, ScheduleRetry(left),
         UNCHANGED <<retryEnabled, wanted, tries, abandoned, disciplined>>
  PROVE  /\ StoppedMeansOff'
         /\ WaitersMeanAbandoned'
         /\ ConnectedMeansSettled'
         /\ (disciplined => RetryWaitIsQuiet /\ TriesCounted)'
         /\ PendingIsOwned'
  <1> USE CallsAssumption, RetryAssumption
      DEF Inv, TypeOK, StoppedMeansOff, WaitersMeanAbandoned, ConnectedMeansSettled,
          RetryWaitIsQuiet, TriesCounted, PendingIsOwned, Pending, Outcomes
  <1>1. CASE GiveUp /\ socket' = left
    BY <1>1 DEF GiveUp, Settle, Exhausted
  <1>2. CASE ArmRetry
    BY <1>2 DEF ArmRetry, Cleanup, Exhausted
  <1> QED
    BY <1>1, <1>2 DEF ScheduleRetry

\* Every handler keeps it: one step for each action.
LEMMA NextInv == Inv /\ [Next]_vars => Inv'
  <1> SUFFICES ASSUME Inv, [Next]_vars PROVE Inv'
    OBVIOUS
  <1>0. TypeOK'
    BY TypeStep DEF Inv
  <1> DEFINE Rest == /\ StoppedMeansOff
                     /\ WaitersMeanAbandoned
                     /\ ConnectedMeansSettled
                     /\ disciplined => RetryWaitIsQuiet /\ TriesCounted
                     /\ PendingIsOwned
  <1> SUFFICES Rest'
    BY <1>0 DEF Inv
  <1> USE CallsAssumption, RetryAssumption
  <1>1. ASSUME NEW c \in Calls, Connect(c) PROVE Rest'
    <2> USE DEF Inv, TypeOK, StoppedMeansOff, WaitersMeanAbandoned, ConnectedMeansSettled,
                RetryWaitIsQuiet, TriesCounted, PendingIsOwned, Pending, Outcomes
    <2>1. CASE ConnectReturns(c) \/ ConnectThrows(c)
      BY <2>1 DEF ConnectReturns, ConnectThrows
    <2>2. CASE ConnectStarts(c)
      <3>1. /\ state' = "connecting" /\ connectPromise' = c /\ closeWaiters' = {}
            /\ retryTimeout' = retryTimeout /\ wanted' = TRUE
            /\ tries' = 1 /\ retryAttempt' = 0 /\ abandoned' = abandoned
            /\ calls' = [calls EXCEPT ![c] = "pending"]
        BY <2>2 DEF ConnectStarts, AttemptConnect
      <3>2. disciplined' => Quiet
        BY <2>2 DEF ConnectStarts
      <3>3. StoppedMeansOff' /\ WaitersMeanAbandoned' /\ ConnectedMeansSettled'
        BY <3>1
      <3>4. disciplined' => retryTimeout' = None
        BY <3>1, <3>2 DEF Quiet
      <3>5. tries' <= retryAttempt' + 1
        BY <3>1
      <3>6. (disciplined => RetryWaitIsQuiet /\ TriesCounted)'
        BY <3>4, <3>5
      <3>7. PendingIsOwned'
        BY <3>1, <3>2 DEF Quiet
      <3> QED
        BY <3>3, <3>6, <3>7
    <2> QED
      BY <1>1, <2>1, <2>2 DEF Connect
  <1>2. ASSUME NEW d \in Closers, Disconnect(d) PROVE Rest'
    BY <1>2 DEF Disconnect, DisconnectIdle, DisconnectDead, DisconnectEnds, StopRetrying,
                Cleanup, Abandon, Inv, TypeOK, StoppedMeansOff, WaitersMeanAbandoned,
                ConnectedMeansSettled, RetryWaitIsQuiet, TriesCounted, PendingIsOwned,
                Pending, Outcomes
  <1>3. CASE DestroyConnection
    BY <1>3 DEF DestroyConnection, Settle, Abandon, Inv, TypeOK, StoppedMeansOff,
                WaitersMeanAbandoned, ConnectedMeansSettled, RetryWaitIsQuiet,
                TriesCounted, PendingIsOwned, Pending, Outcomes
  <1>4. CASE OnConnect
    BY <1>4 DEF OnConnect, Settle, Inv, TypeOK, StoppedMeansOff, WaitersMeanAbandoned,
                ConnectedMeansSettled, RetryWaitIsQuiet, TriesCounted, PendingIsOwned,
                Pending, Outcomes
  <1>5. CASE OnEnd \/ SocketFails
    BY <1>5 DEF OnEnd, SocketFails, Inv, TypeOK, StoppedMeansOff, WaitersMeanAbandoned,
                ConnectedMeansSettled, RetryWaitIsQuiet, TriesCounted, PendingIsOwned,
                Pending, Alive
  <1>6. CASE OnTimeout
    <2>1. CASE state = "connecting" /\ ScheduleRetry(socket)
      BY <1>6, <2>1, RetryStep DEF OnTimeout, Inv, TypeOK
    <2>2. CASE state = "closing"
      BY <1>6, <2>2 DEF OnTimeout, Inv, TypeOK, StoppedMeansOff, WaitersMeanAbandoned,
                        ConnectedMeansSettled, RetryWaitIsQuiet, TriesCounted,
                        PendingIsOwned, Pending
    <2> QED
      BY <1>6, <2>1, <2>2 DEF OnTimeout
  <1>7. CASE OnError
    <2>1. CASE OnErrorRetries
      BY <2>1, RetryStep DEF OnErrorRetries, Sockets, Destroyed
    <2>2. CASE OnErrorReports
      BY <2>2 DEF OnErrorReports, Inv, TypeOK, StoppedMeansOff, WaitersMeanAbandoned,
                  ConnectedMeansSettled, RetryWaitIsQuiet, TriesCounted, PendingIsOwned,
                  Pending
    <2> QED
      BY <1>7, <2>1, <2>2 DEF OnError
  <1>8. CASE OnClose
    <2>1. CASE OnCloseRetries
      BY <2>1, RetryStep DEF OnCloseRetries, Dropped, Sockets, Destroyed
    <2>2. CASE OnCloseFinishes
      BY <2>2 DEF OnCloseFinishes, Closes, Cleanup, Inv, TypeOK, StoppedMeansOff,
                  WaitersMeanAbandoned, ConnectedMeansSettled, RetryWaitIsQuiet,
                  TriesCounted, PendingIsOwned, Pending
    <2>3. CASE OnCloseReports
      BY <2>3 DEF OnCloseReports, Closes, Inv, TypeOK, StoppedMeansOff,
                  WaitersMeanAbandoned, ConnectedMeansSettled, RetryWaitIsQuiet,
                  TriesCounted, PendingIsOwned, Pending
    <2> QED
      BY <1>8, <2>1, <2>2, <2>3 DEF OnClose
  <1>9. CASE RetryFires
    BY <1>9 DEF RetryFires, AttemptConnect, Inv, TypeOK, StoppedMeansOff,
                WaitersMeanAbandoned, ConnectedMeansSettled, RetryWaitIsQuiet,
                TriesCounted, PendingIsOwned, Pending
  <1>10. CASE OnTimeoutDestroyed
    BY <1>10 DEF OnTimeoutDestroyed, Settle, Abandon, Inv, TypeOK, StoppedMeansOff,
                 WaitersMeanAbandoned, ConnectedMeansSettled, RetryWaitIsQuiet,
                 TriesCounted, PendingIsOwned, Pending, Outcomes
  <1>11. CASE OnCloseReacts
    <2>1. ASSUME NEW d \in Closers, OnCloseStopped(d) PROVE Rest'
      BY <2>1 DEF OnCloseStopped, StopRetrying, Dropped, Abandon, Inv, TypeOK,
                  StoppedMeansOff, WaitersMeanAbandoned, ConnectedMeansSettled,
                  RetryWaitIsQuiet, TriesCounted, PendingIsOwned, Pending
    <2>2. ASSUME NEW c \in Calls, OnCloseReconnects(c) PROVE Rest'
      BY <2>2 DEF OnCloseReconnects, Dropped, Cleanup, Inv, TypeOK, StoppedMeansOff,
                  WaitersMeanAbandoned, ConnectedMeansSettled, RetryWaitIsQuiet,
                  TriesCounted, PendingIsOwned, Pending, Outcomes
    <2> QED
      BY <1>11, <2>1, <2>2 DEF OnCloseReacts
  <1>12. CASE UNCHANGED vars
    BY <1>12 DEF vars, Inv, StoppedMeansOff, WaitersMeanAbandoned, ConnectedMeansSettled,
                 RetryWaitIsQuiet, TriesCounted, PendingIsOwned, Pending
  <1> QED
    BY <1>1, <1>2, <1>3, <1>4, <1>5, <1>6, <1>7, <1>8, <1>9, <1>10, <1>11, <1>12 DEF Next

-----------------------------------------------------------------------------

\* Inv is an invariant of connection.ts, whatever callers and network do.
THEOREM Invariance == Spec => []Inv
  BY InitInv, NextInv, PTL DEF Spec

\* The fields of Connection keep their types; the retry counter stays in range.
THEOREM TypeCorrect == Spec => []TypeOK
  BY Invariance, PTL DEF Inv

\* After disconnect() or destroy() no retry timer and no retryable attempt is left.
THEOREM StopsForGood == Spec => []RetryOnlyWhileWanted
  <1>1. Inv => RetryOnlyWhileWanted
    BY DEF Inv, StoppedMeansOff, RetryOnlyWhileWanted
  <1> QED
    BY <1>1, Invariance, PTL

\* A pending connect() is always held by the attempt under way or by the timer.
THEOREM NoLostConnect == Spec => []PendingIsOwned
  BY Invariance, PTL DEF Inv

\* One connect() opens at most #retryAttempts sockets beyond the first.
THEOREM BoundedRetries == Spec => []RetryBudget
  <1>1. Inv => RetryBudget
    BY RetryAssumption DEF Inv, TypeOK, TriesCounted, RetryBudget
  <1> QED
    BY <1>1, Invariance, PTL

\* No step replaces a live socket behind the back of its listeners.
THEOREM LiveSocketSafe == Spec => LiveSocketKept
  <1> DEFINE Keeps == disciplined' /\ state = "connected" /\ socket = "open"
                        => socket' # "opening"
  <1>1. Inv /\ [Next]_vars => [Keeps]_vars
    <2> SUFFICES ASSUME Inv, Next, disciplined', state = "connected", socket = "open"
                 PROVE  socket' # "opening"
      BY DEF vars
    <2> USE DEF Inv, RetryWaitIsQuiet, Alive, Destroyed
    <2>1. ASSUME NEW c \in Calls, Connect(c) PROVE socket' # "opening"
      BY <2>1 DEF Connect, ConnectReturns, ConnectThrows, ConnectStarts
    <2>2. ASSUME NEW d \in Closers, Disconnect(d) PROVE socket' # "opening"
      BY <2>2 DEF Disconnect, DisconnectIdle, DisconnectDead, DisconnectEnds, Cleanup
    <2>3. CASE DestroyConnection
      BY <2>3 DEF DestroyConnection, Destroy
    <2>4. CASE OnConnect \/ OnEnd \/ SocketFails \/ OnTimeout
      BY <2>4 DEF OnConnect, OnEnd, SocketFails, OnTimeout
    <2>5. CASE OnError \/ OnClose
      BY <2>5 DEF OnError, OnErrorRetries, OnErrorReports, OnClose, OnCloseRetries,
                  OnCloseFinishes, OnCloseReports, Dropped, Closes, Cleanup
    <2>6. CASE RetryFires
      BY <2>6 DEF RetryFires
    <2>7. CASE OnTimeoutDestroyed \/ OnCloseReacts
      BY <2>7 DEF OnTimeoutDestroyed, OnCloseReacts, OnCloseStopped, OnCloseReconnects,
                  Dropped
    <2> QED
      BY <2>1, <2>2, <2>3, <2>4, <2>5, <2>6, <2>7 DEF Next
  <1> QED
    BY <1>1, Invariance, PTL DEF Spec, LiveSocketKept

-----------------------------------------------------------------------------
(* ConnectionRecovery: the inductive invariant                             *)

\* reset() and dispose() pass every generation with a call in flight.
FlightsAreKnown == \A g \in retryFlights : g <= generation

\* reset() and dispose() clear the timer, so an armed one is of this generation.
TimerIsCurrent == recoveryTimeout # NoTimer => recoveryTimeout = generation

DisposedIsOff == disposed => ~isRecovering

AttemptsCounted == isRecovering => attempt > 0

\* The two halves of TypeOK.
Numbers ==
    /\ attempt \in 0..MaxAttempts
    /\ errors \in Nat
    /\ recoveryTimeout \in Generations \union {NoTimer}
    /\ generation \in Generations
    /\ retryFlights \in SUBSET Generations

Flags ==
    /\ isRecovering \in BOOLEAN
    /\ isScheduledReconnecting \in BOOLEAN
    /\ reconnectInterval \in BOOLEAN
    /\ disposed \in BOOLEAN
    /\ scheduledFlight \in BOOLEAN

\* TypeOK is the two together.
LEMMA TypeParts == RecoveryTypeOK <=> Numbers /\ Flags
  BY DEF RecoveryTypeOK, Numbers, Flags

RecoveryInv ==
    /\ RecoveryTypeOK
    /\ FlightsAreKnown
    /\ TimerIsCurrent
    /\ DisposedIsOff
    /\ AttemptsCounted
    /\ RecoveryHasOneDriver
    /\ ErrorsMatchAttempts

-----------------------------------------------------------------------------

\* The invariant holds of a new ConnectionRecovery.
LEMMA RecoveryInitInv == RecoveryInit => RecoveryInv
  <1> SUFFICES ASSUME RecoveryInit PROVE RecoveryInv
    OBVIOUS
  <1>1. Flags
    BY IntervalAssumption DEF RecoveryInit, Flags
  <1>2. Numbers
    BY AttemptsAssumption, GenerationAssumption DEF RecoveryInit, Numbers, Generations
  <1>3. RecoveryHasOneDriver /\ ErrorsMatchAttempts
    BY DEF RecoveryInit, RecoveryHasOneDriver, ErrorsMatchAttempts
  <1> QED
    BY <1>1, <1>2, <1>3, TypeParts
       DEF RecoveryInit, RecoveryInv, FlightsAreKnown, TimerIsCurrent, DisposedIsOff,
           AttemptsCounted

\* Every flag is set to a constant, to hasInterval, or left alone.
LEMMA FlagsStep == Flags /\ [RecoveryNext]_recoveryVars => Flags'
  BY IntervalAssumption
     DEF RecoveryNext, HandleDisconnect, Reset, Dispose, RecoveryFires, RetrySucceeds,
         RetryFails, RetryIgnored, IntervalFires, ScheduledEnds, Recover, Fail, Schedule,
         recoveryVars, Flags

\* #recover, called with nothing driving a recovery and one error for each attempt,
\* ends the recovery or arms the timer of its next attempt.
LEMMA RecoverStep ==
  ASSUME RecoveryInv, ~disposed, recoveryTimeout = NoTimer,
         NEW errs \in Nat, errs = attempt,
         Recover(errs), generation \notin retryFlights',
         FlightsAreKnown', retryFlights' \in SUBSET Generations,
         reconnectInterval' \in BOOLEAN,
         UNCHANGED <<isScheduledReconnecting, disposed, generation, scheduledFlight>>
  PROVE  RecoveryInv'
  <1> USE AttemptsAssumption, GenerationAssumption DEF RecoveryInv, RecoveryTypeOK, Generations
  <1>1. CASE Fail(errs)
    <2>1. RecoveryTypeOK'
      BY <1>1 DEF Fail
    <2> QED
      BY <1>1, <2>1 DEF Fail, TimerIsCurrent, DisposedIsOff, AttemptsCounted,
                        RecoveryHasOneDriver, ErrorsMatchAttempts
  <1>2. CASE Schedule(errs)
    <2>1. RecoveryTypeOK'
      BY <1>2 DEF Schedule
    <2> QED
      BY <1>2, <2>1 DEF Schedule, TimerIsCurrent, DisposedIsOff, AttemptsCounted,
                        RecoveryHasOneDriver, ErrorsMatchAttempts
  <1> QED
    BY <1>1, <1>2 DEF Recover

\* Every method, timer and late result keeps it.
LEMMA RecoveryNextInv == RecoveryInv /\ [RecoveryNext]_recoveryVars => RecoveryInv'
  <1> SUFFICES ASSUME RecoveryInv, [RecoveryNext]_recoveryVars PROVE RecoveryInv'
    OBVIOUS
  <1> USE AttemptsAssumption, GenerationAssumption
  <1>0. Numbers /\ Flags'
    BY FlagsStep, TypeParts DEF RecoveryInv
  <1>1. CASE HandleDisconnect
    <2>1. CASE isRecovering
      BY <1>1, <2>1 DEF HandleDisconnect, RecoveryInv, RecoveryTypeOK, FlightsAreKnown,
                        TimerIsCurrent, DisposedIsOff, AttemptsCounted,
                        RecoveryHasOneDriver, ErrorsMatchAttempts
    <2>2. CASE ~isRecovering
      <3>1. /\ errors \in Nat
            /\ errors = attempt
            /\ recoveryTimeout = NoTimer
            /\ generation \notin retryFlights
        BY <1>1, <2>2 DEF HandleDisconnect, RecoveryInv, RecoveryTypeOK,
                          RecoveryHasOneDriver, ErrorsMatchAttempts
      <3>2. FlightsAreKnown' /\ retryFlights' \in SUBSET Generations
        BY <1>1 DEF HandleDisconnect, RecoveryInv, RecoveryTypeOK, FlightsAreKnown
      <3> QED
        BY <1>1, <2>2, <3>1, <3>2, RecoverStep DEF HandleDisconnect
    <2> QED
      BY <2>1, <2>2
  <1>2. CASE Reset
    <2>1. generation' \notin retryFlights /\ FlightsAreKnown'
      BY <1>2 DEF Reset, RecoveryInv, RecoveryTypeOK, Generations, FlightsAreKnown
    <2>2. Numbers'
      BY <1>0, <1>2 DEF Reset, Numbers, Generations
    <2>3. RecoveryTypeOK'
      BY <1>0, <2>2 DEF RecoveryTypeOK, Numbers, Flags
    <2> QED
      BY <1>2, <2>1, <2>3 DEF Reset, RecoveryInv, RecoveryTypeOK, TimerIsCurrent,
                              DisposedIsOff, AttemptsCounted, RecoveryHasOneDriver,
                              ErrorsMatchAttempts
  <1>3. CASE Dispose
    <2>1. generation' \notin retryFlights /\ FlightsAreKnown'
      BY <1>3 DEF Dispose, RecoveryInv, RecoveryTypeOK, Generations, FlightsAreKnown
    <2>2. Numbers'
      BY <1>0, <1>3 DEF Dispose, Numbers, Generations
    <2>3. RecoveryTypeOK'
      BY <1>0, <2>2 DEF RecoveryTypeOK, Numbers, Flags
    <2> QED
      BY <1>3, <2>1, <2>3 DEF Dispose, RecoveryInv, RecoveryTypeOK, TimerIsCurrent,
                              DisposedIsOff, AttemptsCounted, RecoveryHasOneDriver,
                              ErrorsMatchAttempts
  <1>4. CASE RecoveryFires
    <2>1. recoveryTimeout = generation /\ isRecovering /\ ~disposed
      BY <1>4 DEF RecoveryFires, Current, RecoveryInv, TimerIsCurrent, RecoveryHasOneDriver
    <2> QED
      BY <1>4, <2>1 DEF RecoveryFires, RecoveryInv, RecoveryTypeOK, Generations,
                        FlightsAreKnown, TimerIsCurrent, DisposedIsOff, AttemptsCounted,
                        RecoveryHasOneDriver, ErrorsMatchAttempts
  <1>5. ASSUME NEW g \in Generations, RetrySucceeds(g) PROVE RecoveryInv'
    <2>1. g = generation /\ recoveryTimeout = NoTimer /\ generation \notin retryFlights'
      BY <1>5 DEF RetrySucceeds, Current, RecoveryInv, RecoveryHasOneDriver
    <2>2. Numbers'
      BY <1>0, <1>5 DEF RetrySucceeds, Numbers, Generations
    <2>3. RecoveryTypeOK'
      BY <1>0, <2>2 DEF RecoveryTypeOK, Numbers, Flags
    <2> QED
      BY <1>5, <2>1, <2>3 DEF RetrySucceeds, RecoveryInv, RecoveryTypeOK, FlightsAreKnown,
                              TimerIsCurrent, DisposedIsOff, AttemptsCounted,
                              RecoveryHasOneDriver, ErrorsMatchAttempts
  <1>6. ASSUME NEW g \in Generations, RetryFails(g) PROVE RecoveryInv'
    <2>1. g = generation /\ ~disposed /\ recoveryTimeout = NoTimer /\ isRecovering
      BY <1>6 DEF RetryFails, Current, RecoveryInv, RecoveryHasOneDriver
    <2>2. /\ generation \notin retryFlights'
          /\ FlightsAreKnown'
          /\ retryFlights' \in SUBSET Generations
          /\ reconnectInterval' \in BOOLEAN
      BY <1>6, <2>1 DEF RetryFails, RecoveryInv, RecoveryTypeOK, FlightsAreKnown
    <2>3. errors + 1 \in Nat /\ errors + 1 = attempt
      BY <2>1 DEF RecoveryInv, RecoveryTypeOK, AttemptsCounted, ErrorsMatchAttempts
    <2> QED
      BY <1>6, <2>1, <2>2, <2>3, RecoverStep DEF RetryFails
  <1>7. ASSUME NEW g \in Generations, RetryIgnored(g) PROVE RecoveryInv'
    <2>1. isRecovering /\ recoveryTimeout = NoTimer => g # generation
      BY <1>7 DEF RetryIgnored, Current, RecoveryInv, DisposedIsOff
    <2>2. generation \in retryFlights <=> generation \in retryFlights'
      BY <1>7, <2>1 DEF RetryIgnored, Current, RecoveryInv, DisposedIsOff,
                        RecoveryHasOneDriver
    <2> QED
      BY <1>7, <2>2 DEF RetryIgnored, RecoveryInv, RecoveryTypeOK, Generations,
                        FlightsAreKnown, TimerIsCurrent, DisposedIsOff, AttemptsCounted,
                        RecoveryHasOneDriver, ErrorsMatchAttempts
  <1>8. CASE IntervalFires \/ ScheduledEnds \/ UNCHANGED recoveryVars
    <2>1. UNCHANGED <<attempt, errors, isRecovering, recoveryTimeout, disposed, generation,
                      retryFlights>>
      BY <1>8 DEF IntervalFires, ScheduledEnds, recoveryVars
    <2>2. RecoveryTypeOK'
      BY <1>0, <2>1 DEF RecoveryTypeOK, Numbers, Flags
    <2> QED
      BY <2>1, <2>2 DEF RecoveryInv, FlightsAreKnown, TimerIsCurrent, DisposedIsOff,
                        AttemptsCounted, RecoveryHasOneDriver, ErrorsMatchAttempts
  <1> QED
    BY <1>1, <1>2, <1>3, <1>4, <1>5, <1>6, <1>7, <1>8 DEF RecoveryNext

\* The inductive invariant holds for every limit on the attempts.
THEOREM RecoveryInvariance == RecoverySpec => []RecoveryInv
  BY RecoveryInitInv, RecoveryNextInv, PTL DEF RecoverySpec

-----------------------------------------------------------------------------
(* ConnectionRecovery: the checked properties                              *)

\* Type correctness; in particular #attempt never passes maxAttempts.
THEOREM RecoveryTypeCorrect == RecoverySpec => []RecoveryTypeOK
  <1>1. RecoveryInv => RecoveryTypeOK
    BY DEF RecoveryInv
  <1> QED
    BY <1>1, RecoveryInvariance, PTL

\* isRecovering means exactly one timer or one onReconnect() call of this
\* generation, however reset(), dispose() and disconnects are mixed in.
THEOREM OneDriver == RecoverySpec => []RecoveryHasOneDriver
  <1>1. RecoveryInv => RecoveryHasOneDriver
    BY DEF RecoveryInv
  <1> QED
    BY <1>1, RecoveryInvariance, PTL

\* The errors of 'failed' are one for each attempt of this recovery.
THEOREM OwnErrors == RecoverySpec => []ErrorsMatchAttempts
  <1>1. RecoveryInv => ErrorsMatchAttempts
    BY DEF RecoveryInv
  <1> QED
    BY <1>1, RecoveryInvariance, PTL

\* dispose() is final: no step starts an onReconnect() call or a recovery after it.
THEOREM DisposedForGood == RecoverySpec => DisposedStartsNothing
  <1>1. RecoveryInv /\ [RecoveryNext]_recoveryVars =>
          [disposed => /\ retryFlights' \subseteq retryFlights
                       /\ scheduledFlight' => scheduledFlight
                       /\ ~isRecovering']_recoveryVars
    <2> SUFFICES ASSUME RecoveryInv, [RecoveryNext]_recoveryVars, disposed
                 PROVE  /\ retryFlights' \subseteq retryFlights
                        /\ scheduledFlight' => scheduledFlight
                        /\ ~isRecovering'
      OBVIOUS
    <2>1. ~isRecovering
      BY DEF RecoveryInv, DisposedIsOff
    <2>2. ASSUME NEW g \in Generations, RetrySucceeds(g) \/ RetryFails(g) PROVE FALSE
      BY <2>2 DEF RetrySucceeds, RetryFails, Current
    <2>3. CASE HandleDisconnect \/ Reset \/ Dispose \/ UNCHANGED recoveryVars
      <3>1. UNCHANGED <<retryFlights, scheduledFlight>>
        BY <2>3 DEF HandleDisconnect, Reset, Dispose, recoveryVars
      <3>2. ~HandleDisconnect
        BY DEF HandleDisconnect
      <3>3. UNCHANGED recoveryVars => UNCHANGED isRecovering
        BY DEF recoveryVars
      <3>4. ~isRecovering'
        BY <2>1, <2>3, <3>2, <3>3 DEF Reset, Dispose
      <3> QED
        BY <3>1, <3>4
    <2>4. CASE RecoveryFires \/ IntervalFires \/ ScheduledEnds
      BY <2>1, <2>4 DEF RecoveryFires, Current, IntervalFires, ScheduledEnds
    <2>5. ASSUME NEW g \in Generations, RetryIgnored(g)
          PROVE  /\ retryFlights' \subseteq retryFlights
                 /\ scheduledFlight' => scheduledFlight
                 /\ ~isRecovering'
      BY <2>1, <2>5 DEF RetryIgnored
    <2> QED
      BY <2>2, <2>3, <2>4, <2>5 DEF RecoveryNext
  <1> QED
    BY <1>1, RecoveryInvariance, PTL DEF RecoverySpec, DisposedStartsNothing
=============================================================================
