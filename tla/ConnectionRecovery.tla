------------------------- MODULE ConnectionRecovery -------------------------
(***************************************************************************)
(* Session recovery after an unexpected disconnect: common/src/recovery.ts *)
(* class ConnectionRecovery.  A recovery waits on a timer, awaits the      *)
(* onReconnect callback and, when it fails, tries again until maxAttempts. *)
(* An optional interval calls onReconnect on its own.                      *)
(*                                                                         *)
(* onReconnect is awaited: reset(), dispose() and further disconnects run  *)
(* while a call is in flight, and the call's outcome arrives later.  The   *)
(* generation tells which outcomes still count.                            *)
(***************************************************************************)
EXTENDS Naturals

CONSTANTS
    MaxAttempts,   \* maxAttempts
    HasInterval,   \* reconnectInterval > 0
    MaxGeneration, \* bound: reset() and dispose() stop counting here
    NoTimer        \* undefined, of the retry timer

ASSUME AttemptsAssumption == MaxAttempts \in Nat
ASSUME IntervalAssumption == HasInterval \in BOOLEAN
ASSUME GenerationAssumption == MaxGeneration \in Nat /\ NoTimer \notin Nat

VARIABLES
    attempt,                 \* #attempt
    errors,                  \* how many #errors were collected
    isRecovering,            \* #isRecovering
    isScheduledReconnecting, \* #isScheduledReconnecting
    recoveryTimeout,         \* #retryTimeout: NoTimer, or the generation of its callback
    reconnectInterval,       \* is #reconnectInterval set?
    disposed,                \* #disposed
    generation,              \* #generation
    retryFlights,            \* the generations of the onReconnect() calls of #recover in flight
    scheduledFlight          \* is an onReconnect() call of the interval in flight?

recoveryVars ==
    <<attempt, errors, isRecovering, isScheduledReconnecting, recoveryTimeout,
      reconnectInterval, disposed, generation, retryFlights, scheduledFlight>>

RecoveryInit ==
    /\ attempt = 0
    /\ errors = 0
    /\ isRecovering = FALSE
    /\ isScheduledReconnecting = FALSE
    /\ recoveryTimeout = NoTimer
    /\ reconnectInterval = HasInterval
    /\ disposed = FALSE
    /\ generation = 0
    /\ retryFlights = {}
    /\ scheduledFlight = FALSE

-----------------------------------------------------------------------------
(* #recover, called with errs errors and no recovery under way.            *)

Fail(errs) ==
    /\ attempt >= MaxAttempts
    /\ isRecovering' = FALSE
    /\ errors' = errs
    /\ UNCHANGED <<attempt, recoveryTimeout>>

Schedule(errs) ==
    /\ attempt < MaxAttempts
    /\ isRecovering' = TRUE
    /\ attempt' = attempt + 1
    /\ errors' = errs
    /\ recoveryTimeout' = generation

BugRecoverLate(errs) ==
    \/ attempt > MaxAttempts /\ isRecovering' = FALSE /\ errors' = errs
         /\ UNCHANGED <<attempt, recoveryTimeout>>
    \/ attempt <= MaxAttempts /\ isRecovering' = TRUE /\ attempt' = attempt + 1
         /\ errors' = errs /\ recoveryTimeout' = generation

Recover(errs) == Fail(errs) \/ Schedule(errs)

-----------------------------------------------------------------------------
(* The public methods.  handleDisconnect(false) does nothing.              *)

HandleDisconnect ==
    /\ ~disposed
    /\ reconnectInterval' = FALSE
    /\ IF isRecovering THEN UNCHANGED <<attempt, errors, isRecovering, recoveryTimeout>>
                       ELSE Recover(errors)
    /\ UNCHANGED <<isScheduledReconnecting, disposed, generation, retryFlights, scheduledFlight>>

BugResetSameGeneration ==
    /\ attempt' = 0
    /\ errors' = 0
    /\ isRecovering' = FALSE
    /\ recoveryTimeout' = NoTimer
    /\ reconnectInterval' = HasInterval
    /\ UNCHANGED <<generation, isScheduledReconnecting, disposed, retryFlights, scheduledFlight>>

Reset ==
    /\ generation < MaxGeneration
    /\ generation' = generation + 1
    /\ attempt' = 0
    /\ errors' = 0
    /\ isRecovering' = FALSE
    /\ recoveryTimeout' = NoTimer
    /\ reconnectInterval' = HasInterval
    /\ UNCHANGED <<isScheduledReconnecting, disposed, retryFlights, scheduledFlight>>

Dispose ==
    /\ generation < MaxGeneration
    /\ generation' = generation + 1
    /\ disposed' = TRUE
    /\ isRecovering' = FALSE
    /\ isScheduledReconnecting' = FALSE
    /\ recoveryTimeout' = NoTimer
    /\ reconnectInterval' = FALSE
    /\ UNCHANGED <<attempt, errors, retryFlights, scheduledFlight>>

-----------------------------------------------------------------------------
(* The retry timer and the outcome of the onReconnect() it awaits.         *)

Current(g) == ~disposed /\ g = generation

RecoveryFires ==
    /\ recoveryTimeout # NoTimer
    /\ Current(recoveryTimeout)
    /\ recoveryTimeout' = NoTimer
    /\ retryFlights' = retryFlights \union {generation}
    /\ UNCHANGED <<attempt, errors, isRecovering, isScheduledReconnecting,
                   reconnectInterval, disposed, generation, scheduledFlight>>

RetrySucceeds(g) ==
    /\ g \in retryFlights
    /\ Current(g)
    /\ retryFlights' = retryFlights \ {g}
    /\ isRecovering' = FALSE
    /\ attempt' = 0
    /\ errors' = 0
    /\ reconnectInterval' = HasInterval
    /\ UNCHANGED <<isScheduledReconnecting, recoveryTimeout, disposed, generation, scheduledFlight>>

BugFailureStalls(g) ==
    /\ g \in retryFlights
    /\ Current(g)
    /\ retryFlights' = retryFlights \ {g}
    /\ errors' = errors + 1
    /\ UNCHANGED <<attempt, isRecovering, recoveryTimeout, isScheduledReconnecting,
                   reconnectInterval, disposed, generation, scheduledFlight>>

RetryFails(g) ==
    /\ g \in retryFlights
    /\ Current(g)
    /\ retryFlights' = retryFlights \ {g}
    /\ Recover(errors + 1)
    /\ UNCHANGED <<isScheduledReconnecting, reconnectInterval, disposed, generation,
                   scheduledFlight>>

\* The outcome of a call that reset() or dispose() overtook.
RetryIgnored(g) ==
    /\ g \in retryFlights
    /\ ~Current(g)
    /\ retryFlights' = retryFlights \ {g}
    /\ UNCHANGED <<attempt, errors, isRecovering, isScheduledReconnecting, recoveryTimeout,
                   reconnectInterval, disposed, generation, scheduledFlight>>

-----------------------------------------------------------------------------
(* The interval.  A tick that finds it busy changes nothing.               *)

IntervalFires ==
    /\ reconnectInterval
    /\ ~isRecovering /\ ~disposed /\ ~isScheduledReconnecting
    /\ isScheduledReconnecting' = TRUE
    /\ scheduledFlight' = TRUE
    /\ UNCHANGED <<attempt, errors, isRecovering, recoveryTimeout, reconnectInterval,
                   disposed, generation, retryFlights>>

ScheduledEnds ==
    /\ scheduledFlight
    /\ scheduledFlight' = FALSE
    /\ isScheduledReconnecting' = FALSE
    /\ UNCHANGED <<attempt, errors, isRecovering, recoveryTimeout, reconnectInterval,
                   disposed, generation, retryFlights>>

-----------------------------------------------------------------------------
Generations == 0..MaxGeneration
Returns(g) == RetrySucceeds(g) \/ RetryFails(g) \/ RetryIgnored(g)

RecoveryNext ==
    \/ HandleDisconnect \/ Reset \/ Dispose
    \/ RecoveryFires
    \/ \E g \in Generations : RetrySucceeds(g)
    \/ \E g \in Generations : RetryFails(g)
    \/ \E g \in Generations : RetryIgnored(g)
    \/ IntervalFires \/ ScheduledEnds

\* Timers fire, and the onReconnect callback settles: that is its contract.
RecoverySpec == RecoveryInit /\ [][RecoveryNext]_recoveryVars

RecoveryFairSpec ==
    /\ RecoverySpec
    /\ WF_recoveryVars(RecoveryFires)
    /\ \A g \in Generations : WF_recoveryVars(Returns(g))

-----------------------------------------------------------------------------
(* Properties                                                              *)

\* The types of the fields of ConnectionRecovery; attempts stay within the limit.
RecoveryTypeOK ==
    /\ attempt \in 0..MaxAttempts
    /\ errors \in Nat
    /\ isRecovering \in BOOLEAN
    /\ isScheduledReconnecting \in BOOLEAN
    /\ recoveryTimeout \in Generations \union {NoTimer}
    /\ reconnectInterval \in BOOLEAN
    /\ disposed \in BOOLEAN
    /\ generation \in Generations
    /\ retryFlights \subseteq Generations
    /\ scheduledFlight \in BOOLEAN

\* A recovery is under way exactly when one thing drives it on: its timer, or its
\* onReconnect() call in flight, and never both.  Were #isRecovering set with
\* neither, every later disconnect would be ignored; were it clear with either,
\* a second recovery could start beside the first.
RecoveryHasOneDriver ==
    /\ isRecovering <=> recoveryTimeout # NoTimer \/ generation \in retryFlights
    /\ ~(recoveryTimeout # NoTimer /\ generation \in retryFlights)

\* The errors 'failed' is emitted with are those of the attempts of this recovery,
\* one each: results overtaken by reset() add none (dispose() keeps both counts).
ErrorsMatchAttempts ==
    ~disposed => errors = IF isRecovering THEN attempt - 1 ELSE attempt

\* Once disposed, no onReconnect() call starts, and no recovery does.
DisposedStartsNothing ==
    [][disposed => /\ retryFlights' \subseteq retryFlights
                   /\ scheduledFlight' => scheduledFlight
                   /\ ~isRecovering']_recoveryVars

\* A recovery ends, by success, by running out of attempts, by reset or dispose.
RecoveryEnds == isRecovering ~> ~isRecovering
=============================================================================
