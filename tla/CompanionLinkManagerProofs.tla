--------------------- MODULE CompanionLinkManagerProofs ---------------------
(***************************************************************************)
(* Proofs that CompanionLinkManager keeps its safety properties, for any   *)
(* number of calls of connect() and of retries.                            *)
(*                                                                         *)
(* What a call waits for is on a stream that is up (Exchanging), because   *)
(* whatever takes a stream down rejects its exchanges; so is a stream in   *)
(* the middle of its gracefulStop() (StoppingMeans).  #disconnect tells    *)
(* of the current protocol whether its end was asked for (AskedMeans),     *)
(* until that end is reported.  The heartbeat needs Orderly: while calls   *)
(* do not overlap, only the current one is under way, on the current       *)
(* protocol, and no heartbeat runs before it has set it.                   *)
(***************************************************************************)
EXTENDS CompanionLinkManager, TLAPS, SequenceTheorems

Exchanges == DOMAIN Following

Fresh == \A p \in Calls : p > protocol =>
            /\ step[p] = "idle" /\ life[p] = "none" /\ reported[p] = <<>>
            /\ p \notin asked /\ p \notin stopping

Connecting == \A c \in Calls : step[c] = "connect" => life[c] \in {"opening", "waiting", "cancelled"}

Exchanging == \A c \in Calls : step[c] \in Asking => on[c] \in 1..protocol /\ life[on[c]] = "up"

AskedMeans == \A p \in Calls :
    p = protocol /\ reported[p] = <<>> => (disconnect <=> p \in asked)

StoppingMeans ==
    /\ \A p \in stopping : life[p] = "up"
    /\ protocol \in stopping => disconnect

Alone ==
    /\ \A c \in Calls : step[c] \notin Over => c = protocol
    /\ \A c \in Calls : step[c] \in Asking => on[c] = protocol
    /\ \A c \in Calls : step[c] \in Exchanges => ~disconnect
    /\ \A c \in Calls : step[c] \in Exchanges \union {"connect"} => intervals = {}
    /\ \A c \in Calls : step[c] = "connect" /\ disconnect => life[c] = "cancelled"

Orderly == orderly => Alone

Inv ==
    /\ TypeOK
    /\ Fresh /\ Connecting /\ Exchanging
    /\ AskedMeans /\ StoppingMeans /\ EndedStaysClosed
    /\ Orderly /\ HeartbeatFollowsSession

-----------------------------------------------------------------------------
(* The steps a call goes through                                           *)

\* What follows an exchange is one, but for the last.
LEMMA FollowingIs ==
  /\ Exchanges = {"verifyStart", "verifyFinish", "systemInfo", "sessionStart",
                  "tvrcSessionStart", "touchStart", "tiStart"}
  /\ \A s \in Exchanges \ {"tiStart"} : Following[s] \in Exchanges
  BY DEF Exchanges, Following

LEMMA Kinds ==
  /\ Asking = Exchanges \union {"fetch"} /\ "fetch" \notin Exchanges
  /\ SettingUp \subseteq Exchanges
  /\ {"verifyStart", "tiStart"} \subseteq Exchanges
  /\ Over = {"idle", "done", "failed", "hung"} /\ Over \intersect Asking = {}
  /\ "connect" \notin Asking /\ "connect" \notin Over
  <1>1. Asking = Exchanges \union {"fetch"} /\ SettingUp \subseteq Exchanges
    BY DEF Asking, Exchanges, SettingUp
  <1>2. Over = {"idle", "done", "failed", "hung"}
    BY DEF Over
  <1> QED
    BY <1>1, <1>2, FollowingIs

LEMMA CallsAre == /\ MaxConnects \in Nat \ {0} /\ RetryAttempts \in Nat \ {0}
                  /\ \A p : p \in Calls <=> p \in 0..MaxConnects /\ p # 0
  BY BoundsAssumption DEF Calls

Steps == Over \union Asking \union {"connect"}

LEMMA InitInv == Init => Inv
  <1> SUFFICES ASSUME Init PROVE Inv
    OBVIOUS
  <1>1. TypeOK
    <2>1. /\ protocol \in 0..MaxConnects /\ heartbeat \in 0..MaxConnects
          /\ intervals \subseteq Calls /\ stopping \subseteq Calls /\ asked \subseteq Calls
          /\ on \in [Calls -> 0..MaxConnects] /\ retries \in [Calls -> 0..RetryAttempts]
      BY CallsAre DEF Init
    <2>2. step \in [Calls -> Over \union Asking \union {"connect"}] /\ life \in [Calls -> Lives]
      BY Kinds DEF Init, Lives
    <2>3. reported \in [Calls -> Seq(BOOLEAN)] /\ disconnect \in BOOLEAN /\ orderly \in BOOLEAN
      <3>1. <<>> \in Seq(BOOLEAN)
        BY EmptySeq
      <3> QED
        BY <3>1 DEF Init
    <2> QED
      BY <2>1, <2>2, <2>3 DEF TypeOK
  <1>2. \A c \in Calls : step[c] = "idle" /\ step[c] \in Over /\ step[c] \notin Asking
                         /\ step[c] # "connect" /\ step[c] \notin Exchanges
    BY Kinds DEF Init
  <1>3. Fresh /\ Connecting /\ Exchanging
    BY <1>2, CallsAre DEF Init, Fresh, Connecting, Exchanging
  <1>4. AskedMeans /\ StoppingMeans /\ EndedStaysClosed
    BY CallsAre DEF Init, AskedMeans, StoppingMeans, EndedStaysClosed
  <1>5. Orderly /\ HeartbeatFollowsSession
    BY <1>2 DEF Init, Orderly, Alone, HeartbeatFollowsSession
  <1> QED
    BY <1>1, <1>3, <1>4, <1>5 DEF Inv

-----------------------------------------------------------------------------
(* The types                                                               *)

LEMMA SendsTypes ==
  ASSUME TypeOK, NEW c \in Calls, NEW next \in Asking, NEW q \in 0..MaxConnects, NEW s,
         Sends(c, next, q, s)
  PROVE  /\ step' \in [Calls -> Steps] /\ on' \in [Calls -> 0..MaxConnects]
         /\ heartbeat' \in 0..MaxConnects /\ intervals' \subseteq intervals
  <1>1. /\ step \in [Calls -> Steps] /\ next \in Steps /\ "failed" \in Steps
        /\ on \in [Calls -> 0..MaxConnects] /\ heartbeat \in 0..MaxConnects
        /\ 0 \in 0..MaxConnects
    BY Kinds, CallsAre DEF TypeOK, Steps
  <1>2. CASE s[q] = "up"
    BY <1>1, <1>2 DEF Sends, KeepHeartbeat
  <1>3. CASE s[q] # "up"
    BY <1>1, <1>3 DEF Sends, ClearHeartbeat, KeepHeartbeat
  <1> QED
    BY <1>2, <1>3

LEMMA RejectTypes ==
  ASSUME TypeOK, NEW p, RejectExchanges(p)
  PROVE  step' \in [Calls -> Steps] /\ on' = on
  BY Kinds DEF RejectExchanges, TypeOK, Steps

LEMMA HeartbeatTypes ==
  ASSUME TypeOK, ClearHeartbeat \/ KeepHeartbeat
  PROVE  heartbeat' \in 0..MaxConnects /\ intervals' \subseteq intervals
  BY CallsAre DEF TypeOK, ClearHeartbeat, KeepHeartbeat

LEMMA StoppedTypes ==
  ASSUME TypeOK, NEW p \in Calls
  PROVE  StreamStopped(p) \in [Calls -> Lives]
  BY DEF StreamStopped, TypeOK, Lives

\* One lemma for each kind of step.
LEMMA CallingTypes ==
  ASSUME TypeOK, NEW c \in Calls, Calling(c)
  PROVE  TypeOK'
  <1>0. protocol \in 0..MaxConnects /\ on[c] \in 0..MaxConnects /\ c \in 0..MaxConnects
        /\ intervals \subseteq Calls
    BY CallsAre DEF TypeOK
  <1>1. CASE Answered(c)
    <2>1. /\ Sends(c, Following[step[c]], IF step[c] = "verifyStart" THEN on[c] ELSE protocol, life)
          /\ Following[step[c]] \in Asking
      BY <1>1, FollowingIs, Kinds DEF Answered, Exchanges
    <2>2. /\ step' \in [Calls -> Steps] /\ on' \in [Calls -> 0..MaxConnects]
          /\ heartbeat' \in 0..MaxConnects /\ intervals' \subseteq intervals
      BY <1>0, <2>1, SendsTypes
    <2>3. UNCHANGED <<protocol, disconnect, life, retries, stopping, reported, asked, orderly>>
      BY <1>1 DEF Answered, streams, history
    <2> QED
      BY <2>2, <2>3 DEF TypeOK, Steps
  <1>2. CASE SetUp(c)
    <2>1. UNCHANGED <<protocol, disconnect, life, retries, stopping, reported, asked, orderly>>
      BY <1>2 DEF SetUp, streams, history
    <2>2. /\ heartbeat' \in 0..MaxConnects /\ intervals' \subseteq Calls
          /\ on' \in [Calls -> 0..MaxConnects]
      BY <1>0, <1>2 DEF SetUp, TypeOK
    <2>3. step' \in [Calls -> Steps]
      BY <1>2, Kinds DEF SetUp, TypeOK, Steps
    <2> QED
      BY <2>1, <2>2, <2>3 DEF TypeOK, Steps
  <1>3. CASE Fetched(c)
    <2>1. UNCHANGED <<protocol, disconnect, heartbeat, intervals, on, life, retries, stopping,
                      reported, asked, orderly>>
      BY <1>3 DEF Fetched, session, streams, history
    <2>2. step' \in [Calls -> Steps]
      BY <1>3, Kinds DEF Fetched, TypeOK, Steps
    <2> QED
      BY <2>1, <2>2 DEF TypeOK, Steps
  <1>4. CASE RequestFails(c)
    <2>1. UNCHANGED <<protocol, disconnect, on, life, retries, stopping, reported, asked, orderly>>
      BY <1>4 DEF RequestFails, streams, history
    <2>2. step' \in [Calls -> Steps]
      BY <1>4, Kinds DEF RequestFails, TypeOK, Steps
    <2>3. heartbeat' \in 0..MaxConnects /\ intervals' \subseteq intervals
      BY <1>4, HeartbeatTypes DEF RequestFails
    <2> QED
      BY <1>0, <2>1, <2>2, <2>3 DEF TypeOK, Steps
  <1> QED
    BY <1>1, <1>2, <1>3, <1>4 DEF Calling

LEMMA StreamingTypes ==
  ASSUME TypeOK, NEW p \in Calls, Streaming(p)
  PROVE  TypeOK'
  <1>0. /\ protocol \in 0..MaxConnects /\ intervals \subseteq Calls /\ stopping \subseteq Calls
        /\ step \in [Calls -> Steps] /\ life \in [Calls -> Lives] /\ on \in [Calls -> 0..MaxConnects]
        /\ retries \in [Calls -> 0..RetryAttempts] /\ heartbeat \in 0..MaxConnects
        /\ "failed" \in Steps /\ "hung" \in Steps
    BY Kinds DEF TypeOK, Steps
  <1>1. RetryArmed(p) => retries' \in [Calls -> 0..RetryAttempts] /\ life' \in [Calls -> Lives]
    BY <1>0, CallsAre DEF RetryArmed, Lives
  <1>2. CASE StreamConnects(p)
    <2>1. life' \in [Calls -> Lives] /\ retries' \in [Calls -> 0..RetryAttempts]
      BY <1>0, <1>2, CallsAre DEF StreamConnects, Lives
    <2>2. /\ step' \in [Calls -> Steps] /\ on' \in [Calls -> 0..MaxConnects]
          /\ heartbeat' \in 0..MaxConnects /\ intervals' \subseteq intervals
      <3>1. CASE step[p] = "connect"
        <4>1. Sends(p, "verifyStart", protocol, life') /\ "verifyStart" \in Asking
          BY <1>2, <3>1, Kinds DEF StreamConnects
        <4> QED
          BY <1>0, <4>1, SendsTypes
      <3>2. CASE step[p] # "connect"
        BY <1>0, <1>2, <3>2, HeartbeatTypes DEF StreamConnects, calls
      <3> QED
        BY <3>1, <3>2
    <2>3. UNCHANGED <<protocol, disconnect, stopping, reported, asked, orderly>>
      BY <1>2 DEF StreamConnects, history
    <2> QED
      BY <1>0, <2>1, <2>2, <2>3 DEF TypeOK, Steps
  <1>3. CASE AttemptFails(p)
    <2>1. life' \in [Calls -> Lives] /\ retries' \in [Calls -> 0..RetryAttempts]
      BY <1>0, <1>1, <1>3 DEF AttemptFails, Lives
    <2>2. step' \in [Calls -> Steps]
      BY <1>0, <1>3 DEF AttemptFails, ConnectThrows
    <2>3. UNCHANGED <<protocol, disconnect, heartbeat, intervals, on, stopping, reported, asked, orderly>>
      BY <1>3 DEF AttemptFails, session, history
    <2> QED
      BY <2>1, <2>2, <2>3 DEF TypeOK, Steps
  <1>4. CASE RetryFires(p)
    <2>1. life' \in [Calls -> Lives]
      BY <1>0, <1>4 DEF RetryFires, Lives
    <2>2. UNCHANGED <<protocol, disconnect, heartbeat, intervals, step, on, retries, stopping,
                      reported, asked, orderly>>
      BY <1>4 DEF RetryFires, session, calls, history
    <2> QED
      BY <2>1, <2>2 DEF TypeOK
  <1>5. CASE StreamErrors(p)
    <2>1. life' \in [Calls -> Lives]
      BY <1>0, <1>5 DEF StreamErrors, Lives
    <2>2. step' \in [Calls -> Steps] /\ on' = on
      BY <1>5, RejectTypes DEF StreamErrors
    <2>3. heartbeat' \in 0..MaxConnects /\ intervals' \subseteq intervals
      BY <1>5, HeartbeatTypes DEF StreamErrors, ClearRejected
    <2>4. stopping' \subseteq stopping
          /\ UNCHANGED <<protocol, disconnect, retries, reported, asked, orderly>>
      BY <1>5 DEF StreamErrors, history
    <2> QED
      BY <1>0, <2>1, <2>2, <2>3, <2>4 DEF TypeOK, Steps
  <1>6. OnClose(p) \/ CloseUnheard(p) =>
          /\ life' \in [Calls -> Lives] /\ retries' \in [Calls -> 0..RetryAttempts]
          /\ disconnect' \in BOOLEAN /\ reported' \in [Calls -> Seq(BOOLEAN)]
    <2>1. CASE OnClose(p)
      <3>1. life' \in [Calls -> Lives] /\ retries' \in [Calls -> 0..RetryAttempts]
        BY <1>0, <2>1 DEF OnClose, Lives
      <3>2. disconnect' \in BOOLEAN
        BY <2>1 DEF OnClose
      <3>3. (~disconnect) \in BOOLEAN /\ reported \in [Calls -> Seq(BOOLEAN)]
        BY DEF TypeOK
      <3>4. Append(reported[p], ~disconnect) \in Seq(BOOLEAN)
        <4>1. reported[p] \in Seq(BOOLEAN)
          BY <3>3
        <4> QED
          BY <3>3, <4>1, AppendProperties
      <3>5. reported' = [reported EXCEPT ![p] = Append(reported[p], ~disconnect)]
        BY <2>1, Zenon DEF OnClose
      <3>6. reported' \in [Calls -> Seq(BOOLEAN)]
        BY <3>3, <3>4, <3>5, Zenon
      <3> QED
        BY <3>1, <3>2, <3>6
    <2>2. CASE CloseUnheard(p)
      <3>1. life' \in [Calls -> Lives] /\ retries' \in [Calls -> 0..RetryAttempts]
        BY <1>0, <1>1, <2>2 DEF CloseUnheard, Lives
      <3>2. disconnect' \in BOOLEAN /\ reported' \in [Calls -> Seq(BOOLEAN)]
        BY <2>2 DEF CloseUnheard, TypeOK
      <3> QED
        BY <3>1, <3>2
    <2> QED
      BY <2>1, <2>2
  <1>7. ASSUME CloseClears(p)
        PROVE  heartbeat' \in 0..MaxConnects /\ intervals' \subseteq intervals
    BY <1>7, HeartbeatTypes DEF CloseClears
  <1>8. CASE StreamCloses(p)
    <2>1. step' \in [Calls -> Steps]
      BY <1>0, <1>8 DEF StreamCloses
    <2>2. /\ life' \in [Calls -> Lives] /\ retries' \in [Calls -> 0..RetryAttempts]
          /\ disconnect' \in BOOLEAN /\ reported' \in [Calls -> Seq(BOOLEAN)]
          /\ heartbeat' \in 0..MaxConnects /\ intervals' \subseteq intervals
      BY <1>6, <1>7, <1>8 DEF StreamCloses
    <2>3. UNCHANGED <<protocol, on, stopping, asked, orderly>>
      BY <1>8 DEF StreamCloses, history
    <2> QED
      BY <1>0, <2>1, <2>2, <2>3 DEF TypeOK, Steps
  <1>9. CASE PeerEnds(p)
    <2>1. step' \in [Calls -> Steps] /\ on' = on
      BY <1>9, RejectTypes DEF PeerEnds
    <2>2. /\ life' \in [Calls -> Lives] /\ retries' \in [Calls -> 0..RetryAttempts]
          /\ disconnect' \in BOOLEAN /\ reported' \in [Calls -> Seq(BOOLEAN)]
          /\ heartbeat' \in 0..MaxConnects /\ intervals' \subseteq intervals
      BY <1>6, <1>7, <1>9 DEF PeerEnds
    <2>3. stopping' \subseteq stopping /\ UNCHANGED <<protocol, asked, orderly>>
      BY <1>9 DEF PeerEnds, history
    <2> QED
      BY <1>0, <2>1, <2>2, <2>3 DEF TypeOK, Steps
  <1>10. CASE Stops(p)
    <2>1. step' \in [Calls -> Steps] /\ on' = on
      BY <1>10, RejectTypes DEF Stops
    <2>2. life' \in [Calls -> Lives]
      BY <1>10, StoppedTypes DEF Stops, GracefulStopEnds
    <2>3. heartbeat' \in 0..MaxConnects /\ intervals' \subseteq intervals
      BY <1>10, HeartbeatTypes DEF Stops, ClearRejected
    <2>4. stopping' \subseteq stopping
          /\ UNCHANGED <<protocol, disconnect, retries, reported, asked, orderly>>
      BY <1>10 DEF Stops, history
    <2> QED
      BY <1>0, <2>1, <2>2, <2>3, <2>4 DEF TypeOK, Steps
  <1> QED
    BY <1>2, <1>3, <1>4, <1>5, <1>8, <1>9, <1>10 DEF Streaming

LEMMA CallerTypes ==
  ASSUME TypeOK, Connect \/ Disconnect \/ TimesOut
  PROVE  TypeOK'
  <1>0. /\ protocol \in 0..MaxConnects /\ intervals \subseteq Calls /\ stopping \subseteq Calls
        /\ step \in [Calls -> Steps] /\ life \in [Calls -> Lives] /\ on \in [Calls -> 0..MaxConnects]
        /\ retries \in [Calls -> 0..RetryAttempts] /\ heartbeat \in 0..MaxConnects
        /\ "failed" \in Steps /\ "hung" \in Steps /\ "connect" \in Steps
        /\ asked \subseteq Calls
    BY Kinds DEF TypeOK, Steps
  <1>1. CASE Connect
    <2>1. /\ protocol' = protocol + 1 /\ protocol < MaxConnects
          /\ step' = [step EXCEPT ![protocol'] = "connect"]
          /\ on' = [on EXCEPT ![protocol'] = protocol']
          /\ life' = [life EXCEPT ![protocol'] = "opening"]
          /\ UNCHANGED <<heartbeat, intervals, retries, stopping, reported, asked>>
      BY <1>1 DEF Connect, KeepHeartbeat
    <2>2. protocol' \in 0..MaxConnects
      BY <1>0, <2>1, CallsAre
    <2>3. /\ step' \in [Calls -> Steps] /\ on' \in [Calls -> 0..MaxConnects]
          /\ life' \in [Calls -> Lives]
      BY <1>0, <2>1, <2>2 DEF Lives
    <2>4. orderly' \in BOOLEAN /\ disconnect' \in BOOLEAN
      <3>1. orderly' = (orderly /\ intervals = {} /\ \A c \in Calls : step[c] \in Over)
        BY <1>1 DEF Connect
      <3>2. disconnect' = FALSE
        BY <1>1 DEF Connect, ConnectWanted
      <3> QED
        BY <3>1, <3>2, Zenon
    <2> QED
      BY <2>1, <2>2, <2>3, <2>4 DEF TypeOK, Steps
  <1>2. CASE Disconnect
    <2>1. /\ protocol \in Calls /\ asked' = asked \union {protocol}
          /\ UNCHANGED <<protocol, on, retries, reported>>
      BY <1>0, <1>2, CallsAre DEF Disconnect
    <2>2. /\ step' \in [Calls -> Steps] /\ life' \in [Calls -> Lives] /\ stopping' \subseteq Calls
      BY <1>0, <1>2, <2>1, StoppedTypes DEF Disconnect, StopStream
    <2>3. heartbeat' \in 0..MaxConnects /\ intervals' \subseteq intervals
      BY <1>2, HeartbeatTypes DEF Disconnect
    <2>4. orderly' \in BOOLEAN /\ disconnect' \in BOOLEAN
      <3>1. orderly' = (orderly /\ \A c \in Calls : step[c] \notin DOMAIN Following)
        BY <1>2 DEF Disconnect
      <3>2. disconnect' = TRUE
        BY <1>2 DEF Disconnect
      <3> QED
        BY <3>1, <3>2, Zenon
    <2> QED
      BY <1>0, <2>1, <2>2, <2>3, <2>4 DEF TypeOK, Steps
  <1>3. CASE TimesOut
    <2>1. protocol \in Calls
      BY <1>0, <1>3, CallsAre DEF TimesOut
    <2>2. life' \in [Calls -> Lives] /\ step' \in [Calls -> Steps]
      BY <1>0, <1>3, <2>1 DEF TimesOut, ConnectThrows, Lives
    <2>3. UNCHANGED <<protocol, disconnect, heartbeat, intervals, on, retries, stopping,
                      reported, asked, orderly>>
      BY <1>3 DEF TimesOut, session, history
    <2> QED
      BY <2>2, <2>3 DEF TypeOK, Steps
  <1> QED
    BY <1>1, <1>2, <1>3

LEMMA NextTypes == TypeOK /\ [Next]_vars => TypeOK'
  <1> SUFFICES ASSUME TypeOK, [Next]_vars PROVE TypeOK'
    OBVIOUS
  <1>1. CASE Next
    BY <1>1, CallingTypes, StreamingTypes, CallerTypes DEF Next
  <1>2. CASE UNCHANGED vars
    BY <1>2 DEF vars, session, calls, streams, history, TypeOK
  <1> QED
    BY <1>1, <1>2

-----------------------------------------------------------------------------
(* The other invariants                                                    *)

Core == Fresh /\ Connecting /\ Exchanging /\ AskedMeans /\ StoppingMeans /\ EndedStaysClosed
           /\ Orderly /\ HeartbeatFollowsSession

\* Protocols are calls, and no other has a life.
LEMMA Known ==
  ASSUME Inv
  PROVE  /\ protocol \in Nat /\ Calls \subseteq Nat /\ (protocol # 0 => protocol \in Calls)
         /\ \A p \in Calls : ~(p > protocol) => p <= protocol /\ protocol \in Calls
         /\ \A p \in Calls : life[p] # "none" => p <= protocol /\ protocol \in Calls
         /\ \A c \in Calls : step[c] # "idle" => c <= protocol /\ protocol \in Calls
         /\ \A c \in Calls : step[c] \in Asking => on[c] \in Calls
         /\ step \in [Calls -> Steps] /\ life \in [Calls -> Lives]
         /\ on \in [Calls -> 0..MaxConnects] /\ reported \in [Calls -> Seq(BOOLEAN)]
         /\ heartbeat \in Nat /\ orderly \in BOOLEAN /\ disconnect \in BOOLEAN
         /\ intervals \subseteq Calls /\ stopping \subseteq Calls /\ asked \subseteq Calls
  <1>1. /\ protocol \in 0..MaxConnects /\ Calls = 1..MaxConnects /\ MaxConnects \in Nat
        /\ heartbeat \in 0..MaxConnects /\ Fresh /\ Exchanging
    BY CallsAre DEF Inv, TypeOK, Calls
  <1>2. \A p \in Calls : ~(p > protocol) => p <= protocol /\ protocol \in Calls
    BY <1>1
  <1>3. \A p \in Calls : life[p] # "none" \/ step[p] # "idle" => ~(p > protocol)
    BY <1>1 DEF Fresh
  <1>4. \A c \in Calls : step[c] \in Asking => on[c] \in Calls
    BY <1>1 DEF Exchanging
  <1> QED
    BY <1>1, <1>2, <1>3, <1>4 DEF Inv, TypeOK, Steps

\* A step that sends no request, but may end calls, keeps them orderly.
LEMMA EndingIsOrderly ==
  ASSUME Inv, UNCHANGED <<protocol, on, orderly>>, intervals' \subseteq intervals,
         \A c \in Calls : step'[c] = step[c] \/ step'[c] \in Over,
         \A c \in Calls : step'[c] = "connect" /\ life[c] = "cancelled" => life'[c] = "cancelled",
         disconnect' => \/ disconnect
                        \/ orderly => \A c \in Calls : step'[c] \notin Exchanges \union {"connect"}
  PROVE  Orderly'
  <1> SUFFICES ASSUME orderly' PROVE Alone'
    BY DEF Orderly
  <1>0. /\ \A c \in Calls : step'[c] \notin Over => step'[c] = step[c] /\ step[c] \notin Over
        /\ \A s \in Asking \union Exchanges \union {"connect"} : s \notin Over
    BY Kinds
  <1>1. Alone
    BY DEF Inv, Orderly
  <1>2. \A c \in Calls : step'[c] \notin Over => c = protocol'
    BY <1>0, <1>1 DEF Alone
  <1>3. \A c \in Calls : step'[c] \in Asking => on'[c] = protocol'
    BY <1>0, <1>1 DEF Alone
  <1>4. \A c \in Calls : step'[c] \in Exchanges => ~disconnect'
    BY <1>0, <1>1 DEF Alone
  <1>5. \A c \in Calls : step'[c] \in Exchanges \union {"connect"} => intervals' = {}
    BY <1>0, <1>1 DEF Alone
  <1>6. \A c \in Calls : step'[c] = "connect" /\ disconnect' => life'[c] = "cancelled"
    BY <1>0, <1>1 DEF Alone
  <1> QED
    BY <1>2, <1>3, <1>4, <1>5, <1>6 DEF Alone

\* What RejectExchanges() leaves of the calls.
LEMMA Rejected ==
  ASSUME TypeOK, NEW p, RejectExchanges(p)
  PROVE  /\ \A c \in Calls : step'[c] = step[c] \/ (step'[c] \in Over /\ step[c] \in Asking)
         /\ \A c \in Calls : step'[c] \in Asking => step'[c] = step[c] /\ on[c] # p
         /\ on' = on
  BY Kinds DEF RejectExchanges, Waiting

\* Stopping the heartbeat leaves none that the manager cannot clear.
LEMMA ClearedOrKept ==
  ASSUME HeartbeatFollowsSession, orderly
  PROVE  /\ ClearHeartbeat => intervals' = {}
         /\ ClearHeartbeat \/ KeepHeartbeat => intervals' \subseteq intervals
         /\ KeepHeartbeat => intervals' = intervals /\ heartbeat' = heartbeat
         /\ intervals # {} => intervals = {heartbeat} /\ heartbeat = protocol /\ ~disconnect
                               /\ life[protocol] \in {"up", "broken"}
  BY DEF HeartbeatFollowsSession, ClearHeartbeat, KeepHeartbeat

-----------------------------------------------------------------------------
(* connect() and disconnect()                                              *)

LEMMA ConnectKeeps ==
  ASSUME Inv, Connect
  PROVE  Core'
  <1> DEFINE new == protocol + 1
  <1>1. /\ protocol \in Nat /\ new \in Calls /\ new > protocol /\ protocol' = new
        /\ disconnect' = FALSE /\ step' = [step EXCEPT ![new] = "connect"]
        /\ on' = [on EXCEPT ![new] = new] /\ life' = [life EXCEPT ![new] = "opening"]
        /\ orderly' = (orderly /\ intervals = {} /\ \A c \in Calls : step[c] \in Over)
        /\ UNCHANGED <<heartbeat, intervals, retries, stopping, reported, asked>>
    <2>1. protocol \in Nat /\ protocol < MaxConnects /\ protocol' = new
      BY Known DEF Connect
    <2>2. new \in Calls /\ new > protocol
      BY <2>1, CallsAre
    <2> QED
      BY <2>1, <2>2 DEF Connect, ConnectWanted, KeepHeartbeat
  <1> HIDE DEF new
  <1>2. /\ step[new] = "idle" /\ life[new] = "none" /\ reported[new] = <<>>
        /\ new \notin asked /\ new \notin stopping
    BY <1>1 DEF Inv, Fresh
  <1>3. /\ step'[new] = "connect" /\ life'[new] = "opening" /\ on'[new] = new
        /\ \A c \in Calls \ {new} : step'[c] = step[c] /\ life'[c] = life[c] /\ on'[c] = on[c]
    BY <1>1, Known
  <1>4. Fresh'
    <2> SUFFICES ASSUME NEW p \in Calls, p > new
                 PROVE  /\ step'[p] = "idle" /\ life'[p] = "none" /\ reported'[p] = <<>>
                        /\ p \notin asked' /\ p \notin stopping'
      BY <1>1 DEF Fresh
    <2>1. p > protocol /\ p # new
      BY <1>1, Known
    <2> QED
      BY <1>1, <1>3, <2>1 DEF Inv, Fresh
  <1>5. Connecting'
    BY <1>3 DEF Inv, Connecting
  <1>6. Exchanging'
    <2> SUFFICES ASSUME NEW c \in Calls, step'[c] \in Asking
                 PROVE  on'[c] \in 1..protocol' /\ life'[on'[c]] = "up"
      BY DEF Exchanging
    <2>1. c # new
      BY <1>3, Kinds
    <2>2. on[c] \in 1..protocol /\ life[on[c]] = "up" /\ on[c] \in Calls
      BY <1>3, <2>1, Known DEF Inv, Exchanging
    <2>3. on[c] # new /\ on[c] \in 1..new
      BY <1>1, <2>2 DEF new
    <2>4. on'[c] = on[c] /\ life'[on[c]] = life[on[c]]
      BY <1>3, <2>1, <2>2, <2>3
    <2> QED
      BY <1>1, <2>2, <2>3, <2>4
  <1>7. AskedMeans' /\ StoppingMeans'
    <2>1. \A p \in stopping' : life'[p] = "up" /\ p # new
      BY <1>1, <1>2, <1>3, Known DEF Inv, StoppingMeans
    <2> QED
      BY <1>1, <1>2, <2>1 DEF AskedMeans, StoppingMeans
  <1>8. EndedStaysClosed'
    BY <1>1, <1>2, <1>3 DEF Inv, EndedStaysClosed
  <1>9. Orderly'
    <2> SUFFICES ASSUME orderly' PROVE Alone'
      BY DEF Orderly
    <2>1. intervals' = {} /\ \A c \in Calls : step[c] \in Over
      BY <1>1
    <2>2. \A c \in Calls \ {new} : step'[c] \in Over /\ step'[c] \notin Asking \union Exchanges \union {"connect"}
      BY <1>3, <2>1, Kinds
    <2>3. \A c \in Calls : step'[c] \notin Asking \union Exchanges
      BY <1>3, <2>2, Kinds
    <2> QED
      BY <1>1, <2>1, <2>2, <2>3 DEF Alone
  <1>10. HeartbeatFollowsSession'
    BY <1>1 DEF HeartbeatFollowsSession
  <1> QED
    BY <1>4, <1>5, <1>6, <1>7, <1>8, <1>9, <1>10 DEF Core

LEMMA DisconnectKeeps ==
  ASSUME Inv, Disconnect
  PROVE  Core'
  <1>1. /\ protocol \in Calls /\ disconnect' = TRUE /\ asked' = asked \union {protocol}
        /\ ClearHeartbeat /\ UNCHANGED <<protocol, on, retries, reported>>
        /\ orderly' = (orderly /\ \A c \in Calls : step[c] \notin Exchanges)
    BY Known DEF Disconnect, Exchanges
  <1>2. /\ \A p \in Calls \ {protocol} : life'[p] = life[p] /\ step'[p] = step[p]
                                         /\ (p \in stopping' <=> p \in stopping)
        /\ life[protocol] = "up" => life' = life /\ step' = step
        /\ life[protocol] # "up" => life' = StreamStopped(protocol) /\ stopping' = stopping
        /\ step'[protocol] = IF step[protocol] = "connect" /\ life[protocol] = "waiting"
                             THEN "hung" ELSE step[protocol]
    BY <1>1, Known DEF Disconnect, StopStream, StreamStopped
  <1>3. /\ life[protocol] = "opening" => life'[protocol] = "cancelled"
        /\ life[protocol] \in {"cancelled", "closed", "none"} => life'[protocol] = life[protocol]
    BY <1>1, <1>2, Known DEF StreamStopped
  <1>4. Fresh'
    BY <1>1, <1>2, Known DEF Inv, Fresh
  <1>5. Connecting'
    BY <1>1, <1>2, <1>3 DEF Inv, Connecting
  <1>6. Exchanging'
    <2> SUFFICES ASSUME NEW c \in Calls, step'[c] \in Asking
                 PROVE  on'[c] \in 1..protocol' /\ life'[on'[c]] = "up"
      BY DEF Exchanging
    <2>1. step'[c] = step[c]
      BY <1>1, <1>2, Kinds
    <2>2. on[c] \in 1..protocol /\ life[on[c]] = "up" /\ on[c] \in Calls
      BY <2>1, Known DEF Inv, Exchanging
    <2> QED
      BY <1>1, <1>2, <2>2
  <1>7. AskedMeans' /\ StoppingMeans'
    <2>1. \A p \in stopping' : life'[p] = "up"
      <3>1. stopping' \subseteq Calls
        BY <1>1, <1>2, Known DEF Disconnect
      <3>2. \A p \in stopping' : life[p] = "up"
        BY <1>1, <1>2, <3>1, Known DEF Inv, StoppingMeans, Disconnect
      <3> QED
        BY <1>1, <1>2, <3>1, <3>2
    <2> QED
      BY <1>1, <2>1 DEF AskedMeans, StoppingMeans
  <1>8. EndedStaysClosed'
    BY <1>1, <1>2, <1>3 DEF Inv, EndedStaysClosed
  <1>9. Orderly'
    <2> SUFFICES ASSUME orderly' PROVE Alone'
      BY DEF Orderly
    <2>1. Alone /\ orderly /\ \A c \in Calls : step[c] \notin Exchanges
      BY <1>1 DEF Inv, Orderly
    <2>2. \A c \in Calls : step'[c] = step[c] \/ step'[c] \in Over
      BY <1>1, <1>2, Kinds
    <2>3. \A c \in Calls : step'[c] \in Asking \union {"connect"} \union Exchanges => step'[c] = step[c]
      BY <2>2, Kinds
    <2>4. intervals' \subseteq intervals
      BY <1>1 DEF ClearHeartbeat
    <2>5. \A c \in Calls : step'[c] = "connect" => life'[c] = "cancelled"
      BY <1>1, <1>2, <1>3, <2>1, <2>3, Kinds DEF Inv, Connecting, Alone
    <2> QED
      BY <1>1, <2>1, <2>2, <2>3, <2>4, <2>5, Kinds DEF Alone
  <1>10. HeartbeatFollowsSession'
    <2> SUFFICES ASSUME orderly' PROVE intervals' = {}
      BY DEF HeartbeatFollowsSession
    <2> QED
      BY <1>1, ClearedOrKept DEF Inv
  <1> QED
    BY <1>4, <1>5, <1>6, <1>7, <1>8, <1>9, <1>10 DEF Core

-----------------------------------------------------------------------------
(* The exchanges of connect(), and the streams                             *)

\* A step that touches only calls and protocols that there are.
LEMMA FreshStays ==
  ASSUME Inv, UNCHANGED <<protocol, asked>>, stopping' \subseteq stopping,
         \A q \in Calls : step'[q] = step[q] \/ step[q] # "idle",
         \A q \in Calls : life[q] = "none" => life'[q] = "none" /\ reported'[q] = reported[q]
  PROVE  Fresh'
  BY DEF Inv, Fresh

\* A step that reports nothing.
LEMMA NothingReported ==
  ASSUME Inv, UNCHANGED <<protocol, disconnect, reported, asked>>, stopping' \subseteq stopping,
         \A q \in stopping' : life'[q] = life[q],
         \A q \in Calls : life[q] = "closed" => life'[q] = "closed"
  PROVE  AskedMeans' /\ StoppingMeans' /\ EndedStaysClosed'
  BY DEF Inv, AskedMeans, StoppingMeans, EndedStaysClosed

\* What a call waits for stays up, when it is not rejected and sends no request.
LEMMA ExchangingStays ==
  ASSUME Inv, UNCHANGED <<protocol, on>>,
         \A c \in Calls : step'[c] \in Asking => step[c] \in Asking /\ life'[on[c]] = "up"
  PROVE  Exchanging'
  BY DEF Inv, Exchanging

LEMMA HeartbeatStays ==
  ASSUME Inv, UNCHANGED <<protocol, orderly>>, ClearHeartbeat \/ KeepHeartbeat,
         orderly /\ KeepHeartbeat /\ intervals # {}
            => ~disconnect' /\ life'[protocol] \in {"up", "broken"}
  PROVE  HeartbeatFollowsSession'
  <1> SUFFICES ASSUME orderly', intervals' # {}
               PROVE  /\ intervals' = {heartbeat'} /\ heartbeat' = protocol'
                      /\ ~disconnect' /\ life'[protocol'] \in {"up", "broken"}
    BY DEF HeartbeatFollowsSession
  <1>1. HeartbeatFollowsSession /\ orderly
    BY DEF Inv
  <1>2. KeepHeartbeat /\ intervals' = intervals /\ heartbeat' = heartbeat
    BY <1>1, ClearedOrKept
  <1> QED
    BY <1>1, <1>2, ClearedOrKept

\* A request is sent on a stream that is up, which under orderly calls is the current one.
LEMMA SendingKeeps ==
  ASSUME Inv, NEW c \in Calls, NEW next \in Exchanges, NEW q \in Calls, q <= protocol,
         Sends(c, next, q, life'), step[c] # "idle",
         UNCHANGED <<protocol, disconnect, reported, asked, stopping, orderly>>,
         life' \in [Calls -> Lives],
         \A p \in Calls : life'[p] = life[p] \/ (p = c /\ life[p] \in {"opening", "cancelled"}),
         step[c] # "connect" => life' = life,
         orderly => q = protocol /\ c = protocol /\ intervals = {} /\ (life'[q] = "up" => ~disconnect)
  PROVE  Core'
  <1>0. protocol \in Calls
    BY Known
  <1>1. /\ \A d \in Calls \ {c} : step'[d] = step[d] /\ on'[d] = on[d]
        /\ step'[c] = IF life'[q] = "up" THEN next ELSE "failed"
        /\ life'[q] = "up" => on'[c] = q
        /\ ClearHeartbeat \/ KeepHeartbeat
    BY Known DEF Sends
  <1>2. /\ \A p \in Calls : life[p] \in {"none", "closed", "up"} => life'[p] = life[p]
        /\ "failed" \in Over /\ "failed" \notin Asking /\ next \in Asking /\ next # "connect"
    BY Kinds
  <1>3. Fresh'
    BY <1>1, <1>2, FreshStays
  <1>4. Connecting'
    BY <1>1, <1>2 DEF Inv, Connecting
  <1>5. Exchanging'
    <2> SUFFICES ASSUME NEW d \in Calls, step'[d] \in Asking
                 PROVE  on'[d] \in 1..protocol' /\ life'[on'[d]] = "up"
      BY DEF Exchanging
    <2>1. CASE d = c
      <3>1. life'[q] = "up" /\ on'[c] = q
        BY <1>1, <1>2, <2>1
      <3>2. q \in 1..protocol
        BY Known, CallsAre
      <3> QED
        BY <2>1, <3>1, <3>2
    <2>2. CASE d # c
      BY <1>1, <1>2, <2>2, Known DEF Inv, Exchanging
    <2> QED
      BY <2>1, <2>2
  <1>6. AskedMeans' /\ StoppingMeans' /\ EndedStaysClosed'
    <2>1. \A p \in stopping' : life'[p] = life[p]
      BY <1>2, Known DEF Inv, StoppingMeans
    <2> QED
      BY <1>2, <2>1, NothingReported
  <1>7. Orderly' /\ HeartbeatFollowsSession'
    <2>1. orderly => intervals' = {}
      BY <1>1, ClearedOrKept DEF Inv
    <2>2. ASSUME orderly PROVE Alone'
      <3>1. Alone /\ c = protocol /\ q = protocol /\ (life'[q] = "up" => ~disconnect)
        BY <2>2 DEF Inv, Orderly
      <3>2. \A d \in Calls \ {c} : step'[d] \in Over
        BY <1>1, <3>1 DEF Alone
      <3>3. \A d \in Calls : step'[d] \in Asking \union Exchanges => d = c /\ life'[q] = "up" /\ on'[d] = q
        BY <1>1, <1>2, <3>2, Kinds
      <3>4. \A d \in Calls : step'[d] # "connect"
        BY <1>1, <1>2, <3>2, Kinds
      <3>5. \A d \in Calls : step'[d] \notin Over => d = c
        BY <3>2
      <3> QED
        BY <2>1, <2>2, <3>1, <3>3, <3>4, <3>5 DEF Alone
    <2> QED
      BY <2>1, <2>2 DEF Orderly, HeartbeatFollowsSession
  <1> QED
    BY <1>3, <1>4, <1>5, <1>6, <1>7 DEF Core

LEMMA CallingKeeps ==
  ASSUME Inv, NEW c \in Calls, Calling(c)
  PROVE  Core'
  <1>0. /\ step[c] \in Asking /\ step[c] # "idle" /\ step[c] # "connect" /\ step[c] \notin Over
        /\ on[c] \in Calls /\ on[c] <= protocol /\ protocol \in Calls /\ life[on[c]] = "up"
    <2>1. step[c] \in Asking
      BY Kinds DEF Calling, Answered, SetUp, Fetched, RequestFails, Exchanges
    <2>2. step[c] # "idle" /\ step[c] # "connect" /\ step[c] \notin Over
      BY <2>1, Kinds
    <2> QED
      BY <2>1, <2>2, Known DEF Inv, Exchanging
  <1>1. orderly => /\ c = protocol /\ on[c] = protocol
                   /\ step[c] \in Exchanges => intervals = {} /\ ~disconnect
    BY <1>0 DEF Inv, Orderly, Alone
  <1>2. CASE Answered(c)
    <2> DEFINE q == IF step[c] = "verifyStart" THEN on[c] ELSE protocol
    <2>1. /\ step[c] \in Exchanges \ {"tiStart"} /\ life' = life
          /\ UNCHANGED <<protocol, disconnect, reported, asked, stopping, orderly>>
          /\ Sends(c, Following[step[c]], q, life')
      BY <1>2 DEF Answered, Exchanges, streams, history
    <2>2. Following[step[c]] \in Exchanges
      BY <2>1, FollowingIs
    <2>3. q \in Calls /\ q <= protocol /\ (orderly => q = protocol)
      BY <1>0, <1>1, Known
    <2>4. life' \in [Calls -> Lives]
      BY <2>1, Known
    <2> HIDE DEF q
    <2> QED
      BY <1>0, <1>1, <2>1, <2>2, <2>3, <2>4, SendingKeeps
  <1>3. CASE SetUp(c)
    <2>1. /\ step[c] = "tiStart" /\ heartbeat' = c /\ intervals' = intervals \union {c}
          /\ step' = [step EXCEPT ![c] = IF life[protocol] = "up" THEN "fetch" ELSE "done"]
          /\ on' = [on EXCEPT ![c] = protocol] /\ life' = life
          /\ UNCHANGED <<protocol, disconnect, stopping, reported, asked, orderly>>
      BY <1>3 DEF SetUp, streams, history
    <2>2. /\ \A d \in Calls \ {c} : step'[d] = step[d] /\ on'[d] = on[d]
          /\ step'[c] = IF life[protocol] = "up" THEN "fetch" ELSE "done"
          /\ on'[c] = protocol /\ step[c] \in Exchanges
      BY <2>1, Known, Kinds
    <2>3. Fresh'
      BY <1>0, <2>1, <2>2, FreshStays
    <2>4. Connecting'
      BY <2>1, <2>2 DEF Inv, Connecting
    <2>5. Exchanging'
      <3> SUFFICES ASSUME NEW d \in Calls, step'[d] \in Asking
                   PROVE  on'[d] \in 1..protocol' /\ life'[on'[d]] = "up"
        BY DEF Exchanging
      <3>1. CASE d = c
        <4>1. life[protocol] = "up"
          BY <2>2, <3>1, Kinds
        <4>2. protocol \in 1..protocol
          BY <1>0, Known, CallsAre
        <4> QED
          BY <2>1, <2>2, <3>1, <4>1, <4>2
      <3>2. CASE d # c
        BY <2>1, <2>2, <3>2 DEF Inv, Exchanging
      <3> QED
        BY <3>1, <3>2
    <2>6. AskedMeans' /\ StoppingMeans' /\ EndedStaysClosed'
      BY <2>1, NothingReported
    <2>7. Orderly'
      <3> SUFFICES ASSUME orderly PROVE Alone'
        BY <2>1 DEF Orderly
      <3>1. Alone /\ c = protocol
        BY <1>1 DEF Inv, Orderly
      <3>2. \A d \in Calls \ {c} : step'[d] \in Over
        BY <2>2, <3>1 DEF Alone
      <3>3. \A d \in Calls : step'[d] \notin Exchanges \union {"connect"}
        BY <2>2, <3>2, Kinds
      <3>4. \A d \in Calls : step'[d] \in Asking \/ step'[d] \notin Over => d = c
        BY <3>2, Kinds
      <3> QED
        BY <2>1, <2>2, <3>1, <3>3, <3>4 DEF Alone
    <2>8. HeartbeatFollowsSession'
      BY <1>0, <1>1, <2>1, <2>2 DEF HeartbeatFollowsSession
    <2> QED
      BY <2>3, <2>4, <2>5, <2>6, <2>7, <2>8 DEF Core
  <1>4. CASE Fetched(c) \/ RequestFails(c)
    <2>1. /\ UNCHANGED <<protocol, disconnect, on, life, stopping, reported, asked, orderly>>
          /\ ClearHeartbeat \/ KeepHeartbeat
          /\ step' = [step EXCEPT ![c] = "done"] \/ step' = [step EXCEPT ![c] = "failed"]
      BY <1>4 DEF Fetched, RequestFails, session, streams, history, KeepHeartbeat
    <2>2. /\ \A d \in Calls \ {c} : step'[d] = step[d]
          /\ step'[c] \in Over /\ step'[c] \notin Asking /\ step'[c] # "connect"
      BY <2>1, Known, Kinds
    <2>3. Fresh'
      BY <1>0, <2>1, <2>2, FreshStays
    <2>4. Connecting'
      BY <2>1, <2>2 DEF Inv, Connecting
    <2>5. Exchanging'
      BY <2>1, <2>2, ExchangingStays DEF Inv, Exchanging
    <2>6. AskedMeans' /\ StoppingMeans' /\ EndedStaysClosed'
      BY <2>1, NothingReported
    <2>7. Orderly'
      <3>1. intervals' \subseteq intervals
        BY <2>1 DEF ClearHeartbeat, KeepHeartbeat
      <3> QED
        BY <2>1, <2>2, <3>1, EndingIsOrderly
    <2>8. HeartbeatFollowsSession'
      BY <2>1, HeartbeatStays, ClearedOrKept DEF Inv
    <2> QED
      BY <2>3, <2>4, <2>5, <2>6, <2>7, <2>8 DEF Core
  <1> QED
    BY <1>2, <1>3, <1>4 DEF Calling

\* A step of a stream that reports nothing, and sends nothing.
LEMMA EndingKeeps ==
  ASSUME Inv, UNCHANGED <<protocol, disconnect, on, reported, asked, orderly>>,
         stopping' \subseteq stopping, ClearHeartbeat \/ KeepHeartbeat,
         \A c \in Calls : step'[c] = step[c] \/ (step'[c] \in Over /\ step[c] # "idle"),
         \A q \in Calls : life[q] \in {"none", "closed"} => life'[q] = life[q],
         \A q \in stopping' : life'[q] = life[q],
         \A c \in Calls : step'[c] = "connect" =>
            /\ life'[c] \in {"opening", "waiting", "cancelled"}
            /\ life[c] = "cancelled" => life'[c] = "cancelled",
         \A c \in Calls : step'[c] \in Asking => life'[on[c]] = life[on[c]],
         KeepHeartbeat /\ ~disconnect /\ life[protocol] \in {"up", "broken"}
            => life'[protocol] \in {"up", "broken"}
  PROVE  Core'
  <1>1. \A c \in Calls : step'[c] \in Asking => step[c] \in Asking
    BY Kinds
  <1>2. Fresh'
    BY FreshStays
  <1>3. Connecting'
    BY DEF Connecting
  <1>4. Exchanging'
    BY <1>1, ExchangingStays DEF Inv, Exchanging
  <1>5. AskedMeans' /\ StoppingMeans' /\ EndedStaysClosed'
    BY NothingReported
  <1>6. Orderly'
    <2>1. intervals' \subseteq intervals
      BY DEF ClearHeartbeat, KeepHeartbeat
    <2> QED
      BY <2>1, EndingIsOrderly
  <1>7. HeartbeatFollowsSession'
    <2>1. orderly /\ intervals # {} => ~disconnect /\ life[protocol] \in {"up", "broken"}
      BY DEF Inv, HeartbeatFollowsSession
    <2> QED
      BY <2>1, HeartbeatStays
  <1> QED
    BY <1>2, <1>3, <1>4, <1>5, <1>6, <1>7 DEF Core

\* The calls that are left when the stream of p has closed wait for another.
LEMMA CloseSteps ==
  ASSUME Inv, NEW p \in Calls, StreamCloses(p) \/ PeerEnds(p)
  PROVE  /\ life[p] \in {"up", "broken", "dying", "ending", "cancelled"}
         /\ UNCHANGED <<protocol, on, asked, orderly>> /\ stopping' = stopping \ {p}
         /\ \A c \in Calls : step'[c] = step[c] \/ (step'[c] \in Over /\ step[c] # "idle")
         /\ \A c \in Calls : step'[c] \in Asking => step'[c] = step[c] /\ on[c] # p
         /\ step'[p] # "connect"
  <1>1. CASE StreamCloses(p)
    <2>1. /\ life[p] \in {"broken", "dying", "ending", "cancelled"}
          /\ UNCHANGED <<protocol, on, asked, orderly, stopping>>
          /\ step' = IF life[p] = "cancelled" /\ step[p] = "connect"
                     THEN [step EXCEPT ![p] = "hung"] ELSE step
      BY <1>1 DEF StreamCloses, history
    <2>2. \A c \in Calls : step'[c] = step[c] \/ (step'[c] \in Over /\ step[c] # "idle")
      BY <2>1, Known, Kinds
    <2>3. \A c \in Calls : step'[c] \in Asking => step'[c] = step[c] /\ on[c] # p
      BY <2>1, <2>2, Kinds DEF Inv, Exchanging
    <2>4. step'[p] # "connect"
      BY <2>1, Known DEF Inv, Connecting
    <2>5. p \notin stopping
      BY <2>1 DEF Inv, StoppingMeans
    <2> QED
      BY <2>1, <2>2, <2>3, <2>4, <2>5
  <1>2. CASE PeerEnds(p)
    <2>1. /\ life[p] = "up" /\ stopping' = stopping \ {p} /\ RejectExchanges(p)
          /\ UNCHANGED <<protocol, asked, orderly>>
      BY <1>2 DEF PeerEnds, history
    <2>2. /\ \A c \in Calls : step'[c] = step[c] \/ (step'[c] \in Over /\ step[c] \in Asking)
          /\ \A c \in Calls : step'[c] \in Asking => step'[c] = step[c] /\ on[c] # p
          /\ on' = on
      BY <2>1, Rejected DEF Inv
    <2>3. \A c \in Calls : step'[c] = step[c] \/ (step'[c] \in Over /\ step[c] # "idle")
      BY <2>2, Kinds
    <2>4. step'[p] # "connect"
      BY <2>1, <2>2, Kinds DEF Inv, Connecting
    <2> QED
      BY <2>1, <2>2, <2>3, <2>4
  <1> QED
    BY <1>1, <1>2

\* The end of the current stream, which is reported.
LEMMA OnCloseKeeps ==
  ASSUME Inv, NEW p \in Calls, StreamCloses(p) \/ PeerEnds(p), OnClose(p)
  PROVE  Core' /\ reported'[p] = <<p \notin asked>> /\ \A q \in Calls \ {p} : reported'[q] = reported[q]
  <1>1. /\ p = protocol /\ disconnect' = TRUE /\ life' = [life EXCEPT ![p] = "closed"]
        /\ reported' = [reported EXCEPT ![p] = Append(reported[p], ~disconnect)]
    BY Zenon DEF OnClose
  <1>2. /\ life'[p] = "closed" /\ \A q \in Calls \ {p} : life'[q] = life[q] /\ reported'[q] = reported[q]
        /\ reported'[p] = Append(reported[p], ~disconnect)
    BY <1>1, Known
  <1>3. reported[p] = <<>> /\ (disconnect <=> p \in asked)
    <2>1. life[p] # "closed"
      BY CloseSteps
    <2> QED
      BY <1>1, <2>1 DEF Inv, EndedStaysClosed, AskedMeans
  <1>4. reported'[p] = <<p \notin asked>>
    <2>1. reported'[p] = <<~disconnect>>
      BY <1>2, <1>3
    <2>2. (~disconnect) = (p \notin asked)
      BY <1>3
    <2> QED
      BY <2>1, <2>2, Zenon
  <1>5. reported'[p] # <<>>
    BY <1>4
  <1>6. Fresh'
    <2>1. \A q \in Calls : life[q] = "none" => life'[q] = "none" /\ reported'[q] = reported[q]
      BY <1>2, CloseSteps
    <2> QED
      BY <2>1, CloseSteps, FreshStays
  <1>7. Connecting'
    BY <1>2, CloseSteps, Kinds DEF Inv, Connecting
  <1>8. Exchanging'
    <2>1. \A c \in Calls : step'[c] \in Asking => step[c] \in Asking /\ life'[on[c]] = "up"
      BY <1>2, CloseSteps, Known DEF Inv, Exchanging
    <2> QED
      BY <2>1, CloseSteps, ExchangingStays
  <1>9. AskedMeans' /\ EndedStaysClosed'
    BY <1>1, <1>2, <1>5, CloseSteps DEF Inv, AskedMeans, EndedStaysClosed
  <1>10. StoppingMeans'
    <2>1. \A q \in stopping' : q \in Calls /\ q # p /\ life[q] = "up"
      BY CloseSteps, Known DEF Inv, StoppingMeans
    <2> QED
      BY <1>1, <1>2, <2>1 DEF StoppingMeans
  <1>11. ClearHeartbeat \/ (KeepHeartbeat /\ disconnect)
    BY <1>1 DEF StreamCloses, PeerEnds, CloseClears
  <1>12. Orderly'
    <2>1. intervals' \subseteq intervals
      BY <1>11 DEF ClearHeartbeat, KeepHeartbeat
    <2>2. ASSUME orderly, NEW c \in Calls PROVE step'[c] \notin Exchanges \union {"connect"}
      <3>1. /\ step'[c] \notin Over => step'[c] = step[c] /\ c = p
            /\ step'[c] \in Asking => on[c] = p
        BY <1>1, <2>2, CloseSteps DEF Inv, Orderly, Alone
      <3> QED
        BY <3>1, CloseSteps, Kinds
    <2>3. \A c \in Calls : step'[c] = "connect" => life'[c] = life[c]
      BY <1>2, CloseSteps
    <2>4. \A c \in Calls : step'[c] = step[c] \/ step'[c] \in Over
      BY CloseSteps
    <2>5. UNCHANGED <<protocol, on, orderly>>
      BY CloseSteps
    <2> QED
      BY <2>1, <2>2, <2>3, <2>4, <2>5, EndingIsOrderly
  <1>13. HeartbeatFollowsSession'
    <2> SUFFICES ASSUME orderly PROVE intervals' = {}
      BY CloseSteps DEF HeartbeatFollowsSession
    <2> QED
      BY <1>11, ClearedOrKept DEF Inv
  <1> QED
    BY <1>2, <1>4, <1>6, <1>7, <1>8, <1>9, <1>10, <1>12, <1>13 DEF Core

\* An attempt that fails, times out or is made again, of a stream that is not up.
LEMMA AttemptKeeps ==
  ASSUME Inv, NEW p \in Calls,
         \/ AttemptFails(p)
         \/ RetryFires(p)
         \/ TimesOut /\ p = protocol
         \/ StreamConnects(p) /\ step[p] # "connect"
  PROVE  Core'
  <1>1. /\ life[p] \in {"opening", "waiting", "cancelled"}
        /\ UNCHANGED <<protocol, disconnect, heartbeat, intervals, on, reported, asked, orderly, stopping>>
        /\ \A q \in Calls \ {p} : life'[q] = life[q]
    BY Known DEF AttemptFails, RetryArmed, RetryFires, TimesOut, StreamConnects, session, calls,
                 history, KeepHeartbeat
  <1>2. /\ \A c \in Calls : step'[c] = step[c] \/ (c = p /\ step'[c] = "failed" /\ step[c] = "connect")
        /\ step'[p] = "connect" => life'[p] \in {"opening", "waiting"} /\ life[p] # "cancelled"
    BY Known DEF AttemptFails, RetryArmed, RetryFires, TimesOut, StreamConnects, session, calls, ConnectThrows
  <1>3. \A c \in Calls : step'[c] = step[c] \/ (step'[c] \in Over /\ step[c] # "idle")
    BY <1>2, Kinds
  <1>4. \A c \in Calls : step'[c] = "connect" =>
            /\ life'[c] \in {"opening", "waiting", "cancelled"}
            /\ life[c] = "cancelled" => life'[c] = "cancelled"
    BY <1>1, <1>2 DEF Inv, Connecting
  <1>5. \A c \in Calls : step'[c] \in Asking => life'[on[c]] = life[on[c]]
    BY <1>1, <1>3, Known, Kinds DEF Inv, Exchanging
  <1>6. \A q \in stopping' : life'[q] = life[q]
    BY <1>1, Known DEF Inv, StoppingMeans
  <1>7. /\ \A q \in Calls : life[q] \in {"none", "closed"} => life'[q] = life[q]
        /\ life[protocol] \in {"up", "broken"} => life'[protocol] \in {"up", "broken"}
        /\ KeepHeartbeat /\ stopping' \subseteq stopping
    <2>1. life[protocol] \in {"up", "broken"} /\ protocol \in Calls => life'[protocol] = life[protocol]
      BY <1>1
    <2>2. protocol \in Calls
      BY <1>1, Known
    <2> QED
      BY <1>1, <2>1, <2>2 DEF KeepHeartbeat
  <1> QED
    BY <1>1, <1>3, <1>4, <1>5, <1>6, <1>7, EndingKeeps

LEMMA StreamingKeeps ==
  ASSUME Inv, NEW p \in Calls, Streaming(p)
  PROVE  Core'
  <1>1. CASE StreamConnects(p) /\ step[p] = "connect"
    <2>1. /\ life[p] \in {"opening", "cancelled"} /\ Sends(p, "verifyStart", protocol, life')
          /\ life' = [life EXCEPT ![p] = IF life[p] = "opening" THEN "up" ELSE "ending"]
          /\ UNCHANGED <<protocol, disconnect, stopping, reported, asked, orderly>>
      BY <1>1 DEF StreamConnects, history
    <2>2. /\ protocol \in Calls /\ protocol <= protocol /\ step[p] # "idle"
          /\ "verifyStart" \in Exchanges
      BY <1>1, <2>1, Known, Kinds
    <2>3. /\ life' \in [Calls -> Lives] /\ \A q \in Calls \ {p} : life'[q] = life[q]
          /\ life'[p] = "up" => life[p] # "cancelled"
      BY <2>1, Known DEF Lives
    <2>4. orderly => p = protocol /\ intervals = {} /\ (life'[p] = "up" => ~disconnect)
      BY <1>1, <2>3, Kinds DEF Inv, Orderly, Alone
    <2> QED
      BY <1>1, <2>1, <2>2, <2>3, <2>4, SendingKeeps
  <1>2. CASE (StreamConnects(p) /\ step[p] # "connect") \/ AttemptFails(p) \/ RetryFires(p)
    BY <1>2, AttemptKeeps
  <1>3. CASE StreamErrors(p) \/ Stops(p)
    <2>1. /\ UNCHANGED <<protocol, disconnect, reported, asked, orderly>>
          /\ stopping' = stopping \ {p} /\ RejectExchanges(p)
          /\ ClearHeartbeat \/ KeepHeartbeat
      BY <1>3 DEF StreamErrors, Stops, history, ClearRejected
    <2>2. life[p] = "up"
      BY <1>3 DEF StreamErrors, Stops, GracefulStopEnds, Inv, StoppingMeans
    <2>3. /\ \A q \in Calls \ {p} : life'[q] = life[q]
          /\ p \notin stopping => life'[p] = "broken"
      BY <1>3, Known DEF StreamErrors, Stops, GracefulStopEnds, StreamStopped
    <2>4. /\ \A c \in Calls : step'[c] = step[c] \/ (step'[c] \in Over /\ step[c] \in Asking)
          /\ \A c \in Calls : step'[c] \in Asking => step'[c] = step[c] /\ on[c] # p
          /\ on' = on
      BY <2>1, Rejected DEF Inv
    <2>5. \A c \in Calls : step'[c] = step[c] \/ (step'[c] \in Over /\ step[c] # "idle")
      BY <2>4, Kinds
    <2>6. \A c \in Calls : step'[c] = "connect" =>
              /\ life'[c] \in {"opening", "waiting", "cancelled"}
              /\ life[c] = "cancelled" => life'[c] = "cancelled"
      BY <2>2, <2>3, <2>5, Kinds DEF Inv, Connecting
    <2>7. \A c \in Calls : step'[c] \in Asking => life'[on[c]] = life[on[c]]
      BY <2>3, <2>4, Known
    <2>8. /\ \A q \in stopping' : life'[q] = life[q]
          /\ \A q \in Calls : life[q] \in {"none", "closed"} => life'[q] = life[q]
      BY <2>1, <2>2, <2>3, Known
    <2>9. ~disconnect /\ life[protocol] \in {"up", "broken"} => life'[protocol] \in {"up", "broken"}
      <3>1. CASE p = protocol
        BY <2>3, <3>1 DEF Inv, StoppingMeans
      <3>2. CASE p # protocol
        <4>1. protocol \in Calls
          BY <2>2, Known
        <4> QED
          BY <2>3, <3>2, <4>1
      <3> QED
        BY <3>1, <3>2
    <2> QED
      BY <2>1, <2>4, <2>5, <2>6, <2>7, <2>8, <2>9, EndingKeeps
  <1>4. CASE (StreamCloses(p) \/ PeerEnds(p)) /\ OnClose(p)
    BY <1>4, OnCloseKeeps
  <1>5. CASE (StreamCloses(p) \/ PeerEnds(p)) /\ CloseUnheard(p)
    <2>1. /\ p # protocol /\ UNCHANGED <<disconnect, reported>>
          /\ ClearHeartbeat \/ KeepHeartbeat
          /\ \A q \in Calls \ {p} : life'[q] = life[q]
      BY <1>5, Known DEF CloseUnheard, RetryArmed, StreamCloses, PeerEnds, CloseClears
    <2>2. \A c \in Calls : step'[c] = "connect" =>
              /\ life'[c] \in {"opening", "waiting", "cancelled"}
              /\ life[c] = "cancelled" => life'[c] = "cancelled"
      BY <1>5, <2>1, CloseSteps, Kinds DEF Inv, Connecting
    <2>3. \A c \in Calls : step'[c] \in Asking => life'[on[c]] = life[on[c]]
      <3>1. \A c \in Calls : step'[c] \in Asking => step[c] \in Asking /\ on[c] # p
        BY <1>5, CloseSteps
      <3> QED
        BY <2>1, <3>1, Known
    <2>4. /\ \A q \in stopping' : life'[q] = life[q]
          /\ \A q \in Calls : life[q] \in {"none", "closed"} => life'[q] = life[q]
          /\ stopping' \subseteq stopping
      BY <1>5, <2>1, CloseSteps, Known
    <2>5. life'[protocol] = life[protocol]
      <3>1. protocol \in Calls
        BY <1>5, CloseSteps, Known
      <3> QED
        BY <2>1, <3>1
    <2> QED
      BY <1>5, <2>1, <2>2, <2>3, <2>4, <2>5, CloseSteps, EndingKeeps
  <1> QED
    BY <1>1, <1>2, <1>3, <1>4, <1>5 DEF Streaming, StreamCloses, PeerEnds

-----------------------------------------------------------------------------
(* The theorems                                                            *)

LEMMA NextKeeps == Inv /\ [Next]_vars => Inv'
  <1> SUFFICES ASSUME Inv, [Next]_vars PROVE Inv'
    OBVIOUS
  <1>1. TypeOK'
    BY NextTypes DEF Inv
  <1>2. Core'
    <2>1. CASE Connect
      BY <2>1, ConnectKeeps
    <2>2. CASE Disconnect
      BY <2>2, DisconnectKeeps
    <2>3. CASE TimesOut
      <3>1. protocol \in Calls
        BY <2>3, Known DEF TimesOut
      <3> QED
        BY <2>3, <3>1, AttemptKeeps
    <2>4. ASSUME NEW c \in Calls, Calling(c) PROVE Core'
      BY <2>4, CallingKeeps
    <2>5. ASSUME NEW c \in Calls, Streaming(c) PROVE Core'
      BY <2>5, StreamingKeeps
    <2>6. CASE UNCHANGED vars
      BY <2>6 DEF vars, session, calls, streams, history, Inv, Core, Fresh, Connecting, Exchanging,
                  AskedMeans, StoppingMeans, EndedStaysClosed, Orderly, Alone, HeartbeatFollowsSession
    <2> QED
      BY <2>1, <2>2, <2>3, <2>4, <2>5, <2>6 DEF Next
  <1> QED
    BY <1>1, <1>2 DEF Core, Inv

\* The strengthened invariant, which no overlap of calls and closing streams breaks.
THEOREM Invariance == Spec => []Inv
  BY InitInv, NextKeeps, PTL DEF Spec

\* The fields of CompanionLinkManager keep their types.
THEOREM TypeCorrect == Spec => []TypeOK
  <1>1. Inv => TypeOK
    BY DEF Inv
  <1> QED
    BY <1>1, Invariance, PTL

\* disconnectSafely(), which onClose() calls, cancels the retry of its Connection: an
\* ended session does not come back to life.
THEOREM EndedForGood == Spec => []EndedStaysClosed
  <1>1. Inv => EndedStaysClosed
    BY DEF Inv
  <1> QED
    BY <1>1, Invariance, PTL

\* With calls that do not overlap, #heartbeatInterval never loses an interval, and none
\* outlives its session (#setup, disconnect() and onClose()).
THEOREM OneHeartbeat == Spec => []HeartbeatFollowsSession
  <1>1. Inv => HeartbeatFollowsSession
    BY DEF Inv
  <1> QED
    BY <1>1, Invariance, PTL

\* onClose() tells 'disconnected' once per session, and unexpected exactly if no
\* disconnect() had been called on it.
THEOREM Reports == Spec => ReportedAsAsked
  <1>1. ASSUME Inv, [Next]_vars
        PROVE  [\A p \in Calls : reported'[p] # reported[p] => reported'[p] = <<p \notin asked>>]_vars
    <2> SUFFICES ASSUME NEW p \in Calls, reported'[p] # reported[p]
                 PROVE  reported'[p] = <<p \notin asked>>
      OBVIOUS
    <2>1. PICK q \in Calls : (StreamCloses(q) \/ PeerEnds(q)) /\ OnClose(q)
      BY <1>1 DEF Next, Calling, Streaming, vars, Connect, Disconnect, TimesOut, Answered, SetUp,
                  Fetched, RequestFails, StreamConnects, AttemptFails, RetryFires, StreamErrors,
                  Stops, StreamCloses, PeerEnds, CloseUnheard
    <2> QED
      BY <1>1, <2>1, OnCloseKeeps
  <1> QED
    BY <1>1, Invariance, PTL DEF Spec, ReportedAsAsked
=============================================================================
