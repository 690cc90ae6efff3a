------------------------ MODULE AirPlayManagerProofs ------------------------
(***************************************************************************)
(* Proofs that AirPlayManager keeps its safety properties, for any number  *)
(* of sessions and of retries.                                             *)
(*                                                                         *)
(* Where the setup is says how far the streams have come and which of them *)
(* are heard: Running, until the session has ended.  Then Ended: nothing   *)
(* of it is left but the stream that the setup, which does not know yet,   *)
(* may be opening.  Told is about the events and what the history knows.   *)
(***************************************************************************)
EXTENDS AirPlayManager, TLAPS, SequenceTheorems

Gone    == {"none", "dying", "closed"}
Pending == {"opening", "waiting"}

\* The streams whose 'close' the setup has begun to observe.
Heard ==
    {"control"} \union (IF step \in {"dataSetup", "dataConnect", "deviceInfo", "idle"}
                        THEN {"event"} ELSE {})
                \union (IF step \in {"deviceInfo", "idle"} THEN {"data"} ELSE {})

\* Sessions that were replaced, and those to come.
Others == \A p \in 0..MaxSessions, k \in Streams :
    /\ p < protocol => life[p][k] \in Gone
    /\ p > protocol => life[p][k] = "none"

Told ==
    /\ \A p \in asked \union established : p <= protocol
    /\ protocol \in established => step = "idle"
    /\ ~disconnect => protocol \notin asked
    /\ \A p \in Sessions : p > protocol => reported[p] = <<>>
    /\ ReportedOnce

Opening == \A k \in Streams : Opens(k) => streams[k] \in Pending

Ended == disconnect =>
    /\ closeListeners = {} /\ prev = 0 /\ ~feedback /\ nowPlaying = 0 /\ ~ready
    /\ step # "connect"
    /\ \A k \in Streams : Opens(k) \/ streams[k] \in Gone

Running == ~disconnect =>
    /\ protocol # 0 /\ step # "hung" /\ (ready <=> step = "idle")
    /\ closeListeners = {protocol} \X Heard
    /\ IF step \in {"deviceInfo", "idle"} THEN prev = protocol /\ feedback ELSE prev = 0 /\ ~feedback
    /\ nowPlaying = IF step = "idle" THEN 1 ELSE 0
    /\ \A k \in Streams : \/ Opens(k)
                          \/ k \in Heard /\ streams[k] \in Connected
                          \/ k \notin Heard /\ streams[k] = "none"
                          \/ k = "event" /\ step = "record"

Inv == TypeOK /\ Others /\ Told /\ Opening /\ Ended /\ Running

-----------------------------------------------------------------------------
(* The steps of the setup, and the streams                                 *)

\* What each step of the setup waits for.
LEMMA StepsAre ==
  /\ DOMAIN Connecting = {"connect", "eventConnect", "dataConnect"}
  /\ DOMAIN Requesting = {"info", "verify", "pairing", "transient", "eventSetup", "record",
                          "dataSetup", "deviceInfo"}
  /\ Steps = {"idle", "hung", "connect", "eventConnect", "dataConnect", "info", "verify", "pairing",
              "transient", "eventSetup", "record", "dataSetup", "deviceInfo"}
  /\ \A k \in Streams : Opens(k) <=> \/ step = "connect" /\ k = "control"
                                     \/ step = "eventConnect" /\ k = "event"
                                     \/ step = "dataConnect" /\ k = "data"
  /\ \A k \in Streams : Asks(k) <=> \/ step = "deviceInfo" /\ k = "data"
                                    \/ /\ step \in {"info", "verify", "pairing", "transient",
                                                    "eventSetup", "record", "dataSetup"}
                                       /\ k = "control"
  <1>1. /\ DOMAIN Connecting = {"connect", "eventConnect", "dataConnect"}
        /\ Connecting["connect"] = "control" /\ Connecting["eventConnect"] = "event"
        /\ Connecting["dataConnect"] = "data"
    BY DEF Connecting
  <1>2. /\ DOMAIN Requesting = {"info", "verify", "pairing", "transient", "eventSetup", "record",
                                "dataSetup", "deviceInfo"}
        /\ \A s \in DOMAIN Requesting :
              Requesting[s] = IF s = "deviceInfo" THEN "data" ELSE "control"
    BY DEF Requesting
  <1>3. Steps = {"idle", "hung"} \union DOMAIN Connecting \union DOMAIN Requesting
    BY DEF Steps
  <1>4. \A k \in Streams : Opens(k) <=> \/ step = "connect" /\ k = "control"
                                        \/ step = "eventConnect" /\ k = "event"
                                        \/ step = "dataConnect" /\ k = "data"
    BY <1>1 DEF Opens
  <1>5. \A k \in Streams : Asks(k) <=> \/ step = "deviceInfo" /\ k = "data"
                                       \/ /\ step \in {"info", "verify", "pairing", "transient",
                                                       "eventSetup", "record", "dataSetup"}
                                          /\ k = "control"
    BY <1>2 DEF Asks
  <1> QED
    BY <1>1, <1>2, <1>3, <1>4, <1>5

\* The same after a step.
LEMMA OpensNext ==
  \A k \in Streams :
     Opens(k)' <=> \/ step' = "connect" /\ k = "control"
                   \/ step' = "eventConnect" /\ k = "event"
                   \/ step' = "dataConnect" /\ k = "data"
  <1>1. /\ DOMAIN Connecting = {"connect", "eventConnect", "dataConnect"}
        /\ Connecting["connect"] = "control" /\ Connecting["eventConnect"] = "event"
        /\ Connecting["dataConnect"] = "data"
    BY DEF Connecting
  <1> QED
    BY <1>1 DEF Opens

LEMMA BoundsAre == /\ MaxSessions \in Nat \ {0} /\ RetryAttempts \in Nat \ {0}
                   /\ \A p : p \in Sessions <=> p \in 0..MaxSessions /\ p # 0
  BY BoundsAssumption DEF Sessions

LEMMA InitInv == Init => Inv
  <1> SUFFICES ASSUME Init PROVE Inv
    OBVIOUS
  <1>1. streams = [k \in Streams |-> "none"] /\ \A p \in 0..MaxSessions, k \in Streams : life[p][k] = "none"
    BY BoundsAre DEF Init, streams
  <1>2. TypeOK
    <2>1. <<>> \in Seq(BOOLEAN) /\ "idle" \in Steps
      BY EmptySeq, StepsAre
    <2> QED
      BY <2>1, BoundsAre DEF Init, TypeOK, Lives
  <1>3. Others /\ Told
    BY <1>1, BoundsAre DEF Init, Others, Told, ReportedOnce, Gone
  <1>4. Opening /\ Ended /\ Running
    BY <1>1, StepsAre DEF Init, Opening, Ended, Running, Gone
  <1> QED
    BY <1>2, <1>3, <1>4 DEF Inv

\* The streams of the current session after a step that touches no other.
LEMMA StreamsAre ==
  ASSUME Inv
  PROVE  /\ protocol \in 0..MaxSessions /\ protocol \in Nat /\ streams \in [Streams -> Lives]
         /\ (protocol # 0 => protocol \in Sessions)
         /\ life' = life => life' = [life EXCEPT ![protocol] = streams]
         /\ \A k \in Streams : \A x : life' = [life EXCEPT ![protocol][k] = x]
               => life' = [life EXCEPT ![protocol] = [streams EXCEPT ![k] = x]]
         /\ \A s : life' = [life EXCEPT ![protocol] = s] /\ protocol' = protocol => streams' = s
         /\ \A s \in [Streams -> Lives] : life' = [life EXCEPT ![protocol] = s]
               => life' \in [0..MaxSessions -> [Streams -> Lives]]
         /\ \A s : life' = [life EXCEPT ![protocol] = s] /\ protocol' = protocol /\ Others => Others'
  <1>1. protocol \in 0..MaxSessions /\ life \in [0..MaxSessions -> [Streams -> Lives]]
    BY DEF Inv, TypeOK
  <1>2. \A s : life' = [life EXCEPT ![protocol] = s] =>
          life'[protocol] = s /\ \A p \in 0..MaxSessions \ {protocol} : life'[p] = life[p]
    BY <1>1
  <1> QED
    BY <1>1, <1>2, BoundsAre DEF streams, Others

\* Protocol.disconnect() leaves nothing.
LEMMA DestroyedIsGone ==
  ASSUME NEW s \in [Streams -> Lives]
  PROVE  /\ Destroyed(s) \in [Streams -> Lives]
         /\ \A k \in Streams : Destroyed(s)[k] \in Gone
  BY DEF Destroyed, Lives, Gone

-----------------------------------------------------------------------------
(* The ends of a session                                                   *)

LEMMA EndKeeps ==
  ASSUME Inv, ~disconnect, NEW unexpected \in BOOLEAN, NEW s \in [Streams -> Lives],
         EndSession(unexpected, s), UNCHANGED <<protocol, established>>,
         step' \in {"idle", "hung"} \union DOMAIN Requesting, step = "idle" => step' = "idle",
         retries' \in 0..RetryAttempts, reused' \subseteq Sessions,
         IF unexpected THEN asked' = asked
                       ELSE \/ asked' = asked /\ step # "idle"
                            \/ asked' = asked \union {protocol}
  PROVE  Inv'
  <1>1. /\ disconnect' = TRUE /\ ready' = FALSE /\ closeListeners' = {} /\ prev' = 0
        /\ feedback' = FALSE /\ nowPlaying' = 0
        /\ life' = [life EXCEPT ![protocol] = Destroyed(s)]
        /\ reported' = [reported EXCEPT ![protocol] = Append(reported[protocol], unexpected)]
    <2>1. nowPlaying \in {0, 1}
      BY DEF Inv, Running
    <2> QED
      BY <2>1 DEF EndSession, Unsubscribed
  <1>2. /\ protocol \in Sessions /\ protocol \in Nat /\ reported[protocol] = <<>> /\ protocol \notin asked
        /\ \A p \in asked \union established : p <= protocol
        /\ protocol \in established => step = "idle"
    <2>1. protocol \in Sessions /\ protocol \in Nat /\ protocol # 0
      BY StreamsAre DEF Inv, Running
    <2>2. protocol \in 1..protocol
      BY <2>1
    <2> QED
      BY <2>1, <2>2 DEF Inv, Told, ReportedOnce
  <1>3. /\ reported'[protocol] = <<unexpected>>
        /\ \A p \in Sessions \ {protocol} : reported'[p] = reported[p]
    BY <1>1, <1>2 DEF Inv, TypeOK
  <1>4. streams' = Destroyed(s) /\ Others' /\ life' \in [0..MaxSessions -> [Streams -> Lives]]
    BY <1>1, StreamsAre, DestroyedIsGone DEF Inv
  <1>5. TypeOK'
    <2>1. reported' \in [Sessions -> Seq(BOOLEAN)]
      BY <1>1, <1>2 DEF Inv, TypeOK
    <2>2. asked' \subseteq Sessions /\ step' \in Steps
      BY <1>2, StepsAre DEF Inv, TypeOK
    <2>3. /\ protocol' \in 0..MaxSessions /\ prev' \in 0..MaxSessions /\ nowPlaying' \in Nat
          /\ closeListeners' \subseteq Sessions \X Streams /\ established' \subseteq Sessions
      BY <1>1, BoundsAre DEF Inv, TypeOK
    <2>4. disconnect' \in BOOLEAN /\ ready' \in BOOLEAN /\ feedback' \in BOOLEAN
      BY <1>1
    <2> QED
      BY <1>4, <2>1, <2>2, <2>3, <2>4 DEF TypeOK
  <1>6. Told'
    <2>1. \A p \in asked' \union established' : p <= protocol'
      BY <1>2
    <2>2. ReportedOnce'
      <3> SUFFICES ASSUME NEW p \in 1..protocol
                   PROVE  \/ reported'[p] = <<TRUE>> /\ p \notin asked'
                          \/ reported'[p] = <<FALSE>> /\ (p \in asked' \/ p \notin established')
        BY <1>1 DEF ReportedOnce
      <3>0. p \in Sessions
        BY <1>2, BoundsAre DEF Sessions
      <3>1. CASE p = protocol
        BY <1>2, <1>3, <3>1
      <3>2. CASE p # protocol
        BY <1>3, <3>0, <3>2 DEF Inv, Told, ReportedOnce
      <3> QED
        BY <3>1, <3>2
    <2>3. \A p \in Sessions : p > protocol' => reported'[p] = <<>>
      BY <1>2, <1>3 DEF Inv, Told
    <2> QED
      BY <1>1, <1>2, <2>1, <2>2, <2>3 DEF Told
  <1>7. \A k \in Streams : ~Opens(k)'
    BY StepsAre DEF Opens
  <1>8. Opening' /\ Ended' /\ Running'
    BY <1>1, <1>4, <1>7, DestroyedIsGone, StepsAre DEF Opening, Ended, Running
  <1> QED
    BY <1>4, <1>5, <1>6, <1>8 DEF Inv

\* Where a teardown leaves the setup: no longer opening a stream.
LEMMA AfterDestroyIs ==
  ASSUME Inv
  PROVE  /\ AfterDestroy(streams) \in {"idle", "hung"} \union DOMAIN Requesting
         /\ step = "idle" => AfterDestroy(streams) = "idle"
  <1>1. \A k \in Streams : Opens(k) => streams[k] \in {"opening", "waiting"}
    BY DEF Inv, Opening, Pending
  <1>2. step \in Steps
    BY DEF Inv, TypeOK
  <1>3. ASSUME NEW k \in Streams, Opens(k)
        PROVE  AfterDestroy(streams) \in {"idle", "hung"} /\ step # "idle"
    BY <1>1, <1>3, StepsAre DEF AfterDestroy
  <1>4. ASSUME \A k \in Streams : ~Opens(k)
        PROVE  AfterDestroy(streams) = step /\ step \notin DOMAIN Connecting
    <2>1. AfterDestroy(streams) = step
      BY <1>4 DEF AfterDestroy
    <2> QED
      BY <1>4, <2>1, StepsAre DEF Streams
  <1>5. CASE \E k \in Streams : Opens(k)
    BY <1>3, <1>5
  <1>6. CASE \A k \in Streams : ~Opens(k)
    BY <1>2, <1>4, <1>6, StepsAre
  <1> QED
    BY <1>5, <1>6

\* A step that ends nothing keeps what was told, and touches the current session.
LEMMA GoingOn ==
  ASSUME Inv, NEW s \in [Streams -> Lives], life' = [life EXCEPT ![protocol] = s],
         UNCHANGED <<protocol, disconnect, reported, asked, established>>,
         step' \in Steps, retries' \in 0..RetryAttempts,
         closeListeners' \subseteq Sessions \X Streams, prev' \in 0..MaxSessions,
         feedback' \in BOOLEAN, ready' \in BOOLEAN, nowPlaying' \in Nat, reused' \subseteq Sessions,
         protocol \in established => step' = "idle",
         streams' = s => Opening' /\ Ended' /\ Running'
  PROVE  Inv'
  <1>1. Others' /\ streams' = s /\ life' \in [0..MaxSessions -> [Streams -> Lives]]
    BY StreamsAre DEF Inv
  <1>2. TypeOK'
    BY <1>1 DEF Inv, TypeOK
  <1>3. Told'
    BY DEF Inv, Told, ReportedOnce
  <1> QED
    BY <1>1, <1>2, <1>3 DEF Inv

\* The types that a step leaving the flags alone keeps.
LEMMA FlagTypes ==
  ASSUME TypeOK, UNCHANGED flags
  PROVE  /\ closeListeners' \subseteq Sessions \X Streams /\ prev' \in 0..MaxSessions
         /\ feedback' \in BOOLEAN /\ ready' \in BOOLEAN /\ nowPlaying' \in Nat
         /\ UNCHANGED <<disconnect, ready, closeListeners, prev, feedback, nowPlaying, reported>>
  BY DEF TypeOK, flags

LEMMA FailKeeps ==
  ASSUME Inv, NEW s \in [Streams -> Lives], Fail(s), step # "idle", UNCHANGED <<protocol, history>>,
         retries' \in 0..RetryAttempts
  PROVE  Inv'
  <1>1. /\ step' = "idle" /\ UNCHANGED <<asked, established, reused>>
        /\ reused' \subseteq Sessions /\ "idle" \in Steps
    BY StepsAre DEF Fail, history, Inv, TypeOK
  <1>2. CASE ~disconnect
    <2>1. EndSession(FALSE, s)
      BY <1>2 DEF Fail
    <2> QED
      BY <1>1, <1>2, <2>1, EndKeeps
  <1>3. CASE disconnect
    <2>1. life' = [life EXCEPT ![protocol] = Destroyed(s)] /\ UNCHANGED flags
      BY <1>3 DEF Fail
    <2>2. /\ closeListeners' \subseteq Sessions \X Streams /\ prev' \in 0..MaxSessions
          /\ feedback' \in BOOLEAN /\ ready' \in BOOLEAN /\ nowPlaying' \in Nat
          /\ UNCHANGED <<disconnect, ready, closeListeners, prev, feedback, nowPlaying, reported>>
      BY <2>1, FlagTypes DEF Inv
    <2>3. ASSUME streams' = Destroyed(s) PROVE Opening' /\ Ended' /\ Running'
      <3>1. \A k \in Streams : ~Opens(k)'
        BY <1>1, StepsAre DEF Opens
      <3> QED
        BY <1>1, <1>3, <2>2, <2>3, <3>1, DestroyedIsGone DEF Inv, Opening, Ended, Running
    <2> QED
      BY <1>1, <2>1, <2>2, <2>3, DestroyedIsGone, GoingOn
  <1> QED
    BY <1>2, <1>3

-----------------------------------------------------------------------------
(* connect() and disconnect()                                              *)

LEMMA StartKeeps ==
  ASSUME Inv, Connect \/ Reconnect
  PROVE  Inv'
  <1> DEFINE new   == protocol + 1
             ended == IF disconnect THEN life ELSE [life EXCEPT ![protocol] = Destroyed(streams)]
             first == [life[new] EXCEPT !.control = "opening"]
  <1>1. /\ step = "idle" /\ protocol' = new /\ step' = "connect" /\ retries' = 0
        /\ life' = [ended EXCEPT ![new] = [ended[new] EXCEPT !.control = "opening"]]
        /\ disconnect' = FALSE /\ ready' = FALSE /\ closeListeners' = {<<new, "control">>}
        /\ UNCHANGED <<established, reused>>
    BY DEF Connect, Reconnect, Start, history
  <1>2. /\ protocol \in Nat /\ protocol \in 0..MaxSessions /\ new \in 0..MaxSessions
        /\ new \in Sessions /\ new > protocol /\ streams \in [Streams -> Lives]
        /\ (protocol # 0 => protocol \in Sessions)
    <2>1. protocol < MaxSessions
      BY DEF Connect, Reconnect, Start
    <2> QED
      BY <2>1, StreamsAre, BoundsAre
  <1>3. prev' = 0 /\ ~feedback' /\ feedback' \in BOOLEAN /\ nowPlaying' = 0
    <2>1. CASE disconnect
      <3>1. prev = 0 /\ ~feedback /\ feedback \in BOOLEAN /\ nowPlaying = 0
        BY <2>1 DEF Inv, Ended, TypeOK
      <3>2. UNCHANGED <<prev, feedback, nowPlaying>>
        BY <2>1 DEF Connect, Reconnect
      <3> QED
        BY <3>1, <3>2
    <2>2. CASE ~disconnect
      <3>1. nowPlaying = 1
        BY <1>1, <2>2 DEF Inv, Running
      <3>2. prev' = 0 /\ feedback' = FALSE /\ nowPlaying' = Unsubscribed
        BY <2>2 DEF Connect, Reconnect
      <3>3. ~feedback' /\ feedback' \in BOOLEAN
        BY <3>2, Zenon
      <3>4. nowPlaying' = 0
        BY <3>1, <3>2 DEF Unsubscribed
      <3> QED
        BY <3>2, <3>3, <3>4, Zenon
    <2> QED
      BY <2>1, <2>2
  <1>4. /\ disconnect => reported' = reported /\ asked' = asked
        /\ ~disconnect => /\ reported' = [reported EXCEPT ![protocol] = Append(reported[protocol], FALSE)]
                          /\ asked' = asked \union {protocol} /\ protocol \in Sessions
    BY <1>2 DEF Connect, Reconnect, history, Inv, Running
  <1> HIDE DEF new, ended
  <1>5. /\ ended \in [0..MaxSessions -> [Streams -> Lives]] /\ ended[new] = life[new]
        /\ \A k \in Streams : ended[protocol][k] \in Gone
        /\ \A p \in 0..MaxSessions \ {protocol} : ended[p] = life[p]
    <2>1. life \in [0..MaxSessions -> [Streams -> Lives]]
      BY DEF Inv, TypeOK
    <2>2. CASE disconnect
      <3>1. \A k \in Streams : ~Opens(k)
        BY <1>1, StepsAre
      <3> QED
        BY <2>1, <2>2, <3>1 DEF ended, Inv, Ended, streams
    <2>3. CASE ~disconnect
      <3>1. Destroyed(streams) \in [Streams -> Lives] /\ \A k \in Streams : Destroyed(streams)[k] \in Gone
        BY <1>2, DestroyedIsGone
      <3> QED
        BY <1>2, <2>1, <2>3, <3>1 DEF ended
    <2> QED
      BY <2>2, <2>3
  <1>6. \A k \in Streams : life[new][k] = "none"
    BY <1>2 DEF Inv, Others
  <1>7. /\ life' \in [0..MaxSessions -> [Streams -> Lives]]
        /\ streams' = [life[new] EXCEPT !.control = "opening"]
        /\ \A p \in 0..MaxSessions \ {new} : life'[p] = ended[p]
    <2>1. life[new] \in [Streams -> Lives] /\ "opening" \in Lives
      BY <1>2 DEF Inv, TypeOK, Lives
    <2>2. [life[new] EXCEPT !.control = "opening"] \in [Streams -> Lives]
      BY <2>1
    <2> QED
      BY <1>1, <1>2, <1>5, <2>2 DEF streams
  <1>8. \A k \in Streams : streams'[k] = IF k = "control" THEN "opening" ELSE "none"
    <2>1. life[new] \in [Streams -> Lives]
      BY <1>2 DEF Inv, TypeOK
    <2> QED
      BY <1>6, <1>7, <2>1
  <1>9. Others'
    <2> SUFFICES ASSUME NEW p \in 0..MaxSessions, NEW k \in Streams
                 PROVE  (p < new => life'[p][k] \in Gone) /\ (p > new => life'[p][k] = "none")
      BY <1>1 DEF Others
    <2>1. CASE p = new
      BY <1>2, <2>1
    <2>2. CASE p = protocol
      BY <1>2, <1>5, <1>7, <2>2
    <2>3. CASE p # new /\ p # protocol
      <3>1. life'[p] = life[p] /\ (p < new => p < protocol) /\ (p > new => p > protocol)
        BY <1>2, <1>5, <1>7, <2>3 DEF new
      <3> QED
        BY <3>1 DEF Inv, Others
    <2> QED
      BY <2>1, <2>2, <2>3
  <1>10. /\ \A p \in Sessions \ {protocol} : reported'[p] = reported[p]
         /\ ~disconnect => reported[protocol] = <<>> /\ reported'[protocol] = <<FALSE>>
         /\ disconnect => reported' = reported /\ asked' = asked
         /\ asked' \subseteq asked \union {protocol} /\ asked \subseteq asked'
         /\ ~disconnect => protocol \in asked'
         /\ reported' \in [Sessions -> Seq(BOOLEAN)] /\ asked' \subseteq Sessions
    <2>1. reported \in [Sessions -> Seq(BOOLEAN)] /\ asked \subseteq Sessions
      BY DEF Inv, TypeOK
    <2>2. CASE disconnect
      BY <1>4, <2>1, <2>2
    <2>3. CASE ~disconnect
      <3>1. protocol \in Sessions /\ protocol \in 1..protocol
        BY <1>2, <1>4, <2>3, BoundsAre
      <3>2. reported[protocol] = <<>>
        BY <2>3, <3>1 DEF Inv, Told, ReportedOnce
      <3>3. reported' = [reported EXCEPT ![protocol] = <<FALSE>>] /\ asked' = asked \union {protocol}
        <4>1. Append(reported[protocol], FALSE) = <<FALSE>>
          BY <3>2
        <4> QED
          BY <1>4, <2>3, <4>1, Zenon
      <3>4. <<FALSE>> \in Seq(BOOLEAN)
        OBVIOUS
      <3> QED
        BY <2>1, <2>3, <3>1, <3>2, <3>3, <3>4
    <2> QED
      BY <2>2, <2>3
  <1>11. Told'
    <2>1. \A p \in asked' \union established' : p <= protocol /\ p <= new /\ p # new
      BY <1>1, <1>2, <1>10 DEF Inv, Told, TypeOK, Sessions, new
    <2>2. \A p \in Sessions : p > protocol => reported'[p] = <<>>
      BY <1>2, <1>10 DEF Inv, Told
    <2>3. ReportedOnce'
      <3> SUFFICES ASSUME NEW p \in 1..new
                   PROVE  IF p = new THEN reported'[p] = <<>>
                          ELSE \/ reported'[p] = <<TRUE>> /\ p \notin asked'
                               \/ reported'[p] = <<FALSE>> /\ (p \in asked' \/ p \notin established')
        BY <1>1 DEF ReportedOnce
      <3>1. CASE p = new
        BY <1>2, <2>2, <3>1
      <3>2. CASE p # new
        <4>1. p \in 1..protocol /\ p \in Sessions
          BY <1>2, <3>2, BoundsAre DEF new, Sessions
        <4>2. CASE p = protocol /\ ~disconnect
          BY <1>10, <3>2, <4>2
        <4>3. CASE ~(p = protocol /\ ~disconnect)
          <5>1. reported'[p] = reported[p] /\ (p \in asked' <=> p \in asked) /\ established' = established
            BY <1>1, <1>10, <4>1, <4>3
          <5> QED
            BY <3>2, <4>1, <4>3, <5>1 DEF Inv, Told, ReportedOnce
        <4> QED
          BY <4>2, <4>3
      <3> QED
        BY <3>1, <3>2
    <2>4. \A p \in Sessions : p > new => reported'[p] = <<>>
      BY <1>2, <2>2 DEF Sessions
    <2> QED
      BY <1>1, <1>2, <2>1, <2>3, <2>4 DEF Told
  <1>12. TypeOK'
    <2>1. closeListeners' \subseteq Sessions \X Streams /\ step' \in Steps /\ 0 \in 0..MaxSessions
          /\ 0 \in 0..RetryAttempts
      BY <1>1, <1>2, StepsAre, BoundsAre DEF Streams
    <2>2. established' \subseteq Sessions /\ reused' \subseteq Sessions
      BY <1>1 DEF Inv, TypeOK
    <2> QED
      BY <1>1, <1>2, <1>3, <1>7, <1>10, <2>1, <2>2 DEF TypeOK
  <1>13. Opening' /\ Ended' /\ Running'
    <2>1. \A k \in Streams : Opens(k)' <=> k = "control"
      BY <1>1, StepsAre DEF Opens, Connecting
    <2>2. Heard' = {"control"} /\ protocol' # 0
      BY <1>1, <1>2 DEF Heard
    <2> QED
      BY <1>1, <1>3, <1>8, <2>1, <2>2 DEF Opening, Ended, Running, Pending
  <1> QED
    BY <1>9, <1>11, <1>12, <1>13 DEF Inv

LEMMA DisconnectKeeps ==
  ASSUME Inv, Disconnect
  PROVE  Inv'
  <1>1. /\ ~disconnect /\ EndSession(FALSE, streams) /\ step' = AfterDestroy(streams)
        /\ asked' = asked \union {protocol} /\ UNCHANGED <<protocol, retries, established, reused>>
    BY DEF Disconnect
  <1>2. retries' \in 0..RetryAttempts /\ reused' \subseteq Sessions
    BY <1>1 DEF Inv, TypeOK
  <1> QED
    BY <1>1, <1>2, StreamsAre, AfterDestroyIs, EndKeeps

-----------------------------------------------------------------------------
(* The setup                                                               *)

\* What the setup knows of the streams while its session has not ended.
LEMMA RunningSays ==
  ASSUME Inv, ~disconnect
  PROVE  /\ protocol \in Sessions /\ protocol # 0 /\ step # "hung" /\ (ready <=> step = "idle")
         /\ closeListeners = {protocol} \X Heard
         /\ step \in {"deviceInfo", "idle"} => prev = protocol /\ feedback
         /\ step \notin {"deviceInfo", "idle"} => prev = 0 /\ ~feedback
         /\ nowPlaying = IF step = "idle" THEN 1 ELSE 0
         /\ IF step = "connect" THEN streams["control"] \in Pending
                                ELSE streams["control"] \in Connected
         /\ CASE step = "eventConnect" -> streams["event"] \in Pending
              [] step = "record" -> TRUE
              [] "event" \in Heard -> streams["event"] \in Connected
              [] OTHER -> streams["event"] = "none"
         /\ CASE step = "dataConnect" -> streams["data"] \in Pending
              [] "data" \in Heard -> streams["data"] \in Connected
              [] OTHER -> streams["data"] = "none"
  BY StreamsAre, StepsAre DEF Inv, Running, Opening, Heard, Streams

LEMMA AnswersKeep ==
  ASSUME Inv, Answers
  PROVE  Inv'
  <1>0. /\ retries \in 0..RetryAttempts /\ 0 \in 0..RetryAttempts /\ reused \subseteq Sessions
        /\ closeListeners \subseteq Sessions \X Streams /\ prev \in 0..MaxSessions
        /\ feedback \in BOOLEAN /\ ready \in BOOLEAN /\ nowPlaying \in Nat
        /\ streams \in [Streams -> Lives] /\ \A k \in Streams : streams[k] \in Lives
        /\ protocol \in established => step = "idle"
    BY BoundsAre, StreamsAre DEF Inv, TypeOK, Told
  <1>1. \A k \in Streams : Answered(k) => step # "idle" /\ ~Opens(k)
    BY StepsAre DEF Answered
  <1>2. CASE Interrupted
    <2>1. Fail(streams) /\ step # "idle" /\ UNCHANGED <<protocol, history>> /\ retries' \in 0..RetryAttempts
      BY <1>0, <1>1, <1>2 DEF Interrupted
    <2> QED
      BY <1>0, <2>1, FailKeeps
  <1>3. CASE Paired
    <2>1. /\ ~disconnect /\ step \in {"info", "pairing"} /\ step' \in {"verify", "pairing", "transient"}
          /\ life' = life /\ UNCHANGED <<protocol, retries, flags, asked, established, reused>>
      BY <1>3 DEF Paired, NextRequest, history
    <2>2. UNCHANGED <<disconnect, ready, closeListeners, prev, feedback, nowPlaying, reported>>
      BY <2>1 DEF flags
    <2>3. ASSUME streams' = streams PROVE Opening' /\ Ended' /\ Running'
      <3>1. Heard' = {"control"} /\ Heard = {"control"}
        BY <2>1 DEF Heard
      <3> QED
        BY <2>1, <2>2, <2>3, <3>1, RunningSays, OpensNext DEF Opening, Ended, Running, Streams
    <2>4. step' \in Steps /\ step # "idle" /\ life' = [life EXCEPT ![protocol] = streams]
      BY <2>1, StepsAre, StreamsAre
    <2> QED
      BY <1>0, <2>1, <2>2, <2>3, <2>4, GoingOn
  <1>4. CASE SetupStarts
    <2>1. /\ ~disconnect /\ step \in {"verify", "transient"} /\ step' = "eventSetup"
          /\ life' = life /\ nowPlaying' = Unsubscribed
          /\ UNCHANGED <<protocol, retries, disconnect, ready, closeListeners, prev, feedback, reported,
                         asked, established, reused>>
      BY <1>4 DEF SetupStarts, history
    <2>2. nowPlaying' = 0 /\ nowPlaying' \in Nat
      BY <2>1, RunningSays DEF Unsubscribed
    <2>3. ASSUME streams' = streams PROVE Opening' /\ Ended' /\ Running'
      <3>1. Heard' = {"control"} /\ Heard = {"control"}
        BY <2>1 DEF Heard
      <3> QED
        BY <2>1, <2>2, <2>3, <3>1, RunningSays, OpensNext DEF Opening, Ended, Running, Streams
    <2>4. step' \in Steps /\ step # "idle" /\ life' = [life EXCEPT ![protocol] = streams]
      BY <2>1, StepsAre, StreamsAre
    <2>5. /\ retries' \in 0..RetryAttempts /\ reused' \subseteq Sessions
          /\ closeListeners' \subseteq Sessions \X Streams /\ prev' \in 0..MaxSessions
          /\ feedback' \in BOOLEAN /\ ready' \in BOOLEAN
      BY <1>0, <2>1
    <2> QED
      BY <1>0, <2>1, <2>2, <2>3, <2>4, <2>5, GoingOn
  <1>5. ASSUME NEW k \in Streams, NEW from, NEW to, StreamOpens(from, k, to),
               \/ from = "eventSetup" /\ k = "event" /\ to = "eventConnect"
               \/ from = "dataSetup" /\ k = "data" /\ to = "dataConnect"
        PROVE  Inv'
    <2> DEFINE s == [streams EXCEPT ![k] = "opening"]
    <2>1. /\ step = from /\ step' = to /\ life' = [life EXCEPT ![protocol][k] = "opening"]
          /\ retries' = 0 /\ UNCHANGED <<protocol, flags, asked, established, reused>>
      BY <1>5 DEF StreamOpens, history
    <2>2. UNCHANGED <<disconnect, ready, closeListeners, prev, feedback, nowPlaying, reported>>
      BY <2>1 DEF flags
    <2>3. /\ s \in [Streams -> Lives] /\ life' = [life EXCEPT ![protocol] = s]
          /\ \A j \in Streams : s[j] = IF j = k THEN "opening" ELSE streams[j]
      BY <1>0, <2>1, StreamsAre DEF Lives
    <2> HIDE DEF s
    <2>4. ASSUME streams' = s PROVE Opening' /\ Ended' /\ Running'
      <3>1. Opening'
        BY <1>5, <2>1, <2>3, <2>4, OpensNext DEF Opening, Pending
      <3>2. CASE disconnect
        <4>1. \A j \in Streams : streams[j] \in Gone
          BY <1>5, <2>1, <3>2, StepsAre DEF Inv, Ended
        <4> QED
          BY <1>5, <2>1, <2>2, <2>3, <2>4, <3>1, <3>2, <4>1, OpensNext DEF Inv, Ended, Running
      <3>3. CASE ~disconnect
        <4>1. Heard' = Heard
          BY <1>5, <2>1 DEF Heard
        <4> QED
          BY <1>5, <2>1, <2>2, <2>3, <2>4, <3>1, <3>3, <4>1, RunningSays, OpensNext
             DEF Ended, Running, Streams, Heard
      <3> QED
        BY <3>2, <3>3
    <2>5. step' \in Steps /\ step # "idle"
      BY <1>5, <2>1, StepsAre
    <2> QED
      BY <1>0, <2>1, <2>2, <2>3, <2>4, <2>5, GoingOn
  <1>6. CASE Recorded
    <2>1. /\ ~disconnect /\ step = "record" /\ UNCHANGED <<protocol, retries, history>>
          /\ UNCHANGED <<asked, established, reused>>
      BY <1>6 DEF Recorded, history
    <2>2. CASE streams.event \in Connected
      <3>1. /\ step' = "dataSetup" /\ life' = life
            /\ closeListeners' = closeListeners \union {<<protocol, "event">>}
            /\ UNCHANGED <<disconnect, ready, prev, feedback, nowPlaying, reported>>
        BY <1>6, <2>2 DEF Recorded, Observes
      <3>2. closeListeners' = {protocol} \X {"control", "event"} /\ closeListeners' \subseteq Sessions \X Streams
        BY <2>1, <3>1, RunningSays DEF Heard, Streams
      <3>3. ASSUME streams' = streams PROVE Opening' /\ Ended' /\ Running'
        <4>1. Heard' = {"control", "event"} /\ "data" \notin Heard
          BY <2>1, <3>1 DEF Heard
        <4> QED
          BY <2>1, <2>2, <3>1, <3>2, <3>3, <4>1, RunningSays, OpensNext DEF Opening, Ended, Running, Streams
      <3>4. step' \in Steps /\ life' = [life EXCEPT ![protocol] = streams]
        BY <3>1, StepsAre, StreamsAre
      <3> QED
        BY <1>0, <2>1, <3>1, <3>2, <3>3, <3>4, GoingOn
    <2>3. CASE streams.event \notin Connected
      <3>1. Fail(streams)
        BY <1>6, <2>3 DEF Recorded
      <3> QED
        BY <1>0, <2>1, <3>1, FailKeeps
    <2> QED
      BY <2>2, <2>3
  <1>7. CASE Completed
    <2>1. /\ ~disconnect /\ step = "deviceInfo" /\ UNCHANGED <<protocol, retries, asked, reused>>
      BY <1>7 DEF Completed
    <2>2. \A k \in Streams : streams[k] \in Connected
      BY <2>1, RunningSays DEF Heard, Streams
    <2>3. /\ step' = "idle" /\ ready' = TRUE /\ nowPlaying' = nowPlaying + 1
          /\ established' = established \union {protocol} /\ life' = life
          /\ UNCHANGED <<disconnect, closeListeners, prev, feedback, reported>>
      BY <1>7, <2>2 DEF Completed
    <2>4. nowPlaying' = 1 /\ protocol \in Sessions
      BY <2>1, <2>3, RunningSays
    <2>5. life' = [life EXCEPT ![protocol] = streams] /\ streams' = streams /\ Others'
      BY <2>1, <2>3, StreamsAre DEF Inv
    <2>6. TypeOK'
      <3>1. established' \subseteq Sessions /\ step' \in Steps /\ nowPlaying' \in Nat
        BY <2>3, <2>4, StepsAre DEF Inv, TypeOK
      <3> QED
        BY <2>1, <2>3, <3>1 DEF Inv, TypeOK
    <2>7. Told'
      <3>1. ReportedOnce'
        BY <2>1, <2>3 DEF Inv, Told, ReportedOnce
      <3>2. protocol <= protocol
        BY StreamsAre
      <3> QED
        BY <2>1, <2>3, <3>1, <3>2 DEF Inv, Told
    <2>8. Opening' /\ Ended' /\ Running'
      <3>1. Heard' = Heard
        BY <2>1, <2>3 DEF Heard
      <3>2. Heard = Streams
        BY <2>1 DEF Heard, Streams
      <3> QED
        BY <2>1, <2>2, <2>3, <2>4, <2>5, <3>1, <3>2, RunningSays, OpensNext DEF Opening, Ended, Running
    <2> QED
      BY <2>5, <2>6, <2>7, <2>8 DEF Inv
  <1> QED
    BY <1>2, <1>3, <1>4, <1>5, <1>6, <1>7 DEF Answers, Streams

-----------------------------------------------------------------------------
(* The streams                                                             *)

\* A step of the streams alone.  What is heard stays connected, what the setup opens
\* stays on its way, and the event stream may do anything while the RECORD is pending.
LEMMA StreamGoes ==
  ASSUME Inv, NEW s \in [Streams -> Lives], life' = [life EXCEPT ![protocol] = s],
         UNCHANGED <<protocol, step, flags, asked, established>>,
         retries' \in 0..RetryAttempts, reused' \subseteq Sessions,
         \A k \in Streams : \/ s[k] = streams[k]
                            \/ Opens(k) /\ s[k] \in Pending
                            \/ ~disconnect /\ ~Opens(k) /\ streams[k] \in Connected /\ s[k] \in Connected
                            \/ disconnect /\ ~Opens(k) /\ s[k] \in Gone
                            \/ ~disconnect /\ k = "event" /\ step = "record"
  PROVE  Inv'
  <1>1. /\ closeListeners' \subseteq Sessions \X Streams /\ prev' \in 0..MaxSessions
        /\ feedback' \in BOOLEAN /\ ready' \in BOOLEAN /\ nowPlaying' \in Nat
        /\ UNCHANGED <<disconnect, ready, closeListeners, prev, feedback, nowPlaying, reported>>
    BY FlagTypes DEF Inv
  <1>2. step' \in Steps /\ (protocol \in established => step' = "idle")
    BY DEF Inv, TypeOK, Told
  <1>3. ASSUME streams' = s PROVE Opening' /\ Ended' /\ Running'
    <2>1. \A k \in Streams : Opens(k)' <=> Opens(k)
      BY OpensNext, StepsAre
    <2>2. Heard' = Heard
      BY DEF Heard
    <2>3. \A k \in Streams : Opens(k) /\ k = "event" => step # "record"
      BY StepsAre
    <2>4. Opening'
      BY <1>3, <2>1, <2>3 DEF Inv, Opening
    <2>5. Ended'
      BY <1>1, <1>3, <2>1 DEF Inv, Ended
    <2>6. Running'
      <3>1. ASSUME ~disconnect, NEW k \in Streams
            PROVE  \/ Opens(k)
                   \/ k \in Heard /\ s[k] \in Connected
                   \/ k \notin Heard /\ s[k] = "none"
                   \/ k = "event" /\ step = "record"
        BY <3>1 DEF Inv, Running, Connected
      <3> QED
        BY <1>1, <1>3, <2>1, <2>2, <3>1 DEF Inv, Running
    <2> QED
      BY <2>4, <2>5, <2>6
  <1> QED
    BY <1>1, <1>2, <1>3, GoingOn

\* A stream that is neither on its way for the setup nor gone: nobody has ended the
\* session, and it is heard, or it is the event stream before the RECORD is answered.
LEMMA LiveStream ==
  ASSUME Inv, NEW k \in Streams, streams[k] \notin Gone, ~Opens(k)
  PROVE  /\ ~disconnect
         /\ \/ k \in Heard /\ <<protocol, k>> \in closeListeners /\ streams[k] \in Connected
            \/ k = "event" /\ step = "record"
  <1>1. ~disconnect
    BY DEF Inv, Ended
  <1>2. k \in Heard => <<protocol, k>> \in closeListeners
    BY <1>1, RunningSays
  <1> QED
    BY <1>1, <1>2 DEF Inv, Running, Gone

LEMMA ConnectsKeep ==
  ASSUME Inv, Connects
  PROVE  Inv'
  <1>0. /\ 0 \in 0..RetryAttempts /\ reused \subseteq Sessions /\ streams \in [Streams -> Lives]
        /\ closeListeners \subseteq Sessions \X Streams /\ prev \in 0..MaxSessions
        /\ protocol \in established => step = "idle"
        /\ "control" \in Streams /\ "event" \in Streams /\ "data" \in Streams
    BY BoundsAre, StreamsAre DEF Inv, TypeOK, Told, Streams
  <1>1. \A k \in Streams : Up(k) \in [Streams -> Lives] /\ \A j \in Streams :
             Up(k)[j] = IF j = k THEN "up" ELSE streams[j]
    BY <1>0 DEF Up, Lives
  <1>2. CASE ControlConnects
    <2>1. /\ streams["control"] = "opening" /\ retries' = 0 /\ step' = "info"
          /\ life' = [life EXCEPT ![protocol] = Up("control")]
          /\ UNCHANGED <<protocol, flags, asked, established, reused>>
      BY <1>2 DEF ControlConnects, SocketConnects, history
    <2>2. step = "connect" /\ ~disconnect
      <3>1. Opens("control")
        BY <1>0, <2>1, LiveStream, RunningSays DEF Gone, Connected, Heard
      <3>2. step = "connect"
        BY <1>0, <3>1, StepsAre
      <3> QED
        BY <3>2 DEF Inv, Ended
    <2>3. /\ closeListeners' \subseteq Sessions \X Streams /\ prev' \in 0..MaxSessions
          /\ feedback' \in BOOLEAN /\ ready' \in BOOLEAN /\ nowPlaying' \in Nat
          /\ UNCHANGED <<disconnect, ready, closeListeners, prev, feedback, nowPlaying, reported>>
      BY <2>1, FlagTypes DEF Inv
    <2>4. ASSUME streams' = Up("control") PROVE Opening' /\ Ended' /\ Running'
      <3>1. Heard' = {"control"} /\ Heard = {"control"}
        BY <2>1, <2>2 DEF Heard
      <3> QED
        BY <1>0, <1>1, <2>1, <2>2, <2>3, <2>4, <3>1, RunningSays, OpensNext
           DEF Opening, Ended, Running, Streams, Connected
    <2>5. step' \in Steps
      BY <2>1, StepsAre
    <2> QED
      BY <1>0, <1>1, <2>1, <2>2, <2>3, <2>4, <2>5, GoingOn
  <1>3. CASE EventConnects
    <2>1. /\ step = "eventConnect" /\ retries' = 0 /\ UNCHANGED <<protocol, history>>
          /\ UNCHANGED <<asked, established, reused>>
      BY <1>3 DEF EventConnects, SocketConnects, history
    <2>2. CASE ~disconnect
      <3>1. step' = "record" /\ life' = [life EXCEPT ![protocol] = Up("event")] /\ UNCHANGED flags
        BY <1>3, <2>2 DEF EventConnects
      <3>2. /\ closeListeners' \subseteq Sessions \X Streams /\ prev' \in 0..MaxSessions
            /\ feedback' \in BOOLEAN /\ ready' \in BOOLEAN /\ nowPlaying' \in Nat
            /\ UNCHANGED <<disconnect, ready, closeListeners, prev, feedback, nowPlaying, reported>>
        BY <3>1, FlagTypes DEF Inv
      <3>3. ASSUME streams' = Up("event") PROVE Opening' /\ Ended' /\ Running'
        <4>1. Heard' = {"control"} /\ Heard = {"control"}
          BY <2>1, <3>1 DEF Heard
        <4> QED
          BY <1>0, <1>1, <2>1, <2>2, <3>1, <3>2, <3>3, <4>1, RunningSays, OpensNext
             DEF Opening, Ended, Running, Streams
      <3>4. step' \in Steps
        BY <3>1, StepsAre
      <3> QED
        BY <1>0, <1>1, <2>1, <3>1, <3>2, <3>3, <3>4, GoingOn
    <2>3. CASE disconnect
      <3>1. Fail(Up("event"))
        BY <1>3, <2>3 DEF EventConnects
      <3> QED
        BY <1>0, <1>1, <2>1, <3>1, FailKeeps
    <2> QED
      BY <2>2, <2>3
  <1>4. CASE EventReconnects
    <2>1. /\ streams["event"] = "opening" /\ retries' = 0 /\ step # "eventConnect"
          /\ life' = [life EXCEPT ![protocol] = Up("event")]
          /\ reused' = reused \union {protocol}
          /\ UNCHANGED <<protocol, step, flags, asked, established>>
      BY <1>4 DEF EventReconnects, SocketConnects
    <2>2. ~disconnect /\ step = "record"
      <3>1. ~Opens("event")
        BY <1>0, <2>1, StepsAre
      <3> QED
        BY <1>0, <2>1, <3>1, LiveStream DEF Gone, Connected
    <2>3. reused' \subseteq Sessions
      BY <1>0, <2>1, <2>2, RunningSays
    <2> QED
      BY <1>0, <1>1, <2>1, <2>2, <2>3, StreamGoes
  <1>5. CASE DataConnects
    <2>1. /\ streams["data"] = "opening" /\ retries' = 0 /\ UNCHANGED <<protocol, history>>
          /\ UNCHANGED <<asked, established, reused>>
      BY <1>5 DEF DataConnects, SocketConnects, history
    <2>2. step = "dataConnect"
      <3>1. Opens("data")
        BY <1>0, <2>1, LiveStream DEF Gone, Connected
      <3> QED
        BY <1>0, <3>1, StepsAre
    <2>3. CASE ~disconnect
      <3>1. /\ step' = "deviceInfo" /\ life' = [life EXCEPT ![protocol] = Up("data")]
            /\ closeListeners' = closeListeners \union {<<protocol, "data">>}
            /\ prev' = protocol /\ feedback' = TRUE
            /\ UNCHANGED <<disconnect, ready, nowPlaying, reported>>
        BY <1>5, <2>3 DEF DataConnects, Observes
      <3>2. /\ closeListeners' = {protocol} \X {"control", "event", "data"}
            /\ closeListeners' \subseteq Sessions \X Streams
        BY <1>0, <2>2, <2>3, <3>1, RunningSays DEF Heard
      <3>3. feedback' /\ prev' = protocol /\ prev' \in 0..MaxSessions
        BY <3>1, StreamsAre
      <3>4. ASSUME streams' = Up("data") PROVE Opening' /\ Ended' /\ Running'
        <4>1. Heard' = {"control", "event", "data"} /\ Heard = {"control", "event"}
          BY <2>2, <3>1 DEF Heard
        <4> QED
          BY <1>0, <1>1, <2>1, <2>2, <2>3, <3>1, <3>2, <3>3, <3>4, <4>1, RunningSays, OpensNext
             DEF Opening, Ended, Running, Streams, Connected
      <3>5. step' \in Steps /\ feedback' \in BOOLEAN /\ ready' \in BOOLEAN /\ nowPlaying' \in Nat
        BY <3>1, StepsAre DEF Inv, TypeOK
      <3> QED
        BY <1>0, <1>1, <2>1, <2>2, <3>1, <3>2, <3>3, <3>4, <3>5, GoingOn
    <2>4. CASE disconnect
      <3>1. Fail(Up("data"))
        BY <1>5, <2>4 DEF DataConnects
      <3> QED
        BY <1>0, <1>1, <2>1, <2>2, <3>1, FailKeeps
    <2> QED
      BY <2>3, <2>4
  <1> QED
    BY <1>2, <1>3, <1>4, <1>5 DEF Connects

\* What a retry does to the current session's streams.
LEMMA RetryKeeps ==
  ASSUME Inv, NEW k \in Streams, RetryArmed(protocol, k), UNCHANGED <<protocol, history>>,
         \/ Opens(k)
         \/ ~disconnect /\ k = "event" /\ step = "record"
  PROVE  Inv'
  <1> DEFINE s == [streams EXCEPT ![k] = "waiting"]
  <1>1. /\ retries < RetryAttempts /\ retries' = retries + 1
        /\ life' = [life EXCEPT ![protocol][k] = "waiting"]
        /\ UNCHANGED <<protocol, step, flags, asked, established, reused>>
    BY DEF RetryArmed, history
  <1>2. retries' \in 0..RetryAttempts /\ reused' \subseteq Sessions
    BY <1>1, BoundsAre DEF Inv, TypeOK
  <1>3. /\ s \in [Streams -> Lives] /\ life' = [life EXCEPT ![protocol] = s]
        /\ \A j \in Streams : s[j] = IF j = k THEN "waiting" ELSE streams[j]
    BY <1>1, StreamsAre DEF Lives
  <1> HIDE DEF s
  <1> QED
    BY <1>1, <1>2, <1>3, StreamGoes DEF Pending

LEMMA StreamStepsKeep ==
  ASSUME Inv, NEW k \in Streams,
         AttemptFails(k) \/ RetryFires(k) \/ StreamErrors(k) \/ ControlTimesOut \/ ControlDropped
  PROVE  Inv'
  <1>0. /\ retries \in 0..RetryAttempts /\ reused \subseteq Sessions /\ streams \in [Streams -> Lives]
        /\ "control" \in Streams /\ "event" \in Streams
        /\ \A j \in Streams, x \in Lives : [streams EXCEPT ![j] = x] \in [Streams -> Lives]
    BY StreamsAre DEF Inv, TypeOK, Streams
  <1>1. CASE AttemptFails(k)
    <2>1. /\ streams[k] = "opening" /\ UNCHANGED <<protocol, history>>
          /\ UNCHANGED <<asked, established, reused>>
      BY <1>1 DEF AttemptFails, history
    <2>2. Opens(k) \/ (~disconnect /\ k = "event" /\ step = "record")
      BY <2>1, LiveStream DEF Gone, Connected
    <2>3. CASE RetryArmed(protocol, k)
      BY <2>1, <2>2, <2>3, RetryKeeps
    <2>4. CASE ~RetryArmed(protocol, k)
      <3> DEFINE gone == [streams EXCEPT ![k] = "dying"]
      <3>1. gone \in [Streams -> Lives] /\ \A j \in Streams : gone[j] = IF j = k THEN "dying" ELSE streams[j]
        BY <1>0 DEF Lives
      <3>2. /\ UNCHANGED retries
            /\ IF Opens(k) THEN Fail(gone)
               ELSE life' = [life EXCEPT ![protocol] = gone] /\ UNCHANGED <<step, flags>>
        BY <1>1, <2>4 DEF AttemptFails
      <3> HIDE DEF gone
      <3>3. CASE Opens(k)
        BY <1>0, <2>1, <3>1, <3>2, <3>3, StepsAre, FailKeeps
      <3>4. CASE ~Opens(k)
        BY <1>0, <2>1, <2>2, <3>1, <3>2, <3>4, StreamGoes
      <3> QED
        BY <3>3, <3>4
    <2> QED
      BY <2>3, <2>4
  <1>2. CASE RetryFires(k)
    <2> DEFINE s == [streams EXCEPT ![k] = "opening"]
    <2>1. /\ streams[k] = "waiting" /\ life' = [life EXCEPT ![protocol][k] = "opening"]
          /\ UNCHANGED <<protocol, step, retries, flags, asked, established, reused>>
      BY <1>2 DEF RetryFires, history
    <2>2. Opens(k) \/ (~disconnect /\ k = "event" /\ step = "record")
      BY <2>1, LiveStream DEF Gone, Connected
    <2>3. /\ s \in [Streams -> Lives] /\ life' = [life EXCEPT ![protocol] = s]
          /\ \A j \in Streams : s[j] = IF j = k THEN "opening" ELSE streams[j]
      <3>1. life' = [life EXCEPT ![protocol] = s]
        BY <2>1 DEF streams
      <3> QED
        BY <1>0, <3>1 DEF Lives
    <2> HIDE DEF s
    <2> QED
      BY <1>0, <2>1, <2>2, <2>3, StreamGoes DEF Pending
  <1>3. CASE StreamErrors(k)
    <2> DEFINE lost == [streams EXCEPT ![k] = "broken"]
               s    == IF prev = protocol /\ k # "control"
                       THEN [lost EXCEPT !["control"] = "dying"] ELSE lost
    <2>1. /\ streams[k] = "up" /\ UNCHANGED <<protocol, retries, history>>
          /\ UNCHANGED <<asked, established, reused>>
          /\ IF Asks(k) THEN Fail(lost)
             ELSE life' = [life EXCEPT ![protocol] = s] /\ UNCHANGED <<step, flags>>
      BY <1>3 DEF StreamErrors, history
    <2>2. /\ lost \in [Streams -> Lives]
          /\ \A j \in Streams : lost[j] = IF j = k THEN "broken" ELSE streams[j]
      BY <1>0 DEF Lives
    <2>3. CASE Asks(k)
      BY <1>0, <2>1, <2>2, <2>3, StepsAre, FailKeeps
    <2>4. CASE ~Asks(k)
      <3>1. /\ s \in [Streams -> Lives]
            /\ \A j \in Streams : s[j] = IF j = k THEN "broken"
                                         ELSE IF j = "control" /\ prev = protocol THEN "dying"
                                         ELSE streams[j]
        BY <1>0, <2>2 DEF Lives, Streams
      <3>2. ~Opens(k)
        BY <2>1 DEF Inv, Opening, Pending
      <3>3. ~disconnect
        BY <2>1, <3>2, LiveStream DEF Gone
      <3>4. prev = protocol => streams["control"] \in Connected /\ ~Opens("control")
        BY <1>0, <3>3, RunningSays, StepsAre
      <3> HIDE DEF s
      <3>5. \A j \in Streams : s[j] = streams[j]
                \/ (~Opens(j) /\ streams[j] \in Connected /\ s[j] \in Connected)
        BY <2>1, <3>1, <3>2, <3>4 DEF Connected
      <3> QED
        BY <1>0, <2>1, <2>4, <3>1, <3>3, <3>5, StreamGoes
    <2> QED
      BY <2>3, <2>4
  <1>4. CASE ControlTimesOut
    <2>1. Fail(streams) /\ step # "idle" /\ UNCHANGED <<protocol, history>> /\ retries' \in 0..RetryAttempts
      BY <1>0, <1>4 DEF ControlTimesOut
    <2> QED
      BY <1>0, <2>1, FailKeeps
  <1>5. CASE ControlDropped
    <2> DEFINE s == [streams EXCEPT !["control"] = "dying"]
    <2>1. /\ streams["control"] = "up" /\ life' = [life EXCEPT ![protocol]["control"] = "dying"]
          /\ UNCHANGED <<protocol, step, retries, flags, asked, established, reused>>
      BY <1>5 DEF ControlDropped, history
    <2>2. ~disconnect /\ ~Opens("control")
      BY <1>0, <2>1, LiveStream DEF Gone, Inv, Opening, Pending
    <2>3. /\ s \in [Streams -> Lives] /\ life' = [life EXCEPT ![protocol] = s]
          /\ \A j \in Streams : s[j] = IF j = "control" THEN "dying" ELSE streams[j]
      <3>1. life' = [life EXCEPT ![protocol] = s]
        BY <2>1 DEF streams
      <3> QED
        BY <1>0, <3>1 DEF Lives
    <2> HIDE DEF s
    <2> QED
      BY <1>0, <2>1, <2>2, <2>3, StreamGoes DEF Connected
  <1> QED
    BY <1>1, <1>2, <1>3, <1>4, <1>5

\* 'close' of a stream, observed by the session or not.
LEMMA CloseKeeps ==
  ASSUME Inv, NEW p \in Sessions, NEW k \in Streams,
         life[p][k] \in {"up", "broken", "dying"}, Close(p, k)
  PROVE  Inv'
  <1>0. /\ retries \in 0..RetryAttempts /\ reused \subseteq Sessions /\ streams \in [Streams -> Lives]
        /\ protocol \in Nat /\ p \in 0..MaxSessions /\ p \in Nat
        /\ UNCHANGED <<protocol, history>> /\ UNCHANGED <<asked, established, reused>>
    BY StreamsAre, BoundsAre DEF Inv, TypeOK, Close, history, Sessions
  <1> DEFINE s == [streams EXCEPT ![k] = "closed"]
  <1>1. s \in [Streams -> Lives] /\ \A j \in Streams : s[j] = IF j = k THEN "closed" ELSE streams[j]
    BY <1>0 DEF Lives
  <1>2. CASE ObservedClose(p, k)
    <2>1. /\ p = protocol /\ <<p, k>> \in closeListeners /\ EndSession(TRUE, s)
          /\ step' = (IF Asks(k) THEN "idle" ELSE AfterDestroy(streams)) /\ UNCHANGED retries
      BY <1>2 DEF ObservedClose
    <2> HIDE DEF s
    <2>2. ~disconnect
      BY <2>1 DEF Inv, Ended
    <2>3. /\ step' \in {"idle", "hung"} \union DOMAIN Requesting
          /\ step = "idle" => step' = "idle"
      BY <2>1, AfterDestroyIs
    <2> QED
      BY <1>0, <1>1, <2>1, <2>2, <2>3, EndKeeps
  <1>3. CASE UnobservedClose(p, k) /\ p = protocol
    <2>1. /\ streams[k] \in {"up", "broken", "dying"} /\ <<protocol, k>> \notin closeListeners
          /\ UnobservedClose(protocol, k)
      BY <1>3 DEF UnobservedClose, streams
    <2>2. ~Opens(k)
      BY <2>1 DEF Inv, Opening, Pending
    <2>3. streams[k] # "dying" => ~disconnect /\ k = "event" /\ step = "record"
      BY <2>1, <2>2, LiveStream DEF Gone
    <2>4. ~disconnect => k = "event" /\ step = "record"
      BY <2>1, <2>2, RunningSays DEF Inv, Running
    <2>5. CASE streams[k] = "broken"
      <3>1. RetryArmed(protocol, k)
        BY <2>1, <2>5 DEF UnobservedClose, streams
      <3> QED
        BY <1>0, <2>3, <2>5, <3>1, RetryKeeps
    <2>6. CASE streams[k] # "broken"
      <3>1. /\ UNCHANGED retries
            /\ IF Asks(k) THEN Fail(s)
               ELSE life' = [life EXCEPT ![protocol][k] = "closed"] /\ UNCHANGED <<step, flags>>
        BY <2>1, <2>6 DEF UnobservedClose, streams
      <3>2. CASE Asks(k)
        <4>1. step # "idle" /\ Fail(s)
          BY <3>1, <3>2, StepsAre
        <4> HIDE DEF s
        <4> QED
          BY <1>0, <1>1, <3>1, <4>1, FailKeeps
      <3>3. CASE ~Asks(k)
        <4>1. life' = [life EXCEPT ![protocol] = s] /\ UNCHANGED <<step, flags>>
          BY <3>1, <3>3, StreamsAre
        <4> HIDE DEF s
        <4> QED
          BY <1>0, <1>1, <2>2, <2>4, <3>1, <4>1, StreamGoes DEF Gone
      <3> QED
        BY <3>2, <3>3
    <2> QED
      BY <2>5, <2>6
  <1>4. CASE UnobservedClose(p, k) /\ p # protocol
    <2>1. p < protocol /\ life[p][k] = "dying"
      BY <1>0, <1>4 DEF Inv, Others, Gone
    <2>2. /\ life' = [life EXCEPT ![p][k] = "closed"] /\ UNCHANGED <<step, flags, retries>>
          /\ life \in [0..MaxSessions -> [Streams -> Lives]] /\ "closed" \in Lives
      BY <1>4, <2>1 DEF UnobservedClose, Inv, TypeOK, Lives
    <2>3. /\ \A q \in 0..MaxSessions \ {p} : life'[q] = life[q]
          /\ life'[p][k] = "closed" /\ \A j \in Streams \ {k} : life'[p][j] = life[p][j]
          /\ life' \in [0..MaxSessions -> [Streams -> Lives]]
      BY <1>0, <2>2
    <2>4. streams' = streams
      BY <1>0, <1>4, <2>3, StreamsAre DEF streams
    <2>5. Others'
      <3> SUFFICES ASSUME NEW q \in 0..MaxSessions, NEW j \in Streams
                   PROVE  (q < protocol => life'[q][j] \in Gone) /\ (q > protocol => life'[q][j] = "none")
        BY <1>0 DEF Others
      <3>1. CASE q = p
        BY <1>0, <2>1, <2>3, <3>1 DEF Inv, Others, Gone
      <3>2. CASE q # p
        BY <2>3, <3>2 DEF Inv, Others
      <3> QED
        BY <3>1, <3>2
    <2>6. UNCHANGED <<disconnect, ready, closeListeners, prev, feedback, nowPlaying, reported>>
      BY <2>2 DEF flags
    <2>7. TypeOK' /\ Told'
      BY <1>0, <2>2, <2>3, <2>6 DEF Inv, TypeOK, Told, ReportedOnce
    <2>8. Opening' /\ Ended' /\ Running'
      <3>1. (\A j \in Streams : Opens(j)' <=> Opens(j)) /\ Heard' = Heard
        BY <2>2, OpensNext, StepsAre DEF Heard
      <3> QED
        BY <1>0, <2>2, <2>4, <2>6, <3>1 DEF Inv, Opening, Ended, Running
    <2> QED
      BY <2>5, <2>7, <2>8 DEF Inv
  <1> QED
    BY <1>2, <1>3, <1>4 DEF Close

-----------------------------------------------------------------------------
(* The theorems                                                            *)

LEMMA NextKeeps == Inv /\ [Next]_vars => Inv'
  <1> SUFFICES ASSUME Inv, [Next]_vars PROVE Inv'
    OBVIOUS
  <1>1. CASE Connect \/ Reconnect
    BY <1>1, StartKeeps
  <1>2. CASE Disconnect
    BY <1>2, DisconnectKeeps
  <1>3. CASE Answers
    BY <1>3, AnswersKeep
  <1>4. CASE RequestFails
    <2>1. Fail(streams) /\ step # "idle" /\ UNCHANGED <<protocol, history>> /\ retries' \in 0..RetryAttempts
      BY <1>4, StepsAre DEF RequestFails, Inv, TypeOK
    <2> QED
      BY <2>1, StreamsAre, FailKeeps
  <1>5. CASE Connects
    BY <1>5, ConnectsKeep
  <1>6. CASE ControlTimesOut \/ ControlDropped
    BY <1>6, StreamStepsKeep DEF Streams
  <1>7. ASSUME NEW k \in Streams, AttemptFails(k) \/ RetryFires(k) \/ StreamErrors(k)
        PROVE  Inv'
    BY <1>7, StreamStepsKeep
  <1>8. ASSUME NEW k \in Streams, PeerEnds(k)
        PROVE  Inv'
    <2>1. /\ life[protocol][k] = "up" /\ Close(protocol, k)
      BY <1>8 DEF PeerEnds, streams
    <2>2. protocol \in Sessions
      <3>1. ~disconnect
        BY <2>1, LiveStream DEF Gone, streams, Inv, Opening, Pending
      <3> QED
        BY <3>1, RunningSays
    <2> QED
      BY <2>1, <2>2, CloseKeeps
  <1>9. ASSUME NEW p \in Sessions, NEW k \in Streams, StreamCloses(p, k)
        PROVE  Inv'
    BY <1>9, CloseKeeps DEF StreamCloses
  <1>10. CASE UNCHANGED vars
    <2>1. UNCHANGED <<protocol, step, life, retries, disconnect, ready, closeListeners, prev, feedback,
                      nowPlaying, reported, asked, established, reused>>
      BY <1>10 DEF vars, flags, history
    <2>2. (\A j \in Streams : Opens(j)' <=> Opens(j)) /\ Heard' = Heard /\ streams' = streams
      BY <2>1, OpensNext, StepsAre DEF Heard, streams
    <2>3. TypeOK' /\ Others' /\ Told'
      BY <2>1 DEF Inv, TypeOK, Others, Told, ReportedOnce
    <2>4. Opening' /\ Ended' /\ Running'
      BY <2>1, <2>2 DEF Inv, Opening, Ended, Running
    <2> QED
      BY <2>3, <2>4 DEF Inv
  <1> QED
    BY <1>1, <1>2, <1>3, <1>4, <1>5, <1>6, <1>7, <1>8, <1>9, <1>10 DEF Next

\* The strengthened invariant, whatever a caller and the streams do during the setup.
THEOREM Invariance == Spec => []Inv
  BY InitInv, NextKeeps, PTL DEF Spec

\* The fields of AirPlayManager keep their types.
THEOREM TypeCorrect == Spec => []TypeOK
  <1>1. Inv => TypeOK
    BY DEF Inv
  <1> QED
    BY <1>1, Invariance, PTL

\* isConnected is honest: what #connect sets #ready on is wired up, and stays so until
\* the session ends.
THEOREM ReadyMeansWired == Spec => []ReadyIsWired
  <1>1. Inv => ReadyIsWired
    <2> SUFFICES ASSUME Inv, ready PROVE ReadyIsWired
      BY DEF ReadyIsWired
    <2>1. ~disconnect
      BY DEF Inv, Ended
    <2>2. step = "idle" /\ Heard = Streams
      BY <2>1, RunningSays DEF Heard, Streams
    <2> QED
      BY <2>1, <2>2, RunningSays DEF ReadyIsWired, Streams
  <1> QED
    BY <1>1, Invariance, PTL

\* #endSession and the catch blocks of the setup leave no stream, timer or listener,
\* at whatever await the setup was.
THEOREM TeardownIsComplete == Spec => []NothingLeftBehind
  <1>1. Inv => NothingLeftBehind
    <2> SUFFICES ASSUME Inv PROVE NothingLeftBehind
      OBVIOUS
    <2>1. ASSUME NEW p \in 1..protocol, NEW k \in Streams,
                 p < protocol \/ (disconnect /\ step \in {"idle", "hung"})
          PROVE  life[p][k] \in Gone
      <3>1. p \in 0..MaxSessions /\ protocol \in 0..MaxSessions
        BY StreamsAre, BoundsAre
      <3>2. CASE p < protocol
        BY <3>1, <3>2 DEF Inv, Others
      <3>3. CASE ~(p < protocol)
        <4>1. p = protocol /\ disconnect /\ step \in {"idle", "hung"}
          BY <2>1, <3>1, <3>3
        <4> QED
          BY <4>1, StepsAre DEF Inv, Ended, streams
      <3> QED
        BY <3>2, <3>3
    <2> QED
      BY <2>1 DEF NothingLeftBehind, Inv, Ended, Gone
  <1> QED
    BY <1>1, Invariance, PTL

\* Every session ends with one 'disconnected', told truthfully (#endSession and its
\* guard on #disconnect).
THEOREM ToldOnce == Spec => []ReportedOnce
  <1>1. Inv => ReportedOnce
    BY DEF Inv, Told
  <1> QED
    BY <1>1, Invariance, PTL
=============================================================================
