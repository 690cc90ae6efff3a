----------------------- MODULE CompanionStreamProofs -----------------------
(***************************************************************************)
(* Proofs that CompanionStream keeps its safety properties, and implements *)
(* Exchange for ordinary requests, for every set of either kind.           *)
(*                                                                         *)
(* Ordinary requests are told apart by their number, as in RtspClient.     *)
(* Pairing exchanges are not: what is proved of them rests on a timer      *)
(* under the shared key being that of a request still outstanding, so that *)
(* one which takes another's entry was outstanding together with it.       *)
(***************************************************************************)
EXTENDS CompanionStream, TLAPS

Known == queue \union timers \union device

\* The pairing key is for pairing exchanges, and any other number for one request.
Numbered ==
    /\ \A e \in Known : e[1] = PairingKey <=> e[2] \in Pairings
    /\ \A e, f \in Known : e[1] = f[1] /\ e[1] # PairingKey => e[2] = f[2]
    /\ \A f \in frames, e \in Known : f[2] = "response" /\ f[1] = e[1] => f[3] = e[2]

\* What is under way on the connection was asked, and responses were given.
UnderWay ==
    /\ \A e \in Known : status[e[2]] # "idle"
    /\ \A f \in frames : f[2] = "response" =>
         f[1] # PairingKey /\ f[3] \in Ordinary /\ f[3] \in replied

\* Timers under the pairing key are those of outstanding exchanges, and exchanges
\* that are outstanding together have been recorded.
PairingsOverlap ==
    /\ \A e \in timers : e[1] = PairingKey => status[e[2]] = "pending"
    /\ \A p, q \in Pairings : Pending(p) /\ Pending(q) /\ p # q => p \in overtaken

Inv ==
    /\ TypeOK
    /\ PendingIsHeld
    /\ NothingOutstandingWhenDown
    /\ Numbered
    /\ UnderWay
    /\ PairingsOverlap

Statuses == {"idle", "pending", "answered", "failed"}

-----------------------------------------------------------------------------

\* The invariant holds of a new stream.
LEMMA InitInv == Init => Inv
  <1> SUFFICES ASSUME Init PROVE Inv
    OBVIOUS
  <1>1. TypeOK
    BY RequestsAssumption DEF Init, TypeOK
  <1>2. PendingIsHeld /\ NothingOutstandingWhenDown
    BY DEF Init, PendingIsHeld, NothingOutstandingWhenDown, Values, Pending
  <1>3. Numbered /\ UnderWay /\ PairingsOverlap
    BY DEF Init, Numbered, UnderWay, PairingsOverlap, Known, Pending, Requests
  <1> QED
    BY <1>1, <1>2, <1>3 DEF Inv

-----------------------------------------------------------------------------
(* What the helpers do.                                                    *)

\* #xid is a number no key in use has, and is a key once it has been counted.
LEMMA FreshNumber ==
  ASSUME xid \in Nat
  PROVE  /\ xid \notin Keys /\ xid # PairingKey /\ PairingKey \in Keys
         /\ xid' = xid + 1 => xid' \in Nat /\ Keys \subseteq Keys' /\ xid \in Keys'
  BY DEF Keys, PairingKey

\* What a Map holds after set().
LEMMA ValuesAdd ==
  ASSUME NEW map, NEW k, NEW r
  PROVE  Values(map \union {<<k, r>>}) = Values(map) \union {r}
  <1>1. <<k, r>>[2] = r
    OBVIOUS
  <1>2. ASSUME NEW x, x \in Values(map) \union {r}
        PROVE  x \in Values(map \union {<<k, r>>})
    BY <1>1, <1>2 DEF Values
  <1>3. ASSUME NEW x, x \in Values(map \union {<<k, r>>})
        PROVE  x \in Values(map) \union {r}
    BY <1>1, <1>3 DEF Values
  <1> QED
    BY <1>2, <1>3

\* Settling promises makes none pending or idle again.
LEMMA Settles ==
  ASSUME TypeOK, NEW S, NEW how \in {"answered", "failed"}, status' = Settled(S, how)
  PROVE  /\ status' \in [Requests -> Statuses]
         /\ \A r \in Requests : status'[r] = "pending" <=> status[r] = "pending" /\ r \notin S
         /\ \A r \in Requests : status[r] # "idle" => status'[r] # "idle"
  <1>1. status' = [r \in Requests |-> IF r \in S /\ status[r] \in {"idle", "pending"}
                                      THEN how ELSE status[r]]
    BY DEF Settled
  <1>2. status \in [Requests -> Statuses]
    BY DEF TypeOK, Statuses
  <1> QED
    BY <1>1, <1>2 DEF Statuses

\* A request that is outstanding keeps its timer when those of others are cleared.
LEMMA TimerLeft ==
  ASSUME Inv, NEW cleared, NEW r \in Requests, status[r] = "pending", r \notin Values(cleared)
  PROVE  r \in Values(timers \ cleared)
  <1>1. PICK e \in timers : e[2] = r
    BY DEF Inv, PendingIsHeld, Pending, Values
  <1>2. e \notin cleared
    BY <1>1 DEF Values
  <1> QED
    BY <1>1, <1>2 DEF Values

-----------------------------------------------------------------------------
(* The steps that reject everything.                                       *)

\* A step that rejects the queue and sends nothing keeps the invariant, whatever
\* becomes of the connection.
LEMMA RejectStep ==
  ASSUME Inv, RejectAll(queue), device' \subseteq device, frames' \subseteq frames,
         link' \in {"up", "closing", "dying", "down"}, inStep' \in BOOLEAN,
         UNCHANGED <<xid, got, replied, overtaken>>
  PROVE  Inv'
  <1>1. queue' = {} /\ timers' = timers \ queue /\ status' = Settled(Values(queue), "failed")
    BY DEF RejectAll
  <1>2. /\ status' \in [Requests -> Statuses]
        /\ \A r \in Requests : status'[r] = "pending" <=> status[r] = "pending" /\ r \notin Values(queue)
        /\ \A r \in Requests : status[r] # "idle" => status'[r] # "idle"
    BY <1>1, Settles DEF Inv
  <1>3. TypeOK'
    <2>1. Keys' = Keys
      BY DEF Keys
    <2> QED
      BY <1>1, <1>2, <2>1 DEF Inv, TypeOK, Statuses
  <1>4. \A r \in Requests : status'[r] = "pending" => r \in overtaken
    BY <1>2 DEF Inv, PendingIsHeld, Pending
  <1>11. \A r \in Requests : status'[r] = "pending" => r \in Values(timers')
    <2> SUFFICES ASSUME NEW r \in Requests, status'[r] = "pending" PROVE r \in Values(timers')
      OBVIOUS
    <2>1. status[r] = "pending" /\ r \notin Values(queue)
      BY <1>2
    <2> QED
      BY <1>1, <2>1, TimerLeft
  <1>5. PendingIsHeld' /\ NothingOutstandingWhenDown'
    BY <1>1, <1>4, <1>11 DEF PendingIsHeld, NothingOutstandingWhenDown, Pending
  <1>6. Known' \subseteq Known
    BY <1>1 DEF Known
  <1>7. Numbered'
    BY <1>6 DEF Inv, Numbered
  <1>8. UnderWay'
    <2>1. \A e \in Known : e[2] \in Requests
      BY DEF Inv, TypeOK, Known
    <2> QED
      BY <1>2, <1>6, <2>1 DEF Inv, UnderWay
  <1>9. PairingsOverlap'
    <2>1. ASSUME NEW e \in timers', e[1] = PairingKey PROVE status'[e[2]] = "pending"
      <3>1. e \in timers /\ e \notin queue /\ e[2] \in Requests /\ status[e[2]] = "pending"
        BY <1>1, <2>1 DEF Inv, TypeOK, PairingsOverlap
      <3>2. ASSUME NEW f \in queue, f[2] = e[2] PROVE FALSE
        <4>1. e \in Known /\ f \in Known
          BY <3>1 DEF Known
        <4>2. f[1] = PairingKey
          BY <4>1, <2>1, <3>2 DEF Inv, Numbered
        <4> QED
          BY <4>2, <2>1, <3>1, <3>2 DEF Inv, TypeOK
      <3> QED
        BY <1>2, <3>1, <3>2 DEF Values
    <2>2. \A p \in Pairings : status'[p] = "pending" => status[p] = "pending"
      BY <1>2 DEF Requests
    <2> QED
      BY <2>1, <2>2 DEF Inv, PairingsOverlap, Pending
  <1> QED
    BY <1>3, <1>5, <1>7, <1>8, <1>9 DEF Inv

\* The steps in which the connection fails, or its bytes are useless.
Rejecting ==
    \/ OnOverflow \/ OnStreamError \/ OnStreamClose \/ Disconnect
    \/ OnGarbage /\ RejectAll(queue)
    \/ \E f \in frames : OnBadFrame(f)

\* They keep the invariant.
LEMMA RejectingStep == Inv /\ Rejecting => Inv'
  <1> SUFFICES ASSUME Inv, Rejecting PROVE Inv'
    OBVIOUS
  <1>1. /\ RejectAll(queue) /\ device' \subseteq device /\ frames' \subseteq frames
        /\ UNCHANGED <<xid, got, replied, overtaken>>
    BY DEF Rejecting, OnOverflow, OnStreamError, OnStreamClose, Disconnect, OnGarbage,
           OnBadFrame, Handles, Cut
  <1>2. link' \in {"up", "closing", "dying", "down"} /\ inStep' \in BOOLEAN
    BY DEF Rejecting, OnOverflow, OnStreamError, OnStreamClose, Disconnect, OnGarbage,
           OnBadFrame, Handles, Cut, Inv, TypeOK
  <1> QED
    BY <1>1, <1>2, RejectStep

-----------------------------------------------------------------------------
(* The steps of one request.                                               *)

\* A step that leaves the requests alone keeps the invariant, whatever is lost on the
\* way, unless it closes the connection.
LEMMA QuietStep ==
  ASSUME Inv, UNCHANGED <<xid, queue, timers, status, got, replied, overtaken>>,
         device' \subseteq device, frames' \subseteq frames, inStep' \in BOOLEAN,
         link' = link \/ link' \in {"up", "closing", "dying"}
  PROVE  Inv'
  <1>1. TypeOK'
    <2>1. Keys' = Keys
      BY DEF Keys
    <2> QED
      BY <2>1 DEF Inv, TypeOK
  <1>2. PendingIsHeld' /\ NothingOutstandingWhenDown'
    BY DEF Inv, PendingIsHeld, NothingOutstandingWhenDown, Values, Pending
  <1>3. Known' \subseteq Known
    BY DEF Known
  <1>4. Numbered' /\ UnderWay'
    BY <1>3 DEF Inv, Numbered, UnderWay
  <1>5. PairingsOverlap'
    BY DEF Inv, PairingsOverlap, Pending
  <1> QED
    BY <1>1, <1>2, <1>4, <1>5 DEF Inv

\* Entering a request gives it an entry and a timer of its own.  The entry it replaces
\* is that of a pairing exchange, which it overtakes.
LEMMA Enters ==
  ASSUME Inv, NEW r \in Requests, Overtakes(r), status[r] = "idle", xid' = xid + 1
  PROVE  /\ xid' \in Nat /\ Keys \subseteq Keys' /\ Key(r) \in Keys'
         /\ Key(r) = PairingKey <=> r \in Pairings
         /\ \A e \in Known : e[1] = Key(r) => e[2] \in Pairings /\ r \in Pairings
         /\ \A f \in frames : f[2] = "response" => f[1] # Key(r)
         /\ overtaken \subseteq overtaken' /\ overtaken' \subseteq Pairings
         /\ \A p \in Pairings : r \in Pairings /\ Pending(p) => p \in overtaken' /\ r \in overtaken'
  <1>1. /\ xid \notin Keys /\ xid # PairingKey /\ PairingKey \in Keys
        /\ xid' \in Nat /\ Keys \subseteq Keys' /\ xid \in Keys'
    BY FreshNumber DEF Inv, TypeOK
  <1>2. Key(r) \in Keys' /\ (Key(r) = PairingKey <=> r \in Pairings)
    BY <1>1 DEF Key
  <1>3. \A e \in Known : e[1] \in Keys
    BY DEF Inv, TypeOK, Known
  <1>4. \A e \in Known : e[1] = Key(r) => e[2] \in Pairings /\ r \in Pairings
    BY <1>1, <1>3 DEF Key, Inv, Numbered
  <1>5. \A f \in frames : f[2] = "response" => f[1] # Key(r)
    <2>1. \A f \in frames : f[1] \in Keys
      BY DEF Inv, TypeOK
    <2> QED
      BY <1>1, <2>1 DEF Key, Inv, UnderWay
  <1>6. overtaken \subseteq overtaken' /\ overtaken' \subseteq Pairings
    BY DEF Overtakes, Inv, TypeOK
  <1>7. \A p \in Pairings : r \in Pairings /\ Pending(p) => p \in overtaken' /\ r \in overtaken'
    BY DEF Overtakes
  <1> QED
    BY <1>1, <1>2, <1>4, <1>5, <1>6, <1>7

\* A request that is entered, and sent or not, keeps the invariant.
LEMMA EnqueueStep ==
  ASSUME Inv, NEW r \in Requests, Enqueue(r),
         NEW now \in {"pending", "failed"}, status' = [status EXCEPT ![r] = now],
         now = "pending" => link = "up", now = "failed" => r \in Ordinary,
         device' \subseteq device \union {<<Key(r), r>>},
         UNCHANGED <<link, inStep, frames, got, replied>>
  PROVE  Inv'
  <1> DEFINE k == Key(r)
             new == <<k, r>>
  <1>1. /\ status[r] = "idle"
        /\ queue' = Without(queue, k) \union {new}
        /\ timers' = timers \union {new}
        /\ xid' = xid + 1
        /\ Overtakes(r)
    BY DEF Enqueue
  <1>2. /\ xid' \in Nat /\ Keys \subseteq Keys' /\ k \in Keys'
        /\ k = PairingKey <=> r \in Pairings
        /\ \A e \in Known : e[1] = k => e[2] \in Pairings /\ r \in Pairings
        /\ \A f \in frames : f[2] = "response" => f[1] # k
        /\ overtaken \subseteq overtaken' /\ overtaken' \subseteq Pairings
        /\ \A p \in Pairings : r \in Pairings /\ Pending(p) => p \in overtaken' /\ r \in overtaken'
    BY <1>1, Enters
  <1>3. new[1] = k /\ new[2] = r
    OBVIOUS
  <1> HIDE DEF k, new
  <1>4. /\ status' \in [Requests -> Statuses] /\ status'[r] = now
        /\ \A q \in Requests : q # r => status'[q] = status[q]
    BY DEF Inv, TypeOK, Statuses
  <1>5. TypeOK'
    <2>1. new \in Keys' \X Requests
      BY <1>2 DEF new
    <2>2. queue' \subseteq Keys' \X Requests /\ timers' \subseteq Keys' \X Requests
          /\ device' \subseteq Keys' \X Requests
      BY <1>1, <1>2, <2>1 DEF Inv, TypeOK, Without, new, k
    <2>3. \A e, f \in queue' : e[1] = f[1] => e = f
      BY <1>1, <1>3 DEF Inv, TypeOK, Without
    <2>4. frames' \subseteq Keys' \X {"response", "pairing", "event"} \X (Requests \union {None})
      BY <1>2 DEF Inv, TypeOK
    <2> QED
      BY <1>2, <1>4, <2>2, <2>3, <2>4 DEF Inv, TypeOK, Statuses
  <1>6. PendingIsHeld'
    <2>1. queue' \subseteq timers'
      BY <1>1 DEF Inv, PendingIsHeld, Without
    <2>2. r \in Values(queue')
      BY <1>1, <1>3 DEF Values
    <2>4. ASSUME NEW q \in Requests, status'[q] = "pending" PROVE q \in Values(timers')
      <3>1. CASE q = r
        BY <1>1, <1>3, <3>1 DEF Values
      <3>2. CASE q # r
        <4>1. PICK e \in timers : e[2] = q
          BY <1>4, <2>4, <3>2 DEF Inv, PendingIsHeld, Pending, Values
        <4> QED
          BY <1>1, <4>1 DEF Values
      <3> QED
        BY <3>1, <3>2
    <2>3. ASSUME NEW q \in Requests, q # r, status'[q] = "pending", q \notin overtaken'
          PROVE  q \in Values(queue')
      <3>1. status[q] = "pending" /\ q \notin overtaken
        BY <1>2, <1>4, <2>3
      <3>2. PICK e \in queue : e[2] = q
        BY <3>1 DEF Inv, PendingIsHeld, Pending, Values
      <3>3. e[1] # k
        BY <1>2, <2>3, <3>1, <3>2 DEF Known, Pending
      <3>4. e \in queue'
        BY <1>1, <3>3 DEF Without
      <3> QED
        BY <3>2, <3>4 DEF Values
    <2> QED
      BY <2>1, <2>2, <2>3, <2>4 DEF PendingIsHeld, Pending
  <1>7. NothingOutstandingWhenDown'
    BY <1>2, <1>4 DEF Inv, NothingOutstandingWhenDown, Pending
  <1>8. Known' \subseteq Known \union {new}
    BY <1>1 DEF Known, Without, new, k
  <1>9. Numbered'
    <2>1. \A e \in Known' : e[1] = PairingKey <=> e[2] \in Pairings
      BY <1>2, <1>3, <1>8 DEF Inv, Numbered
    <2>2. \A e, f \in Known' : e[1] = f[1] /\ e[1] # PairingKey => e[2] = f[2]
      <3>1. \A e \in Known : e[1] = k => k = PairingKey
        BY <1>2
      <3> QED
        BY <1>3, <1>8, <3>1 DEF Inv, Numbered
    <2>3. \A f \in frames', e \in Known' : f[2] = "response" /\ f[1] = e[1] => f[3] = e[2]
      BY <1>2, <1>3, <1>8 DEF Inv, Numbered
    <2> QED
      BY <2>1, <2>2, <2>3 DEF Numbered
  <1>10. UnderWay'
    <2>1. \A e \in Known : e[2] \in Requests
      BY DEF Inv, TypeOK, Known
    <2> QED
      BY <1>3, <1>4, <1>8, <2>1 DEF Inv, UnderWay
  <1>11. PairingsOverlap'
    <2>1. ASSUME NEW e \in timers', e[1] = PairingKey PROVE status'[e[2]] = "pending"
      <3>1. CASE e = new
        BY <1>2, <1>3, <1>4, <2>1, <3>1, RequestsAssumption
      <3>2. CASE e \in timers
        <4>1. status[e[2]] = "pending" /\ e[2] \in Requests
          BY <2>1, <3>2 DEF Inv, PairingsOverlap, TypeOK
        <4> QED
          BY <1>1, <1>4, <4>1
      <3> QED
        BY <1>1, <3>1, <3>2
    <2>2. \A p, q \in Pairings : Pending(p)' /\ Pending(q)' /\ p # q => p \in overtaken'
      <3>1. \A p \in Pairings : p # r /\ Pending(p)' => Pending(p)
        BY <1>4 DEF Pending, Requests
      <3> QED
        BY <1>2, <3>1 DEF Inv, PairingsOverlap
    <2> QED
      BY <2>1, <2>2 DEF PairingsOverlap
  <1> QED
    BY <1>5, <1>6, <1>7, <1>9, <1>10, <1>11 DEF Inv

\* A request on a dead connection is rejected at once, with all the others.
LEMMA UnwritableStep ==
  ASSUME Inv, NEW r \in Requests, ExchangeUnwritable(r)
  PROVE  Inv'
  <1> DEFINE new == <<Key(r), r>>
             map == Without(queue, Key(r)) \union {new}
  <1>1. /\ status[r] = "idle" /\ xid' = xid + 1 /\ Overtakes(r)
        /\ queue' = {} /\ timers' = timers \ map /\ status' = Settled(Values(map), "failed")
        /\ UNCHANGED <<link, inStep, device, frames, got, replied>>
    BY DEF ExchangeUnwritable, RejectAll
  <1>2. /\ xid' \in Nat /\ Keys \subseteq Keys'
        /\ \A e \in Known : e[1] = Key(r) => e[2] \in Pairings /\ r \in Pairings
        /\ overtaken \subseteq overtaken' /\ overtaken' \subseteq Pairings
        /\ \A p \in Pairings : r \in Pairings /\ Pending(p) => p \in overtaken' /\ r \in overtaken'
    BY <1>1, Enters
  <1>3. new[2] = r /\ new \in map
    OBVIOUS
  <1> HIDE DEF map, new
  <1>4. /\ status' \in [Requests -> Statuses]
        /\ \A q \in Requests : status'[q] = "pending" <=> status[q] = "pending" /\ q \notin Values(map)
        /\ \A q \in Requests : status[q] # "idle" => status'[q] # "idle"
    BY <1>1, Settles DEF Inv
  <1>5. TypeOK'
    BY <1>1, <1>2, <1>4 DEF Inv, TypeOK, Statuses
  <1>6. \A q \in Requests : status'[q] = "pending" => q \in overtaken'
    <2> SUFFICES ASSUME NEW q \in Requests, status'[q] = "pending", q \notin overtaken PROVE q \in overtaken'
      BY <1>2
    <2>1. status[q] = "pending" /\ q \notin Values(map)
      BY <1>4
    <2>2. PICK e \in queue : e[2] = q
      BY <2>1 DEF Inv, PendingIsHeld, Pending, Values
    <2>3. e \notin map
      BY <2>1, <2>2 DEF Values
    <2>4. e[1] = Key(r)
      BY <2>3 DEF map, Without
    <2> QED
      BY <1>2, <2>1, <2>2, <2>4 DEF Known, Pending
  <1>12. \A q \in Requests : status'[q] = "pending" => q \in Values(timers')
    BY <1>1, <1>4, TimerLeft
  <1>7. PendingIsHeld' /\ NothingOutstandingWhenDown'
    BY <1>1, <1>6, <1>12 DEF PendingIsHeld, NothingOutstandingWhenDown, Pending
  <1>8. Known' \subseteq Known
    BY <1>1 DEF Known
  <1>9. Numbered'
    BY <1>1, <1>8 DEF Inv, Numbered
  <1>10. UnderWay'
    <2>1. \A e \in Known : e[2] \in Requests
      BY DEF Inv, TypeOK, Known
    <2> QED
      BY <1>1, <1>4, <1>8, <2>1 DEF Inv, UnderWay
  <1>11. PairingsOverlap'
    <2>1. ASSUME NEW e \in timers', e[1] = PairingKey PROVE status'[e[2]] = "pending"
      <3>1. e \in timers /\ e \notin map /\ e[2] \in Requests /\ status[e[2]] = "pending"
        BY <1>1, <2>1 DEF Inv, TypeOK, PairingsOverlap
      <3>2. ASSUME NEW f \in queue, f \in map, f[2] = e[2] PROVE FALSE
        <4>1. e \in Known /\ f \in Known
          BY <3>1, <3>2 DEF Known
        <4>2. f[1] = PairingKey
          BY <4>1, <2>1, <3>2 DEF Inv, Numbered
        <4> QED
          BY <4>2, <2>1, <3>1, <3>2 DEF Inv, TypeOK
      <3>3. e[2] # r
        BY <1>1, <3>1
      <3>4. \A f \in map : f \in queue \/ f = new
        BY DEF map, Without
      <3> QED
        BY <1>3, <1>4, <3>1, <3>2, <3>3, <3>4 DEF Values
    <2>2. \A p \in Pairings : status'[p] = "pending" => status[p] = "pending"
      BY <1>4 DEF Requests
    <2> QED
      BY <1>2, <2>1, <2>2 DEF Inv, PairingsOverlap, Pending
  <1> QED
    BY <1>5, <1>7, <1>9, <1>10, <1>11 DEF Inv

\* A timer deletes the entry of its own request, or that of a pairing exchange which
\* was outstanding together with it.
LEMMA TimerStep ==
  ASSUME Inv, NEW k, NEW r, TimerFires(k, r)
  PROVE  Inv'
  <1>1. /\ <<k, r>> \in timers /\ timers' = timers \ {<<k, r>>}
        /\ queue' = Without(queue, k) /\ status' = Settled({r}, "failed")
        /\ UNCHANGED <<link, inStep, xid, device, frames, got, replied, overtaken>>
    BY DEF TimerFires
  <1>2. r \in Requests /\ <<k, r>>[1] = k /\ <<k, r>>[2] = r
    BY <1>1 DEF Inv, TypeOK
  <1>3. /\ status' \in [Requests -> Statuses]
        /\ \A q \in Requests : status'[q] = "pending" <=> status[q] = "pending" /\ q \notin {r}
        /\ \A q \in Requests : status[q] # "idle" => status'[q] # "idle"
    BY <1>1, Settles DEF Inv
  <1>4. queue' \subseteq queue /\ \A e \in queue' : e[1] # k
    BY <1>1 DEF Without
  <1>5. TypeOK'
    <2>1. Keys' = Keys
      BY <1>1 DEF Keys
    <2> QED
      BY <1>1, <1>3, <1>4, <2>1 DEF Inv, TypeOK, Statuses
  <1>6. PendingIsHeld'
    <2>1. queue' \subseteq timers'
      BY <1>1, <1>2, <1>4 DEF Inv, PendingIsHeld
    <2>2. ASSUME NEW q \in Requests, status'[q] = "pending", q \notin overtaken
          PROVE  q \in Values(queue')
      <3>1. status[q] = "pending" /\ q # r
        BY <1>3, <2>2
      <3>2. PICK e \in queue : e[2] = q
        BY <2>2, <3>1 DEF Inv, PendingIsHeld, Pending, Values
      <3>3. e \in Known /\ <<k, r>> \in Known
        BY <1>1 DEF Known
      <3>4. CASE e[1] # k
        BY <1>1, <3>2, <3>4 DEF Without, Values
      <3>5. CASE e[1] = k /\ k # PairingKey
        BY <1>2, <3>1, <3>2, <3>3, <3>5 DEF Inv, Numbered
      <3>6. CASE e[1] = k /\ k = PairingKey
        <4>1. q \in Pairings /\ r \in Pairings
          BY <1>2, <3>2, <3>3, <3>6 DEF Inv, Numbered
        <4>2. status[r] = "pending"
          BY <1>1, <1>2, <3>6 DEF Inv, PairingsOverlap
        <4> QED
          BY <2>2, <3>1, <4>1, <4>2 DEF Inv, PairingsOverlap, Pending
      <3> QED
        BY <3>4, <3>5, <3>6
    <2>3. ASSUME NEW q \in Requests, status'[q] = "pending" PROVE q \in Values(timers')
      <3>1. Values({<<k, r>>}) = {r}
        BY <1>2 DEF Values
      <3>2. status[q] = "pending" /\ q \notin Values({<<k, r>>})
        BY <1>3, <2>3, <3>1
      <3> QED
        BY <1>1, <3>2, TimerLeft
    <2> QED
      BY <1>1, <2>1, <2>2, <2>3 DEF PendingIsHeld, Pending
  <1>7. NothingOutstandingWhenDown'
    BY <1>1, <1>3 DEF Inv, NothingOutstandingWhenDown, Pending
  <1>8. Known' \subseteq Known
    BY <1>1, <1>4 DEF Known
  <1>9. Numbered'
    BY <1>1, <1>8 DEF Inv, Numbered
  <1>10. UnderWay'
    <2>1. \A e \in Known : e[2] \in Requests
      BY DEF Inv, TypeOK, Known
    <2> QED
      BY <1>1, <1>3, <1>8, <2>1 DEF Inv, UnderWay
  <1>11. PairingsOverlap'
    <2>1. ASSUME NEW e \in timers', e[1] = PairingKey PROVE status'[e[2]] = "pending"
      <3>1. e \in timers /\ e # <<k, r>> /\ e[2] \in Requests /\ status[e[2]] = "pending"
        BY <1>1, <2>1 DEF Inv, TypeOK, PairingsOverlap
      <3>2. e[2] # r
        <4> SUFFICES ASSUME e[2] = r PROVE FALSE
          OBVIOUS
        <4>1. e \in Known /\ <<k, r>> \in Known
          BY <1>1, <3>1 DEF Known
        <4>2. k = PairingKey
          BY <1>2, <2>1, <4>1 DEF Inv, Numbered
        <4> QED
          BY <2>1, <3>1, <4>2 DEF Inv, TypeOK
      <3> QED
        BY <1>3, <3>1, <3>2
    <2>2. \A p \in Pairings : status'[p] = "pending" => status[p] = "pending"
      BY <1>3 DEF Requests
    <2> QED
      BY <1>1, <2>1, <2>2 DEF Inv, PairingsOverlap, Pending
  <1> QED
    BY <1>5, <1>6, <1>7, <1>9, <1>10, <1>11 DEF Inv

\* A frame that settles an entry takes it, and its timer, and nothing else.
LEMMA ResolveStep ==
  ASSUME Inv, NEW f \in frames, NEW e \in queue, OnResponse(f, e) \/ OnPairing(f, e)
  PROVE  Inv'
  <1>1. /\ queue' = queue \ {e} /\ timers' = timers \ {e}
        /\ status' = Settled({e[2]}, "answered")
        /\ got' = [got EXCEPT ![e[2]] = IF Pending(e[2]) THEN f[3] ELSE @]
        /\ frames' = frames \ {f}
        /\ UNCHANGED <<link, inStep, xid, device, replied, overtaken>>
    BY DEF OnResponse, OnPairing, Resolve, Handles
  <1>2. e[2] \in Requests
    BY DEF Inv, TypeOK
  <1>3. /\ status' \in [Requests -> Statuses]
        /\ \A q \in Requests : status'[q] = "pending" <=> status[q] = "pending" /\ q \notin {e[2]}
        /\ \A q \in Requests : status[q] # "idle" => status'[q] # "idle"
    BY <1>1, Settles DEF Inv
  <1>4. TypeOK'
    <2>1. Keys' = Keys
      BY <1>1 DEF Keys
    <2>2. got' \in [Requests -> Requests \union {None}]
      BY <1>1, <1>2 DEF Inv, TypeOK
    <2> QED
      BY <1>1, <1>3, <2>1, <2>2 DEF Inv, TypeOK, Statuses
  <1>5. PendingIsHeld'
    <2>1. \A q \in Requests : q \in Values(queue) /\ q # e[2] => q \in Values(queue')
      BY <1>1 DEF Values
    <2>2. ASSUME NEW q \in Requests, status'[q] = "pending" PROVE q \in Values(timers')
      <3>1. Values({e}) = {e[2]}
        BY DEF Values
      <3>2. status[q] = "pending" /\ q \notin Values({e})
        BY <1>3, <2>2, <3>1
      <3> QED
        BY <1>1, <3>2, TimerLeft
    <2> QED
      BY <1>1, <1>3, <2>1, <2>2 DEF Inv, PendingIsHeld, Pending
  <1>6. NothingOutstandingWhenDown'
    BY <1>1, <1>3 DEF Inv, NothingOutstandingWhenDown, Pending
  <1>7. Known' \subseteq Known
    BY <1>1 DEF Known
  <1>8. Numbered'
    BY <1>1, <1>7 DEF Inv, Numbered
  <1>9. UnderWay'
    <2>1. \A d \in Known : d[2] \in Requests
      BY DEF Inv, TypeOK, Known
    <2> QED
      BY <1>1, <1>3, <1>7, <2>1 DEF Inv, UnderWay
  <1>10. PairingsOverlap'
    <2>1. ASSUME NEW d \in timers', d[1] = PairingKey PROVE status'[d[2]] = "pending"
      <3>1. d \in timers /\ d # e /\ d[2] \in Requests /\ status[d[2]] = "pending"
        BY <1>1, <2>1 DEF Inv, TypeOK, PairingsOverlap
      <3>2. d[2] # e[2]
        <4> SUFFICES ASSUME d[2] = e[2] PROVE FALSE
          OBVIOUS
        <4>1. d \in Known /\ e \in Known
          BY <3>1 DEF Known
        <4>2. e[1] = PairingKey
          BY <2>1, <4>1 DEF Inv, Numbered
        <4> QED
          BY <2>1, <3>1, <4>2 DEF Inv, TypeOK
      <3> QED
        BY <1>3, <3>1, <3>2
    <2>2. \A p \in Pairings : status'[p] = "pending" => status[p] = "pending"
      BY <1>3 DEF Requests
    <2> QED
      BY <1>1, <2>1, <2>2 DEF Inv, PairingsOverlap, Pending
  <1> QED
    BY <1>4, <1>5, <1>6, <1>8, <1>9, <1>10 DEF Inv

-----------------------------------------------------------------------------
(* The steps of the device.                                                *)

\* A frame of the device that is no response, or the response to a request it has.
LEMMA DeviceStep ==
  ASSUME Inv, NEW x \in Keys, NEW kind \in {"response", "pairing", "event"},
         NEW q \in Requests \union {None},
         frames' = frames \union {<<x, kind, q>>},
         kind = "response" => q \in Ordinary /\ <<x, q>> \in device /\ q \in replied',
         device' \subseteq device, replied \subseteq replied', replied' \subseteq Requests,
         UNCHANGED <<link, inStep, xid, queue, timers, status, got, overtaken>>
  PROVE  Inv'
  <1> DEFINE new == <<x, kind, q>>
  <1>1. new[1] = x /\ new[2] = kind /\ new[3] = q /\ <<x, q>>[1] = x /\ <<x, q>>[2] = q
    OBVIOUS
  <1>2. TypeOK'
    <2>1. Keys' = Keys
      BY DEF Keys
    <2> QED
      BY <2>1 DEF Inv, TypeOK
  <1> HIDE DEF new
  <1>3. frames' = frames \union {new}
    BY DEF new
  <1>4. PendingIsHeld' /\ NothingOutstandingWhenDown' /\ PairingsOverlap'
    BY DEF Inv, PendingIsHeld, NothingOutstandingWhenDown, PairingsOverlap, Values, Pending
  <1>5. Known' \subseteq Known
    BY DEF Known
  <1>6. kind = "response" => <<x, q>> \in Known /\ x # PairingKey
    <2> SUFFICES ASSUME kind = "response" PROVE <<x, q>> \in Known /\ x # PairingKey
      OBVIOUS
    <2>1. <<x, q>> \in Known
      BY DEF Known
    <2> QED
      BY <1>1, <2>1, RequestsAssumption DEF Inv, Numbered
  <1>7. Numbered'
    <2>1. \A e \in Known : kind = "response" /\ x = e[1] => q = e[2]
      BY <1>1, <1>6 DEF Inv, Numbered
    <2> QED
      BY <1>1, <1>3, <1>5, <2>1 DEF Inv, Numbered
  <1>8. UnderWay'
    BY <1>1, <1>3, <1>5, <1>6 DEF Inv, UnderWay
  <1> QED
    BY <1>2, <1>4, <1>7, <1>8 DEF Inv

\* The device answers what it was asked, under the number it was asked with.
LEMMA RepliesStep ==
  ASSUME Inv, NEW e \in device, DeviceReplies(e)
  PROVE  Inv'
  <1> DEFINE kind == IF e[2] \in Pairings THEN "pairing" ELSE "response"
  <1>1. e[1] \in Keys /\ e[2] \in Requests /\ e = <<e[1], e[2]>>
    BY DEF Inv, TypeOK
  <1>2. /\ device' = device \ {e} /\ replied' = replied \union {e[2]}
        /\ frames' = frames \union {<<e[1], kind, e[2]>>}
        /\ UNCHANGED <<link, inStep, xid, queue, timers, status, got, overtaken>>
    BY DEF DeviceReplies
  <1>3. kind \in {"response", "pairing", "event"}
        /\ (kind = "response" => e[2] \in Ordinary /\ <<e[1], e[2]>> \in device /\ e[2] \in replied')
    BY <1>1, <1>2 DEF Requests
  <1>4. device' \subseteq device /\ replied \subseteq replied' /\ replied' \subseteq Requests
        /\ e[2] \in Requests \union {None}
    BY <1>1, <1>2 DEF Inv, TypeOK
  <1> HIDE DEF kind
  <1> QED
    BY <1>1, <1>2, <1>3, <1>4, DeviceStep

\* An event may carry any number in use.
LEMMA PushesStep ==
  ASSUME Inv, NEW x \in {PairingKey} \union {e[1] : e \in queue}, DevicePushes(x)
  PROVE  Inv'
  <1>1. x \in Keys
    BY FreshNumber DEF Inv, TypeOK
  <1>2. /\ frames' = frames \union {<<x, "event", None>>}
        /\ UNCHANGED <<link, inStep, xid, queue, timers, status, device, got, replied, overtaken>>
    BY DEF DevicePushes
  <1>3. replied' \subseteq Requests
    BY <1>2 DEF Inv, TypeOK
  <1> QED
    BY <1>1, <1>2, <1>3, DeviceStep

-----------------------------------------------------------------------------
(* The theorems                                                            *)

\* The steps that leave the requests alone.
Quiet ==
    \/ Destroys \/ PeerEnds \/ Reconnects
    \/ \E f \in frames : OnUnsolicited(f)
    \/ OnGarbage /\ UNCHANGED <<queue, timers, status>>
    \/ UNCHANGED vars

\* Every step keeps the invariant.
LEMMA NextInv == Inv /\ [Next]_vars => Inv'
  <1> SUFFICES ASSUME Inv, [Next]_vars PROVE Inv'
    OBVIOUS
  <1>1. ASSUME NEW r \in Requests, ExchangeWritten(r) PROVE Inv'
    <2>1. /\ Enqueue(r) /\ link = "up" /\ status' = [status EXCEPT ![r] = "pending"]
          /\ device' \subseteq device \union {<<Key(r), r>>}
          /\ UNCHANGED <<link, inStep, frames, got, replied>>
      BY <1>1 DEF ExchangeWritten
    <2> QED
      BY <2>1, EnqueueStep, "pending" \in {"pending", "failed"}
  <1>2. ASSUME NEW r \in Requests, ExchangeUnwritable(r) PROVE Inv'
    BY <1>2, UnwritableStep
  <1>3. ASSUME NEW r \in Requests, ExchangeUnencodable(r) PROVE Inv'
    <2>1. /\ Enqueue(r) /\ r \in Ordinary /\ status' = [status EXCEPT ![r] = "failed"]
          /\ device' \subseteq device \union {<<Key(r), r>>}
          /\ UNCHANGED <<link, inStep, frames, got, replied>>
      BY <1>3 DEF ExchangeUnencodable
    <2> QED
      BY <2>1, EnqueueStep, "failed" \in {"pending", "failed"}
  <1>4. ASSUME NEW e \in timers, TimerFires(e[1], e[2]) PROVE Inv'
    BY <1>4, TimerStep
  <1>5. ASSUME NEW f \in frames, NEW e \in queue, OnResponse(f, e) \/ OnPairing(f, e)
        PROVE  Inv'
    BY <1>5, ResolveStep
  <1>6. CASE Rejecting
    BY <1>6, RejectingStep
  <1>7. CASE Quiet
    <2>1. /\ device' \subseteq device /\ frames' \subseteq frames
          /\ UNCHANGED <<xid, queue, timers, status, got, replied, overtaken>>
      BY <1>7 DEF Quiet, Destroys, PeerEnds, Reconnects, OnUnsolicited, OnGarbage, Handles,
                  Cut, vars
    <2>2. link' = link \/ link' \in {"up", "closing", "dying"}
      BY <1>7 DEF Quiet, Destroys, PeerEnds, Reconnects, OnUnsolicited, OnGarbage, Handles,
                  Cut, vars
    <2>3. inStep' \in BOOLEAN
      BY <1>7 DEF Quiet, Destroys, PeerEnds, Reconnects, OnUnsolicited, OnGarbage, Handles,
                  Cut, vars, Inv, TypeOK
    <2> QED
      BY <2>1, <2>2, <2>3, QuietStep
  <1>8. ASSUME NEW e \in device, DeviceReplies(e) PROVE Inv'
    BY <1>8, RepliesStep
  <1>9. ASSUME NEW x \in {PairingKey} \union {e[1] : e \in queue}, DevicePushes(x) PROVE Inv'
    BY <1>9, PushesStep
  <1>10. OnGarbage => Rejecting \/ Quiet
    BY DEF OnGarbage, Rejecting, Quiet
  <1>11. CASE \E f \in frames : OnUnsolicited(f) \/ OnBadFrame(f)
    BY <1>6, <1>7, <1>11 DEF Rejecting, Quiet
  <1>12. CASE \/ OnOverflow \/ OnGarbage \/ OnStreamError \/ OnStreamClose
              \/ Destroys \/ Disconnect \/ PeerEnds \/ Reconnects \/ UNCHANGED vars
    BY <1>6, <1>7, <1>10, <1>12 DEF Rejecting, Quiet
  <1> QED
    BY <1>1, <1>2, <1>3, <1>4, <1>5, <1>8, <1>9, <1>11, <1>12 DEF Next

\* The inductive invariant holds throughout.
THEOREM Invariance == Spec => []Inv
  BY InitInv, NextInv, PTL DEF Spec

\* CompanionStream keeps its types, and its queue has one entry a key.
THEOREM TypeCorrect == Spec => []TypeOK
  <1>1. Inv => TypeOK
    BY DEF Inv
  <1> QED
    BY <1>1, Invariance, PTL

\* Deleting by key takes no entry from a request that could be answered, but between
\* pairing exchanges that overlap (companion-link/src/stream.ts exchange(), #handle()).
THEOREM EntriesAreKept == Spec => []PendingIsHeld
  <1>1. Inv => PendingIsHeld
    BY DEF Inv
  <1> QED
    BY <1>1, Invariance, PTL

\* A stream whose connection is closed has no request outstanding but what another
\* pairing exchange took the entry of (onStreamClose(), and the 'error' of write()).
THEOREM CloseRejectsAll == Spec => []NothingOutstandingWhenDown
  <1>1. Inv => NothingOutstandingWhenDown
    BY DEF Inv
  <1> QED
    BY <1>1, Invariance, PTL

-----------------------------------------------------------------------------
(* CompanionStream implements Exchange for ordinary requests.              *)

\* A new stream has made no promise yet.
LEMMA InitRefines == Init => Promise!Init
  BY DEF Init, Promise!Init, Requests

\* A step that fails some promises and answers none is a Fail.
LEMMA FailRefines ==
  ASSUME NEW S, status' = Settled(S, "failed"), UNCHANGED <<got, replied>>
  PROVE  Promise!Next
  <1> PICK F \in SUBSET Ordinary :
             F = {r \in Ordinary : r \in S /\ status[r] \in {"idle", "pending"}}
    OBVIOUS
  <1>1. Promise!Fail(F)
    BY DEF Settled, Promise!Fail, Requests
  <1> QED
    BY <1>1 DEF Promise!Next

\* A request that is sent is a Start, if it is an ordinary one.
LEMMA WrittenRefines ==
  ASSUME Inv, NEW r \in Requests, ExchangeWritten(r)
  PROVE  Promise!Next \/ UNCHANGED Promise!vars
  <1>1. /\ status[r] = "idle" /\ status' = [status EXCEPT ![r] = "pending"]
        /\ UNCHANGED <<got, replied>> /\ status \in [Requests -> Statuses]
    BY DEF ExchangeWritten, Enqueue, Inv, TypeOK, Statuses
  <1>2. CASE r \in Ordinary
    <2>1. Promise!Start(r)
      BY <1>1, <1>2 DEF Promise!Start, Requests
    <2> QED
      BY <1>2, <2>1 DEF Promise!Next
  <1>3. CASE r \notin Ordinary
    BY <1>1, <1>3 DEF Promise!vars, Requests
  <1> QED
    BY <1>2, <1>3

\* A response settles the request it answers.
LEMMA ResponseRefines ==
  ASSUME Inv, NEW f \in frames, NEW e \in queue, OnResponse(f, e)
  PROVE  Promise!Next \/ UNCHANGED Promise!vars
  <1>1. /\ status' = Settled({e[2]}, "answered")
        /\ got' = [got EXCEPT ![e[2]] = IF Pending(e[2]) THEN f[3] ELSE @]
        /\ f[2] = "response" /\ e[1] = f[1] /\ replied' = replied
    BY DEF OnResponse, Resolve, Matches
  <1>2. e \in Known
    BY DEF Known
  <1>3. f[3] = e[2] /\ e[2] \in Ordinary /\ e[2] \in replied /\ status[e[2]] # "idle"
    BY <1>1, <1>2 DEF Inv, Numbered, UnderWay
  <1>4. status \in [Requests -> Statuses] /\ got \in [Requests -> Requests \union {None}]
    BY DEF Inv, TypeOK, Statuses
  <1>5. CASE status[e[2]] = "pending"
    <2>1. status' = [status EXCEPT ![e[2]] = "answered"]
      BY <1>1, <1>4, <1>5 DEF Settled
    <2>2. got' = [got EXCEPT ![e[2]] = e[2]]
      BY <1>1, <1>3, <1>5 DEF Pending
    <2>3. Promise!Answer(e[2])
      BY <1>1, <1>3, <1>4, <1>5, <2>1, <2>2 DEF Promise!Answer, Requests
    <2> QED
      BY <1>3, <2>3 DEF Promise!Next
  <1>6. CASE status[e[2]] # "pending"
    <2>1. status' = status
      BY <1>1, <1>3, <1>4, <1>6 DEF Settled
    <2>2. got' = got
      BY <1>1, <1>3, <1>4, <1>6 DEF Pending
    <2> QED
      BY <1>1, <2>1, <2>2 DEF Promise!vars
  <1> QED
    BY <1>5, <1>6

\* A frame taken for the answer of a pairing exchange settles no ordinary request.
LEMMA PairingRefines ==
  ASSUME Inv, NEW f \in frames, NEW e \in queue, OnPairing(f, e)
  PROVE  UNCHANGED Promise!vars
  <1>1. /\ status' = Settled({e[2]}, "answered")
        /\ got' = [got EXCEPT ![e[2]] = IF Pending(e[2]) THEN f[3] ELSE @]
        /\ e[1] = PairingKey /\ replied' = replied
    BY DEF OnPairing, Resolve
  <1>2. e[2] \in Pairings /\ e[2] \notin Ordinary
    BY <1>1, RequestsAssumption DEF Inv, Numbered, Known
  <1>3. \A r \in Ordinary : status'[r] = status[r] /\ got'[r] = got[r]
    BY <1>1, <1>2 DEF Settled, Inv, TypeOK, Requests
  <1> QED
    BY <1>1, <1>3 DEF Promise!vars

\* Every step is a step of Exchange or leaves it alone.
LEMMA StepRefines == Inv /\ [Next]_vars => [Promise!Next]_(Promise!vars)
  <1> SUFFICES ASSUME Inv, [Next]_vars PROVE Promise!Next \/ UNCHANGED Promise!vars
    OBVIOUS
  <1>1. ASSUME NEW r \in Requests, ExchangeWritten(r)
        PROVE  Promise!Next \/ UNCHANGED Promise!vars
    BY <1>1, WrittenRefines
  <1>2. ASSUME NEW r \in Requests, ExchangeUnwritable(r) PROVE Promise!Next
    BY <1>2, FailRefines DEF ExchangeUnwritable, RejectAll
  <1>3. ASSUME NEW r \in Requests, ExchangeUnencodable(r) PROVE Promise!Next
    <2>1. status[r] = "idle" /\ status' = [status EXCEPT ![r] = "failed"]
          /\ UNCHANGED <<got, replied>> /\ status \in [Requests -> Statuses]
      BY <1>3 DEF ExchangeUnencodable, Enqueue, Inv, TypeOK, Statuses
    <2>2. status' = Settled({r}, "failed")
      BY <2>1 DEF Settled
    <2> QED
      BY <2>1, <2>2, FailRefines
  <1>4. ASSUME NEW e \in timers, TimerFires(e[1], e[2]) PROVE Promise!Next
    BY <1>4, FailRefines DEF TimerFires
  <1>5. ASSUME NEW f \in frames, NEW e \in queue, OnResponse(f, e) \/ OnPairing(f, e)
        PROVE  Promise!Next \/ UNCHANGED Promise!vars
    BY <1>5, ResponseRefines, PairingRefines
  <1>6. CASE Rejecting
    <2>1. RejectAll(queue) /\ UNCHANGED <<got, replied>>
      BY <1>6 DEF Rejecting, OnOverflow, OnStreamError, OnStreamClose, Disconnect,
                  OnGarbage, OnBadFrame, Cut
    <2> QED
      BY <2>1, FailRefines DEF RejectAll
  <1>7. CASE Quiet
    <2>1. UNCHANGED <<status, got, replied>>
      BY <1>7 DEF Quiet, Destroys, PeerEnds, Reconnects, OnUnsolicited, OnGarbage, Cut, vars
    <2> QED
      BY <2>1 DEF Promise!vars
  <1>8. ASSUME NEW e \in device, DeviceReplies(e)
        PROVE  Promise!Next \/ UNCHANGED Promise!vars
    <2>1. /\ replied' = replied \union {e[2]} /\ UNCHANGED <<status, got>>
          /\ e[2] \in Requests /\ status[e[2]] # "idle"
      BY <1>8 DEF DeviceReplies, Inv, TypeOK, UnderWay, Known
    <2>2. CASE e[2] \in Ordinary
      <3>1. Promise!Reply(e[2])
        BY <2>1, <2>2 DEF Promise!Reply
      <3> QED
        BY <2>2, <3>1 DEF Promise!Next
    <2>3. CASE e[2] \notin Ordinary
      BY <2>1, <2>3 DEF Promise!vars
    <2> QED
      BY <2>2, <2>3
  <1>9. ASSUME NEW x, DevicePushes(x) PROVE UNCHANGED Promise!vars
    BY <1>9 DEF DevicePushes, Promise!vars
  <1>10. OnGarbage => Rejecting \/ Quiet
    BY DEF OnGarbage, Rejecting, Quiet
  <1>11. CASE \E f \in frames : OnUnsolicited(f) \/ OnBadFrame(f)
    BY <1>6, <1>7, <1>11 DEF Rejecting, Quiet
  <1>12. CASE \/ OnOverflow \/ OnGarbage \/ OnStreamError \/ OnStreamClose
              \/ Destroys \/ Disconnect \/ PeerEnds \/ Reconnects \/ UNCHANGED vars
    BY <1>6, <1>7, <1>10, <1>12 DEF Rejecting, Quiet
  <1> QED
    BY <1>1, <1>2, <1>3, <1>4, <1>5, <1>8, <1>9, <1>11, <1>12 DEF Next

\* An ordinary exchange() of Companion Link is settled once, with its own response or
\* an error (companion-link/src/stream.ts exchange(), #handle()).
THEOREM Implements == Spec => ImplementsExchange
  BY InitRefines, StepRefines, Invariance, PTL DEF Spec, ImplementsExchange, Promise!Spec
=============================================================================
