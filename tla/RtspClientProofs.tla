-------------------------- MODULE RtspClientProofs --------------------------
(***************************************************************************)
(* Proofs that RtspClient keeps its safety properties, and implements      *)
(* Exchange, for every set of requests.                                    *)
(*                                                                         *)
(* That a request gets its own answer rests on its number: no two requests *)
(* known to the client or under way on the connection share one (Numbered).*)
(* This holds because #cseq is above every number in use, which TypeOK     *)
(* says, and goes on rising when a connection ends.                        *)
(***************************************************************************)
EXTENDS RtspClient, TLAPS

InUse == requests \union device \union responses

Numbered ==
    /\ \A e, f \in InUse : e[1] = f[1] /\ e[1] # NoCseq => e[2] = f[2]
    /\ \A e, f \in requests : e[2] = f[2] => e[1] = f[1]

\* What is under way on the connection was asked, and responses were given.
UnderWay ==
    /\ \A e \in device \union responses : status[e[2]] # "idle"
    /\ \A e \in responses : e[2] \in replied

Inv ==
    /\ TypeOK
    /\ EntriesArePending
    /\ NothingOutstandingWhenDown
    /\ Numbered
    /\ UnderWay

-----------------------------------------------------------------------------

\* The invariant holds of a new client.
LEMMA InitInv == Init => Inv
  <1> SUFFICES ASSUME Init PROVE Inv
    OBVIOUS
  <1>1. TypeOK
    BY NoneAssumption DEF Init, TypeOK
  <1>2. EntriesArePending /\ NothingOutstandingWhenDown
    BY DEF Init, EntriesArePending, NothingOutstandingWhenDown, Values
  <1>3. Numbered /\ UnderWay
    BY DEF Init, Numbered, UnderWay, InUse
  <1> QED
    BY <1>1, <1>2, <1>3 DEF Inv

-----------------------------------------------------------------------------
(* The steps that reject everything.                                       *)

\* What a Map holds after set().
LEMMA ValuesAdd ==
  ASSUME NEW map, NEW k, NEW r
  PROVE  Values(map \union {<<k, r>>}) = Values(map) \union {r}
  <1>1. <<k, r>>[2] = r
    OBVIOUS
  <1>2. ASSUME NEW x, x \in Values(map) \union {r}
        PROVE  x \in Values(map \union {<<k, r>>})
    BY <1>1, <1>2 DEF Values
  <1>3. ASSUME NEW x, x \in Values(map \union {<<k, r>>})
        PROVE  x \in Values(map) \union {r}
    BY <1>1, <1>3 DEF Values
  <1> QED
    BY <1>2, <1>3

\* RejectAll empties the map of pending requests and fails what was in it, with
\* the new request of an unwritable exchange().
LEMMA RejectAllFails ==
  ASSUME Inv, NEW S \in SUBSET Requests, NEW map,
         requests \subseteq map, Values(map) = Values(requests) \union S,
         RejectAll(map), \A r \in S : status[r] = "idle"
  PROVE  /\ requests' = {} /\ timers' = {}
         /\ status' \in [Requests -> {"idle", "pending", "answered", "failed"}]
         /\ \A r \in Requests : status'[r] # "pending"
         /\ \A r \in Requests : status[r] # "idle" => status'[r] # "idle"
  <1>1. requests' = {} /\ timers' = {}
    BY DEF RejectAll, Inv, EntriesArePending
  <1>2. status' = [r \in Requests |-> IF r \in Values(map) THEN "failed" ELSE status[r]]
    BY DEF RejectAll, Fails
  <1>3. status' \in [Requests -> {"idle", "pending", "answered", "failed"}]
    BY <1>2 DEF Inv, TypeOK
  <1>4. \A r \in Requests : r \in Values(map) <=> status[r] = "pending" \/ r \in S
    BY DEF Inv, EntriesArePending
  <1> QED
    BY <1>1, <1>2, <1>3, <1>4

\* The steps in which the connection fails, or its bytes are useless.
Ended == OnOverflow \/ OnCorrupt \/ OnRtspError \/ OnRtspClose

\* Losing or leaving the connection keeps it: no entry survives, the numbers go on.
LEMMA EndedStep == Inv /\ Ended => Inv'
  <1> SUFFICES ASSUME Inv, Ended PROVE Inv'
    OBVIOUS
  <1>1. RejectAll(requests) /\ responses' = {} /\ device' \subseteq device /\ cseq' = cseq
        /\ got' = got /\ replied' = replied /\ inStep' \in BOOLEAN
        /\ link' \in {"up", "closing", "dying", "down"}
    BY DEF Ended, OnOverflow, OnCorrupt, OnRtspError, OnRtspClose, Inv, TypeOK, Receiving
  <1>3. /\ requests' = {} /\ timers' = {}
        /\ status' \in [Requests -> {"idle", "pending", "answered", "failed"}]
        /\ \A r \in Requests : status'[r] # "pending"
        /\ \A r \in Requests : status[r] # "idle" => status'[r] # "idle"
    <2>1. Values(requests) = Values(requests) \union {} /\ {} \in SUBSET Requests
      OBVIOUS
    <2>2. requests \subseteq requests /\ \A r \in {} : status[r] = "idle"
      OBVIOUS
    <2> QED
      BY <1>1, <2>1, <2>2, RejectAllFails, Zenon
  <1>4. TypeOK'
    BY <1>1, <1>3 DEF Inv, TypeOK
  <1>5. EntriesArePending' /\ NothingOutstandingWhenDown'
    BY <1>3 DEF EntriesArePending, NothingOutstandingWhenDown, Values
  <1>6. Numbered'
    BY <1>1, <1>3 DEF Inv, Numbered, InUse
  <1>7. UnderWay'
    <2>1. \A e \in device : e[2] \in Requests
      BY DEF Inv, TypeOK
    <2> QED
      BY <1>1, <1>3, <2>1 DEF Inv, UnderWay
  <1> QED
    BY <1>4, <1>5, <1>6, <1>7 DEF Inv

\* A request on a dead connection takes a number and is rejected at once.
LEMMA UnwritableStep ==
  ASSUME Inv, NEW r \in Requests, ExchangeUnwritable(r)
  PROVE  Inv'
  <1> DEFINE map == requests \union {<<cseq, r>>}
  <1>1. /\ RejectAll(map) /\ cseq' = cseq + 1 /\ status[r] = "idle"
        /\ UNCHANGED <<link, inStep, device, responses, got, replied>>
    BY DEF ExchangeUnwritable
  <1>3. Values(map) = Values(requests) \union {r}
    BY ValuesAdd
  <1>4. /\ requests' = {} /\ timers' = {}
        /\ status' \in [Requests -> {"idle", "pending", "answered", "failed"}]
        /\ \A q \in Requests : status'[q] # "pending"
        /\ \A q \in Requests : status[q] # "idle" => status'[q] # "idle"
    <2>1. requests \subseteq map
      OBVIOUS
    <2>2. {r} \in SUBSET Requests /\ \A q \in {r} : status[q] = "idle"
      BY <1>1
    <2> HIDE DEF map
    <2> QED
      BY <1>1, <1>3, <2>1, <2>2, RejectAllFails, Zenon
  <1>5. TypeOK'
    BY <1>1, <1>4 DEF Inv, TypeOK
  <1>6. EntriesArePending' /\ NothingOutstandingWhenDown'
    BY <1>4 DEF EntriesArePending, NothingOutstandingWhenDown, Values
  <1>7. Numbered'
    BY <1>1, <1>4 DEF Inv, Numbered, InUse
  <1>8. UnderWay'
    <2>1. \A e \in device \union responses : e[2] \in Requests
      BY DEF Inv, TypeOK
    <2> QED
      BY <1>1, <1>4, <2>1 DEF Inv, UnderWay
  <1> QED
    BY <1>5, <1>6, <1>7, <1>8 DEF Inv

-----------------------------------------------------------------------------
(* The steps of one request.                                               *)

\* A request that is written has a number nobody uses.
LEMMA WrittenStep ==
  ASSUME Inv, NEW r \in Requests, ExchangeWritten(r)
  PROVE  Inv'
  <1>1. \A e \in InUse : e[1] # cseq
    BY CseqAssumption DEF Inv, TypeOK, InUse
  <1>2. Without(requests, cseq) = requests
    BY <1>1 DEF Without, InUse
  <1>3. /\ requests' = requests \union {<<cseq, r>>}
        /\ timers' = timers \union {<<cseq, r>>}
        /\ device' = device \union {<<cseq, r>>}
        /\ status' = [status EXCEPT ![r] = "pending"]
        /\ cseq' = cseq + 1 /\ link = "up" /\ status[r] = "idle"
        /\ UNCHANGED <<link, inStep, responses, got, replied>>
    BY <1>2 DEF ExchangeWritten
  <1>4. TypeOK'
    BY <1>3 DEF Inv, TypeOK
  <1>5. EntriesArePending'
    <2>1. Values(requests') = Values(requests) \union {r}
      BY <1>3, ValuesAdd
    <2>2. {q \in Requests : status'[q] = "pending"}
            = {q \in Requests : status[q] = "pending"} \union {r}
      BY <1>3 DEF Inv, TypeOK
    <2> QED
      BY <1>3, <2>1, <2>2 DEF Inv, EntriesArePending
  <1>6. NothingOutstandingWhenDown'
    BY <1>3 DEF NothingOutstandingWhenDown
  <1>7. Numbered'
    <2>1. InUse' = InUse \union {<<cseq, r>>}
      BY <1>3 DEF InUse
    <2>2. \A e \in requests : e[2] # r
      BY <1>3 DEF Inv, EntriesArePending, Values
    <2> QED
      BY <1>1, <1>3, <2>1, <2>2 DEF Inv, Numbered
  <1>8. UnderWay'
    <2>1. \A e \in device \union responses : e[2] \in Requests
      BY DEF Inv, TypeOK
    <2> QED
      BY <1>3, <2>1 DEF Inv, UnderWay, TypeOK
  <1> QED
    BY <1>4, <1>5, <1>6, <1>7, <1>8 DEF Inv

\* A request that fails before it is entered uses a number up and nothing else.
LEMMA ThrowsStep ==
  ASSUME Inv, NEW r \in Requests, ExchangeThrows(r)
  PROVE  Inv'
  <1>1. /\ status[r] = "idle" /\ cseq' = cseq + 1
        /\ status' = [status EXCEPT ![r] = "failed"]
        /\ UNCHANGED <<link, inStep, requests, timers, device, responses, got, replied>>
    BY DEF ExchangeThrows
  <1>2. cseq \in Nat /\ cseq' \in Nat /\ 0..cseq-1 \subseteq 0..cseq'-1
    BY <1>1 DEF Inv, TypeOK
  <1>3. /\ status' \in [Requests -> {"idle", "pending", "answered", "failed"}]
        /\ \A q \in Requests : status'[q] = "pending" <=> status[q] = "pending"
        /\ \A q \in Requests : status[q] # "idle" => status'[q] # "idle"
    BY <1>1 DEF Inv, TypeOK
  <1>4. TypeOK'
    BY <1>1, <1>2, <1>3 DEF Inv, TypeOK
  <1>5. EntriesArePending' /\ NothingOutstandingWhenDown'
    BY <1>1, <1>3 DEF Inv, EntriesArePending, NothingOutstandingWhenDown
  <1>6. Numbered'
    BY <1>1 DEF Inv, Numbered, InUse
  <1>7. UnderWay'
    <2>1. \A f \in device \union responses : f[2] \in Requests
      BY DEF Inv, TypeOK
    <2> QED
      BY <1>1, <1>3, <2>1 DEF Inv, UnderWay
  <1> QED
    BY <1>4, <1>5, <1>6, <1>7 DEF Inv

\* An entry that is settled leaves the map and disarms its timer together, and
\* takes no other entry with it.
LEMMA SettledEntry ==
  ASSUME Inv, NEW k, NEW r \in Requests, <<k, r>> \in requests,
         NEW how \in {"answered", "failed"},
         requests' = Without(requests, k), timers' = timers \ {<<k, r>>},
         status' = [status EXCEPT ![r] = how]
  PROVE  /\ EntriesArePending'
         /\ requests' \subseteq requests /\ timers' \subseteq timers
         /\ status' \in [Requests -> {"idle", "pending", "answered", "failed"}]
         /\ \A q \in Requests : status[q] # "idle" => status'[q] # "idle"
  <1>1. k # NoCseq
    BY CseqAssumption DEF Inv, TypeOK
  <1>2. \A e \in requests : e[1] = k => e = <<k, r>>
    <2> SUFFICES ASSUME NEW e \in requests, e[1] = k PROVE e = <<k, r>>
      OBVIOUS
    <2>1. e[2] = r
      BY <1>1 DEF Inv, Numbered, InUse
    <2> QED
      BY <2>1 DEF Inv, TypeOK
  <1>3. requests' = requests \ {<<k, r>>}
    BY <1>2 DEF Without
  <1>4. timers' = requests'
    BY <1>3 DEF Inv, EntriesArePending
  <1>5. \A e \in requests' : e[2] # r
    <2> SUFFICES ASSUME NEW e \in requests', e[2] = r PROVE FALSE
      OBVIOUS
    <2>1. e \in requests /\ e[1] # k
      BY DEF Without
    <2>2. <<k, r>>[1] = k /\ <<k, r>>[2] = r
      OBVIOUS
    <2> QED
      BY <2>1, <2>2 DEF Inv, Numbered
  <1>6. Values(requests') = Values(requests) \ {r}
    BY <1>3, <1>5 DEF Values
  <1>7. {q \in Requests : status'[q] = "pending"}
          = {q \in Requests : status[q] = "pending"} \ {r}
    BY DEF Inv, TypeOK
  <1>8. EntriesArePending'
    BY <1>4, <1>6, <1>7 DEF Inv, EntriesArePending
  <1> QED
    BY <1>3, <1>8 DEF Inv, TypeOK

\* A response takes the one entry under its number with it.
LEMMA ResponseStep ==
  ASSUME Inv, NEW e \in responses, NEW r \in Requests, OnResponse(e, r)
  PROVE  Inv'
  <1>1. /\ <<e[1], r>> \in requests
        /\ responses' = responses \ {e} /\ requests' = Without(requests, e[1])
        /\ timers' = timers \ {<<e[1], r>>}
        /\ status' = [status EXCEPT ![r] = "answered"]
        /\ got' = [got EXCEPT ![r] = e[2]]
        /\ UNCHANGED <<link, inStep, cseq, device, replied>>
    BY DEF OnResponse
  <1>2. /\ EntriesArePending'
        /\ requests' \subseteq requests /\ timers' \subseteq timers
        /\ status' \in [Requests -> {"idle", "pending", "answered", "failed"}]
        /\ \A q \in Requests : status[q] # "idle" => status'[q] # "idle"
    BY <1>1, SettledEntry, "answered" \in {"answered", "failed"}
  <1>3. TypeOK'
    <2>1. e[2] \in Requests
      BY DEF Inv, TypeOK
    <2>2. got' \in [Requests -> Requests \union {None}]
      BY <1>1, <2>1 DEF Inv, TypeOK
    <2> QED
      BY <1>1, <1>2, <2>2 DEF Inv, TypeOK
  <1>4. NothingOutstandingWhenDown'
    BY <1>1, <1>2 DEF Inv, NothingOutstandingWhenDown
  <1>5. Numbered'
    BY <1>1, <1>2 DEF Inv, Numbered, InUse
  <1>6. UnderWay'
    <2>1. \A f \in device \union responses : f[2] \in Requests
      BY DEF Inv, TypeOK
    <2> QED
      BY <1>1, <1>2, <2>1 DEF Inv, UnderWay
  <1> QED
    BY <1>2, <1>3, <1>4, <1>5, <1>6 DEF Inv

\* A timer takes the entry of its own request with it.
LEMMA TimerStep ==
  ASSUME Inv, NEW k, NEW r, TimerFires(k, r)
  PROVE  Inv'
  <1>1. /\ <<k, r>> \in requests
        /\ requests' = Without(requests, k) /\ timers' = timers \ {<<k, r>>}
        /\ status' = [status EXCEPT ![r] = "failed"]
        /\ UNCHANGED <<link, inStep, cseq, device, responses, got, replied>>
    BY DEF TimerFires, Inv, EntriesArePending
  <1>2. r \in Requests
    BY <1>1 DEF Inv, TypeOK
  <1>3. /\ EntriesArePending'
        /\ requests' \subseteq requests /\ timers' \subseteq timers
        /\ status' \in [Requests -> {"idle", "pending", "answered", "failed"}]
        /\ \A q \in Requests : status[q] # "idle" => status'[q] # "idle"
    BY <1>1, <1>2, SettledEntry, "failed" \in {"answered", "failed"}
  <1>4. TypeOK'
    BY <1>1, <1>3 DEF Inv, TypeOK
  <1>5. NothingOutstandingWhenDown' /\ Numbered'
    BY <1>1, <1>3 DEF Inv, NothingOutstandingWhenDown, Numbered, InUse
  <1>6. UnderWay'
    <2>1. \A f \in device \union responses : f[2] \in Requests
      BY DEF Inv, TypeOK
    <2> QED
      BY <1>1, <1>3, <2>1 DEF Inv, UnderWay
  <1> QED
    BY <1>3, <1>4, <1>5, <1>6 DEF Inv

\* The device answers, and the steps that leave the requests alone.
LEMMA RepliesStep ==
  ASSUME Inv, NEW e \in device, DeviceReplies(e)
  PROVE  Inv'
  <1> PICK k \in {e[1], NoCseq} : responses' = responses \union {<<k, e[2]>>}
    BY DEF DeviceReplies
  <1>1. /\ device' = device \ {e} /\ replied' = replied \union {e[2]}
        /\ UNCHANGED <<link, inStep, cseq, requests, timers, status, got>>
    BY DEF DeviceReplies
  <1>2. e[1] \in 0..cseq-1 /\ e[2] \in Requests
    BY DEF Inv, TypeOK
  <1>3. TypeOK'
    BY <1>1, <1>2 DEF Inv, TypeOK
  <1>4. EntriesArePending' /\ NothingOutstandingWhenDown'
    BY <1>1 DEF Inv, EntriesArePending, NothingOutstandingWhenDown
  <1>5. Numbered'
    <2>1. \A f \in InUse' : f \in InUse \/ f = <<k, e[2]>>
      BY <1>1 DEF InUse
    <2>2. <<k, e[2]>>[1] = k /\ <<k, e[2]>>[2] = e[2] /\ e \in InUse
      BY DEF InUse
    <2> QED
      BY <1>1, <2>1, <2>2 DEF Inv, Numbered
  <1>6. UnderWay'
    <2>1. <<k, e[2]>>[2] = e[2]
      OBVIOUS
    <2> QED
      BY <1>1, <2>1 DEF Inv, UnderWay
  <1> QED
    BY <1>3, <1>4, <1>5, <1>6 DEF Inv

\* Every step keeps the invariant.
LEMMA NextInv == Inv /\ [Next]_vars => Inv'
  <1> SUFFICES ASSUME Inv, [Next]_vars PROVE Inv'
    OBVIOUS
  <1>1. ASSUME NEW r \in Requests, ExchangeWritten(r) \/ ExchangeUnwritable(r) \/ ExchangeThrows(r)
        PROVE  Inv'
    BY <1>1, WrittenStep, UnwritableStep, ThrowsStep
  <1>2. ASSUME NEW e \in timers, TimerFires(e[1], e[2]) PROVE Inv'
    BY <1>2, TimerStep
  <1>3. ASSUME NEW e \in responses, NEW r \in Requests, OnResponse(e, r) PROVE Inv'
    BY <1>3, ResponseStep
  <1>4. ASSUME NEW e \in responses, OnUnexpected(e) PROVE Inv'
    BY <1>4 DEF OnUnexpected, Inv, TypeOK, EntriesArePending, NothingOutstandingWhenDown,
                Numbered, UnderWay, InUse
  <1>5. CASE Ended
    BY <1>5, EndedStep
  <1>6. CASE Reconnects
    BY <1>6 DEF Reconnects, Inv, TypeOK, EntriesArePending, NothingOutstandingWhenDown,
                Numbered, UnderWay, InUse
  <1>7. CASE Ends
    BY <1>7 DEF Ends, Inv, TypeOK, EntriesArePending, NothingOutstandingWhenDown,
                Numbered, UnderWay, InUse
  <1>8. CASE Destroys
    BY <1>8 DEF Destroys, Receiving, Inv, TypeOK, EntriesArePending,
                NothingOutstandingWhenDown, Numbered, UnderWay, InUse
  <1>9. ASSUME NEW e \in device, DeviceReplies(e) PROVE Inv'
    BY <1>9, RepliesStep
  <1>10. CASE UNCHANGED vars
    BY <1>10 DEF vars, Inv, TypeOK, EntriesArePending, NothingOutstandingWhenDown,
                 Numbered, UnderWay, InUse, Values
  <1> QED
    BY <1>1, <1>2, <1>3, <1>4, <1>5, <1>6, <1>7, <1>8, <1>9, <1>10 DEF Next, Ended

-----------------------------------------------------------------------------
(* The theorems                                                            *)

\* The inductive invariant holds throughout.
THEOREM Invariance == Spec => []Inv
  BY InitInv, NextInv, PTL DEF Spec

\* RtspClient keeps its types, and gives no number out twice.
THEOREM TypeCorrect == Spec => []TypeOK
  <1>1. Inv => TypeOK
    BY DEF Inv
  <1> QED
    BY <1>1, Invariance, PTL

\* No end of a request leaves an entry or a timer behind (rtsp/src/client.ts
\* exchange(), onRtspClose(), onRtspData(), onRtspError()).
THEOREM NothingLeftBehind == Spec => []EntriesArePending
  <1>1. Inv => EntriesArePending
    BY DEF Inv
  <1> QED
    BY <1>1, Invariance, PTL

\* A client whose connection is closed has no request outstanding (onRtspClose()
\* and the 'error' of an unwritable write()).
THEOREM CloseRejectsAll == Spec => []NothingOutstandingWhenDown
  <1>1. Inv => NothingOutstandingWhenDown
    BY DEF Inv
  <1> QED
    BY <1>1, Invariance, PTL

-----------------------------------------------------------------------------
(* RtspClient implements Exchange.                                         *)

\* A new client has made no promise yet.
LEMMA InitRefines == Init => Promise!Init
  BY DEF Init, Promise!Init

\* A step that rejects everything in a map of calls not yet settled is a Fail.
LEMMA RejectRefines ==
  ASSUME Inv, NEW S \in SUBSET Requests, Fails(S),
         \A r \in S : status[r] \in {"idle", "pending"},
         UNCHANGED <<got, replied>>
  PROVE  Promise!Next
  <1>1. Promise!Fail(S)
    BY DEF Fails, Promise!Fail
  <1> QED
    BY <1>1 DEF Promise!Next

\* Every step is a step of Exchange or leaves it alone.
LEMMA StepRefines == Inv /\ [Next]_vars => [Promise!Next]_(Promise!vars)
  <1> SUFFICES ASSUME Inv, [Next]_vars PROVE [Promise!Next]_(Promise!vars)
    OBVIOUS
  <1>0. Values(requests) \in SUBSET Requests
        /\ \A r \in Values(requests) : status[r] \in {"idle", "pending"}
    BY DEF Inv, EntriesArePending
  <1>1. ASSUME NEW r \in Requests, ExchangeWritten(r) PROVE Promise!Next
    BY <1>1 DEF ExchangeWritten, Promise!Next, Promise!Start
  <1>2. ASSUME NEW r \in Requests, ExchangeUnwritable(r) PROVE Promise!Next
    <2> DEFINE S == Values(requests \union {<<cseq, r>>})
    <2>1. S = Values(requests) \union {r}
      BY ValuesAdd
    <2>2. Fails(S) /\ status[r] = "idle" /\ UNCHANGED <<got, replied>>
      BY <1>2 DEF ExchangeUnwritable, RejectAll
    <2>3. S \in SUBSET Requests /\ \A q \in S : status[q] \in {"idle", "pending"}
      BY <1>0, <2>1, <2>2
    <2> HIDE DEF S
    <2> QED
      BY <2>2, <2>3, RejectRefines
  <1>3. ASSUME NEW e \in timers, TimerFires(e[1], e[2]) PROVE Promise!Next
    <2>1. e \in requests /\ e[2] \in Requests /\ status[e[2]] = "pending"
      BY DEF Inv, TypeOK, EntriesArePending, Values
    <2>2. status' = [status EXCEPT ![e[2]] = "failed"] /\ UNCHANGED <<got, replied>>
      BY <1>3 DEF TimerFires
    <2>3. Fails({e[2]})
      BY <2>1, <2>2 DEF Fails, Inv, TypeOK
    <2> QED
      BY <2>1, <2>2, <2>3, RejectRefines
  <1>4. ASSUME NEW e \in responses, NEW r \in Requests, OnResponse(e, r)
        PROVE  Promise!Next
    <2>1. <<e[1], r>> \in requests
      BY <1>4 DEF OnResponse
    <2>2. e[2] = r
      <3>1. e[1] # NoCseq
        BY <2>1, CseqAssumption DEF Inv, TypeOK
      <3>2. <<e[1], r>>[1] = e[1] /\ <<e[1], r>>[2] = r
        OBVIOUS
      <3> QED
        BY <2>1, <3>1, <3>2 DEF Inv, Numbered, InUse
    <2>3. status[r] = "pending"
      <3>1. <<e[1], r>>[2] = r
        OBVIOUS
      <3> QED
        BY <2>1, <3>1 DEF Inv, EntriesArePending, Values
    <2>4. r \in replied
      BY <2>2 DEF Inv, UnderWay
    <2>5. Promise!Answer(r)
      BY <1>4, <2>2, <2>3, <2>4 DEF OnResponse, Promise!Answer
    <2> QED
      BY <2>5 DEF Promise!Next
  <1>5. ASSUME NEW e \in device, DeviceReplies(e) PROVE Promise!Next
    <2>1. e[2] \in Requests /\ status[e[2]] # "idle"
      BY DEF Inv, TypeOK, UnderWay
    <2>2. Promise!Reply(e[2])
      BY <1>5, <2>1 DEF DeviceReplies, Promise!Reply
    <2> QED
      BY <2>1, <2>2 DEF Promise!Next
  <1>6. CASE Ended
    <2>1. Fails(Values(requests)) /\ UNCHANGED <<got, replied>>
      BY <1>6 DEF Ended, OnOverflow, OnCorrupt, OnRtspError, OnRtspClose, RejectAll
    <2> QED
      BY <1>0, <2>1, RejectRefines
  <1>7. CASE \/ Reconnects \/ Ends \/ Destroys \/ UNCHANGED vars
             \/ \E e \in responses : OnUnexpected(e)
    BY <1>7 DEF Reconnects, Ends, Destroys, OnUnexpected, vars, Promise!vars
  <1>8. ASSUME NEW r \in Requests, ExchangeThrows(r) PROVE Promise!Next
    <2>1. /\ status[r] = "idle" /\ status' = [status EXCEPT ![r] = "failed"]
          /\ UNCHANGED <<got, replied>>
      BY <1>8 DEF ExchangeThrows
    <2>2. Fails({r})
      BY <2>1 DEF Fails, Inv, TypeOK
    <2> QED
      BY <2>1, <2>2, RejectRefines
  <1> QED
    BY <1>1, <1>2, <1>3, <1>4, <1>5, <1>6, <1>7, <1>8 DEF Next, Ended

\* Every exchange() of an RtspClient is settled once, with its own answer or an
\* error (rtsp/src/client.ts exchange(), onRtspData()).
THEOREM Implements == Spec => ImplementsExchange
  BY InitRefines, StepRefines, Invariance, PTL DEF Spec, ImplementsExchange, Promise!Spec
=============================================================================
