----------------------------- MODULE RtspClient -----------------------------
(***************************************************************************)
(* Requests and responses over one RTSP connection: rtsp/src/client.ts,    *)
(* class RtspClient, the base of the AirPlay control stream and of the     *)
(* RAOP client.  A request is numbered by CSeq and kept in a map until its *)
(* response, its timer or the end of the connection settles it.            *)
(*                                                                         *)
(* A Map is the set of its <<key, value>> entries, a request's closures    *)
(* are the request itself.  Responses are told apart by their CSeq and by  *)
(* the request the device answered with them; the device may answer in any *)
(* order, so the responses on their way are a set.  Whether a response is  *)
(* an error response is left out: it settles its request either way.       *)
(***************************************************************************)
EXTENDS Naturals

CONSTANTS
    Requests, \* calls of exchange()
    NoCseq,   \* -1, for a response without CSeq
    None      \* no answer

ASSUME CseqAssumption == NoCseq \notin Nat
ASSUME NoneAssumption == None \notin Requests

VARIABLES
    link,       \* Connection: "up", "closing" (ended), "dying" (destroyed) or "down"
    inStep,     \* can the incoming bytes still be decrypted and parsed?
    cseq,       \* #cseq
    requests,   \* #requests
    timers,     \* the armed timers of exchange(), with the CSeq they captured
    status,     \* what became of the promise of each exchange()
    device,     \* the requests of this connection the device has not answered
    responses,  \* the responses of this connection not yet received
    (* History variables, which no action reads.                            *)
    got,        \* the request whose answer an exchange() was settled with
    replied     \* the requests the device answered

vars == <<link, inStep, cseq, requests, timers, status, device, responses, got, replied>>

Init ==
    /\ link = "down"
    /\ inStep = TRUE
    /\ cseq = 0
    /\ requests = {}
    /\ timers = {}
    /\ status = [r \in Requests |-> "idle"]
    /\ device = {}
    /\ responses = {}
    /\ got = [r \in Requests |-> None]
    /\ replied = {}

-----------------------------------------------------------------------------
(* Helpers                                                                 *)

Without(map, key) == {e \in map : e[1] # key}
Values(map)       == {e[2] : e \in map}

Fails(S) == status' = [r \in Requests |-> IF r \in S THEN "failed" ELSE status[r]]

\* The loop of onRtspClose(), onRtspError() and the overflow: every entry is
\* rejected, which clears its timer, and deleted.
RejectAll(map) ==
    /\ Fails(Values(map))
    /\ requests' = {}
    /\ timers' = timers \ map

-----------------------------------------------------------------------------
(* exchange()                                                              *)

BugWrittenCountsOutstanding(r) ==
    /\ status[r] = "idle"
    /\ link = "up"
    /\ LET key == CHOOSE n \in 0..cseq : ~\E e \in requests : e[1] = n
       IN /\ requests' = Without(requests, key) \union {<<key, r>>}
          /\ timers' = timers \union {<<key, r>>}
          /\ device' = device \union {<<key, r>>}
    /\ cseq' = cseq + 1
    /\ status' = [status EXCEPT ![r] = "pending"]
    /\ UNCHANGED <<link, inStep, responses, got, replied>>

BugWrittenUncounted(r) ==
    /\ status[r] = "idle"
    /\ link = "up"
    /\ requests' = Without(requests, cseq) \union {<<cseq, r>>}
    /\ timers' = timers \union {<<cseq, r>>}
    /\ status' = [status EXCEPT ![r] = "pending"]
    /\ device' = device \union {<<cseq, r>>}
    /\ UNCHANGED <<cseq, link, inStep, responses, got, replied>>

ExchangeWritten(r) ==
    /\ status[r] = "idle"
    /\ link = "up"
    /\ cseq' = cseq + 1
    /\ requests' = Without(requests, cseq) \union {<<cseq, r>>}
    /\ timers' = timers \union {<<cseq, r>>}
    /\ status' = [status EXCEPT ![r] = "pending"]
    /\ device' = device \union {<<cseq, r>>}
    /\ UNCHANGED <<link, inStep, responses, got, replied>>

\* write() finds no writable socket and emits 'error', whose listener rejects the
\* new request with all the others.
ExchangeUnwritable(r) ==
    /\ status[r] = "idle"
    /\ link # "up"
    /\ cseq' = cseq + 1
    /\ RejectAll(requests \union {<<cseq, r>>})
    /\ UNCHANGED <<link, inStep, device, responses, got, replied>>

\* The body cannot be serialised, or the request not encrypted: only the number is used up.
ExchangeThrows(r) ==
    /\ status[r] = "idle"
    /\ cseq' = cseq + 1
    /\ status' = [status EXCEPT ![r] = "failed"]
    /\ UNCHANGED <<link, inStep, requests, timers, device, responses, got, replied>>

\* setTimeout(..., timeout)
BugTimerOnlyDeletes(k, r) ==
    /\ <<k, r>> \in timers
    /\ timers' = timers \ {<<k, r>>}
    /\ requests' = Without(requests, k)
    /\ UNCHANGED <<link, inStep, cseq, status, device, responses, got, replied>>

TimerFires(k, r) ==
    /\ <<k, r>> \in timers
    /\ timers' = timers \ {<<k, r>>}
    /\ requests' = Without(requests, k)
    /\ status' = [status EXCEPT ![r] = "failed"]
    /\ UNCHANGED <<link, inStep, cseq, device, responses, got, replied>>

-----------------------------------------------------------------------------
(* onRtspData()                                                            *)

Receiving == link \in {"up", "closing"}

\* A response is taken off #requests by its CSeq; the closure clears the timer.
OnResponse(e, r) ==
    /\ Receiving /\ inStep
    /\ e \in responses
    /\ <<e[1], r>> \in requests
    /\ responses' = responses \ {e}
    /\ requests' = Without(requests, e[1])
    /\ timers' = timers \ {<<e[1], r>>}
    /\ status' = [status EXCEPT ![r] = "answered"]
    /\ got' = [got EXCEPT ![r] = e[2]]
    /\ UNCHANGED <<link, inStep, cseq, device, replied>>

\* A response that came too late, or without CSeq, is logged and dropped.
OnUnexpected(e) ==
    /\ Receiving /\ inStep
    /\ e \in responses
    /\ \A f \in requests : f[1] # e[1]
    /\ responses' = responses \ {e}
    /\ UNCHANGED <<link, inStep, cseq, requests, timers, status, device, got, replied>>

\* More than MAX_BUFFER_SIZE has come without a boundary between encrypted frames:
\* it is dropped, and what follows starts in the middle of a frame.
OnOverflow ==
    /\ Receiving /\ inStep
    /\ responses # {}
    /\ responses' = {}
    /\ inStep' = FALSE
    /\ RejectAll(requests)
    /\ UNCHANGED <<link, cseq, device, got, replied>>

\* Decryption or parsing throws, as it must once out of step: destroy() and 'error'.
OnCorrupt ==
    /\ Receiving
    /\ responses # {}
    /\ responses' = {}
    /\ device' = {}
    /\ link' = "dying"
    /\ RejectAll(requests)
    /\ UNCHANGED <<inStep, cseq, got, replied>>

-----------------------------------------------------------------------------
(* The connection, and the device                                          *)

\* The socket or a write fails: 'error', with the 'close' to follow.
OnRtspError ==
    /\ Receiving
    /\ link' = "dying"
    /\ responses' = {}
    /\ device' = {}
    /\ RejectAll(requests)
    /\ UNCHANGED <<inStep, cseq, got, replied>>

OnRtspClose ==
    /\ link # "down"
    /\ link' = "down"
    /\ responses' = {}
    /\ device' = {}
    /\ RejectAll(requests)
    /\ UNCHANGED <<inStep, cseq, got, replied>>

\* connect(), or a retry of Connection: the client keeps its counters, and an
\* encrypted one the counters of the connection that is gone.
Reconnects ==
    /\ link = "down"
    /\ link' = "up"
    /\ inStep' \in BOOLEAN
    /\ UNCHANGED <<cseq, requests, timers, status, device, responses, got, replied>>

\* disconnect() ends the socket, and so does the device's own FIN.
Ends ==
    /\ link = "up"
    /\ link' = "closing"
    /\ UNCHANGED <<inStep, cseq, requests, timers, status, device, responses, got, replied>>

\* destroy(): no 'error', the 'close' is still to come.
Destroys ==
    /\ Receiving
    /\ link' = "dying"
    /\ responses' = {}
    /\ device' = {}
    /\ UNCHANGED <<inStep, cseq, requests, timers, status, got, replied>>

DeviceReplies(e) ==
    /\ Receiving
    /\ e \in device
    /\ device' = device \ {e}
    /\ \E k \in {e[1], NoCseq} : responses' = responses \union {<<k, e[2]>>}
    /\ replied' = replied \union {e[2]}
    /\ UNCHANGED <<link, inStep, cseq, requests, timers, status, got>>

-----------------------------------------------------------------------------
Next ==
    \/ \E r \in Requests : ExchangeWritten(r) \/ ExchangeUnwritable(r) \/ ExchangeThrows(r)
    \/ \E e \in timers : TimerFires(e[1], e[2])
    \/ \E e \in responses, r \in Requests : OnResponse(e, r)
    \/ \E e \in responses : OnUnexpected(e)
    \/ OnOverflow \/ OnCorrupt \/ OnRtspError \/ OnRtspClose
    \/ Reconnects \/ Ends \/ Destroys
    \/ \E e \in device : DeviceReplies(e)

Spec == Init /\ [][Next]_vars

\* Armed timers fire.  The device need not answer, the connection need not fail.
TimerOf(r) == \E e \in timers : e[2] = r /\ TimerFires(e[1], e[2])
FairSpec == Spec /\ \A r \in Requests : WF_vars(TimerOf(r))

-----------------------------------------------------------------------------
(* Properties                                                              *)

\* The entries of the map are requests under a number that was given out, and no
\* number has been given out twice among those outstanding.
TypeOK ==
    /\ link \in {"up", "closing", "dying", "down"}
    /\ inStep \in BOOLEAN
    /\ cseq \in Nat
    /\ requests \subseteq (0..cseq-1) \X Requests
    /\ timers \subseteq (0..cseq-1) \X Requests
    /\ status \in [Requests -> {"idle", "pending", "answered", "failed"}]
    /\ device \subseteq (0..cseq-1) \X Requests
    /\ responses \subseteq (0..cseq-1 \union {NoCseq}) \X Requests
    /\ got \in [Requests -> Requests \union {None}]
    /\ replied \subseteq Requests

\* A request is in the map, under its number, and has a timer armed exactly as
\* long as it is outstanding: nothing is left behind by the ways it can end.
EntriesArePending ==
    /\ requests = timers
    /\ Values(requests) = {r \in Requests : status[r] = "pending"}

\* Once 'close' has been handled no request is outstanding, and none becomes so
\* before the connection is back: no caller waits out the timeout for nothing.
NothingOutstandingWhenDown == link = "down" => requests = {}

\* Answers go to the request they answer, late ones to none, whatever was timed
\* out, rejected or reconnected in between.
Promise == INSTANCE Exchange
ImplementsExchange == Promise!Spec

\* Every exchange() is settled.
ExchangesSettle == \A r \in Requests : status[r] = "pending" ~> status[r] # "pending"
=============================================================================
