------------------------------ MODULE Exchange ------------------------------
(***************************************************************************)
(* What the request/response layers of the repository promise to the code  *)
(* that calls exchange(): every call is settled once, with the device's    *)
(* answer to that very call or with an error, whatever became of the calls *)
(* around it.  RtspClient implements it, and CompanionStream for ordinary  *)
(* requests.                                                               *)
(***************************************************************************)
CONSTANTS
    Requests, \* calls of exchange()
    None      \* no answer

VARIABLES
    status,   \* what became of each call
    got,      \* the call whose answer it was settled with
    replied   \* the calls the device has answered

vars == <<status, got, replied>>

Init ==
    /\ status = [r \in Requests |-> "idle"]
    /\ got = [r \in Requests |-> None]
    /\ replied = {}

Start(r) ==
    /\ status[r] = "idle"
    /\ status' = [status EXCEPT ![r] = "pending"]
    /\ UNCHANGED <<got, replied>>

\* The device may answer a call that has been given up.
Reply(r) ==
    /\ status[r] # "idle"
    /\ replied' = replied \union {r}
    /\ UNCHANGED <<status, got>>

Answer(r) ==
    /\ status[r] = "pending"
    /\ r \in replied
    /\ status' = [status EXCEPT ![r] = "answered"]
    /\ got' = [got EXCEPT ![r] = r]
    /\ UNCHANGED replied

\* A lost connection fails all calls at once; a call may fail as it is made.
Fail(S) ==
    /\ \A r \in S : status[r] \in {"idle", "pending"}
    /\ status' = [r \in Requests |-> IF r \in S THEN "failed" ELSE status[r]]
    /\ UNCHANGED <<got, replied>>

Next ==
    \/ \E r \in Requests : Start(r) \/ Reply(r) \/ Answer(r)
    \/ \E S \in SUBSET Requests : Fail(S)

Spec == Init /\ [][Next]_vars
=============================================================================
