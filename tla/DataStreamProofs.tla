-------------------------- MODULE DataStreamProofs --------------------------
(***************************************************************************)
(* Proofs that DataStream keeps its safety properties, and implements      *)
(* Exchange, for every set of requests and every number of frames.         *)
(*                                                                         *)
(* That the frames are handled in order rests on where the two buffers     *)
(* begin.  Until the stream is disconnected, the encrypted buffer begins   *)
(* where the last decryption ended, under the counter of that cipher       *)
(* frame, and the decrypted buffer begins behind the last frame handled    *)
(* (InPlace); afterwards it is still true that no frame to come ends       *)
(* before one that was handled (Ahead).                                    *)
(***************************************************************************)
EXTENDS DataStream, TLAPS, SequenceTheorems

States == {"idle", "pending", "answered", "failed"}

\* The promises of exchange(), and what the device knows of them.
CallType ==
    /\ outstanding \subseteq Requests
    /\ status \in [Requests -> States]
    /\ got \in [Requests -> Bodies]
    /\ device \subseteq Requests
    /\ replied \subseteq Requests

Waiting == \A r \in Requests : r \in outstanding <=> status[r] = "pending"

Honest ==
    /\ \A r \in device \union replied : status[r] # "idle"
    /\ \A n \in 1..Len(sent) : sent[n].body \in Requests => sent[n].body \in replied

CallInv == CallType /\ Waiting /\ Honest

\* What the device wrote, and the positions in it.
Peer ==
    /\ sent \in Seq([sync : BOOLEAN, body : Bodies])
    /\ wire \in Seq((1..Len(sent)) \X BOOLEAN)

Positions ==
    /\ arrived \in Nat /\ cipherFrom \in Nat /\ readCount \in Nat
    /\ plainFrom \in Nat /\ opened \in Nat
    /\ plainFrom <= opened /\ cipherFrom <= arrived
    /\ 2 * opened <= arrived /\ arrived <= 2 * Len(wire)

Flags ==
    /\ link \in {"up", "closing", "dying", "down"}
    /\ ackOwed \in BOOLEAN /\ asked \in BOOLEAN /\ caught \in BOOLEAN

Lists == handled \in Seq(1..Len(sent)) /\ acks \in Seq(1..Len(sent))

\* The cipher frames of one frame lie together, in the order the frames were written,
\* and only the last of them ends it.
No(k)   == wire[k][1]
Ends(k) == wire[k][2]

Wired ==
    /\ \A k, l \in 1..Len(wire) : k <= l => No(k) <= No(l)
    /\ \A k, l \in 1..Len(wire) : k < l /\ Ends(k) => No(k) < No(l)
    /\ \A n \in 1..Len(sent) : \E j \in 1..Len(wire) : No(j) = n /\ Ends(j)

\* Until disconnect() is called, both buffers begin where the last step left them.
InPlace ==
    ~asked => /\ caught => link \in {"dying", "down"}
              /\ caught \/ link = "down" => plainFrom = opened
              /\ ~caught /\ link # "down" =>
                    /\ cipherFrom = 2 * opened /\ readCount = opened
                    /\ plainFrom = 0 => Len(handled) = 0
                    /\ plainFrom > 0 => Ends(plainFrom) /\ No(plainFrom) = Len(handled)

NothingSkipped == ~asked => \A i \in 1..Len(handled) : handled[i] = i

\* No frame still to be handled was written before one that was.
Ahead ==
    /\ Increasing(handled)
    /\ \A i \in 1..Len(handled), k \in plainFrom + 1..Len(wire) : Ends(k) => No(k) > handled[i]

\* The acknowledgements follow the frames handled.
Acked ==
    /\ Increasing(acks)
    /\ \A n \in Numbers(acks) : n \in Numbers(handled) /\ sent[n].sync
    /\ ackOwed => /\ Len(handled) > 0
                  /\ sent[handled[Len(handled)]].sync
                  /\ \A n \in Numbers(acks) : n < handled[Len(handled)]
    /\ link = "up" => \A n \in Numbers(handled) :
                        sent[n].sync => \/ n \in Numbers(acks)
                                        \/ ackOwed /\ n = handled[Len(handled)]

Data == Peer /\ Positions /\ Flags /\ Lists
Order == Wired /\ InPlace /\ NothingSkipped /\ Ahead /\ Acked /\ FailsOnlyOnBrokenFrames

Inv == CallInv /\ Data /\ Order

-----------------------------------------------------------------------------

\* The invariant holds of a new stream.
LEMMA InitInv == Init => Inv
  <1> SUFFICES ASSUME Init PROVE Inv
    OBVIOUS
  <1>1. CallInv
    BY DEF Init, CallInv, CallType, Waiting, Honest, States, Bodies
  <1>2. Data
    <2>1. Peer /\ Lists
      BY DEF Init, Peer, Lists
    <2>2. Positions
      BY DEF Init, Positions
    <2>3. Flags
      BY DEF Init, Flags
    <2> QED
      BY <2>1, <2>2, <2>3 DEF Data
  <1>3. Numbers(handled) = {} /\ Numbers(acks) = {}
    BY DEF Init, Numbers
  <1>4. Order
    BY <1>3 DEF Init, Order, Wired, InPlace, NothingSkipped, Ahead, Acked,
                FailsOnlyOnBrokenFrames, Increasing
  <1> QED
    BY <1>1, <1>2, <1>4 DEF Inv

-----------------------------------------------------------------------------
(* The promises of exchange(), in every step a step of Exchange            *)

\* The calls in a set fail, all at once.
LEMMA FailsCalls ==
  ASSUME CallInv, NEW S \in SUBSET Requests, Fails(S),
         \A r \in S : status[r] \in {"idle", "pending"},
         outstanding' = outstanding \ S,
         UNCHANGED <<sent, device, replied>>
  PROVE  CallInv' /\ EX!Next
  <1>1. /\ status' = [r \in Requests |-> IF r \in S THEN "failed" ELSE status[r]]
        /\ got' = got
    BY DEF Fails
  <1>2. CallType'
    BY <1>1 DEF CallInv, CallType, States
  <1>3. Waiting'
    BY <1>1 DEF CallInv, CallType, Waiting
  <1>4. Honest'
    BY <1>1 DEF CallInv, CallType, Honest
  <1>5. EX!Fail(S)
    BY <1>1 DEF EX!Fail
  <1> QED
    BY <1>2, <1>3, <1>4, <1>5 DEF CallInv, EX!Next

\* The connection's end fails every call outstanding.
LEMMA RejectCalls ==
  ASSUME CallInv, RejectAll, UNCHANGED <<sent, device, replied>>
  PROVE  CallInv' /\ EX!Next
  <1>1. outstanding \in SUBSET Requests /\ \A r \in outstanding : status[r] = "pending"
    BY DEF CallInv, CallType, Waiting
  <1>2. Fails(outstanding) /\ outstanding' = outstanding \ outstanding
    BY DEF RejectAll
  <1> QED
    BY <1>1, <1>2, FailsCalls, Zenon

\* A step that leaves the calls alone.
LEMMA SameCalls ==
  ASSUME CallInv, UNCHANGED <<calls, sent, device, replied>>
  PROVE  CallInv' /\ UNCHANGED EX!vars
  BY DEF calls, CallInv, CallType, Waiting, Honest, EX!vars

CallSteps == CallInv' /\ [EX!Next]_(EX!vars)

LEMMA WrittenCalls ==
  ASSUME CallInv, NEW r \in Requests, ExchangeWritten(r)
  PROVE  CallSteps
  <1>1. /\ status[r] = "idle"
        /\ outstanding' = outstanding \union {r}
        /\ status' = [status EXCEPT ![r] = "pending"]
        /\ device' = device \union {r}
        /\ UNCHANGED <<got, sent, replied>>
    BY DEF ExchangeWritten
  <1>2. CallInv'
    BY <1>1 DEF CallInv, CallType, Waiting, Honest, States
  <1>3. EX!Start(r)
    BY <1>1 DEF EX!Start
  <1> QED
    BY <1>2, <1>3 DEF CallSteps, EX!Next

\* exchange() that fails as it is made, and the timer of one that was made.
LEMMA FailedCalls ==
  ASSUME CallInv, NEW r \in Requests,
         ExchangeUnwritable(r) \/ ExchangeUnencodable(r) \/ TimerFires(r)
  PROVE  CallSteps
  <1>1. outstanding \subseteq Requests /\ \A q \in Requests : q \in outstanding <=> status[q] = "pending"
    BY DEF CallInv, CallType, Waiting
  <1>2. UNCHANGED <<sent, device, replied>>
    BY DEF ExchangeUnwritable, ExchangeUnencodable, TimerFires, peer
  <1>3. CASE ExchangeUnwritable(r)
    <2> DEFINE S == outstanding \union {r}
    <2>1. S \in SUBSET Requests /\ \A q \in S : status[q] \in {"idle", "pending"}
      BY <1>1, <1>3 DEF ExchangeUnwritable
    <2>2. Fails(S) /\ outstanding' = outstanding \ S
      BY <1>3 DEF ExchangeUnwritable
    <2> HIDE DEF S
    <2> QED
      BY <1>2, <2>1, <2>2, FailsCalls DEF CallSteps
  <1>4. CASE ExchangeUnencodable(r) \/ TimerFires(r)
    <2>1. {r} \in SUBSET Requests /\ \A q \in {r} : status[q] \in {"idle", "pending"}
      BY <1>1, <1>4 DEF ExchangeUnencodable, TimerFires
    <2>2. Fails({r}) /\ outstanding' = outstanding \ {r}
      BY <1>1, <1>4 DEF ExchangeUnencodable, TimerFires
    <2> QED
      BY <1>2, <2>1, <2>2, FailsCalls DEF CallSteps
  <1> QED
    BY <1>3, <1>4

\* A message completes the exchange() it answers, and no other.
LEMMA MessageCalls ==
  ASSUME CallInv, Peer, NEW n \in 1..Len(sent), HandleMessage(sent[n].body),
         UNCHANGED <<sent, device, replied>>
  PROVE  CallSteps
  <1> DEFINE body == sent[n].body
  <1>1. CASE body \in outstanding
    <2>1. outstanding \intersect {body} = {body}
      BY <1>1
    <2>2. /\ outstanding' = outstanding \ {body}
          /\ status' = [r \in Requests |-> IF r \in {body} THEN "answered" ELSE status[r]]
          /\ got' = [r \in Requests |-> IF r \in {body} THEN body ELSE got[r]]
      BY <2>1, Zenon DEF HandleMessage
    <2>3. body \in Requests /\ status[body] = "pending" /\ body \in replied /\ body \in Bodies
      BY <1>1 DEF CallInv, CallType, Waiting, Honest, Bodies
    <2> HIDE DEF body
    <2>4. CallType'
      BY <2>2, <2>3 DEF CallInv, CallType, States
    <2>5. Waiting' /\ Honest'
      BY <2>2, <2>3 DEF CallInv, CallType, Waiting, Honest
    <2>6. /\ status' = [status EXCEPT ![body] = "answered"]
          /\ got' = [got EXCEPT ![body] = body]
      BY <2>2, <2>3 DEF CallInv, CallType
    <2>7. EX!Answer(body)
      BY <2>3, <2>6 DEF EX!Answer
    <2> QED
      BY <2>3, <2>4, <2>5, <2>7 DEF CallSteps, CallInv, EX!Next
  <1>2. CASE body \notin outstanding
    <2>1. outstanding \intersect {body} = {}
      BY <1>2
    <2>2. /\ outstanding' = outstanding \ {}
          /\ status' = [r \in Requests |-> IF r \in {} THEN "answered" ELSE status[r]]
          /\ got' = [r \in Requests |-> IF r \in {} THEN body ELSE got[r]]
      BY <2>1, Zenon DEF HandleMessage
    <2>3. outstanding' = outstanding /\ status' = status /\ got' = got
      BY <2>2 DEF CallInv, CallType
    <2> QED
      BY <2>3, SameCalls DEF calls, CallSteps
  <1> QED
    BY <1>1, <1>2

\* The device answers what it was asked.
LEMMA DeviceCalls ==
  ASSUME CallInv, Peer, NEW sync \in BOOLEAN, NEW body \in Bodies, DeviceWrites(sync, body)
  PROVE  CallSteps
  <1> DEFINE f == [sync |-> sync, body |-> body]
  <1>1. /\ body \in Requests => body \in device
        /\ sent' = Append(sent, f)
        /\ device' = device \ {body}
        /\ replied' = replied \union ({body} \intersect Requests)
        /\ UNCHANGED <<outstanding, status, got>>
    BY DEF DeviceWrites, calls
  <1>2. /\ f \in [sync : BOOLEAN, body : Bodies] /\ f.body = body
        /\ Len(sent') = Len(sent) + 1
        /\ \A n \in 1..Len(sent) : sent'[n] = sent[n]
        /\ sent'[Len(sent) + 1] = f
        /\ Len(sent) \in Nat
    BY <1>1 DEF Peer
  <1> HIDE DEF f
  <1>3. \A n \in 1..Len(sent') : n \in 1..Len(sent) \/ n = Len(sent) + 1
    BY <1>2
  <1>4. CallInv'
    BY <1>1, <1>2, <1>3 DEF CallInv, CallType, Waiting, Honest
  <1>5. CASE body \in Requests
    <2>1. EX!Reply(body)
      BY <1>1, <1>5 DEF EX!Reply, CallInv, Honest
    <2> QED
      BY <1>4, <1>5, <2>1 DEF CallSteps, EX!Next
  <1>6. CASE body \notin Requests
    BY <1>1, <1>4, <1>6 DEF CallSteps, EX!vars
  <1> QED
    BY <1>5, <1>6

-----------------------------------------------------------------------------
(* The buffers                                                             *)

\* What the invariant says of the variables of the stream.
StreamInv == Data /\ Order

LEMMA SameStream ==
  ASSUME StreamInv, UNCHANGED <<link, stream, ackOwed, sent, wire, past>>
  PROVE  StreamInv'
  BY DEF stream, past, StreamInv, Data, Peer, Positions, Flags, Lists, Order, Wired, InPlace,
         NothingSkipped, Ahead, Acked, FailsOnlyOnBrokenFrames, Increasing, Numbers, No, Ends

\* A step that takes no frame and writes no acknowledgement, and may throw #buffer away.
LEMMA Keeps ==
  ASSUME StreamInv, UNCHANGED <<sent, wire, handled, acks>>,
         plainFrom' \in Nat, plainFrom <= plainFrom',
         asked => asked', ackOwed' => ackOwed,
         link' # "up" \/ (link' = link /\ ackOwed' = ackOwed)
  PROVE  Peer' /\ Lists' /\ Wired' /\ NothingSkipped' /\ Ahead' /\ Acked'
  <1>1. Peer' /\ Lists'
    BY DEF StreamInv, Data, Peer, Lists
  <1>2. Wired' /\ NothingSkipped'
    BY DEF StreamInv, Order, Wired, NothingSkipped, No, Ends
  <1>3. Ahead'
    <2>1. \A k \in plainFrom' + 1..Len(wire) : k \in plainFrom + 1..Len(wire)
      <3>1. Len(wire) \in Nat /\ plainFrom \in Nat
        BY DEF StreamInv, Data, Positions, Peer
      <3>2. plainFrom' \in Nat /\ plainFrom <= plainFrom'
        OBVIOUS
      <3>3. \A a, b, c \in Nat : a <= b => \A k \in b + 1..c : k \in a + 1..c
        OBVIOUS
      <3> QED
        BY <3>1, <3>2, <3>3
    <2> QED
      BY <2>1 DEF StreamInv, Order, Ahead, Increasing, No, Ends
  <1>4. Acked'
    <2>1. Numbers(handled)' = Numbers(handled) /\ Numbers(acks)' = Numbers(acks)
      BY DEF Numbers
    <2> QED
      BY <2>1 DEF StreamInv, Order, Acked, Increasing
  <1> QED
    BY <1>1, <1>2, <1>3, <1>4

\* A chunk that is decrypted, and one that ends inside a cipher frame.
LEMMA DataStep ==
  ASSUME StreamInv, DataWhole \/ DataIncomplete
  PROVE  StreamInv'
  <1>1. /\ arrived' \in arrived + 1..2 * Len(wire) /\ Receiving /\ ~Busy
        /\ UNCHANGED <<link, ackOwed, sent, wire, handled, acks, asked, caught, plainFrom>>
    BY DEF DataWhole, DataIncomplete, Arrives, Decrypt, peer, past
  <1>2. Positions
    BY DEF StreamInv, Data
  <1>3. Len(wire) \in Nat
    BY DEF StreamInv, Data, Peer
  <1>4. \/ /\ 2 * opened' = arrived' /\ opened' \in Nat /\ opened <= opened'
           /\ readCount' = opened' /\ cipherFrom' = arrived'
        \/ UNCHANGED <<cipherFrom, readCount, opened>>
    <2>1. CASE DataWhole
      <3>1. /\ arrived' % 2 = 0 /\ opened' = arrived' \div 2
            /\ readCount' = opened' /\ cipherFrom' = arrived'
        BY <2>1 DEF DataWhole, Decrypt
      <3>2. arrived' \in Nat /\ arrived <= arrived' /\ opened \in Nat /\ arrived \in Nat
            /\ 2 * opened <= arrived
        BY <1>1, <1>2, <1>3 DEF Positions
      <3>3. \A n \in Nat : n % 2 = 0 => 2 * (n \div 2) = n /\ n \div 2 \in Nat
        OBVIOUS
      <3>4. 2 * opened' = arrived' /\ opened' \in Nat
        BY <3>1, <3>2, <3>3
      <3>5. \A a, b, c, d \in Nat : 2 * a <= b /\ b <= c /\ 2 * d = c => a <= d
        OBVIOUS
      <3>6. opened <= opened'
        BY <3>2, <3>4, <3>5
      <3> QED
        BY <3>1, <3>4, <3>6
    <2>2. CASE DataIncomplete
      BY <2>2 DEF DataIncomplete, CountOfIncomplete
    <2> QED
      BY <2>1, <2>2
  <1>5. Positions'
    BY <1>1, <1>2, <1>3, <1>4 DEF Positions
  <1>6. Flags'
    BY <1>1 DEF StreamInv, Data, Flags
  <1>7. Peer' /\ Lists' /\ Wired' /\ NothingSkipped' /\ Ahead' /\ Acked'
    BY <1>1, <1>2, Keeps DEF Positions
  <1>8. InPlace'
    BY <1>1, <1>2, <1>3, <1>4, <1>5 DEF StreamInv, Order, InPlace, Receiving, Positions, No, Ends
  <1>9. FailsOnlyOnBrokenFrames'
    BY <1>1 DEF StreamInv, Order, FailsOnlyOnBrokenFrames
  <1> QED
    BY <1>5, <1>6, <1>7, <1>8, <1>9 DEF StreamInv, Data, Order

\* onStreamData() gives the connection up: allowed if the next frame is to blame.
LEMMA CatchStep ==
  ASSUME StreamInv, NEW received \in Nat, Catch(received), arrived' = received,
         arrived <= received, received <= 2 * Len(wire), readCount' \in Nat,
         UNCHANGED <<sent, wire, handled, acks, asked>>,
         ~asked => /\ Len(handled) < Len(sent)
                   /\ sent[Len(handled) + 1].body = Broken
  PROVE  StreamInv'
  <1>1. /\ link' \in {"dying", "down"} /\ ackOwed' = FALSE /\ caught' = TRUE
        /\ cipherFrom' = received /\ plainFrom' = opened /\ opened' = opened
    BY DEF Catch, ClearBuffers
  <1>2. Positions /\ Len(wire) \in Nat
    BY DEF StreamInv, Data, Peer
  <1>3. Positions'
    BY <1>1, <1>2 DEF Positions
  <1>4. Flags'
    BY <1>1 DEF StreamInv, Data, Flags
  <1>5. Peer' /\ Lists' /\ Wired' /\ NothingSkipped' /\ Ahead' /\ Acked'
    BY <1>1, <1>2, Keeps DEF Positions
  <1>6. InPlace'
    BY <1>1 DEF InPlace
  <1>7. FailsOnlyOnBrokenFrames'
    BY DEF FailsOnlyOnBrokenFrames
  <1> QED
    BY <1>3, <1>4, <1>5, <1>6, <1>7 DEF StreamInv, Data, Order

\* While the connection lasts, what arrives can be decrypted and begins with a header.
LEMMA PlaceKept ==
  ASSUME StreamInv, Receiving, ~asked
  PROVE  Decryptable /\ InStep /\ ~caught /\ link # "down"
  <1>1. ~caught /\ link # "down"
    BY DEF StreamInv, Order, InPlace, Receiving
  <1>2. cipherFrom = 2 * opened /\ readCount = opened /\ opened \in Nat
    BY <1>1 DEF StreamInv, Order, InPlace, Data, Positions
  <1>3. Decryptable
    BY <1>2 DEF Decryptable
  <1>4. InStep
    BY <1>1 DEF StreamInv, Order, InPlace, InStep, Ends
  <1> QED
    BY <1>1, <1>3, <1>4

\* Garbled bytes: only after disconnect().
LEMMA GarbledStep ==
  ASSUME StreamInv, DataGarbled \/ LengthInvalid
  PROVE  StreamInv'
  <1>1. Receiving /\ asked
    <2>1. Receiving /\ ~(Decryptable /\ InStep)
      BY DEF DataGarbled, LengthInvalid, Arrives
    <2> QED
      BY <2>1, PlaceKept
  <1>2. Positions /\ Len(wire) \in Nat
    BY DEF StreamInv, Data, Peer
  <1>3. CASE DataGarbled
    <2>1. arrived' \in arrived + 1..2 * Len(wire) /\ UNCHANGED <<sent, wire, handled, acks, asked>>
      BY <1>3 DEF DataGarbled, Arrives, peer, past
    <2>2. CASE UNCHANGED <<link, cipherFrom, readCount, plainFrom, opened, ackOwed, caught>>
      <3>1. Positions'
        BY <1>2, <2>1, <2>2 DEF Positions
      <3>2. Flags'
        BY <2>1, <2>2 DEF StreamInv, Data, Flags
      <3>3. Peer' /\ Lists' /\ Wired' /\ NothingSkipped' /\ Ahead' /\ Acked'
        BY <1>2, <2>1, <2>2, Keeps DEF Positions
      <3>4. InPlace' /\ FailsOnlyOnBrokenFrames'
        BY <1>1, <2>1 DEF InPlace, FailsOnlyOnBrokenFrames
      <3> QED
        BY <3>1, <3>2, <3>3, <3>4 DEF StreamInv, Data, Order
    <2>3. CASE Catch(arrived') /\ readCount' \in readCount..arrived'
      <3>1. arrived' \in Nat /\ arrived <= arrived' /\ arrived' <= 2 * Len(wire) /\ readCount' \in Nat
        BY <1>2, <2>1, <2>3 DEF Positions
      <3> QED
        BY <1>1, <2>1, <2>3, <3>1, CatchStep
    <2> QED
      BY <1>3, <2>2, <2>3 DEF DataGarbled, past
  <1>4. CASE LengthInvalid
    <2>1. /\ Catch(arrived) /\ arrived' = arrived /\ readCount' = readCount
          /\ UNCHANGED <<sent, wire, handled, acks, asked>>
      BY <1>4 DEF LengthInvalid, peer
    <2> QED
      BY <1>1, <1>2, <2>1, CatchStep DEF Positions
  <1> QED
    BY <1>3, <1>4

\* The frame that is taken next is the one after those handled.
LEMMA NextFrame ==
  ASSUME StreamInv, NEW e \in 1..Len(wire), Takes(e)
  PROVE  /\ e \in plainFrom + 1..opened /\ opened \in 1..Len(wire) /\ plainFrom \in 0..e - 1
         /\ Ends(e)
         /\ No(e) \in 1..Len(sent)
         /\ ~ackOwed
         /\ ~asked => No(e) = Len(handled) + 1 /\ ~caught /\ link # "down"
  <1>1. /\ e \in plainFrom + 1..opened /\ Ends(e) /\ ~ackOwed /\ InStep
        /\ \A k \in plainFrom + 1..e - 1 : ~Ends(k)
    BY DEF Takes, Frame, Ends
  <1>2. Positions /\ Wired /\ Len(wire) \in Nat /\ Len(sent) \in Nat /\ Len(handled) \in Nat
    BY DEF StreamInv, Data, Peer, Order, Lists
  <1>3. \A k \in 1..Len(wire) : No(k) \in 1..Len(sent)
    BY DEF StreamInv, Data, Peer, No
  <1>4. opened \in 1..Len(wire) /\ plainFrom \in 0..e - 1
    BY <1>1, <1>2 DEF Positions
  <1>5. ASSUME ~asked PROVE ~caught /\ link # "down"
    BY <1>1, <1>4, <1>5 DEF StreamInv, Order, InPlace
  <1>6. ASSUME ~asked PROVE No(e) = Len(handled) + 1
    <2>1. /\ plainFrom = 0 => Len(handled) = 0
          /\ plainFrom > 0 => Ends(plainFrom) /\ No(plainFrom) = Len(handled)
      BY <1>5, <1>6 DEF StreamInv, Order, InPlace
    <2>2. No(e) > Len(handled)
      <3>1. CASE plainFrom = 0
        BY <1>2, <1>3, <2>1, <3>1
      <3>2. CASE plainFrom > 0
        <4>1. plainFrom \in 1..Len(wire) /\ plainFrom < e
          BY <1>2, <1>4, <3>2
        <4> QED
          BY <1>2, <2>1, <3>2, <4>1 DEF Wired
      <3> QED
        BY <1>4, <3>1, <3>2
    <2>3. ASSUME No(e) > Len(handled) + 1 PROVE FALSE
      <3>1. Len(handled) + 1 \in 1..Len(sent)
        BY <1>2, <1>3, <2>3
      <3> PICK j \in 1..Len(wire) : No(j) = Len(handled) + 1 /\ Ends(j)
        BY <1>2, <3>1 DEF Wired
      <3>2. ~(e <= j)
        BY <1>2, <1>3, <2>3 DEF Wired
      <3>3. j <= plainFrom
        BY <1>1, <1>2, <1>4, <3>2
      <3>4. plainFrom \in 1..Len(wire)
        BY <1>2, <1>4, <3>3
      <3>5. No(j) <= No(plainFrom)
        BY <1>2, <3>3, <3>4 DEF Wired
      <3> QED
        BY <1>2, <2>1, <3>4, <3>5
    <2>4. No(e) \in Nat
      BY <1>2, <1>3
    <2> QED
      BY <1>2, <2>2, <2>3, <2>4
  <1> QED
    BY <1>1, <1>3, <1>4, <1>5, <1>6

\* The frame that cannot be parsed is the next one.
LEMMA BrokenStep ==
  ASSUME StreamInv, NEW e \in 1..Len(wire), FrameBroken(e)
  PROVE  StreamInv'
  <1>1. /\ Takes(e) /\ sent[No(e)].body = Broken /\ Catch(arrived)
        /\ UNCHANGED <<arrived, readCount, sent, wire, handled, acks, asked>>
    BY DEF FrameBroken, peer, No
  <1>2. No(e) \in 1..Len(sent) /\ (~asked => No(e) = Len(handled) + 1)
    BY <1>1, NextFrame
  <1>3. Len(sent) \in Nat /\ Len(handled) \in Nat
    BY DEF StreamInv, Data, Peer, Lists
  <1>4. ~asked => Len(handled) < Len(sent) /\ sent[Len(handled) + 1].body = Broken
    BY <1>1, <1>2, <1>3
  <1>5. arrived \in Nat /\ arrived <= 2 * Len(wire) /\ readCount \in Nat
    BY DEF StreamInv, Data, Positions
  <1> QED
    BY <1>1, <1>4, <1>5, CatchStep

\* A frame is handled: later than all before it, and the next one in place.
LEMMA TakenStep ==
  ASSUME StreamInv, NEW e \in 1..Len(wire), FrameTaken(e)
  PROVE  StreamInv'
  <1> DEFINE m == No(e)
  <1>1. /\ Takes(e) /\ plainFrom' = e /\ handled' = Append(handled, m)
        /\ ackOwed' = sent[m].sync
        /\ UNCHANGED <<link, arrived, cipherFrom, readCount, opened, sent, wire, acks, asked, caught>>
    BY DEF FrameTaken, After, peer, No
  <1>2. /\ e \in plainFrom + 1..opened /\ opened \in 1..Len(wire) /\ plainFrom \in 0..e - 1
        /\ Ends(e)
        /\ m \in 1..Len(sent)
        /\ ~ackOwed
        /\ ~asked => m = Len(handled) + 1 /\ ~caught /\ link # "down"
    BY <1>1, NextFrame
  <1>3. /\ Positions /\ Flags /\ Peer /\ Lists
        /\ Len(wire) \in Nat /\ Len(sent) \in Nat /\ Len(handled) \in Nat
    BY DEF StreamInv, Data, Peer, Lists
  <1>4. \A i \in 1..Len(handled) : handled[i] \in 1..Len(sent) /\ handled[i] < m
    BY <1>2, <1>3 DEF StreamInv, Order, Ahead, Lists
  <1> HIDE DEF m
  <1>5. /\ handled' \in Seq(1..Len(sent)) /\ Len(handled') = Len(handled) + 1
        /\ \A i \in 1..Len(handled) : handled'[i] = handled[i]
        /\ handled'[Len(handled) + 1] = m
    BY <1>1, <1>2, <1>3, AppendProperties DEF Lists
  <1>6. \A i \in 1..Len(handled') : i \in 1..Len(handled) \/ i = Len(handled) + 1
    BY <1>3, <1>5
  <1>7. Peer' /\ Wired' /\ Lists'
    BY <1>1, <1>3, <1>5 DEF StreamInv, Order, Peer, Wired, Lists, No, Ends
  <1>8. Positions'
    BY <1>1, <1>2, <1>3 DEF Positions
  <1>9. Flags'
    <2>1. sent[m].sync \in BOOLEAN
      <3>1. sent \in Seq([sync : BOOLEAN, body : Bodies])
        BY <1>3 DEF Peer
      <3>2. sent[m] \in [sync : BOOLEAN, body : Bodies]
        BY <1>2, <3>1, ElementOfSeq
      <3> QED
        BY <3>2
    <2> QED
      BY <1>1, <1>3, <2>1 DEF Flags
  <1>10. NothingSkipped'
    BY <1>1, <1>2, <1>3, <1>5, <1>6 DEF StreamInv, Order, NothingSkipped
  <1>11. InPlace'
    <2>1. Ends(plainFrom)' /\ No(plainFrom)' = m
      BY <1>1, <1>2 DEF Ends, No, m
    <2>2. ~asked => ~caught /\ link # "down" /\ cipherFrom = 2 * opened /\ readCount = opened
      BY <1>2 DEF StreamInv, Order, InPlace
    <2> QED
      BY <1>1, <1>2, <1>3, <1>5, <2>1, <2>2 DEF InPlace
  <1>12. Ahead'
    <2>1. Increasing(handled')
      <3>1. ASSUME NEW i \in 1..Len(handled'), NEW j \in 1..Len(handled'), i < j
            PROVE  handled'[i] < handled'[j]
        <4>1. i \in 1..Len(handled)
          BY <1>3, <1>5, <3>1
        <4>2. CASE j \in 1..Len(handled)
          BY <1>5, <3>1, <4>1, <4>2 DEF StreamInv, Order, Ahead, Increasing
        <4>3. CASE j = Len(handled) + 1
          BY <1>4, <1>5, <4>1, <4>3
        <4> QED
          BY <1>6, <4>2, <4>3
      <3> QED
        BY <3>1 DEF Increasing
    <2>2. ASSUME NEW i \in 1..Len(handled'), NEW k \in e + 1..Len(wire), Ends(k)
          PROVE  No(k) > handled'[i]
      <3>1. k \in plainFrom + 1..Len(wire) /\ k \in 1..Len(wire) /\ e < k
        BY <1>2, <1>3
      <3>2. CASE i \in 1..Len(handled)
        BY <1>5, <2>2, <3>1, <3>2 DEF StreamInv, Order, Ahead
      <3>3. CASE i = Len(handled) + 1
        <4>1. No(e) < No(k)
          BY <1>2, <3>1 DEF StreamInv, Order, Wired
        <4>2. No(e) \in Nat /\ No(k) \in Nat
          BY <1>3, <3>1 DEF Peer, No
        <4> QED
          BY <1>5, <3>3, <4>1, <4>2 DEF m
      <3> QED
        BY <1>6, <3>2, <3>3
    <2>3. Ends(e)' = Ends(e) /\ \A k : No(k)' = No(k) /\ Ends(k)' = Ends(k)
      BY <1>1 DEF Ends, No
    <2> QED
      BY <1>1, <2>1, <2>2, <2>3 DEF Ahead
  <1>13. Acked'
    <2>1. Numbers(handled') = Numbers(handled) \union {m}
      BY <1>5, <1>6, <1>3 DEF Numbers
    <2>2. \A n \in Numbers(acks) : n \in Numbers(handled) /\ sent[n].sync
      BY DEF StreamInv, Order, Acked
    <2>3. \A n \in Numbers(acks) : n < m
      BY <1>4, <2>2 DEF Numbers
    <2>4. link = "up" => \A n \in Numbers(handled) : sent[n].sync => n \in Numbers(acks)
      BY <1>2 DEF StreamInv, Order, Acked
    <2>5. handled'[Len(handled')] = m /\ Len(handled') > 0
      BY <1>3, <1>5
    <2>6. Increasing(acks') /\ Numbers(acks') = Numbers(acks)
      BY <1>1 DEF StreamInv, Order, Acked
    <2> QED
      BY <1>1, <2>1, <2>2, <2>3, <2>4, <2>5, <2>6 DEF Acked
  <1>14. FailsOnlyOnBrokenFrames'
    BY <1>1, <1>2 DEF FailsOnlyOnBrokenFrames
  <1> QED
    BY <1>7, <1>8, <1>9, <1>10, <1>11, <1>12, <1>13, <1>14 DEF StreamInv, Data, Order

\* reply() acknowledges the frame handled last, or finds the connection gone.
LEMMA ReplyStep ==
  ASSUME StreamInv, Reply
  PROVE  StreamInv'
  <1>1. /\ ackOwed /\ ackOwed' = FALSE
        /\ UNCHANGED <<link, stream, sent, wire, handled, asked, caught>>
    BY DEF Reply, peer
  <1>2. UNCHANGED <<arrived, cipherFrom, readCount, plainFrom, opened>>
    BY <1>1 DEF stream
  <1>3. Positions' /\ Peer'
    BY <1>1, <1>2 DEF StreamInv, Data, Positions, Peer
  <1>4. Flags'
    BY <1>1 DEF StreamInv, Data, Flags
  <1>5. Wired' /\ NothingSkipped' /\ InPlace' /\ FailsOnlyOnBrokenFrames'
    BY <1>1, <1>2 DEF StreamInv, Order, Wired, NothingSkipped, InPlace,
                      FailsOnlyOnBrokenFrames, No, Ends
  <1>6. Ahead'
    BY <1>1, <1>2 DEF StreamInv, Order, Ahead, Increasing, No, Ends
  <1>7. CASE link # "up" /\ UNCHANGED acks
    <2>1. Acked'
      BY <1>1, <1>7, Keeps, <1>2 DEF StreamInv, Data, Positions
    <2>2. Lists'
      BY <1>1, <1>7 DEF StreamInv, Data, Lists
    <2> QED
      BY <1>3, <1>4, <1>5, <1>6, <2>1, <2>2 DEF StreamInv, Data, Order
  <1>8. CASE link = "up" /\ ReplyWritten
    <2> DEFINE m == handled[Len(handled)]
    <2>1. acks' = Append(acks, m)
      BY <1>8 DEF ReplyWritten
    <2>2. /\ Len(handled) > 0 /\ sent[m].sync
          /\ \A n \in Numbers(acks) : n < m
          /\ \A n \in Numbers(acks) : n \in Numbers(handled) /\ sent[n].sync
          /\ \A n \in Numbers(handled) : sent[n].sync => n \in Numbers(acks) \/ n = m
      BY <1>1, <1>8 DEF StreamInv, Order, Acked
    <2>3. Lists /\ Len(handled) \in Nat /\ Len(acks) \in Nat /\ Len(sent) \in Nat
      BY DEF StreamInv, Data, Lists, Peer
    <2>4. m \in 1..Len(sent) /\ m \in Numbers(handled)
      BY <2>2, <2>3 DEF Lists, Numbers
    <2> HIDE DEF m
    <2>5. /\ acks' \in Seq(1..Len(sent)) /\ Len(acks') = Len(acks) + 1
          /\ \A i \in 1..Len(acks) : acks'[i] = acks[i]
          /\ acks'[Len(acks) + 1] = m
      BY <2>1, <2>3, <2>4, AppendProperties DEF Lists
    <2>6. \A i \in 1..Len(acks') : i \in 1..Len(acks) \/ i = Len(acks) + 1
      BY <2>3, <2>5
    <2>7. Numbers(acks') = Numbers(acks) \union {m}
      <3>1. ASSUME NEW n, n \in Numbers(acks') PROVE n \in Numbers(acks) \union {m}
        BY <2>5, <2>6, <3>1 DEF Numbers
      <3>2. \A i \in 1..Len(acks) : i \in 1..Len(acks')
        BY <2>3, <2>5
      <3>3. Len(acks) + 1 \in 1..Len(acks')
        BY <2>3, <2>5
      <3>4. ASSUME NEW n, n \in Numbers(acks) \union {m} PROVE n \in Numbers(acks')
        BY <2>5, <3>2, <3>3, <3>4 DEF Numbers
      <3> QED
        BY <3>1, <3>4
    <2>8. Increasing(acks')
      <3>1. ASSUME NEW i \in 1..Len(acks'), NEW j \in 1..Len(acks'), i < j
            PROVE  acks'[i] < acks'[j]
        <4>1. i \in 1..Len(acks)
          BY <2>3, <2>5, <3>1
        <4>2. CASE j \in 1..Len(acks)
          BY <2>5, <3>1, <4>1, <4>2 DEF StreamInv, Order, Acked, Increasing
        <4>3. CASE j = Len(acks) + 1
          BY <2>2, <2>5, <4>1, <4>3 DEF Numbers
        <4> QED
          BY <2>6, <4>2, <4>3
      <3> QED
        BY <3>1 DEF Increasing
    <2>9. Acked'
      <3>1. Numbers(handled)' = Numbers(handled)
        BY <1>1 DEF Numbers
      <3>2. Numbers(acks)' = Numbers(acks) \union {m} /\ Increasing(acks)'
        BY <2>7, <2>8
      <3> QED
        BY <1>1, <2>2, <2>4, <3>1, <3>2 DEF Acked
    <2>10. Lists'
      BY <1>1, <2>3, <2>5 DEF Lists
    <2> QED
      BY <1>3, <1>4, <1>5, <1>6, <2>9, <2>10 DEF StreamInv, Data, Order
  <1> QED
    BY <1>7, <1>8 DEF Reply

\* The connection ends, or is left.
LEMMA EndStep ==
  ASSUME StreamInv, OnStreamError \/ OnStreamClose \/ Disconnect \/ Destroy
  PROVE  StreamInv'
  <1>1. /\ UNCHANGED <<arrived, readCount, ackOwed, sent, wire, handled, acks, caught, opened>>
        /\ link' = link \/ link' \in {"closing", "dying", "down"}
        /\ link' \in {"up", "closing", "dying", "down"}
    <2>1. link \in {"up", "closing", "dying", "down"}
      BY DEF StreamInv, Data, Flags
    <2>2. CASE OnStreamError
      BY <2>2 DEF OnStreamError, stream, peer, past
    <2>3. CASE OnStreamClose
      BY <2>3 DEF OnStreamClose, ClearBuffers, peer, past
    <2>4. CASE Disconnect
      BY <2>1, <2>4 DEF Disconnect, ClearBuffers, peer
    <2>5. CASE Destroy
      BY <2>5 DEF Destroy, stream, peer
    <2> QED
      BY <2>2, <2>3, <2>4, <2>5
  <1>2. asked' \in BOOLEAN /\ (asked => asked')
    BY DEF OnStreamError, OnStreamClose, Disconnect, Destroy, past, StreamInv, Data, Flags
  <1>3. \/ plainFrom' = opened /\ cipherFrom' = arrived
        \/ UNCHANGED <<plainFrom, cipherFrom>>
    BY DEF OnStreamError, OnStreamClose, Disconnect, Destroy, ClearBuffers, stream
  <1>4. Positions
    BY DEF StreamInv, Data
  <1>5. Positions'
    BY <1>1, <1>3, <1>4 DEF Positions
  <1>6. Flags'
    BY <1>1, <1>2 DEF StreamInv, Data, Flags
  <1>7. Peer' /\ Lists' /\ Wired' /\ NothingSkipped' /\ Ahead' /\ Acked'
    <2>1. plainFrom' \in Nat /\ plainFrom <= plainFrom'
      BY <1>1, <1>3, <1>4 DEF Positions
    <2>2. (ackOwed' => ackOwed) /\ (link' # "up" \/ (link' = link /\ ackOwed' = ackOwed))
      BY <1>1
    <2> QED
      BY <1>1, <1>2, <2>1, <2>2, Keeps
  <1>8. FailsOnlyOnBrokenFrames'
    BY <1>1, <1>2 DEF StreamInv, Order, FailsOnlyOnBrokenFrames
  <1>9. InPlace'
    <2>1. CASE asked'
      BY <2>1 DEF InPlace
    <2>2. CASE ~asked'
      <3>1. ~asked /\ (OnStreamError \/ OnStreamClose)
        BY <1>2, <2>2 DEF Disconnect, Destroy
      <3>2. CASE OnStreamError
        <4>1. UNCHANGED stream /\ link' = "dying" /\ ~caught /\ link # "down"
          BY <3>1, <3>2, PlaceKept DEF OnStreamError
        <4> QED
          BY <1>1, <3>1, <4>1 DEF stream, StreamInv, Order, InPlace, No, Ends
      <3>3. CASE OnStreamClose
        <4>1. plainFrom' = opened /\ link' = "down"
          BY <3>3 DEF OnStreamClose, ClearBuffers
        <4> QED
          BY <1>1, <4>1 DEF InPlace
      <3> QED
        BY <3>1, <3>2, <3>3
    <2> QED
      BY <2>1, <2>2
  <1> QED
    BY <1>5, <1>6, <1>7, <1>8, <1>9 DEF StreamInv, Data, Order

\* The device writes a frame behind all others.
LEMMA DeviceStep ==
  ASSUME StreamInv, NEW sync \in BOOLEAN, NEW body \in Bodies, DeviceWrites(sync, body)
  PROVE  StreamInv'
  <1> DEFINE f    == [sync |-> sync, body |-> body]
             no   == Len(sent) + 1
             tail == IF body = Empty THEN <<<<no, TRUE>>>> ELSE <<<<no, FALSE>>, <<no, TRUE>>>>
  <1>1. /\ sent' = Append(sent, f)
        /\ UNCHANGED <<link, arrived, cipherFrom, readCount, plainFrom, opened, ackOwed, handled,
                       acks, asked, caught>>
    BY DEF DeviceWrites, stream, past
  <1>2. /\ Peer /\ Positions /\ Flags /\ Lists
        /\ Len(sent) \in Nat /\ Len(wire) \in Nat /\ Len(handled) \in Nat /\ Len(acks) \in Nat
    BY DEF StreamInv, Data, Peer, Lists
  <1>3. f \in [sync : BOOLEAN, body : Bodies]
    BY Zenon
  <1> HIDE DEF f
  <1>4. /\ sent' \in Seq([sync : BOOLEAN, body : Bodies])
        /\ Len(sent') = no
        /\ \A n \in 1..Len(sent) : sent'[n] = sent[n]
    BY <1>1, <1>2, <1>3, AppendProperties DEF Peer
  <1>5. wire' = wire \o tail
    <2>1. Len(sent') = no
      BY <1>4
    <2> QED
      BY <2>1, Zenon DEF DeviceWrites
  <1>6. /\ tail \in Seq((1..no) \X BOOLEAN) /\ Len(tail) \in 1..2
        /\ \A k \in 1..Len(tail) : tail[k][1] = no
        /\ \A k \in 1..Len(tail) : tail[k][2] <=> k = Len(tail)
    <2>1. no \in 1..no
      BY <1>2
    <2> DEFINE last == <<no, TRUE>> part == <<no, FALSE>> S == (1..no) \X BOOLEAN
    <2>2. last \in S /\ part \in S /\ last[1] = no /\ part[1] = no /\ last[2] /\ ~part[2]
      BY <2>1
    <2>3. tail = IF body = Empty THEN <<last>> ELSE <<part, last>>
      OBVIOUS
    <2> HIDE DEF no, last, part, S, tail
    <2>4. CASE body = Empty
      <3>1. tail = <<last>>
        BY <2>3, <2>4
      <3>2. tail \in Seq(S) /\ Len(tail) = 1 /\ tail[1] = last
        BY <2>2, <3>1
      <3> QED
        BY <2>2, <3>2 DEF S
    <2>5. CASE body # Empty
      <3>1. tail = <<part, last>>
        BY <2>3, <2>5
      <3>2. tail \in Seq(S) /\ Len(tail) = 2 /\ tail[1] = part /\ tail[2] = last
        BY <2>2, <3>1
      <3> QED
        BY <2>2, <3>2 DEF S
    <2> QED
      BY <2>4, <2>5
  <1> HIDE DEF tail
  <1>7. /\ Len(wire') = Len(wire) + Len(tail)
        /\ \A k \in 1..Len(wire) : wire'[k] = wire[k]
        /\ \A k \in Len(wire) + 1..Len(wire') : wire'[k] = tail[k - Len(wire)]
    BY <1>2, <1>5, <1>6 DEF Peer
  <1>8. wire' \in Seq((1..no) \X BOOLEAN)
    <2>1. wire \in Seq((1..no) \X BOOLEAN)
      BY <1>2 DEF Peer
    <2> QED
      BY <1>5, <1>6, <2>1, ConcatProperties
  <1>9. /\ \A k \in 1..Len(wire) : No(k)' = No(k) /\ Ends(k)' = Ends(k) /\ No(k) \in 1..Len(sent)
        /\ \A k \in Len(wire) + 1..Len(wire') : No(k)' = no /\ (Ends(k)' <=> k = Len(wire'))
        /\ Len(wire') \in Nat /\ Len(wire) < Len(wire')
        /\ \A k \in 1..Len(wire') : k \in 1..Len(wire) \/ k \in Len(wire) + 1..Len(wire')
    <2>1. \A k \in 1..Len(wire) : No(k)' = No(k) /\ Ends(k)' = Ends(k)
      BY <1>7 DEF No, Ends
    <2>2. \A k \in 1..Len(wire) : No(k) \in 1..Len(sent)
      BY <1>2 DEF Peer, No
    <2>3. Len(wire') \in Nat /\ Len(wire) < Len(wire')
      BY <1>2, <1>6, <1>7
    <2>4. \A k \in Len(wire) + 1..Len(wire') : /\ k - Len(wire) \in 1..Len(tail)
                                               /\ k - Len(wire) = Len(tail) <=> k = Len(wire')
      BY <1>2, <1>6, <1>7
    <2>5. \A k \in Len(wire) + 1..Len(wire') : No(k)' = no /\ (Ends(k)' <=> k = Len(wire'))
      BY <1>6, <1>7, <2>4 DEF No, Ends
    <2> QED
      BY <1>2, <2>1, <2>2, <2>3, <2>5
  <1>10. Peer'
    BY <1>4, <1>8 DEF Peer
  <1>11. Positions' /\ Lists'
    BY <1>1, <1>2, <1>4, <1>9 DEF Positions, Lists
  <1>12. Flags'
    BY <1>1, <1>2 DEF Flags
  <1>13. Wired'
    <2>1. ASSUME NEW k \in 1..Len(wire'), NEW l \in 1..Len(wire'), k <= l
          PROVE  No(k)' <= No(l)' /\ (k < l /\ Ends(k)' => No(k)' < No(l)')
      <3>1. CASE l \in 1..Len(wire)
        <4>1. k \in 1..Len(wire)
          BY <1>2, <2>1, <3>1
        <4> QED
          BY <1>9, <2>1, <3>1, <4>1 DEF StreamInv, Order, Wired
      <3>2. CASE l \in Len(wire) + 1..Len(wire')
        <4>1. CASE k \in 1..Len(wire)
          <5>1. No(k)' \in 1..Len(sent) /\ No(l)' = Len(sent) + 1
            BY <1>9, <3>2, <4>1
          <5> QED
            BY <1>2, <5>1
        <4>2. CASE k \in Len(wire) + 1..Len(wire')
          <5>1. No(k)' = no /\ No(l)' = no /\ (Ends(k)' => k = Len(wire'))
            BY <1>9, <3>2, <4>2
          <5>2. ~(k < l /\ k = Len(wire'))
            BY <1>9
          <5> QED
            BY <1>2, <5>1, <5>2
        <4> QED
          BY <1>9, <4>1, <4>2
      <3> QED
        BY <1>9, <3>1, <3>2
    <2>2. \A k, l \in 1..Len(wire') : k < l => k <= l
      BY <1>9
    <2>3. \A n \in 1..Len(sent') : \E j \in 1..Len(wire') : No(j)' = n /\ Ends(j)'
      <3> TAKE n \in 1..Len(sent')
      <3>1. CASE n \in 1..Len(sent)
        <4> PICK j \in 1..Len(wire) : No(j) = n /\ Ends(j)
          BY <3>1 DEF StreamInv, Order, Wired
        <4>1. j \in 1..Len(wire')
          BY <1>2, <1>9
        <4> QED
          BY <1>9, <4>1
      <3>2. CASE n = no
        <4>1. Len(wire') \in Len(wire) + 1..Len(wire') /\ Len(wire') \in 1..Len(wire')
          BY <1>2, <1>9
        <4> QED
          BY <1>9, <3>2, <4>1
      <3> QED
        BY <1>2, <1>4, <3>1, <3>2
    <2> QED
      BY <2>1, <2>2, <2>3 DEF Wired
  <1>14. InPlace'
    <2>1. plainFrom > 0 => plainFrom \in 1..Len(wire)
      BY <1>2 DEF Positions
    <2> QED
      BY <1>1, <1>9, <2>1 DEF StreamInv, Order, InPlace
  <1>15. NothingSkipped'
    BY <1>1 DEF StreamInv, Order, NothingSkipped
  <1>16. Ahead'
    <2>1. Increasing(handled)'
      BY <1>1 DEF StreamInv, Order, Ahead, Increasing
    <2>2. ASSUME NEW i \in 1..Len(handled), NEW k \in plainFrom + 1..Len(wire'), Ends(k)'
          PROVE  No(k)' > handled[i]
      <3>1. handled[i] \in 1..Len(sent)
        BY <1>2 DEF Lists
      <3>2. k \in 1..Len(wire')
        BY <1>2, <1>9 DEF Positions
      <3>3. CASE k \in 1..Len(wire)
        <4>1. k \in plainFrom + 1..Len(wire) /\ Ends(k)
          BY <1>2, <1>9, <2>2, <3>3 DEF Positions
        <4>2. No(k) > handled[i]
          BY <4>1 DEF StreamInv, Order, Ahead
        <4> QED
          BY <1>9, <3>3, <4>2
      <3>4. CASE k \in Len(wire) + 1..Len(wire')
        BY <1>2, <1>9, <3>1, <3>4
      <3> QED
        BY <1>9, <3>2, <3>3, <3>4
    <2> QED
      BY <1>1, <2>1, <2>2 DEF Ahead
  <1>17. \A n \in Numbers(handled) \union Numbers(acks) : n \in 1..Len(sent)
    BY <1>2 DEF Lists, Numbers
  <1>18. Acked'
    <2>1. Numbers(handled)' = Numbers(handled) /\ Numbers(acks)' = Numbers(acks)
      BY <1>1 DEF Numbers
    <2>2. Len(handled) > 0 => handled[Len(handled)] \in 1..Len(sent)
      BY <1>2 DEF Lists
    <2>3. Increasing(acks)'
      BY <1>1 DEF StreamInv, Order, Acked
    <2> QED
      BY <1>1, <1>4, <1>17, <2>1, <2>2, <2>3 DEF StreamInv, Order, Acked
  <1>19. FailsOnlyOnBrokenFrames'
    <2>1. Len(handled) < Len(sent) => Len(handled) + 1 \in 1..Len(sent)
      BY <1>2
    <2>2. Len(handled) < Len(sent) => Len(handled) < Len(sent')
      BY <1>2, <1>4
    <2> QED
      BY <1>1, <1>4, <2>1, <2>2 DEF StreamInv, Order, FailsOnlyOnBrokenFrames
  <1> QED
    BY <1>10, <1>11, <1>12, <1>13, <1>14, <1>15, <1>16, <1>18, <1>19 DEF StreamInv, Data, Order

-----------------------------------------------------------------------------
(* Every step                                                              *)

LEMMA NextSteps == Inv /\ [Next]_vars => Inv' /\ [EX!Next]_(EX!vars)
  <1> SUFFICES ASSUME Inv, [Next]_vars PROVE Inv' /\ CallSteps
    BY DEF CallSteps
  <1>0. CallInv /\ StreamInv /\ Peer
    BY DEF Inv, StreamInv, Data
  <1> SUFFICES CallSteps /\ StreamInv'
    BY DEF CallSteps, StreamInv, Inv
  <1>1. ASSUME NEW r \in Requests,
               \/ ExchangeWritten(r) \/ ExchangeUnwritable(r)
               \/ ExchangeUnencodable(r) \/ TimerFires(r)
        PROVE  CallSteps /\ StreamInv'
    <2>1. CallSteps
      BY <1>0, <1>1, WrittenCalls, FailedCalls
    <2>2. UNCHANGED <<link, stream, ackOwed, sent, wire, past>>
      BY <1>1 DEF ExchangeWritten, ExchangeUnwritable, ExchangeUnencodable, TimerFires, peer
    <2> QED
      BY <1>0, <2>1, <2>2, SameStream
  <1>2. CASE DataWhole \/ DataIncomplete
    <2>1. UNCHANGED <<calls, sent, device, replied>>
      BY <1>2 DEF DataWhole, DataIncomplete, peer
    <2> QED
      BY <1>0, <1>2, <2>1, SameCalls, DataStep DEF CallSteps
  <1>3. CASE DataGarbled \/ LengthInvalid
    <2>1. UNCHANGED <<sent, device, replied>> /\ (UNCHANGED calls \/ RejectAll)
      BY <1>3 DEF DataGarbled, LengthInvalid, Catch, peer
    <2> QED
      BY <1>0, <1>3, <2>1, SameCalls, RejectCalls, GarbledStep DEF CallSteps
  <1>4. ASSUME NEW e \in 1..Len(wire), FrameBroken(e) PROVE CallSteps /\ StreamInv'
    <2>1. UNCHANGED <<sent, device, replied>> /\ RejectAll
      BY <1>4 DEF FrameBroken, Catch, peer
    <2> QED
      BY <1>0, <1>4, <2>1, RejectCalls, BrokenStep DEF CallSteps
  <1>5. ASSUME NEW e \in 1..Len(wire), FrameTaken(e) PROVE CallSteps /\ StreamInv'
    <2>1. UNCHANGED <<sent, device, replied>> /\ HandleMessage(sent[No(e)].body)
      BY <1>5 DEF FrameTaken, peer, No
    <2>2. No(e) \in 1..Len(sent)
      BY <1>0 DEF Peer, No
    <2> QED
      BY <1>0, <1>5, <2>1, <2>2, MessageCalls, TakenStep
  <1>6. CASE Reply
    <2>1. UNCHANGED <<sent, device, replied>> /\ (UNCHANGED calls \/ RejectAll)
      BY <1>6 DEF Reply, peer
    <2> QED
      BY <1>0, <1>6, <2>1, SameCalls, RejectCalls, ReplyStep DEF CallSteps
  <1>7. CASE OnStreamError \/ OnStreamClose \/ Disconnect \/ Destroy
    <2>1. UNCHANGED <<sent, device, replied>> /\ (UNCHANGED calls \/ RejectAll)
      BY <1>7 DEF OnStreamError, OnStreamClose, Disconnect, Destroy, peer
    <2> QED
      BY <1>0, <1>7, <2>1, SameCalls, RejectCalls, EndStep DEF CallSteps
  <1>8. ASSUME NEW sync \in BOOLEAN, NEW body \in Bodies, DeviceWrites(sync, body)
        PROVE  CallSteps /\ StreamInv'
    BY <1>0, <1>8, DeviceCalls, DeviceStep
  <1>9. CASE UNCHANGED vars
    <2>1. UNCHANGED <<calls, sent, device, replied>>
          /\ UNCHANGED <<link, stream, ackOwed, sent, wire, past>>
      BY <1>9 DEF vars, peer
    <2> QED
      BY <1>0, <2>1, SameCalls, SameStream DEF CallSteps
  <1> QED
    BY <1>1, <1>2, <1>3, <1>4, <1>5, <1>6, <1>7, <1>8, <1>9 DEF Next

LEMMA NextInv == Inv /\ [Next]_vars => Inv'
  BY NextSteps

-----------------------------------------------------------------------------
(* The theorems                                                            *)

\* The inductive invariant holds throughout.
THEOREM Invariance == Spec => []Inv
  BY InitInv, NextInv, PTL DEF Spec

\* A stream keeps its types, and its buffers lie within what TCP delivered
\* (airplay/src/dataStream.ts onStreamData()).
THEOREM TypeCorrect == Spec => []TypeOK
  <1>1. Inv => TypeOK
    <2> SUFFICES ASSUME Inv PROVE TypeOK
      OBVIOUS
    <2>1. /\ link \in {"up", "closing", "dying", "down"}
          /\ ackOwed \in BOOLEAN /\ asked \in BOOLEAN /\ caught \in BOOLEAN
      BY DEF Inv, Data, Flags
    <2>2. /\ sent \in Seq([sync : BOOLEAN, body : Bodies])
          /\ wire \in Seq((1..Len(sent)) \X BOOLEAN)
      BY DEF Inv, Data, Peer
    <2>3. /\ {arrived, cipherFrom, readCount, plainFrom, opened} \subseteq Nat
          /\ plainFrom <= opened /\ cipherFrom <= arrived /\ arrived <= 2 * Len(wire)
      BY DEF Inv, Data, Positions
    <2>4. handled \in Seq(1..Len(sent)) /\ acks \in Seq(1..Len(sent))
      BY DEF Inv, Data, Lists
    <2>5. /\ outstanding \subseteq Requests /\ device \subseteq Requests /\ replied \subseteq Requests
          /\ status \in [Requests -> {"idle", "pending", "answered", "failed"}]
          /\ got \in [Requests -> Bodies]
      BY DEF Inv, CallInv, CallType, States
    <2> QED
      BY <2>1, <2>2, <2>3, <2>4, <2>5 DEF TypeOK
  <1> QED
    BY <1>1, Invariance, PTL

\* Frames are handled in the order they were written, and acknowledged in that order,
\* however TCP cuts them (airplay/src/dataStream.ts onStreamData(), reply()).
THEOREM HandledInOrder == Spec => []InOrder
  <1>1. Inv => InOrder
    BY DEF Inv, Order, NothingSkipped, Ahead, Acked, InOrder
  <1> QED
    BY <1>1, Invariance, PTL

\* Only a frame that cannot be parsed ends a stream that was not disconnected
\* (airplay/src/dataStream.ts onStreamData(), its catch clause).
THEOREM OnlyBrokenFramesEnd == Spec => []FailsOnlyOnBrokenFrames
  <1>1. Inv => FailsOnlyOnBrokenFrames
    BY DEF Inv, Order
  <1> QED
    BY <1>1, Invariance, PTL

LEMMA InitRefines == Init => EX!Init
  BY DEF Init, EX!Init

\* Every exchange() of a data stream is settled once, with the answer to its own
\* message or an error (airplay/src/dataStream.ts exchange(), #handleMessage()).
THEOREM Implements == Spec => ImplementsExchange
  BY InitRefines, NextSteps, Invariance, PTL DEF Spec, ImplementsExchange, EX!Spec
=============================================================================
