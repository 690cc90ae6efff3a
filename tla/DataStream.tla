----------------------------- MODULE DataStream -----------------------------
(***************************************************************************)
(* The MRP data stream of AirPlay: airplay/src/dataStream.ts, over the     *)
(* cipher frames of airplay/src/encryption.ts.  The device's messages are  *)
(* cut into cipher frames and delivered by TCP in chunks of any size; the  *)
(* stream puts them together again in two buffers, acknowledges each sync  *)
(* frame and settles the exchange() a message answers.                     *)
(*                                                                         *)
(* The received bytes are positions in what the device has written: wire   *)
(* is the sequence of its cipher frames, and TCP delivers it by halves, so *)
(* that a chunk can end inside a cipher frame and inside a message.        *)
(***************************************************************************)
EXTENDS Integers, Sequences, FiniteSets

CONSTANTS
    Requests, \* calls of exchange(), each with the identifier of its message
    None,     \* the body of a message that answers no request
    Empty,    \* no body: a transport acknowledgement, or a frame without data
    Broken,   \* a body that cannot be parsed
    MaxSent   \* bound: frames the device writes

ASSUME BodiesAssumption ==
    /\ Cardinality({None, Empty, Broken}) = 3
    /\ Requests \intersect {None, Empty, Broken} = {}
ASSUME SentAssumption == MaxSent \in Nat

VARIABLES
    link,      \* Connection: "up", "closing" (ended), "dying" (destroyed) or "down"
    sent,      \* the frames the device wrote: their command and their body
    wire,      \* the cipher frames these were cut into
    arrived,   \* halves of cipher frames delivered by TCP
    cipherFrom,\* #encryptedBuffer holds the halves after this one, up to arrived
    readCount, \* EncryptionState.readCount
    plainFrom, \* #buffer holds the cipher frames after this one, up to opened
    opened,    \* the last cipher frame decrypted
    ackOwed,   \* in onStreamData(), between a sync frame's message and its reply
    outstanding, \* #outstanding, each entry with its timer
    status,    \* what became of the promise of each exchange()
    device,    \* requests the device got and has not answered
    (* History variables, which no action reads.                            *)
    got,       \* the request whose answer an exchange() was settled with
    replied,   \* the requests the device answered
    handled,   \* the frames taken from the buffer, by number
    acks,      \* the frames acknowledged on the wire, by number
    asked,     \* was disconnect() or destroy() called?
    caught     \* did onStreamData() give up the connection?

stream == <<arrived, cipherFrom, readCount, plainFrom, opened>>
calls  == <<outstanding, status, got>>
peer   == <<sent, wire, device, replied>>
past   == <<handled, acks, asked, caught>>
vars   == <<link, stream, ackOwed, calls, peer, past>>

Bodies == Requests \union {None, Empty, Broken}

Init ==
    /\ link = "up"
    /\ sent = <<>> /\ wire = <<>>
    /\ arrived = 0 /\ cipherFrom = 0 /\ readCount = 0 /\ plainFrom = 0 /\ opened = 0
    /\ ackOwed = FALSE
    /\ outstanding = {}
    /\ status = [r \in Requests |-> "idle"]
    /\ got = [r \in Requests |-> None]
    /\ device = {} /\ replied = {}
    /\ handled = <<>> /\ acks = <<>>
    /\ asked = FALSE /\ caught = FALSE

-----------------------------------------------------------------------------
(* Helpers                                                                 *)

Receiving == link \in {"up", "closing"}

Fails(S) ==
    /\ status' = [r \in Requests |-> IF r \in S THEN "failed" ELSE status[r]]
    /\ UNCHANGED got

\* The loops of onStreamError() and #cleanup().
RejectAll == outstanding' = {} /\ Fails(outstanding)

\* Both buffers become empty, whatever has come in.
ClearBuffers(received) ==
    /\ cipherFrom' = received
    /\ plainFrom' = opened
    /\ UNCHANGED opened

\* Does #buffer begin with the header of a frame, and where does that frame end?
InStep   == plainFrom > 0 => wire[plainFrom][2]
Frame(e) == e \in plainFrom + 1..opened /\ wire[e][2] /\ \A k \in plainFrom + 1..e - 1 : ~wire[k][2]
Complete == InStep /\ \E e \in plainFrom + 1..opened : Frame(e)

\* onStreamData() runs to its end before the event loop goes on.
Busy == ackOwed \/ Complete

-----------------------------------------------------------------------------
(* exchange()                                                              *)

ExchangeWritten(r) ==
    /\ status[r] = "idle"
    /\ link = "up"
    /\ outstanding' = outstanding \union {r}
    /\ status' = [status EXCEPT ![r] = "pending"]
    /\ device' = device \union {r}
    /\ UNCHANGED <<link, stream, ackOwed, got, sent, wire, replied, past>>

\* write() finds no writable socket and emits 'error', which rejects all entries.
ExchangeUnwritable(r) ==
    /\ status[r] = "idle"
    /\ link # "up"
    /\ outstanding' = {}
    /\ Fails(outstanding \union {r})
    /\ UNCHANGED <<link, stream, ackOwed, peer, past>>

\* send() throws: the entry is deleted and its timer cleared.
ExchangeUnencodable(r) ==
    /\ status[r] = "idle"
    /\ Fails({r})
    /\ UNCHANGED <<link, stream, ackOwed, outstanding, peer, past>>

TimerFires(r) ==
    /\ r \in outstanding
    /\ ~Busy
    /\ outstanding' = outstanding \ {r}
    /\ Fails({r})
    /\ UNCHANGED <<link, stream, ackOwed, peer, past>>

-----------------------------------------------------------------------------
(* onStreamData(): decrypt what has come in, then take frame after frame.  *)

\* The catch clause: destroy() and 'error'.
Catch(received) ==
    /\ link' = IF link = "down" THEN "down" ELSE "dying"
    /\ ClearBuffers(received)
    /\ RejectAll
    /\ caught' = TRUE
    /\ ackOwed' = FALSE

BugCountsIncomplete(n) == IF n % 2 = 1 THEN n \div 2 ELSE readCount
CountOfIncomplete(n)   == readCount

\* decrypt() finds whole cipher frames under the right counter.
Decryptable == cipherFrom % 2 = 0 /\ readCount = cipherFrom \div 2

Decrypt ==
    /\ opened' = arrived' \div 2
    /\ readCount' = opened'
    /\ cipherFrom' = arrived'
    /\ UNCHANGED plainFrom

\* A chunk is delivered.
Arrives == Receiving /\ ~Busy /\ arrived' \in arrived + 1..2 * Len(wire)

DataWhole ==
    /\ Arrives
    /\ Decryptable
    /\ arrived' % 2 = 0
    /\ Decrypt
    /\ UNCHANGED <<link, ackOwed, calls, peer, past>>

DataIncomplete ==
    /\ Arrives
    /\ Decryptable
    /\ arrived' % 2 = 1
    /\ readCount' = CountOfIncomplete(arrived')
    /\ UNCHANGED <<link, cipherFrom, plainFrom, opened, ackOwed, calls, peer, past>>

\* The buffer does not begin with a cipher frame, or not with the one the counter is
\* for: decrypt() waits for a length that is not one, or throws.
DataGarbled ==
    /\ Arrives
    /\ ~Decryptable
    /\ \/ UNCHANGED <<link, cipherFrom, readCount, plainFrom, opened, ackOwed, calls, peer, past>>
       \/ /\ Catch(arrived')
          /\ readCount' \in readCount..arrived'
          /\ UNCHANGED <<peer, handled, acks, asked>>

\* #buffer does not begin with a header: what is read as its length does not fit.
LengthInvalid ==
    /\ ~ackOwed
    /\ ~InStep
    /\ opened > plainFrom
    /\ Receiving
    /\ Catch(arrived)
    /\ UNCHANGED <<arrived, readCount, peer, handled, acks, asked>>

\* A frame is taken from the buffer.
Takes(e) == ~ackOwed /\ InStep /\ Frame(e)

FrameBroken(e) ==
    /\ Takes(e)
    /\ sent[wire[e][1]].body = Broken
    /\ Catch(arrived)
    /\ UNCHANGED <<arrived, readCount, peer, handled, acks, asked>>

\* #handleMessage(): the body of an acknowledgement, Empty, completes no exchange.
BugAckCompletes(body) ==
    LET who == IF body = Empty THEN outstanding ELSE outstanding \intersect {body}
    IN /\ outstanding' = outstanding \ who
       /\ status' = [r \in Requests |-> IF r \in who THEN "answered" ELSE status[r]]
       /\ got' = [r \in Requests |-> IF r \in who THEN body ELSE got[r]]

HandleMessage(body) ==
    LET who == outstanding \intersect {body}
    IN /\ outstanding' = outstanding \ who
       /\ status' = [r \in Requests |-> IF r \in who THEN "answered" ELSE status[r]]
       /\ got' = [r \in Requests |-> IF r \in who THEN body ELSE got[r]]

BugKeepsFrame(e)       == plainFrom
BugTakesWholeBuffer(e) == opened
After(e)               == e

FrameTaken(e) ==
    /\ Takes(e)
    /\ sent[wire[e][1]].body # Broken
    /\ plainFrom' = After(e)
    /\ handled' = Append(handled, wire[e][1])
    /\ HandleMessage(sent[wire[e][1]].body)
    /\ ackOwed' = sent[wire[e][1]].sync
    /\ UNCHANGED <<link, arrived, cipherFrom, readCount, opened, peer, acks, asked, caught>>

\* reply() to the frame just handled; on a connection that was given up, write() emits 'error'.
BugReplyOwnNumber == acks' = Append(acks, Len(sent) + 1)
ReplyWritten      == acks' = Append(acks, handled[Len(handled)])

Reply ==
    /\ ackOwed
    /\ ackOwed' = FALSE
    /\ \/ link = "up" /\ ReplyWritten /\ UNCHANGED calls
       \/ link # "up" /\ RejectAll /\ UNCHANGED acks
    /\ UNCHANGED <<link, stream, peer, handled, asked, caught>>

-----------------------------------------------------------------------------
(* The connection, and the device                                          *)

OnStreamError ==
    /\ Receiving
    /\ ~Busy
    /\ link' = "dying"
    /\ RejectAll
    /\ UNCHANGED <<stream, ackOwed, peer, past>>

OnStreamClose ==
    /\ link # "down"
    /\ ~Busy
    /\ link' = "down"
    /\ RejectAll
    /\ ClearBuffers(arrived)
    /\ UNCHANGED <<arrived, readCount, ackOwed, peer, past>>

\* Also called by a listener of a message.
Disconnect ==
    /\ link' = IF link = "up" THEN "closing" ELSE link
    /\ RejectAll
    /\ ClearBuffers(arrived)
    /\ asked' = TRUE
    /\ UNCHANGED <<arrived, readCount, ackOwed, peer, handled, acks, caught>>

Destroy ==
    /\ Receiving
    /\ link' = "dying"
    /\ asked' = TRUE
    /\ UNCHANGED <<stream, ackOwed, calls, peer, handled, acks, caught>>

\* A frame without data fits in one cipher frame; any other is cut into two.
DeviceWrites(sync, body) ==
    /\ Receiving
    /\ Len(sent) < MaxSent
    /\ body \in Requests => body \in device
    /\ sent' = Append(sent, [sync |-> sync, body |-> body])
    /\ LET no == Len(sent')
       IN wire' = wire \o (IF body = Empty THEN <<<<no, TRUE>>>> ELSE <<<<no, FALSE>>, <<no, TRUE>>>>)
    /\ device' = device \ {body}
    /\ replied' = replied \union ({body} \intersect Requests)
    /\ UNCHANGED <<link, stream, ackOwed, calls, past>>

Next ==
    \/ \E r \in Requests : \/ ExchangeWritten(r) \/ ExchangeUnwritable(r)
                           \/ ExchangeUnencodable(r) \/ TimerFires(r)
    \/ DataWhole \/ DataIncomplete \/ DataGarbled \/ LengthInvalid
    \/ \E e \in 1..Len(wire) : FrameBroken(e) \/ FrameTaken(e)
    \/ Reply
    \/ OnStreamError \/ OnStreamClose \/ Disconnect \/ Destroy
    \/ \E sync \in BOOLEAN, body \in Bodies : DeviceWrites(sync, body)

Fairness ==
    /\ WF_vars(DataWhole \/ DataIncomplete)
    /\ WF_vars(\E e \in 1..Len(wire) : FrameBroken(e) \/ FrameTaken(e))
    /\ WF_vars(Reply)

Spec == Init /\ [][Next]_vars /\ Fairness

-----------------------------------------------------------------------------
(* Properties                                                              *)

\* The variables keep their shape, and the positions in the stream their order.
TypeOK ==
    /\ link \in {"up", "closing", "dying", "down"}
    /\ sent \in Seq([sync : BOOLEAN, body : Bodies])
    /\ wire \in Seq((1..Len(sent)) \X BOOLEAN)
    /\ {arrived, cipherFrom, readCount, plainFrom, opened} \subseteq Nat
    /\ plainFrom <= opened /\ cipherFrom <= arrived /\ arrived <= 2 * Len(wire)
    /\ ackOwed \in BOOLEAN
    /\ outstanding \subseteq Requests
    /\ status \in [Requests -> {"idle", "pending", "answered", "failed"}]
    /\ device \subseteq Requests
    /\ got \in [Requests -> Bodies]
    /\ replied \subseteq Requests
    /\ handled \in Seq(1..Len(sent)) /\ acks \in Seq(1..Len(sent))
    /\ asked \in BOOLEAN /\ caught \in BOOLEAN

Numbers(list) == {list[i] : i \in 1..Len(list)}

Increasing(list) == \A i, j \in 1..Len(list) : i < j => list[i] < list[j]

\* However TCP cuts the stream, the device's frames are handled in the order they were
\* written, none twice, and none is passed over unless disconnect() threw the buffers away
\* (the two-buffer loop of onStreamData()).  The sync frames handled, and no others, are
\* acknowledged in the same order; while the connection is up only the last may be missing.
InOrder ==
    /\ Increasing(handled) /\ Increasing(acks)
    /\ ~asked => \A i \in 1..Len(handled) : handled[i] = i
    /\ \A n \in Numbers(acks) : n \in Numbers(handled) /\ sent[n].sync
    /\ link = "up" => \A n \in Numbers(handled) :
                        sent[n].sync => \/ n \in Numbers(acks)
                                        \/ ackOwed /\ n = handled[Len(handled)]

\* The stream gives its connection up for one reason: the frame that is next cannot be
\* parsed.  The framing itself never loses its place, until disconnect() makes it.
FailsOnlyOnBrokenFrames ==
    caught /\ ~asked => /\ Len(handled) < Len(sent)
                        /\ sent[Len(handled) + 1].body = Broken

\* Each exchange() is settled once, with the answer to its own message or an error.
EX == INSTANCE Exchange
ImplementsExchange == EX!Spec

\* What the device has written is handled, or the connection is given up.
MessagesArrive ==
    \A n \in 1..MaxSent :
        Len(sent) >= n ~> \/ n \in Numbers(handled)
                          \/ link # "up"
=============================================================================
