----------------------------- MODULE AudioStream -----------------------------
(***************************************************************************)
(* Realtime audio over AirPlay: airplay/src/audioStream.ts, the loop of    *)
(* streamTiming.ts and the AudioMultiplexer, fed by a live source that     *)
(* another party writes.  Either one receiver gets the audio by stream(),  *)
(* which pads with silence in its loop, or the multiplexer reads once and  *)
(* sends to every receiver, each of which then pads and ends by itself.    *)
(*                                                                         *)
(* A step ends where the code awaits.  The pacing of streamWithTiming() is *)
(* how long "read" lasts.  Synchronisation and retransmissions read the    *)
(* state and change nothing of it; the redundant payloads, off by default, *)
(* are not modelled.                                                       *)
(***************************************************************************)
EXTENDS LiveSource, FiniteSets

CONSTANTS
    Receivers,
    One,           \* the receiver of stream()
    PacketFrames,  \* AUDIO_FRAMES_PER_PACKET
    Latency,       \* frames of silence before TEARDOWN
    BacklogSize,   \* PACKET_BACKLOG_SIZE
    SeqLimit,      \* RTP sequence numbers: 2^16
    FirstSeq,      \* the number prepare() starts with, a random one
    MaxWritten     \* bound: frames the producer writes

ASSUME ReceiversAssumption == One \in Receivers
ASSUME SizesAssumption ==
    /\ {PacketFrames, Latency, BacklogSize} \subseteq Nat \ {0}
    /\ SeqLimit \in Nat /\ BacklogSize < SeqLimit
    /\ FirstSeq \in 0..SeqLimit - 1
    /\ MaxWritten \in Nat
ASSUME CapacityHoldsPacket == PacketFrames <= Capacity

VARIABLES
    caller,   \* who streams: "stream" or "multiplexer"
    targets,  \* #targets of the multiplexer, or the receiver of stream()
    phase,    \* where the caller is
    source,   \* the live source
    frames,   \* what readFrames() returned; none is null
    streams,  \* the AudioStream of each receiver
    (* History variables, which no action reads.                            *)
    written,  \* frames the producer wrote
    began,    \* did the loop begin?
    early     \* was a stream closed by its owner before that?

audio == <<caller, targets>>
past  == <<began, early>>
vars  == <<audio, phase, source, frames, streams, written, past>>

NewStream ==
    [at      |-> "idle",
     control |-> FALSE,    \* is there a #controlSocket?
     data    |-> FALSE,    \* is there a #dataSocket?
     sync    |-> FALSE,    \* #syncInterval
     seq     |-> FirstSeq, \* rtpSeq
     padding |-> 0,        \* paddingSent
     nonce   |-> 0,        \* #encryptionCounter
     backlog |-> <<>>,     \* #packetBacklog, in the order of its keys
     silence |-> 0]        \* history: frames of silence since the last frame of the source

Init ==
    /\ caller \in {"stream", "multiplexer"}
    /\ targets = IF caller = "stream" THEN {One} ELSE Receivers
    /\ phase = "start"
    /\ source = NewSource
    /\ frames = <<>>
    /\ streams = [r \in Receivers |-> NewStream]
    /\ written = 0
    /\ began = FALSE /\ early = FALSE

-----------------------------------------------------------------------------
(* One stream                                                              *)

Each(S, F(_)) == streams' = [r \in Receivers |-> IF r \in S THEN F(streams[r]) ELSE streams[r]]

At(st, place) == [st EXCEPT !.at = place]

StopSync(st) == [st EXCEPT !.sync = FALSE]

\* close(): stopSync(), both sockets and the backlog.
Close(st) == [StopSync(st) EXCEPT !.control = FALSE, !.data = FALSE, !.backlog = <<>>]

\* #storePacket(): a Map keeps the place of a key that is set again.
BugUnbounded(backlog, packet) == Append(backlog, packet)
StorePacket(backlog, packet) ==
    LET known == {i \in 1..Len(backlog) : backlog[i].seq = packet.seq}
        all   == IF known = {} THEN Append(backlog, packet)
                 ELSE [i \in 1..Len(backlog) |-> IF i \in known THEN packet ELSE backlog[i]]
    IN IF Len(all) > BacklogSize THEN Tail(all) ELSE all

BugNoWrap(seq) == seq + 1
NextSeq(seq)   == (seq + 1) % SeqLimit

\* #sendFrameBuffer() of one packet, up to its #send().
Packet(st, silent) ==
    [st EXCEPT !.backlog = StorePacket(@, [seq |-> st.seq, nonce |-> st.nonce]),
               !.nonce   = @ + 1,
               !.seq     = NextSeq(@),
               !.silence = IF silent THEN @ + PacketFrames ELSE 0]

-----------------------------------------------------------------------------
(* setup() and prepare() of every target                                   *)

Start ==
    /\ phase = "start"
    /\ phase' = "setup"
    /\ Each(targets, LAMBDA st : [At(st, "setup") EXCEPT !.control = TRUE])
    /\ UNCHANGED <<audio, source, frames, written, past>>

\* The caller goes on when every stream it began has got there.
AllAt(place) == \A r \in Receivers : streams[r].at \in {"idle", place}

\* Any await of setup() or prepare() fails, before try: nothing is closed.
AwaitFails(r) ==
    /\ streams[r].at \in {"setup", "connect", "flush"}
    /\ streams[r].at = "connect" => streams[r].data
    /\ streams' = [streams EXCEPT ![r].at = "failed"]
    /\ phase' = "failed"
    /\ UNCHANGED <<audio, source, frames, written, past>>

\* The socket is bound, and SETUP and RECORD are answered.
SetupDone(r) ==
    /\ streams[r].at = "setup"
    /\ streams' = [streams EXCEPT ![r].at = "ready"]
    /\ UNCHANGED <<audio, phase, source, frames, written, past>>

\* After clear() there is no first context, after close() no control socket.
PrepareRefused ==
    /\ phase = "setup"
    /\ AllAt("ready")
    /\ targets = {} \/ \E r \in targets : ~streams[r].control
    /\ phase' = "failed"
    /\ UNCHANGED <<audio, source, frames, streams, written, past>>

Prepare ==
    /\ phase = "setup"
    /\ AllAt("ready")
    /\ targets # {}
    /\ \A r \in targets : streams[r].control
    /\ phase' = "prepare"
    /\ Each(targets, LAMBDA st : [At(st, "connect") EXCEPT !.data = TRUE])
    /\ UNCHANGED <<audio, source, frames, written, past>>

\* A socket that was closed never calls back.
Connected(r) ==
    /\ streams[r].at = "connect"
    /\ streams[r].data
    /\ streams' = [streams EXCEPT ![r].at = "flush"]
    /\ UNCHANGED <<audio, phase, source, frames, written, past>>

\* FLUSH is answered: #startSync(), on a stream that was closed as well.
Flushed(r) ==
    /\ streams[r].at = "flush"
    /\ streams' = [streams EXCEPT ![r] = [At(@, "prepared") EXCEPT !.sync = TRUE, !.backlog = <<>>]]
    /\ UNCHANGED <<audio, phase, source, frames, written, past>>

Begin ==
    /\ phase = "prepare"
    /\ AllAt("prepared")
    /\ phase' = "read"
    /\ began' = TRUE
    /\ UNCHANGED <<audio, source, frames, streams, written, early>>

-----------------------------------------------------------------------------
(* The source                                                              *)

\* The reader gets n frames of s.
Resolve(s, n) ==
    /\ frames' = Frames(s, n)
    /\ source' = Advance(s, n)
    /\ phase' = "got"

Write(n) ==
    /\ ~source.ended
    /\ written + n <= MaxWritten
    /\ written' = written + n
    /\ LET s == Store(source, [i \in 1..n |-> written + i])
       IN IF s.waiting > 0 /\ s.available >= s.waiting
          THEN Resolve(s, s.waiting)
          ELSE source' = s /\ UNCHANGED <<frames, phase>>
    /\ UNCHANGED <<audio, streams, past>>

\* end(), and stop().
BugEndLeavesReader ==
    /\ ~source.ended
    /\ source' = [source EXCEPT !.ended = TRUE]
    /\ UNCHANGED <<audio, phase, frames, streams, written, past>>

\* The last frames of a waiting reader left behind.
BugEndGivesNothing ==
    /\ ~source.ended
    /\ LET s == [source EXCEPT !.ended = TRUE]
       IN IF s.waiting > 0 THEN Resolve(s, 0) ELSE source' = s /\ UNCHANGED <<frames, phase>>
    /\ UNCHANGED <<audio, streams, written, past>>

End ==
    /\ ~source.ended
    /\ LET s == [source EXCEPT !.ended = TRUE]
       IN IF s.waiting > 0
          THEN Resolve(s, IF s.available < s.waiting THEN s.available ELSE s.waiting)
          ELSE source' = s /\ UNCHANGED <<frames, phase>>
    /\ UNCHANGED <<audio, streams, written, past>>

-----------------------------------------------------------------------------
(* The loop of streamWithTiming()                                          *)

\* #sendPacket() of stream() returns 0.
Padded == caller = "stream" /\ streams[One].padding >= Latency

ReadFrames ==
    /\ phase = "read"
    /\ ~Padded
    /\ \/ source.available >= PacketFrames /\ Resolve(source, PacketFrames)
       \/ source.available < PacketFrames /\ source.ended /\ Resolve(source, source.available)
       \/ /\ source.available < PacketFrames /\ ~source.ended
          /\ source' = [source EXCEPT !.waiting = PacketFrames]
          /\ phase' = "waiting"
          /\ UNCHANGED frames
    /\ UNCHANGED <<audio, streams, written, past>>

\* stream() sends what it read, or silence; without a socket #send() throws.
AudioOrSilence(st) ==
    [Packet(st, frames = <<>>) EXCEPT !.padding = IF frames = <<>> THEN @ + PacketFrames ELSE @]

SendPacket ==
    /\ phase = "got"
    /\ caller = "stream"
    /\ IF streams[One].data
       THEN phase' = "sending" /\ Each({One}, AudioOrSilence)
       ELSE phase' = "failed" /\ Each({One}, LAMBDA st : Close(AudioOrSilence(st)))
    /\ frames' = <<>>
    /\ UNCHANGED <<audio, source, written, past>>

SendToAll ==
    /\ phase = "got"
    /\ caller = "multiplexer"
    /\ frames # <<>>
    /\ phase' = "sending"
    /\ Each(targets, LAMBDA st : Packet(st, FALSE))
    /\ frames' = <<>>
    /\ UNCHANGED <<audio, source, written, past>>

Sent ==
    /\ phase = "sending"
    /\ phase' = "read"
    /\ UNCHANGED <<audio, source, frames, streams, written, past>>

\* The catch clauses.
BugClosesOne == Each(IF One \in targets THEN {One} ELSE {}, Close)
CloseTargets == Each(targets, Close)

SendFails ==
    /\ phase = "sending"
    /\ targets # {}
    /\ phase' = "failed"
    /\ CloseTargets
    /\ UNCHANGED <<audio, source, frames, written, past>>

-----------------------------------------------------------------------------
(* The end of the audio                                                    *)

\* stream() has padded in its loop.
EndOfStream ==
    /\ phase = "read"
    /\ Padded
    /\ phase' = "finish"
    /\ Each({One}, LAMBDA st : At(StopSync(st), "teardown"))
    /\ UNCHANGED <<audio, source, frames, written, past>>

\* The multiplexer has read null and finishes every target.
EndOfSource ==
    /\ phase = "got"
    /\ caller = "multiplexer"
    /\ frames = <<>>
    /\ phase' = "finish"
    /\ Each(targets, LAMBDA st : At(st, "padding"))
    /\ UNCHANGED <<audio, source, frames, written, past>>

\* The loop of finish(), one packet of silence a step.
SilentPacket(st) == [Packet(st, TRUE) EXCEPT !.padding = @ + PacketFrames]

Pad(r) ==
    /\ streams[r].at = "padding"
    /\ streams[r].padding < Latency
    /\ streams[r].data
    /\ streams' = [streams EXCEPT ![r] = SilentPacket(@)]
    /\ UNCHANGED <<audio, phase, source, frames, written, past>>

BugPadsOnce(st) == st.padding >= PacketFrames
PaddedEnough(st) == st.padding >= Latency

FinishPadding(r) ==
    /\ streams[r].at = "padding"
    /\ PaddedEnough(streams[r])
    /\ streams' = [streams EXCEPT ![r] = At(StopSync(@), "teardown")]
    /\ UNCHANGED <<audio, phase, source, frames, written, past>>

\* TEARDOWN is answered; the stream is closed.
TornDown(r) ==
    /\ streams[r].at = "teardown"
    /\ streams' = [streams EXCEPT ![r] = At(Close(@), "finished")]
    /\ UNCHANGED <<audio, phase, source, frames, written, past>>

\* A packet of silence or the TEARDOWN of one receiver fails: while the caller waits for
\* the others, all are closed, and they find out by themselves.
FinishFails(r) ==
    /\ streams[r].at \in {"padding", "teardown"}
    /\ LET failed == [streams EXCEPT ![r].at = "failed"]
       IN streams' = IF phase = "finish"
                     THEN [q \in Receivers |-> IF q \in targets THEN Close(failed[q]) ELSE failed[q]]
                     ELSE failed
    /\ phase' = "failed"
    /\ UNCHANGED <<audio, source, frames, written, past>>

Done ==
    /\ phase = "finish"
    /\ \A r \in Receivers : streams[r].at \notin {"padding", "teardown"}
    /\ phase' = "done"
    /\ UNCHANGED <<audio, source, frames, streams, written, past>>

\* Protocol.disconnect() closes the stream, clear() every stream of the multiplexer.
OwnerCloses ==
    /\ phase \notin {"start", "done"}
    /\ CloseTargets
    /\ targets' = IF caller = "stream" THEN targets ELSE {}
    /\ early' = (early \/ ~began)
    /\ UNCHANGED <<caller, phase, source, frames, written, began>>

OfStream(r) ==
    \/ AwaitFails(r) \/ SetupDone(r) \/ Connected(r) \/ Flushed(r)
    \/ Pad(r) \/ FinishPadding(r) \/ TornDown(r) \/ FinishFails(r)

Loop == ReadFrames \/ SendPacket \/ SendToAll \/ Sent \/ SendFails \/ EndOfStream \/ EndOfSource \/ Done

Next ==
    \/ Start \/ PrepareRefused \/ Prepare \/ Begin
    \/ Loop
    \/ \E r \in Receivers : OfStream(r)
    \/ \E n \in 1..Capacity + 1 : Write(n)
    \/ End
    \/ OwnerCloses

Fairness ==
    /\ WF_vars(Loop)
    /\ \A r \in Receivers : WF_vars(OfStream(r))

Spec == Init /\ [][Next]_vars /\ Fairness

-----------------------------------------------------------------------------
(* Properties                                                              *)

Places == {"idle", "setup", "ready", "connect", "flush", "prepared", "padding", "teardown",
           "finished", "failed"}

\* The variables keep their shape; a sequence number fits its field.
TypeOK ==
    /\ phase \in {"start", "setup", "prepare", "read", "waiting", "got", "sending", "finish",
                  "done", "failed"}
    /\ targets \subseteq Receivers
    /\ written \in 0..MaxWritten
    /\ source.available \in 0..Capacity
    /\ {source.readPos, source.writePos} \subseteq Slots
    /\ source.waiting \in {0, PacketFrames}
    /\ Len(frames) <= PacketFrames
    /\ \A r \in Receivers : streams[r].at \in Places /\ streams[r].seq \in 0..SeqLimit - 1

\* However the producer and the reader wrap around the ring, it holds the newest frames in
\* order, and a reader waits only for frames that are not there (write(), readFrames() and
\* end() of the source).
RingHoldsNewest ==
    /\ Held(source) = [i \in 1..source.available |-> written - source.available + i]
    /\ source.waiting > 0 <=> phase = "waiting"
    /\ source.waiting > 0 => source.available < source.waiting /\ ~source.ended

\* A retransmission request finds the last packets sent, each under the number and with the
\* nonce it had, also when the numbers have wrapped around (#storePacket()).
BacklogIsNewest ==
    \A r \in Receivers :
        LET st == streams[r]
            n  == IF st.nonce < BacklogSize THEN st.nonce ELSE BacklogSize
        IN st.data => st.backlog = [i \in 1..n |-> LET k == st.nonce - n + i - 1
                                                   IN [seq |-> (FirstSeq + k) % SeqLimit, nonce |-> k]]

\* TEARDOWN is sent only when the source has ended and everything it held was sent, followed
\* by at least the latency of silence, for which the receiver plays what it has buffered.
TeardownAfterAudio ==
    \A r \in Receivers :
        streams[r].at = "teardown" => /\ source.ended /\ source.available = 0
                                      /\ streams[r].silence >= Latency

\* Once the loop has begun, a streaming that is over has closed the streams of all receivers,
\* whichever of them failed and where; not if the owner closed them before the loop.
NothingLeftOpen ==
    phase \in {"done", "failed"} /\ began /\ ~early =>
        \A r \in Receivers : ~streams[r].control /\ ~streams[r].data /\ ~streams[r].sync

\* To the producer and the loop, the ring is a queue of the newest frames: every read gets the
\* oldest frames held, each frame is read at most once, in order, and lost only to an overflow,
\* and what is left at the end is read before the source is over (class Live).
Promise ==
    INSTANCE LiveQueue WITH queue <- Held(source), ended <- source.ended,
                            asked <- source.waiting > 0, given <- frames
ImplementsQueue == Promise!Spec

\* Once the source has ended, the streaming that has begun comes to an end.
StreamSettles == began /\ source.ended ~> phase \in {"done", "failed"}
=============================================================================
