------------------------- MODULE AudioStreamProofs -------------------------
(***************************************************************************)
(* Proofs that AudioStream keeps its safety properties, for every set of   *)
(* receivers, ring, packet, latency and backlog.                           *)
(*                                                                         *)
(* The inductive invariant Inv has five parts: where the caller and each   *)
(* stream can be at the same time (Control), what the ring and the reader  *)
(* hold (Supply), how the packets are numbered (Numbering), what has been  *)
(* padded (Playing) and which streams are open (Opened).  Supply is kept   *)
(* whatever the streams do; the others use Control and Supply.  Supply is  *)
(* also what the refinement of LiveQueue by the ring needs.                *)
(***************************************************************************)
EXTENDS AudioStream, SequenceTheorems, TLAPS

(* The types                                                                *)

\* What is remembered of a packet, and the type of an AudioStream.
Packets == [seq : Nat, nonce : Nat]
Streams == [at : Places, control : BOOLEAN, data : BOOLEAN, sync : BOOLEAN,
            seq : 0..SeqLimit - 1, padding : Nat, nonce : Nat, backlog : Seq(Packets),
            silence : Nat]

\* The assumptions on the constants, as the proofs use them.
LEMMA Sizes == /\ PacketFrames \in Nat /\ PacketFrames > 0
               /\ Latency \in Nat /\ Latency > 0
               /\ BacklogSize \in Nat /\ BacklogSize > 0
               /\ SeqLimit \in Nat /\ BacklogSize < SeqLimit
               /\ FirstSeq \in 0..SeqLimit - 1
               /\ Capacity \in Nat /\ Capacity > 0 /\ PacketFrames <= Capacity
               /\ MaxWritten \in Nat
  BY SizesAssumption, CapacityAssumption, CapacityHoldsPacket

\* A remainder is below its divisor.
LEMMA ModRange == ASSUME NEW c \in Nat, c > 0, NEW x \in Int PROVE x % c \in 0..c-1
  OBVIOUS

\* What differs from x by a multiple of c and is below c is its remainder.
LEMMA ModUnique ==
  ASSUME NEW c \in Nat, c > 0, NEW x \in Int, NEW k \in Int, NEW b \in 0..c-1, x = b + c * k
  PROVE  x % c = b
  OBVIOUS

\* A number is its remainder and a multiple of the divisor.
LEMMA ModSplit ==
  ASSUME NEW c \in Nat, c > 0, NEW x \in Int PROVE \E k \in Int : x = (x % c) + c * k
  <1>1. x \div c \in Int /\ x = (x % c) + c * (x \div c)
    OBVIOUS
  <1> QED
    BY <1>1

\* Advancing a position that was reduced already is the same as reducing at the end.
LEMMA ModAdd ==
  ASSUME NEW c \in Nat, c > 0, NEW x \in Int, NEW y \in Int
  PROVE  ((x % c) + y) % c = (x + y) % c
  <1>1. PICK k \in Int : x = (x % c) + c * k
    BY ModSplit
  <1>0. x + y \in Int
    OBVIOUS
  <1>2. PICK j \in Int : x + y = ((x + y) % c) + c * j
    BY <1>0, ModSplit
  <1>3. (x % c) + y = ((x + y) % c) + c * (j - k)
    BY <1>1, <1>2, ModRange
  <1>4. (x + y) % c \in 0..c-1 /\ x % c \in Int /\ j - k \in Int
    BY ModRange
  <1> QED
    BY <1>3, <1>4, ModUnique

\* The same for a distance from a reduced position.
LEMMA ModSubtract ==
  ASSUME NEW c \in Nat, c > 0, NEW x \in Int, NEW y \in Int
  PROVE  (x - (y % c)) % c = (x - y) % c
  <1>0. x - y \in Int
    OBVIOUS
  <1>1. PICK k \in Int : y = (y % c) + c * k
    BY ModSplit
  <1>2. PICK j \in Int : x - y = ((x - y) % c) + c * j
    BY <1>0, ModSplit
  <1> DEFINE r == y % c
             d == (x - y) % c
  <1>5. r \in Int /\ d \in Int
    BY <1>0, ModRange
  <1>6. y = r + c * k /\ x - y = d + c * j
    BY <1>1, <1>2
  <1> HIDE DEF r, d
  <1>7. c * (j + k) = c * j + c * k
    OBVIOUS
  <1>8. x - r = d + c * (j + k)
    BY <1>5, <1>6, <1>7
  <1>3. x - (y % c) = ((x - y) % c) + c * (j + k)
    BY <1>8 DEF r, d
  <1>4. (x - y) % c \in 0..c-1 /\ x - (y % c) \in Int /\ j + k \in Int
    BY <1>0, ModRange
  <1> QED
    BY <1>3, <1>4, ModUnique

\* Equal positions stay equal when both advance.
LEMMA ModShift ==
  ASSUME NEW c \in Nat, c > 0, NEW x \in Int, NEW y \in Int, NEW z \in Int, x % c = y % c
  PROVE  (x + z) % c = (y + z) % c
  BY ModAdd

\* Numbers less than c apart have different remainders.
LEMMA ModApart ==
  ASSUME NEW c \in Nat, c > 0, NEW x \in Int, NEW y \in Int, x < y, y - x < c
  PROVE  x % c # y % c
  <1> SUFFICES ASSUME x % c = y % c PROVE FALSE
    OBVIOUS
  <1>0. 0 - x \in Int
    OBVIOUS
  <1>1. (x + (0 - x)) % c = (y + (0 - x)) % c
    BY <1>0, ModShift
  <1>2. y - x \in 0..c-1 /\ y - x = (y - x) + c * 0 /\ 0 \in 0..c-1 /\ 0 = 0 + c * 0
    OBVIOUS
  <1>3. (y - x) % c = y - x /\ 0 % c = 0
    BY <1>2, ModUnique
  <1> QED
    BY <1>1, <1>3

\* A new AudioStream is of the type.
LEMMA StartStream == NewStream \in Streams
  <1>1. <<>> \in Seq(Packets)
    OBVIOUS
  <1>2. FirstSeq \in 0..SeqLimit-1
    BY Sizes
  <1> QED BY <1>1, <1>2 DEF NewStream, Streams, Places

\* At() changes the place only.
LEMMA AtFields ==
  ASSUME NEW st \in Streams, NEW place \in Places
  PROVE  /\ At(st, place) \in Streams
         /\ At(st, place).at = place
         /\ At(st, place).control = st.control /\ At(st, place).data = st.data
         /\ At(st, place).sync = st.sync
         /\ At(st, place).seq = st.seq /\ At(st, place).padding = st.padding
         /\ At(st, place).nonce = st.nonce /\ At(st, place).backlog = st.backlog
         /\ At(st, place).silence = st.silence
  BY DEF At, Streams

\* StopSync() changes the interval only.
LEMMA StopSyncFields ==
  ASSUME NEW st \in Streams
  PROVE  /\ StopSync(st) \in Streams
         /\ StopSync(st).at = st.at
         /\ StopSync(st).control = st.control /\ StopSync(st).data = st.data
         /\ StopSync(st).sync = FALSE
         /\ StopSync(st).seq = st.seq /\ StopSync(st).padding = st.padding
         /\ StopSync(st).nonce = st.nonce /\ StopSync(st).backlog = st.backlog
         /\ StopSync(st).silence = st.silence
  BY DEF StopSync, Streams

\* Close() keeps the place and the numbers.
LEMMA CloseFields ==
  ASSUME NEW st \in Streams
  PROVE  /\ Close(st) \in Streams
         /\ Close(st).at = st.at
         /\ Close(st).control = FALSE /\ Close(st).data = FALSE
         /\ Close(st).sync = FALSE
         /\ Close(st).seq = st.seq /\ Close(st).padding = st.padding
         /\ Close(st).nonce = st.nonce /\ Close(st).backlog = <<>>
         /\ Close(st).silence = st.silence
  <1>1. <<>> \in Seq(Packets)
    OBVIOUS
  <1> QED
    BY <1>1, StopSyncFields DEF Close, Streams

\* #storePacket() returns a backlog.
LEMMA StorePacketType ==
  ASSUME NEW backlog \in Seq(Packets), NEW p \in Packets
  PROVE  StorePacket(backlog, p) \in Seq(Packets)
  <1> DEFINE known == {i \in 1..Len(backlog) : backlog[i].seq = p.seq}
             kept  == [i \in 1..Len(backlog) |-> IF i \in known THEN p ELSE backlog[i]]
             all   == IF known = {} THEN Append(backlog, p) ELSE kept
  <1>1. kept \in Seq(Packets)
    <2>1. \A i \in 1..Len(backlog) : backlog[i] \in Packets
      OBVIOUS
    <2>2. Len(backlog) \in Nat
      OBVIOUS
    <2> QED
      BY <2>1, <2>2
  <1>2. all \in Seq(Packets)
    BY <1>1
  <1> HIDE DEF all
  <1>3. Len(all) > BacklogSize => Tail(all) \in Seq(Packets)
    BY <1>2, Sizes
  <1> QED
    BY <1>2, <1>3 DEF StorePacket, all

\* A packet takes a number and a nonce and leaves the sockets alone.
LEMMA PacketFields ==
  ASSUME NEW st \in Streams, NEW silent \in BOOLEAN
  PROVE  LET sent == Packet(st, silent)
         IN /\ sent \in Streams
            /\ sent.at = st.at /\ sent.control = st.control /\ sent.data = st.data
            /\ sent.sync = st.sync
            /\ sent.seq = NextSeq(st.seq) /\ sent.padding = st.padding
            /\ sent.nonce = st.nonce + 1
            /\ sent.backlog = StorePacket(st.backlog, [seq |-> st.seq, nonce |-> st.nonce])
            /\ sent.silence = IF silent THEN st.silence + PacketFrames ELSE 0
  <1> DEFINE p == [seq |-> st.seq, nonce |-> st.nonce]
  <1>1. p \in Packets
    BY Sizes DEF Streams, Packets
  <1>2. StorePacket(st.backlog, p) \in Seq(Packets)
    BY <1>1, StorePacketType DEF Streams
  <1>3. NextSeq(st.seq) \in 0..SeqLimit-1
    BY Sizes, ModRange DEF Streams, NextSeq
  <1> DEFINE stored == StorePacket(st.backlog, p)
             next   == NextSeq(st.seq)
             quiet  == IF silent THEN st.silence + PacketFrames ELSE 0
             sent   == [st EXCEPT !.backlog = stored, !.nonce = @ + 1, !.seq = next,
                                  !.silence = quiet]
  <1>4. quiet \in Nat
    BY Sizes DEF Streams
  <1>5. Packet(st, silent) = sent
    BY DEF Packet
  <1>7. stored \in Seq(Packets) /\ next \in 0..SeqLimit - 1
    BY <1>2, <1>3
  <1> HIDE DEF stored, next, quiet
  <1>6. /\ sent \in Streams
        /\ sent.at = st.at /\ sent.control = st.control /\ sent.data = st.data
        /\ sent.sync = st.sync /\ sent.seq = next /\ sent.padding = st.padding
        /\ sent.nonce = st.nonce + 1 /\ sent.backlog = stored /\ sent.silence = quiet
    <2>1. st.nonce + 1 \in Nat
      BY DEF Streams
    <2>2. sent \in Streams
      BY <1>4, <1>7, <2>1 DEF Streams
    <2>3. /\ sent.at = st.at /\ sent.control = st.control /\ sent.data = st.data
          /\ sent.sync = st.sync /\ sent.padding = st.padding
      BY DEF Streams
    <2>4. /\ sent.seq = next
          /\ sent.nonce = st.nonce + 1 /\ sent.backlog = stored /\ sent.silence = quiet
      BY DEF Streams
    <2> QED
      BY <2>2, <2>3, <2>4
  <1> HIDE DEF sent
  <1> QED
    BY <1>5, <1>6 DEF stored, next, quiet

-----------------------------------------------------------------------------
(* What the steps do to the streams                                         *)

Live == streams \in [Receivers -> Streams]

\* What a step can leave alone of a stream, and what it can do to one.
SameCounts(old, new) ==
    /\ new.seq = old.seq /\ new.nonce = old.nonce
    /\ new.padding = old.padding /\ new.silence = old.silence
SameOpen(old, new) == new.control = old.control /\ new.data = old.data /\ new.sync = old.sync
Silent(st) == ~st.control /\ ~st.data /\ ~st.sync

Moved(old, new, place) ==
    new.at = place /\ SameCounts(old, new) /\ new.backlog = old.backlog
Closed(old, new) ==
    new.at = old.at /\ SameCounts(old, new) /\ Silent(new) /\ new.backlog = <<>>
Counted(old, new, silent) ==
    /\ new.at = old.at
    /\ new.seq = NextSeq(old.seq) /\ new.nonce = old.nonce + 1
    /\ new.backlog = StorePacket(old.backlog, [seq |-> old.seq, nonce |-> old.nonce])
    /\ new.silence = IF silent THEN old.silence + PacketFrames ELSE 0

\* setup() of every target has begun.
LEMMA StartEffect ==
  ASSUME Live, Start
  PROVE  /\ Live'
         /\ \A r \in Receivers \ targets : streams'[r] = streams[r]
         /\ \A r \in targets \cap Receivers :
              /\ Moved(streams[r], streams'[r], "setup")
              /\ streams'[r].control /\ streams'[r].data = streams[r].data
              /\ streams'[r].sync = streams[r].sync
  <1> DEFINE Set(st) == [At(st, "setup") EXCEPT !.control = TRUE]
  <1>1. streams' = [r \in Receivers |-> IF r \in targets THEN Set(streams[r]) ELSE streams[r]]
    BY DEF Start, Each
  <1>2. ASSUME NEW st \in Streams
        PROVE  /\ Set(st) \in Streams /\ Moved(st, Set(st), "setup")
               /\ Set(st).control /\ Set(st).data = st.data /\ Set(st).sync = st.sync
    BY DEF At, Streams, Places, Moved, SameCounts
  <1> HIDE DEF Set
  <1> QED
    BY <1>1, <1>2 DEF Live

\* Every target is closed.
LEMMA ClosingEffect ==
  ASSUME Live, CloseTargets
  PROVE  /\ Live'
         /\ \A r \in Receivers \ targets : streams'[r] = streams[r]
         /\ \A r \in targets \cap Receivers : Closed(streams[r], streams'[r])
  <1>1. streams' = [r \in Receivers |-> IF r \in targets THEN Close(streams[r]) ELSE streams[r]]
    BY DEF CloseTargets, Each
  <1>2. ASSUME NEW st \in Streams PROVE Close(st) \in Streams /\ Closed(st, Close(st))
    BY CloseFields DEF Closed, SameCounts, Silent
  <1> QED
    BY <1>1, <1>2 DEF Live

\* One stream gets on, or fails.
LEMMA PlaceEffect ==
  ASSUME Live, NEW r \in Receivers, NEW place \in Places,
         streams' = [streams EXCEPT ![r].at = place]
  PROVE  /\ Live'
         /\ \A q \in Receivers \ {r} : streams'[q] = streams[q]
         /\ Moved(streams[r], streams'[r], place) /\ SameOpen(streams[r], streams'[r])
  <1>1. streams' = [streams EXCEPT ![r] = At(streams[r], place)]
    BY DEF At, Live
  <1>2. /\ At(streams[r], place) \in Streams
        /\ Moved(streams[r], At(streams[r], place), place)
        /\ SameOpen(streams[r], At(streams[r], place))
    BY AtFields DEF Moved, SameCounts, SameOpen, Live
  <1> QED
    BY <1>1, <1>2 DEF Live

\* prepare() of every target has begun: each has its data socket.
LEMMA PrepareEffect ==
  ASSUME Live, Prepare
  PROVE  /\ Live'
         /\ \A r \in Receivers \ targets : streams'[r] = streams[r]
         /\ \A r \in targets \cap Receivers :
              /\ Moved(streams[r], streams'[r], "connect")
              /\ streams'[r].data /\ streams'[r].control = streams[r].control
              /\ streams'[r].sync = streams[r].sync
  <1> DEFINE Set(st) == [At(st, "connect") EXCEPT !.data = TRUE]
  <1>1. streams' = [r \in Receivers |-> IF r \in targets THEN Set(streams[r]) ELSE streams[r]]
    BY DEF Prepare, Each
  <1>2. ASSUME NEW st \in Streams
        PROVE  /\ Set(st) \in Streams /\ Moved(st, Set(st), "connect")
               /\ Set(st).data /\ Set(st).control = st.control /\ Set(st).sync = st.sync
    BY DEF At, Streams, Places, Moved, SameCounts
  <1> HIDE DEF Set
  <1> QED
    BY <1>1, <1>2 DEF Live

\* FLUSH was answered: the interval runs and the backlog is empty.
LEMMA FlushedEffect ==
  ASSUME Live, NEW r \in Receivers, Flushed(r)
  PROVE  /\ Live'
         /\ \A q \in Receivers \ {r} : streams'[q] = streams[q]
         /\ streams'[r].at = "prepared" /\ SameCounts(streams[r], streams'[r])
         /\ streams'[r].sync /\ streams'[r].control = streams[r].control
         /\ streams'[r].data = streams[r].data /\ streams'[r].backlog = <<>>
  <1> DEFINE Set(st) == [At(st, "prepared") EXCEPT !.sync = TRUE, !.backlog = <<>>]
  <1>1. streams' = [streams EXCEPT ![r] = Set(streams[r])]
    BY DEF Flushed
  <1>2. ASSUME NEW st \in Streams
        PROVE  /\ Set(st) \in Streams /\ Set(st).at = "prepared" /\ SameCounts(st, Set(st))
               /\ Set(st).sync /\ Set(st).control = st.control /\ Set(st).data = st.data
               /\ Set(st).backlog = <<>>
    <2>1. <<>> \in Seq(Packets)
      OBVIOUS
    <2> QED
      BY <2>1 DEF At, Streams, Places, SameCounts
  <1> HIDE DEF Set
  <1> QED
    BY <1>1, <1>2 DEF Live

LEMMA PadEffect ==
  ASSUME Live, NEW r \in Receivers, Pad(r)
  PROVE  /\ Live'
         /\ \A q \in Receivers \ {r} : streams'[q] = streams[q]
         /\ Counted(streams[r], streams'[r], TRUE) /\ SameOpen(streams[r], streams'[r])
         /\ streams'[r].padding = streams[r].padding + PacketFrames
  <1> DEFINE sent == Packet(streams[r], TRUE)
             new  == [sent EXCEPT !.padding = @ + PacketFrames]
  <1>1. streams' = [streams EXCEPT ![r] = new]
    BY DEF Pad, SilentPacket
  <1>2. /\ sent \in Streams /\ sent.padding = streams[r].padding
        /\ Counted(streams[r], sent, TRUE) /\ SameOpen(streams[r], sent)
    BY PacketFields DEF Live, Counted, SameOpen
  <1> HIDE DEF sent
  <1>3. new \in Streams
    <2>1. sent \in Streams /\ sent.padding + PacketFrames \in Nat
      BY <1>2, Sizes DEF Streams
    <2> QED
      BY <2>1 DEF Streams
  <1>4. /\ new.at = sent.at /\ SameOpen(sent, new) /\ new.seq = sent.seq
        /\ new.nonce = sent.nonce /\ new.backlog = sent.backlog
        /\ new.silence = sent.silence /\ new.padding = streams[r].padding + PacketFrames
    BY <1>2 DEF Streams, SameOpen
  <1> HIDE DEF new
  <1> QED
    BY <1>1, <1>2, <1>3, <1>4 DEF Live, Counted, SameOpen

LEMMA TeardownStream ==
  ASSUME NEW st \in Streams
  PROVE  LET new == At(StopSync(st), "teardown")
         IN /\ new \in Streams /\ Moved(st, new, "teardown")
            /\ ~new.sync /\ new.control = st.control /\ new.data = st.data
  <1> DEFINE quiet == StopSync(st)
             new   == At(quiet, "teardown")
  <1>1. quiet \in Streams /\ "teardown" \in Places
    BY StopSyncFields DEF Places
  <1>2. /\ quiet.control = st.control /\ quiet.data = st.data /\ quiet.sync = FALSE
        /\ SameCounts(st, quiet) /\ quiet.backlog = st.backlog
    BY StopSyncFields DEF SameCounts
  <1> HIDE DEF quiet
  <1>3. /\ new \in Streams /\ Moved(quiet, new, "teardown") /\ SameOpen(quiet, new)
    BY <1>1, AtFields DEF Moved, SameCounts, SameOpen
  <1> HIDE DEF new
  <1> QED
    BY <1>2, <1>3 DEF Moved, SameCounts, SameOpen, new, quiet

\* One stream goes on to TEARDOWN.
LEMMA FinishPaddingEffect ==
  ASSUME Live, NEW r \in Receivers, FinishPadding(r)
  PROVE  /\ Live'
         /\ \A q \in Receivers \ {r} : streams'[q] = streams[q]
         /\ Moved(streams[r], streams'[r], "teardown")
         /\ ~streams'[r].sync /\ streams'[r].control = streams[r].control
         /\ streams'[r].data = streams[r].data
  <1>1. streams[r] \in Streams
    BY DEF Live
  <1>2. streams' = [streams EXCEPT ![r] = At(StopSync(streams[r]), "teardown")]
    BY DEF FinishPadding
  <1> QED
    BY <1>1, <1>2, TeardownStream DEF Live

\* The TEARDOWN of one stream was answered.
LEMMA TornDownEffect ==
  ASSUME Live, NEW r \in Receivers, TornDown(r)
  PROVE  /\ Live'
         /\ \A q \in Receivers \ {r} : streams'[q] = streams[q]
         /\ streams'[r].at = "finished" /\ SameCounts(streams[r], streams'[r])
         /\ Silent(streams'[r]) /\ streams'[r].backlog = <<>>
  <1> DEFINE closed == Close(streams[r])
             new    == At(closed, "finished")
  <1>1. streams' = [streams EXCEPT ![r] = new]
    BY DEF TornDown
  <1>2. closed \in Streams /\ Closed(streams[r], closed)
    BY CloseFields DEF Live, Closed, SameCounts, Silent
  <1> HIDE DEF closed
  <1>3. /\ new \in Streams /\ Moved(closed, new, "finished") /\ SameOpen(closed, new)
    BY <1>2, AtFields DEF Places, Moved, SameCounts, SameOpen
  <1> HIDE DEF new
  <1> QED
    BY <1>1, <1>2, <1>3 DEF Live, Closed, Moved, SameCounts, SameOpen, Silent

\* The end of one stream failed; the targets are closed if the caller still waits.
LEMMA FinishFailsEffect ==
  ASSUME Live, NEW r \in Receivers, FinishFails(r)
  PROVE  /\ Live'
         /\ streams'[r].at = "failed"
         /\ \A q \in Receivers \ {r} : streams'[q].at = streams[q].at
         /\ \A q \in Receivers :
              /\ SameCounts(streams[q], streams'[q])
              /\ IF phase = "finish" /\ q \in targets
                 THEN Silent(streams'[q]) /\ streams'[q].backlog = <<>>
                 ELSE SameOpen(streams[q], streams'[q]) /\ streams'[q].backlog = streams[q].backlog
  <1> DEFINE failed == [streams EXCEPT ![r].at = "failed"]
  <1>1. /\ failed \in [Receivers -> Streams]
        /\ failed[r].at = "failed"
        /\ \A q \in Receivers \ {r} : failed[q] = streams[q]
        /\ \A q \in Receivers : /\ SameCounts(streams[q], failed[q])
                                /\ SameOpen(streams[q], failed[q])
                                /\ failed[q].backlog = streams[q].backlog
    <2>1. failed = [streams EXCEPT ![r] = At(streams[r], "failed")]
      BY DEF At, Live
    <2>2. At(streams[r], "failed") \in Streams
      BY AtFields DEF Live, Places
    <2> HIDE DEF failed
    <2>3. failed[r] = At(streams[r], "failed") /\ \A q \in Receivers \ {r} : failed[q] = streams[q]
      BY <2>1 DEF Live
    <2>4. failed \in [Receivers -> Streams]
      BY <2>1, <2>2 DEF Live
    <2>5. /\ SameCounts(streams[r], failed[r]) /\ SameOpen(streams[r], failed[r])
          /\ failed[r].backlog = streams[r].backlog /\ failed[r].at = "failed"
      BY <2>3, AtFields DEF Live, Places, SameCounts, SameOpen
    <2> QED
      BY <2>3, <2>4, <2>5 DEF SameCounts, SameOpen
  <1>2. streams' = IF phase = "finish"
                   THEN [q \in Receivers |-> IF q \in targets THEN Close(failed[q]) ELSE failed[q]]
                   ELSE failed
    BY DEF FinishFails
  <1> HIDE DEF failed
  <1>3. \A q \in Receivers : /\ Close(failed[q]) \in Streams
                             /\ Closed(failed[q], Close(failed[q]))
    BY <1>1, CloseFields DEF Closed, SameCounts, Silent
  <1> QED
    BY <1>1, <1>2, <1>3 DEF Live, Closed, SameCounts, SameOpen, Silent

\* stream() sends a packet, and closes the stream that has no socket for it.
LEMMA SendPacketEffect ==
  ASSUME Live, SendPacket
  PROVE  /\ Live'
         /\ \A q \in Receivers \ {One} : streams'[q] = streams[q]
         /\ streams[One].data =>
              /\ Counted(streams[One], streams'[One], frames = <<>>)
              /\ SameOpen(streams[One], streams'[One])
         /\ ~streams[One].data =>
              /\ streams'[One].at = streams[One].at
              /\ streams'[One].seq = NextSeq(streams[One].seq)
              /\ streams'[One].nonce = streams[One].nonce + 1
              /\ streams'[One].silence = IF frames = <<>> THEN streams[One].silence + PacketFrames ELSE 0
              /\ Silent(streams'[One]) /\ streams'[One].backlog = <<>>
         /\ streams'[One].padding = streams[One].padding
                                    + IF frames = <<>> THEN PacketFrames ELSE 0
  <1> DEFINE st   == streams[One]
             sent == Packet(st, frames = <<>>)
             pad  == IF frames = <<>> THEN sent.padding + PacketFrames ELSE sent.padding
             new  == [sent EXCEPT !.padding = pad]
  <1>0. One \in Receivers /\ st \in Streams /\ (frames = <<>>) \in BOOLEAN
    BY ReceiversAssumption DEF Live
  <1>1. AudioOrSilence(st) = new
    BY DEF AudioOrSilence
  <1>2. /\ sent \in Streams /\ sent.padding = st.padding
        /\ Counted(st, sent, frames = <<>>) /\ SameOpen(st, sent)
    BY <1>0, PacketFields DEF Counted, SameOpen
  <1>3. pad \in Nat /\ pad = st.padding + IF frames = <<>> THEN PacketFrames ELSE 0
    BY <1>0, <1>2, Sizes DEF Streams
  <1> HIDE DEF sent, pad
  <1>4. new \in Streams
    BY <1>2, <1>3 DEF Streams
  <1>5. /\ new.at = sent.at /\ SameOpen(sent, new) /\ new.seq = sent.seq
        /\ new.nonce = sent.nonce /\ new.backlog = sent.backlog
        /\ new.silence = sent.silence /\ new.padding = pad
    BY <1>2 DEF Streams, SameOpen
  <1> HIDE DEF new, st
  <1>6. Close(new) \in Streams /\ Closed(new, Close(new))
    BY <1>4, CloseFields DEF Closed, SameCounts, Silent
  <1>7. streams' = [r \in Receivers |-> IF r \in {One}
                                        THEN IF st.data THEN new ELSE Close(new)
                                        ELSE streams[r]]
    BY <1>1 DEF SendPacket, Each, st
  <1>8. Live' /\ (\A q \in Receivers \ {One} : streams'[q] = streams[q])
    BY <1>4, <1>6, <1>7 DEF Live
  <1>9. streams'[One] = IF st.data THEN new ELSE Close(new)
    BY <1>0, <1>7
  <1>10. st.data => streams'[One] = new
    BY <1>9
  <1>11. ~st.data => streams'[One] = Close(new)
    BY <1>9
  <1>12. streams'[One].padding = pad
    BY <1>5, <1>6, <1>10, <1>11 DEF Closed, SameCounts
  <1>13. st.data => Counted(st, streams'[One], frames = <<>>) /\ SameOpen(st, streams'[One])
    BY <1>2, <1>5, <1>10 DEF Counted, SameOpen
  <1>14. ~st.data => /\ streams'[One].at = st.at
                     /\ streams'[One].seq = NextSeq(st.seq)
                     /\ streams'[One].nonce = st.nonce + 1
                     /\ streams'[One].silence = IF frames = <<>> THEN st.silence + PacketFrames ELSE 0
                     /\ Silent(streams'[One]) /\ streams'[One].backlog = <<>>
    BY <1>2, <1>5, <1>6, <1>11 DEF Counted, Closed, SameCounts
  <1> QED
    BY <1>3, <1>8, <1>12, <1>13, <1>14 DEF st

\* The multiplexer sends a packet to every target.
LEMMA SendToAllEffect ==
  ASSUME Live, SendToAll
  PROVE  /\ Live'
         /\ \A r \in Receivers \ targets : streams'[r] = streams[r]
         /\ \A r \in targets \cap Receivers :
              /\ Counted(streams[r], streams'[r], FALSE) /\ SameOpen(streams[r], streams'[r])
              /\ streams'[r].padding = streams[r].padding
  <1>1. streams' = [r \in Receivers |-> IF r \in targets THEN Packet(streams[r], FALSE) ELSE streams[r]]
    BY DEF SendToAll, Each
  <1>2. ASSUME NEW st \in Streams
        PROVE  /\ Packet(st, FALSE) \in Streams /\ Counted(st, Packet(st, FALSE), FALSE)
               /\ SameOpen(st, Packet(st, FALSE)) /\ Packet(st, FALSE).padding = st.padding
    BY PacketFields DEF Counted, SameOpen
  <1> QED
    BY <1>1, <1>2 DEF Live

\* stream() has padded and goes on to TEARDOWN.
LEMMA EndOfStreamEffect ==
  ASSUME Live, EndOfStream
  PROVE  /\ Live'
         /\ \A q \in Receivers \ {One} : streams'[q] = streams[q]
         /\ Moved(streams[One], streams'[One], "teardown")
         /\ ~streams'[One].sync /\ streams'[One].control = streams[One].control
         /\ streams'[One].data = streams[One].data
  <1>1. streams' = [r \in Receivers |-> IF r \in {One} THEN At(StopSync(streams[r]), "teardown")
                                        ELSE streams[r]]
    BY DEF EndOfStream, Each
  <1>2. ASSUME NEW st \in Streams
        PROVE  LET new == At(StopSync(st), "teardown")
               IN /\ new \in Streams /\ Moved(st, new, "teardown")
                  /\ ~new.sync /\ new.control = st.control /\ new.data = st.data
    BY TeardownStream
  <1> QED
    BY <1>1, <1>2, ReceiversAssumption DEF Live

\* The multiplexer has every target pad.
LEMMA EndOfSourceEffect ==
  ASSUME Live, EndOfSource
  PROVE  /\ Live'
         /\ \A r \in Receivers \ targets : streams'[r] = streams[r]
         /\ \A r \in targets \cap Receivers :
              Moved(streams[r], streams'[r], "padding") /\ SameOpen(streams[r], streams'[r])
  <1>1. streams' = [r \in Receivers |-> IF r \in targets THEN At(streams[r], "padding") ELSE streams[r]]
    BY DEF EndOfSource, Each
  <1>2. ASSUME NEW st \in Streams
        PROVE  /\ At(st, "padding") \in Streams /\ Moved(st, At(st, "padding"), "padding")
               /\ SameOpen(st, At(st, "padding"))
    BY AtFields DEF Places, Moved, SameCounts, SameOpen
  <1> QED
    BY <1>1, <1>2 DEF Live

-----------------------------------------------------------------------------
(* The source: what it holds and hands out                                  *)

\* The type of the live source.
Sources == [ring : [Slots -> Nat], readPos : Slots, writePos : Slots,
            available : 0..Capacity, ended : BOOLEAN, waiting : {0, PacketFrames}]

\* The frames of s, one by one, and where the next one goes, when w were written.
Ordered(s, w) ==
    /\ \A i \in 1..s.available : s.ring[(s.readPos + i - 1) % Capacity] = w - s.available + i
    /\ s.writePos = (s.readPos + s.available) % Capacity

\* The first property of the ring, frame by frame.
LEMMA HeldOrdered ==
  ASSUME NEW s \in Sources, NEW w \in Nat
  PROVE  (Held(s) = [i \in 1..s.available |-> w - s.available + i])
           <=> \A i \in 1..s.available : s.ring[(s.readPos + i - 1) % Capacity] = w - s.available + i
  <1> DEFINE ring(i) == s.ring[(s.readPos + i - 1) % Capacity]
             newest(i) == w - s.available + i
  <1>1. Held(s) = [i \in 1..s.available |-> ring(i)]
    BY DEF Held, Frames
  <1> HIDE DEF ring, newest
  <1>2. ([i \in 1..s.available |-> ring(i)] = [i \in 1..s.available |-> newest(i)])
           <=> \A i \in 1..s.available : ring(i) = newest(i)
    <2>1. ASSUME [i \in 1..s.available |-> ring(i)] = [i \in 1..s.available |-> newest(i)],
                 NEW i \in 1..s.available
          PROVE  ring(i) = newest(i)
      <3>1. [j \in 1..s.available |-> ring(j)][i] = [j \in 1..s.available |-> newest(j)][i]
        BY <2>1
      <3> QED
        BY <3>1
    <2> QED
      BY <2>1
  <1> QED
    BY <1>1, <1>2 DEF ring, newest

\* A new source holds nothing, in order.
LEMMA NewSourceFits == NewSource \in Sources /\ Ordered(NewSource, 0)
  <1>1. 0 \in Slots /\ 0 \in 0..Capacity /\ [i \in Slots |-> 0] \in [Slots -> Nat]
    BY Sizes DEF Slots
  <1>2. (0 + 0) % Capacity = 0
    <2>1. 0 \in 0..Capacity-1 /\ 0 + 0 = 0 + Capacity * 0
      BY Sizes
    <2> QED
      BY <2>1, Sizes, ModUnique
  <1> QED
    BY <1>1, <1>2 DEF NewSource, Sources, Ordered

\* #read() moves the read position and takes the frames off the count.
LEMMA AdvanceFields ==
  ASSUME NEW s \in Sources, NEW n \in 0..s.available
  PROVE  /\ Advance(s, n) \in Sources
         /\ Advance(s, n).ring = s.ring /\ Advance(s, n).writePos = s.writePos
         /\ Advance(s, n).readPos = (s.readPos + n) % Capacity
         /\ Advance(s, n).available = s.available - n
         /\ Advance(s, n).ended = s.ended /\ Advance(s, n).waiting = 0
  <1> DEFINE pos == (s.readPos + n) % Capacity
             len == s.available - n
  <1>1. pos \in Slots
    BY Sizes, ModRange DEF Sources, Slots
  <1>2. len \in 0..Capacity
    BY Sizes DEF Sources
  <1>3. Advance(s, n) = [s EXCEPT !.readPos = pos, !.available = len, !.waiting = 0]
    BY DEF Advance
  <1> HIDE DEF pos, len
  <1>4. Advance(s, n) \in Sources
    BY <1>1, <1>2, <1>3 DEF Sources
  <1>5. /\ Advance(s, n).ring = s.ring /\ Advance(s, n).writePos = s.writePos
        /\ Advance(s, n).readPos = pos
        /\ Advance(s, n).available = len
        /\ Advance(s, n).ended = s.ended /\ Advance(s, n).waiting = 0
    BY <1>3 DEF Sources
  <1> QED
    BY <1>4, <1>5 DEF pos, len

\* #read() leaves the rest in order.
LEMMA AdvanceOrdered ==
  ASSUME NEW s \in Sources, NEW n \in 0..s.available, NEW w \in Nat, Ordered(s, w)
  PROVE  Ordered(Advance(s, n), w)
  <1> DEFINE t == Advance(s, n)
  <1>0. /\ s.available \in Nat /\ s.readPos \in Int /\ n \in Nat /\ n <= s.available
        /\ Capacity \in Nat /\ Capacity > 0
    BY Sizes DEF Sources, Slots
  <1>1. /\ t.ring = s.ring /\ t.writePos = s.writePos
        /\ t.readPos = (s.readPos + n) % Capacity
        /\ t.available = s.available - n
    BY AdvanceFields
  <1> HIDE DEF t
  <1>2. ASSUME NEW k \in Int PROVE (t.readPos + k) % Capacity = (s.readPos + n + k) % Capacity
    <2>1. s.readPos + n \in Int
      BY <1>0
    <2> QED
      BY <1>0, <1>1, <2>1, ModAdd
  <1>3. t.writePos = (t.readPos + t.available) % Capacity
    <2>1. t.available \in Int /\ s.readPos + n + t.available = s.readPos + s.available
      BY <1>0, <1>1
    <2>2. (t.readPos + t.available) % Capacity = (s.readPos + n + t.available) % Capacity
      BY <1>2, <2>1
    <2> QED
      BY <1>1, <2>1, <2>2 DEF Ordered
  <1>4. ASSUME NEW i \in 1..t.available
        PROVE  t.ring[(t.readPos + i - 1) % Capacity] = w - t.available + i
    <2>1. /\ n + i \in 1..s.available /\ i - 1 \in Int
          /\ s.readPos + n + (i - 1) = s.readPos + (n + i) - 1
          /\ t.readPos + i - 1 = t.readPos + (i - 1)
      BY <1>0, <1>1, ModRange
    <2>2. (t.readPos + (i - 1)) % Capacity = (s.readPos + n + (i - 1)) % Capacity
      BY <1>2, <2>1
    <2>3. s.ring[(s.readPos + (n + i) - 1) % Capacity] = w - s.available + (n + i)
      BY <2>1 DEF Ordered
    <2>4. w - s.available + (n + i) = w - t.available + i
      BY <1>0, <1>1
    <2> QED
      BY <1>1, <2>1, <2>2, <2>3, <2>4
  <1> QED
    BY <1>3, <1>4 DEF Ordered, t

\* What write() keeps of n frames and pushes out of the ring.
Kept(n)    == IF n < Capacity THEN n ELSE Capacity
Pushed(s, n) == IF Kept(n) > Capacity - s.available THEN Kept(n) - (Capacity - s.available) ELSE 0
Numbers(w, n) == [i \in 1..n |-> w + i]

\* What write() stores, and where.
LEMMA StoreFields ==
  ASSUME NEW s \in Sources, NEW w \in Nat, NEW n \in Nat
  PROVE  LET t == Store(s, Numbers(w, n))
         IN /\ t \in Sources
            /\ t.ended = s.ended /\ t.waiting = s.waiting
            /\ t.readPos = (s.readPos + Pushed(s, n)) % Capacity
            /\ t.writePos = (s.writePos + Kept(n)) % Capacity
            /\ t.available = s.available - Pushed(s, n) + Kept(n)
            /\ \A j \in Slots : t.ring[j] = IF (j - s.writePos) % Capacity < Kept(n)
                                            THEN w + (n - Kept(n)) + ((j - s.writePos) % Capacity) + 1
                                            ELSE s.ring[j]
  <1> DEFINE data == Numbers(w, n)
             t    == Store(s, data)
             kept == Kept(n)
             drop == Pushed(s, n)
             cell(j) == IF (j - s.writePos) % Capacity < kept
                        THEN data[(n - kept) + ((j - s.writePos) % Capacity) + 1] ELSE s.ring[j]
             ring == [j \in Slots |-> cell(j)]
             rpos == (s.readPos + drop) % Capacity
             wpos == (s.writePos + kept) % Capacity
             held == s.available - drop + kept
  <1>0. /\ Capacity \in Nat /\ Capacity > 0
        /\ s.available \in 0..Capacity /\ s.readPos \in Int /\ s.writePos \in Int
    BY Sizes DEF Sources, Slots
  <1>1. Len(data) = n
    BY DEF Numbers
  <1>2. kept \in 0..Capacity /\ kept <= n /\ n - kept \in Nat
    BY <1>0 DEF Kept
  <1>3. Dropped(s, kept) = drop
    BY DEF Dropped, Pushed
  <1>4. t = [s EXCEPT !.readPos = rpos, !.available = held, !.ring = ring, !.writePos = wpos]
    BY <1>1, <1>3 DEF Store, Kept
  <1>5. drop \in 0..s.available /\ held \in 0..Capacity
    BY <1>0, <1>2 DEF Pushed
  <1>6. rpos \in Slots /\ wpos \in Slots
    BY <1>0, <1>2, <1>5, ModRange DEF Slots
  <1>7. ASSUME NEW j \in Slots
        PROVE  /\ cell(j) = IF (j - s.writePos) % Capacity < kept
                            THEN w + (n - kept) + ((j - s.writePos) % Capacity) + 1
                            ELSE s.ring[j]
               /\ cell(j) \in Nat
    <2>1. (j - s.writePos) % Capacity \in 0..Capacity-1
      BY <1>0, ModRange DEF Slots
    <2>2. s.ring[j] \in Nat
      BY DEF Sources
    <2> DEFINE b == (j - s.writePos) % Capacity
    <2> HIDE DEF b, kept
    <2>3. b < kept => (n - kept) + b + 1 \in 1..n
      BY <1>2, <2>1 DEF b
    <2>4. b < kept => data[(n - kept) + b + 1] = w + (n - kept) + b + 1
      BY <1>2, <2>1, <2>3 DEF Numbers, b
    <2> QED
      BY <1>2, <2>1, <2>2, <2>4 DEF b
  <1> HIDE DEF kept, drop, cell, rpos, wpos, held, data, t
  <1>8. ring \in [Slots -> Nat]
    BY <1>7
  <1>9. \A j \in Slots : ring[j] = cell(j)
    OBVIOUS
  <1> HIDE DEF ring
  <1>10. t \in Sources
    BY <1>4, <1>5, <1>6, <1>8 DEF Sources
  <1>11. /\ t.ended = s.ended /\ t.waiting = s.waiting
         /\ t.readPos = rpos /\ t.writePos = wpos /\ t.available = held /\ t.ring = ring
    BY <1>4 DEF Sources
  <1>12. \A j \in Slots : t.ring[j] = IF (j - s.writePos) % Capacity < kept
                                      THEN w + (n - kept) + ((j - s.writePos) % Capacity) + 1
                                      ELSE s.ring[j]
    BY <1>7, <1>9, <1>11
  <1> QED
    BY <1>10, <1>11, <1>12 DEF t, data, kept, drop, rpos, wpos, held

\* write() keeps the ring in order: it lets go of the oldest frames only.
LEMMA StoreOrdered ==
  ASSUME NEW s \in Sources, NEW w \in Nat, NEW n \in Nat, Ordered(s, w)
  PROVE  Ordered(Store(s, Numbers(w, n)), w + n)
  <1> DEFINE t    == Store(s, Numbers(w, n))
             kept == Kept(n)
             drop == Pushed(s, n)
  <1>0. /\ Capacity \in Nat /\ Capacity > 0 /\ s.available \in 0..Capacity
        /\ s.readPos \in Int /\ s.writePos \in Int
    BY Sizes DEF Sources, Slots
  <1>1. /\ kept \in 0..Capacity /\ kept <= n /\ drop \in 0..s.available
        /\ n # kept => kept = Capacity /\ drop = s.available
        /\ kept - drop <= Capacity - s.available
        /\ drop > 0 => kept - drop = Capacity - s.available
    BY <1>0 DEF Kept, Pushed
  <1>2. /\ t.readPos = (s.readPos + drop) % Capacity /\ t.writePos = (s.writePos + kept) % Capacity
        /\ t.available = s.available - drop + kept
        /\ \A j \in Slots : t.ring[j] = IF (j - s.writePos) % Capacity < kept
                                        THEN w + (n - kept) + ((j - s.writePos) % Capacity) + 1
                                        ELSE s.ring[j]
    BY StoreFields
  <1> HIDE DEF t, kept, drop
  <1>3. t.writePos = (t.readPos + t.available) % Capacity
    <2>0. t.available = s.available - drop + kept
      BY <1>2
    <2>1. t.available \in Int /\ s.readPos + drop \in Int
      BY <1>0, <1>1, <2>0
    <2>2. (((s.readPos + drop) % Capacity) + t.available) % Capacity
            = (s.readPos + drop + t.available) % Capacity
      BY <1>0, <2>1, ModAdd
    <2>3. s.readPos + drop + t.available = s.readPos + s.available + kept
      BY <1>0, <1>1, <2>0
    <2>4. s.readPos + s.available \in Int /\ kept \in Int
      BY <1>0, <1>1
    <2>5. (((s.readPos + s.available) % Capacity) + kept) % Capacity
            = (s.readPos + s.available + kept) % Capacity
      BY <1>0, <2>4, ModAdd
    <2>6. s.writePos = (s.readPos + s.available) % Capacity
      BY DEF Ordered
    <2> QED
      BY <1>2, <2>2, <2>3, <2>5, <2>6
  <1>4. ASSUME NEW i \in 1..t.available
        PROVE  t.ring[(t.readPos + i - 1) % Capacity] = (w + n) - t.available + i
    <2> DEFINE a == drop + i - 1         \* places behind the old read position
               j == (s.readPos + a) % Capacity
               e == a - s.available      \* places behind the old write position
    <2>1. a \in Nat /\ e \in Int /\ i \in Nat /\ i >= 1 /\ drop + i \in Int
      BY <1>0, <1>1, <1>2
    <2>2. (t.readPos + i - 1) % Capacity = j
      <3>1. s.readPos + drop \in Int /\ i - 1 \in Int
        BY <1>0, <1>1, <2>1
      <3>2. (((s.readPos + drop) % Capacity) + (i - 1)) % Capacity
              = (s.readPos + drop + (i - 1)) % Capacity
        BY <1>0, <3>1, ModAdd
      <3>3. /\ s.readPos + drop + (i - 1) = s.readPos + a
            /\ t.readPos \in Int
            /\ t.readPos + i - 1 = t.readPos + (i - 1)
        BY <1>0, <1>1, <1>2, <3>1, <2>1, ModRange
      <3> QED
        BY <1>2, <3>2, <3>3
    <2>3. j \in Slots /\ j \in Int
      BY <1>0, <2>1, ModRange DEF Slots
    <2>4. (j - s.writePos) % Capacity = e % Capacity
      <3>1. s.readPos + a \in Int /\ s.readPos + s.available \in Int
        BY <1>0, <2>1
      <3>2. s.writePos = (s.readPos + s.available) % Capacity
        BY DEF Ordered
      <3>3. (j - s.writePos) % Capacity = (j - (s.readPos + s.available)) % Capacity
        <4> HIDE DEF j
        <4>1. (j - ((s.readPos + s.available) % Capacity)) % Capacity
                = (j - (s.readPos + s.available)) % Capacity
          BY <1>0, <2>3, <3>1, ModSubtract
        <4> QED
          BY <3>2, <4>1
      <3>4. 0 - (s.readPos + s.available) \in Int
        BY <3>1
      <3>5. (j + (0 - (s.readPos + s.available))) % Capacity
              = ((s.readPos + a) + (0 - (s.readPos + s.available))) % Capacity
        BY <1>0, <3>1, <3>4, ModAdd
      <3>6. (s.readPos + a) + (0 - (s.readPos + s.available)) = e
        BY <1>0, <2>1
      <3> HIDE DEF j
      <3>7. j + (0 - (s.readPos + s.available)) = j - (s.readPos + s.available)
        BY <1>0, <2>3
      <3> QED
        BY <3>3, <3>5, <3>6, <3>7
    <2> HIDE DEF j
    <2>5. CASE e < 0
      <3>1. a + 1 \in 1..s.available /\ e + Capacity \in 0..Capacity-1 /\ n = kept
        BY <1>0, <1>1, <1>2, <2>1, <2>5
      <3>2. e % Capacity = e + Capacity
        <4>1. e = (e + Capacity) + Capacity * (-1) /\ -1 \in Int
          BY <1>0, <2>1
        <4> QED
          BY <1>0, <2>1, <3>1, <4>1, ModUnique
      <3>3. ~(e + Capacity < kept)
        BY <1>0, <1>1, <1>2, <2>1
      <3>4. t.ring[j] = s.ring[j]
        BY <1>2, <2>3, <2>4, <3>2, <3>3
      <3>5. s.ring[(s.readPos + (a + 1) - 1) % Capacity] = w - s.available + (a + 1)
        BY <3>1 DEF Ordered
      <3>6. s.readPos + (a + 1) - 1 = s.readPos + a
        BY <1>0, <2>1
      <3>7. w - s.available + (a + 1) = (w + n) - t.available + i
        BY <1>0, <1>1, <1>2, <2>1, <3>1
      <3> QED
        BY <2>2, <3>4, <3>5, <3>6, <3>7 DEF j
    <2>6. CASE e >= 0
      <3>1. e \in 0..Capacity-1 /\ e < kept
        BY <1>0, <1>1, <1>2, <2>1, <2>6
      <3>2. e % Capacity = e
        BY <1>0, <2>1, <3>1, ModUnique
      <3>3. t.ring[j] = w + (n - kept) + e + 1
        BY <1>2, <2>3, <2>4, <3>1, <3>2
      <3>4. w + (n - kept) + e + 1 = (w + n) - t.available + i
        BY <1>0, <1>1, <1>2, <2>1
      <3> QED
        BY <2>2, <3>3, <3>4
    <2> QED
      BY <2>1, <2>5, <2>6
  <1> QED
    BY <1>3, <1>4 DEF Ordered, t

Looping == {"read", "waiting", "got", "sending"}

\* A reader waits only for frames that are not there, and only before the end.
Waits ==
    /\ source.waiting > 0 <=> phase = "waiting"
    /\ source.waiting > 0 => source.available < source.waiting /\ ~source.ended

\* Only the loop that got frames has any, and it gets none only at the end.
Feeds ==
    /\ frames \in Seq(Nat) /\ Len(frames) <= PacketFrames
    /\ frames # <<>> => phase = "got"
    /\ phase = "got" /\ frames = <<>> => source.ended /\ source.available = 0

Supply ==
    /\ source \in Sources
    /\ written \in 0..MaxWritten
    /\ Ordered(source, written)
    /\ Waits
    /\ Feeds

\* A new source supplies.
LEMMA InitSupply == Init => Supply
  <1> SUFFICES ASSUME Init PROVE Supply
    OBVIOUS
  <1>1. source \in Sources /\ Ordered(source, written)
    BY NewSourceFits DEF Init
  <1>2. frames \in Seq(Nat) /\ Len(frames) <= PacketFrames /\ written \in 0..MaxWritten
    BY Sizes DEF Init
  <1>3. source.waiting = 0 /\ phase = "start" /\ frames = <<>>
    BY DEF Init, NewSource
  <1> QED
    BY <1>1, <1>2, <1>3 DEF Supply, Waits, Feeds

\* A reader that gets n frames of an ordered source leaves an ordered source.
LEMMA ResolveEffect ==
  ASSUME NEW s \in Sources, NEW w \in Nat, Ordered(s, w), NEW n \in 0..s.available,
         n <= PacketFrames, Resolve(s, n)
  PROVE  /\ source' \in Sources /\ Ordered(source', w)
         /\ source'.waiting = 0 /\ source'.ended = s.ended
         /\ source'.available = s.available - n
         /\ frames' \in Seq(Nat) /\ Len(frames') = n
         /\ phase' = "got"
  <1>0. n \in Nat /\ Capacity \in Nat /\ Capacity > 0 /\ s.readPos \in Int
    BY Sizes DEF Sources, Slots
  <1>1. ASSUME NEW i \in 1..n PROVE s.ring[(s.readPos + i - 1) % Capacity] \in Nat
    <2>1. s.readPos + i - 1 \in Int
      BY <1>0
    <2>2. (s.readPos + i - 1) % Capacity \in Slots
      BY <1>0, <2>1, ModRange DEF Slots
    <2> QED
      BY <2>2 DEF Sources
  <1> DEFINE cell(i) == s.ring[(s.readPos + i - 1) % Capacity]
  <1>2. frames' = [i \in 1..n |-> cell(i)]
    BY DEF Resolve, Frames
  <1> HIDE DEF cell
  <1>3. \A i \in 1..n : cell(i) \in Nat
    BY <1>1 DEF cell
  <1>4. frames' \in Seq(Nat) /\ Len(frames') = n
    BY <1>0, <1>2, <1>3
  <1> QED
    BY <1>4, AdvanceFields, AdvanceOrdered DEF Resolve

\* What the producer and the reader do to the source.
Fed ==
    /\ Supply'
    /\ UNCHANGED <<audio, streams, past>>
    /\ phase' = phase \/ (phase \in Looping /\ phase' \in Looping)
    /\ source.ended /\ source.available = 0 =>
          source'.ended /\ source'.available = 0 /\ frames' \in {frames, <<>>}

\* A reader gets nothing only at the end, however it gets there.
LEMMA FedByResolve ==
  ASSUME Supply, NEW s \in Sources, NEW n \in 0..s.available,
         written' \in 0..MaxWritten, Ordered(s, written'),
         n <= PacketFrames, n = 0 => s.ended /\ s.available = 0,
         source.ended /\ source.available = 0 => s.ended /\ s.available = 0,
         phase \in Looping, UNCHANGED <<audio, streams, past>>, Resolve(s, n)
  PROVE  Fed
  <1>0. written' \in Nat /\ s.available \in Nat /\ n \in Nat
    BY Sizes DEF Sources
  <1>1. /\ source' \in Sources /\ Ordered(source', written')
        /\ source'.waiting = 0 /\ source'.ended = s.ended
        /\ source'.available = s.available - n
        /\ frames' \in Seq(Nat) /\ Len(frames') = n
        /\ phase' = "got"
    BY <1>0, ResolveEffect
  <1>2. frames' = <<>> <=> n = 0
    BY <1>1, EmptySeq
  <1>3. Waits'
    BY <1>1 DEF Waits
  <1>4. Feeds'
    BY <1>0, <1>1, <1>2 DEF Feeds
  <1>5. source.ended /\ source.available = 0 =>
            source'.ended /\ source'.available = 0 /\ frames' = <<>>
    BY <1>0, <1>1, <1>2
  <1> QED
    BY <1>1, <1>3, <1>4, <1>5 DEF Fed, Supply, Looping

\* readFrames() feeds the loop or has it wait.
LEMMA ReadFed == Supply /\ ReadFrames => Fed
  <1> SUFFICES ASSUME Supply, ReadFrames PROVE Fed
    OBVIOUS
  <1>0. /\ phase = "read" /\ UNCHANGED <<audio, streams, past>> /\ UNCHANGED written
        /\ source.available \in 0..Capacity /\ PacketFrames \in Nat /\ PacketFrames > 0
        /\ source \in Sources /\ written \in 0..MaxWritten /\ Ordered(source, written)
    BY Sizes DEF ReadFrames, Supply, Sources
  <1>1. CASE source.available >= PacketFrames /\ Resolve(source, PacketFrames)
    <2>1. PacketFrames \in 0..source.available
      BY <1>0, <1>1
    <2> QED
      BY <1>0, <1>1, <2>1, FedByResolve DEF Looping
  <1>2. CASE source.available < PacketFrames /\ source.ended /\ Resolve(source, source.available)
    <2>1. source.available \in 0..source.available /\ source.available <= PacketFrames
      BY <1>0, <1>2
    <2> QED
      BY <1>0, <1>2, <2>1, FedByResolve DEF Looping
  <1>3. CASE /\ source.available < PacketFrames /\ ~source.ended
             /\ source' = [source EXCEPT !.waiting = PacketFrames]
             /\ phase' = "waiting"
             /\ UNCHANGED frames
    <2>1. /\ source' \in Sources /\ source'.waiting = PacketFrames
          /\ source'.available = source.available /\ source'.ended = source.ended
          /\ source'.ring = source.ring /\ source'.readPos = source.readPos
          /\ source'.writePos = source.writePos
      BY <1>0, <1>3 DEF Sources
    <2>2. Waits'
      BY <1>0, <1>3, <2>1 DEF Waits
    <2>3. frames = <<>>
      BY <1>0 DEF Supply, Feeds
    <2>4. Feeds'
      BY <1>3, <2>3 DEF Feeds, Supply
    <2>5. Ordered(source', written')
      BY <1>0, <2>1 DEF Ordered
    <2> QED
      BY <1>0, <1>3, <2>1, <2>2, <2>4, <2>5 DEF Fed, Supply, Looping
  <1> QED
    BY <1>1, <1>2, <1>3 DEF ReadFrames

\* write() stores, and feeds a reader it has enough for.
LEMMA WriteFed == ASSUME Supply, NEW n \in Nat \ {0}, Write(n) PROVE Fed
  <1> DEFINE s == Store(source, Numbers(written, n))
  <1>0. /\ ~source.ended /\ written' = written + n /\ written' \in 0..MaxWritten
        /\ written \in Nat /\ source \in Sources
        /\ UNCHANGED <<audio, streams, past>>
    BY Sizes DEF Write, Supply
  <1>1. /\ s \in Sources /\ s.ended = source.ended /\ s.waiting = source.waiting
        /\ Ordered(s, written')
    BY <1>0, StoreFields, StoreOrdered DEF Supply
  <1>2. IF s.waiting > 0 /\ s.available >= s.waiting
        THEN Resolve(s, s.waiting)
        ELSE source' = s /\ UNCHANGED <<frames, phase>>
    BY DEF Write, Numbers
  <1> HIDE DEF s
  <1>3. CASE s.waiting > 0 /\ s.available >= s.waiting
    <2>1. s.waiting = PacketFrames /\ s.waiting \in 0..s.available
      BY <1>1, <1>3, Sizes DEF Sources
    <2>2. phase = "waiting"
      BY <1>1, <1>3 DEF Supply, Waits
    <2> QED
      BY <1>0, <1>1, <1>2, <1>3, <2>1, <2>2, FedByResolve, Sizes DEF Looping
  <1>4. CASE ~(s.waiting > 0 /\ s.available >= s.waiting)
    <2>1. source' = s /\ UNCHANGED <<frames, phase>>
      BY <1>2, <1>4
    <2>2. s.available \in Nat /\ s.waiting \in Nat
      BY <1>1, Sizes DEF Sources
    <2>3. Waits'
      BY <1>0, <1>1, <1>4, <2>1, <2>2 DEF Waits, Supply
    <2>4. Feeds'
      BY <1>0, <1>1, <2>1 DEF Feeds, Supply
    <2> QED
      BY <1>0, <1>1, <2>1, <2>3, <2>4 DEF Fed, Supply
  <1> QED
    BY <1>3, <1>4

\* end() feeds a reader what is left.
LEMMA EndFed == Supply /\ End => Fed
  <1> SUFFICES ASSUME Supply, End PROVE Fed
    OBVIOUS
  <1> DEFINE s == [source EXCEPT !.ended = TRUE]
             n == IF s.available < s.waiting THEN s.available ELSE s.waiting
  <1>0. /\ ~source.ended /\ UNCHANGED written /\ source \in Sources
        /\ written \in 0..MaxWritten /\ Ordered(source, written)
        /\ UNCHANGED <<audio, streams, past>>
    BY DEF End, Supply
  <1>1. /\ s \in Sources /\ s.ended /\ s.waiting = source.waiting
        /\ s.available = source.available /\ s.ring = source.ring
        /\ s.readPos = source.readPos /\ s.writePos = source.writePos
    BY <1>0 DEF Sources
  <1>2. IF s.waiting > 0
        THEN Resolve(s, n)
        ELSE source' = s /\ UNCHANGED <<frames, phase>>
    BY DEF End
  <1> HIDE DEF s
  <1>3. Ordered(s, written')
    BY <1>0, <1>1 DEF Ordered
  <1>4. CASE s.waiting > 0
    <2>1. s.available < s.waiting /\ phase = "waiting" /\ s.waiting = PacketFrames
      BY <1>0, <1>1, <1>4 DEF Supply, Waits, Sources
    <2>2. n = s.available /\ n \in 0..s.available /\ n <= PacketFrames
      BY <1>1, <2>1, Sizes DEF Sources
    <2> QED
      BY <1>0, <1>1, <1>2, <1>3, <1>4, <2>1, <2>2, FedByResolve DEF Looping
  <1>5. CASE ~(s.waiting > 0)
    <2>1. source' = s /\ UNCHANGED <<frames, phase>>
      BY <1>2, <1>5
    <2>2. Waits'
      BY <1>0, <1>1, <1>5, <2>1 DEF Waits, Supply
    <2>3. Feeds'
      BY <1>0, <1>1, <2>1 DEF Feeds, Supply
    <2> QED
      BY <1>0, <1>1, <1>3, <2>1, <2>2, <2>3 DEF Fed, Supply
  <1> QED
    BY <1>4, <1>5

\* Steps that leave the source alone and the reader without frames keep Supply.
LEMMA SupplyAside ==
  ASSUME Supply, UNCHANGED <<source, written>>,
         \/ UNCHANGED <<frames, phase>>
         \/ /\ phase # "waiting" /\ phase' \notin {"waiting", "got"}
            /\ frames' = <<>>
  PROVE  Supply'
  <1>1. <<>> \in Seq(Nat) /\ Len(<<>>) <= PacketFrames
    BY Sizes
  <1>2. Waits'
    BY DEF Waits, Supply
  <1>3. Feeds'
    BY <1>1 DEF Feeds, Supply
  <1> QED
    BY <1>2, <1>3 DEF Supply

-----------------------------------------------------------------------------
(* Where the caller and the streams are                                     *)

Phases  == Looping \union {"start", "setup", "prepare", "finish", "done", "failed"}
Stage   == {"setup", "ready", "connect", "flush"}

\* Where a stream can be in each phase of the caller.
Fits(p, at) ==
    /\ p = "start"   => at = "idle"
    /\ p = "setup"   => at \in {"idle", "setup", "ready"}
    /\ p = "prepare" => at \in {"idle", "connect", "flush", "prepared"}
    /\ p \in Looping => at \in {"idle", "prepared"}
    /\ p = "finish"  => at \in {"idle", "prepared", "padding", "teardown", "finished"}
    /\ p = "done"    => at \in {"idle", "prepared", "finished"}

\* The targets are the streams that were set up, until clear() empties them.
Targets ==
    /\ targets \subseteq Receivers
    /\ caller = "stream" => targets = {One}
    /\ phase # "start" => \A r \in targets : streams[r].at # "idle"
    /\ targets # {} => \A r \in Receivers \ targets : streams[r].at = "idle"

\* The loop begins once, after every stream was prepared.
BegunIsPast ==
    /\ began => phase \notin {"start", "setup", "prepare"}
    /\ phase \in Looping \union {"finish", "done"} => began
    /\ began => \A r \in Receivers : streams[r].at \notin Stage

Control ==
    /\ Live
    /\ phase \in Phases
    /\ Targets
    /\ BegunIsPast
    /\ \A r \in Receivers : Fits(phase, streams[r].at)

\* Everyone is at the start.
LEMMA InitControl == Init => Control
  <1> SUFFICES ASSUME Init PROVE Control
    OBVIOUS
  <1>1. Live /\ \A r \in Receivers : streams[r].at = "idle"
    BY StartStream DEF Init, Live, NewStream
  <1>2. /\ phase = "start" /\ ~began /\ targets \subseteq Receivers
        /\ caller = "stream" => targets = {One}
    BY ReceiversAssumption DEF Init
  <1> QED
    BY <1>1, <1>2 DEF Control, Phases, Looping, Targets, BegunIsPast, Fits

\* One stream gets on within its phase.
LEMMA OneMoves ==
  ASSUME Control, NEW r \in Receivers, streams[r].at # "idle", Live',
         \A q \in Receivers \ {r} : streams'[q].at = streams[q].at,
         streams'[r].at # "idle",
         phase' = phase, Fits(phase, streams'[r].at),
         streams[r].at \in Stage \/ streams'[r].at \notin Stage,
         UNCHANGED <<audio, past>>
  PROVE  Control'
  BY DEF Control, Targets, BegunIsPast, audio, past

\* One stream fails, and the caller with it.
LEMMA OneFails ==
  ASSUME Control, NEW r \in Receivers, streams[r].at # "idle", Live',
         \A q \in Receivers \ {r} : streams'[q].at = streams[q].at,
         streams'[r].at = "failed", phase' = "failed",
         phase # "start",
         UNCHANGED <<audio, past>>
  PROVE  Control'
  <1>1. UNCHANGED <<caller, targets, began>>
    BY DEF audio, past
  <1>2. \A q \in Receivers : streams'[q].at \in {streams[q].at, "failed"}
    OBVIOUS
  <1>3. Targets' /\ phase' \in Phases /\ \A q \in Receivers : Fits(phase', streams'[q].at)
    BY <1>1, <1>2 DEF Control, Targets, Fits, Phases, Looping
  <1>4. BegunIsPast'
    BY <1>1, <1>2 DEF Control, BegunIsPast, Looping, Stage
  <1> QED
    BY <1>3, <1>4 DEF Control

\* Nobody gets on; the caller may loop, or fail.
LEMMA NobodyMoves ==
  ASSUME Control, Live', \A q \in Receivers : streams'[q].at = streams[q].at,
         UNCHANGED <<caller, began>>,
         targets' = targets \/ (targets' = {} /\ caller # "stream"),
         \/ phase' = phase
         \/ phase \in Looping /\ phase' \in Looping
         \/ phase # "start" /\ phase' = "failed"
  PROVE  Control'
  BY DEF Control, Targets, BegunIsPast, Fits, Phases, Looping, Stage

\* Every step keeps the phase and the places in step.
LEMMA ControlStep == Control /\ Supply /\ [Next]_vars => Control'
  <1> SUFFICES ASSUME Control, Supply, [Next]_vars PROVE Control'
    OBVIOUS
  <1>0. Live
    BY DEF Control
  <1>1. CASE Start
    <2>1. /\ phase = "start" /\ phase' = "setup" /\ UNCHANGED <<audio, past>>
          /\ \A r \in targets : streams'[r].at = "setup"
          /\ \A r \in Receivers \ targets : streams'[r].at = streams[r].at
          /\ Live'
      BY <1>0, <1>1, StartEffect DEF Start, Moved, Control, Targets
    <2> QED
      BY <2>1 DEF Control, Targets, BegunIsPast, Fits, Phases, Looping, Stage, audio, past
  <1>2. CASE Prepare
    <2>1. /\ phase = "setup" /\ phase' = "prepare" /\ UNCHANGED <<audio, past>>
          /\ \A r \in targets : streams'[r].at = "connect"
          /\ \A r \in Receivers \ targets : streams'[r].at = streams[r].at
          /\ Live'
      BY <1>0, <1>2, PrepareEffect DEF Prepare, Moved, Control, Targets
    <2>2. \A r \in Receivers \ targets : streams[r].at = "idle"
      BY <1>2 DEF Prepare, Control, Targets
    <2> QED
      BY <2>1, <2>2 DEF Control, Targets, BegunIsPast, Fits, Phases, Looping, Stage, audio, past
  <1>3. CASE Begin
    <2>1. /\ phase = "prepare" /\ phase' = "read" /\ began' /\ UNCHANGED <<audio, streams>>
          /\ \A r \in Receivers : streams[r].at \in {"idle", "prepared"}
      BY <1>3 DEF Begin, AllAt
    <2> QED
      BY <2>1 DEF Control, Targets, BegunIsPast, Fits, Phases, Looping, Stage, audio, Live
  <1>4. ASSUME NEW r \in Receivers, SetupDone(r) \/ Connected(r)
        PROVE  Control'
    <2>1. PICK place \in {"ready", "flush"} :
             /\ streams' = [streams EXCEPT ![r].at = place]
             /\ (place = "ready" /\ streams[r].at = "setup")
                  \/ (place = "flush" /\ streams[r].at = "connect")
      BY <1>4 DEF SetupDone, Connected
    <2>2. phase' = phase /\ UNCHANGED <<audio, past>>
      BY <1>4 DEF SetupDone, Connected
    <2>3. place \in Places
      BY <2>1 DEF Places
    <2>4. /\ Live' /\ streams'[r].at = place
          /\ \A q \in Receivers \ {r} : streams'[q].at = streams[q].at
      BY <1>0, <2>1, <2>3, PlaceEffect DEF Moved
    <2>5. Fits(phase, place) /\ streams[r].at # "idle" /\ streams[r].at \in Stage
      BY <2>1 DEF Control, Fits, Looping, Phases, Stage
    <2> QED
      BY <2>1, <2>2, <2>4, <2>5, OneMoves
  <1>5. ASSUME NEW r \in Receivers, AwaitFails(r) PROVE Control'
    <2>1. /\ streams' = [streams EXCEPT ![r].at = "failed"] /\ "failed" \in Places
          /\ phase' = "failed" /\ streams[r].at \in Stage /\ UNCHANGED <<audio, past>>
      BY <1>5 DEF AwaitFails, Places, Stage
    <2>2. phase # "start"
      BY <2>1 DEF Control, Fits, Stage
    <2>3. /\ Live' /\ streams'[r].at = "failed"
          /\ \A q \in Receivers \ {r} : streams'[q].at = streams[q].at
      BY <1>0, <2>1, PlaceEffect DEF Moved
    <2> QED
      BY <2>1, <2>2, <2>3, OneFails DEF Stage
  <1>6. ASSUME NEW r \in Receivers, FinishFails(r) PROVE Control'
    <2>1. phase' = "failed" /\ streams[r].at \in {"padding", "teardown"} /\ UNCHANGED <<audio, past>>
      BY <1>6 DEF FinishFails
    <2>2. phase # "start"
      BY <2>1 DEF Control, Fits
    <2>3. /\ Live' /\ streams'[r].at = "failed"
          /\ \A q \in Receivers \ {r} : streams'[q].at = streams[q].at
      BY <1>0, <1>6, FinishFailsEffect
    <2> QED
      BY <2>1, <2>2, <2>3, OneFails
  <1>7. ASSUME NEW r \in Receivers, Flushed(r) PROVE Control'
    <2>1. phase' = phase /\ streams[r].at = "flush" /\ UNCHANGED <<audio, past>>
      BY <1>7 DEF Flushed
    <2>2. /\ Live' /\ streams'[r].at = "prepared"
          /\ \A q \in Receivers \ {r} : streams'[q].at = streams[q].at
      BY <1>0, <1>7, FlushedEffect
    <2>3. Fits(phase, "prepared")
      BY <2>1 DEF Control, Fits, Looping, Phases
    <2> QED
      BY <2>1, <2>2, <2>3, OneMoves DEF Stage
  <1>8. ASSUME NEW r \in Receivers, Pad(r) \/ FinishPadding(r) \/ TornDown(r)
        PROVE  Control'
    <2>1. /\ phase' = phase /\ streams[r].at \in {"padding", "teardown"}
          /\ UNCHANGED <<audio, past>>
      BY <1>8 DEF Pad, FinishPadding, TornDown
    <2>2. /\ Live' /\ \A q \in Receivers \ {r} : streams'[q].at = streams[q].at
          /\ streams'[r].at \in {"padding", "teardown", "finished"}
      BY <1>0, <1>8, PadEffect, FinishPaddingEffect, TornDownEffect
         DEF Pad, Counted, Moved
    <2>3. \A at \in {"padding", "teardown", "finished"} : phase # "done" => Fits(phase, at)
      BY <2>1 DEF Control, Fits, Looping, Phases
    <2>4. phase # "done"
      BY <2>1 DEF Control, Fits
    <2> QED
      BY <2>1, <2>2, <2>3, <2>4, OneMoves DEF Stage
  <1>9. ASSUME Fed PROVE Control'
    <2>1. UNCHANGED <<streams, caller, targets, began>>
      BY <1>9 DEF Fed, audio, past
    <2>2. phase' = phase \/ (phase \in Looping /\ phase' \in Looping)
      BY <1>9 DEF Fed
    <2>3. Live'
      BY <1>0, <2>1 DEF Live
    <2> QED
      BY <2>1, <2>2, <2>3, NobodyMoves
  <1>10. CASE SendPacket
    <2>1. /\ phase = "got" /\ phase' \in {"sending", "failed"} /\ UNCHANGED <<audio, past>>
      BY <1>10 DEF SendPacket
    <2>2. Live' /\ \A q \in Receivers : streams'[q].at = streams[q].at
      BY <1>0, <1>10, SendPacketEffect DEF Counted
    <2> QED
      BY <2>1, <2>2, NobodyMoves DEF Looping, audio, past
  <1>11. CASE SendToAll
    <2>1. /\ phase = "got" /\ phase' = "sending" /\ UNCHANGED <<audio, past>>
      BY <1>11 DEF SendToAll
    <2>2. Live' /\ \A q \in Receivers : streams'[q].at = streams[q].at
      BY <1>0, <1>11, SendToAllEffect DEF Counted
    <2> QED
      BY <2>1, <2>2, NobodyMoves DEF Looping, audio, past
  <1>12. CASE Sent \/ PrepareRefused \/ UNCHANGED vars
    <2>1. /\ UNCHANGED <<audio, past, streams>>
          /\ \/ phase' = phase
             \/ phase \in Looping /\ phase' \in Looping
             \/ phase # "start" /\ phase' = "failed"
      BY <1>12 DEF Sent, PrepareRefused, vars, Looping
    <2>2. Live'
      BY <1>0, <2>1 DEF Live
    <2> QED
      BY <2>1, <2>2, NobodyMoves DEF audio, past
  <1>13. CASE SendFails
    <2>1. phase = "sending" /\ phase' = "failed" /\ CloseTargets /\ UNCHANGED <<audio, past>>
      BY <1>13 DEF SendFails
    <2>2. Live' /\ \A q \in Receivers : streams'[q].at = streams[q].at
      BY <1>0, <2>1, ClosingEffect DEF Closed
    <2> QED
      BY <2>1, <2>2, NobodyMoves DEF audio, past
  <1>14. CASE OwnerCloses
    <2>1. /\ CloseTargets /\ UNCHANGED <<caller, phase, began>>
          /\ targets' = targets \/ (targets' = {} /\ caller # "stream")
      BY <1>14 DEF OwnerCloses
    <2>2. Live' /\ \A q \in Receivers : streams'[q].at = streams[q].at
      BY <1>0, <2>1, ClosingEffect DEF Closed
    <2> QED
      BY <2>1, <2>2, NobodyMoves
  <1>15. CASE EndOfStream
    <2>1. /\ phase = "read" /\ phase' = "finish" /\ caller = "stream" /\ UNCHANGED <<audio, past>>
      BY <1>15 DEF EndOfStream, Padded
    <2>2. /\ Live' /\ \A q \in Receivers \ {One} : streams'[q].at = streams[q].at
          /\ streams'[One].at = "teardown"
      BY <1>0, <1>15, EndOfStreamEffect DEF Moved
    <2>3. targets = {One} /\ One \in Receivers
      BY <2>1, ReceiversAssumption DEF Control, Targets
    <2> QED
      BY <2>1, <2>2, <2>3 DEF Control, Targets, BegunIsPast, Fits, Phases, Looping, Stage, audio, past
  <1>16. CASE EndOfSource
    <2>1. /\ phase = "got" /\ phase' = "finish" /\ UNCHANGED <<audio, past>>
      BY <1>16 DEF EndOfSource
    <2>2. /\ Live' /\ \A q \in Receivers \ targets : streams'[q].at = streams[q].at
          /\ \A q \in targets : streams'[q].at = "padding"
      BY <1>0, <1>16, EndOfSourceEffect DEF Moved, Control, Targets
    <2> QED
      BY <2>1, <2>2 DEF Control, Targets, BegunIsPast, Fits, Phases, Looping, Stage, audio, past
  <1>17. CASE Done
    <2>1. /\ phase = "finish" /\ phase' = "done" /\ UNCHANGED <<audio, past, streams>>
          /\ \A q \in Receivers : streams[q].at \notin {"padding", "teardown"}
      BY <1>17 DEF Done
    <2>2. Live'
      BY <1>0, <2>1 DEF Live
    <2> QED
      BY <2>1, <2>2 DEF Control, Targets, BegunIsPast, Fits, Phases, Looping, Stage, audio, past
  <1>18. ASSUME NEW n \in 1..Capacity + 1, Write(n) PROVE Control'
    BY <1>9, <1>18, WriteFed, Sizes
  <1>19. CASE ReadFrames \/ End
    BY <1>9, <1>19, ReadFed, EndFed
  <1> QED
    BY <1>1, <1>2, <1>3, <1>4, <1>5, <1>6, <1>7, <1>8, <1>10, <1>11, <1>12, <1>13, <1>14,
       <1>15, <1>16, <1>17, <1>18, <1>19
       DEF Next, Loop, OfStream

LEMMA SupplyStep == Control /\ Supply /\ [Next]_vars => Supply'
  <1> SUFFICES ASSUME Control, Supply, [Next]_vars PROVE Supply'
    OBVIOUS
  <1>0. phase # "got" => frames = <<>>
    BY DEF Supply, Feeds
  <1>1. CASE Start \/ PrepareRefused \/ Prepare \/ Begin \/ Sent \/ SendFails \/ EndOfStream \/ Done
    <2>1. /\ UNCHANGED <<source, written, frames>>
          /\ phase \in {"start", "setup", "prepare", "sending", "read", "finish"}
          /\ phase' \notin {"waiting", "got"}
      BY <1>1 DEF Start, PrepareRefused, Prepare, Begin, Sent, SendFails, EndOfStream, Done
    <2> QED
      BY <1>0, <2>1, SupplyAside
  <1>2. CASE SendPacket \/ SendToAll \/ EndOfSource
    <2>1. /\ UNCHANGED <<source, written>>
          /\ phase = "got" /\ phase' \notin {"waiting", "got"}
          /\ frames' = <<>>
      BY <1>2 DEF SendPacket, SendToAll, EndOfSource
    <2> QED
      BY <2>1, SupplyAside
  <1>3. ASSUME NEW r \in Receivers, AwaitFails(r) \/ FinishFails(r) PROVE Supply'
    <2>1. /\ UNCHANGED <<source, written, frames>> /\ phase' = "failed"
          /\ streams[r].at \in Stage \union {"padding", "teardown"}
      BY <1>3 DEF AwaitFails, FinishFails, Stage
    <2>2. phase \notin {"waiting", "got"}
      BY <2>1 DEF Control, Fits, Looping, Stage
    <2> QED
      BY <1>0, <2>1, <2>2, SupplyAside
  <1>4. ASSUME NEW r \in Receivers,
               SetupDone(r) \/ Connected(r) \/ Flushed(r) \/ Pad(r) \/ FinishPadding(r) \/ TornDown(r)
        PROVE  Supply'
    <2>1. UNCHANGED <<source, written, frames, phase>>
      BY <1>4 DEF SetupDone, Connected, Flushed, Pad, FinishPadding, TornDown
    <2> QED
      BY <2>1, SupplyAside
  <1>5. CASE OwnerCloses \/ UNCHANGED vars
    <2>1. UNCHANGED <<source, written, frames, phase>>
      BY <1>5 DEF OwnerCloses, vars
    <2> QED
      BY <2>1, SupplyAside
  <1>6. ASSUME NEW n \in 1..Capacity + 1, Write(n) PROVE Supply'
    BY <1>6, WriteFed, Sizes DEF Fed
  <1>7. CASE ReadFrames \/ End
    BY <1>7, ReadFed, EndFed DEF Fed
  <1> QED
    BY <1>1, <1>2, <1>3, <1>4, <1>5, <1>6, <1>7 DEF Next, Loop, OfStream

-----------------------------------------------------------------------------
(* The backlog                                                              *)

\* The last packets before the nonce, as many as the backlog holds.
Last(nonce)   == IF nonce < BacklogSize THEN nonce ELSE BacklogSize
Number(k)     == (FirstSeq + k) % SeqLimit
Entry(k)      == [seq |-> Number(k), nonce |-> k]
Newest(nonce) == [i \in 1..Last(nonce) |-> Entry(nonce - Last(nonce) + i - 1)]

\* The places of a stream that has sent nothing.
Before == Stage \union {"idle"}

\* The number follows from the nonce, and so does the backlog of an open stream.
Numbered(st) ==
    /\ st.seq = Number(st.nonce)
    /\ st.nonce = 0 => st.backlog = <<>>
    /\ st.at \in Before => st.nonce = 0
    /\ st.data => st.backlog = Newest(st.nonce)

\* A number fits its field.
LEMMA NumberRange == ASSUME NEW nonce \in Nat PROVE Number(nonce) \in Nat
  <1>1. SeqLimit \in Nat /\ SeqLimit > 0 /\ FirstSeq + nonce \in Int
    BY Sizes
  <1> QED
    BY <1>1, ModRange DEF Number

\* Newest() is a backlog of that many entries.
LEMMA NewestPackets ==
  ASSUME NEW nonce \in Nat
  PROVE  /\ Newest(nonce) \in Seq(Packets) /\ Len(Newest(nonce)) = Last(nonce)
         /\ \A i \in 1..Last(nonce) : Newest(nonce)[i] = Entry(nonce - Last(nonce) + i - 1)
         /\ Last(nonce) \in Nat /\ Last(nonce) <= nonce /\ Last(nonce) <= BacklogSize
  <1>1. Last(nonce) \in Nat /\ Last(nonce) <= nonce /\ Last(nonce) <= BacklogSize
    BY Sizes DEF Last
  <1>2. ASSUME NEW i \in 1..Last(nonce) PROVE Entry(nonce - Last(nonce) + i - 1) \in Packets
    <2>1. nonce - Last(nonce) + i - 1 \in Nat
      BY <1>1
    <2> DEFINE k == nonce - Last(nonce) + i - 1
    <2>2. Number(k) \in Nat
      BY <2>1, NumberRange
    <2> HIDE DEF k
    <2> QED
      BY <2>1, <2>2 DEF Entry, Packets, k
  <1> HIDE DEF Last
  <1> DEFINE cell(i) == Entry(nonce - Last(nonce) + i - 1)
  <1>3. Newest(nonce) = [i \in 1..Last(nonce) |-> cell(i)]
    BY DEF Newest
  <1>4. \A i \in 1..Last(nonce) : cell(i) \in Packets
    BY <1>2
  <1> HIDE DEF cell
  <1>5. /\ Newest(nonce) \in Seq(Packets) /\ Len(Newest(nonce)) = Last(nonce)
        /\ \A i \in 1..Last(nonce) : Newest(nonce)[i] = cell(i)
    BY <1>1, <1>3, <1>4
  <1> QED
    BY <1>1, <1>5 DEF cell

\* Nothing was sent, nothing is kept.
LEMMA NewestOfNone == Newest(0) = <<>>
  <1>1. Last(0) = 0
    BY Sizes DEF Last
  <1>2. Len(Newest(0)) = 0 /\ Newest(0) \in Seq(Packets)
    BY <1>1, NewestPackets
  <1> QED
    BY <1>2, EmptySeq

\* #storePacket() of the next packet keeps the newest, by as many as fit: the number
\* that comes round again has left the backlog before.
LEMMA StoreNewest ==
  ASSUME NEW nonce \in Nat
  PROVE  StorePacket(Newest(nonce), Entry(nonce)) = Newest(nonce + 1)
  <1> DEFINE b     == Newest(nonce)
             n     == Last(nonce)
             p     == Entry(nonce)
             known == {i \in 1..Len(b) : b[i].seq = p.seq}
             all   == Append(b, p)
  <1>1. /\ b \in Seq(Packets) /\ Len(b) = n
        /\ \A i \in 1..n : b[i] = Entry(nonce - n + i - 1)
        /\ n \in Nat /\ n <= nonce /\ n <= BacklogSize
    BY NewestPackets
  <1>2. known = {}
    <2> SUFFICES ASSUME NEW i \in 1..n, b[i].seq = p.seq PROVE FALSE
      BY <1>1
    <2> DEFINE k == nonce - n + i - 1
    <2>1. k \in Nat /\ k < nonce /\ nonce - k < SeqLimit
      BY <1>1, Sizes
    <2>2. b[i] = Entry(k)
      BY <1>1
    <2> HIDE DEF k
    <2>3. Number(k) # Number(nonce)
      <3>1. /\ FirstSeq + k \in Int /\ FirstSeq + nonce \in Int /\ FirstSeq + k < FirstSeq + nonce
            /\ (FirstSeq + nonce) - (FirstSeq + k) < SeqLimit /\ SeqLimit > 0
        BY <2>1, Sizes
      <3> QED
        BY <3>1, Sizes, ModApart DEF Number
    <2> QED
      BY <2>2, <2>3 DEF Entry
  <1>3. p \in Packets
    <2>1. Number(nonce) \in Nat
      BY NumberRange
    <2> QED
      BY <2>1 DEF Entry, Packets
  <1>4. StorePacket(b, p) = IF Len(all) > BacklogSize THEN Tail(all) ELSE all
    BY <1>2 DEF StorePacket
  <1> HIDE DEF b, n, p
  <1>5. /\ all \in Seq(Packets) /\ Len(all) = n + 1
        /\ \A i \in 1..n : all[i] = Entry(nonce - n + i - 1)
        /\ all[n + 1] = p
    BY <1>1, <1>3
  <1>6. \A i \in 1..n + 1 : all[i] = Entry(nonce - n + i - 1)
    <2>1. nonce - n + (n + 1) - 1 = nonce
      BY <1>1
    <2> QED
      BY <1>1, <1>5, <2>1 DEF p
  <1> HIDE DEF all
  <1>7. /\ Newest(nonce + 1) \in Seq(Packets)
        /\ Len(Newest(nonce + 1)) = Last(nonce + 1)
        /\ \A i \in 1..Last(nonce + 1) :
             Newest(nonce + 1)[i] = Entry(nonce + 1 - Last(nonce + 1) + i - 1)
    BY NewestPackets
  <1>8. CASE n + 1 > BacklogSize
    <2>1. n = BacklogSize /\ Last(nonce + 1) = n
      BY <1>1, <1>8, Sizes DEF Last, n
    <2>2. /\ Tail(all) \in Seq(Packets) /\ Len(Tail(all)) = n
          /\ \A i \in 1..n : Tail(all)[i] = all[i + 1]
      BY <1>1, <1>5
    <2>3. ASSUME NEW i \in 1..n PROVE Tail(all)[i] = Newest(nonce + 1)[i]
      <3>1. i + 1 \in 1..n + 1 /\ nonce - n + (i + 1) - 1 = nonce + 1 - n + i - 1
        BY <1>1
      <3>2. all[i + 1] = Entry(nonce - n + (i + 1) - 1)
        BY <1>6, <3>1
      <3> QED
        BY <1>7, <2>1, <2>2, <3>1, <3>2
    <2>4. Tail(all) = Newest(nonce + 1)
      BY <1>7, <2>1, <2>2, <2>3, SeqEqual
    <2> QED
      BY <1>4, <1>5, <1>8, <2>4 DEF b, p
  <1>9. CASE ~(n + 1 > BacklogSize)
    <2>1. n = nonce /\ Last(nonce + 1) = n + 1
      BY <1>1, <1>9, Sizes DEF Last, n
    <2>2. ASSUME NEW i \in 1..n + 1 PROVE all[i] = Newest(nonce + 1)[i]
      <3>1. nonce - n + i - 1 = nonce + 1 - (n + 1) + i - 1
        BY <1>1
      <3> QED
        BY <1>6, <1>7, <2>1, <3>1
    <2>3. all = Newest(nonce + 1)
      BY <1>5, <1>7, <2>1, <2>2, SeqEqual
    <2> QED
      BY <1>4, <1>5, <1>9, <2>3 DEF b, p
  <1> QED
    BY <1>8, <1>9

-----------------------------------------------------------------------------
(* The numbers of the packets                                               *)

Numbering == \A r \in Receivers : Numbered(streams[r])

\* A stream that sends nothing stays numbered.
LEMMA NumberedMoved ==
  ASSUME NEW old \in Streams, NEW new \in Streams, Numbered(old), SameCounts(old, new),
         new.at \in Before => old.at \in Before,
         \/ new.backlog = old.backlog /\ (new.data => old.data \/ old.nonce = 0)
         \/ new.backlog = <<>> /\ (new.data => old.nonce = 0)
  PROVE  Numbered(new)
  BY NewestOfNone DEF Numbered, SameCounts

\* The next number is that of the next nonce.
LEMMA NextNumber ==
  ASSUME NEW nonce \in Nat PROVE NextSeq(Number(nonce)) = Number(nonce + 1)
  <1>1. /\ SeqLimit \in Nat /\ SeqLimit > 0 /\ FirstSeq + nonce \in Int /\ 1 \in Int
        /\ FirstSeq + (nonce + 1) = (FirstSeq + nonce) + 1
    BY Sizes
  <1>2. (((FirstSeq + nonce) % SeqLimit) + 1) % SeqLimit = ((FirstSeq + nonce) + 1) % SeqLimit
    BY <1>1, ModAdd
  <1> QED
    BY <1>1, <1>2 DEF NextSeq, Number

\* A stream that sends one packet stays numbered.
LEMMA NumberedCounted ==
  ASSUME NEW old \in Streams, NEW new \in Streams, Numbered(old), old.at \notin Before,
         new.at = old.at, new.seq = NextSeq(old.seq), new.nonce = old.nonce + 1,
         \/ /\ new.backlog = StorePacket(old.backlog, [seq |-> old.seq, nonce |-> old.nonce])
            /\ new.data => old.data
         \/ ~new.data
  PROVE  Numbered(new)
  <1>1. old.nonce \in Nat /\ old.seq = Number(old.nonce)
    BY DEF Streams, Numbered
  <1>2. new.seq = Number(new.nonce) /\ new.nonce # 0
    BY <1>1, NextNumber
  <1>3. new.data => new.backlog = Newest(new.nonce)
    BY <1>1, StoreNewest DEF Numbered, Entry
  <1> QED
    BY <1>2, <1>3 DEF Numbered

\* Nothing was sent yet.
LEMMA InitNumbering == Init => Numbering
  <1>1. /\ SeqLimit \in Nat /\ SeqLimit > 0 /\ FirstSeq \in 0..SeqLimit-1
        /\ FirstSeq + 0 \in Int /\ FirstSeq + 0 = FirstSeq + SeqLimit * 0
    BY Sizes
  <1>2. Number(0) = FirstSeq
    BY <1>1, ModUnique DEF Number
  <1> QED
    BY <1>2 DEF Init, Numbering, Numbered, NewStream

\* Every step keeps the numbers.
LEMMA NumberingStep == Control /\ Supply /\ Numbering /\ [Next]_vars => Numbering'
  <1> SUFFICES ASSUME Control, Supply, Numbering, [Next]_vars, NEW q \in Receivers
               PROVE  Numbered(streams'[q])
    BY DEF Numbering
  <1> DEFINE old == streams[q]
             new == streams'[q]
  <1>0. Live /\ old \in Streams /\ Numbered(old) /\ targets \subseteq Receivers
    BY DEF Control, Live, Numbering, Targets
  <1>a. Live' => new \in Streams
    BY DEF Live
  <1>c. phase \in Looping /\ q \in targets => old.at \notin Before
    BY DEF Control, Fits, Looping, Targets, Before, Stage
  <1> HIDE DEF old, new
  <1> SUFFICES Numbered(new)
    BY DEF new
  <1>b. CASE new = old
    BY <1>0, <1>b
  <1>1. CASE Start /\ new # old
    <2>1. Live' /\ Moved(old, new, "setup") /\ new.data = old.data
      BY <1>0, <1>1, StartEffect DEF old, new
    <2>2. old.at = "idle"
      BY <1>1 DEF Start, Control, Fits, old
    <2> QED
      BY <1>0, <1>a, <2>1, <2>2, NumberedMoved DEF Moved, Before
  <1>2. CASE Prepare /\ new # old
    <2>1. Live' /\ Moved(old, new, "connect")
      BY <1>0, <1>2, PrepareEffect DEF old, new
    <2>2. old.at \in Before
      BY <1>2 DEF Prepare, AllAt, Before, Stage, old
    <2> QED
      BY <1>0, <1>a, <2>1, <2>2, NumberedMoved DEF Moved, Numbered
  <1>3. ASSUME NEW r \in Receivers, SetupDone(r) \/ Connected(r) \/ AwaitFails(r), new # old
        PROVE  Numbered(new)
    <2>1. PICK place \in {"ready", "flush", "failed"} : streams' = [streams EXCEPT ![r].at = place]
      BY <1>3 DEF SetupDone, Connected, AwaitFails
    <2>2. place \in Places
      BY DEF Places
    <2>3. Live' /\ Moved(old, new, place) /\ SameOpen(old, new)
      BY <1>0, <1>3, <2>1, <2>2, PlaceEffect DEF old, new
    <2>4. q = r /\ old.at \in Before
      BY <1>3, <2>1 DEF SetupDone, Connected, AwaitFails, Before, Stage, old, new, Control, Live
    <2> QED
      BY <1>0, <1>a, <2>3, <2>4, NumberedMoved DEF Moved, SameOpen
  <1>4. ASSUME NEW r \in Receivers, Flushed(r), new # old PROVE Numbered(new)
    <2>1. /\ Live' /\ new.at = "prepared" /\ SameCounts(old, new) /\ new.backlog = <<>>
          /\ q = r
      BY <1>0, <1>4, FlushedEffect DEF old, new
    <2>2. old.at = "flush"
      BY <1>4, <2>1 DEF Flushed, old
    <2> QED
      BY <1>0, <1>a, <2>1, <2>2, NumberedMoved DEF Before, Stage, Numbered
  <1>5. ASSUME NEW r \in Receivers, Pad(r), new # old PROVE Numbered(new)
    <2>1. Live' /\ Counted(old, new, TRUE) /\ SameOpen(old, new) /\ q = r
      BY <1>0, <1>5, PadEffect DEF old, new
    <2>2. old.at = "padding"
      BY <1>5, <2>1 DEF Pad, old
    <2> QED
      BY <1>0, <1>a, <2>1, <2>2, NumberedCounted DEF Counted, SameOpen, Before, Stage
  <1>6. ASSUME NEW r \in Receivers, FinishPadding(r), new # old PROVE Numbered(new)
    <2>1. Live' /\ Moved(old, new, "teardown") /\ new.data = old.data
      BY <1>0, <1>6, FinishPaddingEffect DEF old, new
    <2> QED
      BY <1>0, <1>a, <2>1, NumberedMoved DEF Moved, Before, Stage
  <1>7. ASSUME NEW r \in Receivers, TornDown(r), new # old PROVE Numbered(new)
    <2>1. /\ Live' /\ new.at = "finished" /\ SameCounts(old, new)
          /\ Silent(new) /\ new.backlog = <<>>
      BY <1>0, <1>7, TornDownEffect DEF old, new
    <2> QED
      BY <1>0, <1>a, <2>1, NumberedMoved DEF Silent, Before, Stage
  <1>8. ASSUME NEW r \in Receivers, FinishFails(r) PROVE Numbered(new)
    <2>1. /\ Live' /\ new.at \in {old.at, "failed"} /\ SameCounts(old, new)
          /\ \/ Silent(new) /\ new.backlog = <<>>
             \/ SameOpen(old, new) /\ new.backlog = old.backlog
      BY <1>0, <1>8, FinishFailsEffect DEF old, new
    <2> QED
      BY <1>0, <1>a, <2>1, NumberedMoved DEF Silent, SameOpen, Before, Stage
  <1>9. CASE CloseTargets /\ new # old
    <2>1. Live' /\ Closed(old, new)
      BY <1>0, <1>9, ClosingEffect DEF old, new
    <2> QED
      BY <1>0, <1>a, <2>1, NumberedMoved DEF Closed, Silent
  <1>10. CASE SendPacket /\ new # old
    <2>1. /\ phase = "got" /\ targets = {One} /\ q = One
      BY <1>0, <1>10, SendPacketEffect DEF SendPacket, Control, Targets, old, new
    <2>2. /\ Live'
          /\ old.data => Counted(old, new, frames = <<>>) /\ SameOpen(old, new)
          /\ ~old.data => /\ new.at = old.at /\ new.seq = NextSeq(old.seq)
                          /\ new.nonce = old.nonce + 1 /\ Silent(new)
      BY <1>0, <1>10, <2>1, SendPacketEffect DEF old, new
    <2>3. old.at \notin Before
      BY <1>c, <2>1 DEF Looping
    <2>4. CASE old.data
      BY <1>0, <1>a, <2>2, <2>3, <2>4, NumberedCounted DEF Counted, SameOpen
    <2>5. CASE ~old.data
      BY <1>0, <1>a, <2>2, <2>3, <2>5, NumberedCounted DEF Silent
    <2> QED
      BY <2>4, <2>5
  <1>11. CASE SendToAll /\ new # old
    <2>1. phase = "got" /\ q \in targets
      BY <1>0, <1>11, SendToAllEffect DEF SendToAll, old, new
    <2>2. Live' /\ Counted(old, new, FALSE) /\ SameOpen(old, new)
      BY <1>0, <1>11, <2>1, SendToAllEffect DEF old, new
    <2> QED
      BY <1>0, <1>a, <1>c, <2>1, <2>2, NumberedCounted DEF Counted, SameOpen, Looping
  <1>12. CASE EndOfStream /\ new # old
    <2>1. Live' /\ Moved(old, new, "teardown") /\ new.data = old.data
      BY <1>0, <1>12, EndOfStreamEffect DEF old, new
    <2> QED
      BY <1>0, <1>a, <2>1, NumberedMoved DEF Moved, Before, Stage
  <1>13. CASE EndOfSource /\ new # old
    <2>1. Live' /\ Moved(old, new, "padding") /\ SameOpen(old, new)
      BY <1>0, <1>13, EndOfSourceEffect DEF old, new
    <2> QED
      BY <1>0, <1>a, <2>1, NumberedMoved DEF Moved, SameOpen, Before, Stage
  <1>14. CASE UNCHANGED streams
    BY <1>b, <1>14 DEF old, new
  <1>16. \A n \in 1..Capacity + 1 : Write(n) => UNCHANGED streams
    BY DEF Write
  <1>17. PrepareRefused \/ Begin \/ ReadFrames \/ End \/ Sent \/ Done \/ UNCHANGED vars
           => UNCHANGED streams
    BY DEF PrepareRefused, Begin, ReadFrames, End, Sent, Done, vars
  <1>18. SendFails \/ OwnerCloses => CloseTargets
    BY DEF SendFails, OwnerCloses
  <1> QED
    BY <1>b, <1>1, <1>2, <1>3, <1>4, <1>5, <1>6, <1>7, <1>8, <1>9, <1>10, <1>11, <1>12, <1>13,
       <1>14, <1>16, <1>17, <1>18
       DEF Next, Loop, OfStream, old, new

-----------------------------------------------------------------------------
(* Padding and TEARDOWN                                                     *)

\* Padding and TEARDOWN come when the source s is over and the loop has none of its frames.
Over(s) == s.ended /\ s.available = 0

Played(st, s, fs) ==
    /\ st.padding > 0 => Over(s) /\ fs = <<>> /\ st.silence >= st.padding
    /\ st.at \in {"padding", "teardown"} => Over(s)
    /\ st.at = "teardown" => st.silence >= Latency

Playing == \A r \in Receivers : Played(streams[r], source, frames)

\* Nothing was padded yet.
LEMMA InitPlaying == Init => Playing
  BY DEF Init, Playing, Played, NewStream

\* A source that is over stays over, and gives no frames any more.
LEMMA OverStays ==
  Supply /\ [Next]_vars => /\ Over(source) => Over(source')
                           /\ frames' = frames \/ frames' = <<>> \/ ~Over(source)
  <1> SUFFICES ASSUME Supply, [Next]_vars
               PROVE  /\ Over(source) => Over(source')
                      /\ frames' = frames \/ frames' = <<>> \/ ~Over(source)
    OBVIOUS
  <1>1. CASE Fed
    BY <1>1 DEF Fed, Over
  <1>2. CASE UNCHANGED source /\ (frames' = frames \/ frames' = <<>>)
    BY <1>2 DEF Over
  <1>3. ASSUME NEW r \in Receivers, OfStream(r)
        PROVE  UNCHANGED source /\ (frames' = frames \/ frames' = <<>>)
    BY <1>3 DEF OfStream, AwaitFails, SetupDone, Connected, Flushed, Pad, FinishPadding,
                TornDown, FinishFails
  <1>4. ASSUME Start \/ PrepareRefused \/ Prepare \/ Begin \/ OwnerCloses \/ UNCHANGED vars
        PROVE  UNCHANGED source /\ (frames' = frames \/ frames' = <<>>)
    BY <1>4 DEF Start, PrepareRefused, Prepare, Begin, OwnerCloses, vars
  <1>5. ASSUME SendPacket \/ SendToAll \/ Sent \/ SendFails \/ EndOfStream \/ EndOfSource \/ Done
        PROVE  UNCHANGED source /\ (frames' = frames \/ frames' = <<>>)
    BY <1>5 DEF SendPacket, SendToAll, Sent, SendFails, EndOfStream, EndOfSource, Done
  <1>6. ASSUME NEW n \in 1..Capacity + 1, Write(n) PROVE Fed
    BY <1>6, WriteFed, Sizes
  <1>7. CASE ReadFrames \/ End
    BY <1>1, <1>7, ReadFed, EndFed
  <1> QED
    BY <1>1, <1>2, <1>3, <1>4, <1>5, <1>6, <1>7 DEF Next, Loop

\* A stream that sends nothing: it tears down only when it has padded enough.
LEMMA PlayedMoved ==
  ASSUME NEW old \in Streams, NEW new \in Streams, Played(old, source, frames),
         Over(source) => Over(source'), frames' = frames \/ frames' = <<>> \/ ~Over(source),
         SameCounts(old, new),
         \/ new.at = old.at
         \/ new.at \notin {"padding", "teardown"}
         \/ new.at = "padding" /\ Over(source)
         \/ new.at = "teardown" /\ Over(source) /\ old.padding >= Latency
  PROVE  Played(new, source', frames')
  <1>1. /\ new.padding = old.padding /\ new.silence = old.silence
        /\ old.padding \in Nat /\ old.silence \in Nat
    BY DEF SameCounts, Streams
  <1> QED
    BY <1>1, Sizes DEF Played

\* A stream that sends silence because there is no audio left, or audio because it never padded.
LEMMA PlayedOn ==
  ASSUME NEW old \in Streams, NEW new \in Streams, Played(old, source, frames),
         Over(source) => Over(source'),
         frames' = frames \/ frames' = <<>> \/ ~Over(source),
         new.at = old.at,
         \/ /\ frames = <<>> /\ Over(source)
            /\ new.silence = old.silence + PacketFrames
            /\ new.padding \in {old.padding, old.padding + PacketFrames}
         \/ /\ frames # <<>> /\ new.padding = old.padding
            /\ new.at \notin {"padding", "teardown"}
  PROVE  Played(new, source', frames')
  <1>1. /\ old.padding \in Nat /\ old.silence \in Nat
        /\ PacketFrames \in Nat /\ PacketFrames > 0 /\ Latency \in Nat
    BY Sizes DEF Streams
  <1>2. CASE frames # <<>>
    BY <1>1, <1>2 DEF Played
  <1>3. CASE frames = <<>> /\ frames' = <<>>
    BY <1>1, <1>3 DEF Played
  <1> QED
    BY <1>2, <1>3

\* Every step keeps the padding after the audio.
LEMMA PlayingStep == Control /\ Supply /\ Playing /\ [Next]_vars => Playing'
  <1> SUFFICES ASSUME Control, Supply, Playing, [Next]_vars, NEW q \in Receivers
               PROVE  Played(streams'[q], source', frames')
    BY DEF Playing
  <1> DEFINE old == streams[q]
             new == streams'[q]
  <1>0. Live /\ old \in Streams /\ Played(old, source, frames) /\ targets \subseteq Receivers
    BY DEF Control, Live, Playing, Targets
  <1>a. Live' => new \in Streams
    BY DEF Live
  <1>c. /\ Over(source) => Over(source')
        /\ frames' = frames \/ frames' = <<>> \/ ~Over(source)
    BY OverStays
  <1>d. phase # "got" => frames = <<>>
    BY DEF Supply, Feeds
  <1>e. phase = "got" /\ frames = <<>> => Over(source)
    BY DEF Supply, Feeds, Over
  <1> HIDE DEF old, new
  <1> SUFFICES Played(new, source', frames')
    BY DEF new
  <1>b. CASE new = old
    BY <1>0, <1>b, <1>c, PlayedMoved DEF SameCounts
  <1>1. CASE Start /\ new # old
    BY <1>0, <1>1, <1>a, <1>c, StartEffect, PlayedMoved DEF old, new, Moved
  <1>2. CASE Prepare /\ new # old
    BY <1>0, <1>2, <1>a, <1>c, PrepareEffect, PlayedMoved DEF old, new, Moved
  <1>3. ASSUME NEW r \in Receivers, SetupDone(r) \/ Connected(r) \/ AwaitFails(r), new # old
        PROVE  Played(new, source', frames')
    <2>1. PICK place \in {"ready", "flush", "failed"} : streams' = [streams EXCEPT ![r].at = place]
      BY <1>3 DEF SetupDone, Connected, AwaitFails
    <2>2. place \in Places
      BY DEF Places
    <2>3. Live' /\ Moved(old, new, place)
      BY <1>0, <1>3, <2>1, <2>2, PlaceEffect DEF old, new
    <2> QED
      BY <1>0, <1>a, <1>c, <2>3, PlayedMoved DEF Moved
  <1>4. ASSUME NEW r \in Receivers, Flushed(r), new # old PROVE Played(new, source', frames')
    BY <1>0, <1>4, <1>a, <1>c, FlushedEffect, PlayedMoved DEF old, new
  <1>5. ASSUME NEW r \in Receivers, Pad(r), new # old PROVE Played(new, source', frames')
    <2>1. /\ Live' /\ Counted(old, new, TRUE) /\ q = r
          /\ new.padding = old.padding + PacketFrames
      BY <1>0, <1>5, PadEffect DEF old, new
    <2>2. old.at = "padding"
      BY <1>5, <2>1 DEF Pad, old
    <2>3. phase # "got" /\ Over(source)
      BY <1>0, <2>2 DEF Control, Fits, Looping, Played, old
    <2> QED
      BY <1>0, <1>a, <1>c, <1>d, <2>1, <2>3, PlayedOn DEF Counted
  <1>6. ASSUME NEW r \in Receivers, FinishPadding(r), new # old
        PROVE  Played(new, source', frames')
    <2>1. Live' /\ Moved(old, new, "teardown") /\ q = r
      BY <1>0, <1>6, FinishPaddingEffect DEF old, new
    <2>2. old.at = "padding" /\ old.padding >= Latency
      BY <1>6, <2>1 DEF FinishPadding, PaddedEnough, old
    <2>3. Over(source)
      BY <1>0, <2>2 DEF Played
    <2> QED
      BY <1>0, <1>a, <1>c, <2>1, <2>2, <2>3, PlayedMoved DEF Moved
  <1>7. ASSUME NEW r \in Receivers, TornDown(r), new # old PROVE Played(new, source', frames')
    BY <1>0, <1>7, <1>a, <1>c, TornDownEffect, PlayedMoved DEF old, new
  <1>8. ASSUME NEW r \in Receivers, FinishFails(r) PROVE Played(new, source', frames')
    <2>1. Live' /\ new.at \in {old.at, "failed"} /\ SameCounts(old, new)
      BY <1>0, <1>8, FinishFailsEffect DEF old, new
    <2> QED
      BY <1>0, <1>a, <1>c, <2>1, PlayedMoved
  <1>9. CASE CloseTargets /\ new # old
    BY <1>0, <1>9, <1>a, <1>c, ClosingEffect, PlayedMoved DEF old, new, Closed
  <1>10. CASE SendPacket /\ new # old
    <2>1. phase = "got" /\ q = One
      BY <1>0, <1>10, SendPacketEffect DEF SendPacket, old, new
    <2>2. /\ Live' /\ new.at = old.at
          /\ new.silence = IF frames = <<>> THEN old.silence + PacketFrames ELSE 0
          /\ new.padding = old.padding + IF frames = <<>> THEN PacketFrames ELSE 0
      BY <1>0, <1>10, <2>1, SendPacketEffect DEF old, new, Counted
    <2>3. old.at \in {"idle", "prepared"} /\ old.padding \in Nat
      BY <1>0, <2>1 DEF Control, Fits, Looping, old, Streams
    <2>4. CASE frames = <<>>
      BY <1>0, <1>a, <1>c, <1>e, <2>1, <2>2, <2>4, PlayedOn
    <2>5. CASE frames # <<>>
      BY <1>0, <1>a, <1>c, <2>2, <2>3, <2>5, PlayedOn
    <2> QED
      BY <2>4, <2>5
  <1>11. CASE SendToAll /\ new # old
    <2>1. phase = "got" /\ frames # <<>> /\ q \in targets
      BY <1>0, <1>11, SendToAllEffect DEF SendToAll, old, new
    <2>2. Live' /\ new.at = old.at /\ new.padding = old.padding
      BY <1>0, <1>11, <2>1, SendToAllEffect DEF old, new, Counted
    <2>3. old.at \in {"idle", "prepared"}
      BY <2>1 DEF Control, Fits, Looping, old
    <2> QED
      BY <1>0, <1>a, <1>c, <2>1, <2>2, <2>3, PlayedOn
  <1>12. CASE EndOfStream /\ new # old
    <2>1. Live' /\ Moved(old, new, "teardown") /\ q = One
      BY <1>0, <1>12, EndOfStreamEffect DEF old, new
    <2>2. old.padding >= Latency /\ old.padding > 0
      BY <1>12, <1>0, <2>1, Sizes DEF EndOfStream, Padded, old, Streams
    <2>3. Over(source)
      BY <1>0, <2>2 DEF Played
    <2> QED
      BY <1>0, <1>a, <1>c, <2>1, <2>2, <2>3, PlayedMoved DEF Moved
  <1>13. CASE EndOfSource /\ new # old
    <2>1. Live' /\ Moved(old, new, "padding")
      BY <1>0, <1>13, EndOfSourceEffect DEF old, new
    <2>2. Over(source)
      BY <1>13, <1>e DEF EndOfSource
    <2> QED
      BY <1>0, <1>a, <1>c, <2>1, <2>2, PlayedMoved DEF Moved
  <1>14. CASE UNCHANGED streams
    BY <1>b, <1>14 DEF old, new
  <1>16. \A n \in 1..Capacity + 1 : Write(n) => UNCHANGED streams
    BY DEF Write
  <1>17. PrepareRefused \/ Begin \/ ReadFrames \/ End \/ Sent \/ Done \/ UNCHANGED vars
           => UNCHANGED streams
    BY DEF PrepareRefused, Begin, ReadFrames, End, Sent, Done, vars
  <1>18. SendFails \/ OwnerCloses => CloseTargets
    BY DEF SendFails, OwnerCloses
  <1> QED
    BY <1>b, <1>1, <1>2, <1>3, <1>4, <1>5, <1>6, <1>7, <1>8, <1>9, <1>10, <1>11, <1>12, <1>13,
       <1>14, <1>16, <1>17, <1>18
       DEF Next, Loop, OfStream, old, new

-----------------------------------------------------------------------------
(* Open streams                                                             *)

\* Before the loop only targets are open; since then, only while the caller, or the end of
\* the stream itself, is still to close them.
OpenBefore(r) == streams[r].at # "idle" \/ ~Silent(streams[r]) => r \in targets
OpenSince(r) ==
    ~Silent(streams[r]) => /\ r \in targets
                           /\ phase \notin {"done", "failed"}
                           /\ phase = "finish" => streams[r].at \in {"padding", "teardown"}
Opened ==
    ~early => \A r \in Receivers : IF began THEN OpenSince(r) ELSE OpenBefore(r)

\* Nothing is open yet.
LEMMA InitOpened == Init => Opened
  BY DEF Init, Opened, OpenBefore, OpenSince, NewStream, Silent

\* Every step keeps the open streams with the caller that closes them.
LEMMA OpenedStep == Control /\ Supply /\ Opened /\ [Next]_vars => Opened'
  <1> SUFFICES ASSUME Control, Supply, Opened, [Next]_vars, ~early', NEW q \in Receivers
               PROVE  IF began' THEN OpenSince(q)' ELSE OpenBefore(q)'
    BY DEF Opened
  <1> DEFINE old == streams[q]
             new == streams'[q]
             goal == IF began' THEN OpenSince(q)' ELSE OpenBefore(q)'
  <1>0. Live /\ targets \subseteq Receivers
    BY DEF Control, Live, Targets
  <1>1. CASE Start
    <2>1. ~began /\ ~early /\ UNCHANGED <<began, targets>>
      BY <1>1 DEF Start, Control, BegunIsPast, past, audio
    <2>2. q \notin targets => new = old
      BY <1>0, <1>1, StartEffect
    <2> QED
      BY <2>1, <2>2 DEF Opened, OpenBefore
  <1>2. CASE Prepare
    <2>1. ~began /\ ~early /\ UNCHANGED <<began, targets>>
      BY <1>2 DEF Prepare, Control, BegunIsPast, past, audio
    <2>2. q \notin targets => new = old
      BY <1>0, <1>2, PrepareEffect
    <2> QED
      BY <2>1, <2>2 DEF Opened, OpenBefore
  <1>3. ASSUME NEW r \in Receivers,
               SetupDone(r) \/ Connected(r) \/ AwaitFails(r) \/ Flushed(r)
        PROVE  goal
    <2>1. streams[r].at \in Stage /\ ~early /\ UNCHANGED <<began, targets>>
      BY <1>3 DEF SetupDone, Connected, AwaitFails, Flushed, Stage, past, audio
    <2>2. ~began
      BY <2>1 DEF Control, BegunIsPast
    <2>3. r \in targets
      BY <2>1, <2>2 DEF Opened, OpenBefore, Stage
    <2>4. q # r => new = old
      BY <1>3 DEF SetupDone, Connected, AwaitFails, Flushed, Control, Live
    <2> QED
      BY <2>1, <2>2, <2>3, <2>4 DEF Opened, OpenBefore
  <1>4. CASE Begin
    <2>1. /\ ~began /\ began' /\ ~early /\ phase' = "read" /\ UNCHANGED <<targets, streams>>
      BY <1>4 DEF Begin, Control, BegunIsPast, audio
    <2> QED
      BY <2>1 DEF Opened, OpenBefore, OpenSince
  <1>5. CASE PrepareRefused
    <2>1. ~began /\ ~early /\ UNCHANGED <<began, targets, streams>>
      BY <1>5 DEF PrepareRefused, Control, BegunIsPast, past, audio
    <2> QED
      BY <2>1 DEF Opened, OpenBefore
  <1>6. CASE Fed \/ Sent
    <2>1. ~early /\ UNCHANGED <<began, targets, streams>>
      BY <1>6 DEF Fed, Sent, Control, BegunIsPast, past, audio, Looping
    <2>2. phase' = phase \/ phase' \in Looping
      BY <1>6 DEF Fed, Sent, Looping
    <2> QED
      BY <2>1, <2>2 DEF Opened, OpenBefore, OpenSince, Looping
  <1>7. ASSUME NEW r \in Receivers, Pad(r) \/ FinishPadding(r) \/ TornDown(r) PROVE goal
    <2>1. /\ streams[r].at \in {"padding", "teardown"} /\ ~early
          /\ UNCHANGED <<began, targets, phase>>
      BY <1>7 DEF Pad, FinishPadding, TornDown, past, audio
    <2>2. phase \in {"finish", "failed"}
      BY <2>1 DEF Control, Fits, Phases, Looping
    <2>3. q # r => new = old
      BY <1>7 DEF Pad, FinishPadding, TornDown, Control, Live
    <2>4. CASE Pad(r)
      <3>1. new.at = old.at /\ SameOpen(old, new)
        BY <1>0, <2>4, <2>3, PadEffect DEF Counted, SameOpen
      <3> QED
        BY <2>1, <3>1 DEF Opened, OpenBefore, OpenSince, Silent, SameOpen
    <2>5. CASE FinishPadding(r)
      <3>1. q = r => /\ new.at = "teardown" /\ ~new.sync /\ new.control = old.control
                     /\ new.data = old.data
        BY <1>0, <2>5, FinishPaddingEffect DEF Moved
      <3> QED
        BY <2>1, <2>3, <3>1 DEF Opened, OpenBefore, OpenSince, Silent
    <2>6. CASE TornDown(r)
      <3>1. q = r => Silent(new)
        BY <1>0, <2>6, TornDownEffect
      <3> QED
        BY <2>1, <2>3, <3>1 DEF Opened, OpenBefore, OpenSince
    <2> QED
      BY <1>7, <2>4, <2>5, <2>6
  <1>8. ASSUME NEW r \in Receivers, FinishFails(r) PROVE goal
    <2>1. /\ streams[r].at \in {"padding", "teardown"} /\ ~early /\ phase' = "failed"
          /\ UNCHANGED <<began, targets>>
      BY <1>8 DEF FinishFails, past, audio
    <2>2. phase \in {"finish", "failed"}
      BY <2>1 DEF Control, Fits, Phases, Looping
    <2>3. /\ (new.at = old.at \/ q = r)
          /\ IF phase = "finish" /\ q \in targets THEN Silent(new) ELSE SameOpen(old, new)
      BY <1>0, <1>8, FinishFailsEffect
    <2>4. CASE began
      <3>1. Silent(new)
        BY <2>1, <2>2, <2>3, <2>4 DEF Opened, OpenSince, Silent, SameOpen
      <3> QED
        BY <2>1, <2>4, <3>1 DEF OpenSince
    <2>5. CASE ~began
      <3>1. phase = "failed" /\ SameOpen(old, new)
        BY <2>2, <2>3, <2>5 DEF Control, BegunIsPast
      <3>2. r \in targets
        BY <2>1, <2>5 DEF Opened, OpenBefore
      <3> QED
        BY <2>1, <2>3, <2>5, <3>1, <3>2 DEF Opened, OpenBefore, Silent, SameOpen
    <2> QED
      BY <2>4, <2>5
  <1>9. CASE SendPacket
    <2>1. /\ phase = "got" /\ began /\ ~early /\ UNCHANGED <<began, targets>>
          /\ phase' = IF streams[One].data THEN "sending" ELSE "failed"
      BY <1>9 DEF SendPacket, Control, BegunIsPast, Looping, past, audio
    <2>2. targets = {One}
      BY <1>9 DEF SendPacket, Control, Targets
    <2>3. q # One => Silent(new)
      BY <1>0, <1>9, <2>1, <2>2, SendPacketEffect DEF Opened, OpenSince
    <2>4. phase' = "failed" => Silent(streams'[One])
      BY <1>0, <1>9, <2>1, SendPacketEffect
    <2> QED
      BY <2>1, <2>2, <2>3, <2>4 DEF OpenSince
  <1>10. CASE SendToAll
    <2>1. phase = "got" /\ phase' = "sending" /\ began /\ ~early /\ UNCHANGED <<began, targets>>
      BY <1>10 DEF SendToAll, Control, BegunIsPast, Looping, past, audio
    <2>2. SameOpen(old, new)
      BY <1>0, <1>10, SendToAllEffect DEF SameOpen
    <2> QED
      BY <2>1, <2>2 DEF Opened, OpenSince, SameOpen, Silent
  <1>11. CASE SendFails
    <2>1. /\ phase = "sending" /\ began /\ ~early /\ UNCHANGED <<began, targets>> /\ CloseTargets
      BY <1>11 DEF SendFails, Control, BegunIsPast, Looping, past, audio
    <2>2. Silent(new)
      BY <1>0, <2>1, ClosingEffect DEF Opened, OpenSince, Closed
    <2> QED
      BY <2>1, <2>2 DEF OpenSince
  <1>12. CASE OwnerCloses
    <2>1. began /\ ~early /\ UNCHANGED began /\ CloseTargets
      BY <1>12 DEF OwnerCloses
    <2>2. Silent(new)
      BY <1>0, <2>1, ClosingEffect DEF Opened, OpenSince, Closed
    <2> QED
      BY <2>1, <2>2 DEF OpenSince
  <1>13. CASE EndOfStream
    <2>1. /\ phase = "read" /\ phase' = "finish" /\ began /\ ~early /\ UNCHANGED <<began, targets>>
          /\ caller = "stream"
      BY <1>13 DEF EndOfStream, Padded, Control, BegunIsPast, Looping, past, audio
    <2>2. targets = {One}
      BY <2>1 DEF Control, Targets
    <2>3. /\ q # One => Silent(new)
          /\ streams'[One].at = "teardown"
      BY <1>0, <1>13, <2>1, <2>2, EndOfStreamEffect DEF Opened, OpenSince, Moved
    <2> QED
      BY <2>1, <2>2, <2>3 DEF OpenSince
  <1>14. CASE EndOfSource
    <2>1. /\ phase = "got" /\ phase' = "finish" /\ began /\ ~early /\ UNCHANGED <<began, targets>>
      BY <1>14 DEF EndOfSource, Control, BegunIsPast, Looping, past, audio
    <2>2. q \notin targets => Silent(new)
      BY <1>0, <1>14, <2>1, EndOfSourceEffect DEF Opened, OpenSince
    <2>3. q \in targets => new.at = "padding"
      BY <1>0, <1>14, EndOfSourceEffect DEF Moved
    <2> QED
      BY <2>1, <2>2, <2>3 DEF OpenSince
  <1>15. CASE Done
    <2>1. /\ phase = "finish" /\ began /\ ~early /\ UNCHANGED <<began, targets, streams>>
          /\ streams[q].at \notin {"padding", "teardown"}
      BY <1>15 DEF Done, Control, BegunIsPast, past, audio
    <2>2. Silent(new)
      BY <2>1 DEF Opened, OpenSince
    <2> QED
      BY <2>1, <2>2 DEF OpenSince
  <1>16. CASE UNCHANGED vars
    <2>1. ~early /\ UNCHANGED <<began, targets, streams, phase>>
      BY <1>16 DEF vars, past, audio
    <2> QED
      BY <2>1 DEF Opened, OpenBefore, OpenSince
  <1>17. ASSUME NEW n \in 1..Capacity + 1, Write(n) PROVE goal
    BY <1>6, <1>17, WriteFed, Sizes
  <1>18. CASE ReadFrames \/ End
    BY <1>6, <1>18, ReadFed, EndFed
  <1> QED
    BY <1>1, <1>2, <1>3, <1>4, <1>5, <1>6, <1>7, <1>8, <1>9, <1>10, <1>11, <1>12, <1>13,
       <1>14, <1>15, <1>16, <1>17, <1>18
       DEF Next, Loop, OfStream

-----------------------------------------------------------------------------
(* The invariant and the checked properties                                 *)

Inv ==
    /\ Control
    /\ Supply
    /\ Numbering
    /\ Playing
    /\ Opened

\* The invariant holds of a new streaming.
LEMMA InitInv == Init => Inv
  BY InitControl, InitSupply, InitNumbering, InitPlaying, InitOpened DEF Inv

\* Every step keeps it.
LEMMA NextInv == Inv /\ [Next]_vars => Inv'
  BY ControlStep, SupplyStep, NumberingStep, PlayingStep, OpenedStep DEF Inv

\* The inductive invariant holds for every value of the constants.
THEOREM Invariance == Spec => []Inv
  BY InitInv, NextInv, PTL DEF Spec

\* Type correctness: in particular the positions stay within the ring, a read never
\* returns more than a packet, and a sequence number fits its field.
THEOREM TypeCorrect == Spec => []TypeOK
  <1>1. Inv => TypeOK
    <2> SUFFICES ASSUME Inv PROVE TypeOK
      OBVIOUS
    <2>1. phase \in Phases /\ targets \subseteq Receivers /\ written \in 0..MaxWritten
      BY DEF Inv, Control, Targets, Supply
    <2>2. source \in Sources /\ Len(frames) <= PacketFrames
      BY DEF Inv, Supply, Feeds
    <2>3. \A r \in Receivers : streams[r] \in Streams
      BY DEF Inv, Control, Live
    <2> QED
      BY <2>1, <2>2, <2>3 DEF TypeOK, Phases, Looping, Sources, Streams
  <1> QED
    BY <1>1, Invariance, PTL

\* The ring holds the newest frames in order, and a reader waits only for frames that are
\* not there.
THEOREM NewestHeld == Spec => []RingHoldsNewest
  <1>1. Inv => RingHoldsNewest
    <2> SUFFICES ASSUME Inv PROVE RingHoldsNewest
      OBVIOUS
    <2>1. source \in Sources /\ written \in Nat /\ Ordered(source, written) /\ Waits
      BY Sizes DEF Inv, Supply
    <2>2. Held(source) = [i \in 1..source.available |-> written - source.available + i]
      BY <2>1, HeldOrdered DEF Ordered
    <2> QED
      BY <2>1, <2>2 DEF RingHoldsNewest, Waits
  <1> QED
    BY <1>1, Invariance, PTL

\* The backlog of an open stream holds the packets sent last, each under its number.
THEOREM BacklogKept == Spec => []BacklogIsNewest
  <1>1. Inv => BacklogIsNewest
    BY DEF Inv, Numbering, Numbered, Newest, Last, Entry, Number, BacklogIsNewest
  <1> QED
    BY <1>1, Invariance, PTL

\* TEARDOWN is sent only after all audio of the source and the latency of silence.
THEOREM SilenceBeforeTeardown == Spec => []TeardownAfterAudio
  <1>1. Inv => TeardownAfterAudio
    BY DEF Inv, Playing, Played, Over, TeardownAfterAudio
  <1> QED
    BY <1>1, Invariance, PTL

\* A streaming that has begun and is over has left no stream open.
THEOREM EverythingClosed == Spec => []NothingLeftOpen
  <1>1. Inv => NothingLeftOpen
    BY DEF Inv, Opened, OpenSince, Silent, NothingLeftOpen
  <1> QED
    BY <1>1, Invariance, PTL

-----------------------------------------------------------------------------
(* The queue that the ring implements                                       *)

\* n numbers in a row after a.
LEMMA Row ==
  ASSUME NEW a \in Int, NEW n \in Nat
  PROVE  /\ Numbers(a, n) \in Seq(Int) /\ Len(Numbers(a, n)) = n
         /\ \A i \in 1..n : Numbers(a, n)[i] = a + i
  BY DEF Numbers

\* A row and the one that follows it are one row.
LEMMA RowsJoin ==
  ASSUME NEW a \in Int, NEW n \in Nat, NEW m \in Nat
  PROVE  Numbers(a, n) \o Numbers(a + n, m) = Numbers(a, n + m)
  <1> DEFINE s == Numbers(a, n)
             t == Numbers(a + n, m)
             u == Numbers(a, n + m)
             c == s \o t
  <1>1. /\ s \in Seq(Int) /\ Len(s) = n /\ \A i \in 1..n : s[i] = a + i
        /\ t \in Seq(Int) /\ Len(t) = m /\ \A i \in 1..m : t[i] = a + n + i
        /\ u \in Seq(Int) /\ Len(u) = n + m /\ \A i \in 1..n + m : u[i] = a + i
    BY Row
  <1> HIDE DEF s, t, u
  <1>2. /\ c \in Seq(Int) /\ Len(c) = n + m
        /\ \A i \in 1..n + m : c[i] = IF i <= n THEN s[i] ELSE t[i - n]
    BY <1>1, ConcatProperties
  <1> HIDE DEF c
  <1>3. ASSUME NEW i \in 1..n + m PROVE c[i] = u[i]
    <2>1. CASE i <= n
      BY <1>1, <1>2, <2>1
    <2>2. CASE i > n
      <3>1. i - n \in 1..m
        BY <2>2
      <3>2. c[i] = t[i - n]
        <4>1. ~(i <= n)
          BY <2>2
        <4>2. c[i] = IF i <= n THEN s[i] ELSE t[i - n]
          BY <1>2
        <4> QED
          BY <4>1, <4>2
      <3>3. t[i - n] = a + n + (i - n)
        BY <1>1, <3>1
      <3> QED
        BY <1>1, <3>2, <3>3
    <2> QED
      BY <2>1, <2>2
  <1> QED
    BY <1>1, <1>2, <1>3, SeqEqual DEF s, t, u, c

\* A part of a row is a row.
LEMMA RowCut ==
  ASSUME NEW a \in Int, NEW n \in Nat, NEW i \in 1..n + 1, NEW j \in 0..n, i <= j + 1
  PROVE  SubSeq(Numbers(a, n), i, j) = Numbers(a + i - 1, j - i + 1)
  <1> DEFINE s == Numbers(a, n)
             t == Numbers(a + i - 1, j - i + 1)
  <1>0. /\ a + i - 1 \in Int /\ j - i + 1 \in Nat /\ i \in Nat /\ j \in Nat
    OBVIOUS
  <1>1. /\ s \in Seq(Int) /\ Len(s) = n /\ \A k \in 1..n : s[k] = a + k
        /\ t \in Seq(Int) /\ Len(t) = j - i + 1
        /\ \A k \in 1..j - i + 1 : t[k] = a + i - 1 + k
    BY <1>0, Row
  <1> HIDE DEF s, t
  <1>2. /\ SubSeq(s, i, j) \in Seq(Int) /\ Len(SubSeq(s, i, j)) = j - i + 1
        /\ \A k \in 1..j - i + 1 : SubSeq(s, i, j)[k] = s[i + k - 1]
    BY <1>0, <1>1
  <1>3. ASSUME NEW k \in 1..j - i + 1 PROVE SubSeq(s, i, j)[k] = t[k]
    <2>1. i + k - 1 \in 1..n
      BY <1>0
    <2> QED
      BY <1>0, <1>1, <1>2, <2>1
  <1> QED
    BY <1>1, <1>2, <1>3, SeqEqual DEF s, t

\* What an ordered source holds is the row that ends with the last frame written.
LEMMA HeldRow ==
  ASSUME NEW s \in Sources, NEW w \in Nat, Ordered(s, w)
  PROVE  /\ Held(s) = Numbers(w - s.available, s.available)
         /\ Len(Held(s)) = s.available
         /\ w - s.available \in Int /\ s.available \in Nat
  <1>1. Held(s) = [i \in 1..s.available |-> w - s.available + i]
    BY HeldOrdered DEF Ordered
  <1>2. w - s.available \in Int /\ s.available \in Nat
    BY DEF Sources
  <1>3. Held(s) = Numbers(w - s.available, s.available)
    BY <1>1 DEF Numbers
  <1> QED
    BY <1>2, <1>3, Row

\* The first frames of a source are the first of what it holds.
LEMMA FramesRow ==
  ASSUME NEW s \in Sources, NEW w \in Nat, Ordered(s, w), NEW n \in 0..s.available
  PROVE  Frames(s, n) = Numbers(w - s.available, n)
  <1>1. ASSUME NEW i \in 1..n
        PROVE  s.ring[(s.readPos + i - 1) % Capacity] = w - s.available + i
    <2>1. i \in 1..s.available
      BY DEF Sources
    <2> QED
      BY <2>1 DEF Ordered
  <1> QED
    BY <1>1 DEF Frames, Numbers

\* Reading takes the oldest frames off the queue.
LEMMA ResolveTakes ==
  ASSUME NEW s \in Sources, NEW w \in Nat, Ordered(s, w), NEW n \in 0..s.available,
         Resolve(s, n)
  PROVE  /\ frames' = SubSeq(Held(s), 1, n)
         /\ Held(source') = SubSeq(Held(s), n + 1, Len(Held(s)))
         /\ ~(source'.waiting > 0)
         /\ source'.ended = s.ended
  <1>0. n \in Nat /\ n <= s.available
    BY DEF Sources
  <1>1. /\ Held(s) = Numbers(w - s.available, s.available)
        /\ Len(Held(s)) = s.available
        /\ w - s.available \in Int /\ s.available \in Nat
    BY HeldRow
  <1>2. frames' = Numbers(w - s.available, n) /\ source' = Advance(s, n)
    BY FramesRow DEF Resolve
  <1>3. /\ source' \in Sources /\ source'.waiting = 0 /\ source'.ended = s.ended
        /\ source'.available = s.available - n
        /\ Ordered(source', w)
    BY <1>2, AdvanceFields, AdvanceOrdered
  <1>4. Held(source') = Numbers(w - (s.available - n), s.available - n)
    BY <1>3, HeldRow
  <1> DEFINE a == w - s.available
             m == s.available
  <1>5. /\ Held(s) = Numbers(a, m) /\ Len(Held(s)) = m
        /\ a \in Int /\ m \in Nat /\ n \in 0..m /\ n + 1 \in 1..m + 1 /\ m \in 0..m
        /\ 1 \in 1..m + 1 /\ 1 <= n + 1 /\ n + 1 <= m + 1
        /\ a + 1 - 1 = a /\ n - 1 + 1 = n
        /\ a + (n + 1) - 1 = w - (m - n) /\ m - (n + 1) + 1 = m - n
    BY <1>0, <1>1
  <1>6. frames' = Numbers(a, n) /\ Held(source') = Numbers(w - (m - n), m - n)
    BY <1>2, <1>4
  <1> HIDE DEF a, m
  <1>7. SubSeq(Numbers(a, m), 1, n) = Numbers(a + 1 - 1, n - 1 + 1)
    BY <1>5, RowCut
  <1>8. SubSeq(Numbers(a, m), n + 1, m) = Numbers(a + (n + 1) - 1, m - (n + 1) + 1)
    BY <1>5, RowCut
  <1>9. /\ frames' = SubSeq(Held(s), 1, n)
        /\ Held(source') = SubSeq(Held(s), n + 1, Len(Held(s)))
    BY <1>5, <1>6, <1>7, <1>8
  <1> QED
    BY <1>3, <1>9

\* Writing appends to the queue and keeps its newest frames.
LEMMA StoreAppends ==
  ASSUME NEW s \in Sources, NEW w \in Nat, Ordered(s, w), NEW n \in Nat
  PROVE  Held(Store(s, Numbers(w, n))) = Promise!Newest(Held(s) \o Numbers(w, n))
  <1> DEFINE t == Store(s, Numbers(w, n))
             a == s.available
  <1>0. /\ a \in 0..Capacity /\ Capacity \in Nat /\ w - a \in Int
    BY Sizes DEF Sources
  <1>1. /\ t \in Sources /\ Ordered(t, w + n)
        /\ t.available = a - Pushed(s, n) + Kept(n)
    BY StoreFields, StoreOrdered
  <1>2. t.available = IF a + n > Capacity THEN Capacity ELSE a + n
    BY <1>0, <1>1 DEF Pushed, Kept
  <1> HIDE DEF t, a
  <1>3. Held(t) = Numbers((w + n) - t.available, t.available)
    BY <1>1, HeldRow
  <1>4. Held(s) \o Numbers(w, n) = Numbers(w - a, a + n)
    <2> DEFINE b == w - a
    <2>1. Held(s) = Numbers(b, a) /\ w = b + a /\ b \in Int /\ a \in Nat
      BY <1>0, HeldRow DEF a
    <2> HIDE DEF b
    <2>2. Numbers(b, a) \o Numbers(b + a, n) = Numbers(b, a + n)
      BY <2>1, RowsJoin
    <2> QED
      BY <2>1, <2>2 DEF b
  <1>5. Len(Numbers(w - a, a + n)) = a + n
    BY <1>0, Row
  <1>6. CASE a + n > Capacity
    <2> DEFINE all   == a + n
               first == all - Capacity + 1
    <2>1. /\ all \in Nat /\ first \in 1..all + 1 /\ all \in 0..all /\ first <= all + 1
          /\ (w - a) + first - 1 = (w + n) - Capacity
          /\ all - first + 1 = Capacity
      BY <1>0, <1>6
    <2> HIDE DEF all, first
    <2>2. SubSeq(Numbers(w - a, all), first, all) = Numbers((w - a) + first - 1, all - first + 1)
      BY <1>0, <2>1, RowCut
    <2>3. Promise!Newest(Numbers(w - a, all)) = SubSeq(Numbers(w - a, all), first, all)
      BY <1>5, <1>6 DEF Promise!Newest, all, first
    <2>4. Held(t) = Promise!Newest(Numbers(w - a, all))
      BY <1>2, <1>3, <1>6, <2>1, <2>2, <2>3
    <2> QED
      BY <1>4, <2>4 DEF all, t
  <1>7. CASE ~(a + n > Capacity)
    <2>1. (w + n) - (a + n) = w - a
      BY <1>0
    <2>2. Promise!Newest(Numbers(w - a, a + n)) = Numbers(w - a, a + n)
      BY <1>5, <1>7 DEF Promise!Newest
    <2>3. Held(t) = Numbers(w - a, a + n)
      BY <1>2, <1>3, <1>7, <2>1
    <2> QED
      BY <1>4, <2>2, <2>3 DEF t
  <1> QED
    BY <1>6, <1>7

\* write() is a write to the queue, and answers the reader as that does.
LEMMA WriteQueued ==
  ASSUME Supply, NEW n \in 1..Capacity + 1, Write(n)
  PROVE  Promise!Write(n)
  <1> DEFINE s == Store(source, Numbers(written, n))
             q == Promise!Newest(Held(source) \o Numbers(written, n))
  <1>0. /\ n \in Nat /\ written \in Nat /\ source \in Sources /\ Ordered(source, written)
        /\ ~source.ended /\ written' = written + n
    BY Sizes DEF Write, Supply
  <1>1. /\ s \in Sources /\ s.ended = source.ended /\ s.waiting = source.waiting
        /\ Ordered(s, written')
    BY <1>0, StoreFields, StoreOrdered
  <1>2. Held(s) = q /\ Len(q) = s.available
    BY <1>0, <1>1, StoreAppends, HeldRow
  <1>3. IF s.waiting > 0 /\ s.available >= s.waiting
        THEN Resolve(s, s.waiting)
        ELSE source' = s /\ UNCHANGED <<frames, phase>>
    BY DEF Write, Numbers
  <1>4. s.waiting \in {0, PacketFrames} /\ s.available \in Nat
    BY <1>1, Sizes DEF Sources
  <1>5. /\ Held(source) \o [i \in 1..n |-> written + i] = Held(source) \o Numbers(written, n)
    BY DEF Numbers
  <1> HIDE DEF s, q
  <1>6. CASE s.waiting > 0 /\ s.available >= s.waiting
    <2>1. s.waiting = PacketFrames /\ s.waiting \in 0..s.available
      BY <1>4, <1>6, Sizes
    <2>2. /\ frames' = SubSeq(q, 1, PacketFrames)
          /\ Held(source') = SubSeq(q, PacketFrames + 1, Len(q))
          /\ ~(source'.waiting > 0) /\ source'.ended = s.ended
      BY <1>0, <1>1, <1>2, <1>3, <1>6, <2>1, ResolveTakes
    <2>3. Promise!Take(q, PacketFrames)
      BY <2>2 DEF Promise!Take
    <2> QED
      BY <1>0, <1>1, <1>2, <1>5, <1>6, <2>1, <2>2, <2>3 DEF Promise!Write, q
  <1>7. CASE ~(s.waiting > 0 /\ s.available >= s.waiting)
    <2>1. source' = s /\ UNCHANGED frames
      BY <1>3, <1>7
    <2>2. ~(source.waiting > 0 /\ Len(q) >= PacketFrames)
      BY <1>1, <1>2, <1>4, <1>7
    <2> QED
      BY <1>0, <1>1, <1>2, <1>5, <2>1, <2>2 DEF Promise!Write, q
  <1> QED
    BY <1>6, <1>7

\* end() gives a waiting reader all that is left.
LEMMA EndQueued == Supply /\ End => Promise!End
  <1> SUFFICES ASSUME Supply, End PROVE Promise!End
    OBVIOUS
  <1> DEFINE s == [source EXCEPT !.ended = TRUE]
             n == IF s.available < s.waiting THEN s.available ELSE s.waiting
  <1>0. /\ ~source.ended /\ UNCHANGED written /\ source \in Sources
        /\ written \in Nat /\ Ordered(source, written)
    BY Sizes DEF End, Supply
  <1>1. /\ s \in Sources /\ s.ended /\ s.waiting = source.waiting
        /\ s.available = source.available /\ s.ring = source.ring
        /\ s.readPos = source.readPos /\ s.writePos = source.writePos
    BY <1>0 DEF Sources
  <1>2. IF s.waiting > 0
        THEN Resolve(s, n)
        ELSE source' = s /\ UNCHANGED <<frames, phase>>
    BY DEF End
  <1> HIDE DEF s
  <1>3. Ordered(s, written) /\ Held(s) = Held(source) /\ Len(Held(s)) = s.available
    BY <1>0, <1>1, HeldRow DEF Ordered, Held, Frames
  <1>4. CASE s.waiting > 0
    <2>1. n = s.available /\ n \in 0..s.available /\ s.available \in Nat
      BY <1>1, <1>4 DEF Supply, Waits, Sources
    <2>2. /\ frames' = SubSeq(Held(s), 1, s.available)
          /\ Held(source') = SubSeq(Held(s), s.available + 1, Len(Held(s)))
          /\ ~(source'.waiting > 0) /\ source'.ended = s.ended
      BY <1>0, <1>1, <1>2, <1>3, <1>4, <2>1, ResolveTakes
    <2> QED
      BY <1>0, <1>1, <1>3, <1>4, <2>2 DEF Promise!End, Promise!Take
  <1>5. CASE ~(s.waiting > 0)
    BY <1>0, <1>1, <1>2, <1>3, <1>5 DEF Promise!End
  <1> QED
    BY <1>4, <1>5

\* readFrames() is a read.
LEMMA ReadQueued == Supply /\ ReadFrames => Promise!Read
  <1> SUFFICES ASSUME Supply, ReadFrames PROVE Promise!Read
    OBVIOUS
  <1>0. /\ phase = "read" /\ UNCHANGED written
        /\ source \in Sources /\ written \in Nat /\ Ordered(source, written)
    BY Sizes DEF ReadFrames, Supply
  <1>1. /\ ~(source.waiting > 0) /\ frames = <<>>
        /\ Len(Held(source)) = source.available
        /\ source.available \in Nat /\ PacketFrames \in Nat /\ PacketFrames > 0
    BY <1>0, HeldRow, Sizes DEF Supply, Waits, Feeds
  <1>2. ASSUME NEW n \in 0..source.available, Resolve(source, n)
        PROVE  Promise!Take(Held(source), n) /\ source'.ended = source.ended
    BY <1>0, <1>2, ResolveTakes DEF Promise!Take
  <1>3. CASE source.available >= PacketFrames /\ Resolve(source, PacketFrames)
    <2>1. PacketFrames \in 0..source.available
      BY <1>1, <1>3
    <2> QED
      BY <1>0, <1>1, <1>2, <1>3, <2>1 DEF Promise!Read
  <1>4. CASE source.available < PacketFrames /\ source.ended /\ Resolve(source, source.available)
    <2>1. source.available \in 0..source.available
      BY <1>1
    <2> QED
      BY <1>0, <1>1, <1>2, <1>4, <2>1 DEF Promise!Read
  <1>5. CASE /\ source.available < PacketFrames /\ ~source.ended
             /\ source' = [source EXCEPT !.waiting = PacketFrames]
             /\ phase' = "waiting"
             /\ UNCHANGED frames
    <2>1. /\ source'.waiting = PacketFrames /\ source'.ended = source.ended
          /\ source'.available = source.available /\ source'.ring = source.ring
          /\ source'.readPos = source.readPos
      BY <1>0, <1>5 DEF Sources
    <2>2. Held(source') = Held(source)
      BY <2>1 DEF Held, Frames
    <2>3. source'.waiting > 0
      BY <1>1, <2>1
    <2> QED
      BY <1>0, <1>1, <1>5, <2>1, <2>2, <2>3 DEF Promise!Read
  <1> QED
    BY <1>3, <1>4, <1>5 DEF ReadFrames

\* Every other step uses what the reader got, or is none of the queue's.
LEMMA OtherQueued ==
  ASSUME UNCHANGED <<source, written>>, frames' = frames \/ frames' = <<>>
  PROVE  Promise!Use \/ UNCHANGED Promise!vars
  BY DEF Promise!Use, Promise!vars

\* Every step of the streaming is one of the queue, or a stutter.
LEMMA StepQueued == Supply /\ [Next]_vars => [Promise!Next]_Promise!vars
  <1> SUFFICES ASSUME Supply, [Next]_vars PROVE Promise!Next \/ UNCHANGED Promise!vars
    OBVIOUS
  <1>1. ASSUME NEW n \in 1..Capacity + 1, Write(n) PROVE Promise!Next
    BY <1>1, WriteQueued DEF Promise!Next
  <1>2. CASE End
    BY <1>2, EndQueued DEF Promise!Next
  <1>3. CASE ReadFrames
    BY <1>3, ReadQueued DEF Promise!Next
  <1>4. CASE SendPacket \/ SendToAll \/ EndOfSource
    BY <1>4, OtherQueued DEF SendPacket, SendToAll, EndOfSource, Promise!Next
  <1>5. CASE \/ Start \/ PrepareRefused \/ Prepare \/ Begin \/ Sent \/ SendFails
             \/ EndOfStream \/ Done \/ OwnerCloses \/ UNCHANGED vars
    <2>1. UNCHANGED <<source, written, frames>>
      BY <1>5 DEF Start, PrepareRefused, Prepare, Begin, Sent, SendFails, EndOfStream, Done,
                  OwnerCloses, vars
    <2> QED
      BY <2>1, OtherQueued DEF Promise!Next
  <1>6. ASSUME NEW r \in Receivers, OfStream(r) PROVE Promise!Next \/ UNCHANGED Promise!vars
    <2>1. UNCHANGED <<source, written, frames>>
      BY <1>6 DEF OfStream, AwaitFails, SetupDone, Connected, Flushed, Pad, FinishPadding,
                  TornDown, FinishFails
    <2> QED
      BY <2>1, OtherQueued DEF Promise!Next
  <1> QED
    BY <1>1, <1>2, <1>3, <1>4, <1>5, <1>6 DEF Next, Loop

\* A new source is an empty queue.
LEMMA InitQueued == Init => Promise!Init
  <1> SUFFICES ASSUME Init PROVE Promise!Init
    OBVIOUS
  <1>1. Len(Held(source)) = 0 /\ Held(source) = Numbers(0 - 0, 0)
    BY NewSourceFits, HeldRow DEF Init, NewSource
  <1>2. Held(source) = <<>>
    BY <1>1, Row, EmptySeq
  <1> QED
    BY <1>2 DEF Init, NewSource, Promise!Init

\* The ring implements the queue of the newest frames: every read gets the oldest frames held,
\* whole packets until the end and then the rest.
THEOREM Implements == Spec => ImplementsQueue
  <1>1. Inv => Supply
    BY DEF Inv
  <1> QED
    BY <1>1, InitQueued, StepQueued, Invariance, PTL DEF Spec, ImplementsQueue, Promise!Spec
=============================================================================
