----------------------------- MODULE LiveSource -----------------------------
(***************************************************************************)
(* The ring buffer of audio-source/src/live.ts as functions of a record of *)
(* its fields.  One cell holds one audio frame, and a frame is a number:   *)
(* the module that composes the source numbers what the producer writes.   *)
(* reset() is left out: no code calls it on a live source.                 *)
(***************************************************************************)
EXTENDS Integers, Sequences

CONSTANT Capacity \* frames the ring holds

ASSUME CapacityAssumption == Capacity \in Nat \ {0}

Slots == 0..Capacity - 1

NewSource ==
    [ring      |-> [i \in Slots |-> 0],
     readPos   |-> 0,
     writePos  |-> 0,
     available |-> 0,
     ended     |-> FALSE,
     waiting   |-> 0]      \* #pendingBytes: what a pending readFrames() waits for

\* The frames that are held, oldest first, and #read() taking the first n of them.
Frames(s, n) == [i \in 1..n |-> s.ring[(s.readPos + i - 1) % Capacity]]
Held(s)      == Frames(s, s.available)
Advance(s, n) ==
    [s EXCEPT !.readPos = (@ + n) % Capacity, !.available = @ - n, !.waiting = 0]

\* The frames an overflowing write pushes out, off by one at a full buffer.
BugDropped(s, length) == IF s.available = Capacity THEN length - 1 ELSE 0
Dropped(s, length)    == LET free == Capacity - s.available
                         IN IF length > free THEN length - free ELSE 0

\* write(): of a write longer than the ring only its end is kept.
Store(s, data) ==
    LET length == IF Len(data) < Capacity THEN Len(data) ELSE Capacity
        start  == Len(data) - length
        drop   == Dropped(s, length)
        behind(i) == (i - s.writePos) % Capacity
    IN [s EXCEPT !.readPos   = (@ + drop) % Capacity,
                 !.available = @ - drop + length,
                 !.ring      = [i \in Slots |-> IF behind(i) < length
                                                THEN data[start + behind(i) + 1] ELSE @[i]],
                 !.writePos  = (@ + length) % Capacity]
=============================================================================
