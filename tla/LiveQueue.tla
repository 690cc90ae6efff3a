----------------------------- MODULE LiveQueue -----------------------------
(***************************************************************************)
(* What a live source promises its producer and its one reader: a queue of *)
(* the newest frames.  A write that does not fit pushes out the oldest; a  *)
(* read takes the oldest packet, waiting for a whole one until the source  *)
(* ends, and gets less only then.  AudioStream implements it with a ring.  *)
(***************************************************************************)
EXTENDS Naturals, Sequences

CONSTANTS
    Capacity,     \* frames the queue holds
    PacketFrames  \* frames the reader asks for

VARIABLES
    queue,   \* the frames held, oldest first
    ended,   \* is the source at its end?
    asked,   \* is the reader waiting?
    given,   \* what the reader got and has not used yet
    written  \* how many frames were written; each is known by its number

vars == <<queue, ended, asked, given, written>>

Init ==
    /\ queue = <<>>
    /\ ended = FALSE
    /\ asked = FALSE
    /\ given = <<>>
    /\ written = 0

Newest(q) == IF Len(q) > Capacity THEN SubSeq(q, Len(q) - Capacity + 1, Len(q)) ELSE q

\* The reader gets the first n frames of q.
Take(q, n) ==
    /\ given' = SubSeq(q, 1, n)
    /\ queue' = SubSeq(q, n + 1, Len(q))
    /\ asked' = FALSE

Write(n) ==
    /\ ~ended
    /\ written' = written + n
    /\ LET q == Newest(queue \o [i \in 1..n |-> written + i])
       IN IF asked /\ Len(q) >= PacketFrames
          THEN Take(q, PacketFrames)
          ELSE queue' = q /\ UNCHANGED <<asked, given>>
    /\ UNCHANGED ended

End ==
    /\ ~ended
    /\ ended' = TRUE
    /\ IF asked THEN Take(queue, Len(queue)) ELSE UNCHANGED <<queue, asked, given>>
    /\ UNCHANGED written

Read ==
    /\ ~asked
    /\ given = <<>>
    /\ \/ Len(queue) >= PacketFrames /\ Take(queue, PacketFrames)
       \/ Len(queue) < PacketFrames /\ ended /\ Take(queue, Len(queue))
       \/ Len(queue) < PacketFrames /\ ~ended /\ asked' = TRUE /\ UNCHANGED <<queue, given>>
    /\ UNCHANGED <<ended, written>>

\* The frames were sent, or the streaming failed.
Use ==
    /\ given # <<>>
    /\ given' = <<>>
    /\ UNCHANGED <<queue, ended, asked, written>>

Next ==
    \/ \E n \in 1..Capacity + 1 : Write(n)
    \/ End
    \/ Read
    \/ Use

Spec == Init /\ [][Next]_vars
=============================================================================
