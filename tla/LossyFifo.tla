----------------------------- MODULE LossyFifo -----------------------------
(***************************************************************************)
(* What a network card and its driver promise to the reader of frames.     *)
(* Frames come in order and once, each cut to the CAPACITY of the reader's *)
(* buffer.  There are two losses and no other: a frame that meets ROOM     *)
(* older ones not yet read is dropped, and a damaged arrival takes what    *)
(* came behind it along.                                                   *)
(***************************************************************************)
EXTENDS Integers, Sequences

CONSTANTS Frames, NoFrame, ROOM, CAPACITY

VARIABLES inflight,     \* the arrivals, NoFrame for a damaged one
          out           \* the last frame read

vars == <<inflight, out>>

Arrive == \E f \in Frames \cup {NoFrame} : inflight' = Append(inflight, f) /\ UNCHANGED out

\* ROOM frames wait: the one behind them is dropped.
Overflow == /\ Len(inflight) > ROOM
            /\ \A i \in 1..(ROOM + 1) : inflight[i] \in Frames
            /\ inflight' = [i \in 1..(Len(inflight) - 1) |->
                              IF i <= ROOM THEN inflight[i] ELSE inflight[i + 1]]
            /\ UNCHANGED out

\* The first damaged arrival is thrown away, with everything behind it.
Restart == \E k \in 1..Len(inflight) :
              /\ inflight[k] = NoFrame
              /\ \A i \in 1..(k - 1) : inflight[i] \in Frames
              /\ inflight' = [i \in 1..(k - 1) |-> inflight[i]]
              /\ UNCHANGED out

Cut(f) == [size |-> IF f.size > CAPACITY THEN CAPACITY ELSE f.size, data |-> f.data]

Deliver == /\ inflight # << >> /\ Head(inflight) \in Frames
           /\ out' = Cut(Head(inflight))
           /\ inflight' = Tail(inflight)

Init == inflight = << >> /\ out = NoFrame

Next == Arrive \/ Overflow \/ Restart \/ Deliver

Spec == Init /\ [][Next]_vars
=============================================================================
