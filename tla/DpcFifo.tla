------------------------------- MODULE DpcFifo -------------------------------
(***************************************************************************)
(* What the queue of emulated DPCs of one processor promises: a first-in,  *)
(* first-out queue of DPCs with their arguments, in which a DPC is at most *)
(* once, and a marker that a flush leaves in it.                           *)
(***************************************************************************)
EXTENDS Integers, Sequences

CONSTANTS Dpcs, Params, Marker, Idle

VARIABLES
  queue,   \* pairs of a DPC and its arguments, and perhaps the marker
  current  \* the pair whose routine runs, or Idle

vars == <<queue, current>>

Holds(k, d) == queue[k] # Marker /\ queue[k][1] = d

Init == queue = <<>> /\ current = Idle

Insert(d, p) ==
  /\ \A k \in 1..Len(queue) : ~Holds(k, d)
  /\ queue' = Append(queue, <<d, p>>)
  /\ UNCHANGED current

Remove(d) ==
  /\ \E k \in 1..Len(queue) :
       /\ Holds(k, d)
       /\ queue' = [i \in 1..Len(queue) - 1 |-> queue[IF i < k THEN i ELSE i + 1]]
  /\ UNCHANGED current

Mark ==
  /\ \A k \in 1..Len(queue) : queue[k] # Marker
  /\ queue' = Append(queue, Marker)
  /\ UNCHANGED current

TakeMarker ==
  /\ current = Idle /\ queue # <<>> /\ Head(queue) = Marker
  /\ queue' = Tail(queue)
  /\ UNCHANGED current

TakeDpc ==
  /\ current = Idle /\ queue # <<>> /\ Head(queue) # Marker
  /\ current' = Head(queue)
  /\ queue' = Tail(queue)

Finish ==
  /\ current # Idle
  /\ current' = Idle
  /\ UNCHANGED queue

Next ==
  \/ \E d \in Dpcs : Remove(d) \/ \E p \in Params : Insert(d, p)
  \/ Mark \/ TakeMarker \/ TakeDpc \/ Finish

Spec == Init /\ [][Next]_vars
=============================================================================
