-------------------------------- MODULE Fifo ---------------------------------
(***************************************************************************)
(* What pkg/ringbuf promises: a bounded queue of many producers and one    *)
(* consumer.  A push takes its place in one step and is ready in a later   *)
(* one (the footnote of the package comment); the consumer takes the       *)
(* oldest entry, once that is ready; a push is refused only when the queue *)
(* is full.                                                                *)
(***************************************************************************)
EXTENDS Naturals, Sequences

CONSTANTS Producer, Value, Bound

VARIABLES queue,    \* entries [val, ready], oldest first
          popped,   \* what the consumer has been given
          refused   \* refused[p]: how often a push of p was refused

Init == queue = <<>> /\ popped = <<>> /\ refused = [p \in Producer |-> 0]

Take(v) ==
  /\ Len(queue) < Bound
  /\ queue' = Append(queue, [val |-> v, ready |-> FALSE])
  /\ UNCHANGED <<popped, refused>>

Publish(i) ==
  /\ ~queue[i].ready
  /\ queue' = [queue EXCEPT ![i].ready = TRUE]
  /\ UNCHANGED <<popped, refused>>

Refuse(p) ==
  /\ Len(queue) = Bound
  /\ refused' = [refused EXCEPT ![p] = @ + 1]
  /\ UNCHANGED <<queue, popped>>

Pop ==
  /\ queue # <<>> /\ Head(queue).ready
  /\ popped' = Append(popped, Head(queue).val)
  /\ queue' = Tail(queue)
  /\ UNCHANGED refused

Next ==
  \/ \E v \in Value : Take(v)
  \/ \E i \in 1..Len(queue) : Publish(i)
  \/ \E p \in Producer : Refuse(p)
  \/ Pop

Spec == Init /\ [][Next]_<<queue, popped, refused>>
=============================================================================
