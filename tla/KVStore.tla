------------------------------ MODULE KVStore -------------------------------
(***************************************************************************)
(* What pkg/storage promises its callers: a map whose writes are atomic    *)
(* and survive a crash.  One write is in progress at a time (DB.mu); it    *)
(* takes effect at one instant between its call and its return, and a      *)
(* crash, a failed write or a reopening changes nothing but that write.    *)
(***************************************************************************)
CONSTANTS Key, Val, Missing

VARIABLES kv,   \* the durable contents
          op    \* the write in progress: its record and whether it took effect

NoOp == [status |-> "none"]

Init == kv = [k \in Key |-> Missing] /\ op = NoOp

Call(k, v) ==
  /\ op = NoOp
  /\ op' = [status |-> "called", key |-> k, val |-> v]
  /\ UNCHANGED kv

TakeEffect ==
  /\ op.status = "called"
  /\ kv' = [kv EXCEPT ![op.key] = op.val]
  /\ op' = [op EXCEPT !.status = "logged"]

\* A return without effect is an error or a crash.
Return ==
  /\ op # NoOp
  /\ op' = NoOp
  /\ UNCHANGED kv

Next ==
  \/ \E k \in Key, v \in Val \cup {Missing} : Call(k, v)
  \/ TakeEffect
  \/ Return

Spec == Init /\ [][Next]_<<kv, op>>
=============================================================================
