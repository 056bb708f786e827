------------------------------- MODULE Outbox -------------------------------
(***************************************************************************)
(* services/outbox over pkg/bus: the relay that carries the event store to *)
(* the bus, the JetStream stream, and one read model fed by Consume.       *)
(*                                                                         *)
(* Store, relay and read model live in one process and die together; the   *)
(* database, the relay's checkpoint and the bus survive.  The read model   *)
(* has an ephemeral consumer, so it starts from the first message again.   *)
(* JetStream is external: it keeps every message it stored in order,       *)
(* swallows a repeated Msg-Id while its dedupe window lasts, and delivers  *)
(* the message at the head until it is acknowledged (MaxInFlight = 1).     *)
(***************************************************************************)
EXTENDS EventStore

CONSTANTS ReadLimits,   \* what Relay.batch may be
          MaxDeliver,   \* SubscribeOptions.MaxDeliver
          MaxErrors,    \* bound on failing publishes, checkpoints and acks
          MaxApplyErrs, \* bound on errors of the read model's apply
          MaxDlqErrors, \* bound on failing publishes to the DLQ
          MaxTrouble    \* bound on all of these, crashes and failing Puts together

ASSUME OutboxAssumption ==
  /\ ReadLimits \subseteq Nat \ {0} /\ MaxDeliver \in Nat \ {0} /\ MaxErrors \in Nat
  /\ MaxApplyErrs \in Nat /\ MaxDlqErrors \in Nat /\ MaxTrouble \in Nat

VARIABLES
  batch,      \* Relay.batch
  relay,      \* what run is doing: "idle", "scan", "publish", "save"
  start,      \* the batch ReadAll starts its scan at
  evs,        \* the events left to publish of the current batch
  last,       \* the last global of the current batch
  checkpoint, \* Relay.checkpoint
  saved,      \* the checkpoint on disk
  msgs,       \* the stream of the bus
  window,     \* Msg-Ids the stream still remembers
  pos,        \* the message the consumer is at
  deliveries, \* how often it has been delivered
  lastApplied, applied,   \* of Consume; what apply was called with, in order
  dead,       \* the dead letter queue
  errors, applyErrs, dlqErrs

relayVars == <<batch, relay, start, evs, last, checkpoint>>
busVars == <<msgs, window>>
readVars == <<pos, deliveries, lastApplied, applied>>
errVars == <<errors, applyErrs, dlqErrs>>
vars == <<esVars, relayVars, saved, busVars, readVars, dead, errVars>>

\* Type invariant.
TypeOK ==
  /\ EsTypeOK
  /\ batch \in ReadLimits /\ relay \in {"idle", "scan", "publish", "save"}
  /\ start \in 0..MaxEvents /\ last \in 0..MaxEvents
  /\ evs \in Seq(Event)
  /\ checkpoint \in 0..MaxEvents /\ saved \in 0..MaxEvents
  /\ msgs \in Seq(Event) /\ window \subseteq Global
  /\ pos \in 1..(Len(msgs) + 1) /\ deliveries \in 0..MaxDeliver + MaxErrors
  /\ lastApplied \in 0..MaxEvents /\ applied \in Seq(Event)
  /\ dead \subseteq Event
  /\ errors \in Nat /\ applyErrs \in Nat /\ dlqErrs \in Nat

Init ==
  /\ EsInit
  /\ batch \in ReadLimits /\ relay = "idle" /\ start = 0 /\ evs = <<>> /\ last = 0
  /\ checkpoint = 0 /\ saved = 0
  /\ msgs = <<>> /\ window = {}
  /\ pos = 1 /\ deliveries = 0 /\ lastApplied = 0 /\ applied = <<>>
  /\ dead = {}
  /\ errors = 0 /\ applyErrs = 0 /\ dlqErrs = 0

\* One more thing may go wrong.
Spared == faults + crashes + errors + applyErrs + dlqErrs < MaxTrouble

-----------------------------------------------------------------------------
(* The relay. *)

\* ReadAll, under Store.mu.  The signal of notifyAll and the one second timer
\* both lead here; since the timer always does, the signal is left out.
ReadStart ==
  /\ up /\ relay = "idle" /\ batchStarts # <<>>
  /\ relay' = "scan"
  /\ start' = batchStartFor(checkpoint + 1)
  /\ UNCHANGED <<esVars, batch, evs, last, checkpoint, saved, busVars, readVars, dead, errVars>>

\* ReadAll, the scan without the lock.
ReadScan ==
  LET found == ScanFrom(start, checkpoint + 1, batch)
  IN  /\ up /\ relay = "scan"
      /\ IF found = <<>> THEN relay' = "idle" /\ UNCHANGED <<evs, last>>
         ELSE relay' = "publish" /\ evs' = found /\ last' = Last(found).global
      /\ UNCHANGED <<esVars, batch, start, checkpoint, saved, busVars, readVars, dead, errVars>>

\* JetStream stores e unless it remembers the Msg-Id.
Store(e) ==
  /\ msgs' = IF e.global \in window THEN msgs ELSE Append(msgs, e)
  /\ window' = window \cup {e.global}

WindowExpires ==
  /\ \E id \in window : window' = window \ {id}
  /\ UNCHANGED <<esVars, relayVars, saved, msgs, readVars, dead, errVars>>

publishNext ==
  /\ up /\ relay = "publish"
  /\ Store(Head(evs))
  /\ evs' = Tail(evs)
  /\ relay' = IF Tail(evs) = <<>> THEN "save" ELSE "publish"
  /\ UNCHANGED <<esVars, batch, start, last, checkpoint, saved, readVars, dead, errVars>>

\* Mutant: run looks at no error of the publish and goes on to the checkpoint.
MutPublishFails ==
  /\ up /\ relay = "publish" /\ Spared /\ errors < MaxErrors
  /\ errors' = errors + 1
  /\ Store(Head(evs)) \/ UNCHANGED busVars
  /\ relay' = "save" /\ evs' = <<>>
  /\ UNCHANGED <<esVars, batch, start, last, checkpoint, saved, readVars, dead, applyErrs, dlqErrs>>

\* Publish returns an error, before or after the bus has stored the message;
\* run comes back to the same checkpoint.
publishFails ==
  /\ up /\ relay = "publish" /\ Spared /\ errors < MaxErrors
  /\ errors' = errors + 1
  /\ Store(Head(evs)) \/ UNCHANGED busVars
  /\ relay' = "idle" /\ evs' = <<>>
  /\ UNCHANGED <<esVars, batch, start, last, checkpoint, saved, readVars, dead, applyErrs, dlqErrs>>

saveCheckpoint ==
  /\ up /\ relay = "save"
  /\ saved' = last /\ checkpoint' = last
  /\ relay' = "idle"
  /\ UNCHANGED <<esVars, batch, start, evs, last, busVars, readVars, dead, errVars>>

\* Put returns an error, before or after the record is durable.
saveCheckpointFails ==
  /\ up /\ relay = "save" /\ Spared /\ errors < MaxErrors
  /\ errors' = errors + 1
  /\ saved' \in {saved, last}
  /\ relay' = "idle"
  /\ UNCHANGED <<esVars, batch, start, evs, last, checkpoint, busVars, readVars, dead,
                 applyErrs, dlqErrs>>

-----------------------------------------------------------------------------
(* The read model. *)

\* Mutant: only the event applied last is recognised.
MutDuplicate(e) == e.global = lastApplied

\* env.Global <= lastApplied
Duplicate(e) == e.global <= lastApplied

\* msg.Ack: the next message is delivered.
Ack == pos' = pos + 1 /\ deliveries' = 0

\* The handler returns nil.  Ack is sent once and may be lost; AckWait then
\* brings the message again.
Handle ==
  /\ up /\ pos <= Len(msgs)
  /\ IF Duplicate(msgs[pos]) THEN UNCHANGED <<lastApplied, applied>>
     ELSE /\ applied' = Append(applied, msgs[pos])
          /\ lastApplied' = msgs[pos].global
  /\ \/ Ack /\ UNCHANGED errors
     \/ /\ Spared /\ errors < MaxErrors /\ errors' = errors + 1
        /\ deliveries' = deliveries + 1 /\ UNCHANGED pos
  /\ UNCHANGED <<esVars, relayVars, saved, busVars, dead, applyErrs, dlqErrs>>

\* Mutant: the last attempt is acknowledged without being moved to the DLQ.
MutGiveUp(e) == Ack /\ UNCHANGED <<dead, dlqErrs>>

\* The last attempt has failed: the message goes to the DLQ and is
\* acknowledged.  An error of that publish is not looked at.
GiveUp(e) ==
  /\ Ack
  /\ \/ dead' = dead \cup {e} /\ UNCHANGED dlqErrs
     \/ Spared /\ dlqErrs < MaxDlqErrors /\ dlqErrs' = dlqErrs + 1 /\ UNCHANGED dead

\* apply (or Decode) returns an error.
HandleFails ==
  /\ up /\ pos <= Len(msgs) /\ ~Duplicate(msgs[pos])
  /\ Spared /\ applyErrs < MaxApplyErrs /\ applyErrs' = applyErrs + 1
  /\ IF deliveries + 1 >= MaxDeliver THEN GiveUp(msgs[pos])
     ELSE deliveries' = deliveries + 1 /\ UNCHANGED <<pos, dead, dlqErrs>>
  /\ UNCHANGED <<esVars, relayVars, saved, busVars, lastApplied, applied, errors>>

-----------------------------------------------------------------------------
(* The process. *)

Crash ==
  /\ Spared /\ EsCrash
  /\ relay' = "idle" /\ start' = 0 /\ evs' = <<>> /\ last' = 0 /\ checkpoint' = 0
  /\ pos' = 1 /\ deliveries' = 0 /\ lastApplied' = 0 /\ applied' = <<>>
  /\ UNCHANGED <<batch, saved, busVars, dead, errVars>>

\* es.Open, outbox.Open and the read models' New.
Open ==
  /\ EsOpen
  /\ checkpoint' = saved
  /\ UNCHANGED <<batch, relay, start, evs, last, saved, busVars, readVars, dead, errVars>>

StoreStep ==
  /\ \/ \E s \in Stream, v \in {AnyVersion} \cup 0..MaxEvents, n \in 1..MaxBatch :
          AppendPut(s, v, n) \/ (Spared /\ AppendPutFails(s, v, n))
     \/ AppendReturns
  /\ UNCHANGED <<relayVars, saved, busVars, readVars, dead, errVars>>

Next ==
  \/ StoreStep
  \/ ReadStart \/ ReadScan \/ publishNext \/ publishFails
  \/ saveCheckpoint \/ saveCheckpointFails
  \/ WindowExpires
  \/ Handle \/ HandleFails
  \/ Crash \/ Open

Spec == Init /\ [][Next]_vars

\* The relay's goroutine runs (its timer wakes it), JetStream keeps delivering
\* what is not acknowledged, a started Append returns and a crashed process is
\* started again.  Errors are bounded by the model.
FairSpec ==
  /\ Spec
  /\ WF_vars(AppendReturns /\ UNCHANGED <<relayVars, saved, busVars, readVars, dead, errVars>>)
  /\ WF_vars(ReadStart) /\ WF_vars(ReadScan) /\ WF_vars(publishNext)
  /\ WF_vars(saveCheckpoint) /\ WF_vars(Handle) /\ WF_vars(Open)

-----------------------------------------------------------------------------
(* Properties. *)

\* The read model is given every event at most once and in global order
\* (comment of Consume), although the relay republishes after a failure or a
\* crash and the bus redelivers.
AppliedOnceInOrder ==
  \A i, j \in 1..Len(applied) : i < j => applied[i].global < applied[j].global

\* "Written but not published is a temporary state, the relay catches up" (package
\* comment of the outbox): the checkpoint on disk passes no acknowledged event that
\* is not in the stream.
\* The code does not keep it: README, section 3.
NothingSkipped == \A e \in acked : e.global <= saved => e \in ToSet(msgs)

\* The same as long as no Put has failed behind a durable record.  The number of
\* such a record is given again, and the relay may have published it by then.
NeverSkipped == faults = 0 => NothingSkipped

\* "When the attempts are used up the message is moved to the DLQ" (comment of
\* Consume): with each number given once, a message the consumer is past has been
\* applied, that very event, or is in the DLQ.
\* The code does not keep it: README, section 3.
MovedToDlq ==
  faults = 0 => \A i \in 1..(pos - 1) : msgs[i] \in ToSet(applied) \cup dead

\* The same as long as no publish to the DLQ has failed: Subscribe acknowledges the
\* message all the same.
NeverDropped == dlqErrs = 0 => MovedToDlq

\* In the end every acknowledged event is in the read model or the DLQ and stays
\* there, a restarted read model included, under the two conditions above.  (There
\* is a last Append: the calls are bounded.)
EventuallyApplied ==
  acked # {} ~> [](faults + dlqErrs = 0 => \A e \in acked : e \in ToSet(applied) \cup dead)
=============================================================================
