------------------------------ MODULE Operator -------------------------------
(***************************************************************************)
(* One arena in the cluster: its Arena record and its Pod, the reconciler  *)
(* of operator/controller, and the saga that wants the arena, with         *)
(* K8sProvisioner.  The API server, the kubelet and the garbage collector  *)
(* are external.                                                           *)
(*                                                                         *)
(* The manager's client reads from a cache, which lags behind the API      *)
(* server (seenRec, seenPod); an Update carries the version that was read, *)
(* and fails when the record has changed since.  A call that fails before  *)
(* the first write of a turn changes nothing, and the turn is taken again. *)
(*                                                                         *)
(* Time is two bits: whether the TTL has passed since StartTime, and       *)
(* retainAfterEnd since EndTime.                                           *)
(***************************************************************************)
EXTENDS Integers

CONSTANTS Absent,        \* no such object
          SagaTimeout,   \* polls until the context of runSaga ends
          ReadyTimeout,  \* polls until K8sProvisioner.ReadyTimeout
          MaxPods,       \* bound on Pods created
          MaxFaults      \* bound on API calls that fail, Pods that are lost and
                         \* crashes of the operator or the server

\* A ReadyTimeout that is not positive stands for the default.
ASSUME OperatorAssumption ==
  /\ \A n \in {SagaTimeout, ReadyTimeout, MaxPods, MaxFaults} : n \in Nat
  /\ ReadyTimeout > 0

VARIABLES rec,         \* the Arena record
          pod,         \* the Pod
          seenRec, seenPod,
          work,        \* the turn of Reconcile that is between two writes, and what it read
          ttlOver,     \* the TTL has passed since StartTime
          retainOver,  \* retainAfterEnd has passed since EndTime
          saga,        \* runSaga
          polls, pods, lost, faults

api == <<rec, pod>>
cache == <<seenRec, seenPod>>
clocks == <<ttlOver, retainOver>>
sagaVars == <<saga, polls>>
opVars == <<api, cache, work, clocks, sagaVars, pods, lost, faults>>

NoEndpoint == 0

\* Phase "None" is the empty string.  started and ended: StartTime and EndTime
\* are set.  endpoint is the Pod it leads to.
Record == [deleting : BOOLEAN, finalizer : BOOLEAN,
           phase : {"None", "Pending", "Running", "Completed", "Failed"},
           started : BOOLEAN, ended : BOOLEAN, endpoint : 0..MaxPods]
PodObject == [id : 1..MaxPods, phase : {"Pending", "Running", "Succeeded", "Failed"},
              dying : BOOLEAN]

ASSUME AbsentAssumption == Absent \notin Record \cup PodObject

\* Type invariant.
OpTypeOK ==
  /\ rec \in Record \cup {Absent} /\ seenRec \in Record \cup {Absent}
  /\ pod \in PodObject \cup {Absent} /\ seenPod \in PodObject \cup {Absent}
  /\ work.at \in {"idle", "created", "collect", "finalize"}
  /\ work.read \in Record \cup {Absent}
  /\ ttlOver \in BOOLEAN /\ retainOver \in BOOLEAN
  /\ saga \in {"start", "wait", "assign", "done", "cancelled", "crashed"}
  /\ polls \in 0..ReadyTimeout+SagaTimeout /\ pods \in 0..MaxPods
  /\ lost \in 0..MaxFaults /\ faults \in 0..MaxFaults

Idle == [at |-> "idle", read |-> Absent]

OpInit ==
  /\ rec = Absent /\ pod = Absent /\ seenRec = Absent /\ seenPod = Absent
  /\ work = Idle
  /\ ttlOver = FALSE /\ retainOver = FALSE
  /\ saga = "start" /\ polls = 0
  /\ pods = 0 /\ lost = 0 /\ faults = 0

Fault == lost + faults < MaxFaults /\ faults' = faults + 1

-----------------------------------------------------------------------------
(* The saga: Provision, Assign and Destroy against the API server itself. *)

\* The record after a Delete: with a finalizer it is only marked.
Deleted(r) == IF r # Absent /\ r.finalizer THEN [r EXCEPT !.deleting = TRUE] ELSE Absent

\* Create; an error says nothing about whether the record is there.
Provision ==
  /\ saga = "start"
  /\ rec' = [deleting |-> FALSE, finalizer |-> FALSE, phase |-> "None", started |-> FALSE,
             ended |-> FALSE, endpoint |-> NoEndpoint]
  /\ \/ saga' = "wait" /\ UNCHANGED faults
     \/ saga' = "cancelled" /\ Fault
  /\ UNCHANGED <<pod, cache, work, clocks, polls, pods, lost>>

\* Mutant: an arena that is not ready in time is left behind.
MutGivenUp(r) == r

\* What Provision does to the record of an arena that failed or is not ready in time.
GivenUp(r) == Deleted(r)

\* Provision calls Destroy and gives up, whatever Destroy says.
Abandon ==
  /\ saga' = "cancelled"
  /\ \/ rec' = GivenUp(rec) /\ UNCHANGED faults
     \/ Fault /\ UNCHANGED rec

\* The wait ends without an arena: at ctx.Done or when Get fails nothing is cleaned up.
Unready(p) ==
  \/ /\ p >= SagaTimeout
     /\ saga' = "cancelled" /\ UNCHANGED <<rec, faults>>
  \/ /\ p < SagaTimeout /\ p >= ReadyTimeout
     /\ Abandon
  \/ /\ p < SagaTimeout /\ p < ReadyTimeout
     /\ UNCHANGED <<saga, rec, faults>>

\* One turn of the loop that waits for Running.
Poll ==
  /\ saga = "wait"
  /\ \/ /\ IF rec = Absent THEN UNCHANGED faults ELSE Fault
        /\ saga' = "cancelled"
        /\ UNCHANGED <<rec, polls>>
     \/ /\ rec # Absent /\ rec.phase = "Running" /\ rec.endpoint # NoEndpoint
        /\ saga' = "assign"
        /\ UNCHANGED <<rec, polls, faults>>
     \/ /\ rec # Absent /\ rec.phase = "Failed"
        /\ Abandon
        /\ UNCHANGED polls
     \/ /\ rec # Absent /\ rec.phase # "Failed"
        /\ ~(rec.phase = "Running" /\ rec.endpoint # NoEndpoint)
        /\ polls' = polls + 1
        /\ Unready(polls + 1)
  /\ UNCHANGED <<pod, cache, work, clocks, pods, lost>>

\* The players are assigned, or the arena is destroyed (if the call succeeds).
Assign ==
  /\ saga = "assign"
  /\ \/ saga' = "done" /\ UNCHANGED <<rec, faults>>
     \/ saga' = "cancelled" /\ rec' = Deleted(rec) /\ UNCHANGED faults
     \/ saga' = "cancelled" /\ Fault /\ UNCHANGED rec
  /\ UNCHANGED <<pod, cache, work, clocks, polls, pods, lost>>

\* The server crashes; nobody takes its sagas up again.
ServerCrash ==
  /\ saga \in {"wait", "assign"} /\ saga' = "crashed"
  /\ Fault
  /\ UNCHANGED <<api, cache, work, clocks, polls, pods, lost>>

-----------------------------------------------------------------------------
(* Reconcile.  A turn reads the cache and takes the first step that applies. *)

\* Mutant: an update does not look at the version.
MutCurrent(r) == rec # Absent

\* The record is still as it was read, so that an update of it succeeds.
Current(r) == r = rec /\ rec # Absent

Terminal(r) == r.phase \in {"Completed", "Failed"}

\* Mutant: a record that is final is reconciled like any other.
MutLive(r) == TRUE

\* The test of the phase that leads past the terminal case.
Live(r) == ~Terminal(r)

\* A turn begins with a record that is to be reconciled.
Begins == work.at = "idle" /\ seenRec # Absent

\* deletePod: Get from the cache, Delete by name.
DeletePod == pod' = IF seenPod # Absent /\ pod # Absent THEN [pod EXCEPT !.dying = TRUE] ELSE pod

Expired(r) == r.started /\ ttlOver

\* The finalizer is put on first.
AddFinalizer ==
  /\ Begins /\ ~seenRec.deleting /\ ~seenRec.finalizer /\ Current(seenRec)
  /\ rec' = [rec EXCEPT !.finalizer = TRUE]
  /\ UNCHANGED <<pod, cache, work, clocks, sagaVars, pods, lost, faults>>

\* finalize: the Pod is deleted, then the finalizer taken off.
Finalize ==
  /\ Begins /\ seenRec.deleting
  /\ DeletePod
  /\ work' = [at |-> "finalize", read |-> seenRec]
  /\ UNCHANGED <<rec, cache, clocks, sagaVars, pods, lost, faults>>

RemoveFinalizer ==
  /\ work.at = "finalize" /\ Current(work.read)
  /\ rec' = Absent
  /\ work' = Idle
  /\ UNCHANGED <<pod, cache, clocks, sagaVars, pods, lost, faults>>

\* A turn with a record that has its finalizer and is not being deleted.
Tends == Begins /\ ~seenRec.deleting /\ seenRec.finalizer

\* A final phase: the Pod is deleted ...
Clean ==
  /\ Tends /\ Terminal(seenRec)
  /\ DeletePod
  /\ work' = [at |-> "collect", read |-> seenRec]
  /\ UNCHANGED <<rec, cache, clocks, sagaVars, pods, lost, faults>>

\* Mutant: the record of a match that is over is kept.
MutCollected(r) == r

\* The record once retainAfterEnd has passed.
Collected(r) == Deleted(r)

\* ... then EndTime is set, or the record deleted when it has been seen long enough.
Collect ==
  /\ work.at = "collect"
  /\ work' = Idle
  /\ \/ /\ ~work.read.ended /\ Current(work.read)
        /\ rec' = [rec EXCEPT !.ended = TRUE]
        /\ retainOver' = FALSE
     \/ /\ work.read.ended /\ retainOver
        /\ rec' = IF rec = Absent THEN Absent ELSE Collected(rec)
        /\ UNCHANGED retainOver
     \/ /\ work.read.ended /\ ~retainOver
        /\ UNCHANGED <<rec, retainOver>>
  /\ UNCHANGED <<pod, cache, ttlOver, sagaVars, pods, lost, faults>>

\* The TTL is over: the arena counts as completed.
Expire ==
  /\ Tends /\ Live(seenRec) /\ Expired(seenRec) /\ Current(seenRec)
  /\ rec' = [rec EXCEPT !.phase = "Completed"]
  /\ UNCHANGED <<pod, cache, work, clocks, sagaVars, pods, lost, faults>>

\* No Pod is seen: one is created ...
CreatePod ==
  /\ Tends /\ Live(seenRec) /\ ~Expired(seenRec)
  /\ seenPod = Absent /\ pod = Absent /\ pods < MaxPods
  /\ pods' = pods + 1
  /\ pod' = [id |-> pods', phase |-> "Pending", dying |-> FALSE]
  /\ work' = [at |-> "created", read |-> seenRec]
  /\ UNCHANGED <<rec, cache, clocks, sagaVars, lost, faults>>

\* ... then StartTime is set.
SetStarted ==
  /\ work.at = "created" /\ Current(work.read)
  /\ rec' = [rec EXCEPT !.phase = "Pending", !.started = TRUE]
  /\ ttlOver' = FALSE
  /\ work' = Idle
  /\ UNCHANGED <<pod, cache, retainOver, sagaVars, pods, lost, faults>>

PhaseOf(p) == CASE p.phase = "Running"   -> "Running"
                [] p.phase = "Succeeded" -> "Completed"
                [] p.phase = "Failed"    -> "Failed"
                [] OTHER                 -> "Pending"

EndpointOf(p) == IF p.phase = "Pending" THEN NoEndpoint ELSE p.id

\* A Pod is seen: its state is written to the record.
Reflect ==
  /\ Tends /\ Live(seenRec) /\ ~Expired(seenRec)
  /\ seenPod # Absent /\ Current(seenRec)
  /\ rec' = [rec EXCEPT !.phase = PhaseOf(seenPod), !.endpoint = EndpointOf(seenPod)]
  /\ UNCHANGED <<pod, cache, work, clocks, sagaVars, pods, lost, faults>>

\* The second write of a turn fails, or the operator crashes before it.
GiveUp ==
  /\ work.at # "idle"
  /\ work' = Idle
  /\ IF Current(work.read) THEN Fault ELSE UNCHANGED faults
  /\ UNCHANGED <<api, cache, clocks, sagaVars, pods, lost>>

-----------------------------------------------------------------------------
(* The cluster. *)

\* The watches bring the cache up to date.
SeeRec ==
  /\ seenRec # rec /\ seenRec' = rec
  /\ UNCHANGED <<api, seenPod, work, clocks, sagaVars, pods, lost, faults>>

SeePod ==
  /\ seenPod # pod /\ seenPod' = pod
  /\ UNCHANGED <<api, seenRec, work, clocks, sagaVars, pods, lost, faults>>

\* The process starts, exits with 0 (the match is over) or fails; RestartPolicy is Never.
PodMoves ==
  /\ pod # Absent
  /\ \/ pod.phase = "Pending" /\ \E ph \in {"Running", "Failed"} : pod' = [pod EXCEPT !.phase = ph]
     \/ pod.phase = "Running" /\ \E ph \in {"Succeeded", "Failed"} : pod' = [pod EXCEPT !.phase = ph]
  /\ UNCHANGED <<rec, cache, work, clocks, sagaVars, pods, lost, faults>>

\* The kubelet stops a Pod that is being deleted.
PodGone ==
  /\ pod # Absent /\ pod.dying
  /\ pod' = Absent
  /\ UNCHANGED <<rec, cache, work, clocks, sagaVars, pods, lost, faults>>

\* A Pod is evicted, or deleted by hand.
PodLost ==
  /\ pod # Absent
  /\ lost + faults < MaxFaults /\ lost' = lost + 1
  /\ pod' = Absent
  /\ UNCHANGED <<rec, cache, work, clocks, sagaVars, pods, faults>>

\* The garbage collector deletes a Pod whose owner (SetControllerReference) is gone.
CollectGarbage ==
  /\ rec = Absent /\ pod # Absent /\ ~pod.dying
  /\ pod' = [pod EXCEPT !.dying = TRUE]
  /\ UNCHANGED <<rec, cache, work, clocks, sagaVars, pods, lost, faults>>

TimePasses ==
  /\ rec # Absent
  /\ \/ rec.started /\ ~ttlOver /\ ttlOver' = TRUE /\ UNCHANGED retainOver
     \/ rec.ended /\ ~retainOver /\ retainOver' = TRUE /\ UNCHANGED ttlOver
  /\ UNCHANGED <<api, cache, work, sagaVars, pods, lost, faults>>

-----------------------------------------------------------------------------

Reconcile ==
  \/ AddFinalizer \/ Finalize \/ RemoveFinalizer \/ Clean \/ Collect
  \/ Expire \/ CreatePod \/ SetStarted \/ Reflect \/ GiveUp

OpNext ==
  \/ Provision \/ Poll \/ Assign \/ ServerCrash
  \/ Reconcile
  \/ SeeRec \/ SeePod \/ PodMoves \/ PodGone \/ PodLost \/ CollectGarbage \/ TimePasses

OpSpec == OpInit /\ [][OpNext]_opVars

-----------------------------------------------------------------------------
(* Properties. *)

\* A record that has reached a final phase keeps it, though turns decide on what a
\* stale cache says.
FinalStays ==
  [][rec # Absent /\ rec' # Absent /\ Terminal(rec) => rec'.phase = rec.phase]_opVars

\* A repeated Reconcile does not create a second Pod (operator/README.md), whatever the
\* cache says and wherever a turn breaks off, also once the match is over and its Pod
\* is gone: an arena has one Pod in its life, unless Pods were evicted or deleted by hand.
OnePod == pods <= 1 \/ lost > 0

\* "No arena leaks" (comment of runSaga): a saga that is cancelled has seen to it that
\* its arena goes, if none of its calls failed.
CancelledIsDestroyed ==
  saga = "cancelled" /\ faults = 0 => rec = Absent \/ rec.deleting

\* How far that is so: where no call failed, a saga is cancelled without a Delete of its
\* arena only when its context ended during the wait.
OnlyTimeoutLeaks ==
  saga = "cancelled" /\ faults = 0 /\ polls < SagaTimeout => rec = Absent \/ rec.deleting

\* An arena that lives longer than the TTL is cleaned up, "a safety valve against runaway
\* instances" (comment of ArenaSpec.TTLSeconds).
\* The code does not keep it: README, section 3.
TTLClears == <>[](rec = Absent /\ pod = Absent)

\* How far that is so, crashes included: in the end neither a record nor a Pod is left,
\* whatever the saga did, unless StartTime was not written after the Pod was created and
\* the Pod does not end by itself.
EverythingGoes ==
  \/ <>[](rec = Absent /\ pod = Absent)
  \/ <>[](rec # Absent /\ ~rec.started /\ pod # Absent /\ pod.phase \in {"Pending", "Running"})
=============================================================================
