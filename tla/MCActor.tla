------------------------------ MODULE MCActor -------------------------------
(***************************************************************************)
(* Two libraries of the server for TLC: an actor and its senders, and the  *)
(* guard of a dependency and its callers.  They share no state, so a       *)
(* behaviour is one of either.                                             *)
(***************************************************************************)
EXTENDS Actor, Resilience

VARIABLE part

\* Two sides of the actor, each within the bounds of a run.  Mixed: one send less than
\* MaxSends, among poison, a Stop, mailboxes that drop, and panics.
Mixed == TotalSends' < MaxSends /\ (overflow' = "Block" \/ panicked' = 0)

\* Crowd: MaxSends sends, so that two senders can wait at a full mailbox, and no more.
Crowd ==
  /\ overflow' = "Block" /\ panicked' = 0 /\ stopper' = "idle"
  /\ \A s \in Sender : ~sender'[s].poison

MCInit ==
  /\ part \in {"actor", "crowd", "guard"}
  /\ Init /\ GuardInit

MCNext ==
  /\ UNCHANGED part
  /\ \/ part = "actor" /\ Next /\ Mixed /\ UNCHANGED guardVars
     \/ part = "crowd" /\ Next /\ Crowd /\ UNCHANGED guardVars
     \/ part = "guard" /\ GuardNext /\ UNCHANGED vars

\* The goroutines are scheduled: the process, the senders, and a Stop that has begun.
ActorFairness ==
  /\ WF_vars(part # "guard" /\ Runs)
  /\ WF_vars(part # "guard" /\ stopper = "signal" /\ Stop)
  /\ \A s \in Sender : WF_vars(part # "guard" /\ Sends(s))

\* Time passes, calls keep coming and return, and the dependency works again after
\* the last of the MaxErrors errors.
GuardFairness ==
  /\ WF_guardVars(part = "guard" /\ Cool)
  /\ \A c \in Call : WF_guardVars(part = "guard" /\ Steps(c))

MCSpec == MCInit /\ [][MCNext]_<<part, vars, guardVars>> /\ ActorFairness /\ GuardFairness
=============================================================================
