---------------------------- MODULE Choreography ----------------------------
(***************************************************************************)
(* services/trade, the choreographed saga: Choreographer reads the global  *)
(* log through es.Project, one event after the other in one goroutine, and *)
(* reacts to the events of trade streams.  Clients and the expiry sweeper  *)
(* append their events at any time.                                        *)
(*                                                                         *)
(* log holds the trade events of the store in global order (those of the   *)
(* inventories are skipped by apply).  Project keeps its checkpoint in     *)
(* memory: after a restart every event is reacted to again.                *)
(***************************************************************************)
EXTENDS Inventory

CONSTANTS Offers,      \* Offers[t]: what trade t proposes
          MaxAnswers,  \* bound on Accept, Reject and Expire per trade
          MaxTrouble   \* bound on failing calls of the store, crashes and gathers, together

VARIABLES log,         \* events of trade streams, in global order
          checkpoint,  \* Project: how much of log has been applied
          handler,     \* the reaction in progress and its step
          faults, crashes

vars == <<invVars, log, checkpoint, handler, faults, crashes>>

Answers == {"accepted", "rejected", "expired"}
PhaseEvents == {"proposed", "proposerReserved", "counterpartyReserved", "settled", "cancelled"}
LogEvent == [trade : TradeID, typ : Answers \cup PhaseEvents]
Steps == {"idle", "reserveP", "markP", "reserveC", "markC", "settle1", "settle2", "settle3",
          "settle4", "markS", "undoP", "undoBothP", "undoC", "cancel"}

\* Type invariant.
TypeOK ==
  /\ inv \in [Player -> Seq(InvEvent)] /\ gathers \in Nat
  /\ log \in Seq(LogEvent)
  /\ checkpoint \in 0..Len(log)
  /\ handler \in Steps
  /\ faults \in Nat /\ crashes \in Nat

Init ==
  /\ InvInit
  /\ log = <<>> /\ checkpoint = 0 /\ handler = "idle"
  /\ faults = 0 /\ crashes = 0

\* One more disturbance is within the bound.
Spared == gathers + faults + crashes < MaxTrouble

\* trade.Fold: the answers do not change the phase.
Phase(t) ==
  LET marks == {i \in 1..Len(log) : log[i].trade = t /\ log[i].typ \in PhaseEvents}
  IN  IF marks = {} THEN "none" ELSE log[Max(marks)].typ

Emit(t, typ) == log' = Append(log, [trade |-> t, typ |-> typ])

-----------------------------------------------------------------------------
(* Clients. *)

\* Propose; the caller picks an id once.
Propose(t) ==
  /\ Phase(t) = "none"
  /\ Emit(t, "proposed")
  /\ UNCHANGED <<invVars, checkpoint, handler, faults, crashes>>

\* Accept, Reject or Expire of a trade that was proposed, at any time.
Answer(t, a) ==
  /\ Phase(t) # "none"
  /\ Len(SelectSeq(log, LAMBDA e : e.trade = t /\ e.typ \in Answers)) < MaxAnswers
  /\ Emit(t, a)
  /\ UNCHANGED <<invVars, checkpoint, handler, faults, crashes>>

-----------------------------------------------------------------------------
(* Reactions.  The event reacted to is log[checkpoint + 1]. *)

Event == log[checkpoint + 1]

\* Mutant: onAccepted does not look at the phase.
MutReaction(e) ==
  CASE e.typ = "proposed" /\ Phase(e.trade) = "proposed" -> "reserveP"
    [] e.typ = "accepted" -> "reserveC"
    [] e.typ = "counterpartyReserved" /\ Phase(e.trade) = "counterpartyReserved" -> "settle1"
    [] e.typ \in {"rejected", "expired"} /\ Phase(e.trade) = "proposerReserved" -> "undoP"
    [] OTHER -> "idle"

\* apply and the guards at the head of onProposed, onAccepted,
\* onCounterpartyReserved and onAbort.
Reaction(e) ==
  CASE e.typ = "proposed" /\ Phase(e.trade) = "proposed" -> "reserveP"
    [] e.typ = "accepted" /\ Phase(e.trade) = "proposerReserved" -> "reserveC"
    [] e.typ = "counterpartyReserved" /\ Phase(e.trade) = "counterpartyReserved" -> "settle1"
    [] e.typ \in {"rejected", "expired"} /\ Phase(e.trade) = "proposerReserved" -> "undoP"
    [] OTHER -> "idle"

\* The reaction to an event is over before the next is looked at.
After(step) == IF step = "idle" THEN checkpoint + 1 ELSE checkpoint

React ==
  /\ handler = "idle" /\ checkpoint < Len(log)
  /\ handler' = Reaction(Event)
  /\ checkpoint' = After(handler')
  /\ UNCHANGED <<invVars, log, faults, crashes>>

Goto(step) == handler' = step /\ checkpoint' = After(step)

\* reserveProposer and reserveCounterparty.  Only a ResourceGathered can come
\* between the look and the Append, and it never makes the look's answer
\* wrong: Reserve is one step here (Trade.tla has its retries).
Reserve ==
  LET t == Event.trade
      o == Offers[t]
      r == IF handler = "reserveP"
           THEN [who |-> o.proposer, item |-> o.give, done |-> "markP", bad |-> "cancel"]
           ELSE [who |-> o.counterparty, item |-> o.want, done |-> "markC", bad |-> "undoP"]
      outcome == ReserveOutcome(r.who, t, r.item)
  IN  /\ handler \in {"reserveP", "reserveC"}
      /\ \/ /\ IF outcome = "append" THEN appendMove(r.who, t, r.item, "reserved")
                                     ELSE UNCHANGED inv
            /\ Goto(IF outcome = "refused" THEN r.bad ELSE r.done)
            /\ UNCHANGED faults
         \/ /\ Spared /\ faults' = faults + 1
            /\ Goto(r.bad)
            /\ UNCHANGED inv
      /\ UNCHANGED <<gathers, log, crashes>>

\* crossTransfer and the compensations: the move of each step, the next step
\* and the one after an error (that of a release is not looked at).
Moves(o) ==
  LET move(p, item, typ, next, bad) ==
        [who |-> p, item |-> item, typ |-> typ, next |-> next, bad |-> bad]
  IN  [settle1 |-> move(o.proposer, o.give, "committed", "settle2", "undoBothP"),
       settle2 |-> move(o.counterparty, o.give, "received", "settle3", "undoBothP"),
       settle3 |-> move(o.counterparty, o.want, "committed", "settle4", "undoBothP"),
       settle4 |-> move(o.proposer, o.want, "received", "markS", "undoBothP"),
       undoP |-> move(o.proposer, o.give, "released", "cancel", "cancel"),
       undoBothP |-> move(o.proposer, o.give, "released", "undoC", "undoC"),
       undoC |-> move(o.counterparty, o.want, "released", "cancel", "cancel")]

Move ==
  LET moves == Moves(Offers[Event.trade])
  IN  /\ handler # "idle" /\ handler \in DOMAIN moves
      /\ LET mv == moves[handler]
         IN  \/ /\ idempotentMove(mv.who, Event.trade, mv.item, mv.typ)
                /\ Goto(mv.next)
                /\ UNCHANGED faults
             \/ /\ Spared /\ faults' = faults + 1
                /\ Goto(mv.bad)
                /\ UNCHANGED inv
      /\ UNCHANGED <<gathers, log, crashes>>

\* appendPhase and appendCancelled; their errors are dropped.
Mark ==
  LET marks == [markP |-> "proposerReserved", markC |-> "counterpartyReserved",
                markS |-> "settled", cancel |-> "cancelled"]
  IN  /\ handler \in DOMAIN marks
      /\ Goto("idle")
      /\ \/ Emit(Event.trade, marks[handler]) /\ UNCHANGED faults
         \/ /\ Spared /\ faults' = faults + 1
            /\ UNCHANGED log
      /\ UNCHANGED <<invVars, crashes>>

-----------------------------------------------------------------------------

\* Mutant: the checkpoint survives, and passes over the event in hand.
MutCrash ==
  /\ Spared /\ crashes' = crashes + 1
  /\ checkpoint' = (IF handler = "idle" THEN checkpoint ELSE checkpoint + 1)
  /\ handler' = "idle"
  /\ UNCHANGED <<invVars, log, faults>>

\* The process dies, between any two steps, and starts again.
Crash ==
  /\ Spared /\ crashes' = crashes + 1
  /\ checkpoint' = 0 /\ handler' = "idle"
  /\ UNCHANGED <<invVars, log, faults>>

Work == React \/ Reserve \/ Move \/ Mark

Next ==
  \/ \E t \in TradeID : Propose(t) \/ \E a \in Answers : Answer(t, a)
  \/ Work
  \/ \E p \in Player, k \in Kind :
       Spared /\ Gather(p, k) /\ UNCHANGED <<log, checkpoint, handler, faults, crashes>>
  \/ Crash

Spec == Init /\ [][Next]_vars

\* The goroutine of Project is scheduled.
FairSpec == Spec /\ WF_vars(Work)

-----------------------------------------------------------------------------
(* Properties. *)

Count(t, typs) == Len(SelectSeq(log, LAMBDA e : e.trade = t /\ e.typ \in typs))

\* The verdict on trade t is what the inventories say.
VerdictKept(t) ==
  /\ Phase(t) = "settled" => Swapped(Offers[t], t)
  /\ Phase(t) = "cancelled" => Untouched(t)

\* "Either the trade happens completely or not at all" (docs/2pc-vs-saga.md):
\* the verdict in the stream is what the inventories say, as long as no call of
\* the store fails and the process does not die between a compensation and the
\* event that records it.
AllOrNothing == faults + crashes = 0 => \A t \in TradeID : VerdictKept(t)

\* "Even if the projection plays the events again from the start after a restart, the
\* steps are not applied twice" (comment of Choreographer): with no failed call the
\* verdict is what the inventories say, after a crash too.
SafeToReplay == faults = 0 => \A t \in TradeID : VerdictKept(t)

\* A trade that was answered gets its verdict, a restart in the middle of any
\* reaction included, unless the Append of a phase fails.
EventuallyDecided ==
  \A t \in TradeID :
    Count(t, Answers) > 0 ~> (faults > 0 \/ Phase(t) \in {"settled", "cancelled"})
=============================================================================
