------------------------------- MODULE Trade --------------------------------
(***************************************************************************)
(* services/trade, the orchestrated saga: Orchestrator.Execute, run by the *)
(* gateway once per request, any number of them at a time.                 *)
(*                                                                         *)
(* call[t] is the running (or returned) Execute for trade id t; each step  *)
(* is one call on the event store.  Any Append may return an error, and    *)
(* the process may die: the streams stay, the calls are gone, and          *)
(* newTradeID counts from 1 again.                                         *)
(***************************************************************************)
EXTENDS Inventory

CONSTANTS Offers,      \* offers a client may make
          Idle,        \* no Execute has run for this id
          MaxRetries,  \* maxReserveRetries
          MaxTrouble   \* bound on failing calls of the store, crashes and gathers, together

ASSUME TradeAssumption ==
  /\ MaxRetries \in Nat \ {0} /\ MaxTrouble \in Nat
  /\ TradeID \subseteq Nat

VARIABLES call,       \* the Execute of each trade id
          stream,     \* stream[t]: the events of trade-<t>
          tradeSeq,   \* Gateway.tradeSeq
          faults, crashes

vars == <<invVars, call, stream, tradeSeq, faults, crashes>>

ASSUME OffersAssumption == Offers \subseteq Offer

\* Where an Execute stands.  The last three have returned.
Step == {"propose", "readP", "appendP", "phaseP", "decide", "readC", "appendC",
         "phaseC", "settle1", "settle2", "settle3", "settle4", "phaseS",
         "undoP", "undoBothP", "undoC", "cancel",
         "settled", "cancelled", "error"}
Returned == {"settled", "cancelled", "error"}

\* The events of a trade stream; only TradeProposed has a payload that matters.
TradeEvent == [typ : {"proposed"}, offer : Offers] \cup
              [typ : {"proposerReserved", "counterpartyReserved", "settled", "cancelled"}]

\* Type invariant.
TypeOK ==
  /\ inv \in [Player -> Seq(InvEvent)] /\ gathers \in Nat
  /\ call \in [TradeID -> {Idle} \cup
                 [pc : Step, offer : Offers, expected : Nat, attempt : 0..MaxRetries-1]]
  /\ stream \in [TradeID -> Seq(TradeEvent)]
  /\ tradeSeq \in {0} \cup TradeID
  /\ faults \in Nat /\ crashes \in Nat

Init ==
  /\ InvInit
  /\ call = [t \in TradeID |-> Idle]
  /\ stream = [t \in TradeID |-> <<>>]
  /\ tradeSeq = 0 /\ faults = 0 /\ crashes = 0

\* One more disturbance is within the bound.
Spared == gathers + faults + crashes < MaxTrouble

Running(t) == call[t] # Idle /\ call[t].pc \notin Returned

Goto(t, pc) == call' = [call EXCEPT ![t].pc = pc]

\* trade.Fold: what a reader of the trade stream sees.
StateOf(t) ==
  LET proposed == {i \in 1..Len(stream[t]) : stream[t][i].typ = "proposed"}
  IN  [offer |-> stream[t][Max(proposed)].offer, phase |-> Last(stream[t]).typ]

\* handleTrade: a fresh id, then Execute.
Execute(o) ==
  LET t == tradeSeq + 1
  IN  /\ t \in TradeID
      /\ tradeSeq' = t
      /\ call' = [call EXCEPT ![t] = [pc |-> "propose", offer |-> o,
                                      expected |-> 0, attempt |-> 0]]
      /\ UNCHANGED <<invVars, stream, faults, crashes>>

-----------------------------------------------------------------------------
(* The trade stream. *)

\* Where appendProposed, appendPhase and appendCancelled lead.
Marks == [propose |-> [event |-> "proposed", next |-> "readP"],
          phaseP  |-> [event |-> "proposerReserved", next |-> "decide"],
          phaseC  |-> [event |-> "counterpartyReserved", next |-> "settle1"],
          phaseS  |-> [event |-> "settled", next |-> "settled"],
          cancel  |-> [event |-> "cancelled", next |-> "cancelled"]]

MarkEvent(t) ==
  LET typ == Marks[call[t].pc].event
  IN  IF typ = "proposed" THEN [typ |-> typ, offer |-> call[t].offer] ELSE [typ |-> typ]

Mark(t) ==
  LET pc == call[t].pc
  IN  /\ Running(t) /\ pc \in DOMAIN Marks
      /\ stream' = [stream EXCEPT ![t] = Append(@, MarkEvent(t))]
      /\ Goto(t, Marks[pc].next)
      /\ UNCHANGED <<invVars, tradeSeq, faults, crashes>>

\* The Append fails: Execute returns the error and leaves everything as it is.
MarkFails(t) ==
  /\ Running(t) /\ call[t].pc \in DOMAIN Marks
  /\ Spared /\ faults' = faults + 1
  /\ Goto(t, "error")
  /\ UNCHANGED <<invVars, stream, tradeSeq, crashes>>

-----------------------------------------------------------------------------
(* Reservations. *)

\* Mutant: the reservation of both sides is undone when the second fails.
MutReserves(t) ==
  LET o == call[t].offer
  IN  IF call[t].pc \in {"readP", "appendP"}
      THEN [who |-> o.proposer, item |-> o.give, read |-> "readP",
            append |-> "appendP", done |-> "phaseP", bad |-> "cancel"]
      ELSE [who |-> o.counterparty, item |-> o.want, read |-> "readC",
            append |-> "appendC", done |-> "phaseC", bad |-> "undoBothP"]

\* The two reservations and where they lead.
Reserves(t) ==
  LET o == call[t].offer
  IN  IF call[t].pc \in {"readP", "appendP"}
      THEN [who |-> o.proposer, item |-> o.give, read |-> "readP",
            append |-> "appendP", done |-> "phaseP", bad |-> "cancel"]
      ELSE [who |-> o.counterparty, item |-> o.want, read |-> "readC",
            append |-> "appendC", done |-> "phaseC", bad |-> "undoP"]

\* Reserve reads the stream and decides.
ReserveRead(t) ==
  LET r == Reserves(t)
      outcome == ReserveOutcome(r.who, t, r.item)
  IN  /\ Running(t) /\ call[t].pc \in {"readP", "readC"}
      /\ call' = [call EXCEPT ![t].pc = CASE outcome = "done"    -> r.done
                                          [] outcome = "refused" -> r.bad
                                          [] outcome = "append"  -> r.append,
                              ![t].expected = Len(inv[r.who])]
      /\ UNCHANGED <<invVars, stream, tradeSeq, faults, crashes>>

\* Mutant: Reserve does not pass the version it has read.
MutVersionHolds(t) == TRUE

\* Append's version check.
VersionHolds(t) == Len(inv[Reserves(t).who]) = call[t].expected

CanRetry(attempt) == attempt < MaxRetries

\* Reserve appends at the version it has read; on a conflict it reads again,
\* maxReserveRetries times.
ReserveAppend(t) ==
  LET r == Reserves(t)
      attempt == call[t].attempt + 1
  IN  /\ Running(t) /\ call[t].pc \in {"appendP", "appendC"}
      /\ \/ /\ VersionHolds(t)
            /\ appendMove(r.who, t, r.item, "reserved")
            /\ call' = [call EXCEPT ![t].pc = r.done, ![t].attempt = 0]
            /\ UNCHANGED gathers
         \/ /\ ~VersionHolds(t)
            /\ call' = IF CanRetry(attempt)
                       THEN [call EXCEPT ![t].pc = r.read, ![t].attempt = attempt]
                       ELSE [call EXCEPT ![t].pc = r.bad, ![t].attempt = 0]
            /\ UNCHANGED invVars
      /\ UNCHANGED <<stream, tradeSeq, faults, crashes>>

\* A read or an Append of Reserve returns an error.
ReserveFails(t) ==
  /\ Running(t) /\ call[t].pc \in {"readP", "appendP", "readC", "appendC"}
  /\ Spared /\ faults' = faults + 1
  /\ call' = [call EXCEPT ![t].pc = Reserves(t).bad, ![t].attempt = 0]
  /\ UNCHANGED <<invVars, stream, tradeSeq, crashes>>

\* The Decider's answer: Accept, or Reject, Timeout or an error.
Decide(t) ==
  /\ Running(t) /\ call[t].pc = "decide"
  /\ Goto(t, "readC") \/ Goto(t, "undoP")
  /\ UNCHANGED <<invVars, stream, tradeSeq, faults, crashes>>

-----------------------------------------------------------------------------
(* Settlement and compensation. *)

\* Mutant: an error of the third transfer is taken for success.
MutSettleBad(pc) == IF pc = "settle3" THEN "settle4" ELSE "undoBothP"

\* Where Execute goes when a transfer of crossTransfer returns an error.
SettleBad(pc) == "undoBothP"

\* crossTransfer, releaseProposer and releaseCounterparty: the move made at
\* each step, the next step, and the one after an error (a failed release is
\* not looked at).
Moves(t) ==
  LET o == call[t].offer
      move(p, item, typ, next, bad) ==
        [who |-> p, item |-> item, typ |-> typ, next |-> next, bad |-> bad]
  IN  [settle1 |-> move(o.proposer, o.give, "committed", "settle2", SettleBad("settle1")),
       settle2 |-> move(o.counterparty, o.give, "received", "settle3", SettleBad("settle2")),
       settle3 |-> move(o.counterparty, o.want, "committed", "settle4", SettleBad("settle3")),
       settle4 |-> move(o.proposer, o.want, "received", "phaseS", SettleBad("settle4")),
       undoP |-> move(o.proposer, o.give, "released", "cancel", "cancel"),
       undoBothP |-> move(o.proposer, o.give, "released", "undoC", "undoC"),
       undoC |-> move(o.counterparty, o.want, "released", "cancel", "cancel")]

Move(t) ==
  /\ Running(t) /\ call[t].pc \in DOMAIN Moves(t)
  /\ LET mv == Moves(t)[call[t].pc]
     IN  /\ idempotentMove(mv.who, t, mv.item, mv.typ)
         /\ Goto(t, mv.next)
  /\ UNCHANGED <<gathers, stream, tradeSeq, faults, crashes>>

MoveFails(t) ==
  /\ Running(t) /\ call[t].pc \in DOMAIN Moves(t)
  /\ Spared /\ faults' = faults + 1
  /\ Goto(t, Moves(t)[call[t].pc].bad)
  /\ UNCHANGED <<invVars, stream, tradeSeq, crashes>>

-----------------------------------------------------------------------------

\* The process dies and starts again; nothing resumes a trade.
Crash ==
  /\ Spared /\ crashes' = crashes + 1
  /\ call' = [t \in TradeID |-> Idle]
  /\ tradeSeq' = 0
  /\ UNCHANGED <<invVars, stream, faults>>

Advance(t) ==
  \/ Mark(t) \/ ReserveRead(t) \/ ReserveAppend(t) \/ Decide(t) \/ Move(t)

Next ==
  \/ \E o \in Offers : Execute(o)
  \/ \E t \in TradeID : \/ Advance(t)
                        \/ MarkFails(t) \/ ReserveFails(t) \/ MoveFails(t)
  \/ \E p \in Player, k \in Kind :
       Spared /\ Gather(p, k) /\ UNCHANGED <<call, stream, tradeSeq, faults, crashes>>
  \/ Crash

Spec == Init /\ [][Next]_vars

-----------------------------------------------------------------------------
(* Properties.  Those with the condition Undisturbed are false without it: an
   error inside crossTransfer or of a phase append, and an id used again after
   a crash, each break what the comments of the package promise. *)

\* The store has answered every call and the process has not died.
Undisturbed == faults + crashes = 0

\* "Either the trade happens completely or not at all" (docs/2pc-vs-saga.md), "the
\* compensation of every point of failure is right beside it" (comment of
\* Orchestrator): when Execute has returned a verdict, the moves of the trade add up
\* to the swap, or to nothing; and in whatever way it has returned, nothing stays
\* reserved for the trade.
AllOrNothing ==
  Undisturbed =>
    \A t \in TradeID :
      call[t] # Idle =>
        /\ call[t].pc = "settled" => Swapped(call[t].offer, t)
        /\ call[t].pc = "cancelled" => Untouched(t)
        /\ ~Running(t) => \A p \in Player : Effect(p, t).reserved = ZeroBalance.reserved

\* "Either the trade happens completely or not at all" (docs/2pc-vs-saga.md): a cancelled
\* trade has moved nothing, whatever call of the store failed.
\* The code does not keep it: README, section 3.
CancelledMovesNothing ==
  crashes = 0 =>
    \A t \in TradeID, p \in Player :
      call[t] # Idle /\ call[t].pc = "cancelled"
        => ~hasMove(p, t, "committed") /\ ~hasMove(p, t, "received")

\* "The compensation of every point of failure is right beside it" (comment of
\* Orchestrator): in whatever way Execute has returned, nothing stays reserved.
\* The code does not keep it: README, section 3.
NothingHeld ==
  crashes = 0 =>
    \A t \in TradeID, p \in Player :
      call[t] # Idle /\ ~Running(t) => Effect(p, t).reserved = ZeroBalance.reserved

\* No other trade was proposed under the id of trade t.
OneTrade(t) ==
  \A i, j \in 1..Len(stream[t]) :
    stream[t][i].typ = "proposed" /\ stream[t][j].typ = "proposed" => i = j

\* A trade stream never claims more than happened: when its last event is "settled", the
\* moves of the trade add up to the swap of its offer, goods for goods, whatever failed,
\* crashed or competed with it, unless its id was given out twice.
SettledMeansSwapped ==
  \A t \in TradeID :
    stream[t] # <<>> /\ StateOf(t).phase = "settled" /\ OneTrade(t)
      => Swapped(StateOf(t).offer, t)

\* "Completely or not at all" for every stream that says "settled": the goods of its
\* offer, between two parties, have gone from one to the other.  With an id that was
\* given out twice they have not.
\* The code does not keep it: README, section 3.
SettledMeansMoved ==
  \A t \in TradeID :
    stream[t] # <<>> /\ StateOf(t).phase = "settled"
      /\ StateOf(t).offer.proposer # StateOf(t).offer.counterparty
      => GoodsMoved(StateOf(t).offer, t)
=============================================================================
