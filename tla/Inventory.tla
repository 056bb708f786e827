----------------------------- MODULE Inventory ------------------------------
(***************************************************************************)
(* services/inventory: the balance of a player as the fold of its event    *)
(* stream inv-<player>, and the idempotent moves a trade makes on it.      *)
(* Streams are sequences: Append and ReadStream are EventStore.tla's, the  *)
(* version of a stream is its length.                                      *)
(***************************************************************************)
EXTENDS Integers, Sequences, FiniteSets, SequencesExt

CONSTANTS Player, Kind,
          TradeID,     \* ids a trade may have
          Stock        \* Stock[p][k]: what p has gathered at the start

ASSUME InventoryAssumption ==
  /\ IsFiniteSet(Player) /\ IsFiniteSet(Kind)
  /\ Stock \in [Player -> [Kind -> Nat]]

VARIABLES inv,      \* inv[p]: the events of stream inv-<p> after the stock
          gathers   \* how many ResourceGathered came after the stock

invVars == <<inv, gathers>>

Item == [kind : Kind, amount : Nat]
MoveType == {"reserved", "released", "committed", "received"}
InvEvent == [typ : {"gathered"}, item : Item]
            \cup [typ : MoveType, trade : TradeID, item : Item]
Offer == [proposer : Player, counterparty : Player, give : Item, want : Item]

InvInit == inv = [p \in Player |-> <<>>] /\ gathers = 0

\* adj, for both maps of a balance at once.
adj(b, kind, avail, res) ==
  [available |-> [b.available EXCEPT ![kind] = @ + avail],
   reserved |-> [b.reserved EXCEPT ![kind] = @ + res]]

applyTo(b, e) ==
  LET n == e.item.amount
  IN  CASE e.typ = "gathered"  -> adj(b, e.item.kind, n, 0)
        [] e.typ = "reserved"  -> adj(b, e.item.kind, -n, n)
        [] e.typ = "released"  -> adj(b, e.item.kind, n, -n)
        [] e.typ = "committed" -> adj(b, e.item.kind, 0, -n)
        [] e.typ = "received"  -> adj(b, e.item.kind, n, 0)

ZeroBalance == [available |-> [k \in Kind |-> 0], reserved |-> [k \in Kind |-> 0]]

\* The balance after the events that count, one after the other.
Fold(b, events, counted) ==
  LET after[n \in 0..Len(events)] ==
        IF n = 0 THEN b
        ELSE IF events[n] \in counted THEN applyTo(after[n - 1], events[n])
        ELSE after[n - 1]
  IN  after[Len(events)]

BalanceOf(p) == Fold([ZeroBalance EXCEPT !.available = Stock[p]], inv[p], InvEvent)

hasMove(p, t, typ) ==
  \E i \in 1..Len(inv[p]) : inv[p][i].typ = typ /\ inv[p][i].trade = t

appendMove(p, t, item, typ) ==
  inv' = [inv EXCEPT ![p] = Append(@, [typ |-> typ, trade |-> t, item |-> item])]

\* Release, Commit and Receive.  A trade is driven by one goroutine, so
\* nobody else can write the same move between the look and the Append.
idempotentMove(p, t, item, typ) ==
  IF hasMove(p, t, typ) THEN UNCHANGED inv ELSE appendMove(p, t, item, typ)

\* Reserve, up to its decision: what one look at the stream says.
ReserveOutcome(p, t, item) ==
  IF item.amount <= 0 THEN "refused"
  ELSE IF hasMove(p, t, "reserved") THEN "done"
  ELSE IF BalanceOf(p).available[item.kind] < item.amount THEN "refused"
  ELSE "append"

\* A region appends ResourceGathered, at any time and with AnyVersion.
Gather(p, k) ==
  /\ gathers' = gathers + 1
  /\ inv' = [inv EXCEPT ![p] = Append(@, [typ |-> "gathered",
                                          item |-> [kind |-> k, amount |-> 1]])]

-----------------------------------------------------------------------------
(* What the properties of the sagas are about. *)

\* The moves of trade t on p's balance, and nothing else.
Effect(p, t) == Fold(ZeroBalance, inv[p], [typ : MoveType, trade : {t}, item : Item])

\* What a trade that went through does to p (nothing to one who traded with
\* himself).
Swap(o, p) ==
  LET sign == (IF p = o.proposer THEN 1 ELSE 0) - (IF p = o.counterparty THEN 1 ELSE 0)
  IN  adj(adj(ZeroBalance, o.give.kind, -sign * o.give.amount, 0),
          o.want.kind, sign * o.want.amount, 0)

Swapped(o, t) == \A p \in {o.proposer, o.counterparty} : Effect(p, t) = Swap(o, p)

Untouched(t) == \A p \in Player : Effect(p, t) = ZeroBalance

\* Trade t has taken from each party what it gives by the offer o, and has brought it
\* what it gets.
GoodsMoved(o, t) ==
  LET moved(p, typ, item) == \E i \in 1..Len(inv[p]) :
                               inv[p][i] = [typ |-> typ, trade |-> t, item |-> item]
  IN  /\ moved(o.proposer, "committed", o.give) /\ moved(o.counterparty, "received", o.give)
      /\ moved(o.counterparty, "committed", o.want) /\ moved(o.proposer, "received", o.want)

\* No player ever has less than nothing: trades that compete for the same
\* goods, and a gather between the look and the Append, never overdraw.
NoOverdraft ==
  \A p \in Player, k \in Kind : BalanceOf(p).available[k] >= 0
=============================================================================
