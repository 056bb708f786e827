------------------------------ MODULE MCTrade -------------------------------
(***************************************************************************)
(* The sagas for TLC: two players who have goods for one trade, and two    *)
(* trades.                                                                 *)
(***************************************************************************)
EXTENDS Sagas

CONSTANTS anna, bora, wood, ore

One(k) == [kind |-> k, amount |-> 1]

MCTradeID == 1..2

\* Enough for one trade each, and not for two at a time.
MCStock == [p \in Player |-> [k \in Kind |->
             CASE p = anna /\ k = wood -> 1 [] p = bora /\ k = ore -> 1 [] OTHER -> 0]]

\* anna has the wood, and bora has yet to gather the ore.
MCLateStock == [MCStock EXCEPT ![bora][ore] = 0]

Give(p, q, k, l) == [proposer |-> p, counterparty |-> q, give |-> One(k), want |-> One(l)]

\* anna offers bora wood for ore; bora offers anna ore for wood.
MCProposed == [t \in TradeID |->
  IF t = 1 THEN Give(anna, bora, wood, ore) ELSE Give(bora, anna, ore, wood)]

MCOffers == {MCProposed[t] : t \in TradeID}

\* anna offers bora wood for ore, and the ore back for the wood.
MCBack == {Give(anna, bora, wood, ore), Give(anna, bora, ore, wood)}
MCBackProposed == [t \in TradeID |-> Give(anna, bora, wood, ore)]
=============================================================================
