---------------------------- MODULE TradeProofs -----------------------------
(***************************************************************************)
(* Proofs about the orchestrated saga (Trade.tla) over the inventories     *)
(* (Inventory.tla), for any players, goods, stock, offers and retries, and *)
(* any number of trades at a time; at the end, those about the             *)
(* choreographed one (Choreography.tla).  The events of a stream are added *)
(* up by a fold; what an appended event adds to it is proved by induction  *)
(* over the least counterexample.  Then: nobody is overdrawn; a trade that *)
(* nothing disturbs happens completely or not at all; "settled" in the     *)
(* stream of a trade means its swap, whatever disturbs it.                 *)
(***************************************************************************)
EXTENDS Sagas, TLAPS, SequenceTheorems, WellFoundedInduction

-----------------------------------------------------------------------------
(* The least and the greatest of a set of numbers. *)

\* < as a relation.
LEMMA LessThan ==
  \E R : (\A a, b \in Nat : a < b => <<a, b>> \in R) /\ IsWellFoundedOn(R, Nat)
<1> DEFINE R == OpToRel(<, Nat)
<1>1. IsWellFoundedOn(R, Nat)
  BY NatLessThanWellFounded
<1>2. \A a, b \in Nat : a < b => <<a, b>> \in R
  BY DEF OpToRel
<1> HIDE DEF R
<1>3. QED
  BY <1>1, <1>2

LEMMA Least ==
  ASSUME NEW T, T \subseteq Nat, T # {}
  PROVE  \E x \in T : \A y \in T : x <= y
<1>1. PICK R : (\A a, b \in Nat : a < b => <<a, b>> \in R) /\ IsWellFoundedOn(R, Nat)
  BY LessThan
<1>2. IsWellFoundedOn(R, Nat)
  BY <1>1
<1>3. PICK x \in T : \A y \in T : ~(<<y, x>> \in R)
  BY <1>2, WFMin
<1>4. ASSUME NEW y \in T PROVE x <= y
  <2>1. x \in Nat /\ y \in Nat
    OBVIOUS
  <2>2. ~(<<y, x>> \in R)
    BY <1>3
  <2>3. ~(y < x)
    BY <1>1, <2>1, <2>2
  <2>4. QED
    BY <2>1, <2>3
<1>5. QED
  BY <1>4

LEMMA Greatest ==
  ASSUME NEW n \in Nat, NEW T, T \subseteq 1..n, T # {}
  PROVE  \E x \in T : \A y \in T : x >= y
<1> DEFINE D == {d \in Nat : n - d \in T}
<1>1. D \subseteq Nat
  OBVIOUS
<1>2. D # {}
  <2>1. PICK y \in T : TRUE
    OBVIOUS
  <2>2. n - y \in Nat /\ n - (n - y) = y
    OBVIOUS
  <2>3. QED
    BY <2>1, <2>2
<1>3. PICK d \in D : \A e \in D : d <= e
  <2> HIDE DEF D
  <2>1. QED
    BY <1>1, <1>2, Least
<1>4. ASSUME NEW y \in T PROVE n - d >= y
  <2>1. n - y \in Nat /\ n - (n - y) = y
    OBVIOUS
  <2>2. n - y \in D
    BY <2>1
  <2>3. d <= n - y
    BY <1>3, <2>2
  <2>4. QED
    BY <2>1, <2>3
<1>5. QED
  BY <1>4

-----------------------------------------------------------------------------
(* The fold of a stream of events (balanceOf). *)

LEMMA AppendIs ==
  ASSUME NEW S, NEW s \in Seq(S), NEW e \in S
  PROVE  /\ Append(s, e) \in Seq(S) /\ Append(s, e) # <<>>
         /\ Len(Append(s, e)) = Len(s) + 1 /\ Append(s, e)[Len(s) + 1] = e
         /\ \A i \in 1..Len(s) : Append(s, e)[i] = s[i]
<1>1. PICK t : t = Append(s, e)
  OBVIOUS
<1>2. t \in Seq(S) /\ t # <<>> /\ Len(t) = Len(s) + 1
  BY <1>1, AppendProperties
<1>3. t[Len(s) + 1] = e
  BY <1>1, AppendProperties
<1>4. \A i \in 1..Len(s) : t[i] = s[i]
  BY <1>1, AppendProperties
<1>5. QED
  BY <1>1, <1>2, <1>3, <1>4

\* f is the balance after each of the first l events.
IsFold(f, b, events, counted, l) ==
  f = [n \in 0..l |->
        IF n = 0 THEN b
        ELSE IF events[n] \in counted THEN applyTo(f[n - 1], events[n])
        ELSE f[n - 1]]

FoldsTo(b, events, counted, l) == \E f : IsFold(f, b, events, counted, l)

LEMMA FoldOfNothing ==
  ASSUME NEW b, NEW events, NEW counted
  PROVE  FoldsTo(b, events, counted, 0)
<1>1. PICK f : f = [n \in 0..0 |-> b]
  OBVIOUS
<1>2. IsFold(f, b, events, counted, 0)
  BY <1>1 DEF IsFold
<1>3. QED
  BY <1>2 DEF FoldsTo

\* One event more.
LEMMA FoldOfNext ==
  ASSUME NEW b, NEW events, NEW counted, NEW l \in Nat, FoldsTo(b, events, counted, l)
  PROVE  FoldsTo(b, events, counted, l + 1)
<1>1. PICK f : IsFold(f, b, events, counted, l)
  BY DEF FoldsTo
<1>2. PICK x : x = IF events[l + 1] \in counted THEN applyTo(f[l], events[l + 1]) ELSE f[l]
  OBVIOUS
<1>3. PICK g : g = [n \in 0..(l + 1) |-> IF n = l + 1 THEN x ELSE f[n]]
  OBVIOUS
<1>4. ASSUME NEW n \in 0..(l + 1)
      PROVE  g[n] = IF n = 0 THEN b
                    ELSE IF events[n] \in counted THEN applyTo(g[n - 1], events[n])
                    ELSE g[n - 1]
  <2>1. CASE n = l + 1
    <3>1. n - 1 = l /\ l \in 0..(l + 1) /\ l # l + 1 /\ n # 0
      BY <2>1
    <3>2. g[n] = x /\ g[n - 1] = f[l]
      BY <1>3, <2>1, <3>1
    <3>3. QED
      BY <1>2, <2>1, <3>1, <3>2
  <2>2. CASE n # l + 1
    <3>1. n \in 0..l /\ g[n] = f[n]
      BY <1>3, <2>2
    <3>2. n # 0 => n - 1 \in 0..(l + 1) /\ n - 1 # l + 1
      BY <2>2
    <3>3. n # 0 => g[n - 1] = f[n - 1]
      BY <1>3, <3>2
    <3>4. QED
      BY <1>1, <3>1, <3>3 DEF IsFold
  <2>3. QED
    BY <2>1, <2>2
<1>5. IsFold(g, b, events, counted, l + 1)
  <2>1. PICK h : h = [n \in 0..(l + 1) |->
                       IF n = 0 THEN b
                       ELSE IF events[n] \in counted THEN applyTo(g[n - 1], events[n])
                       ELSE g[n - 1]]
    OBVIOUS
  <2>2. \A n \in 0..(l + 1) : g[n] = h[n]
    BY <1>4, <2>1
  <2>3. g = h
    BY <1>3, <2>1, <2>2
  <2>4. QED
    BY <2>1, <2>3 DEF IsFold
<1>6. QED
  BY <1>5 DEF FoldsTo

LEMMA FoldExists ==
  ASSUME NEW b, NEW events, NEW counted, NEW l \in Nat
  PROVE  FoldsTo(b, events, counted, l)
<1>1. PICK T : T = {n \in Nat : ~FoldsTo(b, events, counted, n)}
  OBVIOUS
<1>2. T = {}
  <2>1. SUFFICES ASSUME T # {} PROVE FALSE
    OBVIOUS
  <2>2. PICK n \in T : \A m \in T : n <= m
    BY <1>1, <2>1, Least
  <2>3. n \in Nat /\ ~FoldsTo(b, events, counted, n)
    BY <1>1
  <2>4. CASE n = 0
    BY <2>3, <2>4, FoldOfNothing
  <2>5. CASE n # 0
    <3>1. PICK m \in Nat : n = m + 1
      BY <2>3, <2>5
    <3>2. FoldsTo(b, events, counted, m)
      BY <1>1, <2>2, <3>1
    <3>3. QED
      BY <2>3, <3>1, <3>2, FoldOfNext
  <2>6. QED
    BY <2>4, <2>5
<1>3. QED
  BY <1>1, <1>2

LEMMA FoldIs ==
  ASSUME NEW b, NEW events, NEW counted, Len(events) \in Nat
  PROVE  \E f : IsFold(f, b, events, counted, Len(events)) /\ Fold(b, events, counted) = f[Len(events)]
<1> DEFINE after == CHOOSE f : IsFold(f, b, events, counted, Len(events))
<1>1. FoldsTo(b, events, counted, Len(events))
  BY FoldExists
<1>2. IsFold(after, b, events, counted, Len(events))
  BY <1>1 DEF FoldsTo
<1>3. Fold(b, events, counted) = after[Len(events)]
  BY Zenon DEF Fold, IsFold
<1>4. QED
  BY <1>2, <1>3

\* Folds of two sequences that start alike agree there.
LEMMA FoldsAgree ==
  ASSUME NEW b, NEW s, NEW t, NEW counted, NEW l \in Nat, NEW m \in Nat, l <= m,
         \A i \in 1..l : s[i] = t[i],
         NEW f, IsFold(f, b, s, counted, l), NEW g, IsFold(g, b, t, counted, m)
  PROVE  f[l] = g[l]
<1>1. PICK T : T = {i \in 0..l : f[i] # g[i]}
  OBVIOUS
<1>2. T = {}
  <2>1. SUFFICES ASSUME T # {} PROVE FALSE
    OBVIOUS
  <2>2. PICK i \in T : \A j \in T : i <= j
    BY <1>1, <2>1, Least
  <2>3. i \in 0..l /\ i \in 0..m /\ f[i] # g[i]
    BY <1>1
  <2>4. /\ f[i] = IF i = 0 THEN b ELSE IF s[i] \in counted THEN applyTo(f[i - 1], s[i]) ELSE f[i - 1]
        /\ g[i] = IF i = 0 THEN b ELSE IF t[i] \in counted THEN applyTo(g[i - 1], t[i]) ELSE g[i - 1]
    BY <2>3 DEF IsFold
  <2>5. i # 0
    BY <2>3, <2>4
  <2>6. i \in 1..l /\ i - 1 \in 0..l /\ ~(i <= i - 1)
    BY <2>3, <2>5
  <2>7. s[i] = t[i]
    BY <2>6
  <2>8. f[i - 1] = g[i - 1]
    BY <1>1, <2>2, <2>6
  <2>9. QED
    BY <2>3, <2>4, <2>5, <2>7, <2>8
<1>3. l \in 0..l
  OBVIOUS
<1>4. QED
  BY <1>1, <1>2, <1>3

LEMMA FoldOfEmpty ==
  ASSUME NEW b, NEW counted
  PROVE  Fold(b, <<>>, counted) = b
<1>1. PICK l \in Nat : l = Len(<<>>) /\ l = 0
  OBVIOUS
<1>2. PICK s : s = <<>>
  OBVIOUS
<1>3. PICK f : IsFold(f, b, s, counted, l) /\ Fold(b, s, counted) = f[l]
  BY <1>1, <1>2, FoldIs
<1>4. f[l] = b
  BY <1>1, <1>3 DEF IsFold
<1>5. QED
  BY <1>2, <1>3, <1>4

\* An event that counts changes the balance, and no other event does.
LEMMA FoldOfAppend ==
  ASSUME NEW S, NEW s \in Seq(S), NEW e \in S, NEW b, NEW counted
  PROVE  Fold(b, Append(s, e), counted) =
           IF e \in counted THEN applyTo(Fold(b, s, counted), e) ELSE Fold(b, s, counted)
<1>1. PICK n \in Nat : n = Len(s)
  OBVIOUS
<1>2. PICK t : t = Append(s, e)
  OBVIOUS
<1>3. PICK m \in Nat : m = n + 1
  BY <1>1
<1>4. Len(t) = m /\ t[m] = e /\ \A i \in 1..n : s[i] = t[i]
  BY <1>1, <1>2, <1>3, AppendIs
<1>5. PICK f : IsFold(f, b, s, counted, n) /\ Fold(b, s, counted) = f[n]
  BY <1>1, FoldIs
<1>6. PICK g : IsFold(g, b, t, counted, m) /\ Fold(b, t, counted) = g[m]
  BY <1>4, FoldIs
<1>7. f[n] = g[n]
  <2>1. n <= m
    BY <1>3
  <2>2. QED
    BY <1>4, <1>5, <1>6, <2>1, FoldsAgree
<1>8. g[m] = IF t[m] \in counted THEN applyTo(g[n], t[m]) ELSE g[n]
  <2>1. m \in 0..m /\ m # 0 /\ m - 1 = n
    BY <1>3
  <2>2. QED
    BY <1>6, <2>1 DEF IsFold
<1>9. QED
  BY <1>2, <1>4, <1>5, <1>6, <1>7, <1>8

-----------------------------------------------------------------------------
(* Balances and the events that change them (applyTo). *)

Balance == [available : [Kind -> Int], reserved : [Kind -> Int]]

\* What item is worth in goods of kind k.
Worth(item, k) == IF item.kind = k THEN item.amount ELSE 0

\* What event e adds to the goods of kind k at hand, and to those put aside.
Frees(e, k) ==
  IF e.typ \in {"gathered", "released", "received"} THEN Worth(e.item, k)
  ELSE IF e.typ = "reserved" THEN -Worth(e.item, k) ELSE 0
Holds(e, k) ==
  IF e.typ = "reserved" THEN Worth(e.item, k)
  ELSE IF e.typ \in {"released", "committed"} THEN -Worth(e.item, k) ELSE 0

LEMMA EventIs ==
  ASSUME NEW e \in InvEvent
  PROVE  /\ e.typ \in {"gathered"} \cup MoveType /\ e.item \in Item
         /\ e.item.kind \in Kind /\ e.item.amount \in Nat
<1>1. CASE e \in [typ : {"gathered"}, item : Item]
  <2>1. e.typ = "gathered" /\ e.item \in Item
    BY <1>1
  <2>2. QED
    BY <2>1 DEF Item
<1>2. CASE e \in [typ : MoveType, trade : TradeID, item : Item]
  <2>1. e.typ \in MoveType /\ e.item \in Item
    BY <1>2
  <2>2. QED
    BY <2>1 DEF Item
<1>3. QED
  BY <1>1, <1>2 DEF InvEvent

LEMMA AdjIs ==
  ASSUME NEW b \in Balance, NEW kind \in Kind, NEW x \in Int, NEW y \in Int
  PROVE  /\ adj(b, kind, x, y) \in Balance
         /\ \A k \in Kind :
              /\ adj(b, kind, x, y).available[k] = b.available[k] + (IF k = kind THEN x ELSE 0)
              /\ adj(b, kind, x, y).reserved[k] = b.reserved[k] + (IF k = kind THEN y ELSE 0)
<1>1. PICK A, R \in [Kind -> Int] : A = b.available /\ R = b.reserved
  BY DEF Balance
<1>2. PICK A2, R2 : A2 = [A EXCEPT ![kind] = A[kind] + x] /\ R2 = [R EXCEPT ![kind] = R[kind] + y]
  OBVIOUS
<1>3. A2 \in [Kind -> Int] /\ R2 \in [Kind -> Int]
  <2>1. A[kind] + x \in Int /\ R[kind] + y \in Int
    OBVIOUS
  <2>2. QED
    BY <1>2, <2>1
<1>4. \A k \in Kind : /\ A2[k] = A[k] + (IF k = kind THEN x ELSE 0)
                      /\ R2[k] = R[k] + (IF k = kind THEN y ELSE 0)
  BY <1>2
<1>5. PICK c : c = adj(b, kind, x, y)
  OBVIOUS
<1>6. c = [available |-> A2, reserved |-> R2]
  BY <1>1, <1>2, <1>5 DEF adj
<1>7. c \in Balance /\ c.available = A2 /\ c.reserved = R2
  BY <1>3, <1>6 DEF Balance
<1>8. QED
  BY <1>1, <1>4, <1>5, <1>7

LEMMA ApplyIs ==
  ASSUME NEW b \in Balance, NEW e \in InvEvent
  PROVE  /\ applyTo(b, e) \in Balance
         /\ \A k \in Kind : /\ applyTo(b, e).available[k] = b.available[k] + Frees(e, k)
                            /\ applyTo(b, e).reserved[k] = b.reserved[k] + Holds(e, k)
<1>1. PICK n \in Nat, kind \in Kind : n = e.item.amount /\ kind = e.item.kind
  BY EventIs
<1>2. -n \in Int /\ n \in Int /\ 0 \in Int
  OBVIOUS
<1>3. \A k \in Kind : Worth(e.item, k) = IF k = kind THEN n ELSE 0
  BY <1>1 DEF Worth
<1>4. ASSUME NEW x \in Int, NEW y \in Int, applyTo(b, e) = adj(b, kind, x, y),
             \A k \in Kind : Frees(e, k) = IF k = kind THEN x ELSE 0,
             \A k \in Kind : Holds(e, k) = IF k = kind THEN y ELSE 0
      PROVE  /\ applyTo(b, e) \in Balance
             /\ \A k \in Kind : /\ applyTo(b, e).available[k] = b.available[k] + Frees(e, k)
                                /\ applyTo(b, e).reserved[k] = b.reserved[k] + Holds(e, k)
  BY <1>4, AdjIs
<1>5. CASE e.typ = "gathered"
  <2>1. applyTo(b, e) = adj(b, kind, n, 0)
    BY <1>1, <1>5 DEF applyTo
  <2>2. QED
    BY <1>2, <1>3, <1>4, <1>5, <2>1 DEF Frees, Holds
<1>6. CASE e.typ = "reserved"
  <2>1. applyTo(b, e) = adj(b, kind, -n, n)
    BY <1>1, <1>6 DEF applyTo
  <2>2. QED
    BY <1>2, <1>3, <1>4, <1>6, <2>1 DEF Frees, Holds
<1>7. CASE e.typ = "released"
  <2>1. applyTo(b, e) = adj(b, kind, n, -n)
    BY <1>1, <1>7 DEF applyTo
  <2>2. QED
    BY <1>2, <1>3, <1>4, <1>7, <2>1 DEF Frees, Holds
<1>8. CASE e.typ = "committed"
  <2>1. applyTo(b, e) = adj(b, kind, 0, -n)
    BY <1>1, <1>8 DEF applyTo
  <2>2. QED
    BY <1>2, <1>3, <1>4, <1>8, <2>1 DEF Frees, Holds
<1>9. CASE e.typ = "received"
  <2>1. applyTo(b, e) = adj(b, kind, n, 0)
    BY <1>1, <1>9 DEF applyTo
  <2>2. QED
    BY <1>2, <1>3, <1>4, <1>9, <2>1 DEF Frees, Holds
<1>10. QED
  BY <1>5, <1>6, <1>7, <1>8, <1>9, EventIs DEF MoveType

LEMMA ZeroIs ==
  /\ ZeroBalance \in Balance
  /\ \A k \in Kind : ZeroBalance.available[k] = 0 /\ ZeroBalance.reserved[k] = 0
<1>1. PICK Z : Z = [k \in Kind |-> 0]
  OBVIOUS
<1>2. Z \in [Kind -> Int] /\ \A k \in Kind : Z[k] = 0
  BY <1>1
<1>3. ZeroBalance = [available |-> Z, reserved |-> Z]
  BY <1>1 DEF ZeroBalance
<1>4. QED
  BY <1>2, <1>3 DEF Balance

\* Two balances with the same goods are the same.
LEMMA SameBalance ==
  ASSUME NEW b \in Balance, NEW c \in Balance,
         \A k \in Kind : b.available[k] = c.available[k] /\ b.reserved[k] = c.reserved[k]
  PROVE  b = c
<1>1. PICK A, R, B, S \in [Kind -> Int] : /\ A = b.available /\ R = b.reserved
                                          /\ B = c.available /\ S = c.reserved
  BY DEF Balance
<1>2. A = B /\ R = S
  BY <1>1
<1>3. b = [available |-> A, reserved |-> R] /\ c = [available |-> B, reserved |-> S]
  BY <1>1 DEF Balance
<1>4. QED
  BY <1>2, <1>3

\* Event e is appended to the stream of p.
Adds(p, e) == p \in Player /\ e \in InvEvent /\ inv' = [inv EXCEPT ![p] = Append(inv[p], e)]

Streams == inv \in [Player -> Seq(InvEvent)]

LEMMA AddsTo ==
  ASSUME Streams, NEW p, NEW e, Adds(p, e)
  PROVE  /\ Streams' /\ p \in Player /\ e \in InvEvent
         /\ \A q \in Player : inv'[q] = IF q = p THEN Append(inv[p], e) ELSE inv[q]
         /\ Len(inv'[p]) = Len(inv[p]) + 1
<1>1. PICK s \in Seq(InvEvent) : s = inv[p] /\ p \in Player /\ e \in InvEvent
  BY DEF Streams, Adds
<1>2. PICK t : t = Append(s, e)
  OBVIOUS
<1>3. t \in Seq(InvEvent) /\ Len(t) = Len(s) + 1
  BY <1>1, <1>2, AppendProperties
<1>4. inv' = [inv EXCEPT ![p] = t]
  BY <1>1, <1>2 DEF Adds
<1>5. Streams' /\ \A q \in Player : inv'[q] = IF q = p THEN t ELSE inv[q]
  BY <1>1, <1>3, <1>4 DEF Streams
<1>6. QED
  BY <1>1, <1>2, <1>3, <1>5

\* An event changes the balance of its stream, and the effect of its trade.
LEMMA AddsBalance ==
  ASSUME Streams, NEW p, NEW e, Adds(p, e), NEW q \in Player
  PROVE  BalanceOf(q)' = IF q = p THEN applyTo(BalanceOf(q), e) ELSE BalanceOf(q)
<1>1. PICK s \in Seq(InvEvent) : s = inv[q]
  BY DEF Streams
<1>2. PICK b : b = [ZeroBalance EXCEPT !.available = Stock[q]]
  OBVIOUS
<1>3. BalanceOf(q) = Fold(b, s, InvEvent) /\ BalanceOf(q)' = Fold(b, inv'[q], InvEvent)
  BY <1>1, <1>2 DEF BalanceOf
<1>4. CASE q = p
  <2>1. inv'[q] = Append(s, e) /\ e \in InvEvent
    BY <1>1, <1>4, AddsTo
  <2>2. Fold(b, Append(s, e), InvEvent) = applyTo(Fold(b, s, InvEvent), e)
    BY <2>1, FoldOfAppend
  <2>3. QED
    BY <1>3, <1>4, <2>1, <2>2
<1>5. CASE q # p
  BY <1>1, <1>3, <1>5, AddsTo
<1>6. QED
  BY <1>4, <1>5

\* The move typ of trade t.
MoveOf(t, typ, item) == [typ |-> typ, trade |-> t, item |-> item]

\* Event e is one of the moves of trade t.
Concerns(e, t) == e \in [typ : MoveType, trade : {t}, item : Item]

LEMMA AddsEffect ==
  ASSUME Streams, NEW p, NEW e, Adds(p, e), NEW q \in Player, NEW t
  PROVE  Effect(q, t)' = IF q = p /\ Concerns(e, t) THEN applyTo(Effect(q, t), e) ELSE Effect(q, t)
<1>1. PICK s \in Seq(InvEvent) : s = inv[q]
  BY DEF Streams
<1>2. PICK b, C : b = ZeroBalance /\ C = [typ : MoveType, trade : {t}, item : Item]
  OBVIOUS
<1>3. Effect(q, t) = Fold(b, s, C) /\ Effect(q, t)' = Fold(b, inv'[q], C)
  BY <1>1, <1>2 DEF Effect
<1>4. CASE q = p
  <2>1. inv'[q] = Append(s, e) /\ e \in InvEvent
    BY <1>1, <1>4, AddsTo
  <2>2. Fold(b, Append(s, e), C) = IF e \in C THEN applyTo(Fold(b, s, C), e) ELSE Fold(b, s, C)
    BY <2>1, FoldOfAppend
  <2>3. QED
    BY <1>2, <1>3, <1>4, <2>1, <2>2 DEF Concerns
<1>5. CASE q # p
  BY <1>1, <1>3, <1>5, AddsTo
<1>6. QED
  BY <1>4, <1>5

LEMMA MoveIs ==
  ASSUME NEW t \in TradeID, NEW typ \in MoveType, NEW item \in Item
  PROVE  /\ MoveOf(t, typ, item) \in InvEvent
         /\ MoveOf(t, typ, item).typ = typ /\ MoveOf(t, typ, item).trade = t
         /\ MoveOf(t, typ, item).item = item
         /\ \A u : Concerns(MoveOf(t, typ, item), u) <=> u = t
<1>1. PICK e : e = [typ |-> typ, trade |-> t, item |-> item]
  OBVIOUS
<1>2. e \in [typ : MoveType, trade : TradeID, item : Item]
  BY <1>1
<1>3. e \in InvEvent /\ e.typ = typ /\ e.trade = t /\ e.item = item
  BY <1>1, <1>2 DEF InvEvent
<1>4. ASSUME NEW u PROVE e \in [typ : MoveType, trade : {u}, item : Item] <=> u = t
  BY <1>1
<1>5. QED
  BY <1>1, <1>3, <1>4 DEF MoveOf, Concerns

LEMMA GatherIs ==
  ASSUME NEW k \in Kind
  PROVE  /\ [typ |-> "gathered", item |-> [kind |-> k, amount |-> 1]] \in InvEvent
         /\ \A u : ~Concerns([typ |-> "gathered", item |-> [kind |-> k, amount |-> 1]], u)
<1>1. PICK i \in Item : i = [kind |-> k, amount |-> 1]
  BY DEF Item
<1>2. PICK e : e = [typ |-> "gathered", item |-> i]
  OBVIOUS
<1>3. e \in [typ : {"gathered"}, item : Item] /\ e.typ = "gathered"
  BY <1>2
<1>4. e \in InvEvent
  BY <1>3 DEF InvEvent
<1>5. ASSUME NEW u PROVE ~Concerns(e, u)
  <2>1. Concerns(e, u) => e.typ \in MoveType
    BY DEF Concerns
  <2>2. QED
    BY <1>3, <2>1 DEF MoveType
<1>6. QED
  BY <1>1, <1>2, <1>4, <1>5

\* The moves of a stream grow by the move that is added.
LEMMA AddsMove ==
  ASSUME Streams, NEW p, NEW e, Adds(p, e), NEW q \in Player, NEW t, NEW typ \in MoveType
  PROVE  hasMove(q, t, typ)' <=> hasMove(q, t, typ) \/ (q = p /\ e.typ = typ /\ e.trade = t)
<1>1. PICK s \in Seq(InvEvent) : s = inv[q]
  BY DEF Streams
<1>2. PICK n \in Nat : n = Len(s)
  BY <1>1
<1>3. CASE q = p
  <2>1. PICK r : r = Append(s, e) /\ r = inv'[q] /\ e \in InvEvent
    BY <1>1, <1>3, AddsTo
  <2>2. Len(r) = n + 1 /\ r[n + 1] = e /\ \A i \in 1..n : r[i] = s[i]
    <3>1. PICK f \in InvEvent : f = e
      BY <2>1
    <3>2. r = Append(s, f)
      BY <2>1, <3>1
    <3>3. Len(r) = n + 1 /\ r[n + 1] = f /\ \A i \in 1..n : r[i] = s[i]
      BY <1>2, <3>2, AppendIs
    <3>4. QED
      BY <3>1, <3>3
  <2>4. \A i : i \in 1..(n + 1) <=> i \in 1..n \/ i = n + 1
    BY <1>2
  <2>5. hasMove(q, t, typ) <=> \E i \in 1..n : s[i].typ = typ /\ s[i].trade = t
    BY <1>1, <1>2 DEF hasMove
  <2>6. hasMove(q, t, typ)' <=> \E i \in 1..(n + 1) : r[i].typ = typ /\ r[i].trade = t
    BY <2>1, <2>2 DEF hasMove
  <2>7. (\E i \in 1..(n + 1) : r[i].typ = typ /\ r[i].trade = t)
        <=> (\E i \in 1..n : s[i].typ = typ /\ s[i].trade = t) \/ (e.typ = typ /\ e.trade = t)
    BY <2>2, <2>4
  <2>8. QED
    BY <1>3, <2>5, <2>6, <2>7
<1>4. CASE q # p
  <2>1. inv'[q] = inv[q]
    BY <1>4, AddsTo
  <2>2. QED
    BY <1>4, <2>1 DEF hasMove
<1>5. QED
  BY <1>3, <1>4

-----------------------------------------------------------------------------
(* One step of an Execute. *)

Calls == [pc : Step, offer : Offers, expected : Nat, attempt : 0..MaxRetries-1]

Called == call \in [TradeID -> {Idle} \cup Calls]

LEMMA OfferIs ==
  ASSUME NEW o \in Offers
  PROVE  /\ o.proposer \in Player /\ o.counterparty \in Player
         /\ o.give \in Item /\ o.want \in Item
<1>1. o \in Offer
  BY OffersAssumption
<1>2. QED
  BY <1>1 DEF Offer

LEMMA ItemIs ==
  ASSUME NEW item \in Item
  PROVE  item.kind \in Kind /\ item.amount \in Nat
  BY DEF Item

LEMMA CallIs ==
  ASSUME Called, NEW t \in TradeID, call[t] # Idle
  PROVE  call[t] \in Calls /\ call[t].pc \in Step /\ call[t].offer \in Offers
<1>1. call[t] \in Calls
  BY DEF Called
<1>2. QED
  BY <1>1 DEF Calls

\* Trade t's call goes on at next.
Turn(t, next) ==
  \E c \in Calls : c.pc = next /\ c.offer = call[t].offer /\ call' = [call EXCEPT ![t] = c]

LEMMA TurnIs ==
  ASSUME Called, NEW t \in TradeID, NEW next, Turn(t, next)
  PROVE  /\ Called'
         /\ call'[t].pc = next /\ call'[t].offer = call[t].offer
         /\ \A u \in TradeID : u # t => call'[u] = call[u]
<1>1. PICK c \in Calls : c.pc = next /\ c.offer = call[t].offer /\ call' = [call EXCEPT ![t] = c]
  BY DEF Turn
<1>2. call'[t] = c /\ \A u \in TradeID : u # t => call'[u] = call[u]
  BY <1>1 DEF Called
<1>3. Called'
  BY <1>1 DEF Called
<1>4. QED
  BY <1>1, <1>2, <1>3

LEMMA GotoTurns ==
  ASSUME Called, NEW t \in TradeID, call[t] # Idle, NEW pc \in Step, Goto(t, pc)
  PROVE  Turn(t, pc)
<1>1. PICK c : c = [call[t] EXCEPT !.pc = pc]
  OBVIOUS
<1>2. call' = [call EXCEPT ![t] = c]
  BY <1>1 DEF Goto
<1>3. c \in Calls /\ c.pc = pc /\ c.offer = call[t].offer
  <2>1. call[t] \in Calls
    BY CallIs
  <2>2. QED
    BY <1>1, <2>1 DEF Calls
<1>4. QED
  BY <1>2, <1>3 DEF Turn

\* The streams of the inventories stay, or one of them gets an event.
Grows == UNCHANGED inv \/ \E p, e : Adds(p, e)

\* The stream of trade t gets an event of type typ.
Records(t, typ) ==
  \E e \in TradeEvent : /\ e.typ = typ /\ (typ = "proposed" => e.offer = call[t].offer)
                        /\ stream' = [stream EXCEPT ![t] = Append(stream[t], e)]

LEMMA MarkDoes ==
  ASSUME Called, NEW t \in TradeID, Mark(t)
  PROVE  /\ UNCHANGED <<inv, gathers, tradeSeq, faults, crashes>>
         /\ \E pc, typ, next :
              /\ call[t] # Idle /\ call[t].pc = pc /\ Turn(t, next) /\ Records(t, typ)
              /\ \/ pc = "propose" /\ typ = "proposed" /\ next = "readP"
                 \/ pc = "phaseP" /\ typ = "proposerReserved" /\ next = "decide"
                 \/ pc = "phaseC" /\ typ = "counterpartyReserved" /\ next = "settle1"
                 \/ pc = "phaseS" /\ typ = "settled" /\ next = "settled"
                 \/ pc = "cancel" /\ typ = "cancelled" /\ next = "cancelled"
<1>1. /\ call[t] # Idle /\ call[t] \in Calls /\ call[t].offer \in Offers
      /\ UNCHANGED <<inv, gathers, tradeSeq, faults, crashes>>
  BY CallIs DEF Mark, Running, invVars
<1>2. PICK pc : pc = call[t].pc
  OBVIOUS
<1>3. pc \in {"propose", "phaseP", "phaseC", "phaseS", "cancel"}
  BY <1>2 DEF Mark, Marks
<1>4. ASSUME NEW typ, NEW next \in Step, Marks[pc] = [event |-> typ, next |-> next],
             typ \in {"proposerReserved", "counterpartyReserved", "settled", "cancelled"}
      PROVE  Turn(t, next) /\ Records(t, typ)
  <2>1. Goto(t, next)
    BY <1>2, <1>4 DEF Mark
  <2>2. PICK e : e = [typ |-> typ]
    OBVIOUS
  <2>3. e \in TradeEvent /\ e.typ = typ /\ typ # "proposed"
    BY <1>4, <2>2 DEF TradeEvent
  <2>4. MarkEvent(t) = e
    BY <1>2, <1>4, <2>2, <2>3 DEF MarkEvent
  <2>5. stream' = [stream EXCEPT ![t] = Append(stream[t], e)]
    BY <2>4 DEF Mark
  <2>6. QED
    BY <1>1, <2>1, <2>3, <2>5, GotoTurns DEF Records
<1>5. CASE pc = "propose"
  <2>1. Marks[pc] = [event |-> "proposed", next |-> "readP"]
    BY <1>5 DEF Marks
  <2>2. Goto(t, "readP") /\ "readP" \in Step
    BY <1>2, <2>1 DEF Mark, Step
  <2>3. PICK e : e = [typ |-> "proposed", offer |-> call[t].offer]
    OBVIOUS
  <2>4. e \in TradeEvent /\ e.typ = "proposed" /\ e.offer = call[t].offer
    <3>1. e \in [typ : {"proposed"}, offer : Offers]
      BY <1>1, <2>3
    <3>2. QED
      BY <2>3, <3>1 DEF TradeEvent
  <2>5. MarkEvent(t) = e
    BY <1>2, <2>1, <2>3 DEF MarkEvent
  <2>6. stream' = [stream EXCEPT ![t] = Append(stream[t], e)]
    BY <2>5 DEF Mark
  <2>7. Turn(t, "readP") /\ Records(t, "proposed")
    BY <1>1, <2>2, <2>4, <2>6, GotoTurns DEF Records
  <2>8. QED
    BY <1>1, <1>2, <1>5, <2>7
<1>6. CASE pc = "phaseP"
  <2>1. Marks[pc] = [event |-> "proposerReserved", next |-> "decide"] /\ "decide" \in Step
    BY <1>6 DEF Marks, Step
  <2>2. Turn(t, "decide") /\ Records(t, "proposerReserved")
    BY <1>4, <2>1
  <2>3. QED
    BY <1>1, <1>2, <1>6, <2>2
<1>7. CASE pc = "phaseC"
  <2>1. Marks[pc] = [event |-> "counterpartyReserved", next |-> "settle1"] /\ "settle1" \in Step
    BY <1>7 DEF Marks, Step
  <2>2. Turn(t, "settle1") /\ Records(t, "counterpartyReserved")
    BY <1>4, <2>1
  <2>3. QED
    BY <1>1, <1>2, <1>7, <2>2
<1>8. CASE pc = "phaseS"
  <2>1. Marks[pc] = [event |-> "settled", next |-> "settled"] /\ "settled" \in Step
    BY <1>8 DEF Marks, Step
  <2>2. Turn(t, "settled") /\ Records(t, "settled")
    BY <1>4, <2>1
  <2>3. QED
    BY <1>1, <1>2, <1>8, <2>2
<1>9. CASE pc = "cancel"
  <2>1. Marks[pc] = [event |-> "cancelled", next |-> "cancelled"] /\ "cancelled" \in Step
    BY <1>9 DEF Marks, Step
  <2>2. Turn(t, "cancelled") /\ Records(t, "cancelled")
    BY <1>4, <2>1
  <2>3. QED
    BY <1>1, <1>2, <1>9, <2>2
<1>10. QED
  BY <1>3, <1>5, <1>6, <1>7, <1>8, <1>9

\* Who reserves what at p, for an offer o.
Payer(o, pc) == IF pc \in {"readP", "appendP"} THEN o.proposer ELSE o.counterparty
Price(o, pc) == IF pc \in {"readP", "appendP"} THEN o.give ELSE o.want

LEMMA ReservesIs ==
  ASSUME NEW t, NEW pc, pc = call[t].pc, NEW o, o = call[t].offer
  PROVE  /\ Reserves(t).who = Payer(o, pc) /\ Reserves(t).item = Price(o, pc)
         /\ pc \in {"readP", "appendP"} =>
              /\ Reserves(t).read = "readP" /\ Reserves(t).append = "appendP"
              /\ Reserves(t).done = "phaseP" /\ Reserves(t).bad = "cancel"
         /\ pc \notin {"readP", "appendP"} =>
              /\ Reserves(t).read = "readC" /\ Reserves(t).append = "appendC"
              /\ Reserves(t).done = "phaseC" /\ Reserves(t).bad = "undoP"
<1>1. CASE pc \in {"readP", "appendP"}
  <2>1. Reserves(t) = [who |-> o.proposer, item |-> o.give, read |-> "readP",
                       append |-> "appendP", done |-> "phaseP", bad |-> "cancel"]
    BY <1>1 DEF Reserves
  <2>2. QED
    BY <1>1, <2>1 DEF Payer, Price
<1>2. CASE pc \notin {"readP", "appendP"}
  <2>1. Reserves(t) = [who |-> o.counterparty, item |-> o.want, read |-> "readC",
                       append |-> "appendC", done |-> "phaseC", bad |-> "undoP"]
    BY <1>2 DEF Reserves
  <2>2. QED
    BY <1>2, <2>1 DEF Payer, Price
<1>3. QED
  BY <1>1, <1>2

LEMMA PayerIs ==
  ASSUME NEW o \in Offers, NEW pc
  PROVE  Payer(o, pc) \in Player /\ Price(o, pc) \in Item
  BY OfferIs DEF Payer, Price

LEMMA ReserveReadDoes ==
  ASSUME Called, Streams, NEW t \in TradeID, ReserveRead(t), NEW pc, pc = call[t].pc,
         NEW who, who = Payer(call[t].offer, pc), NEW item, item = Price(call[t].offer, pc)
  PROVE  /\ UNCHANGED <<inv, gathers, stream, tradeSeq, faults, crashes>>
         /\ call[t] # Idle /\ pc \in {"readP", "readC"}
         /\ \E c \in Calls :
              /\ call' = [call EXCEPT ![t] = c] /\ c.offer = call[t].offer
              /\ \/ /\ c.pc = IF pc = "readP" THEN "phaseP" ELSE "phaseC"
                    /\ hasMove(who, t, "reserved")
                 \/ c.pc = IF pc = "readP" THEN "cancel" ELSE "undoP"
                 \/ /\ c.pc = IF pc = "readP" THEN "appendP" ELSE "appendC"
                    /\ c.expected = Len(inv[who]) /\ ~hasMove(who, t, "reserved")
                    /\ ~(BalanceOf(who).available[item.kind] < item.amount)
<1>1. /\ UNCHANGED <<inv, gathers, stream, tradeSeq, faults, crashes>>
      /\ call[t] # Idle /\ pc \in {"readP", "readC"}
  BY DEF ReserveRead, Running, invVars
<1>2. PICK d \in Calls : d = call[t] /\ d.offer \in Offers
  BY <1>1, CallIs
<1>3. who \in Player /\ item \in Item
  BY <1>2, PayerIs
<1>4. PICK r : r = Reserves(t)
  OBVIOUS
<1>5. /\ r.who = who /\ r.item = item
      /\ r.done = IF pc = "readP" THEN "phaseP" ELSE "phaseC"
      /\ r.bad = IF pc = "readP" THEN "cancel" ELSE "undoP"
      /\ r.append = IF pc = "readP" THEN "appendP" ELSE "appendC"
  BY <1>1, <1>4, ReservesIs
<1>6. PICK n \in Nat : n = Len(inv[who])
  BY <1>3 DEF Streams
<1>7. PICK out : out = ReserveOutcome(who, t, item)
  OBVIOUS
<1>8. PICK next : next = CASE out = "done" -> r.done [] out = "refused" -> r.bad
                           [] out = "append" -> r.append
  OBVIOUS
<1>9. PICK c : c = [d EXCEPT !.pc = next, !.expected = n]
  OBVIOUS
<1>10. call' = [call EXCEPT ![t] = c]
  <2>1. call' = [call EXCEPT ![t].pc = next, ![t].expected = n]
    BY <1>4, <1>5, <1>6, <1>7, <1>8 DEF ReserveRead
  <2>2. call \in [TradeID -> {Idle} \cup Calls]
    BY DEF Called
  <2>3. QED
    BY <1>2, <1>9, <2>1, <2>2 DEF Calls
<1>11. out \in {"done", "refused", "append"}
  BY <1>7 DEF ReserveOutcome
<1>12. next \in Step /\ next = IF out = "done" THEN r.done ELSE IF out = "refused" THEN r.bad ELSE r.append
  BY <1>5, <1>8, <1>11 DEF Step
<1>13. c \in Calls /\ c.pc = next /\ c.offer = d.offer /\ c.expected = n
  BY <1>2, <1>6, <1>9, <1>12 DEF Calls
<1>14. /\ out = "done" => hasMove(who, t, "reserved")
       /\ out = "append" => /\ ~hasMove(who, t, "reserved")
                            /\ ~(BalanceOf(who).available[item.kind] < item.amount)
  BY <1>7 DEF ReserveOutcome
<1>15. QED
  BY <1>1, <1>2, <1>5, <1>6, <1>10, <1>11, <1>12, <1>13, <1>14

\* The call c of trade t has another attempt.
LEMMA AttemptTurns ==
  ASSUME Called, NEW t \in TradeID, call[t] # Idle, NEW pc \in Step, NEW n \in 0..MaxRetries-1,
         call' = [call EXCEPT ![t].pc = pc, ![t].attempt = n]
  PROVE  Turn(t, pc)
<1>1. PICK d \in Calls : d = call[t]
  BY CallIs
<1>2. PICK c : c = [d EXCEPT !.pc = pc, !.attempt = n]
  OBVIOUS
<1>3. c \in Calls /\ c.pc = pc /\ c.offer = d.offer
  BY <1>1, <1>2 DEF Calls
<1>4. call' = [call EXCEPT ![t] = c]
  <2>1. call \in [TradeID -> {Idle} \cup Calls]
    BY DEF Called
  <2>2. QED
    BY <1>1, <1>2, <2>1 DEF Calls
<1>5. QED
  BY <1>1, <1>3, <1>4 DEF Turn

LEMMA ReserveAppendDoes ==
  ASSUME Called, Streams, NEW t \in TradeID, ReserveAppend(t), NEW pc, pc = call[t].pc,
         NEW who, who = Payer(call[t].offer, pc), NEW item, item = Price(call[t].offer, pc)
  PROVE  /\ UNCHANGED <<gathers, stream, tradeSeq, faults, crashes>>
         /\ call[t] # Idle /\ pc \in {"appendP", "appendC"}
         /\ \/ /\ Len(inv[who]) = call[t].expected /\ Adds(who, MoveOf(t, "reserved", item))
               /\ Turn(t, IF pc = "appendP" THEN "phaseP" ELSE "phaseC")
            \/ /\ UNCHANGED inv
               /\ \/ Turn(t, IF pc = "appendP" THEN "readP" ELSE "readC")
                  \/ Turn(t, IF pc = "appendP" THEN "cancel" ELSE "undoP")
<1>1. /\ UNCHANGED <<gathers, stream, tradeSeq, faults, crashes>>
      /\ call[t] # Idle /\ pc \in {"appendP", "appendC"}
  BY DEF ReserveAppend, Running, invVars
<1>2. PICK d \in Calls : d = call[t] /\ d.offer \in Offers
  BY <1>1, CallIs
<1>3. who \in Player /\ item \in Item
  BY <1>2, PayerIs
<1>4. PICK r : r = Reserves(t)
  OBVIOUS
<1>5. /\ r.who = who /\ r.item = item
      /\ r.done = IF pc = "appendP" THEN "phaseP" ELSE "phaseC"
      /\ r.bad = IF pc = "appendP" THEN "cancel" ELSE "undoP"
      /\ r.read = IF pc = "appendP" THEN "readP" ELSE "readC"
  BY <1>1, <1>4, ReservesIs
<1>6. r.done \in Step /\ r.bad \in Step /\ r.read \in Step
  BY <1>5 DEF Step
<1>7. 0 \in 0..MaxRetries-1
  BY TradeAssumption
<1>8. CASE VersionHolds(t) /\ appendMove(who, t, item, "reserved")
           /\ call' = [call EXCEPT ![t].pc = r.done, ![t].attempt = 0]
  <2>1. Turn(t, r.done)
    BY <1>1, <1>6, <1>7, <1>8, AttemptTurns
  <2>2. Len(inv[who]) = call[t].expected
    BY <1>4, <1>5, <1>8 DEF VersionHolds
  <2>3. "reserved" \in MoveType
    BY DEF MoveType
  <2>4. MoveOf(t, "reserved", item) \in InvEvent
    BY <1>3, <2>3, MoveIs
  <2>5. Adds(who, MoveOf(t, "reserved", item))
    BY <1>3, <1>8, <2>4 DEF Adds, appendMove, MoveOf
  <2>6. QED
    BY <1>1, <1>5, <2>1, <2>2, <2>5
<1>9. CASE /\ UNCHANGED inv
           /\ call' = IF CanRetry(call[t].attempt + 1)
                      THEN [call EXCEPT ![t].pc = r.read, ![t].attempt = call[t].attempt + 1]
                      ELSE [call EXCEPT ![t].pc = r.bad, ![t].attempt = 0]
  <2>1. PICK n : n = call[t].attempt + 1
    OBVIOUS
  <2>2. CASE CanRetry(n)
    <3>1. n \in 0..MaxRetries-1
      <4>1. d.attempt \in 0..MaxRetries-1
        BY <1>2 DEF Calls
      <4>2. QED
        BY <1>2, <2>1, <2>2, <4>1, TradeAssumption DEF CanRetry
    <3>2. call' = [call EXCEPT ![t].pc = r.read, ![t].attempt = n]
      BY <1>9, <2>1, <2>2
    <3>3. Turn(t, r.read)
      BY <1>1, <1>6, <3>1, <3>2, AttemptTurns
    <3>4. QED
      BY <1>1, <1>5, <1>9, <3>3
  <2>3. CASE ~CanRetry(n)
    <3>1. call' = [call EXCEPT ![t].pc = r.bad, ![t].attempt = 0]
      BY <1>9, <2>1, <2>3
    <3>2. Turn(t, r.bad)
      BY <1>1, <1>6, <1>7, <3>1, AttemptTurns
    <3>3. QED
      BY <1>1, <1>5, <1>9, <3>2
  <2>4. QED
    BY <2>2, <2>3
<1>10. \/ /\ VersionHolds(t) /\ appendMove(who, t, item, "reserved")
          /\ call' = [call EXCEPT ![t].pc = r.done, ![t].attempt = 0]
       \/ /\ UNCHANGED inv
          /\ call' = IF CanRetry(call[t].attempt + 1)
                     THEN [call EXCEPT ![t].pc = r.read, ![t].attempt = call[t].attempt + 1]
                     ELSE [call EXCEPT ![t].pc = r.bad, ![t].attempt = 0]
  BY <1>4, <1>5 DEF ReserveAppend, invVars
<1>11. QED
  BY <1>8, <1>9, <1>10

LEMMA ReserveFailsDoes ==
  ASSUME Called, NEW t \in TradeID, ReserveFails(t), NEW pc, pc = call[t].pc
  PROVE  /\ UNCHANGED <<inv, gathers, stream, tradeSeq, crashes>> /\ faults' = faults + 1
         /\ call[t] # Idle /\ pc \in {"readP", "appendP", "readC", "appendC"}
         /\ Turn(t, IF pc \in {"readP", "appendP"} THEN "cancel" ELSE "undoP")
<1>1. /\ UNCHANGED <<inv, gathers, stream, tradeSeq, crashes>> /\ faults' = faults + 1
      /\ call[t] # Idle /\ pc \in {"readP", "appendP", "readC", "appendC"}
      /\ call' = [call EXCEPT ![t].pc = Reserves(t).bad, ![t].attempt = 0]
  BY DEF ReserveFails, Running, invVars
<1>2. PICK next : next = IF pc \in {"readP", "appendP"} THEN "cancel" ELSE "undoP"
  OBVIOUS
<1>3. Reserves(t).bad = next
  BY <1>1, <1>2, ReservesIs
<1>4. next \in Step
  BY <1>2 DEF Step
<1>5. 0 \in 0..MaxRetries-1
  BY TradeAssumption
<1>6. Turn(t, next)
  BY <1>1, <1>3, <1>4, <1>5, AttemptTurns
<1>7. QED
  BY <1>1, <1>2, <1>6

LEMMA MarkFailsDoes ==
  ASSUME Called, NEW t \in TradeID, MarkFails(t)
  PROVE  /\ UNCHANGED <<inv, gathers, stream, tradeSeq, crashes>> /\ faults' = faults + 1
         /\ call[t] # Idle /\ Turn(t, "error")
<1>1. /\ UNCHANGED <<inv, gathers, stream, tradeSeq, crashes>> /\ faults' = faults + 1
      /\ call[t] # Idle /\ Goto(t, "error")
  BY DEF MarkFails, Running, invVars
<1>2. "error" \in Step
  BY DEF Step
<1>3. QED
  BY <1>1, <1>2, GotoTurns

LEMMA DecideDoes ==
  ASSUME Called, NEW t \in TradeID, Decide(t)
  PROVE  /\ UNCHANGED <<inv, gathers, stream, tradeSeq, faults, crashes>>
         /\ call[t] # Idle /\ call[t].pc = "decide"
         /\ Turn(t, "readC") \/ Turn(t, "undoP")
<1>1. /\ UNCHANGED <<inv, gathers, stream, tradeSeq, faults, crashes>>
      /\ call[t] # Idle /\ call[t].pc = "decide"
      /\ Goto(t, "readC") \/ Goto(t, "undoP")
  BY DEF Decide, Running, invVars
<1>2. "readC" \in Step /\ "undoP" \in Step
  BY DEF Step
<1>3. QED
  BY <1>1, <1>2, GotoTurns

\* The moves of crossTransfer and of the compensations.
Transfer(o, pc, who, item, typ, next) ==
  \/ pc = "settle1" /\ who = o.proposer /\ item = o.give /\ typ = "committed" /\ next = "settle2"
  \/ pc = "settle2" /\ who = o.counterparty /\ item = o.give /\ typ = "received" /\ next = "settle3"
  \/ pc = "settle3" /\ who = o.counterparty /\ item = o.want /\ typ = "committed" /\ next = "settle4"
  \/ pc = "settle4" /\ who = o.proposer /\ item = o.want /\ typ = "received" /\ next = "phaseS"
  \/ pc = "undoP" /\ who = o.proposer /\ item = o.give /\ typ = "released" /\ next = "cancel"
  \/ pc = "undoBothP" /\ who = o.proposer /\ item = o.give /\ typ = "released" /\ next = "undoC"
  \/ pc = "undoC" /\ who = o.counterparty /\ item = o.want /\ typ = "released" /\ next = "cancel"

LEMMA MovesAre ==
  ASSUME NEW t, NEW pc, pc = call[t].pc, NEW o, o = call[t].offer, pc \in DOMAIN Moves(t)
  PROVE  /\ pc \in {"settle1", "settle2", "settle3", "settle4", "undoP", "undoBothP", "undoC"}
         /\ Transfer(o, pc, Moves(t)[pc].who, Moves(t)[pc].item, Moves(t)[pc].typ, Moves(t)[pc].next)
         /\ Moves(t)[pc].bad \in {"undoBothP", "undoC", "cancel"}
<1>1. pc \in {"settle1", "settle2", "settle3", "settle4", "undoP", "undoBothP", "undoC"}
  BY DEF Moves
<1>2. CASE pc = "settle1"
  BY <1>2 DEF Moves, Transfer, SettleBad
<1>3. CASE pc = "settle2"
  BY <1>3 DEF Moves, Transfer, SettleBad
<1>4. CASE pc = "settle3"
  BY <1>4 DEF Moves, Transfer, SettleBad
<1>5. CASE pc = "settle4"
  BY <1>5 DEF Moves, Transfer, SettleBad
<1>6. CASE pc = "undoP"
  BY <1>6 DEF Moves, Transfer, SettleBad
<1>7. CASE pc = "undoBothP"
  BY <1>7 DEF Moves, Transfer, SettleBad
<1>8. CASE pc = "undoC"
  BY <1>8 DEF Moves, Transfer, SettleBad
<1>9. QED
  BY <1>1, <1>2, <1>3, <1>4, <1>5, <1>6, <1>7, <1>8

LEMMA MoveDoes ==
  ASSUME Called, Streams, NEW t \in TradeID, Move(t)
  PROVE  /\ UNCHANGED <<gathers, stream, tradeSeq, faults, crashes>> /\ call[t] # Idle
         /\ \E who \in Player, item \in Item, typ \in MoveType, next \in Step :
              /\ Transfer(call[t].offer, call[t].pc, who, item, typ, next) /\ Turn(t, next)
              /\ \/ hasMove(who, t, typ) /\ UNCHANGED inv
                 \/ ~hasMove(who, t, typ) /\ Adds(who, MoveOf(t, typ, item))
<1>1. /\ UNCHANGED <<gathers, stream, tradeSeq, faults, crashes>> /\ call[t] # Idle
      /\ call[t].pc \in DOMAIN Moves(t)
  BY DEF Move, Running
<1>2. PICK o \in Offers : o = call[t].offer
  BY <1>1, CallIs
<1>3. PICK pc : pc = call[t].pc
  OBVIOUS
<1>4. PICK who, item, typ, next : /\ who = Moves(t)[pc].who /\ item = Moves(t)[pc].item
                                  /\ typ = Moves(t)[pc].typ /\ next = Moves(t)[pc].next
  OBVIOUS
<1>5. Transfer(o, pc, who, item, typ, next)
  BY <1>1, <1>2, <1>3, <1>4, MovesAre
<1>6. who \in Player /\ item \in Item /\ typ \in MoveType /\ next \in Step
  BY <1>2, <1>5, OfferIs DEF Transfer, MoveType, Step
<1>7. Goto(t, next) /\ idempotentMove(who, t, item, typ)
  BY <1>3, <1>4 DEF Move
<1>8. Turn(t, next)
  BY <1>1, <1>6, <1>7, GotoTurns
<1>9. MoveOf(t, typ, item) \in InvEvent
  BY <1>6, MoveIs
<1>10. \/ hasMove(who, t, typ) /\ UNCHANGED inv
       \/ ~hasMove(who, t, typ) /\ Adds(who, MoveOf(t, typ, item))
  BY <1>6, <1>7, <1>9 DEF idempotentMove, appendMove, Adds, MoveOf
<1>11. QED
  BY <1>1, <1>2, <1>3, <1>5, <1>6, <1>8, <1>10

LEMMA MoveFailsDoes ==
  ASSUME Called, NEW t \in TradeID, MoveFails(t)
  PROVE  /\ UNCHANGED <<inv, gathers, stream, tradeSeq, crashes>> /\ faults' = faults + 1
         /\ call[t] # Idle
         /\ call[t].pc \in {"settle1", "settle2", "settle3", "settle4", "undoP", "undoBothP", "undoC"}
         /\ \E next \in {"undoBothP", "undoC", "cancel"} : Turn(t, next)
<1>1. /\ UNCHANGED <<inv, gathers, stream, tradeSeq, crashes>> /\ faults' = faults + 1
      /\ call[t] # Idle /\ call[t].pc \in DOMAIN Moves(t)
      /\ Goto(t, Moves(t)[call[t].pc].bad)
  BY DEF MoveFails, Running, invVars
<1>2. PICK pc, next : pc = call[t].pc /\ next = Moves(t)[pc].bad
  OBVIOUS
<1>3. /\ pc \in {"settle1", "settle2", "settle3", "settle4", "undoP", "undoBothP", "undoC"}
      /\ next \in {"undoBothP", "undoC", "cancel"}
  BY <1>1, <1>2, MovesAre
<1>4. next \in Step
  BY <1>3 DEF Step
<1>5. Turn(t, next)
  BY <1>1, <1>2, <1>4, GotoTurns
<1>6. QED
  BY <1>1, <1>2, <1>3, <1>5

-----------------------------------------------------------------------------
(* Types, and nobody is overdrawn. *)

\* p's goods at hand.
Solvent(p) == BalanceOf(p) \in Balance /\ \A k \in Kind : BalanceOf(p).available[k] >= 0

\* p can pay, if his stream still has length n.
Covered(p, item, n) ==
  /\ n <= Len(inv[p])
  /\ n = Len(inv[p]) => BalanceOf(p).available[item.kind] >= item.amount

\* A call that is about to reserve has read that it can, or its Append will fail.
CanPay(t) ==
  call[t] # Idle /\ call[t].pc \in {"appendP", "appendC"} =>
    Covered(Payer(call[t].offer, call[t].pc), Price(call[t].offer, call[t].pc), call[t].expected)

PayInv ==
  /\ TypeOK
  /\ \A p \in Player : Solvent(p)
  /\ \A t \in TradeID : CanPay(t)

LEMMA TypeParts ==
  TypeOK => Called /\ Streams /\ stream \in [TradeID -> Seq(TradeEvent)]
  BY DEF TypeOK, Called, Streams, Calls

LEMMA TypesStay ==
  ASSUME TypeOK, Called', UNCHANGED inv \/ \E p, e : Adds(p, e),
         UNCHANGED stream \/ \E t \in TradeID : \E typ : Records(t, typ),
         gathers' \in Nat, faults' \in Nat, crashes' \in Nat, tradeSeq' \in {0} \cup TradeID
  PROVE  TypeOK'
<1>1. Streams'
  <2>1. Streams
    BY TypeParts
  <2>2. ASSUME NEW p, NEW e, Adds(p, e) PROVE Streams'
    BY <2>1, <2>2, AddsTo
  <2>3. UNCHANGED inv => Streams'
    BY <2>1 DEF Streams
  <2>4. QED
    BY <2>2, <2>3
<1>2. stream' \in [TradeID -> Seq(TradeEvent)]
  <2>1. ASSUME NEW t \in TradeID, NEW typ, Records(t, typ)
        PROVE  stream' \in [TradeID -> Seq(TradeEvent)]
    <3>1. PICK e \in TradeEvent : stream' = [stream EXCEPT ![t] = Append(stream[t], e)]
      BY <2>1 DEF Records
    <3>2. PICK s \in Seq(TradeEvent) : s = stream[t]
      BY TypeParts
    <3>3. PICK r \in Seq(TradeEvent) : r = Append(s, e)
      BY <3>2, AppendProperties
    <3>4. stream' = [stream EXCEPT ![t] = r]
      BY <3>1, <3>2, <3>3
    <3>5. QED
      BY <3>4, TypeParts
  <2>2. QED
    BY <2>1, TypeParts
<1>3. QED
  BY <1>1, <1>2 DEF TypeOK, Called, Calls, Streams

LEMMA SolventStays ==
  ASSUME Streams, NEW p, NEW e, Adds(p, e), \A q \in Player : Solvent(q),
         \A k \in Kind : BalanceOf(p).available[k] + Frees(e, k) >= 0
  PROVE  \A q \in Player : Solvent(q)'
<1>1. SUFFICES ASSUME NEW q \in Player PROVE Solvent(q)'
  OBVIOUS
<1>2. PICK b \in Balance : b = BalanceOf(q)
  BY DEF Solvent
<1>3. CASE q = p
  <2>1. PICK c : c = applyTo(b, e) /\ c = BalanceOf(q)'
    BY <1>2, <1>3, AddsBalance
  <2>2. e \in InvEvent
    BY DEF Adds
  <2>3. c \in Balance /\ \A k \in Kind : c.available[k] = b.available[k] + Frees(e, k)
    <3>1. applyTo(b, e) \in Balance
      BY <2>2, ApplyIs
    <3>2. \A k \in Kind : applyTo(b, e).available[k] = b.available[k] + Frees(e, k)
      BY <2>2, ApplyIs
    <3>3. QED
      BY <2>1, <3>1, <3>2
  <2>4. \A k \in Kind : c.available[k] >= 0
    BY <1>2, <1>3, <2>3
  <2>5. QED
    BY <2>1, <2>3, <2>4 DEF Solvent
<1>4. CASE q # p
  <2>1. BalanceOf(q)' = b
    BY <1>2, <1>4, AddsBalance
  <2>2. \A k \in Kind : b.available[k] >= 0
    BY <1>2 DEF Solvent
  <2>3. QED
    BY <2>1, <2>2 DEF Solvent
<1>5. QED
  BY <1>3, <1>4

\* Only a reservation takes goods away.
LEMMA NoLess ==
  ASSUME NEW e \in InvEvent, e.typ # "reserved", NEW p \in Player, Solvent(p), NEW k \in Kind
  PROVE  BalanceOf(p).available[k] + Frees(e, k) >= 0
<1>1. PICK b \in Balance : b = BalanceOf(p) /\ b.available[k] >= 0
  BY DEF Solvent
<1>2. b.available[k] \in Int
  BY DEF Balance
<1>3. Worth(e.item, k) \in Nat
  BY EventIs DEF Worth
<1>4. Frees(e, k) \in Nat
  BY <1>3 DEF Frees
<1>5. QED
  BY <1>1, <1>2, <1>4

LEMMA SolventGrows ==
  ASSUME Streams, NEW p, NEW e, Adds(p, e), e.typ # "reserved", \A q \in Player : Solvent(q)
  PROVE  \A q \in Player : Solvent(q)'
<1>1. e \in InvEvent /\ p \in Player
  BY DEF Adds
<1>2. \A k \in Kind : BalanceOf(p).available[k] + Frees(e, k) >= 0
  BY <1>1, NoLess
<1>3. QED
  BY <1>2, SolventStays

LEMMA SolventSame ==
  ASSUME UNCHANGED inv, \A q \in Player : Solvent(q)
  PROVE  \A q \in Player : Solvent(q)'
  BY DEF Solvent, BalanceOf

\* A reservation that is covered.
LEMMA SolventPays ==
  ASSUME Streams, NEW t \in TradeID, NEW p, NEW item \in Item,
         Adds(p, MoveOf(t, "reserved", item)), \A q \in Player : Solvent(q),
         ~(BalanceOf(p).available[item.kind] < item.amount)
  PROVE  \A q \in Player : Solvent(q)'
<1>1. PICK e : e = MoveOf(t, "reserved", item)
  OBVIOUS
<1>2. e.typ = "reserved" /\ e.item = item /\ Adds(p, e) /\ p \in Player
  BY <1>1, MoveIs DEF MoveType, Adds
<1>3. PICK b \in Balance : b = BalanceOf(p) /\ \A k \in Kind : b.available[k] >= 0
  BY <1>2 DEF Solvent
<1>4. item.kind \in Kind /\ item.amount \in Int
  BY ItemIs
<1>5. ASSUME NEW k \in Kind PROVE b.available[k] + Frees(e, k) >= 0
  <2>1. Frees(e, k) = IF item.kind = k THEN -item.amount ELSE 0
    BY <1>2 DEF Frees, Worth
  <2>2. b.available[k] \in Int /\ b.available[k] >= 0
    BY <1>3 DEF Balance
  <2>3. ~(b.available[item.kind] < item.amount)
    BY <1>3
  <2>4. QED
    BY <1>4, <2>1, <2>2, <2>3
<1>6. QED
  BY <1>2, <1>3, <1>5, SolventStays

\* The stock.
LEMMA SolventInit == InvInit => \A p \in Player : Solvent(p)
<1>1. SUFFICES ASSUME InvInit, NEW p \in Player PROVE Solvent(p)
  OBVIOUS
<1>2. PICK b : b = [ZeroBalance EXCEPT !.available = Stock[p]]
  OBVIOUS
<1>3. inv[p] = <<>>
  BY <1>1 DEF InvInit
<1>4. BalanceOf(p) = b
  BY <1>2, <1>3, FoldOfEmpty DEF BalanceOf
<1>5. PICK A \in [Kind -> Nat] : A = Stock[p]
  BY InventoryAssumption
<1>6. A \in [Kind -> Int] /\ \A k \in Kind : A[k] >= 0
  BY <1>5
<1>7. b \in Balance /\ b.available = A
  BY <1>2, <1>5, <1>6, ZeroIs DEF Balance
<1>8. QED
  BY <1>4, <1>6, <1>7 DEF Solvent

LEMMA CoveredStays ==
  ASSUME Streams, NEW q \in Player, NEW item, NEW n \in Nat, Covered(q, item, n), Grows
  PROVE  Covered(q, item, n)'
<1>1. CASE UNCHANGED inv
  BY <1>1 DEF Covered, BalanceOf
<1>2. ASSUME NEW p, NEW e, Adds(p, e) PROVE Covered(q, item, n)'
  <2>1. PICK l \in Nat : l = Len(inv[q])
    BY DEF Streams
  <2>2. CASE q = p
    <3>1. Len(inv'[q]) = l + 1
      BY <1>2, <2>1, <2>2, AddsTo
    <3>2. n <= l + 1 /\ n # l + 1
      BY <2>1 DEF Covered
    <3>3. QED
      BY <3>1, <3>2 DEF Covered
  <2>3. CASE q # p
    <3>1. inv'[q] = inv[q]
      BY <1>2, <2>3, AddsTo
    <3>2. BalanceOf(q)' = BalanceOf(q)
      BY <1>2, <2>3, AddsBalance
    <3>3. QED
      BY <3>1, <3>2 DEF Covered
  <2>4. QED
    BY <2>2, <2>3
<1>3. QED
  BY <1>1, <1>2 DEF Grows

\* A call that does not move can still pay, and one that moves elsewhere need not.
LEMMA CanPayStays ==
  ASSUME Called, Streams, NEW u \in TradeID, CanPay(u), call'[u] = call[u], Grows
  PROVE  CanPay(u)'
<1>1. SUFFICES ASSUME call[u] # Idle, call[u].pc \in {"appendP", "appendC"}
               PROVE  CanPay(u)'
  BY DEF CanPay
<1>2. PICK c \in Calls : c = call[u] /\ c.offer \in Offers
  BY <1>1, CallIs
<1>3. PICK p \in Player, item \in Item : p = Payer(c.offer, c.pc) /\ item = Price(c.offer, c.pc)
  BY <1>2, PayerIs
<1>4. c.expected \in Nat
  BY <1>2 DEF Calls
<1>5. Covered(p, item, c.expected)
  BY <1>1, <1>2, <1>3 DEF CanPay
<1>6. Covered(p, item, c.expected)'
  BY <1>4, <1>5, CoveredStays
<1>7. QED
  BY <1>2, <1>3, <1>6 DEF CanPay

LEMMA TurnPays ==
  ASSUME Called, Streams, NEW t \in TradeID, NEW next, Turn(t, next), Grows,
         next \notin {"appendP", "appendC"}, \A u \in TradeID : CanPay(u)
  PROVE  \A u \in TradeID : CanPay(u)'
<1>1. SUFFICES ASSUME NEW u \in TradeID PROVE CanPay(u)'
  OBVIOUS
<1>2. CASE u = t
  <2>1. call'[u].pc = next
    BY <1>2, TurnIs
  <2>2. QED
    BY <2>1 DEF CanPay
<1>3. CASE u # t
  <2>1. call'[u] = call[u]
    BY <1>3, TurnIs
  <2>2. QED
    BY <2>1, CanPayStays
<1>4. QED
  BY <1>2, <1>3

\* A turn that appends no reservation.
LEMMA HarmlessTurn ==
  ASSUME PayInv, NEW t \in TradeID, NEW next, Turn(t, next),
         next \notin {"appendP", "appendC"},
         UNCHANGED inv \/ \E p, e : Adds(p, e) /\ e.typ # "reserved",
         UNCHANGED stream \/ \E typ : Records(t, typ),
         UNCHANGED <<gathers, tradeSeq, crashes>>, faults' \in Nat
  PROVE  PayInv'
<1>1. TypeOK /\ Called /\ Streams
  BY TypeParts DEF PayInv
<1>2. Grows
  BY DEF Grows
<1>3. Called'
  BY <1>1, TurnIs
<1>4. TypeOK'
  BY <1>1, <1>2, <1>3, TypesStay DEF TypeOK, Grows
<1>5. \A p \in Player : Solvent(p)'
  BY <1>1, SolventGrows, SolventSame DEF PayInv
<1>6. \A u \in TradeID : CanPay(u)'
  BY <1>1, <1>2, TurnPays DEF PayInv
<1>7. QED
  BY <1>4, <1>5, <1>6 DEF PayInv

LEMMA ReadPays ==
  ASSUME PayInv, NEW t \in TradeID, ReserveRead(t)
  PROVE  PayInv'
<1>1. TypeOK /\ Called /\ Streams
  BY TypeParts DEF PayInv
<1>2. PICK pc, o : pc = call[t].pc /\ o = call[t].offer
  OBVIOUS
<1>3. PICK who, item : who = Payer(o, pc) /\ item = Price(o, pc)
  OBVIOUS
<1>4. /\ UNCHANGED <<inv, gathers, stream, tradeSeq, faults, crashes>>
      /\ call[t] # Idle /\ pc \in {"readP", "readC"}
  BY <1>1, <1>2, <1>3, ReserveReadDoes
<1>5. PICK c \in Calls :
        /\ call' = [call EXCEPT ![t] = c] /\ c.offer = o
        /\ \/ c.pc = IF pc = "readP" THEN "phaseP" ELSE "phaseC"
           \/ c.pc = IF pc = "readP" THEN "cancel" ELSE "undoP"
           \/ /\ c.pc = IF pc = "readP" THEN "appendP" ELSE "appendC"
              /\ c.expected = Len(inv[who])
              /\ ~(BalanceOf(who).available[item.kind] < item.amount)
  BY <1>1, <1>2, <1>3, ReserveReadDoes
<1>6. o \in Offers
  BY <1>1, <1>2, <1>4, CallIs
<1>7. who \in Player /\ item \in Item
  BY <1>3, <1>6, PayerIs
<1>8. call'[t] = c /\ \A u \in TradeID : u # t => call'[u] = call[u]
  BY <1>1, <1>5 DEF Called
<1>9. Called' /\ Grows
  BY <1>1, <1>4, <1>5 DEF Called, Grows
<1>10. TypeOK'
  BY <1>1, <1>4, <1>9, TypesStay DEF TypeOK
<1>11. \A p \in Player : Solvent(p)'
  BY <1>4, SolventSame DEF PayInv
<1>12. CanPay(t)'
  <2>1. CASE c.pc \in {"appendP", "appendC"}
    <3>1. Payer(o, c.pc) = who /\ Price(o, c.pc) = item
      BY <1>3, <1>4, <1>5, <2>1 DEF Payer, Price
    <3>2. c.expected = Len(inv[who]) /\ ~(BalanceOf(who).available[item.kind] < item.amount)
      BY <1>4, <1>5, <2>1
    <3>3. PICK b \in Balance : b = BalanceOf(who)
      BY <1>7 DEF PayInv, Solvent
    <3>4. b.available[item.kind] \in Int /\ item.amount \in Int
      BY <1>7, ItemIs DEF Balance
    <3>5. b.available[item.kind] >= item.amount
      BY <3>2, <3>3, <3>4
    <3>6. c.expected \in Nat
      BY DEF Calls
    <3>7. Covered(who, item, c.expected)
      BY <3>2, <3>3, <3>5, <3>6 DEF Covered
    <3>8. Covered(who, item, c.expected)'
      BY <1>1, <1>7, <1>9, <3>6, <3>7, CoveredStays
    <3>9. QED
      BY <1>5, <1>8, <3>1, <3>8 DEF CanPay
  <2>2. CASE c.pc \notin {"appendP", "appendC"}
    BY <1>8, <2>2 DEF CanPay
  <2>3. QED
    BY <2>1, <2>2
<1>13. \A u \in TradeID : CanPay(u)'
  BY <1>1, <1>8, <1>9, <1>12, CanPayStays DEF PayInv
<1>14. QED
  BY <1>10, <1>11, <1>13 DEF PayInv

LEMMA AppendPays ==
  ASSUME PayInv, NEW t \in TradeID, ReserveAppend(t)
  PROVE  PayInv'
<1>1. TypeOK /\ Called /\ Streams
  BY TypeParts DEF PayInv
<1>2. PICK pc, o : pc = call[t].pc /\ o = call[t].offer
  OBVIOUS
<1>3. PICK who, item : who = Payer(o, pc) /\ item = Price(o, pc)
  OBVIOUS
<1>4. /\ UNCHANGED <<gathers, stream, tradeSeq, faults, crashes>>
      /\ call[t] # Idle /\ pc \in {"appendP", "appendC"}
  BY <1>1, <1>2, <1>3, ReserveAppendDoes
<1>5. faults' \in Nat
  BY <1>1, <1>4 DEF TypeOK
<1>6. \/ /\ Len(inv[who]) = call[t].expected /\ Adds(who, MoveOf(t, "reserved", item))
         /\ Turn(t, IF pc = "appendP" THEN "phaseP" ELSE "phaseC")
      \/ /\ UNCHANGED inv
         /\ \/ Turn(t, IF pc = "appendP" THEN "readP" ELSE "readC")
            \/ Turn(t, IF pc = "appendP" THEN "cancel" ELSE "undoP")
  BY <1>1, <1>2, <1>3, ReserveAppendDoes
<1>7. CASE UNCHANGED inv
  <2>1. PICK next : Turn(t, next) /\ next \notin {"appendP", "appendC"}
    <3>1. PICK x, y, z : /\ x = (IF pc = "appendP" THEN "readP" ELSE "readC")
                         /\ y = (IF pc = "appendP" THEN "cancel" ELSE "undoP")
                         /\ z = (IF pc = "appendP" THEN "phaseP" ELSE "phaseC")
      OBVIOUS
    <3>2. \A v \in {x, y, z} : v \notin {"appendP", "appendC"}
      BY <3>1
    <3>3. Turn(t, x) \/ Turn(t, y) \/ Turn(t, z)
      BY <1>6, <3>1
    <3>4. QED
      BY <3>2, <3>3
  <2>2. QED
    BY <1>4, <1>5, <1>7, <2>1, HarmlessTurn
<1>8. CASE /\ Len(inv[who]) = call[t].expected /\ Adds(who, MoveOf(t, "reserved", item))
           /\ Turn(t, IF pc = "appendP" THEN "phaseP" ELSE "phaseC")
  <2>1. PICK next : next = (IF pc = "appendP" THEN "phaseP" ELSE "phaseC")
    OBVIOUS
  <2>2. Turn(t, next) /\ next \notin {"appendP", "appendC"}
    BY <1>8, <2>1
  <2>3. o \in Offers
    BY <1>1, <1>2, <1>4, CallIs
  <2>4. who \in Player /\ item \in Item
    BY <1>3, <2>3, PayerIs
  <2>5. Grows
    BY <1>8 DEF Grows
  <2>6. Called'
    BY <1>1, <2>2, TurnIs
  <2>7. TypeOK'
    BY <1>1, <1>4, <1>8, <2>6, TypesStay DEF TypeOK
  <2>8. ~(BalanceOf(who).available[item.kind] < item.amount)
    <3>1. Covered(who, item, call[t].expected)
      BY <1>2, <1>3, <1>4 DEF PayInv, CanPay
    <3>2. PICK b \in Balance : b = BalanceOf(who)
      BY <2>4 DEF PayInv, Solvent
    <3>3. b.available[item.kind] >= item.amount
      BY <1>8, <3>1, <3>2 DEF Covered
    <3>4. b.available[item.kind] \in Int /\ item.amount \in Int
      BY <2>4, <3>2, ItemIs DEF Balance
    <3>5. QED
      BY <3>2, <3>3, <3>4
  <2>9. \A p \in Player : Solvent(p)'
    BY <1>1, <1>8, <2>4, <2>8, SolventPays DEF PayInv
  <2>10. \A u \in TradeID : CanPay(u)'
    BY <1>1, <2>2, <2>5, TurnPays DEF PayInv
  <2>11. QED
    BY <2>7, <2>9, <2>10 DEF PayInv
<1>9. QED
  BY <1>6, <1>7, <1>8

LEMMA PayInvInit == Init => PayInv
<1>1. SUFFICES ASSUME Init PROVE PayInv
  OBVIOUS
<1>2. TypeOK
  <2>1. inv \in [Player -> Seq(InvEvent)]
    BY <1>1 DEF Init, InvInit
  <2>2. call \in [TradeID -> {Idle} \cup
                   [pc : Step, offer : Offers, expected : Nat, attempt : 0..MaxRetries-1]]
    BY <1>1 DEF Init
  <2>3. stream \in [TradeID -> Seq(TradeEvent)]
    BY <1>1 DEF Init
  <2>4. QED
    BY <1>1, <2>1, <2>2, <2>3 DEF Init, InvInit, TypeOK
<1>3. \A p \in Player : Solvent(p)
  BY <1>1, SolventInit DEF Init
<1>4. ASSUME NEW t \in TradeID PROVE CanPay(t)
  BY <1>1 DEF Init, CanPay
<1>5. QED
  BY <1>2, <1>3, <1>4 DEF PayInv

\* handleTrade starts a call, and nothing else happens.
LEMMA ExecuteDoes ==
  ASSUME Called, NEW o \in Offers, Execute(o)
  PROVE  /\ UNCHANGED <<inv, gathers, stream, faults, crashes>>
         /\ \E t \in TradeID : \E c \in Calls :
              /\ t = tradeSeq + 1 /\ tradeSeq' = t
              /\ c.pc = "propose" /\ c.offer = o /\ call' = [call EXCEPT ![t] = c]
<1>1. PICK t \in TradeID : /\ t = tradeSeq + 1 /\ tradeSeq' = t
                           /\ call' = [call EXCEPT ![t] = [pc |-> "propose", offer |-> o,
                                                           expected |-> 0, attempt |-> 0]]
  BY DEF Execute
<1>2. PICK c : c = [pc |-> "propose", offer |-> o, expected |-> 0, attempt |-> 0]
  OBVIOUS
<1>3. c \in Calls /\ c.pc = "propose" /\ c.offer = o
  <2>1. 0 \in 0..MaxRetries-1 /\ "propose" \in Step
    BY TradeAssumption DEF Step
  <2>2. QED
    BY <1>2, <2>1 DEF Calls
<1>4. UNCHANGED <<inv, gathers, stream, faults, crashes>>
  BY DEF Execute, invVars
<1>5. QED
  BY <1>1, <1>2, <1>3, <1>4

LEMMA ExecutePays ==
  ASSUME PayInv, NEW o \in Offers, Execute(o)
  PROVE  PayInv'
<1>1. TypeOK /\ Called /\ Streams
  BY TypeParts DEF PayInv
<1>2. UNCHANGED <<inv, gathers, stream, faults, crashes>>
  BY <1>1, ExecuteDoes
<1>3. PICK t \in TradeID, c \in Calls : /\ tradeSeq' = t /\ c.pc = "propose"
                                        /\ call' = [call EXCEPT ![t] = c]
  BY <1>1, ExecuteDoes
<1>4. call'[t] = c /\ \A u \in TradeID : u # t => call'[u] = call[u]
  BY <1>1, <1>3 DEF Called
<1>5. Called' /\ Grows
  BY <1>1, <1>2, <1>3 DEF Called, Grows
<1>6. TypeOK'
  BY <1>1, <1>2, <1>3, <1>5, TypesStay DEF TypeOK
<1>7. \A p \in Player : Solvent(p)'
  BY <1>2, SolventSame DEF PayInv
<1>8. CanPay(t)'
  BY <1>3, <1>4 DEF CanPay
<1>9. \A u \in TradeID : CanPay(u)'
  BY <1>1, <1>4, <1>5, <1>8, CanPayStays DEF PayInv
<1>10. QED
  BY <1>6, <1>7, <1>9 DEF PayInv

LEMMA GatherDoes ==
  ASSUME NEW p \in Player, NEW k \in Kind, Gather(p, k)
  PROVE  /\ gathers' = gathers + 1
         /\ \E e : Adds(p, e) /\ e.typ = "gathered" /\ \A u : ~Concerns(e, u)
<1>1. PICK e : e = [typ |-> "gathered", item |-> [kind |-> k, amount |-> 1]]
  OBVIOUS
<1>2. e \in InvEvent /\ e.typ = "gathered" /\ \A u : ~Concerns(e, u)
  BY <1>1, GatherIs
<1>3. inv' = [inv EXCEPT ![p] = Append(inv[p], e)] /\ gathers' = gathers + 1
  BY <1>1 DEF Gather
<1>4. QED
  BY <1>2, <1>3 DEF Adds

LEMMA GatherPays ==
  ASSUME PayInv, NEW p \in Player, NEW k \in Kind, Gather(p, k),
         UNCHANGED <<call, stream, tradeSeq, faults, crashes>>
  PROVE  PayInv'
<1>1. TypeOK /\ Called /\ Streams
  BY TypeParts DEF PayInv
<1>2. PICK e : Adds(p, e) /\ e.typ = "gathered"
  BY GatherDoes
<1>3. gathers' \in Nat
  BY <1>1, GatherDoes DEF TypeOK
<1>4. Called' /\ Grows
  BY <1>1, <1>2 DEF Called, Grows
<1>5. TypeOK'
  BY <1>1, <1>2, <1>3, <1>4, TypesStay DEF TypeOK
<1>6. \A q \in Player : Solvent(q)'
  BY <1>1, <1>2, SolventGrows DEF PayInv
<1>7. \A u \in TradeID : CanPay(u)'
  BY <1>1, <1>4, CanPayStays DEF PayInv
<1>8. QED
  BY <1>5, <1>6, <1>7 DEF PayInv

LEMMA CrashPays ==
  ASSUME PayInv, Crash
  PROVE  PayInv'
<1>1. TypeOK
  BY DEF PayInv
<1>2. /\ UNCHANGED <<inv, gathers, stream, faults>> /\ crashes' = crashes + 1
      /\ call' = [t \in TradeID |-> Idle] /\ tradeSeq' = 0
  BY DEF Crash, invVars
<1>3. Called'
  BY <1>2 DEF Called
<1>4. TypeOK'
  BY <1>1, <1>2, <1>3, TypesStay DEF TypeOK
<1>5. \A p \in Player : Solvent(p)'
  BY <1>2, SolventSame DEF PayInv
<1>6. \A u \in TradeID : CanPay(u)'
  BY <1>2 DEF CanPay
<1>7. QED
  BY <1>4, <1>5, <1>6 DEF PayInv

LEMMA PayInvStep == PayInv /\ [Next]_vars => PayInv'
<1>1. SUFFICES ASSUME PayInv, [Next]_vars PROVE PayInv'
  OBVIOUS
<1>2. TypeOK /\ Called /\ Streams /\ faults \in Nat
  BY <1>1, TypeParts DEF PayInv, TypeOK
<1>3. ASSUME NEW t \in TradeID, Mark(t) PROVE PayInv'
  <2>1. UNCHANGED <<inv, gathers, tradeSeq, faults, crashes>>
    BY <1>2, <1>3, MarkDoes
  <2>2. PICK typ, next : Turn(t, next) /\ Records(t, typ) /\ next \notin {"appendP", "appendC"}
    BY <1>2, <1>3, MarkDoes
  <2>3. QED
    BY <1>1, <1>2, <2>1, <2>2, HarmlessTurn
<1>4. ASSUME NEW t \in TradeID, Decide(t) PROVE PayInv'
  <2>1. PICK next : Turn(t, next) /\ next \notin {"appendP", "appendC"}
    BY <1>2, <1>4, DecideDoes
  <2>2. QED
    BY <1>1, <1>2, <1>4, <2>1, DecideDoes, HarmlessTurn
<1>5. ASSUME NEW t \in TradeID, Move(t) PROVE PayInv'
  <2>1. UNCHANGED <<gathers, stream, tradeSeq, faults, crashes>>
    BY <1>2, <1>5, MoveDoes
  <2>2. PICK who \in Player, item \in Item, typ \in MoveType, next \in Step :
          /\ Transfer(call[t].offer, call[t].pc, who, item, typ, next) /\ Turn(t, next)
          /\ UNCHANGED inv \/ Adds(who, MoveOf(t, typ, item))
    BY <1>2, <1>5, MoveDoes
  <2>3. next \notin {"appendP", "appendC"} /\ typ # "reserved"
    BY <2>2 DEF Transfer
  <2>4. MoveOf(t, typ, item).typ = typ
    BY MoveIs
  <2>5. UNCHANGED inv \/ \E p, e : Adds(p, e) /\ e.typ # "reserved"
    BY <2>2, <2>3, <2>4
  <2>6. QED
    BY <1>1, <1>2, <2>1, <2>2, <2>3, <2>5, HarmlessTurn
<1>6. ASSUME NEW t \in TradeID, MarkFails(t) PROVE PayInv'
  <2>1. "error" \notin {"appendP", "appendC"} /\ faults' \in Nat
    BY <1>2, <1>6, MarkFailsDoes
  <2>2. QED
    BY <1>1, <1>2, <1>6, <2>1, MarkFailsDoes, HarmlessTurn
<1>7. ASSUME NEW t \in TradeID, ReserveFails(t) PROVE PayInv'
  <2>1. PICK pc : pc = call[t].pc
    OBVIOUS
  <2>2. PICK next : next = IF pc \in {"readP", "appendP"} THEN "cancel" ELSE "undoP"
    OBVIOUS
  <2>3. /\ UNCHANGED <<inv, gathers, stream, tradeSeq, crashes>> /\ faults' = faults + 1
        /\ Turn(t, next)
    BY <1>2, <1>7, <2>1, <2>2, ReserveFailsDoes
  <2>4. next \notin {"appendP", "appendC"} /\ faults' \in Nat
    BY <1>2, <2>2, <2>3
  <2>5. QED
    BY <1>1, <1>2, <2>3, <2>4, HarmlessTurn
<1>8. ASSUME NEW t \in TradeID, MoveFails(t) PROVE PayInv'
  <2>1. /\ UNCHANGED <<inv, gathers, stream, tradeSeq, crashes>> /\ faults' = faults + 1
    BY <1>2, <1>8, MoveFailsDoes
  <2>2. PICK next \in {"undoBothP", "undoC", "cancel"} : Turn(t, next)
    BY <1>2, <1>8, MoveFailsDoes
  <2>3. next \notin {"appendP", "appendC"} /\ faults' \in Nat
    BY <1>2, <2>1
  <2>4. QED
    BY <1>1, <1>2, <2>1, <2>2, <2>3, HarmlessTurn
<1>9. ASSUME UNCHANGED vars PROVE PayInv'
  <2>1. UNCHANGED <<inv, gathers, call, stream, tradeSeq, faults, crashes>>
    BY <1>9 DEF vars, invVars
  <2>2. TypeOK'
    BY <1>2, <2>1 DEF TypeOK
  <2>3. \A p \in Player : Solvent(p)'
    BY <1>1, <2>1, SolventSame DEF PayInv
  <2>4. Grows
    BY <2>1 DEF Grows
  <2>5. \A u \in TradeID : CanPay(u)'
    BY <1>1, <1>2, <2>1, <2>4, CanPayStays DEF PayInv
  <2>6. QED
    BY <2>2, <2>3, <2>5 DEF PayInv
<1>10. QED
  BY <1>1, <1>3, <1>4, <1>5, <1>6, <1>7, <1>8, <1>9, ReadPays, AppendPays, ExecutePays, GatherPays,
     CrashPays DEF Next, Advance

LEMMA Pays == Spec => []PayInv
  BY PayInvInit, PayInvStep, PTL DEF Spec

\* The streams, the calls and the counters keep their types (package trade).
THEOREM TradeTypeCorrect == Spec => []TypeOK
  BY Pays, PTL DEF PayInv

\* No player ever has less than nothing: trades that compete for the same goods, and
\* gathers between the look and the Append of Reserve, never overdraw.
THEOREM NobodyOverdrawn == Spec => []NoOverdraft
<1>1. PayInv => NoOverdraft
  BY DEF PayInv, Solvent, NoOverdraft
<1>2. QED
  BY <1>1, Pays, PTL

-----------------------------------------------------------------------------
(* What a trade stream proposes. *)

LEMMA MaxIs ==
  ASSUME NEW n \in Nat, NEW S, S \subseteq 1..n, S # {}
  PROVE  Max(S) \in S /\ \A y \in S : Max(S) >= y
<1>1. \E x \in S : \A y \in S : x >= y
  BY Greatest
<1>2. QED
  BY <1>1 DEF Max

\* The events of a trade stream that propose it, and what the last of them says.
Proposals(s) == {i \in 1..Len(s) : s[i].typ = "proposed"}
LastOffer(s) == s[Max(Proposals(s))].offer

LEMMA LastOfferIs ==
  ASSUME NEW s \in Seq(TradeEvent), Proposals(s) # {}
  PROVE  LastOffer(s) \in Offers
<1>1. PICK n \in Nat : n = Len(s)
  OBVIOUS
<1>2. PICK S : S = Proposals(s) /\ S \subseteq 1..n /\ S # {}
  BY <1>1 DEF Proposals
<1>3. PICK m \in S : m = Max(S)
  BY <1>1, <1>2, MaxIs
<1>4. m \in 1..n /\ s[m].typ = "proposed"
  BY <1>1, <1>2 DEF Proposals
<1>5. s[m] \in TradeEvent
  BY <1>1, <1>4
<1>6. s[m] \in [typ : {"proposed"}, offer : Offers]
  BY <1>4, <1>5 DEF TradeEvent
<1>7. s[m].offer \in Offers
  BY <1>6
<1>8. QED
  BY <1>2, <1>3, <1>7 DEF LastOffer

LEMMA OfferAppended ==
  ASSUME NEW s \in Seq(TradeEvent), NEW e \in TradeEvent, NEW r, r = Append(s, e)
  PROVE  /\ r # <<>> /\ Last(r) = e
         /\ e.typ = "proposed" => Proposals(r) # {} /\ LastOffer(r) = e.offer
         /\ e.typ # "proposed" /\ Proposals(s) # {} =>
              Proposals(r) # {} /\ LastOffer(r) = LastOffer(s)
<1>1. PICK n \in Nat : n = Len(s)
  OBVIOUS
<1>2. /\ r \in Seq(TradeEvent) /\ r # <<>> /\ Len(r) = n + 1 /\ r[n + 1] = e
      /\ \A i \in 1..n : r[i] = s[i]
  BY <1>1, AppendIs
<1>3. PICK S, R : S = Proposals(s) /\ R = Proposals(r)
  OBVIOUS
<1>4. S \subseteq 1..n /\ R \subseteq 1..(n + 1)
  BY <1>1, <1>2, <1>3 DEF Proposals
<1>5. \A i \in 1..n : i \in R <=> i \in S
  <2>1. \A i \in 1..n : i \in 1..(n + 1)
    BY <1>1
  <2>2. QED
    BY <1>1, <1>2, <1>3, <2>1 DEF Proposals
<1>6. n + 1 \in R <=> e.typ = "proposed"
  <2>1. n + 1 \in 1..(n + 1)
    BY <1>1
  <2>2. QED
    BY <1>2, <1>3, <2>1 DEF Proposals
<1>7. Last(r) = e
  BY <1>1, <1>2 DEF Last
<1>8. CASE e.typ = "proposed"
  <2>1. PICK m \in R : m = Max(R) /\ \A y \in R : m >= y
    <3>1. R # {} /\ n + 1 \in Nat
      BY <1>1, <1>6, <1>8
    <3>2. QED
      BY <1>4, <3>1, MaxIs
  <2>2. m = n + 1
    BY <1>4, <1>6, <1>8, <2>1
  <2>3. LastOffer(r) = e.offer
    BY <1>2, <1>3, <2>1, <2>2 DEF LastOffer
  <2>4. QED
    BY <1>2, <1>3, <1>7, <1>8, <2>1, <2>3
<1>9. CASE e.typ # "proposed"
  <2>1. R = S
    <3>1. \A i \in R : i \in 1..n
      BY <1>4, <1>6, <1>9
    <3>2. QED
      BY <1>4, <1>5, <3>1
  <2>2. CASE S # {}
    <3>1. PICK m \in S : m = Max(S)
      BY <1>1, <1>4, <2>2, MaxIs
    <3>2. r[m] = s[m]
      BY <1>2, <1>4
    <3>3. LastOffer(r) = LastOffer(s)
      BY <1>3, <2>1, <3>1, <3>2 DEF LastOffer
    <3>4. QED
      BY <1>2, <1>3, <1>7, <1>9, <2>1, <2>2, <3>3
  <2>3. CASE S = {}
    BY <1>2, <1>3, <1>7, <1>9, <2>3
  <2>4. QED
    BY <2>2, <2>3
<1>10. QED
  BY <1>8, <1>9

-----------------------------------------------------------------------------
(* A trade that is left in peace happens completely or not at all. *)

\* What p gives and gets by the offer o (one who trades with himself: the same).
Lot(o, p) == IF p = o.proposer THEN o.give ELSE o.want
Gain(o, p) == IF p = o.counterparty THEN o.give ELSE o.want

\* What the move typ of trade t, of this item, is worth: nothing if p has not made it.
Part(p, t, typ, item, k) == IF hasMove(p, t, typ) THEN Worth(item, k) ELSE 0

\* The effect of trade t on p is that of the moves in his stream.
EffectIs(o, p, t) ==
  /\ Effect(p, t) \in Balance
  /\ \A k \in Kind :
       /\ Effect(p, t).available[k] =
            Part(p, t, "released", Lot(o, p), k) + Part(p, t, "received", Gain(o, p), k)
            - Part(p, t, "reserved", Lot(o, p), k)
       /\ Effect(p, t).reserved[k] =
            Part(p, t, "reserved", Lot(o, p), k) - Part(p, t, "released", Lot(o, p), k)
            - Part(p, t, "committed", Lot(o, p), k)

\* Who has reserved, committed and received when a call is at pc.
Reservers(o, pc) ==
  IF pc \in {"phaseP", "decide", "readC", "appendC", "undoP"} THEN {o.proposer}
  ELSE IF pc \in {"phaseC", "settle1", "settle2", "settle3", "settle4", "phaseS", "settled"}
       THEN {o.proposer, o.counterparty} ELSE {}
Committers(o, pc) ==
  IF pc \in {"settle2", "settle3"} THEN {o.proposer}
  ELSE IF pc \in {"settle4", "phaseS", "settled"} THEN {o.proposer, o.counterparty} ELSE {}
Receivers(o, pc) ==
  IF pc \in {"settle3", "settle4"} THEN {o.counterparty}
  ELSE IF pc \in {"phaseS", "settled"} THEN {o.proposer, o.counterparty} ELSE {}

\* One call, as long as nothing has failed: what it has done is what its place says, and
\* what it takes back is what it has reserved.
Placed(o, pc, q, t) ==
  /\ hasMove(q, t, "committed") <=> q \in Committers(o, pc)
  /\ hasMove(q, t, "received") <=> q \in Receivers(o, pc)
  /\ pc \notin {"cancel", "cancelled"} => ~hasMove(q, t, "released")
  /\ pc \notin {"cancel", "cancelled"} => (hasMove(q, t, "reserved") <=> q \in Reservers(o, pc))
  /\ pc \in {"cancel", "cancelled"} => (hasMove(q, t, "reserved") <=> hasMove(q, t, "released"))

Table(o, pc, t) ==
  /\ pc \notin {"undoBothP", "undoC", "error"}
  /\ pc = "appendC" => o.proposer # o.counterparty
  /\ \A q \in Player : Placed(o, pc, q, t)

Booked(t) ==
  call[t] # Idle => /\ Table(call[t].offer, call[t].pc, t)
                    /\ \A p \in Player : EffectIs(call[t].offer, p, t)

\* An id that has not been given out.
Fresh(t) ==
  /\ call[t] = Idle
  /\ \A p \in Player : /\ Effect(p, t) = ZeroBalance
                       /\ \A typ \in MoveType : ~hasMove(p, t, typ)

Books == \A t \in TradeID : (t > tradeSeq => Fresh(t)) /\ Booked(t)

BookInv == TypeOK /\ (Undisturbed => Books)

\* A step that makes no move of trade u.
Kept(u) ==
  \A p \in Player : /\ Effect(p, u)' = Effect(p, u)
                    /\ \A typ \in MoveType : hasMove(p, u, typ)' <=> hasMove(p, u, typ)

LEMMA KeptSame ==
  ASSUME UNCHANGED inv, NEW u
  PROVE  Kept(u)
  BY DEF Kept, Effect, hasMove

LEMMA KeptAside ==
  ASSUME Streams, NEW p, NEW e, Adds(p, e), NEW u, ~Concerns(e, u),
         e.typ \in MoveType => e.trade # u
  PROVE  Kept(u)
<1>1. \A q \in Player : Effect(q, u)' = Effect(q, u)
  BY AddsEffect
<1>2. \A q \in Player, typ \in MoveType : hasMove(q, u, typ)' <=> hasMove(q, u, typ)
  BY AddsMove
<1>3. QED
  BY <1>1, <1>2 DEF Kept

LEMMA MoveTypes ==
  /\ "reserved" \in MoveType /\ "released" \in MoveType
  /\ "committed" \in MoveType /\ "received" \in MoveType
  BY DEF MoveType

LEMMA EffectStays ==
  ASSUME NEW o, NEW p \in Player, NEW t, Kept(t), EffectIs(o, p, t)
  PROVE  EffectIs(o, p, t)'
<1>1. PICK b, c : b = Effect(p, t) /\ c = Effect(p, t)'
  OBVIOUS
<1>2. b = c
  BY <1>1 DEF Kept
<1>3. \A typ \in MoveType : \A item, k : Part(p, t, typ, item, k)' = Part(p, t, typ, item, k)
  BY DEF Kept, Part
<1>4. QED
  BY <1>1, <1>2, <1>3, MoveTypes DEF EffectIs

LEMMA PlacedStays ==
  ASSUME NEW o, NEW pc, NEW t, Kept(t), Table(o, pc, t)
  PROVE  Table(o, pc, t)'
  BY MoveTypes DEF Kept, Table, Placed

LEMMA BookedStays ==
  ASSUME NEW u, Kept(u), call'[u] = call[u], Booked(u)
  PROVE  Booked(u)'
<1>1. PICK c : c = call[u] /\ c = call'[u]
  OBVIOUS
<1>2. CASE c = Idle
  BY <1>1, <1>2 DEF Booked
<1>3. CASE c # Idle
  <2>1. PICK o, pc : o = c.offer /\ pc = c.pc
    OBVIOUS
  <2>2. Table(o, pc, u) /\ \A p \in Player : EffectIs(o, p, u)
    BY <1>1, <1>3, <2>1 DEF Booked
  <2>3. Table(o, pc, u)' /\ \A p \in Player : EffectIs(o, p, u)'
    BY <2>2, PlacedStays, EffectStays
  <2>4. QED
    BY <1>1, <2>1, <2>3 DEF Booked
<1>4. QED
  BY <1>2, <1>3

LEMMA FreshStays ==
  ASSUME NEW u, Kept(u), call'[u] = call[u], Fresh(u)
  PROVE  Fresh(u)'
<1>1. ASSUME NEW p \in Player
      PROVE  Effect(p, u)' = ZeroBalance /\ \A typ \in MoveType : ~hasMove(p, u, typ)'
  BY <1>1 DEF Kept, Fresh
<1>2. QED
  BY <1>1 DEF Fresh, ZeroBalance

\* A turn of trade t that ends with its moves as its new place says.
LEMMA TurnBooks ==
  ASSUME TypeOK, Books, NEW t \in TradeID, call[t] # Idle, NEW next, Turn(t, next),
         NEW o, o = call[t].offer, UNCHANGED tradeSeq, \A u \in TradeID : u # t => Kept(u),
         Table(o, next, t)', \A p \in Player : EffectIs(o, p, t)'
  PROVE  Books'
<1>1. Called
  BY TypeParts
<1>2. call'[t].pc = next /\ call'[t].offer = o /\ \A u \in TradeID : u # t => call'[u] = call[u]
  BY <1>1, TurnIs
<1>3. Booked(t)' /\ ~(t > tradeSeq)
  BY <1>2 DEF Booked, Books, Fresh
<1>4. ASSUME NEW u \in TradeID, u # t PROVE (u > tradeSeq => Fresh(u)') /\ Booked(u)'
  BY <1>2, <1>4, FreshStays, BookedStays DEF Books
<1>5. QED
  BY <1>3, <1>4 DEF Books

\* Steps of a call that make no move.
Onward(o, pc, next, t) ==
  \/ pc = "propose" /\ next = "readP"
  \/ pc = "phaseP" /\ next = "decide"
  \/ pc = "phaseC" /\ next = "settle1"
  \/ pc = "phaseS" /\ next = "settled"
  \/ pc = "cancel" /\ next = "cancelled"
  \/ pc = "decide" /\ next \in {"readC", "undoP"}
  \/ pc = "readP" /\ next = "phaseP" /\ hasMove(o.proposer, t, "reserved")
  \/ pc = "readC" /\ next = "phaseC" /\ hasMove(o.counterparty, t, "reserved")
  \/ pc = "readP" /\ next \in {"cancel", "appendP"}
  \/ pc = "readC" /\ next = "undoP"
  \/ pc = "readC" /\ next = "appendC" /\ ~hasMove(o.counterparty, t, "reserved")
  \/ pc = "appendP" /\ next \in {"readP", "cancel"}
  \/ pc = "appendC" /\ next \in {"readC", "undoP"}

LEMMA OnwardPlaced ==
  ASSUME NEW o \in Offers, NEW pc, NEW next, NEW t, Table(o, pc, t), Onward(o, pc, next, t)
  PROVE  Table(o, next, t)
<1>1. o.proposer \in Player /\ o.counterparty \in Player
  BY OfferIs
<1>2. \A q \in Player : Placed(o, pc, q, t)
  BY DEF Table
<1>3. pc = "readC" /\ next = "phaseC" => o.counterparty = o.proposer
  BY <1>1, <1>2 DEF Placed, Onward, Reservers
<1>4. ~(pc = "readP" /\ next = "phaseP")
  BY <1>1, <1>2 DEF Placed, Onward, Reservers
<1>5. next = "appendC" => o.proposer # o.counterparty
  BY <1>1, <1>2 DEF Placed, Onward, Reservers
<1>6. next \notin {"undoBothP", "undoC", "error"}
  BY DEF Onward
<1>7. ASSUME NEW q \in Player PROVE Placed(o, next, q, t)
  <2>1. Placed(o, pc, q, t)
    BY <1>2
  <2>2. Committers(o, next) = Committers(o, pc) /\ Receivers(o, next) = Receivers(o, pc)
    BY <1>4 DEF Onward, Committers, Receivers
  <2>3. next \notin {"cancel", "cancelled"} =>
          pc \notin {"cancel", "cancelled"} /\ Reservers(o, next) = Reservers(o, pc)
    BY <1>3, <1>4 DEF Onward, Reservers
  <2>4. next \in {"cancel", "cancelled"} =>
          pc \in {"cancel", "cancelled"} \/ Reservers(o, pc) = {}
    BY DEF Onward, Reservers
  <2>5. QED
    BY <2>1, <2>2, <2>3, <2>4 DEF Placed
<1>8. QED
  BY <1>5, <1>6, <1>7 DEF Table

\* The steps of a call that make a move.
Moving(o, pc, who, item, typ, next) ==
  \/ Transfer(o, pc, who, item, typ, next)
  \/ pc = "appendP" /\ who = o.proposer /\ item = o.give /\ typ = "reserved" /\ next = "phaseP"
  \/ pc = "appendC" /\ who = o.counterparty /\ item = o.want /\ typ = "reserved" /\ next = "phaseC"

\* The move is in the stream after the step, whether it was there before or not.
Moved(who, typ, t) ==
  \A q \in Player, ty \in MoveType :
    hasMove(q, t, ty)' <=> hasMove(q, t, ty) \/ (q = who /\ ty = typ)

\* A move that is made is for what its maker gives or gets by the offer.
LEMMA MoveForOffer ==
  ASSUME NEW o \in Offers, NEW pc, NEW t, Table(o, pc, t), NEW who \in Player, NEW item, NEW typ,
         NEW next, Moving(o, pc, who, item, typ, next), ~hasMove(who, t, typ)
  PROVE  item = IF typ = "received" THEN Gain(o, who) ELSE Lot(o, who)
<1>1. Placed(o, pc, who, t) /\ pc \notin {"undoBothP", "undoC"}
  BY DEF Table
<1>2. pc = "appendC" => o.proposer # o.counterparty
  BY DEF Table
<1>3. CASE pc = "settle3"
  <2>1. who = o.counterparty /\ item = o.want /\ typ = "committed"
    BY <1>3 DEF Moving, Transfer
  <2>2. who # o.proposer
    BY <1>1, <1>3, <2>1 DEF Placed, Committers
  <2>3. QED
    BY <2>1, <2>2 DEF Lot
<1>4. CASE pc = "settle4"
  <2>1. who = o.proposer /\ item = o.want /\ typ = "received"
    BY <1>4 DEF Moving, Transfer
  <2>2. who # o.counterparty
    BY <1>1, <1>4, <2>1 DEF Placed, Receivers
  <2>3. QED
    BY <2>1, <2>2 DEF Gain
<1>5. CASE pc \notin {"settle3", "settle4"}
  BY <1>1, <1>2, <1>5 DEF Moving, Transfer, Lot, Gain
<1>6. QED
  BY <1>3, <1>4, <1>5

LEMMA MovePlaced ==
  ASSUME NEW o \in Offers, NEW pc, NEW t, Table(o, pc, t), NEW who \in Player, NEW item,
         NEW typ \in MoveType, NEW next, Moving(o, pc, who, item, typ, next), Moved(who, typ, t)
  PROVE  Table(o, next, t)'
<1>1. \A q \in Player : Placed(o, pc, q, t)
  BY DEF Table
<1>2. pc \notin {"undoBothP", "undoC"} /\ (pc = "appendC" => o.proposer # o.counterparty)
  BY DEF Table
<1>3. next \notin {"undoBothP", "undoC", "error", "appendC"}
  BY <1>2 DEF Moving, Transfer
<1>4. ASSUME NEW q \in Player PROVE Placed(o, next, q, t)'
  <2>1. PICK P, Q : P = o.proposer /\ Q = o.counterparty
    OBVIOUS
  <2>2. Placed(o, pc, q, t)
    BY <1>1
  <2>3. /\ hasMove(q, t, "reserved")' <=> hasMove(q, t, "reserved") \/ (q = who /\ typ = "reserved")
        /\ hasMove(q, t, "released")' <=> hasMove(q, t, "released") \/ (q = who /\ typ = "released")
        /\ hasMove(q, t, "committed")' <=> hasMove(q, t, "committed") \/ (q = who /\ typ = "committed")
        /\ hasMove(q, t, "received")' <=> hasMove(q, t, "received") \/ (q = who /\ typ = "received")
    BY MoveTypes DEF Moved
  <2>4. CASE pc = "appendP"
    <3>1. who = P /\ typ = "reserved" /\ next = "phaseP"
      BY <2>1, <2>4 DEF Moving, Transfer
    <3>2. QED
      BY <2>1, <2>2, <2>3, <2>4, <3>1 DEF Placed, Reservers, Committers, Receivers
  <2>5. CASE pc = "appendC"
    <3>1. who = Q /\ typ = "reserved" /\ next = "phaseC"
      BY <2>1, <2>5 DEF Moving, Transfer
    <3>2. QED
      BY <2>1, <2>2, <2>3, <2>5, <3>1 DEF Placed, Reservers, Committers, Receivers
  <2>6. CASE pc = "settle1"
    <3>1. who = P /\ typ = "committed" /\ next = "settle2"
      BY <2>1, <2>6 DEF Moving, Transfer
    <3>2. QED
      BY <2>1, <2>2, <2>3, <2>6, <3>1 DEF Placed, Reservers, Committers, Receivers
  <2>7. CASE pc = "settle2"
    <3>1. who = Q /\ typ = "received" /\ next = "settle3"
      BY <2>1, <2>7 DEF Moving, Transfer
    <3>2. QED
      BY <2>1, <2>2, <2>3, <2>7, <3>1 DEF Placed, Reservers, Committers, Receivers
  <2>8. CASE pc = "settle3"
    <3>1. who = Q /\ typ = "committed" /\ next = "settle4"
      BY <2>1, <2>8 DEF Moving, Transfer
    <3>2. QED
      BY <2>1, <2>2, <2>3, <2>8, <3>1 DEF Placed, Reservers, Committers, Receivers
  <2>9. CASE pc = "settle4"
    <3>1. who = P /\ typ = "received" /\ next = "phaseS"
      BY <2>1, <2>9 DEF Moving, Transfer
    <3>2. QED
      BY <2>1, <2>2, <2>3, <2>9, <3>1 DEF Placed, Reservers, Committers, Receivers
  <2>10. CASE pc = "undoP"
    <3>1. who = P /\ typ = "released" /\ next = "cancel"
      BY <2>1, <2>10 DEF Moving, Transfer
    <3>2. QED
      BY <2>1, <2>2, <2>3, <2>10, <3>1 DEF Placed, Reservers, Committers, Receivers
  <2>11. QED
    BY <1>2, <2>4, <2>5, <2>6, <2>7, <2>8, <2>9, <2>10 DEF Moving, Transfer
<1>5. QED
  BY <1>3, <1>4 DEF Table

LEMMA WorthIs ==
  ASSUME NEW item \in Item, NEW k
  PROVE  Worth(item, k) \in Nat
  BY ItemIs DEF Worth

\* A move that is made counts for what it is worth.
LEMMA EffectAdds ==
  ASSUME Streams, NEW t \in TradeID, NEW o \in Offers, NEW who \in Player, NEW typ \in MoveType,
         NEW item \in Item, item = (IF typ = "received" THEN Gain(o, who) ELSE Lot(o, who)),
         ~hasMove(who, t, typ), Adds(who, MoveOf(t, typ, item)),
         NEW p \in Player, EffectIs(o, p, t)
  PROVE  EffectIs(o, p, t)'
<1>1. PICK e : e = MoveOf(t, typ, item)
  OBVIOUS
<1>2. Adds(who, e) /\ e \in InvEvent /\ e.typ = typ /\ e.trade = t /\ e.item = item /\ Concerns(e, t)
  BY <1>1, MoveIs
<1>3. \A ty \in MoveType : hasMove(p, t, ty)' <=> hasMove(p, t, ty) \/ (p = who /\ typ = ty)
  BY <1>2, AddsMove
<1>4. CASE p # who
  <2>1. Effect(p, t)' = Effect(p, t)
    BY <1>2, <1>4, AddsEffect
  <2>2. \A ty \in MoveType : \A i, k : Part(p, t, ty, i, k)' = Part(p, t, ty, i, k)
    BY <1>3, <1>4 DEF Part
  <2>3. PICK b, c : b = Effect(p, t) /\ c = Effect(p, t)'
    OBVIOUS
  <2>4. QED
    BY <2>1, <2>2, <2>3, MoveTypes DEF EffectIs
<1>5. CASE p = who
  <2>1. PICK b \in Balance : b = Effect(p, t)
    BY DEF EffectIs
  <2>2. PICK c : c = Effect(p, t)'
    OBVIOUS
  <2>3. c = applyTo(b, e)
    BY <1>2, <1>5, <2>1, <2>2, AddsEffect
  <2>4. /\ c \in Balance
        /\ \A k \in Kind : /\ c.available[k] = b.available[k] + Frees(e, k)
                           /\ c.reserved[k] = b.reserved[k] + Holds(e, k)
    BY <1>2, <2>3, ApplyIs
  <2>5. PICK L, G \in Item : L = Lot(o, p) /\ G = Gain(o, p)
    BY OfferIs DEF Lot, Gain
  <2>6. item = IF typ = "received" THEN G ELSE L
    BY <1>5, <2>5
  <2>7. ASSUME NEW k \in Kind
        PROVE  /\ c.available[k] = Part(p, t, "released", L, k)' + Part(p, t, "received", G, k)'
                                   - Part(p, t, "reserved", L, k)'
               /\ c.reserved[k] = Part(p, t, "reserved", L, k)' - Part(p, t, "released", L, k)'
                                  - Part(p, t, "committed", L, k)'
    <3>1. PICK l, g \in Nat : l = Worth(L, k) /\ g = Worth(G, k)
      BY WorthIs
    <3>2. PICK re, rl, co, rc \in Nat : /\ re = Part(p, t, "reserved", L, k)
                                        /\ rl = Part(p, t, "released", L, k)
                                        /\ co = Part(p, t, "committed", L, k)
                                        /\ rc = Part(p, t, "received", G, k)
      BY <3>1 DEF Part
    <3>3. PICK re2, rl2, co2, rc2 : /\ re2 = Part(p, t, "reserved", L, k)'
                                    /\ rl2 = Part(p, t, "released", L, k)'
                                    /\ co2 = Part(p, t, "committed", L, k)'
                                    /\ rc2 = Part(p, t, "received", G, k)'
      OBVIOUS
    <3>4. /\ re2 = IF typ = "reserved" THEN l ELSE re
          /\ rl2 = IF typ = "released" THEN l ELSE rl
          /\ co2 = IF typ = "committed" THEN l ELSE co
          /\ rc2 = IF typ = "received" THEN g ELSE rc
      BY <1>3, <1>5, <3>1, <3>2, <3>3, MoveTypes DEF Part
    <3>5. /\ typ = "reserved" => re = 0
          /\ typ = "released" => rl = 0
          /\ typ = "committed" => co = 0
          /\ typ = "received" => rc = 0
      BY <1>5, <3>2 DEF Part
    <3>6. PICK x, y, x2, y2 : /\ x = b.available[k] /\ y = b.reserved[k]
                              /\ x2 = c.available[k] /\ y2 = c.reserved[k]
      OBVIOUS
    <3>7. x = rl + rc - re /\ y = re - rl - co
      BY <2>1, <2>5, <3>2, <3>6 DEF EffectIs
    <3>8. x2 = x + Frees(e, k) /\ y2 = y + Holds(e, k)
      BY <2>4, <3>6
    <3>9. /\ Frees(e, k) = IF typ = "reserved" THEN -l ELSE IF typ = "released" THEN l
                           ELSE IF typ = "received" THEN g ELSE 0
          /\ Holds(e, k) = IF typ = "reserved" THEN l
                           ELSE IF typ \in {"released", "committed"} THEN -l ELSE 0
      <4>1. Worth(e.item, k) = IF typ = "received" THEN g ELSE l
        BY <1>2, <2>6, <3>1
      <4>2. e.typ # "gathered"
        BY <1>2 DEF MoveType
      <4>3. QED
        BY <1>2, <4>1, <4>2 DEF Frees, Holds
    <3>10. typ \in {"reserved", "released", "committed", "received"}
      BY DEF MoveType
    <3>11. x2 = rl2 + rc2 - re2 /\ y2 = re2 - rl2 - co2
      <4>1. CASE typ = "reserved"
        BY <3>4, <3>5, <3>7, <3>8, <3>9, <4>1
      <4>2. CASE typ = "released"
        BY <3>4, <3>5, <3>7, <3>8, <3>9, <4>2
      <4>3. CASE typ = "committed"
        BY <3>4, <3>5, <3>7, <3>8, <3>9, <4>3
      <4>4. CASE typ = "received"
        BY <3>4, <3>5, <3>7, <3>8, <3>9, <4>4
      <4>5. QED
        BY <3>10, <4>1, <4>2, <4>3, <4>4
    <3>12. QED
      BY <3>3, <3>6, <3>11
  <2>8. QED
    BY <2>2, <2>4, <2>5, <2>7 DEF EffectIs
<1>6. QED
  BY <1>4, <1>5

LEMMA OnwardBooks ==
  ASSUME TypeOK, Books, NEW t \in TradeID, call[t] # Idle, NEW next, Turn(t, next),
         UNCHANGED <<inv, tradeSeq>>, Onward(call[t].offer, call[t].pc, next, t)
  PROVE  Books'
<1>1. PICK o \in Offers, pc \in Step : o = call[t].offer /\ pc = call[t].pc
  BY TypeParts, CallIs
<1>2. Table(o, pc, t) /\ \A p \in Player : EffectIs(o, p, t)
  BY <1>1 DEF Books, Booked
<1>3. Table(o, next, t)
  BY <1>1, <1>2, OnwardPlaced
<1>4. \A u : Kept(u)
  BY KeptSame
<1>5. Table(o, next, t)' /\ \A p \in Player : EffectIs(o, p, t)'
  BY <1>2, <1>3, <1>4, PlacedStays, EffectStays
<1>6. QED
  BY <1>1, <1>4, <1>5, TurnBooks

\* What a move does to the books of its trade, and to those of the others.
LEMMA MoveMade ==
  ASSUME Streams, NEW t \in TradeID, NEW o \in Offers, NEW pc, Table(o, pc, t),
         \A p \in Player : EffectIs(o, p, t),
         NEW who \in Player, NEW item \in Item, NEW typ \in MoveType, NEW next,
         Moving(o, pc, who, item, typ, next),
         \/ hasMove(who, t, typ) /\ UNCHANGED inv
         \/ ~hasMove(who, t, typ) /\ Adds(who, MoveOf(t, typ, item))
  PROVE  /\ Table(o, next, t)' /\ \A p \in Player : EffectIs(o, p, t)'
         /\ \A u \in TradeID : u # t => Kept(u)
<1>1. CASE hasMove(who, t, typ) /\ UNCHANGED inv
  <2>1. \A u : Kept(u)
    BY <1>1, KeptSame
  <2>2. Moved(who, typ, t)
    BY <1>1, <2>1 DEF Moved, Kept
  <2>3. Table(o, next, t)'
    BY <2>2, MovePlaced
  <2>4. \A p \in Player : EffectIs(o, p, t)'
    BY <2>1, EffectStays
  <2>5. QED
    BY <2>1, <2>3, <2>4
<1>2. CASE ~hasMove(who, t, typ) /\ Adds(who, MoveOf(t, typ, item))
  <2>1. PICK e : e = MoveOf(t, typ, item)
    OBVIOUS
  <2>2. Adds(who, e) /\ e.typ = typ /\ e.trade = t /\ \A u : Concerns(e, u) <=> u = t
    BY <1>2, <2>1, MoveIs
  <2>3. \A u \in TradeID : u # t => Kept(u)
    BY <2>2, KeptAside
  <2>4. Moved(who, typ, t)
    BY <2>2, AddsMove DEF Moved
  <2>5. Table(o, next, t)'
    BY <2>4, MovePlaced
  <2>6. item = IF typ = "received" THEN Gain(o, who) ELSE Lot(o, who)
    BY <1>2, MoveForOffer
  <2>7. \A p \in Player : EffectIs(o, p, t)'
    BY <1>2, <2>6, EffectAdds
  <2>8. QED
    BY <2>3, <2>5, <2>7
<1>3. QED
  BY <1>1, <1>2

LEMMA MovingBooks ==
  ASSUME TypeOK, Books, NEW t \in TradeID, call[t] # Idle, NEW next, Turn(t, next),
         UNCHANGED tradeSeq, NEW who \in Player, NEW item \in Item, NEW typ \in MoveType,
         Moving(call[t].offer, call[t].pc, who, item, typ, next),
         \/ hasMove(who, t, typ) /\ UNCHANGED inv
         \/ ~hasMove(who, t, typ) /\ Adds(who, MoveOf(t, typ, item))
  PROVE  Books'
<1>1. PICK o \in Offers, pc \in Step : o = call[t].offer /\ pc = call[t].pc
  BY TypeParts, CallIs
<1>2. Table(o, pc, t) /\ \A p \in Player : EffectIs(o, p, t)
  BY <1>1 DEF Books, Booked
<1>3. /\ Table(o, next, t)' /\ \A p \in Player : EffectIs(o, p, t)'
      /\ \A u \in TradeID : u # t => Kept(u)
  BY <1>1, <1>2, TypeParts, MoveMade
<1>4. QED
  BY <1>1, <1>3, TurnBooks

LEMMA ReadBooks ==
  ASSUME TypeOK, Books, NEW t \in TradeID, ReserveRead(t)
  PROVE  Books'
<1>1. Called /\ Streams
  BY TypeParts
<1>2. PICK o, pc : o = call[t].offer /\ pc = call[t].pc
  OBVIOUS
<1>3. PICK who, item : who = Payer(o, pc) /\ item = Price(o, pc)
  OBVIOUS
<1>4. /\ UNCHANGED <<inv, gathers, stream, tradeSeq, faults, crashes>>
      /\ call[t] # Idle /\ pc \in {"readP", "readC"}
  BY <1>1, <1>2, <1>3, ReserveReadDoes
<1>5. PICK c \in Calls :
        /\ call' = [call EXCEPT ![t] = c] /\ c.offer = o
        /\ \/ /\ c.pc = IF pc = "readP" THEN "phaseP" ELSE "phaseC"
              /\ hasMove(who, t, "reserved")
           \/ c.pc = IF pc = "readP" THEN "cancel" ELSE "undoP"
           \/ /\ c.pc = IF pc = "readP" THEN "appendP" ELSE "appendC"
              /\ ~hasMove(who, t, "reserved")
  BY <1>1, <1>2, <1>3, ReserveReadDoes
<1>6. PICK next : next = c.pc
  OBVIOUS
<1>7. Turn(t, next)
  BY <1>2, <1>5, <1>6 DEF Turn
<1>8. Onward(o, pc, next, t)
  BY <1>3, <1>4, <1>5, <1>6 DEF Onward, Payer
<1>9. QED
  BY <1>2, <1>4, <1>7, <1>8, OnwardBooks

LEMMA AppendBooks ==
  ASSUME TypeOK, Books, NEW t \in TradeID, ReserveAppend(t)
  PROVE  Books'
<1>1. Called /\ Streams
  BY TypeParts
<1>2. PICK pc : pc = call[t].pc
  OBVIOUS
<1>3. PICK who, item : who = Payer(call[t].offer, pc) /\ item = Price(call[t].offer, pc)
  OBVIOUS
<1>4. /\ UNCHANGED <<gathers, stream, tradeSeq, faults, crashes>>
      /\ call[t] # Idle /\ pc \in {"appendP", "appendC"}
  BY <1>1, <1>2, <1>3, ReserveAppendDoes
<1>5. PICK o \in Offers : o = call[t].offer
  BY <1>1, <1>4, CallIs
<1>6. PICK x, y, z : /\ x = (IF pc = "appendP" THEN "readP" ELSE "readC")
                     /\ y = (IF pc = "appendP" THEN "cancel" ELSE "undoP")
                     /\ z = (IF pc = "appendP" THEN "phaseP" ELSE "phaseC")
  OBVIOUS
<1>7. \/ Adds(who, MoveOf(t, "reserved", item)) /\ Turn(t, z)
      \/ UNCHANGED inv /\ (Turn(t, x) \/ Turn(t, y))
  BY <1>1, <1>2, <1>3, <1>6, ReserveAppendDoes
<1>8. CASE UNCHANGED inv /\ (Turn(t, x) \/ Turn(t, y))
  <2>1. PICK next \in {x, y} : Turn(t, next)
    BY <1>8
  <2>2. Onward(o, pc, next, t)
    BY <1>4, <1>6, <2>1 DEF Onward
  <2>3. QED
    BY <1>2, <1>4, <1>5, <1>8, <2>1, <2>2, OnwardBooks
<1>9. CASE Adds(who, MoveOf(t, "reserved", item)) /\ Turn(t, z)
  <2>1. who \in Player /\ item \in Item
    BY <1>3, <1>5, PayerIs
  <2>2. Moving(o, pc, who, item, "reserved", z)
    BY <1>3, <1>4, <1>5, <1>6 DEF Moving, Payer, Price
  <2>3. Table(o, pc, t)
    BY <1>2, <1>4, <1>5 DEF Books, Booked
  <2>4. ~hasMove(who, t, "reserved")
    <3>1. Placed(o, pc, who, t) /\ (pc = "appendC" => o.proposer # o.counterparty)
      BY <2>1, <2>3 DEF Table
    <3>2. QED
      BY <1>3, <1>4, <1>5, <3>1 DEF Placed, Reservers, Payer
  <2>5. QED
    BY <1>2, <1>4, <1>5, <1>9, <2>1, <2>2, <2>4, MoveTypes, MovingBooks
<1>10. QED
  BY <1>7, <1>8, <1>9

LEMMA MarkBooks ==
  ASSUME TypeOK, Books, NEW t \in TradeID, Mark(t)
  PROVE  Books'
<1>1. Called
  BY TypeParts
<1>2. UNCHANGED <<inv, gathers, tradeSeq, faults, crashes>>
  BY <1>1, MarkDoes
<1>3. PICK pc, typ, next :
        /\ call[t] # Idle /\ call[t].pc = pc /\ Turn(t, next) /\ Records(t, typ)
        /\ \/ pc = "propose" /\ typ = "proposed" /\ next = "readP"
           \/ pc = "phaseP" /\ typ = "proposerReserved" /\ next = "decide"
           \/ pc = "phaseC" /\ typ = "counterpartyReserved" /\ next = "settle1"
           \/ pc = "phaseS" /\ typ = "settled" /\ next = "settled"
           \/ pc = "cancel" /\ typ = "cancelled" /\ next = "cancelled"
  BY <1>1, MarkDoes
<1>4. Onward(call[t].offer, call[t].pc, next, t)
  BY <1>3 DEF Onward
<1>5. QED
  BY <1>2, <1>3, <1>4, OnwardBooks

LEMMA MoveBooks ==
  ASSUME TypeOK, Books, NEW t \in TradeID, Move(t)
  PROVE  Books'
<1>1. Called /\ Streams
  BY TypeParts
<1>2. UNCHANGED <<gathers, stream, tradeSeq, faults, crashes>> /\ call[t] # Idle
  BY <1>1, MoveDoes
<1>3. PICK who \in Player, item \in Item, typ \in MoveType, next \in Step :
        /\ Transfer(call[t].offer, call[t].pc, who, item, typ, next) /\ Turn(t, next)
        /\ \/ hasMove(who, t, typ) /\ UNCHANGED inv
           \/ ~hasMove(who, t, typ) /\ Adds(who, MoveOf(t, typ, item))
  BY <1>1, MoveDoes
<1>4. Moving(call[t].offer, call[t].pc, who, item, typ, next)
  BY <1>3 DEF Moving
<1>5. QED
  BY <1>2, <1>3, <1>4, MovingBooks

LEMMA DecideBooks ==
  ASSUME TypeOK, Books, NEW t \in TradeID, Decide(t)
  PROVE  Books'
<1>1. UNCHANGED <<inv, tradeSeq>> /\ call[t] # Idle /\ call[t].pc = "decide"
  BY TypeParts, DecideDoes
<1>2. PICK next \in {"readC", "undoP"} : Turn(t, next)
  BY TypeParts, DecideDoes
<1>3. Onward(call[t].offer, call[t].pc, next, t)
  BY <1>1, <1>2 DEF Onward
<1>4. QED
  BY <1>1, <1>2, <1>3, OnwardBooks

\* A trade that has made no move: where its call begins, and worth nothing.
LEMMA NothingDone ==
  ASSUME NEW o \in Offers, NEW q \in Player, NEW t, Effect(q, t) = ZeroBalance,
         \A typ \in MoveType : ~hasMove(q, t, typ)
  PROVE  Placed(o, "propose", q, t) /\ EffectIs(o, q, t)
<1>1. Placed(o, "propose", q, t)
  BY MoveTypes DEF Placed, Reservers, Committers, Receivers
<1>2. PICK b \in Balance : b = Effect(q, t) /\ b = ZeroBalance
  BY ZeroIs
<1>3. \A k \in Kind : b.available[k] = 0 /\ b.reserved[k] = 0
  BY <1>2, ZeroIs
<1>4. \A typ \in MoveType : \A item, k : Part(q, t, typ, item, k) = 0
  BY DEF Part
<1>5. EffectIs(o, q, t)
  BY <1>2, <1>3, <1>4, MoveTypes DEF EffectIs
<1>6. QED
  BY <1>1, <1>5

\* The parts of the effect of an id that has not been given out are nothing.
LEMMA FreshBooks ==
  ASSUME NEW t, Fresh(t), NEW o \in Offers
  PROVE  /\ \A q \in Player : Placed(o, "propose", q, t)
         /\ \A p \in Player : EffectIs(o, p, t)
  BY NothingDone DEF Fresh

LEMMA ExecuteBooks ==
  ASSUME TypeOK, Books, NEW o \in Offers, Execute(o)
  PROVE  Books'
<1>1. Called
  BY TypeParts
<1>2. UNCHANGED <<inv, gathers, stream, faults, crashes>>
  BY <1>1, ExecuteDoes
<1>3. PICK t \in TradeID, c \in Calls :
        /\ t = tradeSeq + 1 /\ tradeSeq' = t
        /\ c.pc = "propose" /\ c.offer = o /\ call' = [call EXCEPT ![t] = c]
  BY <1>1, ExecuteDoes
<1>4. call'[t] = c /\ \A u \in TradeID : u # t => call'[u] = call[u]
  BY <1>1, <1>3 DEF Called
<1>5. \A u \in TradeID : u \in Int /\ tradeSeq \in Int
  BY TradeAssumption DEF TypeOK
<1>6. Fresh(t)
  BY <1>3, <1>5 DEF Books
<1>7. \A u : Kept(u)
  BY <1>2, KeptSame
<1>8. Table(o, "propose", t) /\ \A p \in Player : EffectIs(o, p, t)
  BY <1>6, FreshBooks DEF Table
<1>9. Table(o, "propose", t)' /\ \A p \in Player : EffectIs(o, p, t)'
  BY <1>7, <1>8, PlacedStays, EffectStays
<1>10. Booked(t)'
  BY <1>3, <1>4, <1>9 DEF Booked
<1>11. ASSUME NEW u \in TradeID PROVE (u > tradeSeq' => Fresh(u)') /\ Booked(u)'
  <2>1. CASE u = t
    BY <1>3, <1>5, <1>10, <2>1
  <2>2. CASE u # t
    <3>1. u > tradeSeq' => u > tradeSeq
      BY <1>3, <1>5
    <3>2. QED
      BY <1>4, <1>7, <2>2, <3>1, FreshStays, BookedStays DEF Books
  <2>3. QED
    BY <2>1, <2>2
<1>12. QED
  BY <1>11 DEF Books

\* What no call has done leaves the books as they are.
LEMMA IdleBooks ==
  ASSUME Books, UNCHANGED <<call, tradeSeq>>, \A u \in TradeID : Kept(u)
  PROVE  Books'
<1>1. ASSUME NEW u \in TradeID PROVE (u > tradeSeq' => Fresh(u)') /\ Booked(u)'
  BY <1>1, FreshStays, BookedStays DEF Books
<1>2. QED
  BY <1>1 DEF Books

LEMMA FreshInit == Init => \A t \in TradeID : Fresh(t) /\ Booked(t)
<1>1. SUFFICES ASSUME Init PROVE \A t \in TradeID : Fresh(t) /\ Booked(t)
  OBVIOUS
<1>2. ASSUME NEW t \in TradeID PROVE Fresh(t) /\ Booked(t)
  <2>1. call[t] = Idle
    BY <1>1 DEF Init
  <2>2. ASSUME NEW p \in Player
        PROVE  Effect(p, t) = ZeroBalance /\ \A typ \in MoveType : ~hasMove(p, t, typ)
    <3>1. PICK s : s = inv[p] /\ s = <<>>
      BY <1>1 DEF Init, InvInit
    <3>2. Len(s) = 0
      BY <3>1
    <3>3. \A typ \in MoveType : ~hasMove(p, t, typ)
      BY <3>1, <3>2 DEF hasMove
    <3>4. Effect(p, t) = ZeroBalance
      BY <3>1, FoldOfEmpty DEF Effect
    <3>5. QED
      BY <3>3, <3>4
  <2>3. QED
    BY <2>1, <2>2 DEF Fresh, Booked
<1>3. QED
  BY <1>2

LEMMA BookInvInit == Init => BookInv
BY FreshInit, PayInvInit DEF Books, PayInv, BookInv

LEMMA BookInvStep == BookInv /\ TypeOK' /\ [Next]_vars => BookInv'
<1>1. SUFFICES ASSUME BookInv, TypeOK', [Next]_vars, Undisturbed' PROVE Books'
  BY DEF BookInv
<1>2. /\ TypeOK /\ Called /\ Streams
      /\ faults \in Nat /\ crashes \in Nat /\ faults' \in Nat /\ crashes' \in Nat
  BY <1>1, TypeParts DEF BookInv, TypeOK
<1>3. faults' = 0 /\ crashes' = 0
  <2>1. faults' + crashes' = 0
    BY <1>1 DEF Undisturbed
  <2>2. PICK f, c \in Nat : f = faults' /\ c = crashes'
    BY <1>2
  <2>3. f + c = 0
    BY <2>1, <2>2
  <2>4. f = 0 /\ c = 0
    <3>1. f >= 0 /\ c >= 0
      OBVIOUS
    <3>2. QED
      BY <2>3, <3>1
  <2>5. QED
    BY <2>2, <2>4
<1>4. faults = 0 /\ crashes = 0 => Books
  BY <1>1 DEF BookInv, Undisturbed
<1>5. ASSUME NEW o \in Offers, Execute(o) PROVE Books'
  <2>1. UNCHANGED <<faults, crashes>>
    BY <1>5 DEF Execute
  <2>2. QED
    BY <1>2, <1>3, <1>4, <1>5, <2>1, ExecuteBooks
<1>6. ASSUME NEW t \in TradeID, Mark(t) PROVE Books'
  <2>1. UNCHANGED <<faults, crashes>>
    BY <1>6 DEF Mark
  <2>2. QED
    BY <1>2, <1>3, <1>4, <1>6, <2>1, MarkBooks
<1>7. ASSUME NEW t \in TradeID, ReserveRead(t) PROVE Books'
  <2>1. UNCHANGED <<faults, crashes>>
    BY <1>7 DEF ReserveRead
  <2>2. QED
    BY <1>2, <1>3, <1>4, <1>7, <2>1, ReadBooks
<1>8. ASSUME NEW t \in TradeID, ReserveAppend(t) PROVE Books'
  <2>1. UNCHANGED <<faults, crashes>>
    BY <1>8 DEF ReserveAppend
  <2>2. QED
    BY <1>2, <1>3, <1>4, <1>8, <2>1, AppendBooks
<1>9. ASSUME NEW t \in TradeID, Decide(t) PROVE Books'
  <2>1. UNCHANGED <<faults, crashes>>
    BY <1>9 DEF Decide
  <2>2. QED
    BY <1>2, <1>3, <1>4, <1>9, <2>1, DecideBooks
<1>10. ASSUME NEW t \in TradeID, Move(t) PROVE Books'
  <2>1. UNCHANGED <<faults, crashes>>
    BY <1>10 DEF Move
  <2>2. QED
    BY <1>2, <1>3, <1>4, <1>10, <2>1, MoveBooks
<1>11. ASSUME NEW t \in TradeID, MarkFails(t) \/ ReserveFails(t) \/ MoveFails(t) PROVE Books'
  <2>1. faults' = faults + 1
    BY <1>11 DEF MarkFails, ReserveFails, MoveFails
  <2>2. QED
    BY <1>2, <1>3, <2>1
<1>12. ASSUME NEW p \in Player, NEW k \in Kind, Gather(p, k),
              UNCHANGED <<call, stream, tradeSeq, faults, crashes>>
       PROVE  Books'
  <2>1. PICK e : Adds(p, e) /\ e.typ = "gathered" /\ \A u : ~Concerns(e, u)
    BY <1>12, GatherDoes
  <2>2. "gathered" \notin MoveType
    BY DEF MoveType
  <2>3. \A u : Kept(u)
    BY <1>2, <2>1, <2>2, KeptAside
  <2>4. QED
    BY <1>3, <1>4, <1>12, <2>3, IdleBooks
<1>13. ASSUME Crash PROVE Books'
  <2>1. crashes' = crashes + 1
    BY <1>13 DEF Crash
  <2>2. QED
    BY <1>2, <1>3, <2>1
<1>14. ASSUME UNCHANGED vars PROVE Books'
  <2>1. UNCHANGED <<inv, call, tradeSeq, faults, crashes>>
    BY <1>14 DEF vars, invVars
  <2>2. \A u : Kept(u)
    BY <2>1, KeptSame
  <2>3. QED
    BY <1>3, <1>4, <2>1, <2>2, IdleBooks
<1>15. QED
  BY <1>1, <1>5, <1>6, <1>7, <1>8, <1>9, <1>10, <1>11, <1>12, <1>13, <1>14 DEF Next, Advance

\* The effect of a swap.
LEMMA SwapIs ==
  ASSUME NEW o \in Offers, NEW p \in {o.proposer, o.counterparty}
  PROVE  /\ Swap(o, p) \in Balance
         /\ \A k \in Kind : /\ Swap(o, p).available[k] = Worth(Gain(o, p), k) - Worth(Lot(o, p), k)
                            /\ Swap(o, p).reserved[k] = 0
<1>1. PICK g, w : g = o.give /\ w = o.want
  OBVIOUS
<1>2. g \in Item /\ w \in Item
  BY <1>1, OfferIs
<1>3. PICK gk, wk \in Kind : gk = g.kind /\ wk = w.kind
  BY <1>2, ItemIs
<1>4. PICK ga, wa \in Nat : ga = g.amount /\ wa = w.amount
  BY <1>2, ItemIs
<1>5. PICK sign : sign = (IF p = o.proposer THEN 1 ELSE 0) - (IF p = o.counterparty THEN 1 ELSE 0)
  OBVIOUS
<1>6. PICK x, y : x = -sign * ga /\ y = sign * wa
  OBVIOUS
<1>7. PICK b, c : b = adj(ZeroBalance, gk, x, 0) /\ c = adj(b, wk, y, 0)
  OBVIOUS
<1>8. Swap(o, p) = c
  BY <1>1, <1>3, <1>4, <1>5, <1>6, <1>7 DEF Swap
<1>9. sign \in {-1, 0, 1}
  BY <1>5
<1>10. /\ x = IF sign = 1 THEN -ga ELSE IF sign = -1 THEN ga ELSE 0
       /\ y = IF sign = 1 THEN wa ELSE IF sign = -1 THEN -wa ELSE 0
  <2>1. CASE sign = 1
    BY <1>6, <2>1
  <2>2. CASE sign = -1
    BY <1>6, <2>2
  <2>3. CASE sign = 0
    BY <1>6, <2>3
  <2>4. QED
    BY <1>9, <2>1, <2>2, <2>3
<1>11. x \in Int /\ y \in Int /\ 0 \in Int
  BY <1>10
<1>12. b \in Balance /\ \A k \in Kind : /\ b.available[k] = IF k = gk THEN x ELSE 0
                                        /\ b.reserved[k] = 0
  <2>1. PICK z \in Balance : z = ZeroBalance /\ \A k \in Kind : z.available[k] = 0 /\ z.reserved[k] = 0
    BY ZeroIs
  <2>2. /\ b \in Balance
        /\ \A k \in Kind : /\ b.available[k] = z.available[k] + (IF k = gk THEN x ELSE 0)
                           /\ b.reserved[k] = z.reserved[k] + (IF k = gk THEN 0 ELSE 0)
    BY <1>7, <1>11, <2>1, AdjIs
  <2>3. QED
    BY <1>11, <2>1, <2>2
<1>13. c \in Balance /\ \A k \in Kind : /\ c.available[k] = b.available[k] + (IF k = wk THEN y ELSE 0)
                                        /\ c.reserved[k] = b.reserved[k] + (IF k = wk THEN 0 ELSE 0)
  BY <1>7, <1>11, <1>12, AdjIs
<1>14. \A k \in Kind : /\ c.available[k] = (IF k = gk THEN x ELSE 0) + (IF k = wk THEN y ELSE 0)
                       /\ c.reserved[k] = 0
  BY <1>11, <1>12, <1>13
<1>15. \A k : /\ Worth(g, k) = IF k = gk THEN ga ELSE 0
              /\ Worth(w, k) = IF k = wk THEN wa ELSE 0
  BY <1>3, <1>4 DEF Worth
<1>16. ASSUME NEW k \in Kind
       PROVE  (IF k = gk THEN x ELSE 0) + (IF k = wk THEN y ELSE 0)
                = Worth(Gain(o, p), k) - Worth(Lot(o, p), k)
  <2>1. CASE p = o.proposer /\ p # o.counterparty
    <3>1. Gain(o, p) = w /\ Lot(o, p) = g
      BY <1>1, <2>1 DEF Gain, Lot
    <3>2. x = -ga /\ y = wa
      BY <1>5, <1>10, <2>1
    <3>3. QED
      BY <1>15, <3>1, <3>2
  <2>2. CASE p # o.proposer /\ p = o.counterparty
    <3>1. Gain(o, p) = g /\ Lot(o, p) = w
      BY <1>1, <2>2 DEF Gain, Lot
    <3>2. x = ga /\ y = -wa
      BY <1>5, <1>10, <2>2
    <3>3. QED
      BY <1>15, <3>1, <3>2
  <2>3. CASE p = o.proposer /\ p = o.counterparty
    <3>1. Gain(o, p) = g /\ Lot(o, p) = g
      BY <1>1, <2>3 DEF Gain, Lot
    <3>2. x = 0 /\ y = 0
      BY <1>5, <1>10, <2>3
    <3>3. QED
      BY <1>15, <3>1, <3>2
  <2>4. QED
    BY <2>1, <2>2, <2>3
<1>17. QED
  BY <1>8, <1>13, <1>14, <1>16

\* A settled call of an undisturbed trade: the swap, and nothing put aside.
LEMMA SettledIs ==
  ASSUME NEW o \in Offers, NEW t, Table(o, "settled", t), NEW p \in Player, EffectIs(o, p, t)
  PROVE  /\ p \in {o.proposer, o.counterparty} => Effect(p, t) = Swap(o, p)
         /\ Effect(p, t).reserved = ZeroBalance.reserved
<1>1. PICK b \in Balance : b = Effect(p, t)
  BY DEF EffectIs
<1>2. /\ hasMove(p, t, "committed") <=> p \in {o.proposer, o.counterparty}
      /\ hasMove(p, t, "received") <=> p \in {o.proposer, o.counterparty}
      /\ hasMove(p, t, "reserved") <=> p \in {o.proposer, o.counterparty}
      /\ ~hasMove(p, t, "released")
  <2>1. Placed(o, "settled", p, t)
    BY DEF Table
  <2>2. QED
    BY <2>1 DEF Placed, Committers, Receivers, Reservers
<1>3. PICK L, G \in Item : L = Lot(o, p) /\ G = Gain(o, p)
  BY OfferIs DEF Lot, Gain
<1>4. ASSUME NEW k \in Kind
      PROVE  /\ p \in {o.proposer, o.counterparty} => b.available[k] = Worth(G, k) - Worth(L, k)
             /\ b.reserved[k] = 0
  <2>1. PICK l, g \in Nat : l = Worth(L, k) /\ g = Worth(G, k)
    BY <1>3, WorthIs
  <2>2. PICK re, rl, co, rc : /\ re = Part(p, t, "reserved", L, k)
                              /\ rl = Part(p, t, "released", L, k)
                              /\ co = Part(p, t, "committed", L, k)
                              /\ rc = Part(p, t, "received", G, k)
    OBVIOUS
  <2>3. IF p \in {o.proposer, o.counterparty} THEN re = l /\ rl = 0 /\ co = l /\ rc = g
        ELSE re = 0 /\ rl = 0 /\ co = 0 /\ rc = 0
    BY <1>2, <2>1, <2>2 DEF Part
  <2>4. b.available[k] = rl + rc - re /\ b.reserved[k] = re - rl - co
    BY <1>1, <1>3, <2>2 DEF EffectIs
  <2>5. QED
    BY <2>1, <2>3, <2>4
<1>5. ASSUME p \in {o.proposer, o.counterparty} PROVE b = Swap(o, p)
  <2>1. PICK c \in Balance : c = Swap(o, p)
    BY <1>5, SwapIs
  <2>2. \A k \in Kind : c.available[k] = Worth(G, k) - Worth(L, k) /\ c.reserved[k] = 0
    BY <1>3, <1>5, <2>1, SwapIs
  <2>3. \A k \in Kind : b.available[k] = c.available[k] /\ b.reserved[k] = c.reserved[k]
    BY <1>4, <1>5, <2>2
  <2>4. QED
    BY <2>1, <2>3, SameBalance
<1>6. b.reserved = ZeroBalance.reserved
  BY <1>4, ZeroIs DEF Balance
<1>7. QED
  BY <1>1, <1>5, <1>6

\* A cancelled call of an undisturbed trade: nothing.
LEMMA CancelledIs ==
  ASSUME NEW o \in Offers, NEW t, Table(o, "cancelled", t), NEW p \in Player, EffectIs(o, p, t)
  PROVE  Effect(p, t) = ZeroBalance
<1>1. PICK b \in Balance : b = Effect(p, t)
  BY DEF EffectIs
<1>2. /\ ~hasMove(p, t, "committed") /\ ~hasMove(p, t, "received")
      /\ hasMove(p, t, "reserved") <=> hasMove(p, t, "released")
  <2>1. Placed(o, "cancelled", p, t)
    BY DEF Table
  <2>2. QED
    BY <2>1 DEF Placed, Committers, Receivers
<1>3. PICK L, G \in Item : L = Lot(o, p) /\ G = Gain(o, p)
  BY OfferIs DEF Lot, Gain
<1>4. ASSUME NEW k \in Kind PROVE b.available[k] = 0 /\ b.reserved[k] = 0
  <2>1. PICK l, g \in Nat : l = Worth(L, k) /\ g = Worth(G, k)
    BY <1>3, WorthIs
  <2>2. PICK re, rl, co, rc : /\ re = Part(p, t, "reserved", L, k)
                              /\ rl = Part(p, t, "released", L, k)
                              /\ co = Part(p, t, "committed", L, k)
                              /\ rc = Part(p, t, "received", G, k)
    OBVIOUS
  <2>3. re = rl /\ co = 0 /\ rc = 0 /\ re \in Int
    BY <1>2, <2>1, <2>2 DEF Part
  <2>4. b.available[k] = rl + rc - re /\ b.reserved[k] = re - rl - co
    BY <1>1, <1>3, <2>2 DEF EffectIs
  <2>5. QED
    BY <2>3, <2>4
<1>5. QED
  BY <1>1, <1>4, ZeroIs, SameBalance

\* "Either the trade happens completely or not at all" (docs/2pc-vs-saga.md): when Execute
\* has returned a verdict and nothing has failed, the moves of the trade add up to the swap,
\* or to nothing, and nothing stays reserved for it.
THEOREM HappensOrNot == Spec => []AllOrNothing
<1>1. ASSUME BookInv, Undisturbed, NEW t \in TradeID, call[t] # Idle
      PROVE  /\ call[t].pc = "settled" => Swapped(call[t].offer, t)
             /\ call[t].pc = "cancelled" => Untouched(t)
             /\ ~Running(t) => \A p \in Player : Effect(p, t).reserved = ZeroBalance.reserved
  <2>1. PICK o \in Offers, pc \in Step : o = call[t].offer /\ pc = call[t].pc
    BY <1>1, TypeParts, CallIs DEF BookInv
  <2>2. Table(o, pc, t) /\ \A p \in Player : EffectIs(o, p, t)
    BY <1>1, <2>1 DEF BookInv, Books, Booked
  <2>3. o.proposer \in Player /\ o.counterparty \in Player
    BY OfferIs
  <2>4. CASE pc = "settled"
    <3>1. \A p \in Player : /\ p \in {o.proposer, o.counterparty} => Effect(p, t) = Swap(o, p)
                            /\ Effect(p, t).reserved = ZeroBalance.reserved
      BY <2>2, <2>4, SettledIs
    <3>2. QED
      BY <2>1, <2>3, <2>4, <3>1 DEF Swapped
  <2>5. CASE pc = "cancelled"
    <3>1. \A p \in Player : Effect(p, t) = ZeroBalance
      BY <2>2, <2>5, CancelledIs
    <3>2. QED
      BY <2>1, <2>5, <3>1 DEF Untouched
  <2>6. CASE pc \notin {"settled", "cancelled"}
    BY <1>1, <2>1, <2>2, <2>6 DEF Running, Returned, Table
  <2>7. QED
    BY <2>4, <2>5, <2>6
<1>2. BookInv => AllOrNothing
  BY <1>1 DEF AllOrNothing
<1>3. PayInv => TypeOK
  BY DEF PayInv
<1>4. QED
  BY <1>2, <1>3, BookInvInit, BookInvStep, Pays, PTL DEF Spec

-----------------------------------------------------------------------------
(* A trade that says "settled" has made its swap, whatever fails. *)

\* The books of trade t, for the offer o and a call that has come to pc.
Ledger(o, pc, t) == Table(o, pc, t) /\ \A p \in Player : EffectIs(o, p, t)

\* Where a call stands that is on its way to "settled".
Forward == {"readP", "appendP", "phaseP", "decide", "readC", "appendC", "phaseC",
            "settle1", "settle2", "settle3", "settle4", "phaseS", "settled"}

\* The trade has made no move.
NoMoves(t) ==
  \A p \in Player : Effect(p, t) = ZeroBalance /\ \A typ \in MoveType : ~hasMove(p, t, typ)

\* The stream s proposes what the call is about, once it has said so.
Tells(o, pc, s) == pc \notin {"propose", "error"} => Proposals(s) # {} /\ LastOffer(s) = o

Once(s) == \A i, j \in 1..Len(s) : s[i].typ = "proposed" /\ s[j].typ = "proposed" => i = j

SaysSettled(s) == s # <<>> /\ Last(s).typ = "settled"

\* The call of trade t, and the stream.
Called1(t) ==
  call[t] # Idle =>
    /\ Tells(call[t].offer, call[t].pc, stream[t])
    /\ call[t].pc \notin {"propose", "settled", "error"} => ~SaysSettled(stream[t])
    /\ Once(stream[t]) /\ call[t].pc \in Forward => Ledger(call[t].offer, call[t].pc, t)

Told1(t) ==
  /\ Proposals(stream[t]) = {} => NoMoves(t) /\ ~SaysSettled(stream[t])
  /\ Once(stream[t]) /\ SaysSettled(stream[t]) => Ledger(LastOffer(stream[t]), "settled", t)

Own(t) == Called1(t) /\ Told1(t)

SwapInv == TypeOK /\ \A t \in TradeID : Own(t)

LEMMA LedgerStays ==
  ASSUME NEW o, NEW pc, NEW t, Kept(t), Ledger(o, pc, t)
  PROVE  Ledger(o, pc, t)'
  BY PlacedStays, EffectStays DEF Ledger

LEMMA NoMovesStays ==
  ASSUME NEW t, Kept(t), NoMoves(t)
  PROVE  NoMoves(t)'
<1>1. ASSUME NEW p \in Player
      PROVE  Effect(p, t)' = ZeroBalance /\ \A typ \in MoveType : ~hasMove(p, t, typ)'
  BY <1>1 DEF Kept, NoMoves
<1>2. QED
  BY <1>1 DEF NoMoves, ZeroBalance

\* A trade whose stream and inventories stay.
LEMMA Told1Stays ==
  ASSUME NEW u \in TradeID, Kept(u), stream'[u] = stream[u], Told1(u)
  PROVE  Told1(u)'
<1>1. PICK s : s = stream[u] /\ s = stream'[u]
  OBVIOUS
<1>2. Proposals(s) = {} => NoMoves(u)' /\ ~SaysSettled(s)
  BY <1>1, NoMovesStays DEF Told1
<1>3. Once(s) /\ SaysSettled(s) => Ledger(LastOffer(s), "settled", u)'
  <2>1. PICK o : o = LastOffer(s)
    OBVIOUS
  <2>2. Once(s) /\ SaysSettled(s) => Ledger(o, "settled", u)
    BY <1>1, <2>1 DEF Told1
  <2>3. QED
    BY <2>1, <2>2, LedgerStays
<1>4. QED
  BY <1>1, <1>2, <1>3 DEF Told1

LEMMA Called1Stays ==
  ASSUME NEW u \in TradeID, Kept(u), call'[u] = call[u], stream'[u] = stream[u], Called1(u)
  PROVE  Called1(u)'
<1>1. PICK c, s : c = call[u] /\ c = call'[u] /\ s = stream[u] /\ s = stream'[u]
  OBVIOUS
<1>2. PICK o, pc : o = c.offer /\ pc = c.pc
  OBVIOUS
<1>3. c # Idle => /\ Tells(o, pc, s)
                  /\ pc \notin {"propose", "settled", "error"} => ~SaysSettled(s)
                  /\ Once(s) /\ pc \in Forward => Ledger(o, pc, u)
  BY <1>1, <1>2 DEF Called1
<1>4. Once(s) /\ pc \in Forward /\ c # Idle => Ledger(o, pc, u)'
  BY <1>3, LedgerStays
<1>5. QED
  BY <1>1, <1>2, <1>3, <1>4 DEF Called1

\* All but one of the trades stay.
LEMMA OthersOwn ==
  ASSUME \A u \in TradeID : Own(u), NEW t \in TradeID,
         \A u \in TradeID : u # t => Kept(u) /\ call'[u] = call[u] /\ stream'[u] = stream[u],
         Own(t)'
  PROVE  \A u \in TradeID : Own(u)'
<1>1. ASSUME NEW u \in TradeID, u # t PROVE Own(u)'
  BY <1>1, Told1Stays, Called1Stays DEF Own
<1>2. QED
  BY <1>1

\* A call goes on: on its way to "settled" its ledger goes with it.
LEMMA TurnOwn ==
  ASSUME TypeOK, \A u \in TradeID : Own(u), NEW t \in TradeID, call[t] # Idle,
         NEW next, Turn(t, next), UNCHANGED stream, \A u \in TradeID : u # t => Kept(u),
         NEW o \in Offers, o = call[t].offer, NEW pc, pc = call[t].pc,
         pc \notin {"propose", "settled", "error"} \/ (next = "error" /\ Kept(t)),
         next \in Forward => pc \in Forward /\ (Ledger(o, pc, t) => Ledger(o, next, t)')
  PROVE  \A u \in TradeID : Own(u)'
<1>1. Called
  BY TypeParts
<1>2. call'[t].pc = next /\ call'[t].offer = o /\ \A u \in TradeID : u # t => call'[u] = call[u]
  BY <1>1, TurnIs
<1>3. PICK s : s = stream[t] /\ s = stream'[t]
  OBVIOUS
<1>4. /\ Tells(o, pc, s) /\ Told1(t)
      /\ pc \notin {"propose", "settled", "error"} => ~SaysSettled(s)
      /\ Once(s) /\ pc \in Forward => Ledger(o, pc, t)
  BY <1>3 DEF Own, Called1
<1>5. Called1(t)'
  <2>1. Tells(o, next, s)
    BY <1>4 DEF Tells
  <2>2. next \notin {"propose", "settled", "error"} => ~SaysSettled(s)
    BY <1>4
  <2>3. Once(s) /\ next \in Forward => Ledger(o, next, t)'
    BY <1>4
  <2>4. QED
    BY <1>2, <1>3, <2>1, <2>2, <2>3 DEF Called1
<1>6. Told1(t)'
  <2>1. CASE Kept(t)
    BY <1>3, <1>4, <2>1, Told1Stays
  <2>2. CASE pc \notin {"propose", "settled", "error"}
    <3>1. Proposals(s) # {} /\ ~SaysSettled(s)
      BY <1>4, <2>2 DEF Tells
    <3>2. QED
      BY <1>3, <3>1 DEF Told1
  <2>3. QED
    BY <2>1, <2>2
<1>7. QED
  BY <1>2, <1>5, <1>6, OthersOwn DEF Own

\* A call that turns aside, or fails.
LEMMA AsideOwn ==
  ASSUME TypeOK, \A u \in TradeID : Own(u), NEW t \in TradeID, call[t] # Idle,
         NEW next, Turn(t, next), UNCHANGED stream, \A u \in TradeID : u # t => Kept(u),
         next \notin Forward,
         call[t].pc \notin {"propose", "settled", "error"} \/ (next = "error" /\ Kept(t))
  PROVE  \A u \in TradeID : Own(u)'
<1>1. PICK o \in Offers, pc \in Step : o = call[t].offer /\ pc = call[t].pc
  BY TypeParts, CallIs
<1>2. QED
  BY <1>1, TurnOwn

\* A call that goes on with no move.
LEMMA OnwardOwn ==
  ASSUME TypeOK, \A u \in TradeID : Own(u), NEW t \in TradeID, call[t] # Idle,
         NEW next, Turn(t, next), UNCHANGED <<inv, stream>>,
         Onward(call[t].offer, call[t].pc, next, t),
         call[t].pc \notin {"propose", "settled", "error"}, next # "settled"
  PROVE  \A u \in TradeID : Own(u)'
<1>1. PICK o \in Offers, pc \in Step : o = call[t].offer /\ pc = call[t].pc
  BY TypeParts, CallIs
<1>2. \A u : Kept(u)
  BY KeptSame
<1>3. next \in Forward => pc \in Forward
  BY <1>1 DEF Onward, Forward
<1>4. Ledger(o, pc, t) => Ledger(o, next, t)'
  <2>1. Ledger(o, pc, t) => Ledger(o, next, t)
    BY <1>1, OnwardPlaced DEF Ledger
  <2>2. QED
    BY <1>2, <2>1, LedgerStays
<1>5. QED
  BY <1>1, <1>2, <1>3, <1>4, TurnOwn

\* What is proposed in a stream with one event more.
LEMMA OnceAppended ==
  ASSUME NEW s \in Seq(TradeEvent), NEW e \in TradeEvent, NEW r, r = Append(s, e)
  PROVE  /\ Once(r) => Once(s)
         /\ Once(r) /\ e.typ = "proposed" => Proposals(s) = {}
<1>1. PICK n \in Nat : n = Len(s)
  OBVIOUS
<1>2. Len(r) = n + 1 /\ r[n + 1] = e /\ \A i \in 1..n : r[i] = s[i]
  BY <1>1, AppendIs
<1>3. \A i \in 1..n : i \in 1..(n + 1) /\ i # n + 1
  OBVIOUS
<1>4. n + 1 \in 1..(n + 1)
  OBVIOUS
<1>5. Once(r) => Once(s)
  BY <1>1, <1>2, <1>3 DEF Once
<1>6. ASSUME Once(r), e.typ = "proposed", NEW i \in 1..n, s[i].typ = "proposed" PROVE FALSE
  BY <1>2, <1>3, <1>4, <1>6 DEF Once
<1>7. QED
  BY <1>1, <1>5, <1>6 DEF Proposals

LEMMA MarkOwn ==
  ASSUME TypeOK, \A u \in TradeID : Own(u), NEW t \in TradeID, Mark(t)
  PROVE  \A u \in TradeID : Own(u)'
<1>1. Called
  BY TypeParts
<1>2. UNCHANGED inv /\ \A u : Kept(u)
  BY <1>1, MarkDoes, KeptSame
<1>3. PICK pc, typ, next :
        /\ call[t] # Idle /\ call[t].pc = pc /\ Turn(t, next) /\ Records(t, typ)
        /\ \/ pc = "propose" /\ typ = "proposed" /\ next = "readP"
           \/ pc = "phaseP" /\ typ = "proposerReserved" /\ next = "decide"
           \/ pc = "phaseC" /\ typ = "counterpartyReserved" /\ next = "settle1"
           \/ pc = "phaseS" /\ typ = "settled" /\ next = "settled"
           \/ pc = "cancel" /\ typ = "cancelled" /\ next = "cancelled"
  BY <1>1, MarkDoes
<1>4. PICK o \in Offers : o = call[t].offer
  BY <1>1, <1>3, CallIs
<1>5. call'[t].pc = next /\ call'[t].offer = o /\ \A u \in TradeID : u # t => call'[u] = call[u]
  BY <1>1, <1>3, <1>4, TurnIs
<1>6. PICK s \in Seq(TradeEvent) : s = stream[t]
  BY TypeParts
<1>7. PICK e \in TradeEvent : /\ e.typ = typ /\ (typ = "proposed" => e.offer = o)
                              /\ stream' = [stream EXCEPT ![t] = Append(s, e)]
  BY <1>3, <1>4, <1>6 DEF Records
<1>8. PICK r : r = Append(s, e)
  OBVIOUS
<1>9. stream'[t] = r /\ \A u \in TradeID : u # t => stream'[u] = stream[u]
  BY <1>7, <1>8, TypeParts
<1>10. /\ r # <<>> /\ Last(r) = e
       /\ e.typ = "proposed" => Proposals(r) # {} /\ LastOffer(r) = e.offer
       /\ e.typ # "proposed" /\ Proposals(s) # {} =>
            Proposals(r) # {} /\ LastOffer(r) = LastOffer(s)
  BY <1>8, OfferAppended
<1>11. /\ Tells(o, pc, s) /\ Told1(t)
       /\ Once(s) /\ pc \in Forward => Ledger(o, pc, t)
  BY <1>3, <1>4, <1>6 DEF Own, Called1
<1>12. Proposals(r) # {} /\ LastOffer(r) = o
  BY <1>3, <1>7, <1>10, <1>11 DEF Tells
<1>13. SaysSettled(r) <=> pc = "phaseS"
  BY <1>3, <1>7, <1>10 DEF SaysSettled
<1>14. ASSUME Once(r), next \in Forward PROVE Ledger(o, next, t)
  <2>1. Onward(o, pc, next, t)
    BY <1>3 DEF Onward
  <2>2. CASE pc = "propose"
    <3>1. Proposals(s) = {}
      BY <1>3, <1>7, <1>8, <1>14, <2>2, OnceAppended
    <3>2. NoMoves(t)
      BY <1>6, <1>11, <3>1 DEF Told1
    <3>3. \A q \in Player : Placed(o, pc, q, t) /\ EffectIs(o, q, t)
      BY <2>2, <3>2, NothingDone DEF NoMoves
    <3>4. Table(o, pc, t)
      BY <2>2, <3>3 DEF Table
    <3>5. QED
      BY <2>1, <3>3, <3>4, OnwardPlaced DEF Ledger
  <2>3. CASE pc # "propose"
    <3>1. pc \in Forward
      BY <1>3, <1>14, <2>3 DEF Forward
    <3>2. Ledger(o, pc, t)
      BY <1>8, <1>11, <1>14, <3>1, OnceAppended
    <3>3. QED
      BY <2>1, <3>2, OnwardPlaced DEF Ledger
  <2>4. QED
    BY <2>2, <2>3
<1>15. Once(r) /\ next \in Forward => Ledger(o, next, t)'
  BY <1>2, <1>14, LedgerStays
<1>16. Called1(t)'
  <2>1. Tells(o, next, r)
    BY <1>12 DEF Tells
  <2>2. next \notin {"propose", "settled", "error"} => ~SaysSettled(r)
    BY <1>3, <1>13
  <2>3. QED
    BY <1>5, <1>9, <1>15, <2>1, <2>2 DEF Called1
<1>17. Told1(t)'
  <2>1. pc = "phaseS" => next = "settled" /\ next \in Forward
    BY <1>3 DEF Forward
  <2>2. QED
    BY <1>9, <1>12, <1>13, <1>15, <2>1 DEF Told1
<1>18. QED
  BY <1>2, <1>5, <1>9, <1>16, <1>17, OthersOwn DEF Own

LEMMA MoveOwn ==
  ASSUME TypeOK, \A u \in TradeID : Own(u), NEW t \in TradeID, Move(t)
  PROVE  \A u \in TradeID : Own(u)'
<1>1. Called /\ Streams
  BY TypeParts
<1>2. UNCHANGED <<gathers, stream, tradeSeq, faults, crashes>> /\ call[t] # Idle
  BY <1>1, MoveDoes
<1>3. PICK o \in Offers, pc \in Step : o = call[t].offer /\ pc = call[t].pc
  BY <1>1, <1>2, CallIs
<1>4. PICK who \in Player, item \in Item, typ \in MoveType, next \in Step :
        /\ Transfer(o, pc, who, item, typ, next) /\ Turn(t, next)
        /\ \/ hasMove(who, t, typ) /\ UNCHANGED inv
           \/ ~hasMove(who, t, typ) /\ Adds(who, MoveOf(t, typ, item))
  BY <1>1, <1>3, MoveDoes
<1>5. Moving(o, pc, who, item, typ, next)
  BY <1>4 DEF Moving
<1>6. \A u \in TradeID : u # t => Kept(u)
  <2>1. CASE UNCHANGED inv
    BY <2>1, KeptSame
  <2>2. CASE Adds(who, MoveOf(t, typ, item))
    <3>1. PICK e : e = MoveOf(t, typ, item)
      OBVIOUS
    <3>2. Adds(who, e) /\ e.trade = t /\ \A u : Concerns(e, u) <=> u = t
      BY <2>2, <3>1, MoveIs
    <3>3. QED
      BY <1>1, <3>2, KeptAside
  <2>3. QED
    BY <1>4, <2>1, <2>2
<1>7. pc \notin {"propose", "settled", "error"} /\ (next \in Forward => pc \in Forward)
  BY <1>4 DEF Transfer, Forward
<1>8. Ledger(o, pc, t) => Ledger(o, next, t)'
  BY <1>1, <1>4, <1>5, MoveMade DEF Ledger
<1>9. QED
  BY <1>2, <1>3, <1>4, <1>6, <1>7, <1>8, TurnOwn

LEMMA ReadOwn ==
  ASSUME TypeOK, \A u \in TradeID : Own(u), NEW t \in TradeID, ReserveRead(t)
  PROVE  \A u \in TradeID : Own(u)'
<1>1. Called /\ Streams
  BY TypeParts
<1>2. PICK o, pc : o = call[t].offer /\ pc = call[t].pc
  OBVIOUS
<1>3. PICK who, item : who = Payer(o, pc) /\ item = Price(o, pc)
  OBVIOUS
<1>4. /\ UNCHANGED <<inv, gathers, stream, tradeSeq, faults, crashes>>
      /\ call[t] # Idle /\ pc \in {"readP", "readC"}
  BY <1>1, <1>2, <1>3, ReserveReadDoes
<1>5. PICK c \in Calls :
        /\ call' = [call EXCEPT ![t] = c] /\ c.offer = o
        /\ \/ /\ c.pc = IF pc = "readP" THEN "phaseP" ELSE "phaseC"
              /\ hasMove(who, t, "reserved")
           \/ c.pc = IF pc = "readP" THEN "cancel" ELSE "undoP"
           \/ /\ c.pc = IF pc = "readP" THEN "appendP" ELSE "appendC"
              /\ ~hasMove(who, t, "reserved")
  BY <1>1, <1>2, <1>3, ReserveReadDoes
<1>6. PICK next : next = c.pc
  OBVIOUS
<1>7. Turn(t, next) /\ next # "settled"
  BY <1>2, <1>5, <1>6 DEF Turn
<1>8. Onward(o, pc, next, t)
  BY <1>3, <1>4, <1>5, <1>6 DEF Onward, Payer
<1>9. QED
  BY <1>2, <1>4, <1>7, <1>8, OnwardOwn

LEMMA AppendOwn ==
  ASSUME TypeOK, \A u \in TradeID : Own(u), NEW t \in TradeID, ReserveAppend(t)
  PROVE  \A u \in TradeID : Own(u)'
<1>1. Called /\ Streams
  BY TypeParts
<1>2. PICK pc : pc = call[t].pc
  OBVIOUS
<1>3. PICK who, item : who = Payer(call[t].offer, pc) /\ item = Price(call[t].offer, pc)
  OBVIOUS
<1>4. /\ UNCHANGED <<gathers, stream, tradeSeq, faults, crashes>>
      /\ call[t] # Idle /\ pc \in {"appendP", "appendC"}
  BY <1>1, <1>2, <1>3, ReserveAppendDoes
<1>5. PICK o \in Offers : o = call[t].offer
  BY <1>1, <1>4, CallIs
<1>6. PICK x, y, z : /\ x = (IF pc = "appendP" THEN "readP" ELSE "readC")
                     /\ y = (IF pc = "appendP" THEN "cancel" ELSE "undoP")
                     /\ z = (IF pc = "appendP" THEN "phaseP" ELSE "phaseC")
  OBVIOUS
<1>7. \/ Adds(who, MoveOf(t, "reserved", item)) /\ Turn(t, z)
      \/ UNCHANGED inv /\ (Turn(t, x) \/ Turn(t, y))
  BY <1>1, <1>2, <1>3, <1>6, ReserveAppendDoes
<1>8. CASE UNCHANGED inv /\ (Turn(t, x) \/ Turn(t, y))
  <2>1. PICK next \in {x, y} : Turn(t, next)
    BY <1>8
  <2>2. Onward(o, pc, next, t) /\ next # "settled"
    BY <1>4, <1>6, <2>1 DEF Onward
  <2>3. QED
    BY <1>2, <1>4, <1>5, <1>8, <2>1, <2>2, OnwardOwn
<1>9. CASE Adds(who, MoveOf(t, "reserved", item)) /\ Turn(t, z)
  <2>1. who \in Player /\ item \in Item
    BY <1>3, <1>5, PayerIs
  <2>2. Moving(o, pc, who, item, "reserved", z) /\ pc \in Forward
    BY <1>3, <1>4, <1>5, <1>6 DEF Moving, Payer, Price, Forward
  <2>3. PICK e : e = MoveOf(t, "reserved", item)
    OBVIOUS
  <2>4. Adds(who, e) /\ e.trade = t /\ \A u : Concerns(e, u) <=> u = t
    BY <1>9, <2>1, <2>3, MoveTypes, MoveIs
  <2>5. \A u \in TradeID : u # t => Kept(u)
    BY <1>1, <2>4, KeptAside
  <2>6. ASSUME Ledger(o, pc, t) PROVE Ledger(o, z, t)'
    <3>1. Placed(o, pc, who, t) /\ (pc = "appendC" => o.proposer # o.counterparty)
      BY <2>1, <2>6 DEF Ledger, Table
    <3>2. ~hasMove(who, t, "reserved")
      BY <1>3, <1>4, <1>5, <3>1 DEF Placed, Reservers, Payer
    <3>3. QED
      BY <1>1, <1>9, <2>1, <2>2, <2>6, <3>2, MoveTypes, MoveMade DEF Ledger
  <2>7. QED
    BY <1>2, <1>4, <1>5, <1>9, <2>2, <2>5, <2>6, TurnOwn
<1>10. QED
  BY <1>7, <1>8, <1>9

LEMMA SwapInvInit == Init => SwapInv
<1>1. SUFFICES ASSUME Init PROVE SwapInv
  OBVIOUS
<1>2. ASSUME NEW t \in TradeID PROVE Own(t)
  <2>1. call[t] = Idle /\ stream[t] = <<>>
    BY <1>1 DEF Init
  <2>2. ~SaysSettled(stream[t])
    BY <2>1 DEF SaysSettled
  <2>3. NoMoves(t)
    BY <1>1, <1>2, FreshInit DEF Fresh, NoMoves
  <2>4. QED
    BY <2>1, <2>2, <2>3 DEF Own, Called1, Told1
<1>3. QED
  BY <1>1, <1>2, PayInvInit DEF PayInv, SwapInv

LEMMA SwapInvStep == SwapInv /\ TypeOK' /\ [Next]_vars => SwapInv'
<1>1. SUFFICES ASSUME SwapInv, TypeOK', [Next]_vars PROVE \A u \in TradeID : Own(u)'
  BY DEF SwapInv
<1>2. TypeOK /\ Called /\ Streams /\ \A u \in TradeID : Own(u)
  BY <1>1, TypeParts DEF SwapInv
<1>3. ASSUME NEW o \in Offers, Execute(o) PROVE \A u \in TradeID : Own(u)'
  <2>1. UNCHANGED <<inv, gathers, stream, faults, crashes>>
    BY <1>2, <1>3, ExecuteDoes
  <2>2. PICK t \in TradeID, c \in Calls : c.pc = "propose" /\ call' = [call EXCEPT ![t] = c]
    BY <1>2, <1>3, ExecuteDoes
  <2>3. call'[t] = c /\ \A u \in TradeID : u # t => call'[u] = call[u]
    BY <1>2, <2>2 DEF Called
  <2>4. \A u : Kept(u)
    BY <2>1, KeptSame
  <2>5. Called1(t)'
    BY <2>2, <2>3 DEF Called1, Tells, Forward
  <2>6. Told1(t)'
    BY <1>2, <2>1, <2>4, Told1Stays DEF Own
  <2>7. QED
    BY <1>2, <2>1, <2>3, <2>4, <2>5, <2>6, OthersOwn DEF Own
<1>4. ASSUME NEW t \in TradeID, Decide(t) PROVE \A u \in TradeID : Own(u)'
  <2>1. UNCHANGED <<inv, stream>> /\ call[t] # Idle /\ call[t].pc = "decide"
    BY <1>2, <1>4, DecideDoes
  <2>2. PICK next \in {"readC", "undoP"} : Turn(t, next)
    BY <1>2, <1>4, DecideDoes
  <2>3. Onward(call[t].offer, call[t].pc, next, t)
    BY <2>1, <2>2 DEF Onward
  <2>4. QED
    BY <1>2, <2>1, <2>2, <2>3, OnwardOwn
<1>5. ASSUME NEW t \in TradeID, MarkFails(t) PROVE \A u \in TradeID : Own(u)'
  <2>1. UNCHANGED <<inv, stream>> /\ call[t] # Idle /\ Turn(t, "error")
    BY <1>2, <1>5, MarkFailsDoes
  <2>2. \A u : Kept(u)
    BY <2>1, KeptSame
  <2>3. "error" \notin Forward
    BY DEF Forward
  <2>4. QED
    BY <1>2, <2>1, <2>2, <2>3, AsideOwn
<1>6. ASSUME NEW t \in TradeID, MoveFails(t) PROVE \A u \in TradeID : Own(u)'
  <2>1. /\ UNCHANGED <<inv, stream>> /\ call[t] # Idle
        /\ call[t].pc \in {"settle1", "settle2", "settle3", "settle4", "undoP", "undoBothP", "undoC"}
    BY <1>2, <1>6, MoveFailsDoes
  <2>2. PICK next \in {"undoBothP", "undoC", "cancel"} : Turn(t, next)
    BY <1>2, <1>6, MoveFailsDoes
  <2>3. (\A u : Kept(u)) /\ next \notin Forward
    BY <2>1, KeptSame DEF Forward
  <2>4. QED
    BY <1>2, <2>1, <2>2, <2>3, AsideOwn
<1>7. ASSUME NEW t \in TradeID, ReserveFails(t) PROVE \A u \in TradeID : Own(u)'
  <2>1. PICK pc : pc = call[t].pc
    OBVIOUS
  <2>2. PICK next : next = IF pc \in {"readP", "appendP"} THEN "cancel" ELSE "undoP"
    OBVIOUS
  <2>3. /\ UNCHANGED <<inv, stream>> /\ call[t] # Idle
        /\ pc \in {"readP", "appendP", "readC", "appendC"} /\ Turn(t, next)
    BY <1>2, <1>7, <2>1, <2>2, ReserveFailsDoes
  <2>4. (\A u : Kept(u)) /\ next \notin Forward
    BY <2>2, <2>3, KeptSame DEF Forward
  <2>5. QED
    BY <1>2, <2>1, <2>3, <2>4, AsideOwn
<1>8. ASSUME NEW p \in Player, NEW k \in Kind, Gather(p, k),
             UNCHANGED <<call, stream, tradeSeq, faults, crashes>>
      PROVE  \A u \in TradeID : Own(u)'
  <2>1. PICK e : Adds(p, e) /\ e.typ = "gathered" /\ \A u : ~Concerns(e, u)
    BY <1>8, GatherDoes
  <2>2. "gathered" \notin MoveType
    BY DEF MoveType
  <2>3. \A u : Kept(u)
    BY <1>2, <2>1, <2>2, KeptAside
  <2>4. QED
    BY <1>2, <1>8, <2>3, Told1Stays, Called1Stays DEF Own
<1>9. ASSUME Crash PROVE \A u \in TradeID : Own(u)'
  <2>1. UNCHANGED <<inv, stream>> /\ call' = [t \in TradeID |-> Idle]
    BY <1>9 DEF Crash, invVars
  <2>2. \A u : Kept(u)
    BY <2>1, KeptSame
  <2>3. QED
    BY <1>2, <2>1, <2>2, Told1Stays DEF Own, Called1
<1>10. ASSUME UNCHANGED vars PROVE \A u \in TradeID : Own(u)'
  <2>1. UNCHANGED <<inv, call, stream>> /\ \A u : Kept(u)
    BY <1>10, KeptSame DEF vars, invVars
  <2>2. QED
    BY <1>2, <2>1, Told1Stays, Called1Stays DEF Own
<1>11. QED
  BY <1>1, <1>2, <1>3, <1>4, <1>5, <1>6, <1>7, <1>8, <1>9, <1>10, MarkOwn, MoveOwn, ReadOwn,
     AppendOwn DEF Next, Advance

\* A trade stream never claims more than happened: when its last event is "settled" the
\* moves of the trade add up to the swap of its offer, whatever call of the store failed or
\* whenever the process died, unless its id was given to another trade as well.
THEOREM SettledTellsTheSwap == Spec => []SettledMeansSwapped
<1>1. ASSUME SwapInv, NEW t \in TradeID, stream[t] # <<>>, StateOf(t).phase = "settled", OneTrade(t)
      PROVE  Swapped(StateOf(t).offer, t)
  <2>1. PICK s \in Seq(TradeEvent) : s = stream[t]
    BY <1>1, TypeParts DEF SwapInv
  <2>2. Once(s) /\ SaysSettled(s) /\ StateOf(t).offer = LastOffer(s)
    BY <1>1, <2>1 DEF OneTrade, Once, StateOf, SaysSettled, LastOffer, Proposals
  <2>3. Proposals(s) # {} /\ Ledger(LastOffer(s), "settled", t)
    BY <1>1, <2>1, <2>2 DEF SwapInv, Own, Told1
  <2>4. PICK o \in Offers : o = LastOffer(s)
    BY <2>3, LastOfferIs
  <2>5. o.proposer \in Player /\ o.counterparty \in Player
    BY OfferIs
  <2>6. \A p \in Player : p \in {o.proposer, o.counterparty} => Effect(p, t) = Swap(o, p)
    BY <2>3, <2>4, SettledIs DEF Ledger
  <2>7. QED
    BY <2>2, <2>4, <2>5, <2>6 DEF Swapped
<1>2. SwapInv => SettledMeansSwapped
  BY <1>1 DEF SettledMeansSwapped
<1>3. PayInv => TypeOK
  BY DEF PayInv
<1>4. QED
  BY <1>2, <1>3, SwapInvInit, SwapInvStep, Pays, PTL DEF Spec

-----------------------------------------------------------------------------
(* The choreographed saga (Choreography.tla) on the same inventories, for  *)
(* any proposals.  A trade is where a call of Execute with the same moves  *)
(* behind it would be, so that Table and EffectIs speak of it as well.     *)

LEMMA SameInventory ==
  /\ Choreo!InvEvent = InvEvent /\ Choreo!InvInit = InvInit
  /\ \A p, t, typ : Choreo!hasMove(p, t, typ) = hasMove(p, t, typ)
  /\ \A p, t, item, typ : Choreo!appendMove(p, t, item, typ) = appendMove(p, t, item, typ)
  /\ \A p, k : Choreo!Gather(p, k) = Gather(p, k)
  /\ \A p : Choreo!BalanceOf(p) = BalanceOf(p)
<1>1. Choreo!InvEvent = InvEvent
  BY DEF Choreo!InvEvent, InvEvent, Choreo!Item, Item, Choreo!MoveType, MoveType
<1>2. Choreo!InvInit = InvInit
  BY DEF Choreo!InvInit, InvInit
<1>3. \A p, t, typ : Choreo!hasMove(p, t, typ) = hasMove(p, t, typ)
  BY DEF Choreo!hasMove, hasMove
<1>4. \A p, t, item, typ : Choreo!appendMove(p, t, item, typ) = appendMove(p, t, item, typ)
  BY DEF Choreo!appendMove, appendMove
<1>5. \A p, k : Choreo!Gather(p, k) = Gather(p, k)
  BY DEF Choreo!Gather, Gather
<1>6. \A p : Choreo!BalanceOf(p) = BalanceOf(p)
  BY <1>1 DEF Choreo!BalanceOf, BalanceOf, Choreo!Fold, Fold, Choreo!applyTo, applyTo,
              Choreo!adj, adj, Choreo!ZeroBalance, ZeroBalance
<1>7. QED
  BY <1>1, <1>2, <1>3, <1>4, <1>5, <1>6

LEMMA SameVerdicts ==
  /\ \A t : Choreo!Untouched(t) = Untouched(t)
  /\ \A o, t : Choreo!Swapped(o, t) = Swapped(o, t)
<1>1. Choreo!ZeroBalance = ZeroBalance
  BY DEF Choreo!ZeroBalance, ZeroBalance
<1>2. \A p, t : Choreo!Effect(p, t) = Effect(p, t)
  BY DEF Choreo!Effect, Effect, Choreo!Fold, Fold, Choreo!applyTo, applyTo, Choreo!adj, adj,
         Choreo!ZeroBalance, ZeroBalance, Choreo!MoveType, MoveType, Choreo!Item, Item
<1>3. \A o, p : Choreo!Swap(o, p) = Swap(o, p)
  BY DEF Choreo!Swap, Swap, Choreo!adj, adj, Choreo!ZeroBalance, ZeroBalance
<1>4. \A t : Choreo!Untouched(t) = Untouched(t)
  BY <1>1, <1>2 DEF Choreo!Untouched, Untouched
<1>5. \A o, t : Choreo!Swapped(o, t) = Swapped(o, t)
  BY <1>2, <1>3 DEF Choreo!Swapped, Swapped
<1>6. QED
  BY <1>4, <1>5

-----------------------------------------------------------------------------
(* The log of the trades. *)

PhaseMarks(l, t) == {i \in 1..Len(l) : l[i].trade = t /\ l[i].typ \in Choreo!PhaseEvents}
PhaseIn(l, t) == IF PhaseMarks(l, t) = {} THEN "none" ELSE l[Max(PhaseMarks(l, t))].typ

LEMMA PhaseIs == \A t : Choreo!Phase(t) = PhaseIn(log, t)
  BY DEF Choreo!Phase, PhaseIn, PhaseMarks, Choreo!Max, Max

LEMMA PhaseAppended ==
  ASSUME NEW l \in Seq(Choreo!LogEvent), NEW e \in Choreo!LogEvent, NEW t,
         NEW r \in Seq(Choreo!LogEvent), Len(r) = Len(l) + 1, r[Len(l) + 1] = e,
         \A i \in 1..Len(l) : r[i] = l[i]
  PROVE  /\ e.trade = t /\ e.typ \in Choreo!PhaseEvents => PhaseIn(r, t) = e.typ
         /\ ~(e.trade = t /\ e.typ \in Choreo!PhaseEvents) => PhaseIn(r, t) = PhaseIn(l, t)
<1>1. PICK n \in Nat : n = Len(l)
  OBVIOUS
<1>2. /\ r \in Seq(Choreo!LogEvent) /\ Len(r) = n + 1 /\ r[n + 1] = e
      /\ \A i \in 1..n : r[i] = l[i]
  BY <1>1
<1>3. PICK S, R : S = PhaseMarks(l, t) /\ R = PhaseMarks(r, t)
  OBVIOUS
<1>4. S \subseteq 1..n /\ R \subseteq 1..(n + 1)
  BY <1>1, <1>2, <1>3 DEF PhaseMarks
<1>5. \A i \in 1..n : i \in R <=> i \in S
  <2>1. \A i \in 1..n : i \in 1..(n + 1)
    BY <1>1
  <2>2. QED
    BY <1>1, <1>2, <1>3, <2>1 DEF PhaseMarks
<1>6. n + 1 \in R <=> e.trade = t /\ e.typ \in Choreo!PhaseEvents
  <2>1. n + 1 \in 1..(n + 1)
    BY <1>1
  <2>2. QED
    BY <1>2, <1>3, <2>1 DEF PhaseMarks
<1>7. CASE n + 1 \in R
  <2>1. PICK m \in R : m = Max(R) /\ \A y \in R : m >= y
    <3>1. R # {} /\ n + 1 \in Nat
      BY <1>1, <1>7
    <3>2. QED
      BY <1>4, <3>1, MaxIs
  <2>2. m = n + 1
    BY <1>4, <1>7, <2>1
  <2>3. QED
    BY <1>2, <1>3, <1>6, <1>7, <2>1, <2>2 DEF PhaseIn
<1>8. CASE n + 1 \notin R
  <2>1. R = S
    <3>1. \A i \in R : i \in 1..n
      BY <1>1, <1>4, <1>8
    <3>2. QED
      BY <1>4, <1>5, <3>1
  <2>2. CASE S = {}
    BY <1>3, <1>6, <1>8, <2>1, <2>2 DEF PhaseIn
  <2>3. CASE S # {}
    <3>1. Max(S) \in 1..n
      BY <1>1, <1>4, <2>3, MaxIs
    <3>2. QED
      BY <1>2, <1>3, <1>6, <1>8, <2>1, <2>3, <3>1 DEF PhaseIn
  <2>4. QED
    BY <2>2, <2>3
<1>9. QED
  BY <1>7, <1>8

-----------------------------------------------------------------------------
(* Where a trade is. *)

\* The event in hand is one of trade t.
InHand(t) == handler # "idle" /\ Choreo!Event.trade = t

\* The place of a call with the moves made before step h, and with those of a phase.
PlaceAt(h) ==
  IF h = "reserveP" THEN "readP" ELSE IF h = "reserveC" THEN "readC"
  ELSE IF h = "markP" THEN "phaseP" ELSE IF h = "markC" THEN "phaseC"
  ELSE IF h = "markS" THEN "phaseS" ELSE h
PlaceAfter(phase) ==
  IF phase = "none" THEN "propose" ELSE IF phase = "proposed" THEN "readP"
  ELSE IF phase = "proposerReserved" THEN "decide"
  ELSE IF phase = "counterpartyReserved" THEN "settle1" ELSE phase

Place(t) == IF InHand(t) THEN PlaceAt(handler) ELSE PlaceAfter(Choreo!Phase(t))

\* The moves of trade t are those its place tells; a trade with a verdict is left alone.
Told(t) ==
  /\ Table(Proposed[t], Place(t), t) /\ \A p \in Player : EffectIs(Proposed[t], p, t)
  /\ InHand(t) => Choreo!Phase(t) \notin {"settled", "cancelled"}

Typed == Choreo!TypeOK /\ (handler # "idle" => checkpoint < Len(log))

ChoreoInv == Typed /\ (faults + crashes = 0 => \A t \in TradeID : Told(t))

LEMMA TypedIs ==
  ASSUME Typed
  PROVE  /\ Streams /\ gathers \in Nat /\ log \in Seq(Choreo!LogEvent) /\ Len(log) \in Nat
         /\ checkpoint \in 0..Len(log) /\ checkpoint \in Nat
         /\ handler \in Choreo!Steps /\ faults \in Nat /\ crashes \in Nat
         /\ \A t \in TradeID : Proposed[t] \in Offers
<1>1. Streams
  BY SameInventory DEF Typed, Choreo!TypeOK, Streams
<1>2. Len(log) \in Nat /\ log \in Seq(Choreo!LogEvent)
  BY LenProperties DEF Typed, Choreo!TypeOK
<1>3. QED
  BY <1>1, <1>2, ProposedAssumption DEF Typed, Choreo!TypeOK

\* The event in hand, or next.
LEMMA EventInLog ==
  ASSUME Typed, checkpoint < Len(log)
  PROVE  Choreo!Event \in Choreo!LogEvent /\ Choreo!Event.trade \in TradeID
<1>1. checkpoint + 1 \in 1..Len(log)
  BY TypedIs
<1>2. Choreo!Event \in Choreo!LogEvent
  BY <1>1, TypedIs, ElementOfSeq DEF Choreo!Event
<1>3. QED
  BY <1>2 DEF Choreo!LogEvent

\* The log stays, or gets event e.
LEMMA EmitIs ==
  ASSUME Typed, NEW t \in TradeID, NEW typ, typ \in Choreo!Answers \cup Choreo!PhaseEvents,
         Choreo!Emit(t, typ)
  PROVE  /\ log' \in Seq(Choreo!LogEvent) /\ Len(log') = Len(log) + 1
         /\ \A i \in 1..Len(log) : log'[i] = log[i]
         /\ \A u : Choreo!Phase(u)' = IF u = t /\ typ \in Choreo!PhaseEvents THEN typ
                                      ELSE Choreo!Phase(u)
<1>1. PICK e : e = [trade |-> t, typ |-> typ]
  OBVIOUS
<1>2. e \in Choreo!LogEvent /\ e.trade = t /\ e.typ = typ
  BY <1>1 DEF Choreo!LogEvent
<1>3. PICK l \in Seq(Choreo!LogEvent) : l = log
  BY TypedIs
<1>4. PICK r : r = log' /\ r = Append(l, e)
  BY <1>1, <1>3 DEF Choreo!Emit
<1>5. /\ r \in Seq(Choreo!LogEvent) /\ Len(r) = Len(l) + 1 /\ r[Len(l) + 1] = e
      /\ \A i \in 1..Len(l) : r[i] = l[i]
  BY <1>2, <1>4, AppendIs
<1>6. ASSUME NEW u
      PROVE  Choreo!Phase(u)' = IF u = t /\ typ \in Choreo!PhaseEvents THEN typ
                                ELSE Choreo!Phase(u)
  <2>1. /\ e.trade = u /\ e.typ \in Choreo!PhaseEvents => PhaseIn(r, u) = e.typ
        /\ ~(e.trade = u /\ e.typ \in Choreo!PhaseEvents) => PhaseIn(r, u) = PhaseIn(l, u)
    BY <1>2, <1>5, PhaseAppended
  <2>2. Choreo!Phase(u)' = PhaseIn(log', u)
    BY DEF Choreo!Phase, PhaseIn, PhaseMarks, Choreo!Max, Max
  <2>3. QED
    BY <1>2, <1>3, <1>4, <2>1, <2>2, PhaseIs
<1>7. QED
  BY <1>3, <1>4, <1>5, <1>6

LEMMA PhaseStays ==
  ASSUME UNCHANGED log, NEW u
  PROVE  Choreo!Phase(u)' = Choreo!Phase(u)
  BY DEF Choreo!Phase

\* The event in hand stays in hand while the log grows.
LEMMA HandStays ==
  ASSUME Typed, handler # "idle" \/ checkpoint < Len(log), checkpoint' = checkpoint,
         UNCHANGED log \/ \A i \in 1..Len(log) : log'[i] = log[i]
  PROVE  Choreo!Event' = Choreo!Event
<1>1. checkpoint + 1 \in 1..Len(log)
  BY TypedIs DEF Typed
<1>2. QED
  BY <1>1 DEF Choreo!Event

\* A trade that keeps its place and its moves.
LEMMA ToldStays ==
  ASSUME NEW u \in TradeID, Told(u), Kept(u), Place(u)' = Place(u),
         InHand(u)' => Choreo!Phase(u)' \notin {"settled", "cancelled"}
  PROVE  Told(u)'
<1>1. PICK o, pc : o = Proposed[u] /\ pc = Place(u)
  OBVIOUS
<1>2. Table(o, pc, u) /\ \A p \in Player : EffectIs(o, p, u)
  BY <1>1 DEF Told
<1>3. Table(o, pc, u)'
  BY <1>2, PlacedStays
<1>4. \A p \in Player : EffectIs(o, p, u)'
  BY <1>2, EffectStays
<1>5. o = Proposed[u]' /\ pc = Place(u)'
  BY <1>1
<1>6. QED
  BY <1>3, <1>4, <1>5 DEF Told

\* A trade that goes on without a move.
LEMMA ToldOnward ==
  ASSUME Typed, NEW t \in TradeID, Told(t), Kept(t), Onward(Proposed[t], Place(t), Place(t)', t),
         InHand(t)' => Choreo!Phase(t)' \notin {"settled", "cancelled"}
  PROVE  Told(t)'
<1>1. PICK o \in Offers : o = Proposed[t]
  BY TypedIs
<1>2. PICK pc, next : pc = Place(t) /\ next = Place(t)'
  OBVIOUS
<1>3. Table(o, pc, t) /\ \A p \in Player : EffectIs(o, p, t)
  BY <1>1, <1>2 DEF Told
<1>4. Table(o, next, t)
  BY <1>1, <1>2, <1>3, OnwardPlaced
<1>5. Table(o, next, t)' /\ \A p \in Player : EffectIs(o, p, t)'
  BY <1>3, <1>4, PlacedStays, EffectStays
<1>6. QED
  BY <1>1, <1>2, <1>5 DEF Told

\* A trade that is not the one in hand, or on whose event nothing happens.
LEMMA ToldApart ==
  ASSUME NEW u \in TradeID, Told(u), Kept(u), Choreo!Phase(u)' = Choreo!Phase(u),
         InHand(u)' <=> InHand(u), InHand(u) => handler' = handler
  PROVE  Told(u)'
<1>1. Place(u)' = Place(u)
  BY DEF Place
<1>2. InHand(u)' => Choreo!Phase(u)' \notin {"settled", "cancelled"}
  BY DEF Told
<1>3. QED
  BY <1>1, <1>2, ToldStays

\* A step on the event in hand concerns no other trade.
LEMMA OthersTold ==
  ASSUME NEW t, handler # "idle", t = Choreo!Event.trade,
         handler' # "idle" => Choreo!Event' = Choreo!Event,
         NEW u \in TradeID, u # t, Told(u), Kept(u), Choreo!Phase(u)' = Choreo!Phase(u)
  PROVE  Told(u)'
<1>1. ~InHand(u) /\ ~InHand(u)'
  BY DEF InHand
<1>2. QED
  BY <1>1, ToldApart

\* What a step of a reaction does to the streams of the inventories.
Does(o, pc, next, t) ==
  \/ UNCHANGED inv /\ Onward(o, pc, next, t)
  \/ \E who \in Player, item \in Item, typ \in MoveType : \E at :
       /\ at = pc \/ Onward(o, pc, at, t)
       /\ Moving(o, at, who, item, typ, next)
       /\ \/ hasMove(who, t, typ) /\ UNCHANGED inv
          \/ /\ ~hasMove(who, t, typ) /\ Adds(who, MoveOf(t, typ, item))
             /\ typ = "reserved" => ~(BalanceOf(who).available[item.kind] < item.amount)

\* A reaction goes on.
Hands(t) ==
  /\ handler # "idle" /\ handler' \in Choreo!Steps \ {"idle"}
  /\ UNCHANGED <<gathers, log, checkpoint, crashes>>
  /\ \/ faults' = faults + 1 /\ UNCHANGED inv
     \/ UNCHANGED faults /\ Does(Proposed[t], PlaceAt(handler), PlaceAt(handler'), t)

LEMMA ReserveHands ==
  ASSUME Typed, NEW t \in TradeID, t = Choreo!Event.trade, Choreo!Reserve
  PROVE  Hands(t)
<1>1. PICK o \in Offers : o = Proposed[t]
  BY TypedIs
<1>2. PICK who, item, done, bad :
        IF handler = "reserveP"
        THEN who = o.proposer /\ item = o.give /\ done = "markP" /\ bad = "cancel"
        ELSE who = o.counterparty /\ item = o.want /\ done = "markC" /\ bad = "undoP"
  OBVIOUS
<1>3. PICK out : out = Choreo!ReserveOutcome(who, t, item)
  OBVIOUS
<1>4. /\ handler \in {"reserveP", "reserveC"} /\ UNCHANGED <<gathers, log, crashes>>
      /\ \/ /\ IF out = "append" THEN Choreo!appendMove(who, t, item, "reserved")
                                 ELSE UNCHANGED inv
            /\ Choreo!Goto(IF out = "refused" THEN bad ELSE done)
            /\ UNCHANGED faults
         \/ faults' = faults + 1 /\ Choreo!Goto(bad) /\ UNCHANGED inv
  BY <1>1, <1>2, <1>3 DEF Choreo!Reserve
<1>5. /\ out \in {"refused", "done", "append"}
      /\ out = "done" => hasMove(who, t, "reserved")
      /\ out = "append" => /\ ~hasMove(who, t, "reserved")
                           /\ ~(BalanceOf(who).available[item.kind] < item.amount)
  BY <1>3, SameInventory DEF Choreo!ReserveOutcome
<1>6. PICK next : /\ next \in {done, bad} /\ Choreo!Goto(next)
                  /\ UNCHANGED faults => next = IF out = "refused" THEN bad ELSE done
  <2>1. faults \in Nat
    BY TypedIs
  <2>2. faults' = faults + 1 => faults' # faults
    BY <2>1
  <2>3. QED
    BY <1>4, <2>2
<1>7. next \in Choreo!Steps \ {"idle"} /\ handler' = next /\ checkpoint' = checkpoint
  BY <1>2, <1>6 DEF Choreo!Goto, Choreo!After, Choreo!Steps
<1>8. ASSUME UNCHANGED faults,
             IF out = "append" THEN Choreo!appendMove(who, t, item, "reserved")
                               ELSE UNCHANGED inv
      PROVE  Does(o, PlaceAt(handler), PlaceAt(next), t)
  <2>1. next = IF out = "refused" THEN bad ELSE done
    BY <1>6, <1>8
  <2>2. CASE out = "refused"
    BY <1>2, <1>4, <1>8, <2>1, <2>2 DEF Does, Onward, PlaceAt
  <2>3. CASE out = "done"
    BY <1>2, <1>4, <1>5, <1>8, <2>1, <2>3 DEF Does, Onward, PlaceAt
  <2>4. CASE out = "append"
    <3>1. who \in Player /\ item \in Item
      BY <1>2, OfferIs
    <3>2. MoveOf(t, "reserved", item) \in InvEvent
      BY <3>1, MoveTypes, MoveIs
    <3>3. Adds(who, MoveOf(t, "reserved", item))
      BY <1>8, <2>4, <3>1, <3>2, SameInventory DEF Adds, MoveOf, appendMove
    <3>4. PICK at : at = IF handler = "reserveP" THEN "appendP" ELSE "appendC"
      OBVIOUS
    <3>5. Onward(o, PlaceAt(handler), at, t)
      BY <1>2, <1>4, <1>5, <2>4, <3>4 DEF Onward, PlaceAt
    <3>6. Moving(o, at, who, item, "reserved", PlaceAt(next))
      BY <1>2, <1>4, <2>1, <2>4, <3>4 DEF Moving, PlaceAt
    <3>7. QED
      BY <1>5, <2>4, <3>1, <3>3, <3>5, <3>6, MoveTypes DEF Does
  <2>5. QED
    BY <1>5, <2>2, <2>3, <2>4
<1>9. QED
  BY <1>1, <1>4, <1>7, <1>8 DEF Hands

LEMMA MoveHands ==
  ASSUME Typed, NEW t \in TradeID, t = Choreo!Event.trade, Choreo!Move
  PROVE  Hands(t)
<1>1. PICK o \in Offers : o = Proposed[t]
  BY TypedIs
<1>2. PICK pc : pc = handler
  OBVIOUS
<1>3. PICK M : M = Choreo!Moves(o)
  OBVIOUS
<1>4. /\ pc \in DOMAIN M /\ UNCHANGED <<gathers, log, crashes>>
      /\ \/ /\ Choreo!idempotentMove(M[pc].who, t, M[pc].item, M[pc].typ)
            /\ Choreo!Goto(M[pc].next) /\ UNCHANGED faults
         \/ faults' = faults + 1 /\ Choreo!Goto(M[pc].bad) /\ UNCHANGED inv
  BY <1>1, <1>2, <1>3 DEF Choreo!Move
<1>5. pc \in {"settle1", "settle2", "settle3", "settle4", "undoP", "undoBothP", "undoC"}
  BY <1>3, <1>4 DEF Choreo!Moves
<1>6. PICK who, item, typ, next, bad :
        /\ M[pc].who = who /\ M[pc].item = item /\ M[pc].typ = typ
        /\ M[pc].next = next /\ M[pc].bad = bad
  OBVIOUS
<1>7. /\ Transfer(o, pc, who, item, typ, PlaceAt(next))
      /\ {next, bad} \subseteq Choreo!Steps \ {"idle"}
  <2>1. CASE pc = "settle1"
    BY <1>3, <1>6, <2>1 DEF Choreo!Moves, Transfer, PlaceAt, Choreo!Steps
  <2>2. CASE pc = "settle2"
    BY <1>3, <1>6, <2>2 DEF Choreo!Moves, Transfer, PlaceAt, Choreo!Steps
  <2>3. CASE pc = "settle3"
    BY <1>3, <1>6, <2>3 DEF Choreo!Moves, Transfer, PlaceAt, Choreo!Steps
  <2>4. CASE pc = "settle4"
    BY <1>3, <1>6, <2>4 DEF Choreo!Moves, Transfer, PlaceAt, Choreo!Steps
  <2>5. CASE pc = "undoP"
    BY <1>3, <1>6, <2>5 DEF Choreo!Moves, Transfer, PlaceAt, Choreo!Steps
  <2>6. CASE pc = "undoBothP"
    BY <1>3, <1>6, <2>6 DEF Choreo!Moves, Transfer, PlaceAt, Choreo!Steps
  <2>7. CASE pc = "undoC"
    BY <1>3, <1>6, <2>7 DEF Choreo!Moves, Transfer, PlaceAt, Choreo!Steps
  <2>8. QED
    BY <1>5, <2>1, <2>2, <2>3, <2>4, <2>5, <2>6, <2>7
<1>8. handler' \in {next, bad} /\ checkpoint' = checkpoint
  BY <1>4, <1>6, <1>7 DEF Choreo!Goto, Choreo!After
<1>9. ASSUME Choreo!idempotentMove(who, t, item, typ), handler' = next
      PROVE  Does(o, PlaceAt(pc), PlaceAt(handler'), t)
  <2>1. who \in Player /\ item \in Item /\ typ \in MoveType
    BY <1>7, OfferIs, MoveTypes DEF Transfer
  <2>2. MoveOf(t, typ, item) \in InvEvent
    BY <2>1, MoveIs
  <2>3. \/ hasMove(who, t, typ) /\ UNCHANGED inv
        \/ ~hasMove(who, t, typ) /\ Adds(who, MoveOf(t, typ, item))
    BY <1>9, <2>1, <2>2, SameInventory DEF Choreo!idempotentMove, appendMove, Adds, MoveOf
  <2>4. PlaceAt(pc) = pc
    BY <1>5 DEF PlaceAt
  <2>5. Moving(o, PlaceAt(pc), who, item, typ, PlaceAt(handler'))
    BY <1>7, <1>9, <2>4 DEF Moving
  <2>6. typ # "reserved"
    BY <1>7 DEF Transfer
  <2>7. QED
    BY <2>1, <2>3, <2>5, <2>6 DEF Does
<1>10. \/ faults' = faults + 1 /\ UNCHANGED inv
       \/ UNCHANGED faults /\ Does(o, PlaceAt(pc), PlaceAt(handler'), t)
  BY <1>4, <1>6, <1>9 DEF Choreo!Goto
<1>11. QED
  BY <1>1, <1>2, <1>4, <1>5, <1>7, <1>8, <1>10 DEF Hands

\* A reaction ends with an event of its trade.
Ends(t) ==
  /\ handler # "idle" /\ handler' = "idle" /\ checkpoint' = checkpoint + 1
  /\ UNCHANGED <<inv, gathers, crashes>>
  /\ \/ faults' = faults + 1 /\ UNCHANGED log
     \/ /\ UNCHANGED faults
        /\ \E typ \in Choreo!PhaseEvents :
             /\ Choreo!Emit(t, typ)
             /\ Onward(Proposed[t], PlaceAt(handler), PlaceAfter(typ), t)

LEMMA MarkEnds ==
  ASSUME Typed, NEW t \in TradeID, t = Choreo!Event.trade, Choreo!Mark
  PROVE  Ends(t)
<1>1. PICK pc : pc = handler
  OBVIOUS
<1>2. PICK marks : marks = [markP |-> "proposerReserved", markC |-> "counterpartyReserved",
                            markS |-> "settled", cancel |-> "cancelled"]
  OBVIOUS
<1>3. /\ pc \in {"markP", "markC", "markS", "cancel"}
      /\ Choreo!Goto("idle") /\ UNCHANGED <<inv, gathers, crashes>>
      /\ \/ Choreo!Emit(t, marks[pc]) /\ UNCHANGED faults
         \/ faults' = faults + 1 /\ UNCHANGED log
  BY <1>1, <1>2 DEF Choreo!Mark, Choreo!invVars
<1>4. PICK typ : typ = marks[pc]
  OBVIOUS
<1>5. /\ typ \in Choreo!PhaseEvents
      /\ Onward(Proposed[t], PlaceAt(pc), PlaceAfter(typ), t)
  BY <1>2, <1>3, <1>4 DEF Choreo!PhaseEvents, Onward, PlaceAt, PlaceAfter
<1>6. handler' = "idle" /\ checkpoint' = checkpoint + 1
  BY <1>3 DEF Choreo!Goto, Choreo!After
<1>7. QED
  BY <1>1, <1>3, <1>4, <1>5, <1>6 DEF Ends

\* What a reaction starts with.
LEMMA ReactionIs ==
  ASSUME NEW e, NEW next, next = Choreo!Reaction(e)
  PROVE  \/ next = "idle"
         \/ next = "reserveP" /\ Choreo!Phase(e.trade) = "proposed"
         \/ next \in {"reserveC", "undoP"} /\ Choreo!Phase(e.trade) = "proposerReserved"
         \/ next = "settle1" /\ Choreo!Phase(e.trade) = "counterpartyReserved"
<1>1. PICK typ, phase : typ = e.typ /\ phase = Choreo!Phase(e.trade)
  OBVIOUS
<1>2. next = CASE typ = "proposed" /\ phase = "proposed" -> "reserveP"
               [] typ = "accepted" /\ phase = "proposerReserved" -> "reserveC"
               [] typ = "counterpartyReserved" /\ phase = "counterpartyReserved" -> "settle1"
               [] typ \in {"rejected", "expired"} /\ phase = "proposerReserved" -> "undoP"
               [] OTHER -> "idle"
  BY <1>1 DEF Choreo!Reaction
<1>3. QED
  BY <1>1, <1>2

LEMMA ReactTold ==
  ASSUME Typed, \A u \in TradeID : Told(u), Choreo!React
  PROVE  \A u \in TradeID : Told(u)'
<1>1. handler = "idle" /\ checkpoint < Len(log) /\ UNCHANGED <<inv, log>>
  BY DEF Choreo!React, Choreo!invVars
<1>2. PICK e \in Choreo!LogEvent : e = Choreo!Event /\ e.trade \in TradeID
  BY <1>1, EventInLog
<1>3. PICK next : next = Choreo!Reaction(e) /\ handler' = next
  BY <1>2 DEF Choreo!React
<1>4. next # "idle" => Choreo!Event' = Choreo!Event
  <2>1. next # "idle" => checkpoint' = checkpoint
    BY <1>3 DEF Choreo!React, Choreo!After
  <2>2. QED
    BY <1>1, <2>1, HandStays
<1>5. \A u : Kept(u) /\ Choreo!Phase(u)' = Choreo!Phase(u) /\ ~InHand(u)
  BY <1>1, KeptSame, PhaseStays DEF InHand
<1>6. ASSUME NEW u \in TradeID, ~InHand(u)' PROVE Told(u)'
  BY <1>5, <1>6, ToldApart
<1>7. ASSUME NEW u \in TradeID, InHand(u)' PROVE Told(u)'
  <2>1. next # "idle" /\ u = e.trade
    BY <1>2, <1>3, <1>4, <1>7 DEF InHand
  <2>2. PICK phase : phase = Choreo!Phase(u) /\ phase = Choreo!Phase(u)'
    BY <1>5
  <2>3. \/ next = "reserveP" /\ phase = "proposed"
        \/ next \in {"reserveC", "undoP"} /\ phase = "proposerReserved"
        \/ next = "settle1" /\ phase = "counterpartyReserved"
    BY <1>3, <2>1, <2>2, ReactionIs
  <2>4. Place(u) = PlaceAfter(phase) /\ Place(u)' = PlaceAt(next)
    BY <1>3, <1>5, <1>7, <2>2 DEF Place
  <2>5. \/ PlaceAfter(phase) = PlaceAt(next)
        \/ PlaceAfter(phase) = "decide" /\ PlaceAt(next) \in {"readC", "undoP"}
    BY <2>3 DEF PlaceAfter, PlaceAt
  <2>6. phase \notin {"settled", "cancelled"}
    BY <2>3
  <2>7. CASE PlaceAfter(phase) = PlaceAt(next)
    BY <1>5, <2>2, <2>4, <2>6, <2>7, ToldStays
  <2>8. CASE PlaceAfter(phase) = "decide" /\ PlaceAt(next) \in {"readC", "undoP"}
    <3>1. Onward(Proposed[u], Place(u), Place(u)', u)
      BY <2>4, <2>8 DEF Onward
    <3>2. QED
      BY <1>5, <2>2, <2>6, <3>1, ToldOnward
  <2>9. QED
    BY <2>5, <2>7, <2>8
<1>8. QED
  BY <1>6, <1>7

LEMMA HandsTold ==
  ASSUME Typed, \A u \in TradeID : Told(u), NEW t \in TradeID, t = Choreo!Event.trade,
         Hands(t), UNCHANGED faults
  PROVE  \A u \in TradeID : Told(u)'
<1>1. /\ handler # "idle" /\ handler' # "idle" /\ UNCHANGED <<log, checkpoint>>
      /\ Does(Proposed[t], PlaceAt(handler), PlaceAt(handler'), t)
  <2>1. faults' # faults + 1
    BY TypedIs
  <2>2. QED
    BY <2>1 DEF Hands
<1>2. Choreo!Event' = Choreo!Event /\ \A u : Choreo!Phase(u)' = Choreo!Phase(u)
  BY <1>1, HandStays, PhaseStays
<1>3. InHand(t) /\ InHand(t)'
  BY <1>1, <1>2 DEF InHand
<1>4. PICK pc, next : /\ pc = PlaceAt(handler) /\ pc = Place(t)
                      /\ next = PlaceAt(handler') /\ next = Place(t)'
  BY <1>3 DEF Place
<1>5. PICK o \in Offers : o = Proposed[t] /\ o = Proposed[t]'
  BY TypedIs
<1>6. /\ Table(o, pc, t) /\ \A p \in Player : EffectIs(o, p, t)
      /\ Choreo!Phase(t)' \notin {"settled", "cancelled"}
  BY <1>2, <1>3, <1>4, <1>5 DEF Told
<1>7. Told(t)' /\ \A u \in TradeID : u # t => Kept(u)
  <2>1. CASE UNCHANGED inv /\ Onward(o, pc, next, t)
    BY <1>4, <1>5, <1>6, <2>1, KeptSame, ToldOnward
  <2>2. ASSUME NEW who \in Player, NEW item \in Item, NEW typ \in MoveType, NEW at,
               at = pc \/ Onward(o, pc, at, t), Moving(o, at, who, item, typ, next),
               \/ hasMove(who, t, typ) /\ UNCHANGED inv
               \/ ~hasMove(who, t, typ) /\ Adds(who, MoveOf(t, typ, item))
        PROVE  Told(t)' /\ \A u \in TradeID : u # t => Kept(u)
    <3>1. Table(o, at, t)
      BY <1>6, <2>2, OnwardPlaced
    <3>2. /\ Table(o, next, t)' /\ \A p \in Player : EffectIs(o, p, t)'
          /\ \A u \in TradeID : u # t => Kept(u)
      BY <1>6, <2>2, <3>1, TypedIs, MoveMade
    <3>3. Told(t)'
      BY <1>4, <1>5, <1>6, <3>2 DEF Told
    <3>4. QED
      BY <3>2, <3>3
  <2>3. QED
    BY <1>1, <1>4, <1>5, <2>1, <2>2 DEF Does
<1>8. QED
  BY <1>1, <1>2, <1>7, OthersTold

LEMMA EndsTold ==
  ASSUME Typed, \A u \in TradeID : Told(u), NEW t \in TradeID, t = Choreo!Event.trade,
         Ends(t), UNCHANGED faults
  PROVE  \A u \in TradeID : Told(u)'
<1>1. handler # "idle" /\ handler' = "idle" /\ UNCHANGED inv
  BY DEF Ends
<1>2. PICK typ \in Choreo!PhaseEvents :
        Choreo!Emit(t, typ) /\ Onward(Proposed[t], PlaceAt(handler), PlaceAfter(typ), t)
  <2>1. faults' # faults + 1
    BY TypedIs
  <2>2. QED
    BY <2>1 DEF Ends
<1>3. \A u : Choreo!Phase(u)' = IF u = t THEN typ ELSE Choreo!Phase(u)
  BY <1>2, EmitIs
<1>4. InHand(t) /\ ~InHand(t)'
  BY <1>1 DEF InHand
<1>5. Place(t) = PlaceAt(handler) /\ Place(t)' = PlaceAfter(typ)
  BY <1>3, <1>4 DEF Place
<1>6. \A u : Kept(u)
  BY <1>1, KeptSame
<1>7. Told(t)'
  BY <1>2, <1>4, <1>5, <1>6, ToldOnward
<1>8. QED
  BY <1>1, <1>3, <1>6, <1>7, OthersTold

\* The reaction in progress, if any, is left alone.
LEMMA SameHand ==
  ASSUME Typed, UNCHANGED <<handler, checkpoint>>,
         UNCHANGED log \/ \A i \in 1..Len(log) : log'[i] = log[i]
  PROVE  \A u : InHand(u)' <=> InHand(u)
<1>1. handler # "idle" => Choreo!Event' = Choreo!Event
  BY HandStays
<1>2. QED
  BY <1>1 DEF InHand

LEMMA ProposeTold ==
  ASSUME Typed, \A u \in TradeID : Told(u), NEW t \in TradeID, Choreo!Propose(t)
  PROVE  \A u \in TradeID : Told(u)'
<1>1. /\ Choreo!Phase(t) = "none" /\ Choreo!Emit(t, "proposed")
      /\ UNCHANGED <<inv, checkpoint, handler>>
  BY DEF Choreo!Propose, Choreo!invVars
<1>2. "proposed" \in Choreo!PhaseEvents
  BY DEF Choreo!PhaseEvents
<1>3. /\ \A i \in 1..Len(log) : log'[i] = log[i]
      /\ \A u : Choreo!Phase(u)' = IF u = t THEN "proposed" ELSE Choreo!Phase(u)
  BY <1>1, <1>2, EmitIs
<1>4. \A u : Kept(u) /\ (InHand(u)' <=> InHand(u))
  BY <1>1, <1>3, KeptSame, SameHand
<1>5. Told(t)'
  <2>1. Choreo!Phase(t)' \notin {"settled", "cancelled"}
    BY <1>3
  <2>2. CASE InHand(t)
    <3>1. Place(t)' = Place(t)
      BY <1>1, <1>4, <2>2 DEF Place
    <3>2. QED
      BY <1>4, <2>1, <3>1, ToldStays
  <2>3. CASE ~InHand(t)
    <3>1. Place(t) = "propose" /\ Place(t)' = "readP"
      BY <1>1, <1>3, <1>4, <2>3 DEF Place, PlaceAfter
    <3>2. Onward(Proposed[t], Place(t), Place(t)', t)
      BY <3>1 DEF Onward
    <3>3. QED
      BY <1>4, <2>1, <3>2, ToldOnward
  <2>4. QED
    BY <2>2, <2>3
<1>6. ASSUME NEW u \in TradeID, u # t PROVE Told(u)'
  BY <1>1, <1>3, <1>4, <1>6, ToldApart
<1>7. QED
  BY <1>5, <1>6

LEMMA AnswerTold ==
  ASSUME Typed, \A u \in TradeID : Told(u), NEW t \in TradeID, NEW a \in Choreo!Answers,
         Choreo!Answer(t, a)
  PROVE  \A u \in TradeID : Told(u)'
<1>1. Choreo!Emit(t, a) /\ UNCHANGED <<inv, checkpoint, handler>>
  BY DEF Choreo!Answer, Choreo!invVars
<1>2. a \notin Choreo!PhaseEvents
  BY DEF Choreo!Answers, Choreo!PhaseEvents
<1>3. /\ \A i \in 1..Len(log) : log'[i] = log[i]
      /\ \A u : Choreo!Phase(u)' = Choreo!Phase(u)
  BY <1>1, <1>2, EmitIs
<1>4. \A u : Kept(u) /\ (InHand(u)' <=> InHand(u))
  BY <1>1, <1>3, KeptSame, SameHand
<1>5. QED
  BY <1>1, <1>3, <1>4, ToldApart

\* What touches no trade.
LEMMA AsideTold ==
  ASSUME Typed, \A u \in TradeID : Told(u) /\ Kept(u), UNCHANGED <<log, checkpoint, handler>>
  PROVE  \A u \in TradeID : Told(u)'
<1>1. \A u : (InHand(u)' <=> InHand(u)) /\ Choreo!Phase(u)' = Choreo!Phase(u)
  BY SameHand, PhaseStays
<1>2. QED
  BY <1>1, ToldApart

-----------------------------------------------------------------------------

LEMMA InvStreams ==
  ASSUME Streams, UNCHANGED inv \/ \E p, e : Adds(p, e)
  PROVE  Streams'
<1>1. CASE UNCHANGED inv
  BY <1>1 DEF Streams
<1>2. CASE \E p, e : Adds(p, e)
  BY <1>2, AddsTo
<1>3. QED
  BY <1>1, <1>2

\* The type of the streams of the inventories, and of the rest.
LEMMA TypedSplit ==
  /\ Typed <=> /\ Streams /\ gathers \in Nat /\ log \in Seq(Choreo!LogEvent)
               /\ checkpoint \in 0..Len(log) /\ handler \in Choreo!Steps
               /\ faults \in Nat /\ crashes \in Nat
               /\ handler # "idle" => checkpoint < Len(log)
  /\ Typed' <=> /\ Streams' /\ gathers' \in Nat /\ log' \in Seq(Choreo!LogEvent)
                /\ checkpoint' \in 0..Len(log') /\ handler' \in Choreo!Steps
                /\ faults' \in Nat /\ crashes' \in Nat
                /\ handler' # "idle" => checkpoint' < Len(log')
<1>1. Choreo!TypeOK <=> /\ Streams /\ gathers \in Nat /\ log \in Seq(Choreo!LogEvent)
                        /\ checkpoint \in 0..Len(log) /\ handler \in Choreo!Steps
                        /\ faults \in Nat /\ crashes \in Nat
  BY SameInventory DEF Choreo!TypeOK, Streams
<1>2. Choreo!TypeOK' <=> /\ Streams' /\ gathers' \in Nat /\ log' \in Seq(Choreo!LogEvent)
                         /\ checkpoint' \in 0..Len(log') /\ handler' \in Choreo!Steps
                         /\ faults' \in Nat /\ crashes' \in Nat
  BY SameInventory DEF Choreo!TypeOK, Streams
<1>3. QED
  BY <1>1, <1>2 DEF Typed

\* A reaction takes hold of an event that is there, goes on, or ends.
LEMMA TypedStays ==
  ASSUME Typed, UNCHANGED inv \/ \E p, e : Adds(p, e),
         gathers' \in {gathers, gathers + 1}, faults' \in {faults, faults + 1},
         crashes' \in {crashes, crashes + 1}, handler' \in Choreo!Steps,
         \/ UNCHANGED log
         \/ /\ log' \in Seq(Choreo!LogEvent) /\ Len(log') = Len(log) + 1,
         \/ checkpoint' = checkpoint /\ (handler' # "idle" => checkpoint < Len(log))
         \/ handler' = "idle" /\ checkpoint' = 0
         \/ handler' = "idle" /\ checkpoint < Len(log) /\ checkpoint' = checkpoint + 1
  PROVE  Typed'
<1>1. Streams'
  BY TypedIs, InvStreams
<1>2. PICK n, m, c : n = Len(log) /\ m = Len(log') /\ c = checkpoint
  OBVIOUS
<1>3. n \in Nat /\ m \in Nat /\ c \in 0..n /\ m >= n /\ log' \in Seq(Choreo!LogEvent)
  BY <1>2, TypedIs
<1>4. checkpoint' \in 0..m /\ (handler' # "idle" => checkpoint' < m)
  BY <1>2, <1>3
<1>5. gathers' \in Nat /\ faults' \in Nat /\ crashes' \in Nat
  BY TypedIs
<1>6. QED
  BY <1>1, <1>2, <1>3, <1>4, <1>5, TypedSplit

LEMMA StepTyped == Typed /\ [Choreo!Next]_(Choreo!vars) => Typed'
<1>1. SUFFICES ASSUME Typed, [Choreo!Next]_(Choreo!vars) PROVE Typed'
  OBVIOUS
<1>2. handler \in Choreo!Steps /\ "idle" \in Choreo!Steps
  BY <1>1, TypedIs DEF Choreo!Steps
<1>3. handler # "idle" => checkpoint < Len(log)
  BY <1>1 DEF Typed
<1>4. ASSUME NEW t \in TradeID, NEW typ \in Choreo!Answers \cup Choreo!PhaseEvents,
             Choreo!Emit(t, typ), UNCHANGED <<inv, gathers, checkpoint, handler, faults, crashes>>
      PROVE  Typed'
  <2>1. log' \in Seq(Choreo!LogEvent) /\ Len(log') = Len(log) + 1
    BY <1>1, <1>4, EmitIs
  <2>2. QED
    BY <1>1, <1>2, <1>3, <1>4, <2>1, TypedStays
<1>5. ASSUME NEW t \in TradeID, Choreo!Propose(t) PROVE Typed'
  BY <1>4, <1>5 DEF Choreo!Propose, Choreo!invVars, Choreo!PhaseEvents
<1>6. ASSUME NEW t \in TradeID, NEW a \in Choreo!Answers, Choreo!Answer(t, a) PROVE Typed'
  BY <1>4, <1>6 DEF Choreo!Answer, Choreo!invVars
<1>7. ASSUME Choreo!React PROVE Typed'
  <2>1. /\ checkpoint < Len(log) /\ UNCHANGED <<inv, gathers, log, faults, crashes>>
        /\ checkpoint' = IF handler' = "idle" THEN checkpoint + 1 ELSE checkpoint
    BY <1>7 DEF Choreo!React, Choreo!invVars, Choreo!After
  <2>2. handler' \in Choreo!Steps
    <3>1. PICK e, next : e = Choreo!Event /\ next = Choreo!Reaction(e) /\ handler' = next
      BY <1>7 DEF Choreo!React
    <3>2. next \in {"idle", "reserveP", "reserveC", "undoP", "settle1"}
      BY <3>1, ReactionIs
    <3>3. QED
      BY <3>1, <3>2 DEF Choreo!Steps
  <2>3. QED
    BY <1>1, <2>1, <2>2, TypedStays
<1>8. ASSUME NEW t \in TradeID, Hands(t) PROVE Typed'
  <2>1. /\ handler # "idle" /\ handler' \in Choreo!Steps
        /\ UNCHANGED <<gathers, log, checkpoint, crashes>> /\ faults' \in {faults, faults + 1}
        /\ UNCHANGED inv \/ \E p, e : Adds(p, e)
    BY <1>8 DEF Hands, Does
  <2>2. QED
    BY <1>1, <1>3, <2>1, TypedStays
<1>9. ASSUME NEW t \in TradeID, Ends(t) PROVE Typed'
  <2>1. /\ handler # "idle" /\ handler' = "idle" /\ checkpoint' = checkpoint + 1
        /\ UNCHANGED <<inv, gathers, crashes>> /\ faults' \in {faults, faults + 1}
    BY <1>9 DEF Ends
  <2>2. UNCHANGED log \/ \E typ \in Choreo!PhaseEvents : Choreo!Emit(t, typ)
    BY <1>9 DEF Ends
  <2>3. \/ UNCHANGED log
        \/ log' \in Seq(Choreo!LogEvent) /\ Len(log') = Len(log) + 1
    BY <1>1, <2>2, EmitIs
  <2>4. QED
    BY <1>1, <1>2, <1>3, <2>1, <2>3, TypedStays
<1>10. ASSUME handler # "idle" PROVE Choreo!Event.trade \in TradeID
  BY <1>1, <1>3, <1>10, EventInLog
<1>11. ASSUME Choreo!Reserve \/ Choreo!Move \/ Choreo!Mark PROVE Typed'
  <2>1. handler # "idle"
    BY <1>11 DEF Choreo!Reserve, Choreo!Move, Choreo!Mark
  <2>2. PICK t \in TradeID : t = Choreo!Event.trade
    BY <1>10, <2>1
  <2>3. QED
    BY <1>1, <1>8, <1>9, <1>11, <2>2, ReserveHands, MoveHands, MarkEnds
<1>12. ASSUME NEW p \in Player, NEW k \in Kind, Choreo!Gather(p, k),
              UNCHANGED <<log, checkpoint, handler, faults, crashes>>
       PROVE  Typed'
  <2>1. gathers' = gathers + 1 /\ \E e : Adds(p, e)
    BY <1>12, SameInventory, GatherDoes
  <2>2. QED
    BY <1>1, <1>2, <1>3, <1>12, <2>1, TypedStays
<1>13. ASSUME Choreo!Crash PROVE Typed'
  <2>1. /\ crashes' = crashes + 1 /\ checkpoint' = 0 /\ handler' = "idle"
        /\ UNCHANGED <<inv, gathers, log, faults>>
    BY <1>13 DEF Choreo!Crash, Choreo!invVars
  <2>2. QED
    BY <1>1, <1>2, <2>1, TypedStays
<1>14. ASSUME UNCHANGED Choreo!vars PROVE Typed'
  <2>1. UNCHANGED <<inv, gathers, log, checkpoint, handler, faults, crashes>>
    BY <1>14 DEF Choreo!vars, Choreo!invVars
  <2>2. QED
    BY <1>1, <1>2, <1>3, <2>1, TypedStays
<1>15. QED
  BY <1>1, <1>5, <1>6, <1>7, <1>11, <1>12, <1>13, <1>14 DEF Choreo!Next, Choreo!Work

LEMMA ChoreoInit == Choreo!Init => ChoreoInv
<1>1. SUFFICES ASSUME Choreo!Init PROVE ChoreoInv
  OBVIOUS
<1>2. /\ inv = [p \in Player |-> <<>>] /\ gathers = 0 /\ log = <<>> /\ checkpoint = 0
      /\ handler = "idle" /\ faults = 0 /\ crashes = 0
  BY <1>1, SameInventory DEF Choreo!Init, InvInit
<1>3. Typed
  <2>1. Streams
    BY <1>2 DEF Streams
  <2>2. log \in Seq(Choreo!LogEvent) /\ Len(log) = 0
    BY <1>2
  <2>3. handler \in Choreo!Steps
    BY <1>2 DEF Choreo!Steps
  <2>4. QED
    BY <1>2, <2>1, <2>2, <2>3, TypedSplit
<1>4. ASSUME NEW t \in TradeID PROVE Told(t)
  <2>1. PICK o \in Offers : o = Proposed[t]
    BY ProposedAssumption
  <2>2. ASSUME NEW p \in Player
        PROVE  EffectIs(o, p, t) /\ Placed(o, "propose", p, t)
    <3>1. PICK s : s = inv[p] /\ s = <<>>
      BY <1>2
    <3>2. Effect(p, t) = ZeroBalance
      BY <3>1, FoldOfEmpty DEF Effect
    <3>3. Len(s) = 0
      BY <3>1
    <3>4. \A typ \in MoveType : ~hasMove(p, t, typ)
      BY <3>1, <3>3 DEF hasMove
    <3>5. QED
      BY <3>2, <3>4, NothingDone
  <2>3. ~InHand(t)
    BY <1>2 DEF InHand
  <2>4. Place(t) = "propose"
    <3>1. Len(log) = 0
      BY <1>2
    <3>2. PhaseMarks(log, t) = {}
      BY <3>1 DEF PhaseMarks
    <3>3. Choreo!Phase(t) = "none"
      BY <3>2, PhaseIs DEF PhaseIn
    <3>4. QED
      BY <2>3, <3>3 DEF Place, PlaceAfter
  <2>5. Table(o, "propose", t)
    BY <2>2 DEF Table
  <2>6. QED
    BY <2>1, <2>2, <2>3, <2>4, <2>5 DEF Told
<1>5. QED
  BY <1>3, <1>4 DEF ChoreoInv

LEMMA ChoreoStep == ChoreoInv /\ [Choreo!Next]_(Choreo!vars) => ChoreoInv'
<1>1. SUFFICES ASSUME ChoreoInv, [Choreo!Next]_(Choreo!vars), faults' + crashes' = 0
               PROVE  \A u \in TradeID : Told(u)'
  BY StepTyped DEF ChoreoInv
<1>2. /\ Typed /\ faults \in Nat /\ crashes \in Nat /\ faults' \in Nat /\ crashes' \in Nat
  BY <1>1, StepTyped, TypedSplit DEF ChoreoInv
<1>3. faults' = 0 /\ crashes' = 0
  <2>1. PICK f, c \in Nat : f = faults' /\ c = crashes'
    BY <1>2
  <2>2. f + c = 0
    BY <1>1, <2>1
  <2>3. f = 0 /\ c = 0
    <3>1. f >= 0 /\ c >= 0
      OBVIOUS
    <3>2. QED
      BY <2>2, <3>1
  <2>4. QED
    BY <2>1, <2>3
<1>4. UNCHANGED <<faults, crashes>> => Typed /\ \A u \in TradeID : Told(u)
  <2>1. faults = 0 /\ crashes = 0 => faults + crashes = 0
    OBVIOUS
  <2>2. QED
    BY <1>1, <1>2, <1>3, <2>1 DEF ChoreoInv
<1>5. faults' # faults + 1 /\ crashes' # crashes + 1
  BY <1>2, <1>3
<1>6. ASSUME NEW t \in TradeID, Choreo!Propose(t) PROVE \A u \in TradeID : Told(u)'
  <2>1. UNCHANGED <<faults, crashes>>
    BY <1>6 DEF Choreo!Propose
  <2>2. QED
    BY <1>4, <1>6, <2>1, ProposeTold
<1>7. ASSUME NEW t \in TradeID, NEW a \in Choreo!Answers, Choreo!Answer(t, a)
      PROVE  \A u \in TradeID : Told(u)'
  <2>1. UNCHANGED <<faults, crashes>>
    BY <1>7 DEF Choreo!Answer
  <2>2. QED
    BY <1>4, <1>7, <2>1, AnswerTold
<1>8. ASSUME Choreo!React PROVE \A u \in TradeID : Told(u)'
  <2>1. UNCHANGED <<faults, crashes>>
    BY <1>8 DEF Choreo!React
  <2>2. QED
    BY <1>4, <1>8, <2>1, ReactTold
<1>9. ASSUME Choreo!Reserve \/ Choreo!Move \/ Choreo!Mark PROVE \A u \in TradeID : Told(u)'
  <2>1. handler # "idle"
    BY <1>9 DEF Choreo!Reserve, Choreo!Move, Choreo!Mark
  <2>2. PICK t \in TradeID : t = Choreo!Event.trade
    BY <1>2, <2>1, EventInLog DEF Typed
  <2>3. Hands(t) \/ Ends(t)
    BY <1>2, <1>9, <2>2, ReserveHands, MoveHands, MarkEnds
  <2>4. UNCHANGED <<faults, crashes>>
    BY <1>5, <2>3 DEF Hands, Ends
  <2>5. QED
    BY <1>4, <2>2, <2>3, <2>4, HandsTold, EndsTold
<1>10. ASSUME NEW p \in Player, NEW k \in Kind, Choreo!Gather(p, k),
              UNCHANGED <<log, checkpoint, handler, faults, crashes>>
       PROVE  \A u \in TradeID : Told(u)'
  <2>1. PICK e : Adds(p, e) /\ e.typ = "gathered" /\ \A u : ~Concerns(e, u)
    BY <1>10, SameInventory, GatherDoes
  <2>2. "gathered" \notin MoveType
    BY DEF MoveType
  <2>3. \A u : Kept(u)
    BY <1>2, <2>1, <2>2, TypedIs, KeptAside
  <2>4. QED
    BY <1>4, <1>10, <2>3, AsideTold
<1>11. ~Choreo!Crash
  BY <1>5 DEF Choreo!Crash
<1>12. ASSUME UNCHANGED Choreo!vars PROVE \A u \in TradeID : Told(u)'
  <2>1. UNCHANGED <<inv, log, checkpoint, handler, faults, crashes>>
    BY <1>12 DEF Choreo!vars, Choreo!invVars
  <2>2. \A u : Kept(u)
    BY <2>1, KeptSame
  <2>3. QED
    BY <1>4, <2>1, <2>2, AsideTold
<1>13. QED
  BY <1>1, <1>6, <1>7, <1>8, <1>9, <1>10, <1>11, <1>12 DEF Choreo!Next, Choreo!Work

\* No player's balance is below nothing.
AllSolvent == \A p \in Player : Solvent(p)

\* Nobody is overdrawn by a reaction either, whatever fails.
LEMMA ChoreoPays == Typed /\ AllSolvent /\ [Choreo!Next]_(Choreo!vars) => AllSolvent'
<1>1. SUFFICES ASSUME Typed, \A p \in Player : Solvent(p), [Choreo!Next]_(Choreo!vars),
                      inv' # inv
               PROVE  \A p \in Player : Solvent(p)'
  BY SolventSame DEF AllSolvent
<1>2. Streams
  BY <1>1, TypedIs
<1>3. ASSUME Choreo!Reserve \/ Choreo!Move PROVE \A p \in Player : Solvent(p)'
  <2>1. handler # "idle"
    BY <1>3 DEF Choreo!Reserve, Choreo!Move
  <2>2. PICK t \in TradeID : t = Choreo!Event.trade
    BY <1>1, <2>1, EventInLog DEF Typed
  <2>3. Hands(t)
    BY <1>1, <1>3, <2>2, ReserveHands, MoveHands
  <2>4. PICK who \in Player, item \in Item, typ \in MoveType :
          /\ Adds(who, MoveOf(t, typ, item))
          /\ typ = "reserved" => ~(BalanceOf(who).available[item.kind] < item.amount)
    BY <1>1, <2>3 DEF Hands, Does
  <2>5. CASE typ = "reserved"
    BY <1>1, <1>2, <2>4, <2>5, SolventPays
  <2>6. CASE typ # "reserved"
    <3>1. PICK e : e = MoveOf(t, typ, item)
      OBVIOUS
    <3>2. Adds(who, e) /\ e.typ # "reserved"
      BY <2>4, <2>6, <3>1, MoveIs
    <3>3. QED
      BY <1>1, <1>2, <3>2, SolventGrows
  <2>7. QED
    BY <2>5, <2>6
<1>4. ASSUME NEW p \in Player, NEW k \in Kind, Choreo!Gather(p, k)
      PROVE  \A q \in Player : Solvent(q)'
  <2>1. PICK e : Adds(p, e) /\ e.typ = "gathered"
    BY <1>4, SameInventory, GatherDoes
  <2>2. QED
    BY <1>1, <1>2, <2>1, SolventGrows
<1>5. ~Choreo!React /\ ~Choreo!Mark /\ ~Choreo!Crash /\ ~UNCHANGED Choreo!vars
  BY <1>1 DEF Choreo!React, Choreo!Mark, Choreo!Crash, Choreo!vars, Choreo!invVars
<1>6. \A t \in TradeID : ~Choreo!Propose(t) /\ \A a \in Choreo!Answers : ~Choreo!Answer(t, a)
  BY <1>1 DEF Choreo!Propose, Choreo!Answer, Choreo!invVars
<1>7. QED
  BY <1>1, <1>3, <1>4, <1>5, <1>6 DEF Choreo!Next, Choreo!Work

LEMMA Choreographed == Choreo!Spec => []ChoreoInv
  BY ChoreoInit, ChoreoStep, PTL DEF Choreo!Spec

\* The streams, the log of the trades, the checkpoint and the step of the reaction keep
\* their types (choreographer.go).
THEOREM ChoreographyTypeCorrect == Choreo!Spec => []Choreo!TypeOK
<1>1. ChoreoInv => Choreo!TypeOK
  BY DEF ChoreoInv, Typed
<1>2. QED
  BY <1>1, Choreographed, PTL

\* No player ever has less than nothing in the choreographed saga either: one look at the
\* stream and one Append at a time, replayed after a crash or broken off by an error.
THEOREM ChoreographyNobodyOverdrawn == Choreo!Spec => []NoOverdraft
<1>1. Choreo!Init => AllSolvent
  BY SameInventory, SolventInit DEF Choreo!Init, AllSolvent
<1>2. ChoreoInv => Typed
  BY DEF ChoreoInv
<1>3. AllSolvent => NoOverdraft
  BY DEF AllSolvent, Solvent, NoOverdraft
<1>4. QED
  BY <1>1, <1>2, <1>3, Choreographed, ChoreoPays, PTL DEF Choreo!Spec

\* "Either the trade happens completely or not at all" (docs/2pc-vs-saga.md), for the
\* choreographed saga: as long as no call of the store fails and the process does not die, a
\* trade whose stream ends with "settled" is the swap in the inventories, and one that ends
\* with "cancelled" has left nothing there.
THEOREM ChoreographyHappensOrNot == Choreo!Spec => []ChoreographyAllOrNothing
<1>1. ASSUME ChoreoInv, faults + crashes = 0, NEW t \in TradeID
      PROVE  /\ Choreo!Phase(t) = "settled" => Choreo!Swapped(Proposed[t], t)
             /\ Choreo!Phase(t) = "cancelled" => Choreo!Untouched(t)
  <2>1. PICK o \in Offers : o = Proposed[t]
    BY <1>1, TypedIs DEF ChoreoInv
  <2>2. PICK phase : phase = Choreo!Phase(t)
    OBVIOUS
  <2>3. Told(t)
    BY <1>1 DEF ChoreoInv
  <2>4. phase \in {"settled", "cancelled"} =>
          Table(o, phase, t) /\ \A p \in Player : EffectIs(o, p, t)
    BY <2>1, <2>2, <2>3 DEF Told, Place, PlaceAfter
  <2>5. phase = "settled" => Swapped(o, t)
    <3>1. o.proposer \in Player /\ o.counterparty \in Player
      BY OfferIs
    <3>2. phase = "settled" =>
            \A p \in Player : p \in {o.proposer, o.counterparty} => Effect(p, t) = Swap(o, p)
      BY <2>4, SettledIs
    <3>3. QED
      BY <3>1, <3>2 DEF Swapped
  <2>6. phase = "cancelled" => Untouched(t)
    BY <2>4, CancelledIs DEF Untouched
  <2>7. QED
    BY <2>1, <2>2, <2>5, <2>6, SameVerdicts
<1>2. ChoreoInv => ChoreographyAllOrNothing
  BY <1>1 DEF ChoreographyAllOrNothing, Choreo!AllOrNothing, Choreo!VerdictKept
<1>3. QED
  BY <1>2, Choreographed, PTL
=============================================================================
