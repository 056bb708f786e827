----------------------------- MODULE MatchProofs -----------------------------
(***************************************************************************)
(* Proofs about matchmaking (Matchmaking.tla), for any players, modes,     *)
(* sizes of a match and numbers of failures: nobody is in two matches who  *)
(* queued once, no arena is left running, and nobody is left in one that   *)
(* is gone.                                                                *)
(***************************************************************************)
EXTENDS Matchmaking, TLAPS, FiniteSetTheorems, SequenceTheorems, WellFoundedInduction

-----------------------------------------------------------------------------
(* Sequences of players. *)

\* A player has one place in a sequence at most.
OnceIn(q, p) == \A i, j \in 1..Len(q) : q[i] = p /\ q[j] = p => i = j

LEMMA LessThan ==
  \E R : (\A a, b \in Nat : a < b => <<a, b>> \in R) /\ IsWellFoundedOn(R, Nat)
<1> DEFINE R == OpToRel(<, Nat)
<1>1. IsWellFoundedOn(R, Nat)
  BY NatLessThanWellFounded
<1>2. \A a, b \in Nat : a < b => <<a, b>> \in R
  BY DEF OpToRel
<1> HIDE DEF R
<1>3. QED
  BY <1>1, <1>2

LEMMA MinIn ==
  ASSUME NEW T, T \subseteq Nat, T # {}
  PROVE  Min(T) \in T
<1>1. PICK R : (\A a, b \in Nat : a < b => <<a, b>> \in R) /\ IsWellFoundedOn(R, Nat)
  BY LessThan
<1>2. IsWellFoundedOn(R, Nat)
  BY <1>1
<1>3. PICK x \in T : \A y \in T : ~(<<y, x>> \in R)
  BY <1>2, WFMin
<1>4. ASSUME NEW y \in T PROVE x <= y
  <2>1. x \in Nat /\ y \in Nat
    OBVIOUS
  <2>2. ~(<<y, x>> \in R)
    BY <1>3
  <2>3. ~(y < x)
    BY <1>1, <2>1, <2>2
  <2>4. QED
    BY <2>1, <2>3
<1>5. \E z \in T : \A y \in T : z <= y
  BY <1>4
<1>6. QED
  BY <1>5 DEF Min

\* A queue without one of its players: the others are in it as before.
LEMMA WithoutIs ==
  ASSUME NEW q \in Seq(Player), NEW p \in Player
  PROVE  /\ Without(q, p) \in Seq(Player)
         /\ \A r \in Player : Contains(Without(q, p), r) => Contains(q, r)
         /\ \A r \in Player : OnceIn(q, r) => OnceIn(Without(q, p), r)
<1>1. CASE ~Contains(q, p)
  BY <1>1 DEF Without
<1>2. CASE Contains(q, p)
  <2> DEFINE T == {i \in 1..Len(q) : q[i] = p}
  <2>1. T # {} /\ T \subseteq Nat
    BY <1>2 DEF Contains
  <2>2. SelectInSeq(q, LAMBDA v : v = p) = Min(T)
    BY <2>1 DEF SelectInSeq
  <2>3. Min(T) \in T
    <3> HIDE DEF T
    <3>1. QED
      BY <2>1, MinIn
  <2>4. PICK k \in 1..Len(q) : k = Min(T)
    BY <2>3
  <2>5. Without(q, p) = SubSeq(q, 1, k - 1) \o SubSeq(q, k + 1, Len(q))
    BY <1>2, <2>2, <2>4 DEF Without, RemoveFirst, RemoveAt, Contains
  <2>6. PICK a : a = SubSeq(q, 1, k - 1)
    OBVIOUS
  <2>7. PICK b : b = SubSeq(q, k + 1, Len(q))
    OBVIOUS
  <2>8. a \in Seq(Player) /\ Len(a) = k - 1 /\ \A i \in 1..(k - 1) : a[i] = q[i]
    BY <2>6
  <2>9. b \in Seq(Player) /\ Len(b) = Len(q) - k /\ \A i \in 1..(Len(q) - k) : b[i] = q[i + k]
    BY <2>7
  <2>10. PICK w : w = a \o b
    OBVIOUS
  <2>11. /\ w \in Seq(Player) /\ Len(w) = Len(q) - 1
         /\ \A i \in 1..(k - 1) : w[i] = q[i]
         /\ \A i \in k..(Len(q) - 1) : w[i] = q[i + 1]
    <3>0. a \in Seq(Player) /\ b \in Seq(Player)
      BY <2>8, <2>9
    <3>1. w \in Seq(Player) /\ Len(w) = Len(a) + Len(b)
      BY <3>0, <2>10
    <3>2. \A i \in 1..Len(a) : w[i] = a[i]
      BY <3>0, <2>10
    <3>3. \A i \in 1..Len(b) : w[Len(a) + i] = b[i]
      BY <3>0, <2>10
    <3>4. ASSUME NEW i \in k..(Len(q) - 1) PROVE w[i] = q[i + 1]
      <4>1. i - (k - 1) \in 1..Len(b) /\ Len(a) + (i - (k - 1)) = i
        BY <2>8, <2>9
      <4>2. w[i] = b[i - (k - 1)]
        BY <3>3, <4>1
      <4>3. i - (k - 1) \in 1..(Len(q) - k) /\ (i - (k - 1)) + k = i + 1
        BY <4>1, <2>9
      <4>4. QED
        BY <2>9, <4>2, <4>3
    <3>5. QED
      BY <2>8, <2>9, <3>1, <3>2, <3>4
  <2>12. \A i \in 1..Len(w) :
           \E n \in 1..Len(q) : w[i] = q[n] /\ n = IF i < k THEN i ELSE i + 1
    BY <2>11
  <2>13. ASSUME NEW r \in Player, Contains(w, r) PROVE Contains(q, r)
    BY <2>12, <2>13 DEF Contains
  <2>14. ASSUME NEW r \in Player, OnceIn(q, r) PROVE OnceIn(w, r)
    <3>1. ASSUME NEW i \in 1..Len(w), NEW j \in 1..Len(w), w[i] = r, w[j] = r
          PROVE  i = j
      <4>1. PICK n \in 1..Len(q) : w[i] = q[n] /\ n = IF i < k THEN i ELSE i + 1
        BY <2>12
      <4>2. PICK m \in 1..Len(q) : w[j] = q[m] /\ m = IF j < k THEN j ELSE j + 1
        BY <2>12
      <4>3. n = m
        BY <2>14, <3>1, <4>1, <4>2 DEF OnceIn
      <4>4. i \in Int /\ j \in Int
        OBVIOUS
      <4>5. QED
        BY <4>1, <4>2, <4>3, <4>4
    <3>2. QED
      BY <3>1 DEF OnceIn
  <2>15. QED
    BY <2>5, <2>6, <2>7, <2>10, <2>11, <2>13, <2>14
<1>3. QED
  BY <1>1, <1>2


\* Two sequences joined.
LEMMA JoinedIs ==
  ASSUME NEW a \in Seq(Player), NEW b \in Seq(Player), NEW r \in Player
  PROVE  /\ Contains(a \o b, r) <=> Contains(a, r) \/ Contains(b, r)
         /\ OnceIn(a \o b, r)
              <=> OnceIn(a, r) /\ OnceIn(b, r) /\ ~(Contains(a, r) /\ Contains(b, r))
<1>1. PICK c : c = a \o b
  OBVIOUS
<1>2. PICK n \in Nat : n = Len(a)
  OBVIOUS
<1>3. PICK l \in Nat : l = Len(b)
  OBVIOUS
<1>4. Len(c) = n + l
  BY <1>1, <1>2, <1>3
<1>5. \A i \in 1..n : c[i] = a[i]
  BY <1>1, <1>2
<1>6. \A i \in 1..l : c[n + i] = b[i]
  BY <1>1, <1>2, <1>3
<1>7. \A i \in 1..(n + l) : i \in 1..n \/ (i - n \in 1..l /\ c[i] = b[i - n])
  <2>1. ASSUME NEW i \in 1..(n + l), i \notin 1..n
        PROVE  i - n \in 1..l /\ c[i] = b[i - n]
    <3>1. i - n \in 1..l /\ n + (i - n) = i
      BY <2>1
    <3>2. QED
      BY <1>6, <3>1
  <2>2. QED
    BY <2>1
<1>8. \A i \in 1..n : i \in 1..(n + l)
  OBVIOUS
<1>9. \A i \in 1..l : n + i \in 1..(n + l)
  OBVIOUS
<1>10. Contains(a, r) <=> \E i \in 1..n : a[i] = r
  BY <1>2 DEF Contains
<1>11. Contains(b, r) <=> \E i \in 1..l : b[i] = r
  BY <1>3 DEF Contains
<1>12. Contains(c, r) <=> \E i \in 1..(n + l) : c[i] = r
  BY <1>4 DEF Contains
<1>13. Contains(c, r) <=> Contains(a, r) \/ Contains(b, r)
  BY <1>5, <1>6, <1>7, <1>8, <1>9, <1>10, <1>11, <1>12
<1>14. ASSUME OnceIn(a, r), OnceIn(b, r), ~(Contains(a, r) /\ Contains(b, r))
       PROVE  OnceIn(c, r)
  <2>1. ASSUME NEW i \in 1..(n + l), NEW j \in 1..(n + l), c[i] = r, c[j] = r
        PROVE  i = j
    <3>1. CASE i \in 1..n /\ j \in 1..n
      BY <1>2, <1>5, <1>14, <2>1, <3>1 DEF OnceIn
    <3>2. CASE i \notin 1..n /\ j \notin 1..n
      <4>1. i - n \in 1..l /\ j - n \in 1..l /\ b[i - n] = r /\ b[j - n] = r
        BY <1>7, <2>1, <3>2
      <4>2. i - n = j - n
        BY <1>3, <1>14, <4>1 DEF OnceIn
      <4>3. QED
        BY <4>2
    <3>3. CASE (i \in 1..n /\ j \notin 1..n) \/ (i \notin 1..n /\ j \in 1..n)
      <4>1. Contains(a, r)
        BY <1>5, <1>10, <2>1, <3>3
      <4>2. Contains(b, r)
        BY <1>7, <1>11, <2>1, <3>3
      <4>3. QED
        BY <1>14, <4>1, <4>2
    <3>4. QED
      BY <3>1, <3>2, <3>3
  <2>2. QED
    BY <1>4, <2>1 DEF OnceIn
<1>15. ASSUME OnceIn(c, r)
       PROVE  OnceIn(a, r) /\ OnceIn(b, r) /\ ~(Contains(a, r) /\ Contains(b, r))
  <2>1. \A i, j \in 1..(n + l) : c[i] = r /\ c[j] = r => i = j
    BY <1>4, <1>15 DEF OnceIn
  <2>2. ASSUME NEW i \in 1..n, NEW j \in 1..n, a[i] = r, a[j] = r PROVE i = j
    BY <1>5, <1>8, <2>1, <2>2
  <2>3. ASSUME NEW i \in 1..l, NEW j \in 1..l, b[i] = r, b[j] = r PROVE i = j
    <3>1. n + i = n + j
      BY <1>6, <1>9, <2>1, <2>3
    <3>2. QED
      BY <3>1
  <2>4. ASSUME NEW i \in 1..n, NEW j \in 1..l, a[i] = r, b[j] = r PROVE FALSE
    <3>1. i = n + j
      BY <1>5, <1>6, <1>8, <1>9, <2>1, <2>4
    <3>2. QED
      BY <3>1
  <2>5. QED
    BY <1>2, <1>3, <1>10, <1>11, <2>2, <2>3, <2>4 DEF OnceIn
<1>16. QED
  BY <1>1, <1>13, <1>14, <1>15

LEMMA AppendedIs ==
  ASSUME NEW q \in Seq(Player), NEW p \in Player, NEW r \in Player
  PROVE  /\ Append(q, p) \in Seq(Player) /\ Len(Append(q, p)) = Len(q) + 1
         /\ Contains(Append(q, p), r) <=> Contains(q, r) \/ r = p
         /\ OnceIn(Append(q, p), r) <=> OnceIn(q, r) /\ ~(Contains(q, r) /\ r = p)
<1>1. PICK b : b = <<p>>
  OBVIOUS
<1>2. b \in Seq(Player) /\ Len(b) = 1 /\ b[1] = p /\ Append(q, p) = q \o b
  BY <1>1
<1>3. Contains(b, r) <=> r = p
  BY <1>2 DEF Contains
<1>4. OnceIn(b, r)
  BY <1>2 DEF OnceIn
<1>5. QED
  BY <1>2, <1>3, <1>4, JoinedIs

\* The players picked and those left in the queue.
LEMMA SplitIs ==
  ASSUME NEW q \in Seq(Player), Need <= Len(q), NEW r \in Player
  PROVE  /\ First(q) \in Seq(Player) /\ Len(First(q)) = Need /\ Taken(q) \in Seq(Player)
         /\ Contains(q, r) <=> Contains(First(q), r) \/ Contains(Taken(q), r)
         /\ OnceIn(q, r)
              <=> /\ OnceIn(First(q), r) /\ OnceIn(Taken(q), r)
                  /\ ~(Contains(First(q), r) /\ Contains(Taken(q), r))
<1>1. PICK n \in Nat : n = Need /\ n > 0
  BY MatchmakingAssumption
<1>2. PICK l \in Nat : l = Len(q) /\ n <= l
  BY <1>1
<1>3. PICK a : a = SubSeq(q, 1, n)
  OBVIOUS
<1>4. PICK b : b = SubSeq(q, n + 1, l)
  OBVIOUS
<1>5. a \in Seq(Player) /\ Len(a) = n /\ \A i \in 1..n : a[i] = q[i]
  BY <1>2, <1>3
<1>6. b \in Seq(Player) /\ Len(b) = l - n /\ \A i \in 1..(l - n) : b[i] = q[i + n]
  BY <1>2, <1>4
<1>7. q = a \o b
  <2>1. PICK c : c = a \o b
    OBVIOUS
  <2>2. a \in Seq(Player) /\ b \in Seq(Player)
    BY <1>5, <1>6
  <2>3. c \in Seq(Player) /\ Len(c) = Len(a) + Len(b)
    BY <2>1, <2>2
  <2>4. Len(c) = l
    BY <1>2, <1>5, <1>6, <2>3
  <2>5. \A i \in 1..Len(a) : c[i] = a[i]
    BY <2>1, <2>2
  <2>6. \A i \in 1..Len(b) : c[Len(a) + i] = b[i]
    BY <2>1, <2>2
  <2>7. ASSUME NEW i \in 1..l PROVE c[i] = q[i]
    <3>1. CASE i \in 1..n
      BY <1>5, <2>5, <3>1
    <3>2. CASE i \notin 1..n
      <4>1. i - n \in 1..(l - n) /\ n + (i - n) = i /\ (i - n) + n = i
        BY <1>2, <3>2
      <4>2. QED
        BY <1>5, <1>6, <2>6, <4>1
    <3>3. QED
      BY <3>1, <3>2
  <2>8. c = q
    BY <1>2, <2>3, <2>4, <2>7
  <2>9. QED
    BY <2>1, <2>8
<1>8. First(q) = a /\ Taken(q) = b
  BY <1>1, <1>2, <1>3, <1>4 DEF First, Taken
<1>9. a \in Seq(Player) /\ b \in Seq(Player)
  BY <1>5, <1>6
<1>10. /\ Contains(q, r) <=> Contains(a, r) \/ Contains(b, r)
       /\ OnceIn(q, r)
              <=> OnceIn(a, r) /\ OnceIn(b, r) /\ ~(Contains(a, r) /\ Contains(b, r))
  BY <1>7, <1>9, JoinedIs
<1>11. QED
  BY <1>1, <1>5, <1>8, <1>9, <1>10


-----------------------------------------------------------------------------
(* The invariant. *)

\* How often a player has called, and how much has gone wrong.
Counters ==
  /\ enqueues \in [Player -> 0..2] /\ connects \in [Player -> 0..2]
  /\ faults \in Nat /\ misses \in Nat /\ early \in Nat

\* The matches formed are numbered from one.
Formed == \E k \in 0..MaxMatches : {m \in Match : saga[m].pc # "none"} = 1..k

\* How far a saga and the end of its match have got.
Flow ==
  \A m \in Match :
    /\ saga[m].undone <= saga[m].n
    /\ saga[m].pc \in {"none", "provision"} => saga[m].n = 0 /\ ending[m].pc = "none"
    /\ saga[m].pc = "assign" => saga[m].n < Need /\ saga[m].undone = 0
    /\ saga[m].pc = "done" => saga[m].n = Need
    /\ ending[m].pc = "none" => ending[m].n = 0
    /\ ending[m].pc = "release" => ending[m].n < Need

\* The players of a match are taken, from the moment it is formed, unless it is
\* cancelled.
Held == {m \in Match : saga[m].pc \notin {"none", "cancelled"}}

\* A player is in one place at most: one place in one queue, or one place in one match.
OneOf(q, pk, H, r) ==
  /\ \A mode \in Mode : OnceIn(q[mode], r)
  /\ \A m \in H : OnceIn(pk[m].players, r)
  /\ \A a, b \in Mode : Contains(q[a], r) /\ Contains(q[b], r) => a = b
  /\ \A m, n \in H : Contains(pk[m].players, r) /\ Contains(pk[n].players, r) => m = n
  /\ \A mode \in Mode, m \in H : ~(Contains(q[mode], r) /\ Contains(pk[m].players, r))

NoneOf(q, pk, H, r) ==
  /\ \A mode \in Mode : ~Contains(q[mode], r)
  /\ \A m \in H : ~Contains(pk[m].players, r)

\* Who has queued once is in one place, and who has not queued is in none.
Singles ==
  \A p \in Player :
    /\ enqueues[p] # 2 => OneOf(queues, picked, Held, p)
    /\ enqueues[p] = 0 => NoneOf(queues, picked, Held, p)

\* With no match over before its saga, an arena runs from the first assignment to the
\* end of the match.
Running ==
  early = 0 =>
    \A m \in Match :
      /\ ending[m].pc # "none" => saga[m].pc = "done"
      /\ saga[m].pc = "assign" \/ (saga[m].pc = "done" /\ ending[m].pc = "none") => m \in arenas

\* A player has been assigned to a match, and its saga or its end has not come to him
\* yet.
Seat(p, m) ==
  \/ /\ saga[m].pc = "assign" \/ (saga[m].pc = "done" /\ ending[m].pc = "none")
     /\ \E i \in 1..saga[m].n : p = Nth(m, i)
  \/ /\ saga[m].pc = "undo"
     /\ \E i \in (saga[m].undone + 1)..saga[m].n : p = Nth(m, i)
  \/ /\ saga[m].pc = "done" /\ ending[m].pc = "release"
     /\ \E i \in (ending[m].n + 1)..Need : p = Nth(m, i)

\* Where p is, or an order will take him.
Goes(pl, q, k) == pl = k \/ \E i \in 1..Len(q) : q[i] = k

\* The saga s of a match of the players pl counts p as assigned.
Counts(s, pl, p) == \E i \in 1..s.n : p = pl[i]

Seated ==
  misses + early = 0 =>
    \A p \in Player, m \in Match :
      Goes(place[p], orders[p], m) /\ Counts(saga[m], picked[m].players, p) => Seat(p, m)

MatchInv ==
  /\ TypeOK /\ Counters
  /\ Formed /\ Flow /\ Singles /\ NoArenaLeak /\ Running /\ Seated


-----------------------------------------------------------------------------
(* Types. *)

SagaRecord == [pc : {"none", "provision", "assign", "undo", "destroy", "cancel",
                     "done", "cancelled"}, n : 0..Need, undone : 0..Need]
EndingRecord == [pc : {"none", "release", "destroy", "done"}, n : 0..Need]

LEMMA Bounds == Need \in Nat /\ Need > 0 /\ MaxMatches \in Nat
  BY MatchmakingAssumption

LEMMA InitTypes == Init => TypeOK /\ Counters
<1> SUFFICES ASSUME Init PROVE TypeOK /\ Counters
  OBVIOUS
<1>1. \A m \in Match : picked[m] \in [mode : Mode, players : Seq(Player)]
  <2>1. (CHOOSE mode \in Mode : TRUE) \in Mode
    BY MatchmakingAssumption
  <2>2. QED
    BY <2>1 DEF Init
<1>2. picked \in [Match -> [mode : Mode, players : Seq(Player)]]
  BY <1>1 DEF Init
<1>3. saga \in [Match -> SagaRecord] /\ \A m \in Match : saga[m].pc = "none"
  BY Bounds DEF Init, SagaRecord
<1>4. ending \in [Match -> EndingRecord]
  BY Bounds DEF Init, EndingRecord
<1>5. queues \in [Mode -> Seq(Player)] /\ inQueue \in [Player -> Mode \cup {NoMode}]
  BY DEF Init
<1>6. conn \in [Player -> {"off", "on", "stopped"}] /\ place \in [Player -> {Hub} \cup Match]
  BY DEF Init
<1>6a. orders \in [Player -> Seq({Hub} \cup Match)]
  BY DEF Init
<1>7. TypeOK
  BY <1>2, <1>3, <1>4, <1>5, <1>6, <1>6a DEF TypeOK, SagaRecord, EndingRecord, Init
<1>8. Counters
  BY DEF Init, Counters
<1>9. QED
  BY <1>7, <1>8

\* The number of the next match is one that was not used.
LEMMA NextIs ==
  ASSUME TypeOK, Formed, NextMatch \in Match
  PROVE  /\ saga[NextMatch].pc = "none"
         /\ {m \in Match : saga[m].pc # "none"} \cup {NextMatch} = 1..NextMatch
         /\ NextMatch \in 0..MaxMatches
<1>1. PICK k \in 0..MaxMatches : {m \in Match : saga[m].pc # "none"} = 1..k
  BY DEF Formed
<1>2. k \in Nat /\ MaxMatches \in Nat
  BY <1>1, Bounds
<1>3. Cardinality(1..k) = k
  BY <1>2, FS_Interval
<1>4. NextMatch = k + 1
  BY <1>1, <1>3 DEF NextMatch
<1>5. k + 1 \notin 1..k /\ k + 1 \in Match
  BY <1>2, <1>4
<1>6. saga[k + 1].pc = "none"
  BY <1>1, <1>5
<1>7. 1..k \cup {k + 1} = 1..(k + 1)
  BY <1>2
<1>8. k + 1 \in 0..MaxMatches
  BY <1>2, <1>5 DEF Match
<1>9. QED
  BY <1>1, <1>4, <1>6, <1>7, <1>8

\* The i-th player of a match that was formed.
LEMMA NthIs ==
  ASSUME TypeOK, NEW m \in Match, saga[m].pc # "none", NEW i \in 1..Need
  PROVE  Nth(m, i) \in Player /\ Nth(m, i) \in InMatch(m) /\ Contains(picked[m].players, Nth(m, i))
<1>1. picked[m].players \in Seq(Player) /\ Len(picked[m].players) = Need
  BY DEF TypeOK
<1>2. QED
  BY <1>1 DEF Nth, InMatch, Contains

\* What becomes of the queues when a player is put into one.
Waits(p, mode) ==
  /\ Len(Append(queues[mode], p)) < Need
  /\ queues' = [queues EXCEPT ![mode] = Append(queues[mode], p)]
  /\ inQueue' = [inQueue EXCEPT ![p] = mode]
  /\ UNCHANGED <<picked, saga>>

Forms(p, mode, m) ==
  LET q == Append(queues[mode], p)
  IN  /\ Need <= Len(q)
      /\ queues' = [queues EXCEPT ![mode] = Taken(q)]
      /\ inQueue' = [r \in Player |->
                       IF Contains(First(q), r) THEN NoMode
                       ELSE IF r = p THEN mode ELSE inQueue[r]]
      /\ picked' = [picked EXCEPT ![m] = [mode |-> mode, players |-> First(q)]]
      /\ saga' = [saga EXCEPT ![m].pc = "provision"]

LEMMA EnqueueIs ==
  ASSUME TypeOK, Counters, Formed, NEW p \in Player, NEW mode \in Mode, Enqueue(p, mode)
  PROVE  /\ enqueues[p] \in {0, 1} /\ enqueues' = [enqueues EXCEPT ![p] = enqueues[p] + 1]
         /\ UNCHANGED <<conn, orders, place, ending, arenas, connects, faults, misses, early>>
         /\ \/ UNCHANGED <<queues, inQueue, picked, saga>>
            \/ ~Queued(p) /\ Waits(p, mode)
            \/ ~Queued(p) /\ \E m \in Match : m = NextMatch /\ Forms(p, mode, m)
<1>1. enqueues[p] \in {0, 1}
  BY DEF Enqueue, Allowed
<1>2. enqueues' = [enqueues EXCEPT ![p] = enqueues[p] + 1]
  BY DEF Enqueue
<1>3. UNCHANGED <<conn, orders, place, ending, arenas, connects, faults, misses, early>>
  BY DEF Enqueue
<1>4. PICK q : q = Append(queues[mode], p)
  OBVIOUS
<1>5. Len(q) \in Nat
  BY <1>4, AppendedIs DEF TypeOK
<1>6. CASE Queued(p) /\ UNCHANGED <<queues, inQueue, picked, saga>>
  BY <1>1, <1>2, <1>3, <1>6
<1>7. CASE ~Queued(p) /\ Len(q) < Need
  <2>1. Waits(p, mode)
    BY <1>4, <1>7 DEF Enqueue, Waits
  <2>2. QED
    BY <1>1, <1>2, <1>3, <1>7, <2>1
<1>8. CASE ~Queued(p) /\ ~(Len(q) < Need)
  <2>1. Need <= Len(q)
    BY <1>5, <1>8, Bounds
  <2>2. NextMatch \in Match /\ Forms(p, mode, NextMatch)
    BY <1>4, <1>8, <2>1 DEF Enqueue, Forms
  <2>3. QED
    BY <1>1, <1>2, <1>3, <1>8, <2>2
<1>9. QED
  BY <1>6, <1>7, <1>8 DEF Enqueue

\* Once per player.
LEMMA EnqueueType ==
  ASSUME TypeOK, Counters, Formed, NEW p \in Player, NEW mode \in Mode, Enqueue(p, mode)
  PROVE  TypeOK' /\ Counters'
<1>1. /\ enqueues[p] \in {0, 1} /\ enqueues' = [enqueues EXCEPT ![p] = enqueues[p] + 1]
      /\ UNCHANGED <<conn, orders, place, ending, arenas, connects, faults, misses, early>>
  BY EnqueueIs
<1>2. Counters'
  BY <1>1 DEF Counters
<1>3. CASE UNCHANGED <<queues, inQueue, picked, saga>>
  BY <1>1, <1>2, <1>3 DEF TypeOK
<1>4. queues[mode] \in Seq(Player)
  BY DEF TypeOK
<1>5. CASE Waits(p, mode)
  <2>1. PICK q : q = Append(queues[mode], p)
    OBVIOUS
  <2>2. q \in Seq(Player)
    BY <1>4, <2>1
  <2>3. queues' \in [Mode -> Seq(Player)] /\ inQueue' \in [Player -> Mode \cup {NoMode}]
    BY <1>5, <2>1, <2>2 DEF Waits, TypeOK
  <2>4. UNCHANGED <<picked, saga>>
    BY <1>5 DEF Waits
  <2>5. QED
    BY <1>1, <1>2, <2>3, <2>4 DEF TypeOK
<1>6. CASE \E m \in Match : m = NextMatch /\ Forms(p, mode, m)
  <2>1. PICK m \in Match : m = NextMatch /\ Forms(p, mode, m)
    BY <1>6
  <2>2. PICK q : q = Append(queues[mode], p)
    OBVIOUS
  <2>3. q \in Seq(Player) /\ Need <= Len(q)
    BY <1>4, <2>1, <2>2 DEF Forms
  <2>4. PICK f : f = First(q)
    OBVIOUS
  <2>5. f \in Seq(Player) /\ Len(f) = Need /\ Taken(q) \in Seq(Player)
    BY <2>3, <2>4, SplitIs
  <2>6. queues' \in [Mode -> Seq(Player)]
    BY <2>1, <2>2, <2>5 DEF Forms, TypeOK
  <2>7. inQueue' \in [Player -> Mode \cup {NoMode}]
    BY <2>1, <2>2 DEF Forms, TypeOK
  <2>8. PICK e : e = [mode |-> mode, players |-> f]
    OBVIOUS
  <2>9. e \in [mode : Mode, players : Seq(Player)] /\ e.players = f
    BY <2>5, <2>8
  <2>10. picked' = [picked EXCEPT ![m] = e]
    BY <2>1, <2>2, <2>4, <2>8 DEF Forms
  <2>11. picked' \in [Match -> [mode : Mode, players : Seq(Player)]]
    BY <2>9, <2>10 DEF TypeOK
  <2>12. saga' = [saga EXCEPT ![m].pc = "provision"]
    BY <2>1 DEF Forms
  <2>13. saga' \in [Match -> SagaRecord]
    BY <2>12 DEF TypeOK, SagaRecord
  <2>14. \A n \in Match : saga'[n].pc # "none" => Len(picked'[n].players) = Need
    BY <2>5, <2>9, <2>10, <2>12 DEF TypeOK
  <2>15. QED
    BY <1>1, <1>2, <2>6, <2>7, <2>11, <2>13, <2>14 DEF TypeOK, SagaRecord
<1>7. QED
  BY <1>3, <1>5, <1>6, EnqueueIs


\* The orders that wait for a session.
Orders == [Player -> Seq({Hub} \cup Match)]

LEMMA OrdersAre ==
  ASSUME TypeOK, NEW p \in Player, NEW dest \in {Hub} \cup Match,
         TimesOut(p, dest) \/ UNCHANGED orders
  PROVE  orders' \in Orders
<1>1. CASE UNCHANGED orders
  BY <1>1 DEF TypeOK, Orders
<1>2. CASE orders' = [orders EXCEPT ![p] = Append(orders[p], dest)]
  <2>1. PICK q : q = Append(orders[p], dest)
    OBVIOUS
  <2>2. orders[p] \in Seq({Hub} \cup Match)
    BY DEF TypeOK
  <2>3. q \in Seq({Hub} \cup Match)
    BY <2>1, <2>2
  <2>4. QED
    BY <1>2, <2>1, <2>3 DEF TypeOK, Orders
<1>3. QED
  BY <1>1, <1>2 DEF TimesOut

LEMMA ReleaseIs ==
  ASSUME TypeOK, Counters, NEW p \in Player, Release(p)
  PROVE  /\ \/ /\ place' = [place EXCEPT ![p] = Hub] /\ misses' = misses
               /\ orders[p] = <<>> /\ orders' = orders
            \/ place' = place /\ misses' = misses + 1
         /\ place' \in [Player -> {Hub} \cup Match] /\ misses' \in Nat
         /\ orders' \in Orders
<1>1. \/ /\ place' = [place EXCEPT ![p] = Hub] /\ misses' = misses
         /\ orders[p] = <<>> /\ orders' = orders
      \/ place' = place /\ misses' = misses + 1
  BY DEF Release
<1>2. misses' \in Nat
  BY <1>1 DEF Counters
<1>3. place' \in [Player -> {Hub} \cup Match]
  BY <1>1 DEF TypeOK
<1>4. orders' \in Orders
  BY OrdersAre DEF Release
<1>5. QED
  BY <1>1, <1>2, <1>3, <1>4

LEMMA SagaType ==
  ASSUME TypeOK, Counters, Flow, NEW m \in Match, Saga(m)
  PROVE  TypeOK' /\ Counters'
<1> USE DEF counters
<1>0. saga[m] \in SagaRecord /\ saga \in [Match -> SagaRecord]
  BY DEF TypeOK, SagaRecord
<1>1. CASE Provision(m)
  <2>1. saga' \in [Match -> SagaRecord] /\ \A n \in Match : saga'[n].pc # "none" => saga[n].pc # "none"
    BY <1>0, <1>1 DEF Provision, SagaRecord
  <2>2. arenas' \subseteq Match /\ faults' \in Nat
    BY <1>1 DEF Provision, Fault, TypeOK, Counters
  <2>3. UNCHANGED <<queues, inQueue, conn, orders, place, picked, ending, enqueues, connects,
                  misses, early>>
    BY <1>1 DEF Provision
  <2>4. QED
    BY <2>1, <2>2, <2>3 DEF TypeOK, Counters, SagaRecord
<1>2. CASE Assign(m)
  <2>1. PICK n : n = saga[m].n + 1
    OBVIOUS
  <2>2. n \in 1..Need
    BY <1>0, <1>2, <2>1, Bounds DEF Assign, Flow, SagaRecord
  <2>3. Nth(m, n) \in Player
    BY <1>2, <2>2, NthIs DEF Assign
  <2>4. \/ saga' = [saga EXCEPT ![m].pc = IF n = Need THEN "done" ELSE "assign", ![m].n = n]
        \/ saga' = [saga EXCEPT ![m].pc = "undo"]
    BY <1>2, <2>1 DEF Assign
  <2>5. n \in 0..Need
    BY <2>2
  <2>6. saga' \in [Match -> SagaRecord]
    BY <1>0, <2>4, <2>5 DEF SagaRecord
  <2>7. \A k \in Match : saga'[k].pc # "none" => saga[k].pc # "none"
    BY <1>0, <1>2, <2>4 DEF Assign
  <2>8. place' = [place EXCEPT ![Nth(m, n)] = m] \/ place' = place
    BY <1>2, <2>1 DEF Assign
  <2>9. place' \in [Player -> {Hub} \cup Match] /\ faults' \in Nat
    <3>1. place' \in [Player -> {Hub} \cup Match]
      BY <2>3, <2>8 DEF TypeOK
    <3>2. faults' = faults \/ faults' = faults + 1
      BY <1>2 DEF Assign, Fault
    <3>3. QED
      BY <3>1, <3>2 DEF Counters
  <2>10. UNCHANGED <<queues, inQueue, conn, picked, ending, arenas, enqueues, connects,
                   misses, early>>
    BY <1>2 DEF Assign
  <2>11. orders' \in Orders
    BY <1>2, <2>1, <2>3, OrdersAre DEF Assign
  <2>12. QED
    BY <2>6, <2>7, <2>9, <2>10, <2>11 DEF TypeOK, Counters, SagaRecord, Orders
<1>3. CASE Undo(m)
  <2>1. saga[m].undone \in 0..Need /\ saga[m].n \in 0..Need /\ saga[m].undone <= saga[m].n
    BY <1>0 DEF Flow, SagaRecord
  <2>2. UNCHANGED <<queues, inQueue, conn, picked, ending, arenas, enqueues, connects,
                  faults, early>>
    BY <1>3 DEF Undo
  <2>3. CASE saga[m].undone = saga[m].n
    <3>1. saga' = [saga EXCEPT ![m].pc = "destroy"] /\ UNCHANGED <<orders, place, misses>>
      BY <1>3, <2>3 DEF Undo, AfterUndo
    <3>2. saga' \in [Match -> SagaRecord]
      BY <1>0, <3>1 DEF SagaRecord
    <3>3. \A k \in Match : saga'[k].pc # "none" => saga[k].pc # "none"
      BY <1>0, <1>3, <3>1 DEF Undo
    <3>4. QED
      BY <2>2, <3>1, <3>2, <3>3 DEF TypeOK, Counters, SagaRecord
  <2>4. CASE saga[m].undone # saga[m].n
    <3>1. PICK i : i = saga[m].undone + 1
      OBVIOUS
    <3>2. i \in 1..Need /\ i \in 0..Need
      BY <2>1, <2>4, <3>1, Bounds
    <3>3. saga' = [saga EXCEPT ![m].undone = i] /\ Release(Nth(m, i))
      BY <1>3, <2>4, <3>1 DEF Undo
    <3>4. Nth(m, i) \in Player
      BY <1>3, <3>2, NthIs DEF Undo
    <3>5. place' \in [Player -> {Hub} \cup Match] /\ misses' \in Nat /\ orders' \in Orders
      BY <3>3, <3>4, ReleaseIs
    <3>6. saga' \in [Match -> SagaRecord]
      BY <1>0, <3>2, <3>3 DEF SagaRecord
    <3>7. \A k \in Match : saga'[k].pc # "none" => saga[k].pc # "none"
      BY <1>0, <3>3
    <3>8. QED
      BY <2>2, <3>5, <3>6, <3>7 DEF TypeOK, Counters, SagaRecord, Orders
  <2>5. QED
    BY <2>3, <2>4
<1>4. CASE SagaDestroys(m)
  <2>1. saga' = [saga EXCEPT ![m].pc = "cancel"] /\ arenas' = arenas \ {m}
    BY <1>4 DEF SagaDestroys
  <2>2. saga' \in [Match -> SagaRecord]
    BY <1>0, <2>1 DEF SagaRecord
  <2>3. \A k \in Match : saga'[k].pc # "none" => saga[k].pc # "none"
    BY <1>0, <1>4, <2>1 DEF SagaDestroys
  <2>4. UNCHANGED <<queues, inQueue, conn, orders, place, picked, ending, counters>>
    BY <1>4 DEF SagaDestroys
  <2>5. QED
    BY <2>1, <2>2, <2>3, <2>4 DEF TypeOK, Counters, SagaRecord
<1>5. CASE Cancel(m)
  <2>1. PICK md \in Mode : md = picked[m].mode
    BY DEF TypeOK
  <2>2. PICK r : r = Restored(m)
    OBVIOUS
  <2>3. r \in Seq(Player)
    <3>1. PICK a, b : a = picked[m].players /\ b = queues[md]
      OBVIOUS
    <3>2. a \in Seq(Player) /\ b \in Seq(Player) /\ r = a \o b
      BY <2>1, <2>2, <3>1 DEF Restored, TypeOK
    <3>3. QED
      BY <3>2
  <2>4. queues' = [queues EXCEPT ![md] = r]
    BY <1>5, <2>1, <2>2 DEF Cancel
  <2>5. inQueue' = [p \in Player |-> IF p \in InMatch(m) THEN md ELSE inQueue[p]]
    BY <1>5, <2>1 DEF Cancel
  <2>6. queues' \in [Mode -> Seq(Player)] /\ inQueue' \in [Player -> Mode \cup {NoMode}]
    BY <2>3, <2>4, <2>5 DEF TypeOK
  <2>7. saga' = [saga EXCEPT ![m].pc = "cancelled"]
    BY <1>5 DEF Cancel
  <2>8. saga' \in [Match -> SagaRecord]
    BY <1>0, <2>7 DEF SagaRecord
  <2>9. \A k \in Match : saga'[k].pc # "none" => saga[k].pc # "none"
    BY <1>0, <1>5, <2>7 DEF Cancel
  <2>10. UNCHANGED <<conn, orders, place, picked, ending, arenas, counters>>
    BY <1>5 DEF Cancel
  <2>11. QED
    BY <2>6, <2>8, <2>9, <2>10 DEF TypeOK, Counters, SagaRecord
<1>6. QED
  BY <1>1, <1>2, <1>3, <1>4, <1>5 DEF Saga

LEMMA EndingType ==
  ASSUME TypeOK, Counters, Flow, NEW m \in Match, End(m) \/ Ending(m)
  PROVE  TypeOK' /\ Counters'
<1> USE DEF counters
<1>0. ending[m] \in EndingRecord /\ ending \in [Match -> EndingRecord]
  BY DEF TypeOK, EndingRecord
<1>1. CASE End(m)
  <2>1. ending' = [ending EXCEPT ![m].pc = "release"] /\ early' \in Nat
    BY <1>1 DEF End, Counters
  <2>2. ending' \in [Match -> EndingRecord]
    BY <1>0, <2>1 DEF EndingRecord
  <2>3. UNCHANGED <<queues, inQueue, conn, orders, place, picked, saga, arenas, enqueues,
                  connects, faults, misses>>
    BY <1>1 DEF End
  <2>4. QED
    BY <2>1, <2>2, <2>3 DEF TypeOK, Counters, EndingRecord
<1>2. CASE EndReleases(m)
  <2>1. PICK n : n = ending[m].n + 1
    OBVIOUS
  <2>2. n \in 1..Need /\ n \in 0..Need
    BY <1>0, <1>2, <2>1, Bounds DEF EndReleases, Flow, EndingRecord
  <2>3. saga[m].pc # "none"
    BY <1>2 DEF EndReleases, Flow
  <2>4. Nth(m, n) \in Player /\ Release(Nth(m, n))
    BY <1>2, <2>1, <2>2, <2>3, NthIs DEF EndReleases
  <2>5. place' \in [Player -> {Hub} \cup Match] /\ misses' \in Nat /\ orders' \in Orders
    BY <2>4, ReleaseIs
  <2>6. PICK e : e = [pc |-> AfterRelease(n), n |-> n]
    OBVIOUS
  <2>7. e \in EndingRecord
    BY <2>2, <2>6 DEF EndingRecord, AfterRelease
  <2>8. ending' = [ending EXCEPT ![m] = e]
    BY <1>2, <2>1, <2>6 DEF EndReleases
  <2>9. ending' \in [Match -> EndingRecord]
    BY <1>0, <2>7, <2>8
  <2>10. UNCHANGED <<queues, inQueue, conn, picked, saga, arenas, enqueues, connects, faults,
                   early>>
    BY <1>2 DEF EndReleases
  <2>11. QED
    BY <2>5, <2>9, <2>10 DEF TypeOK, Counters, EndingRecord, Orders
<1>3. CASE EndDestroys(m)
  <2>1. ending' = [ending EXCEPT ![m].pc = "done"] /\ arenas' = arenas \ {m}
    BY <1>3 DEF EndDestroys
  <2>2. ending' \in [Match -> EndingRecord]
    BY <1>0, <2>1 DEF EndingRecord
  <2>3. UNCHANGED <<queues, inQueue, conn, orders, place, picked, saga, counters>>
    BY <1>3 DEF EndDestroys
  <2>4. QED
    BY <2>1, <2>2, <2>3 DEF TypeOK, Counters, EndingRecord
<1>4. QED
  BY <1>1, <1>2, <1>3 DEF Ending

LEMMA ConnType ==
  ASSUME TypeOK, Counters, NEW p \in Player,
         Connect(p) \/ Disconnect(p) \/ Unregister(p) \/ CarryOut(p)
  PROVE  TypeOK' /\ Counters'
<1> USE DEF counters
<1>1. CASE Connect(p)
  <2>1. connects' \in [Player -> 0..2]
    <3>1. connects[p] \in {0, 1} /\ connects' = [connects EXCEPT ![p] = connects[p] + 1]
      BY <1>1 DEF Connect, Allowed
    <3>2. QED
      BY <3>1 DEF Counters
  <2>2. conn' \in [Player -> {"off", "on", "stopped"}]
    BY <1>1 DEF Connect, TypeOK
  <2>3. QED
    BY <1>1, <2>1, <2>2 DEF Connect, TypeOK, Counters
<1>2. CASE Disconnect(p)
  <2>1. /\ conn' \in [Player -> {"off", "on", "stopped"}]
        /\ place' \in [Player -> {Hub} \cup Match]
    BY <1>2 DEF Disconnect, TypeOK
  <2>2. orders' \in [Player -> Seq({Hub} \cup Match)]
    BY <1>2 DEF Disconnect, TypeOK
  <2>3. QED
    BY <1>2, <2>1, <2>2 DEF Disconnect, TypeOK, Counters
<1>3. CASE Unregister(p)
  <2>1. conn' \in [Player -> {"off", "on", "stopped"}]
    BY <1>3 DEF Unregister, TypeOK
  <2>2. queues' \in [Mode -> Seq(Player)] /\ inQueue' \in [Player -> Mode \cup {NoMode}]
    <3>1. CASE UNCHANGED <<queues, inQueue>>
      BY <3>1 DEF TypeOK
    <3>2. CASE inQueue[p] # NoMode
      <4>1. PICK md \in Mode : md = inQueue[p]
        BY <3>2 DEF TypeOK
      <4>2. PICK w : w = Without(queues[md], p)
        OBVIOUS
      <4>3. w \in Seq(Player)
        BY <4>2, WithoutIs DEF TypeOK
      <4>4. queues' = [queues EXCEPT ![md] = w] /\ inQueue' = [inQueue EXCEPT ![p] = NoMode]
        BY <1>3, <3>2, <4>1, <4>2 DEF Unregister
      <4>5. QED
        BY <4>3, <4>4 DEF TypeOK
    <3>3. QED
      BY <1>3, <3>1, <3>2 DEF Unregister
  <2>3. QED
    BY <1>3, <2>1, <2>2 DEF Unregister, TypeOK, Counters
<1>4. CASE CarryOut(p)
  <2>1. PICK q \in Seq({Hub} \cup Match) : q = orders[p]
    BY DEF TypeOK
  <2>2. Head(q) \in {Hub} \cup Match /\ Tail(q) \in Seq({Hub} \cup Match)
    BY <1>4, <2>1 DEF CarryOut
  <2>3. PICK h, t : h = Head(q) /\ t = Tail(q)
    OBVIOUS
  <2>4. place' = [place EXCEPT ![p] = h] /\ orders' = [orders EXCEPT ![p] = t]
    BY <1>4, <2>1, <2>3 DEF CarryOut
  <2>5. /\ place' \in [Player -> {Hub} \cup Match]
        /\ orders' \in [Player -> Seq({Hub} \cup Match)]
    BY <2>2, <2>3, <2>4 DEF TypeOK
  <2>6. QED
    BY <1>4, <2>5 DEF CarryOut, TypeOK, Counters
<1>5. QED
  BY <1>1, <1>2, <1>3, <1>4

LEMMA TypeStep ==
  ASSUME TypeOK, Counters, Formed, Flow, [Next]_vars
  PROVE  TypeOK' /\ Counters'
<1>1. CASE \E p \in Player : \/ Connect(p) \/ Disconnect(p) \/ Unregister(p) \/ CarryOut(p)
                             \/ \E mode \in Mode : Enqueue(p, mode)
  BY <1>1, ConnType, EnqueueType
<1>2. CASE \E m \in Match : Saga(m) \/ End(m) \/ Ending(m)
  BY <1>2, SagaType, EndingType
<1>3. CASE UNCHANGED vars
  BY <1>3 DEF vars, TypeOK, Counters
<1>4. QED
  BY <1>1, <1>2, <1>3 DEF Next


-----------------------------------------------------------------------------
(* One place for a player. *)

\* A player who is in none is put at the end of a queue; for the others nothing changes.
LEMMA AppendKeeps ==
  ASSUME NEW q \in [Mode -> Seq(Player)], NEW pk, NEW H, NEW r \in Player,
         NEW mode \in Mode, NEW p \in Player, OneOf(q, pk, H, r),
         r = p => NoneOf(q, pk, H, r)
  PROVE  /\ OneOf([q EXCEPT ![mode] = Append(q[mode], p)], pk, H, r)
         /\ r # p /\ NoneOf(q, pk, H, r) => NoneOf([q EXCEPT ![mode] = Append(q[mode], p)], pk, H, r)
<1>1. PICK c : c = Append(q[mode], p)
  OBVIOUS
<1>2. PICK q2 : q2 = [q EXCEPT ![mode] = c]
  OBVIOUS
<1>3. /\ Contains(c, r) <=> Contains(q[mode], r) \/ r = p
      /\ OnceIn(c, r) <=> OnceIn(q[mode], r) /\ ~(Contains(q[mode], r) /\ r = p)
  BY <1>1, AppendedIs
<1>4. \A a \in Mode : q2[a] = IF a = mode THEN c ELSE q[a]
  BY <1>2
<1>5. \A a \in Mode : Contains(q2[a], r) <=> Contains(q[a], r) \/ (a = mode /\ r = p)
  BY <1>3, <1>4
<1>6. \A a \in Mode : OnceIn(q2[a], r)
  BY <1>3, <1>4 DEF OneOf, NoneOf
<1>7. OneOf(q2, pk, H, r)
  BY <1>5, <1>6 DEF OneOf, NoneOf
<1>8. r # p /\ NoneOf(q, pk, H, r) => NoneOf(q2, pk, H, r)
  BY <1>5 DEF NoneOf
<1>9. QED
  BY <1>1, <1>2, <1>7, <1>8

\* A match takes its players out of a queue.
LEMMA FormKeeps ==
  ASSUME NEW q \in [Mode -> Seq(Player)], NEW pk \in [Match -> [mode : Mode, players : Seq(Player)]],
         NEW H, H \subseteq Match, NEW r \in Player, NEW mode \in Mode,
         NEW m \in Match, m \notin H, Need <= Len(q[mode]), NEW e, e.players = First(q[mode]),
         OneOf(q, pk, H, r)
  PROVE  /\ OneOf([q EXCEPT ![mode] = Taken(q[mode])], [pk EXCEPT ![m] = e], H \cup {m}, r)
         /\ NoneOf(q, pk, H, r)
              => NoneOf([q EXCEPT ![mode] = Taken(q[mode])], [pk EXCEPT ![m] = e], H \cup {m}, r)
<1>1. PICK c, f, t : c = q[mode] /\ f = First(c) /\ t = Taken(c)
  OBVIOUS
<1>2. c \in Seq(Player) /\ Need <= Len(c)
  BY <1>1
<1>3. /\ Contains(c, r) <=> Contains(f, r) \/ Contains(t, r)
      /\ OnceIn(c, r) <=> OnceIn(f, r) /\ OnceIn(t, r) /\ ~(Contains(f, r) /\ Contains(t, r))
  BY <1>1, <1>2, SplitIs
<1>4. PICK q2, p2, G : q2 = [q EXCEPT ![mode] = t] /\ p2 = [pk EXCEPT ![m] = e] /\ G = H \cup {m}
  OBVIOUS
<1>5. \A a \in Mode : q2[a] = IF a = mode THEN t ELSE q[a]
  BY <1>4
<1>6. p2[m].players = f /\ \A n \in H : p2[n] = pk[n]
  BY <1>1, <1>4
<1>7. \A a \in Mode : Contains(q2[a], r) => Contains(q[a], r) /\ (a = mode => Contains(t, r))
  BY <1>1, <1>3, <1>5
<1>8. Contains(f, r) => Contains(q[mode], r) /\ ~Contains(q2[mode], r)
  BY <1>1, <1>3, <1>5 DEF OneOf
<1>9. OneOf(q2, p2, G, r)
  <2>1. \A a \in Mode : OnceIn(q2[a], r)
    BY <1>1, <1>3, <1>5 DEF OneOf
  <2>2. \A n \in G : OnceIn(p2[n].players, r)
    BY <1>1, <1>3, <1>4, <1>6 DEF OneOf
  <2>3. \A a, b \in Mode : Contains(q2[a], r) /\ Contains(q2[b], r) => a = b
    BY <1>7 DEF OneOf
  <2>4. ASSUME NEW n \in G, NEW k \in G, Contains(p2[n].players, r), Contains(p2[k].players, r)
        PROVE  n = k
    <3>1. CASE n \in H /\ k \in H
      BY <1>6, <2>4, <3>1 DEF OneOf
    <3>2. CASE n = m /\ k = m
      BY <3>2
    <3>3. CASE (n \in H /\ k = m) \/ (k \in H /\ n = m)
      BY <1>6, <1>8, <2>4, <3>3 DEF OneOf
    <3>4. QED
      BY <1>4, <3>1, <3>2, <3>3
  <2>5. ASSUME NEW a \in Mode, NEW n \in G, Contains(q2[a], r), Contains(p2[n].players, r)
        PROVE  FALSE
    <3>1. CASE n \in H
      BY <1>6, <1>7, <2>5, <3>1 DEF OneOf
    <3>2. CASE n = m
      <4>1. Contains(f, r) /\ Contains(q[mode], r) /\ Contains(q[a], r)
        BY <1>6, <1>7, <1>8, <2>5, <3>2
      <4>2. a = mode
        BY <4>1 DEF OneOf
      <4>3. QED
        BY <1>8, <2>5, <4>1, <4>2
    <3>3. QED
      BY <1>4, <3>1, <3>2
  <2>6. QED
    BY <2>1, <2>2, <2>3, <2>4, <2>5 DEF OneOf
<1>10. NoneOf(q, pk, H, r) => NoneOf(q2, p2, G, r)
  BY <1>4, <1>6, <1>7, <1>8 DEF NoneOf
<1>11. QED
  BY <1>1, <1>4, <1>9, <1>10

\* A match that is cancelled puts them back.
LEMMA CancelKeeps ==
  ASSUME NEW q \in [Mode -> Seq(Player)], NEW pk \in [Match -> [mode : Mode, players : Seq(Player)]],
         NEW H, H \subseteq Match, NEW r \in Player, NEW mode \in Mode,
         NEW m \in H, OneOf(q, pk, H, r)
  PROVE  /\ OneOf([q EXCEPT ![mode] = pk[m].players \o q[mode]], pk, H \ {m}, r)
         /\ NoneOf(q, pk, H, r) => NoneOf([q EXCEPT ![mode] = pk[m].players \o q[mode]], pk, H \ {m}, r)
<1>1. PICK a, b, c : a = pk[m].players /\ b = q[mode] /\ c = a \o b
  OBVIOUS
<1>2. a \in Seq(Player) /\ b \in Seq(Player)
  BY <1>1
<1>3. /\ Contains(c, r) <=> Contains(a, r) \/ Contains(b, r)
      /\ OnceIn(c, r) <=> OnceIn(a, r) /\ OnceIn(b, r) /\ ~(Contains(a, r) /\ Contains(b, r))
  BY <1>1, <1>2, JoinedIs
<1>4. PICK q2, G : q2 = [q EXCEPT ![mode] = c] /\ G = H \ {m}
  OBVIOUS
<1>5. \A x \in Mode : q2[x] = IF x = mode THEN c ELSE q[x]
  BY <1>4
<1>6. OnceIn(a, r) /\ OnceIn(b, r) /\ ~(Contains(a, r) /\ Contains(b, r))
  BY <1>1 DEF OneOf
<1>7. \A x \in Mode : Contains(q2[x], r) => Contains(q[x], r) \/ (x = mode /\ Contains(a, r))
  BY <1>1, <1>3, <1>5
<1>8. OneOf(q2, pk, G, r)
  <2>1. \A x \in Mode : OnceIn(q2[x], r)
    BY <1>3, <1>5, <1>6 DEF OneOf
  <2>2. ASSUME NEW x \in Mode, NEW y \in Mode, Contains(q2[x], r), Contains(q2[y], r)
        PROVE  x = y
    BY <1>1, <1>7, <2>2 DEF OneOf
  <2>3. ASSUME NEW x \in Mode, NEW n \in G, Contains(q2[x], r), Contains(pk[n].players, r)
        PROVE  FALSE
    BY <1>1, <1>4, <1>7, <2>3 DEF OneOf
  <2>4. \A n \in G : OnceIn(pk[n].players, r)
    BY <1>4 DEF OneOf
  <2>5. \A n, k \in G : Contains(pk[n].players, r) /\ Contains(pk[k].players, r) => n = k
    BY <1>4 DEF OneOf
  <2>6. QED
    BY <2>1, <2>2, <2>3, <2>4, <2>5 DEF OneOf
<1>9. NoneOf(q, pk, H, r) => NoneOf(q2, pk, G, r)
  BY <1>1, <1>4, <1>7 DEF NoneOf
<1>10. QED
  BY <1>1, <1>4, <1>8, <1>9

\* Who disconnects is taken out of his queue.
LEMMA WithoutKeeps ==
  ASSUME NEW q \in [Mode -> Seq(Player)], NEW pk, NEW H, NEW r \in Player,
         NEW mode \in Mode, NEW p \in Player, OneOf(q, pk, H, r)
  PROVE  /\ OneOf([q EXCEPT ![mode] = Without(q[mode], p)], pk, H, r)
         /\ NoneOf(q, pk, H, r) => NoneOf([q EXCEPT ![mode] = Without(q[mode], p)], pk, H, r)
<1>1. PICK c : c = Without(q[mode], p)
  OBVIOUS
<1>2. (Contains(c, r) => Contains(q[mode], r)) /\ (OnceIn(q[mode], r) => OnceIn(c, r))
  BY <1>1, WithoutIs
<1>3. PICK q2 : q2 = [q EXCEPT ![mode] = c]
  OBVIOUS
<1>4. \A a \in Mode : q2[a] = IF a = mode THEN c ELSE q[a]
  BY <1>3
<1>5. \A a \in Mode : (Contains(q2[a], r) => Contains(q[a], r)) /\ (OnceIn(q[a], r) => OnceIn(q2[a], r))
  BY <1>2, <1>4
<1>6. OneOf(q2, pk, H, r)
  BY <1>5 DEF OneOf
<1>7. NoneOf(q, pk, H, r) => NoneOf(q2, pk, H, r)
  BY <1>5 DEF NoneOf
<1>8. QED
  BY <1>1, <1>3, <1>6, <1>7


-----------------------------------------------------------------------------
(* Every step keeps the order of a match and the places of the players. *)

\* What a step of a saga does to the sagas.
LEMMA SagaIs ==
  ASSUME TypeOK, Flow, NEW m \in Match, Saga(m)
  PROVE  /\ saga' \in [Match -> SagaRecord]
         /\ \A k \in Match : k # m => saga'[k] = saga[k]
         /\ saga[m].pc # "none" /\ saga'[m].pc # "none"
         /\ saga[m].pc # "cancelled" /\ (saga'[m].pc = "cancelled" <=> Cancel(m))
         /\ UNCHANGED <<picked, ending>>
<1>0. saga[m] \in SagaRecord /\ saga \in [Match -> SagaRecord] /\ AfterUndo = "destroy"
  BY DEF TypeOK, SagaRecord, AfterUndo
<1>1. CASE Provision(m)
  BY <1>0, <1>1 DEF Provision, Cancel, SagaRecord
<1>2. CASE Assign(m)
  <2>1. PICK n : n = saga[m].n + 1
    OBVIOUS
  <2>2. n \in 0..Need
    BY <1>0, <1>2, <2>1, Bounds DEF Assign, Flow, SagaRecord
  <2>3. \/ saga' = [saga EXCEPT ![m].pc = IF n = Need THEN "done" ELSE "assign", ![m].n = n]
        \/ saga' = [saga EXCEPT ![m].pc = "undo"]
    BY <1>2, <2>1 DEF Assign
  <2>4. UNCHANGED <<picked, ending>> /\ saga[m].pc = "assign"
    BY <1>2 DEF Assign
  <2>5. QED
    BY <1>0, <2>2, <2>3, <2>4 DEF Cancel, SagaRecord
<1>3. CASE Undo(m)
  <2>1. PICK u : u = saga[m].undone + 1
    OBVIOUS
  <2>2. \/ saga[m].undone = saga[m].n /\ saga' = [saga EXCEPT ![m].pc = "destroy"]
        \/ saga[m].undone # saga[m].n /\ saga' = [saga EXCEPT ![m].undone = u]
    BY <1>0, <1>3, <2>1 DEF Undo
  <2>3. saga[m].undone # saga[m].n => u \in 0..Need
    BY <1>0, <2>1, Bounds DEF Flow, SagaRecord
  <2>4. UNCHANGED <<picked, ending>> /\ saga[m].pc = "undo"
    BY <1>3 DEF Undo
  <2>5. QED
    BY <1>0, <2>2, <2>3, <2>4 DEF Cancel, SagaRecord
<1>4. CASE SagaDestroys(m)
  BY <1>0, <1>4 DEF SagaDestroys, Cancel, SagaRecord
<1>5. CASE Cancel(m)
  BY <1>0, <1>5 DEF Cancel, SagaRecord
<1>6. QED
  BY <1>1, <1>2, <1>3, <1>4, <1>5 DEF Saga

LEMMA FormedStep ==
  ASSUME TypeOK, Counters, Formed, Flow, [Next]_vars
  PROVE  Formed'
<1>1. ASSUME \A m \in Match : saga'[m].pc # "none" <=> saga[m].pc # "none"
      PROVE  Formed'
  BY <1>1 DEF Formed
<1>2. ASSUME NEW p \in Player, NEW mode \in Mode, Enqueue(p, mode)
      PROVE  Formed'
  <2>1. CASE UNCHANGED saga
    BY <1>1, <2>1
  <2>2. CASE \E m \in Match : m = NextMatch /\ Forms(p, mode, m)
    <3>1. PICK m \in Match : m = NextMatch /\ Forms(p, mode, m)
      BY <2>2
    <3>2. /\ {k \in Match : saga[k].pc # "none"} \cup {m} = 1..m
          /\ m \in 0..MaxMatches
      BY <3>1, NextIs
    <3>3. saga' = [saga EXCEPT ![m].pc = "provision"] /\ saga \in [Match -> SagaRecord]
      BY <3>1 DEF Forms, TypeOK, SagaRecord
    <3>4. saga'[m].pc = "provision" /\ \A k \in Match : k # m => saga'[k] = saga[k]
      BY <3>3 DEF SagaRecord
    <3>5. {k \in Match : saga'[k].pc # "none"} = {k \in Match : saga[k].pc # "none"} \cup {m}
      BY <3>4
    <3>6. QED
      BY <3>2, <3>5 DEF Formed
  <2>3. QED
    BY <1>2, <2>1, <2>2, EnqueueIs DEF Waits
<1>3. ASSUME NEW m \in Match, Saga(m) PROVE Formed'
  BY <1>1, <1>3, SagaIs
<1>4. ASSUME NEW m \in Match, End(m) \/ Ending(m) PROVE Formed'
  BY <1>1, <1>4 DEF End, Ending, EndReleases, EndDestroys
<1>5. ASSUME NEW p \in Player, Connect(p) \/ Disconnect(p) \/ Unregister(p) \/ CarryOut(p) PROVE Formed'
  BY <1>1, <1>5 DEF Connect, Disconnect, Unregister, CarryOut
<1>6. CASE UNCHANGED vars
  BY <1>1, <1>6 DEF vars
<1>7. QED
  BY <1>2, <1>3, <1>4, <1>5, <1>6 DEF Next

FlowOf(s, e) ==
  /\ s.undone <= s.n
  /\ s.pc \in {"none", "provision"} => s.n = 0 /\ e.pc = "none"
  /\ s.pc = "assign" => s.n < Need /\ s.undone = 0
  /\ s.pc = "done" => s.n = Need
  /\ e.pc = "none" => e.n = 0
  /\ e.pc = "release" => e.n < Need

LEMMA FlowIs == Flow <=> \A m \in Match : FlowOf(saga[m], ending[m])
  BY DEF Flow, FlowOf

LEMMA FlowNext == Flow' <=> \A m \in Match : FlowOf(saga'[m], ending'[m])
  BY DEF Flow, FlowOf

LEMMA FlowSaga ==
  ASSUME TypeOK, Flow, NEW m \in Match, Saga(m)
  PROVE  FlowOf(saga'[m], ending'[m])
<1>0. saga[m] \in SagaRecord /\ saga \in [Match -> SagaRecord] /\ AfterUndo = "destroy"
  BY DEF TypeOK, SagaRecord, AfterUndo
<1>1. FlowOf(saga[m], ending[m]) /\ ending' = ending
  BY FlowIs, SagaIs
<1>2. saga[m].n \in 0..Need /\ saga[m].undone \in 0..Need /\ Need \in Nat
  BY <1>0, Bounds DEF SagaRecord
<1>3. CASE Provision(m)
  BY <1>0, <1>1, <1>2, <1>3, Bounds DEF Provision, FlowOf, SagaRecord
<1>4. CASE Assign(m)
  <2>1. PICK n : n = saga[m].n + 1
    OBVIOUS
  <2>2. \/ saga' = [saga EXCEPT ![m].pc = IF n = Need THEN "done" ELSE "assign", ![m].n = n]
        \/ saga' = [saga EXCEPT ![m].pc = "undo"]
    BY <1>4, <2>1 DEF Assign
  <2>3. saga[m].pc = "assign" /\ saga[m].n < Need
    BY <1>1, <1>4 DEF Assign, FlowOf
  <2>4. n \in 1..Need /\ saga[m].undone <= n
    BY <1>1, <1>2, <2>1, <2>3 DEF FlowOf
  <2>5. CASE saga' = [saga EXCEPT ![m].pc = "undo"]
    <3>1. saga'[m].pc = "undo" /\ saga'[m].n = saga[m].n /\ saga'[m].undone = saga[m].undone
      BY <1>0, <2>5 DEF SagaRecord
    <3>2. QED
      BY <1>1, <3>1 DEF FlowOf
  <2>6. CASE saga' = [saga EXCEPT ![m].pc = IF n = Need THEN "done" ELSE "assign", ![m].n = n]
    <3>1. /\ saga'[m].pc = IF n = Need THEN "done" ELSE "assign"
          /\ saga'[m].n = n /\ saga'[m].undone = saga[m].undone
      BY <1>0, <2>6 DEF SagaRecord
    <3>2. n # Need => n < Need
      BY <1>2, <2>4
    <3>3. QED
      BY <1>1, <2>3, <2>4, <3>1, <3>2 DEF FlowOf
  <2>7. QED
    BY <2>2, <2>5, <2>6
<1>5. CASE Undo(m)
  <2>1. PICK u : u = saga[m].undone + 1
    OBVIOUS
  <2>2. \/ saga[m].undone = saga[m].n /\ saga' = [saga EXCEPT ![m].pc = "destroy"]
        \/ saga[m].undone # saga[m].n /\ saga' = [saga EXCEPT ![m].undone = u]
    BY <1>0, <1>5, <2>1 DEF Undo
  <2>3. saga[m].undone # saga[m].n => u <= saga[m].n
    BY <1>1, <1>2, <2>1 DEF FlowOf
  <2>4. saga[m].pc = "undo"
    BY <1>5 DEF Undo
  <2>5. \/ /\ saga'[m].pc = "destroy" /\ saga'[m].n = saga[m].n
           /\ saga'[m].undone = saga[m].undone
        \/ /\ saga'[m].pc = "undo" /\ saga'[m].n = saga[m].n
           /\ saga'[m].undone = u /\ u <= saga[m].n
    BY <1>0, <2>2, <2>3, <2>4 DEF SagaRecord
  <2>6. QED
    BY <1>1, <2>4, <2>5 DEF FlowOf
<1>6. CASE SagaDestroys(m)
  BY <1>0, <1>1, <1>2, <1>6 DEF SagaDestroys, FlowOf, SagaRecord
<1>7. CASE Cancel(m)
  BY <1>0, <1>1, <1>2, <1>7 DEF Cancel, FlowOf, SagaRecord
<1>8. QED
  BY <1>3, <1>4, <1>5, <1>6, <1>7 DEF Saga

LEMMA FlowEnding ==
  ASSUME TypeOK, Flow, NEW m \in Match, End(m) \/ Ending(m)
  PROVE  /\ saga' = saga /\ ending' \in [Match -> EndingRecord] /\ FlowOf(saga'[m], ending'[m])
         /\ \A k \in Match : k # m => ending'[k] = ending[k]
<1>0. ending[m] \in EndingRecord /\ ending \in [Match -> EndingRecord]
  BY DEF TypeOK, EndingRecord
<1>1. FlowOf(saga[m], ending[m]) /\ saga' = saga
  BY FlowIs DEF End, Ending, EndReleases, EndDestroys
<1>2. ending[m].n \in 0..Need /\ Need \in Nat /\ Need > 0
  BY <1>0, Bounds DEF EndingRecord
<1>3. CASE End(m)
  <2>1. ending' = [ending EXCEPT ![m].pc = "release"] /\ ending[m].pc = "none"
    BY <1>3 DEF End
  <2>2. saga[m].pc \notin {"none", "provision"}
    BY <1>3 DEF End
  <2>3. ending'[m].pc = "release" /\ ending'[m].n = 0
    BY <1>0, <1>1, <2>1 DEF FlowOf, EndingRecord
  <2>4. FlowOf(saga'[m], ending'[m])
    BY <1>1, <1>2, <2>2, <2>3 DEF FlowOf
  <2>5. QED
    BY <1>0, <1>1, <2>1, <2>4 DEF EndingRecord
<1>4. CASE EndReleases(m)
  <2>1. PICK n : n = ending[m].n + 1
    OBVIOUS
  <2>2. PICK e : e = [pc |-> AfterRelease(n), n |-> n]
    OBVIOUS
  <2>3. ending' = [ending EXCEPT ![m] = e] /\ ending[m].pc = "release"
    BY <1>4, <2>1, <2>2 DEF EndReleases
  <2>4. n \in 1..Need /\ (n # Need => n < Need)
    BY <1>1, <1>2, <2>1, <2>3 DEF FlowOf
  <2>5. e.pc = IF n = Need THEN "destroy" ELSE "release"
    BY <2>2 DEF AfterRelease
  <2>6. e.n = n /\ e \in EndingRecord
    BY <2>2, <2>4 DEF EndingRecord, AfterRelease
  <2>7. ending'[m] = e /\ saga[m].pc \notin {"none", "provision"}
    BY <1>0, <1>1, <2>3 DEF FlowOf
  <2>8. FlowOf(saga'[m], ending'[m])
    BY <1>1, <2>4, <2>5, <2>6, <2>7 DEF FlowOf
  <2>9. QED
    BY <1>0, <1>1, <2>3, <2>6, <2>8
<1>5. CASE EndDestroys(m)
  <2>1. ending' = [ending EXCEPT ![m].pc = "done"] /\ ending[m].pc = "destroy"
    BY <1>5 DEF EndDestroys
  <2>2. ending'[m].pc = "done"
    BY <1>0, <2>1
  <2>3. FlowOf(saga'[m], ending'[m])
    BY <1>1, <2>1, <2>2 DEF FlowOf
  <2>4. QED
    BY <1>0, <1>1, <2>1, <2>3 DEF EndingRecord
<1>6. QED
  BY <1>3, <1>4, <1>5 DEF Ending

LEMMA FlowStep ==
  ASSUME TypeOK, Counters, Formed, Flow, [Next]_vars
  PROVE  Flow'
<1>1. ASSUME UNCHANGED <<saga, ending>> PROVE Flow'
  BY <1>1 DEF Flow
<1>2. ASSUME NEW p \in Player, NEW mode \in Mode, Enqueue(p, mode)
      PROVE  Flow'
  <2>1. ending' = ending
    BY <1>2 DEF Enqueue
  <2>2. CASE UNCHANGED saga
    BY <1>1, <2>1, <2>2
  <2>3. CASE \E m \in Match : m = NextMatch /\ Forms(p, mode, m)
    <3>1. PICK m \in Match : m = NextMatch /\ Forms(p, mode, m)
      BY <2>3
    <3>2. saga[m].pc = "none"
      BY <3>1, NextIs
    <3>3. saga' = [saga EXCEPT ![m].pc = "provision"] /\ saga \in [Match -> SagaRecord]
      BY <3>1 DEF Forms, TypeOK, SagaRecord
    <3>4. /\ saga'[m].pc = "provision" /\ saga'[m].n = saga[m].n /\ saga'[m].undone = saga[m].undone
          /\ \A k \in Match : k # m => saga'[k] = saga[k]
      BY <3>3 DEF SagaRecord
    <3>5. FlowOf(saga[m], ending[m])
      BY FlowIs
    <3>6. FlowOf(saga'[m], ending'[m])
      BY <2>1, <3>2, <3>4, <3>5 DEF FlowOf
    <3>7. QED
      BY <2>1, <3>4, <3>6, FlowIs, FlowNext
  <2>4. QED
    BY <1>2, <2>2, <2>3, EnqueueIs DEF Waits
<1>3. ASSUME NEW m \in Match, Saga(m) PROVE Flow'
  <2>1. FlowOf(saga'[m], ending'[m]) /\ ending' = ending
    BY <1>3, FlowSaga, SagaIs
  <2>2. \A k \in Match : k # m => saga'[k] = saga[k]
    BY <1>3, SagaIs
  <2>3. QED
    BY <2>1, <2>2, FlowIs, FlowNext
<1>4. ASSUME NEW m \in Match, End(m) \/ Ending(m) PROVE Flow'
  <2>1. /\ saga' = saga /\ FlowOf(saga'[m], ending'[m])
        /\ \A k \in Match : k # m => ending'[k] = ending[k]
    BY <1>4, FlowEnding
  <2>2. QED
    BY <2>1, FlowIs, FlowNext
<1>5. ASSUME NEW p \in Player, Connect(p) \/ Disconnect(p) \/ Unregister(p) \/ CarryOut(p) PROVE Flow'
  BY <1>1, <1>5 DEF Connect, Disconnect, Unregister, CarryOut
<1>6. CASE UNCHANGED vars
  BY <1>1, <1>6 DEF vars
<1>7. QED
  BY <1>2, <1>3, <1>4, <1>5, <1>6 DEF Next


LEMMA SinglesNext ==
  Singles' <=>
    \A p \in Player :
      /\ enqueues'[p] # 2 => OneOf(queues', picked', Held', p)
      /\ enqueues'[p] = 0 => NoneOf(queues', picked', Held', p)
  BY DEF Singles

\* An enqueue: who had not called before is in no other place.
LEMMA SinglesEnqueue ==
  ASSUME TypeOK, Counters, Formed, Singles, NEW p \in Player, NEW mode \in Mode, Enqueue(p, mode)
  PROVE  Singles'
<1>1. enqueues[p] \in {0, 1} /\ enqueues' = [enqueues EXCEPT ![p] = enqueues[p] + 1]
  BY EnqueueIs
<1>2. \A r \in Player : /\ enqueues'[r] # 2 => enqueues[r] # 2 /\ (r = p => enqueues[r] = 0)
                        /\ enqueues'[r] = 0 => enqueues[r] = 0 /\ r # p
  BY <1>1 DEF Counters
<1>3. PICK q, pk, H : q = queues /\ pk = picked /\ H = Held
  OBVIOUS
<1>4. /\ q \in [Mode -> Seq(Player)] /\ pk \in [Match -> [mode : Mode, players : Seq(Player)]]
      /\ H \subseteq Match
  BY <1>3 DEF TypeOK, Held
<1>5. \A r \in Player : /\ enqueues'[r] # 2 => OneOf(q, pk, H, r) /\ (r = p => NoneOf(q, pk, H, r))
                        /\ enqueues'[r] = 0 => OneOf(q, pk, H, r) /\ NoneOf(q, pk, H, r) /\ r # p
  <2>1. \A r \in Player : /\ enqueues[r] # 2 => OneOf(q, pk, H, r)
                          /\ enqueues[r] = 0 => NoneOf(q, pk, H, r)
    BY <1>3 DEF Singles
  <2>2. QED
    BY <1>2, <2>1
<1>6. PICK c : c = Append(q[mode], p)
  OBVIOUS
<1>7. PICK q1 : q1 = [q EXCEPT ![mode] = c]
  OBVIOUS
<1>8. \A r \in Player : /\ enqueues'[r] # 2 => OneOf(q1, pk, H, r)
                        /\ enqueues'[r] = 0 => NoneOf(q1, pk, H, r)
  <2>1. ASSUME NEW r \in Player, enqueues'[r] # 2 PROVE OneOf(q1, pk, H, r)
    BY <1>4, <1>5, <1>6, <1>7, <2>1, AppendKeeps
  <2>2. ASSUME NEW r \in Player, enqueues'[r] = 0 PROVE NoneOf(q1, pk, H, r)
    BY <1>4, <1>5, <1>6, <1>7, <2>2, AppendKeeps
  <2>3. QED
    BY <2>1, <2>2
<1>9. CASE UNCHANGED <<queues, inQueue, picked, saga>>
  <2>1. queues' = q /\ picked' = pk /\ Held' = H
    BY <1>3, <1>9 DEF Held
  <2>2. QED
    BY <1>5, <2>1, SinglesNext
<1>10. CASE Waits(p, mode)
  <2>1. queues' = q1 /\ picked' = pk /\ Held' = H
    BY <1>3, <1>6, <1>7, <1>10 DEF Waits, Held
  <2>2. QED
    BY <1>8, <2>1, SinglesNext
<1>11. CASE \E m \in Match : m = NextMatch /\ Forms(p, mode, m)
  <2>1. PICK m \in Match : m = NextMatch /\ Forms(p, mode, m)
    BY <1>11
  <2>2. saga[m].pc = "none" /\ m \notin H
    BY <1>3, <2>1, NextIs DEF Held
  <2>3. saga' = [saga EXCEPT ![m].pc = "provision"] /\ saga \in [Match -> SagaRecord]
    BY <2>1 DEF Forms, TypeOK, SagaRecord
  <2>4. saga'[m].pc = "provision" /\ \A k \in Match : k # m => saga'[k] = saga[k]
    BY <2>3 DEF SagaRecord
  <2>5. PICK G : G = H \cup {m}
    OBVIOUS
  <2>6. Held' = G
    BY <1>3, <2>4, <2>5 DEF Held
  <2>7. PICK e : e = [mode |-> mode, players |-> First(c)]
    OBVIOUS
  <2>8. e.players = First(q1[mode]) /\ q1[mode] = c /\ q1 \in [Mode -> Seq(Player)]
    <3>1. c \in Seq(Player)
      BY <1>4, <1>6
    <3>2. q1[mode] = c /\ q1 \in [Mode -> Seq(Player)]
      BY <1>4, <1>7, <3>1
    <3>3. QED
      BY <2>7, <3>2
  <2>9. Need <= Len(q1[mode])
    BY <1>3, <1>6, <2>1, <2>8 DEF Forms
  <2>10. PICK q2, p2 : q2 = [q1 EXCEPT ![mode] = Taken(q1[mode])] /\ p2 = [pk EXCEPT ![m] = e]
    OBVIOUS
  <2>11. q2 = [q EXCEPT ![mode] = Taken(c)]
    BY <1>4, <1>7, <2>8, <2>10
  <2>12. queues' = q2 /\ picked' = p2
    BY <1>3, <1>6, <2>1, <2>7, <2>10, <2>11 DEF Forms
  <2>13. \A r \in Player : /\ enqueues'[r] # 2 => OneOf(q2, p2, G, r)
                           /\ enqueues'[r] = 0 => NoneOf(q2, p2, G, r)
    <3>1. ASSUME NEW r \in Player, OneOf(q1, pk, H, r)
          PROVE  OneOf(q2, p2, G, r) /\ (NoneOf(q1, pk, H, r) => NoneOf(q2, p2, G, r))
      BY <1>4, <2>2, <2>5, <2>8, <2>9, <2>10, <3>1, FormKeeps
    <3>2. \A r \in Player : enqueues'[r] = 0 => enqueues'[r] # 2
      OBVIOUS
    <3>3. QED
      BY <1>8, <3>1, <3>2
  <2>14. QED
    BY <2>6, <2>12, <2>13, SinglesNext
<1>12. QED
  BY <1>9, <1>10, <1>11, EnqueueIs

LEMMA SinglesStep ==
  ASSUME TypeOK, Counters, Formed, Flow, Singles, [Next]_vars
  PROVE  Singles'
<1>1. PICK q, pk, H : q = queues /\ pk = picked /\ H = Held
  OBVIOUS
<1>2. /\ q \in [Mode -> Seq(Player)] /\ pk \in [Match -> [mode : Mode, players : Seq(Player)]]
      /\ H \subseteq Match
  BY <1>1 DEF TypeOK, Held
<1>3. \A r \in Player : /\ enqueues[r] # 2 => OneOf(q, pk, H, r)
                        /\ enqueues[r] = 0 => OneOf(q, pk, H, r) /\ NoneOf(q, pk, H, r)
  BY <1>1 DEF Singles
<1>4. ASSUME enqueues' = enqueues,
             NEW q2, queues' = q2, NEW p2, picked' = p2, NEW G, Held' = G,
             \A r \in Player : OneOf(q, pk, H, r) =>
               OneOf(q2, p2, G, r) /\ (NoneOf(q, pk, H, r) => NoneOf(q2, p2, G, r))
      PROVE  Singles'
  BY <1>3, <1>4, SinglesNext
<1>5. ASSUME UNCHANGED <<queues, picked, enqueues>>, Held' = Held PROVE Singles'
  BY <1>1, <1>4, <1>5
<1>6. ASSUME NEW p \in Player, NEW mode \in Mode, Enqueue(p, mode) PROVE Singles'
  BY <1>6, SinglesEnqueue
<1>7. ASSUME NEW m \in Match, Saga(m) PROVE Singles'
  <2>1. /\ saga \in [Match -> SagaRecord] /\ picked' = pk
        /\ \A k \in Match : k # m => saga'[k] = saga[k]
        /\ saga[m].pc # "none" /\ saga'[m].pc # "none"
        /\ saga[m].pc # "cancelled" /\ (saga'[m].pc = "cancelled" <=> Cancel(m))
    BY <1>1, <1>7, SagaIs DEF TypeOK, SagaRecord
  <2>2. enqueues' = enqueues
    BY <1>7 DEF Saga, Provision, Assign, Undo, SagaDestroys, Cancel, counters
  <2>3. CASE ~Cancel(m)
    <3>1. Held' = Held
      BY <2>1, <2>3 DEF Held
    <3>2. queues' = queues
      BY <1>7, <2>3 DEF Saga, Provision, Assign, Undo, SagaDestroys
    <3>3. QED
      BY <1>1, <1>5, <2>1, <2>2, <3>1, <3>2
  <2>4. CASE Cancel(m)
    <3>1. PICK G : G = H \ {m}
      OBVIOUS
    <3>2. Held' = G /\ m \in H
      BY <1>1, <2>1, <2>4, <3>1 DEF Held
    <3>3. PICK md \in Mode : md = pk[m].mode
      BY <1>2
    <3>4. PICK q2 : q2 = [q EXCEPT ![md] = pk[m].players \o q[md]]
      OBVIOUS
    <3>5. queues' = q2
      BY <1>1, <2>4, <3>3, <3>4 DEF Cancel, Restored
    <3>6. ASSUME NEW r \in Player, OneOf(q, pk, H, r)
          PROVE  OneOf(q2, pk, G, r) /\ (NoneOf(q, pk, H, r) => NoneOf(q2, pk, G, r))
      BY <1>2, <3>1, <3>2, <3>4, <3>6, CancelKeeps
    <3>7. QED
      BY <1>4, <2>1, <2>2, <3>2, <3>5, <3>6
  <2>5. QED
    BY <2>3, <2>4
<1>8. ASSUME NEW m \in Match, End(m) \/ Ending(m) PROVE Singles'
  BY <1>5, <1>8 DEF End, Ending, EndReleases, EndDestroys, counters, Held
<1>9. ASSUME NEW p \in Player, Connect(p) \/ Disconnect(p) \/ CarryOut(p) PROVE Singles'
  BY <1>5, <1>9 DEF Connect, Disconnect, CarryOut, counters, Held
<1>10. ASSUME NEW p \in Player, Unregister(p) PROVE Singles'
  <2>1. enqueues' = enqueues /\ picked' = pk /\ Held' = H
    BY <1>1, <1>10 DEF Unregister, counters, Held
  <2>2. CASE UNCHANGED queues
    BY <1>1, <1>5, <2>1, <2>2
  <2>3. CASE inQueue[p] # NoMode
    <3>1. PICK md \in Mode : md = inQueue[p]
      BY <2>3 DEF TypeOK
    <3>2. PICK q2 : q2 = [q EXCEPT ![md] = Without(q[md], p)]
      OBVIOUS
    <3>3. queues' = q2
      BY <1>1, <1>10, <2>3, <3>1, <3>2 DEF Unregister
    <3>4. ASSUME NEW r \in Player, OneOf(q, pk, H, r)
          PROVE  OneOf(q2, pk, H, r) /\ (NoneOf(q, pk, H, r) => NoneOf(q2, pk, H, r))
      BY <1>2, <3>2, <3>4, WithoutKeeps
    <3>5. QED
      BY <1>4, <2>1, <3>3, <3>4
  <2>4. QED
    BY <1>10, <2>2, <2>3 DEF Unregister
<1>11. CASE UNCHANGED vars
  BY <1>5, <1>11 DEF vars, Held
<1>12. QED
  BY <1>6, <1>7, <1>8, <1>9, <1>10, <1>11 DEF Next



-----------------------------------------------------------------------------
(* Arenas. *)

\* The step that ends the care for an arena is the step that destroys it.
LEMMA LeakStep ==
  ASSUME TypeOK, Counters, Formed, Flow, NoArenaLeak, [Next]_vars
  PROVE  NoArenaLeak'
<1> DEFINE Cares(m) == saga[m].pc \in {"assign", "undo", "destroy", "done"}
                         /\ ending[m].pc # "done"
<1>0. /\ saga \in [Match -> SagaRecord] /\ ending \in [Match -> EndingRecord] /\ arenas \subseteq Match
      /\ \A m \in arenas : Cares(m)
  BY DEF TypeOK, SagaRecord, EndingRecord, NoArenaLeak
<1>1. ASSUME UNCHANGED <<saga, ending, arenas>> PROVE NoArenaLeak'
  BY <1>1 DEF NoArenaLeak
<1>2. ASSUME NEW p \in Player, NEW mode \in Mode, Enqueue(p, mode)
      PROVE  NoArenaLeak'
  <2>1. ending' = ending /\ arenas' = arenas
    BY <1>2 DEF Enqueue
  <2>2. CASE UNCHANGED saga
    BY <1>1, <2>1, <2>2
  <2>3. CASE \E m \in Match : m = NextMatch /\ Forms(p, mode, m)
    <3>1. PICK m \in Match : m = NextMatch /\ Forms(p, mode, m)
      BY <2>3
    <3>2. saga[m].pc = "none"
      BY <3>1, NextIs
    <3>3. saga' = [saga EXCEPT ![m].pc = "provision"]
      BY <3>1 DEF Forms
    <3>4. m \notin arenas /\ \A k \in Match : k # m => saga'[k] = saga[k]
      BY <1>0, <3>2, <3>3 DEF SagaRecord
    <3>5. QED
      BY <1>0, <2>1, <3>4 DEF NoArenaLeak
  <2>4. QED
    BY <1>2, <2>2, <2>3, EnqueueIs DEF Waits
<1>3. ASSUME NEW m \in Match, Saga(m) PROVE NoArenaLeak'
  <2>1. ending' = ending /\ \A k \in Match : k # m => saga'[k] = saga[k]
    BY <1>3, SagaIs
  <2>2. arenas' \subseteq arenas \cup {m}
    BY <1>3 DEF Saga, Provision, Assign, Undo, SagaDestroys, Cancel
  <2>3. m \in arenas' => saga'[m].pc \in {"assign", "undo", "destroy", "done"} /\ ending[m].pc # "done"
    <3>1. CASE Provision(m)
      BY <1>0, <3>1 DEF Provision, Flow, SagaRecord
    <3>2. CASE Assign(m)
      <4>1. PICK n : n = saga[m].n + 1
        OBVIOUS
      <4>2. \/ saga' = [saga EXCEPT ![m].pc = IF n = Need THEN "done" ELSE "assign", ![m].n = n]
            \/ saga' = [saga EXCEPT ![m].pc = "undo"]
        BY <3>2, <4>1 DEF Assign
      <4>3. saga'[m].pc \in {"assign", "done", "undo"}
        BY <1>0, <4>2 DEF SagaRecord
      <4>4. arenas' = arenas
        BY <3>2 DEF Assign
      <4>5. QED
        BY <1>0, <4>3, <4>4
    <3>3. CASE Undo(m)
      <4>1. PICK u : u = saga[m].undone + 1
        OBVIOUS
      <4>2. \/ saga' = [saga EXCEPT ![m].pc = "destroy"]
            \/ saga' = [saga EXCEPT ![m].undone = u] /\ saga[m].pc = "undo"
        BY <3>3, <4>1 DEF Undo, AfterUndo
      <4>3. saga'[m].pc \in {"destroy", "undo"}
        BY <1>0, <4>2 DEF SagaRecord
      <4>4. arenas' = arenas
        BY <3>3 DEF Undo
      <4>5. QED
        BY <1>0, <4>3, <4>4
    <3>4. CASE SagaDestroys(m)
      BY <3>4 DEF SagaDestroys
    <3>5. CASE Cancel(m)
      BY <1>0, <3>5 DEF Cancel
    <3>6. QED
      BY <1>3, <3>1, <3>2, <3>3, <3>4, <3>5 DEF Saga
  <2>4. QED
    BY <1>0, <2>1, <2>2, <2>3 DEF NoArenaLeak
<1>4. ASSUME NEW m \in Match, End(m) \/ Ending(m) PROVE NoArenaLeak'
  <2>1. saga' = saga /\ \A k \in Match : k # m => ending'[k] = ending[k]
    BY <1>4, FlowEnding
  <2>2. m \in arenas' => ending'[m].pc # "done"
    <3>1. CASE End(m)
      BY <1>0, <3>1 DEF End, EndingRecord
    <3>2. CASE EndReleases(m)
      BY <1>0, <3>2 DEF EndReleases, AfterRelease, EndingRecord
    <3>3. CASE EndDestroys(m)
      BY <3>3 DEF EndDestroys
    <3>4. QED
      BY <1>4, <3>1, <3>2, <3>3 DEF Ending
  <2>3. arenas' \subseteq arenas
    BY <1>4 DEF End, Ending, EndReleases, EndDestroys
  <2>4. QED
    BY <1>0, <2>1, <2>2, <2>3 DEF NoArenaLeak
<1>5. ASSUME NEW p \in Player, Connect(p) \/ Disconnect(p) \/ Unregister(p) \/ CarryOut(p) PROVE NoArenaLeak'
  BY <1>1, <1>5 DEF Connect, Disconnect, Unregister, CarryOut, counters
<1>6. CASE UNCHANGED vars
  BY <1>1, <1>6 DEF vars
<1>7. QED
  BY <1>2, <1>3, <1>4, <1>5, <1>6 DEF Next

Runs(s, e, in) ==
  /\ e.pc # "none" => s.pc = "done"
  /\ s.pc = "assign" \/ (s.pc = "done" /\ e.pc = "none") => in

LEMMA RunsIs == Running <=> (early = 0 => \A m \in Match : Runs(saga[m], ending[m], m \in arenas))
  BY DEF Running, Runs

LEMMA RunsNext ==
  Running' <=> (early' = 0 => \A m \in Match : Runs(saga'[m], ending'[m], m \in arenas'))
  BY DEF Running, Runs

\* An arena is there from Provision on, and goes last.
LEMMA RunningStep ==
  ASSUME TypeOK, Counters, Formed, Flow, Running, [Next]_vars
  PROVE  Running'
<1>0. /\ saga \in [Match -> SagaRecord] /\ ending \in [Match -> EndingRecord] /\ arenas \subseteq Match
      /\ early \in Nat
  BY DEF TypeOK, SagaRecord, EndingRecord, Counters
<1>1. ASSUME UNCHANGED <<saga, ending, arenas, early>> PROVE Running'
  BY <1>1 DEF Running
<1>2. ASSUME NEW m \in Match, early' = 0 => early = 0,
             \A k \in Match : k # m => /\ saga'[k] = saga[k] /\ ending'[k] = ending[k]
                                       /\ (k \in arenas' <=> k \in arenas),
             early' = 0 /\ early = 0 /\ Runs(saga[m], ending[m], m \in arenas)
               => Runs(saga'[m], ending'[m], m \in arenas')
      PROVE  Running'
  BY <1>2, RunsIs, RunsNext DEF Runs
<1>3. ASSUME NEW p \in Player, NEW mode \in Mode, Enqueue(p, mode)
      PROVE  Running'
  <2>1. ending' = ending /\ arenas' = arenas /\ early' = early
    BY <1>3 DEF Enqueue
  <2>2. CASE UNCHANGED saga
    BY <1>1, <2>1, <2>2
  <2>3. CASE \E m \in Match : m = NextMatch /\ Forms(p, mode, m)
    <3>1. PICK m \in Match : m = NextMatch /\ Forms(p, mode, m)
      BY <2>3
    <3>2. saga[m].pc = "none" /\ ending[m].pc = "none"
      BY <3>1, NextIs DEF Flow
    <3>3. saga' = [saga EXCEPT ![m].pc = "provision"]
      BY <3>1 DEF Forms
    <3>4. saga'[m].pc = "provision" /\ \A k \in Match : k # m => saga'[k] = saga[k]
      BY <1>0, <3>3 DEF SagaRecord
    <3>5. QED
      BY <1>2, <2>1, <3>2, <3>4 DEF Runs
  <2>4. QED
    BY <1>3, <2>2, <2>3, EnqueueIs DEF Waits
<1>4. ASSUME NEW m \in Match, Saga(m) PROVE Running'
  <2>1. ending' = ending /\ \A k \in Match : k # m => saga'[k] = saga[k]
    BY <1>4, SagaIs
  <2>2. early' = early /\ \A k \in Match : k # m => (k \in arenas' <=> k \in arenas)
    BY <1>4 DEF Saga, Provision, Assign, Undo, SagaDestroys, Cancel, counters
  <2>3. saga[m].pc # "done"
    BY <1>4 DEF Saga, Provision, Assign, Undo, SagaDestroys, Cancel
  <2>4. saga'[m].pc \in {"assign", "done"} => m \in arenas' \/ (saga[m].pc = "assign" /\ m \notin arenas)
    <3>1. CASE Provision(m)
      BY <1>0, <3>1 DEF Provision, SagaRecord
    <3>2. CASE Assign(m)
      BY <3>2 DEF Assign
    <3>3. CASE Undo(m)
      BY <1>0, <3>3 DEF Undo, AfterUndo, SagaRecord
    <3>4. CASE SagaDestroys(m)
      BY <1>0, <3>4 DEF SagaDestroys, SagaRecord
    <3>5. CASE Cancel(m)
      BY <1>0, <3>5 DEF Cancel, SagaRecord
    <3>6. QED
      BY <1>4, <3>1, <3>2, <3>3, <3>4, <3>5 DEF Saga
  <2>5. QED
    BY <1>2, <2>1, <2>2, <2>3, <2>4 DEF Runs
<1>5. ASSUME NEW m \in Match, End(m) \/ Ending(m) PROVE Running'
  <2>1. saga' = saga /\ \A k \in Match : k # m => ending'[k] = ending[k]
    BY <1>5, FlowEnding
  <2>2. CASE End(m)
    <3>1. arenas' = arenas /\ ending' = [ending EXCEPT ![m].pc = "release"]
      BY <2>2 DEF End
    <3>2. (early' = early /\ saga[m].pc = "done") \/ early' = early + 1
      BY <2>2 DEF End
    <3>3. ending'[m].pc = "release"
      BY <1>0, <3>1 DEF EndingRecord
    <3>4. QED
      BY <1>0, <1>2, <2>1, <3>1, <3>2, <3>3 DEF Runs
  <2>3. CASE Ending(m)
    <3>1. early' = early /\ \A k \in Match : k # m => (k \in arenas' <=> k \in arenas)
      BY <2>3 DEF Ending, EndReleases, EndDestroys, counters
    <3>2. ending[m].pc # "none"
      BY <2>3 DEF Ending, EndReleases, EndDestroys
    <3>3. ending'[m].pc # "none"
      BY <1>0, <2>3 DEF Ending, EndReleases, EndDestroys, AfterRelease, EndingRecord
    <3>4. QED
      BY <1>2, <2>1, <3>1, <3>2, <3>3 DEF Runs
  <2>4. QED
    BY <1>5, <2>2, <2>3
<1>6. ASSUME NEW p \in Player, Connect(p) \/ Disconnect(p) \/ Unregister(p) \/ CarryOut(p) PROVE Running'
  BY <1>1, <1>6 DEF Connect, Disconnect, Unregister, CarryOut, counters
<1>7. CASE UNCHANGED vars
  BY <1>1, <1>7 DEF vars
<1>8. QED
  BY <1>3, <1>4, <1>5, <1>6, <1>7 DEF Next



-----------------------------------------------------------------------------
(* Players in arenas. *)

\* Seat, of a player of whom the saga is s, the end e and the players of the match pl.
SeatOf(p, s, e, pl) ==
  \/ /\ s.pc = "assign" \/ (s.pc = "done" /\ e.pc = "none")
     /\ \E i \in 1..s.n : p = pl[i]
  \/ /\ s.pc = "undo"
     /\ \E i \in (s.undone + 1)..s.n : p = pl[i]
  \/ /\ s.pc = "done" /\ e.pc = "release"
     /\ \E i \in (e.n + 1)..Need : p = pl[i]

LEMMA SeatedIs ==
  Seated <=>
    (misses + early = 0 =>
       \A p \in Player, m \in Match :
         Goes(place[p], orders[p], m) /\ Counts(saga[m], picked[m].players, p)
           => SeatOf(p, saga[m], ending[m], picked[m].players))
  BY DEF Seated, Seat, Nth, SeatOf

LEMMA SeatedNext ==
  Seated' <=>
    (misses' + early' = 0 =>
       \A p \in Player, m \in Match :
         Goes(place'[p], orders'[p], m) /\ Counts(saga'[m], picked'[m].players, p)
           => SeatOf(p, saga'[m], ending'[m], picked'[m].players))
  BY DEF Seated, Seat, Nth, SeatOf, Goes, Counts

\* What goes wrong is counted, and never forgotten.
LEMMA TroubleGrows ==
  ASSUME Counters, [Next]_vars
  PROVE  misses' + early' = 0 => /\ misses = 0 /\ early = 0 /\ misses' = 0 /\ early' = 0
<1>1. (misses' = misses \/ misses' = misses + 1) /\ (early' = early \/ early' = early + 1)
  <2>1. ASSUME NEW p \in Player,
               \/ Connect(p) \/ Disconnect(p) \/ Unregister(p) \/ CarryOut(p)
               \/ \E mode \in Mode : Enqueue(p, mode)
        PROVE  UNCHANGED <<misses, early>>
    BY <2>1 DEF Connect, Disconnect, Unregister, CarryOut, Enqueue, counters
  <2>2. ASSUME NEW m \in Match, Saga(m)
        PROVE  (misses' = misses \/ misses' = misses + 1) /\ early' = early
    BY <2>2 DEF Saga, Provision, Assign, Undo, Release, SagaDestroys, Cancel, counters
  <2>3. ASSUME NEW m \in Match, End(m)
        PROVE  misses' = misses /\ (early' = early \/ early' = early + 1)
    BY <2>3 DEF End
  <2>4. ASSUME NEW m \in Match, Ending(m)
        PROVE  (misses' = misses \/ misses' = misses + 1) /\ early' = early
    BY <2>4 DEF Ending, EndReleases, EndDestroys, Release, counters
  <2>5. UNCHANGED vars => UNCHANGED <<misses, early>>
    BY DEF vars
  <2>6. CASE Next
    BY <2>1, <2>2, <2>3, <2>4, <2>6 DEF Next
  <2>7. QED
    BY <2>5, <2>6
<1>2. misses \in Nat /\ early \in Nat
  BY DEF Counters
<1>3. QED
  BY <1>1, <1>2

\* A Release that does not fail takes the player back, and he has no order waiting.
LEMMA ReleasedIs ==
  ASSUME TypeOK, Counters, NEW p \in Player, Release(p), misses' = 0
  PROVE  \A r \in Player, k \in Match :
           Goes(place'[r], orders'[r], k) => Goes(place[r], orders[r], k) /\ r # p
<1>1. /\ place' = [place EXCEPT ![p] = Hub] /\ orders' = orders /\ orders[p] = <<>>
  BY ReleaseIs DEF Counters
<1>2. \A k \in Match : k # Hub
  BY MatchmakingAssumption DEF Match
<1>3. ASSUME NEW r \in Player, NEW k \in Match, Goes(place'[r], orders'[r], k)
      PROVE  Goes(place[r], orders[r], k) /\ r # p
  <2>1. CASE r = p
    <3>1. place'[r] = Hub /\ Len(orders'[r]) = 0
      BY <1>1, <2>1 DEF TypeOK
    <3>2. QED
      BY <1>2, <1>3, <3>1 DEF Goes
  <2>2. CASE r # p
    BY <1>1, <1>3, <2>2 DEF TypeOK
  <2>3. QED
    BY <2>1, <2>2
<1>4. QED
  BY <1>3

\* An order that stays behind takes its player where it was to take him.
LEMMA LateIs ==
  ASSUME TypeOK, NEW p \in Player, NEW m \in Match, UNCHANGED place,
         TimesOut(p, m) \/ UNCHANGED orders
  PROVE  \A r \in Player, k \in Match :
           k # m /\ Goes(place'[r], orders'[r], k) => Goes(place[r], orders[r], k)
<1>1. CASE UNCHANGED orders
  BY <1>1
<1>2. CASE orders' = [orders EXCEPT ![p] = Append(orders[p], m)]
  <2>1. PICK q : q = orders[p]
    OBVIOUS
  <2>2. PICK q2 : q2 = Append(q, m)
    OBVIOUS
  <2>3. q \in Seq({Hub} \cup Match)
    BY <2>1 DEF TypeOK
  <2>4. Len(q2) = Len(q) + 1 /\ q2[Len(q) + 1] = m /\ \A i \in 1..Len(q) : q2[i] = q[i]
    BY <2>2, <2>3
  <2>5. \A i \in 1..Len(q2) : i = Len(q) + 1 \/ i \in 1..Len(q)
    BY <2>3, <2>4
  <2>6. orders'[p] = q2 /\ \A r \in Player : r # p => orders'[r] = orders[r]
    BY <1>2, <2>1, <2>2 DEF TypeOK
  <2>7. ASSUME NEW r \in Player, NEW k \in Match, k # m, Goes(place'[r], orders'[r], k)
        PROVE  Goes(place[r], orders[r], k)
    <3>1. CASE r # p
      BY <2>6, <2>7, <3>1
    <3>2. CASE r = p
      <4>1. place[r] = k \/ \E i \in 1..Len(q2) : q2[i] = k
        BY <2>6, <2>7, <3>2 DEF Goes
      <4>2. place[r] = k \/ \E i \in 1..Len(q) : q[i] = k
        BY <2>4, <2>5, <2>7, <4>1
      <4>3. QED
        BY <2>1, <3>2, <4>2 DEF Goes
    <3>3. QED
      BY <3>1, <3>2
  <2>8. QED
    BY <2>7
<1>3. QED
  BY <1>1, <1>2 DEF TimesOut

\* A session that carries an order out is where that order was to take it; one that
\* stops is nowhere.
LEMMA ConnGoes ==
  ASSUME TypeOK, NEW p \in Player,
         Connect(p) \/ Disconnect(p) \/ Unregister(p) \/ CarryOut(p)
  PROVE  \A r \in Player, k \in Match :
           Goes(place'[r], orders'[r], k) => Goes(place[r], orders[r], k)
<1>0. \A k \in Match : k # Hub
  BY MatchmakingAssumption DEF Match
<1>1. CASE Connect(p) \/ Unregister(p)
  BY <1>1 DEF Connect, Unregister
<1>2. CASE Disconnect(p)
  <2>1. /\ place'[p] = Hub /\ Len(orders'[p]) = 0
        /\ \A r \in Player : r # p => place'[r] = place[r] /\ orders'[r] = orders[r]
    BY <1>2 DEF Disconnect, TypeOK
  <2>2. QED
    BY <1>0, <2>1 DEF Goes
<1>3. CASE CarryOut(p)
  <2>1. PICK q \in Seq({Hub} \cup Match) : q = orders[p]
    BY DEF TypeOK
  <2>2. PICK h, t : h = Head(q) /\ t = Tail(q)
    OBVIOUS
  <2>3. q # <<>>
    BY <1>3, <2>1 DEF CarryOut
  <2>4. /\ Len(q) >= 1 /\ h = q[1] /\ Len(t) = Len(q) - 1
        /\ \A i \in 1..Len(t) : t[i] = q[i + 1]
    BY <2>2, <2>3
  <2>5. /\ place'[p] = h /\ orders'[p] = t
        /\ \A r \in Player : r # p => place'[r] = place[r] /\ orders'[r] = orders[r]
    BY <1>3, <2>1, <2>2 DEF CarryOut, TypeOK
  <2>6. ASSUME NEW k \in Match, h = k \/ \E i \in 1..Len(t) : t[i] = k
        PROVE  \E i \in 1..Len(q) : q[i] = k
    <3>1. CASE h = k
      <4>1. 1 \in 1..Len(q) /\ q[1] = k
        BY <2>4, <3>1
      <4>2. QED
        BY <4>1
    <3>2. CASE \E i \in 1..Len(t) : t[i] = k
      <4>1. PICK i \in 1..Len(t) : t[i] = k
        BY <3>2
      <4>2. i + 1 \in 1..Len(q) /\ q[i + 1] = k
        BY <2>4, <4>1
      <4>3. QED
        BY <4>2
    <3>3. QED
      BY <2>6, <3>1, <3>2
  <2>7. ASSUME NEW r \in Player, NEW k \in Match, Goes(place'[r], orders'[r], k)
        PROVE  Goes(place[r], orders[r], k)
    <3>1. CASE r # p
      BY <2>5, <2>7, <3>1
    <3>2. CASE r = p
      BY <2>1, <2>5, <2>6, <2>7, <3>2 DEF Goes
    <3>3. QED
      BY <3>1, <3>2
  <2>8. QED
    BY <2>7
<1>4. QED
  BY <1>1, <1>2, <1>3

\* A saga seats one player more, or takes one out, or is done with an empty arena.
LEMMA SeatedSaga ==
  ASSUME TypeOK, Counters, Flow, Running, Seated, NEW m \in Match, Saga(m),
         misses = 0, early = 0, misses' = 0, early' = 0
  PROVE  Seated'
<1>0. /\ saga \in [Match -> SagaRecord] /\ saga[m] \in SagaRecord
      /\ place \in [Player -> {Hub} \cup Match]
  BY DEF TypeOK, SagaRecord
<1>1. /\ picked' = picked /\ ending' = ending /\ saga[m].pc # "none"
      /\ \A k \in Match : k # m => saga'[k] = saga[k]
  BY SagaIs
<1>2. ending[m].pc = "none"
  <2>1. saga[m].pc # "done"
    BY DEF Saga, Provision, Assign, Undo, SagaDestroys, Cancel
  <2>2. QED
    BY <2>1 DEF Running
<1>3. PICK pl : pl = picked[m].players
  OBVIOUS
<1>4. \A p \in Player : Goes(place[p], orders[p], m) /\ Counts(saga[m], pl, p)
                          => SeatOf(p, saga[m], ending[m], pl)
  BY <1>3, SeatedIs
<1>5. ASSUME \A p \in Player, k \in Match :
               k # m /\ Goes(place'[p], orders'[p], k) => Goes(place[p], orders[p], k),
             \A p \in Player : Goes(place'[p], orders'[p], m) /\ Counts(saga'[m], pl, p)
                                 => SeatOf(p, saga'[m], ending[m], pl)
      PROVE  Seated'
  <2>1. ASSUME NEW p \in Player, NEW k \in Match, Goes(place'[p], orders'[p], k),
               Counts(saga'[k], picked'[k].players, p)
        PROVE  SeatOf(p, saga'[k], ending'[k], picked'[k].players)
    <3>1. CASE k = m
      BY <1>1, <1>3, <1>5, <2>1, <3>1
    <3>2. CASE k # m
      <4>1. Goes(place[p], orders[p], k)
        BY <1>5, <2>1, <3>2
      <4>2. Counts(saga[k], picked[k].players, p)
        BY <1>1, <2>1, <3>2
      <4>3. SeatOf(p, saga[k], ending[k], picked[k].players)
        BY <4>1, <4>2, SeatedIs
      <4>4. QED
        BY <1>1, <3>2, <4>3
    <3>3. QED
      BY <3>1, <3>2
  <2>2. QED
    BY <2>1, SeatedNext
<1>6. CASE Provision(m) \/ SagaDestroys(m) \/ Cancel(m)
  <2>1. place' = place /\ orders' = orders
    BY <1>6 DEF Provision, SagaDestroys, Cancel, counters
  <2>2. \A p \in Player : ~(Goes(place[p], orders[p], m) /\ Counts(saga[m], pl, p))
    BY <1>4, <1>6 DEF Provision, SagaDestroys, Cancel, SeatOf
  <2>3. saga'[m].n = saga[m].n
    BY <1>0, <1>6 DEF Provision, SagaDestroys, Cancel, SagaRecord
  <2>4. \A p \in Player : Counts(saga'[m], pl, p) => Counts(saga[m], pl, p)
    BY <2>3 DEF Counts
  <2>5. QED
    BY <1>5, <2>1, <2>2, <2>4
<1>7. CASE Assign(m)
  <2>1. PICK n : n = saga[m].n + 1
    OBVIOUS
  <2>2. saga[m].pc = "assign" /\ saga[m].undone = 0 /\ saga[m].n < Need
    BY <1>7 DEF Assign, Flow
  <2>3. n \in 1..Need /\ saga[m].n \in Nat /\ Need \in Nat
    BY <1>0, <2>1, <2>2, Bounds DEF SagaRecord
  <2>4. Nth(m, n) \in Player
    BY <1>1, <2>3, NthIs
  <2>5. CASE /\ place' = place /\ (TimesOut(Nth(m, n), m) \/ UNCHANGED orders)
             /\ saga' = [saga EXCEPT ![m].pc = "undo"]
    <3>1. saga'[m].pc = "undo" /\ saga'[m].n = saga[m].n /\ saga'[m].undone = 0
      BY <1>0, <2>2, <2>5 DEF SagaRecord
    <3>2. \A p \in Player : Counts(saga'[m], pl, p) => SeatOf(p, saga'[m], ending[m], pl)
      BY <3>1 DEF SeatOf, Counts
    <3>3. \A p \in Player, k \in Match :
            k # m /\ Goes(place'[p], orders'[p], k) => Goes(place[p], orders[p], k)
      BY <2>4, <2>5, LateIs
    <3>4. QED
      BY <1>5, <3>2, <3>3
  <2>6. CASE /\ place' = [place EXCEPT ![Nth(m, n)] = m] /\ UNCHANGED orders
             /\ saga' = [saga EXCEPT ![m].pc = IF n = Need THEN "done" ELSE "assign", ![m].n = n]
    <3>1. saga'[m].pc \in {"done", "assign"} /\ saga'[m].n = n
      BY <1>0, <2>6 DEF SagaRecord
    <3>2. \A p \in Player : Counts(saga'[m], pl, p) => SeatOf(p, saga'[m], ending[m], pl)
      BY <1>2, <3>1 DEF SeatOf, Counts
    <3>3. \A p \in Player : place'[p] = place[p] \/ place'[p] = m
      BY <1>0, <2>6
    <3>4. \A p \in Player, k \in Match :
            k # m /\ Goes(place'[p], orders'[p], k) => Goes(place[p], orders[p], k)
      BY <2>6, <3>3 DEF Goes
    <3>5. QED
      BY <1>5, <3>2, <3>4
  <2>7. QED
    BY <1>7, <2>1, <2>5, <2>6 DEF Assign
<1>8. CASE Undo(m)
  <2>1. saga[m].pc = "undo" /\ saga[m].undone \in Nat /\ saga[m].n \in 0..Need
          /\ saga[m].undone <= saga[m].n /\ Need \in Nat
    BY <1>0, <1>8, Bounds DEF Undo, Flow, SagaRecord
  <2>2. \A p \in Player : Goes(place[p], orders[p], m) /\ Counts(saga[m], pl, p)
                            => \E i \in (saga[m].undone + 1)..saga[m].n : p = pl[i]
    BY <1>4, <2>1 DEF SeatOf
  <2>3. CASE saga[m].undone = saga[m].n
    <3>1. place' = place /\ orders' = orders /\ saga' = [saga EXCEPT ![m].pc = "destroy"]
      BY <1>8, <2>3 DEF Undo, AfterUndo
    <3>2. \A p \in Player : ~(Goes(place[p], orders[p], m) /\ Counts(saga[m], pl, p))
      BY <2>1, <2>2, <2>3
    <3>3. saga'[m].n = saga[m].n
      BY <1>0, <3>1 DEF SagaRecord
    <3>4. \A p \in Player : Counts(saga'[m], pl, p) => Counts(saga[m], pl, p)
      BY <3>3 DEF Counts
    <3>5. QED
      BY <1>5, <3>1, <3>2, <3>4
  <2>4. CASE saga[m].undone # saga[m].n
    <3>1. PICK u : u = saga[m].undone + 1
      OBVIOUS
    <3>2. u \in 1..Need
      BY <2>1, <2>4, <3>1
    <3>3. saga' = [saga EXCEPT ![m].undone = u] /\ Release(Nth(m, u))
      BY <1>8, <2>4, <3>1 DEF Undo
    <3>4. saga'[m].pc = "undo" /\ saga'[m].undone = u /\ saga'[m].n = saga[m].n
      BY <1>0, <2>1, <3>3 DEF SagaRecord
    <3>5. Nth(m, u) = pl[u] /\ Nth(m, u) \in Player
      BY <1>1, <1>3, <3>2, NthIs DEF Nth
    <3>6. \A p \in Player, k \in Match :
            Goes(place'[p], orders'[p], k) => Goes(place[p], orders[p], k) /\ p # pl[u]
      BY <3>3, <3>5, ReleasedIs
    <3>7. \A i \in u..saga[m].n : i = u \/ i \in (u + 1)..saga[m].n
      BY <2>1, <3>2
    <3>8. \A p \in Player : Counts(saga'[m], pl, p) => Counts(saga[m], pl, p)
      BY <3>4 DEF Counts
    <3>9. \A p \in Player : Goes(place'[p], orders'[p], m) /\ Counts(saga'[m], pl, p)
                              => \E i \in (u + 1)..saga[m].n : p = pl[i]
      BY <2>2, <3>1, <3>6, <3>7, <3>8
    <3>10. \A p \in Player : Goes(place'[p], orders'[p], m) /\ Counts(saga'[m], pl, p)
                               => SeatOf(p, saga'[m], ending[m], pl)
      BY <3>4, <3>9 DEF SeatOf
    <3>11. QED
      BY <1>5, <3>6, <3>10
  <2>5. QED
    BY <2>3, <2>4
<1>9. QED
  BY <1>6, <1>7, <1>8 DEF Saga

\* The end of a match takes one player out, or is done with an empty arena.
LEMMA SeatedEnding ==
  ASSUME TypeOK, Counters, Flow, Running, Seated, NEW m \in Match, End(m) \/ Ending(m),
         misses = 0, early = 0, misses' = 0, early' = 0
  PROVE  Seated'
<1>0. /\ ending \in [Match -> EndingRecord] /\ ending[m] \in EndingRecord
      /\ saga[m] \in SagaRecord
  BY DEF TypeOK, EndingRecord, SagaRecord
<1>1. /\ picked' = picked /\ saga' = saga
      /\ \A k \in Match : k # m => ending'[k] = ending[k]
  BY FlowEnding DEF End, Ending, EndReleases, EndDestroys
<1>2. saga[m].pc = "done" /\ saga[m].n = Need
  <2>1. CASE End(m)
    BY <2>1 DEF End, Flow
  <2>2. CASE Ending(m)
    <3>1. ending[m].pc # "none"
      BY <2>2 DEF Ending, EndReleases, EndDestroys
    <3>2. QED
      BY <3>1 DEF Running, Flow
  <2>3. QED
    BY <2>1, <2>2
<1>3. PICK pl : pl = picked[m].players
  OBVIOUS
<1>4. \A p \in Player : Goes(place[p], orders[p], m) /\ Counts(saga[m], pl, p)
                          => SeatOf(p, saga[m], ending[m], pl)
  BY <1>3, SeatedIs
<1>5. ASSUME \A p \in Player, k \in Match :
               Goes(place'[p], orders'[p], k) => Goes(place[p], orders[p], k),
             \A p \in Player : Goes(place'[p], orders'[p], m) /\ Counts(saga[m], pl, p)
                                 => SeatOf(p, saga[m], ending'[m], pl)
      PROVE  Seated'
  <2>1. ASSUME NEW p \in Player, NEW k \in Match, Goes(place'[p], orders'[p], k),
               Counts(saga'[k], picked'[k].players, p)
        PROVE  SeatOf(p, saga'[k], ending'[k], picked'[k].players)
    <3>1. CASE k = m
      BY <1>1, <1>3, <1>5, <2>1, <3>1
    <3>2. CASE k # m
      <4>1. Goes(place[p], orders[p], k) /\ Counts(saga[k], picked[k].players, p)
        BY <1>1, <1>5, <2>1
      <4>2. SeatOf(p, saga[k], ending[k], picked[k].players)
        BY <4>1, SeatedIs
      <4>3. QED
        BY <1>1, <3>2, <4>2
    <3>3. QED
      BY <3>1, <3>2
  <2>2. QED
    BY <2>1, SeatedNext
<1>6. CASE End(m)
  <2>1. /\ place' = place /\ orders' = orders
        /\ ending' = [ending EXCEPT ![m].pc = "release"] /\ ending[m].pc = "none"
    BY <1>6 DEF End
  <2>2. ending[m].n = 0
    BY <2>1 DEF Flow
  <2>3. ending'[m].pc = "release" /\ ending'[m].n = 0
    BY <1>0, <2>1, <2>2 DEF EndingRecord
  <2>4. \A p \in Player : Counts(saga[m], pl, p) => SeatOf(p, saga[m], ending'[m], pl)
    BY <1>2, <2>3 DEF SeatOf, Counts
  <2>5. QED
    BY <1>5, <2>1, <2>4
<1>7. CASE EndReleases(m)
  <2>1. PICK n : n = ending[m].n + 1
    OBVIOUS
  <2>2. ending[m].pc = "release" /\ ending[m].n < Need /\ ending[m].n \in Nat /\ Need \in Nat
    BY <1>0, <1>7, Bounds DEF EndReleases, Flow, EndingRecord
  <2>3. n \in 1..Need
    BY <2>1, <2>2
  <2>4. PICK e : e = [pc |-> AfterRelease(n), n |-> n]
    OBVIOUS
  <2>5. ending' = [ending EXCEPT ![m] = e] /\ Release(Nth(m, n))
    BY <1>7, <2>1, <2>4 DEF EndReleases
  <2>6. ending'[m].n = n /\ ending'[m].pc = IF n = Need THEN "destroy" ELSE "release"
    BY <1>0, <2>4, <2>5 DEF AfterRelease
  <2>7. Nth(m, n) = pl[n] /\ Nth(m, n) \in Player
    BY <1>2, <1>3, <2>3, NthIs DEF Nth
  <2>8. \A p \in Player, k \in Match :
          Goes(place'[p], orders'[p], k) => Goes(place[p], orders[p], k) /\ p # pl[n]
    BY <2>5, <2>7, ReleasedIs
  <2>9. \A i \in n..Need : i = n \/ (i \in (n + 1)..Need /\ n # Need)
    BY <2>2, <2>3
  <2>10. \A p \in Player : Goes(place[p], orders[p], m) /\ Counts(saga[m], pl, p)
                             => \E i \in n..Need : p = pl[i]
    BY <1>2, <1>4, <2>1, <2>2 DEF SeatOf
  <2>11. \A p \in Player : Goes(place'[p], orders'[p], m) /\ Counts(saga[m], pl, p)
                             => n # Need /\ \E i \in (n + 1)..Need : p = pl[i]
    BY <2>8, <2>9, <2>10
  <2>12. \A p \in Player : Goes(place'[p], orders'[p], m) /\ Counts(saga[m], pl, p)
                             => SeatOf(p, saga[m], ending'[m], pl)
    BY <1>2, <2>6, <2>11 DEF SeatOf
  <2>13. QED
    BY <1>5, <2>8, <2>12
<1>8. CASE EndDestroys(m)
  <2>1. place' = place /\ orders' = orders /\ ending[m].pc = "destroy"
    BY <1>8 DEF EndDestroys, counters
  <2>2. \A p \in Player : ~(Goes(place[p], orders[p], m) /\ Counts(saga[m], pl, p))
    BY <1>2, <1>4, <2>1 DEF SeatOf
  <2>3. QED
    BY <1>5, <2>1, <2>2
<1>9. QED
  BY <1>6, <1>7, <1>8 DEF Ending

LEMMA SeatedStep ==
  ASSUME TypeOK, Counters, Formed, Flow, Running, Seated, [Next]_vars
  PROVE  Seated'
<1> SUFFICES ASSUME misses' + early' = 0 PROVE Seated'
  BY SeatedNext
<1>1. misses = 0 /\ early = 0 /\ misses' = 0 /\ early' = 0 /\ misses + early = 0
  BY TroubleGrows
<1>2. ASSUME \A p \in Player, k \in Match :
               Goes(place'[p], orders'[p], k) => Goes(place[p], orders[p], k),
             \A k \in Match :
               \/ saga'[k] = saga[k] /\ ending'[k] = ending[k] /\ picked'[k] = picked[k]
               \/ saga'[k].n = 0
      PROVE  Seated'
  <2>1. ASSUME NEW p \in Player, NEW k \in Match, Goes(place'[p], orders'[p], k),
               Counts(saga'[k], picked'[k].players, p)
        PROVE  SeatOf(p, saga'[k], ending'[k], picked'[k].players)
    <3>1. saga'[k].n # 0
      BY <2>1 DEF Counts
    <3>2. saga'[k] = saga[k] /\ ending'[k] = ending[k] /\ picked'[k] = picked[k]
      BY <1>2, <3>1
    <3>3. Goes(place[p], orders[p], k)
      BY <1>2, <2>1
    <3>4. SeatOf(p, saga[k], ending[k], picked[k].players)
      BY <1>1, <2>1, <3>2, <3>3, SeatedIs
    <3>5. QED
      BY <3>2, <3>4
  <2>2. QED
    BY <2>1, SeatedNext
<1>3. ASSUME NEW p \in Player, NEW mode \in Mode, Enqueue(p, mode) PROVE Seated'
  <2>1. ending' = ending /\ place' = place /\ orders' = orders
    BY <1>3 DEF Enqueue
  <2>2. CASE UNCHANGED <<saga, picked>>
    BY <1>2, <2>1, <2>2
  <2>3. CASE \E m \in Match : m = NextMatch /\ Forms(p, mode, m)
    <3>1. PICK m \in Match : m = NextMatch /\ Forms(p, mode, m)
      BY <2>3
    <3>2. saga[m].pc = "none"
      BY <3>1, NextIs
    <3>3. saga' = [saga EXCEPT ![m].pc = "provision"] /\ saga \in [Match -> SagaRecord]
      BY <3>1 DEF Forms, TypeOK, SagaRecord
    <3>4. PICK e : picked' = [picked EXCEPT ![m] = e]
      BY <3>1 DEF Forms
    <3>5. \A k \in Match : k # m => saga'[k] = saga[k] /\ picked'[k] = picked[k]
      BY <3>3, <3>4 DEF TypeOK
    <3>6. saga[m].n = 0
      BY <3>2 DEF Flow
    <3>7. saga'[m].n = 0
      BY <3>3, <3>6 DEF SagaRecord
    <3>8. QED
      BY <1>2, <2>1, <3>5, <3>7
  <2>4. QED
    BY <1>3, <2>2, <2>3, EnqueueIs DEF Waits
<1>4. ASSUME NEW m \in Match, Saga(m) PROVE Seated'
  BY <1>1, <1>4, SeatedSaga
<1>5. ASSUME NEW m \in Match, End(m) \/ Ending(m) PROVE Seated'
  BY <1>1, <1>5, SeatedEnding
<1>6. ASSUME NEW p \in Player, Connect(p) \/ Disconnect(p) \/ Unregister(p) \/ CarryOut(p)
      PROVE  Seated'
  <2>1. UNCHANGED <<saga, ending, picked>>
    BY <1>6 DEF Connect, Disconnect, Unregister, CarryOut
  <2>2. QED
    BY <1>2, <1>6, <2>1, ConnGoes
<1>7. CASE UNCHANGED vars
  BY <1>2, <1>7 DEF vars
<1>8. QED
  BY <1>3, <1>4, <1>5, <1>6, <1>7 DEF Next


-----------------------------------------------------------------------------
(* The theorems. *)

LEMMA InitInv == Init => MatchInv
<1> SUFFICES ASSUME Init PROVE MatchInv
  OBVIOUS
<1>1. TypeOK /\ Counters
  BY InitTypes
<1>2. \A m \in Match : /\ saga[m].pc = "none" /\ saga[m].n = 0 /\ saga[m].undone = 0
                       /\ ending[m].pc = "none" /\ ending[m].n = 0
  BY DEF Init
<1>3. Formed
  <2>1. {m \in Match : saga[m].pc # "none"} = 1..0
    BY <1>2
  <2>2. 0 \in 0..MaxMatches
    BY Bounds
  <2>3. QED
    BY <2>1, <2>2 DEF Formed
<1>4. Flow
  BY <1>2 DEF Flow
<1>5. Singles
  <2>1. Held = {}
    BY <1>2 DEF Held
  <2>2. \A mode \in Mode : Len(queues[mode]) = 0
    BY DEF Init
  <2>3. \A mode \in Mode, p \in Player : OnceIn(queues[mode], p) /\ ~Contains(queues[mode], p)
    BY <2>2 DEF OnceIn, Contains
  <2>4. QED
    BY <2>1, <2>3 DEF Singles, OneOf, NoneOf
<1>6. NoArenaLeak
  BY DEF Init, NoArenaLeak
<1>7. Running
  BY <1>2 DEF Running
<1>8. Seated
  <2>1. \A p \in Player, m \in Match : ~Counts(saga[m], picked[m].players, p)
    BY <1>2 DEF Counts
  <2>2. QED
    BY <2>1, SeatedIs
<1>9. QED
  BY <1>1, <1>3, <1>4, <1>5, <1>6, <1>7, <1>8 DEF MatchInv

LEMMA InvStep == MatchInv /\ [Next]_vars => MatchInv'
<1> SUFFICES ASSUME MatchInv, [Next]_vars PROVE MatchInv'
  OBVIOUS
<1>1. TypeOK /\ Counters /\ Formed /\ Flow /\ Singles /\ NoArenaLeak /\ Running /\ Seated
  BY DEF MatchInv
<1>2. TypeOK' /\ Counters'
  BY <1>1, TypeStep
<1>3. Formed' /\ Flow'
  BY <1>1, FormedStep, FlowStep
<1>4. Singles'
  BY <1>1, SinglesStep
<1>5. NoArenaLeak' /\ Running'
  BY <1>1, LeakStep, RunningStep
<1>6. Seated'
  BY <1>1, SeatedStep
<1>7. QED
  BY <1>2, <1>3, <1>4, <1>5, <1>6 DEF MatchInv

LEMMA Inv == Spec => []MatchInv
<1>1. QED
  BY InitInv, InvStep, PTL DEF Spec

\* Every variable of Matcher, of the sagas and of the ends of matches keeps its type,
\* and a match that was formed has the players it needs.
THEOREM MatchTypeCorrect == Spec => []TypeOK
<1>1. MatchInv => TypeOK
  BY DEF MatchInv
<1>2. QED
  BY <1>1, Inv, PTL

\* "The same player cannot fall into two matches" (formLocked), if he queues once:
\* formLocked takes him out of the queue when it picks him, cancel puts him back when
\* his match is given up, and no other step puts him anywhere.
THEOREM OnlyOneMatch == Spec => []OneMatchAtATime
<1>1. MatchInv => OneMatchAtATime
  <2> SUFFICES ASSUME MatchInv, NEW m \in Match, NEW n \in Match, Active(m), Active(n), m # n,
                      NEW p \in InMatch(m) \cap InMatch(n)
               PROVE  p \in Twice(enqueues)
    BY DEF OneMatchAtATime
  <2>1. m \in Held /\ n \in Held
    BY DEF Active, Held
  <2>2. Contains(picked[m].players, p) /\ Contains(picked[n].players, p)
    BY DEF InMatch, Contains
  <2>3. p \in Player
    <3>1. picked[m].players \in Seq(Player)
      BY DEF MatchInv, TypeOK
    <3>2. QED
      BY <2>2, <3>1 DEF Contains
  <2>4. enqueues[p] = 2
    BY <2>1, <2>2, <2>3 DEF MatchInv, Singles, OneOf
  <2>5. QED
    BY <2>3, <2>4 DEF Twice
<1>2. QED
  BY <1>1, Inv, PTL

\* No arena leaks (runSaga's comment): as long as LocalProvisioner has an arena, the
\* saga that set it up has not ended without destroying it, or onMatchEnd will.
THEOREM ArenasAreSeenTo == Spec => []NoArenaLeak
<1>1. MatchInv => NoArenaLeak
  BY DEF MatchInv
<1>2. QED
  BY <1>1, Inv, PTL

\* onMatchEnd and the saga that gives up bring every player back before the arena goes,
\* whatever Provision and Assign fail or time out, as long as no Release fails and no
\* match is over before its saga is.  Only the player whose own Assign timed out may be
\* carried into an arena later: the saga does not count him.
THEOREM NobodyLeftBehind == Spec => []NobodyStranded
<1>1. MatchInv => NobodyStranded
  <2> SUFFICES ASSUME MatchInv, misses + early = 0, NEW p \in Player, NEW m \in Match,
                      place[p] = m, Assigned(p, m)
               PROVE  SeenTo(m)
    BY DEF NobodyStranded
  <2>1. Goes(place[p], orders[p], m) /\ Counts(saga[m], picked[m].players, p)
    BY DEF Goes, Counts, Assigned, Nth
  <2>2. Seat(p, m)
    BY <2>1 DEF MatchInv, Seated
  <2>3. early = 0
    BY DEF MatchInv, Counters
  <2>4. QED
    BY <2>2, <2>3 DEF MatchInv, Running, Seat, SeenTo
<1>2. QED
  BY <1>1, Inv, PTL
=============================================================================
