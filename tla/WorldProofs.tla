----------------------------- MODULE WorldProofs -----------------------------
(***************************************************************************)
(* Proofs about the raft group behind a shard (Shard.tla), for any number  *)
(* of replicas, window, terms and partitions: a group that is cut off is   *)
(* unavailable after the window, and a leader that was replaced counts no  *)
(* longer than that; and about the regions (World.tla), for any players,   *)
(* regions and handoffs: every player has one owner, and his session knows *)
(* which, as long as it is told of the handoffs in their order.            *)
(***************************************************************************)
EXTENDS World, Shard, TLAPS, FiniteSetTheorems, FunctionTheorems, SequenceTheorems,
        WellFoundedInduction

-----------------------------------------------------------------------------
(* The least and the greatest of a set of numbers. *)

LEMMA LessThan ==
  \E R : (\A a, b \in Nat : a < b => <<a, b>> \in R) /\ IsWellFoundedOn(R, Nat)
<1> DEFINE R == OpToRel(<, Nat)
<1>1. IsWellFoundedOn(R, Nat)
  BY NatLessThanWellFounded
<1>2. \A a, b \in Nat : a < b => <<a, b>> \in R
  BY DEF OpToRel
<1> HIDE DEF R
<1>3. QED
  BY <1>1, <1>2

LEMMA Least ==
  ASSUME NEW T, T \subseteq Nat, T # {}
  PROVE  \E x \in T : \A y \in T : x <= y
<1>1. PICK R : (\A a, b \in Nat : a < b => <<a, b>> \in R) /\ IsWellFoundedOn(R, Nat)
  BY LessThan
<1>2. IsWellFoundedOn(R, Nat)
  BY <1>1
<1>3. PICK x \in T : \A y \in T : ~(<<y, x>> \in R)
  BY <1>2, WFMin
<1>4. ASSUME NEW y \in T PROVE x <= y
  <2>1. x \in Nat /\ y \in Nat
    OBVIOUS
  <2>2. ~(<<y, x>> \in R)
    BY <1>3
  <2>3. ~(y < x)
    BY <1>1, <2>1, <2>2
  <2>4. QED
    BY <2>1, <2>3
<1>5. QED
  BY <1>4

LEMMA MinIs ==
  ASSUME NEW T, T \subseteq Nat, T # {}
  PROVE  Min(T) \in T /\ \A y \in T : Min(T) <= y
  BY Least DEF Min

LEMMA MaxIs ==
  ASSUME NEW n \in Nat, NEW T, T \subseteq 0..n, T # {}
  PROVE  Max(T) \in T /\ \A y \in T : Max(T) >= y
<1> DEFINE D == {d \in Nat : n - d \in T}
<1>1. D \subseteq Nat
  OBVIOUS
<1>2. D # {}
  <2>1. PICK y \in T : TRUE
    OBVIOUS
  <2>2. n - y \in Nat /\ n - (n - y) = y
    OBVIOUS
  <2>3. QED
    BY <2>1, <2>2
<1>3. PICK d \in D : \A e \in D : d <= e
  <2> HIDE DEF D
  <2>1. QED
    BY <1>1, <1>2, Least
<1>4. ASSUME NEW y \in T PROVE n - d >= y
  <2>1. n - y \in Nat /\ n - (n - y) = y
    OBVIOUS
  <2>2. n - y \in D
    BY <2>1
  <2>3. d <= n - y
    BY <1>3, <2>2
  <2>4. QED
    BY <2>1, <2>3
<1>5. \E x \in T : \A y \in T : x >= y
  BY <1>4
<1>6. QED
  BY <1>5 DEF Max

-----------------------------------------------------------------------------
(* The group of a shard: its invariant. *)

\* While no side has had a majority, contact younger than the cut was on one side.
Sides ==
  /\ Whole(group) => cut = 0
  /\ cut > 0 =>
       /\ \A r \in replies : group[r.from] = group[r.to]
       /\ \A n, p \in Node : acked[n][p] < cut => group[p] = group[n]

\* Q elected n: since then nobody in Q has answered a leader of an earlier term.
Behind(n, Q) ==
  /\ Q \subseteq Node /\ Majority(Q)
  /\ \A p \in Q :
       /\ term[p] >= term[n]
       /\ \A m \in Node : term[m] < term[n] => acked[m][p] >= elected[n]
       /\ \A r \in replies :
            r.from = p /\ r.asked < term[n] /\ Counts(r) => elected[n] = 0

Elected == \A n \in Node : leads[n] => \E Q \in SUBSET Node : Behind(n, Q)

GroupInv == ShardTypeOK /\ Sides /\ Elected

LEMMA Sizes == /\ Replicas \in Nat /\ QuorumWindow \in Nat /\ ElectionMin \in Nat
               /\ MaxTerm \in Nat /\ MaxSplits \in Nat
               /\ Replicas > 0 /\ QuorumWindow > 0 /\ ElectionMin > 0
               /\ Stale \in Nat /\ Stale = QuorumWindow + 1
  BY ShardAssumption DEF Stale

LEMMA NodesAre == IsFiniteSet(Node) /\ Cardinality(Node) = Replicas
  BY Sizes, FS_Interval DEF Node

LEMMA MajoritiesGrow ==
  ASSUME NEW Q, NEW R \in SUBSET Node, Q \subseteq R, Majority(Q)
  PROVE  Majority(R)
<1>1. IsFiniteSet(R) /\ Cardinality(R) \in Nat
  BY NodesAre, FS_Subset, FS_CardinalityType
<1>2. Cardinality(Q) <= Cardinality(R) /\ Cardinality(Q) \in Nat
  BY <1>1, FS_Subset, FS_CardinalityType
<1>3. QED
  BY <1>1, <1>2, Sizes DEF Majority

LEMMA MajoritiesMeet ==
  ASSUME NEW Q \in SUBSET Node, NEW R \in SUBSET Node, Majority(Q), Majority(R)
  PROVE  \E q \in Node : q \in Q /\ q \in R
<1>1. Cardinality(Q) \in Nat /\ Cardinality(R) \in Nat
  BY NodesAre, FS_Subset, FS_CardinalityType
<1>2. Cardinality(Q) + Cardinality(R) > Cardinality(Node)
  BY <1>1, NodesAre, Sizes DEF Majority
<1>3. Q \cap R # {}
  BY <1>2, NodesAre, FS_MajoritiesIntersect
<1>4. QED
  BY <1>3

LEMMA OlderIs ==
  ASSUME NEW a \in Age
  PROVE  Older(a) \in Age /\ Older(a) = IF a < Stale THEN a + 1 ELSE Stale
<1>1. a \in Nat /\ a <= Stale /\ Stale \in Nat
  BY Sizes DEF Age
<1>2. Min({a + 1, Stale}) \in {a + 1, Stale} /\ \A y \in {a + 1, Stale} : Min({a + 1, Stale}) <= y
  BY <1>1, MinIs
<1>3. QED
  BY <1>1, <1>2 DEF Older, Age

LEMMA IdleIs ==
  ASSUME NEW a \in 0..ElectionMin
  PROVE  Min({a + 1, ElectionMin}) \in 0..ElectionMin
<1>1. {a + 1, ElectionMin} \subseteq Nat
  BY Sizes
<1>2. Min({a + 1, ElectionMin}) \in {a + 1, ElectionMin}
        /\ \A y \in {a + 1, ElectionMin} : Min({a + 1, ElectionMin}) <= y
  BY <1>1, MinIs
<1>3. QED
  BY <1>1, <1>2, Sizes

-----------------------------------------------------------------------------
(* What the steps of the group do. *)

\* An election, of which what counts for the invariant.
LEMMA ElectIs ==
  ASSUME ShardTypeOK, NEW n \in Node, NEW reached \in SUBSET Peers(n),
         NEW granting \in SUBSET reached, Elect(n, reached, granting)
  PROVE  /\ ShardTypeOK'
         /\ UNCHANGED <<acked, replies, group, cut>>
         /\ \A m \in Node : term'[m] >= term[m]
         /\ \A m \in Node \ {n} : elected'[m] = elected[m]
                                  /\ (leads'[m] => leads[m] /\ term'[m] = term[m])
         /\ leads'[n] => /\ elected'[n] = 0 /\ Majority(granting \cup {n})
                         /\ \A p \in granting \cup {n} : term'[p] = term'[n]
<1>1. PICK T : T = term[n] + 1
  OBVIOUS
<1>2. T \in 1..MaxTerm /\ term[n] \in 0..MaxTerm
  BY <1>1, Sizes DEF Elect, ShardTypeOK
<1>3. PICK behind, ahead : behind = {v \in reached : term[v] < T} /\ ahead = {v \in reached : term[v] > T}
  OBVIOUS
<1>4. reached \subseteq Node /\ n \notin reached /\ behind \subseteq Node /\ ahead \subseteq Node
        /\ granting \subseteq Node /\ n \notin behind /\ n \notin granting
  BY <1>3 DEF Peers
<1>5. PICK wins : wins = (ahead = {} /\ Majority(granting \cup {n}))
  OBVIOUS
<1>6. wins \in BOOLEAN
  BY <1>5
<1>7. PICK later : later = Max({term[v] : v \in ahead} \cup {T})
  OBVIOUS
<1>8. later \in 0..MaxTerm /\ later >= T /\ (ahead = {} => later = T)
  <2>1. PICK S : S = {term[v] : v \in ahead} \cup {T}
    OBVIOUS
  <2>2. S \subseteq 0..MaxTerm /\ T \in S
    BY <1>2, <1>4, <2>1, Sizes DEF ShardTypeOK
  <2>3. Max(S) \in S /\ \A y \in S : Max(S) >= y
    BY <2>2, Sizes, MaxIs
  <2>4. later = Max(S)
    BY <1>7, <2>1
  <2>5. ahead = {} => S = {T}
    BY <2>1
  <2>6. QED
    BY <2>2, <2>3, <2>4, <2>5
<1>9. leads' = [m \in Node |-> IF m = n THEN wins ELSE leads[m] /\ m \notin behind]
  BY <1>1, <1>3, <1>5 DEF Elect
<1>10. term' = [m \in Node |-> IF m = n THEN later ELSE IF m \in behind THEN T ELSE term[m]]
  BY <1>1, <1>3, <1>7 DEF Elect
<1>11. idle' = [m \in Node |-> IF m \in {n} \cup behind \cup granting THEN 0 ELSE idle[m]]
  BY <1>1, <1>3 DEF Elect
<1>12. elected' = [elected EXCEPT ![n] = IF wins THEN 0 ELSE elected[n]]
  BY <1>1, <1>3, <1>5 DEF Elect
<1>13. voted' = [m \in Node |-> CASE m = n -> later = T
                                  [] m \in granting -> TRUE
                                  [] OTHER -> voted[m] /\ m \notin behind]
  BY <1>1, <1>3, <1>7 DEF Elect
<1>14. UNCHANGED <<acked, replies, group, cut, splits>>
  BY DEF Elect
<1>15. granting \subseteq behind \cup {v \in reached : term[v] = T /\ ~voted[v]}
  BY <1>1, <1>3 DEF Elect
<1>16. voted' \in [Node -> BOOLEAN]
  <2>1. voted \in [Node -> BOOLEAN]
    BY DEF ShardTypeOK
  <2>2. \A m \in Node : (CASE m = n -> later = T
                           [] m \in granting -> TRUE
                           [] OTHER -> voted[m] /\ m \notin behind) \in BOOLEAN
    BY Zenon, <2>1
  <2>3. QED
    BY <1>13, <2>2, Zenon
<1>17. leads' \in [Node -> BOOLEAN]
  <2>1. \A m \in Node : (IF m = n THEN wins ELSE leads[m] /\ m \notin behind) \in BOOLEAN
    BY <1>6
  <2>2. QED
    BY <1>9, <2>1, Zenon
<1>18. \A m \in Node : term'[m] = IF m = n THEN later ELSE IF m \in behind THEN T ELSE term[m]
  BY <1>10
<1>19. \A m \in Node : term[m] \in 0..MaxTerm
  BY DEF ShardTypeOK
<1>20. T \in 0..MaxTerm
  BY <1>2
<1>21. term' \in [Node -> 0..MaxTerm]
  BY <1>8, <1>10, <1>19, <1>20
<1>22. idle' \in [Node -> 0..ElectionMin]
  BY <1>11, Sizes DEF ShardTypeOK
<1>23. elected' \in [Node -> Age]
  <2>1. 0 \in Age
    BY Sizes DEF Age
  <2>2. QED
    BY <1>12, <2>1 DEF ShardTypeOK
<1>24. ShardTypeOK'
  BY <1>14, <1>16, <1>17, <1>21, <1>22, <1>23 DEF ShardTypeOK
<1>25. \A m \in Node : term'[m] >= term[m]
  BY <1>1, <1>3, <1>8, <1>18, <1>19
<1>26. \A m \in Node \ {n} : elected'[m] = elected[m]
                             /\ (leads'[m] => leads[m] /\ term'[m] = term[m])
  <2>1. \A m \in Node \ {n} : elected'[m] = elected[m]
    BY <1>12 DEF ShardTypeOK
  <2>2. \A m \in Node \ {n} : leads'[m] => leads[m] /\ m \notin behind
    BY <1>9
  <2>3. QED
    BY <1>18, <2>1, <2>2
<1>27. leads'[n] => wins
  BY <1>9
<1>28. ASSUME wins
       PROVE  /\ elected'[n] = 0 /\ Majority(granting \cup {n})
              /\ \A p \in granting \cup {n} : term'[p] = term'[n]
  <2>1. elected'[n] = 0
    BY <1>12, <1>28 DEF ShardTypeOK
  <2>2. ahead = {} /\ Majority(granting \cup {n}) /\ later = T
    BY <1>5, <1>8, <1>28
  <2>3. \A p \in granting : term'[p] = T
    BY <1>4, <1>15, <1>18
  <2>4. QED
    BY <1>18, <2>1, <2>2, <2>3
<1>29. QED
  BY <1>14, <1>24, <1>25, <1>26, <1>27, <1>28


LEMMA BeatIs ==
  ASSUME ShardTypeOK, NEW l \in Node, NEW p \in Node, Beat(l, p)
  PROVE  /\ ShardTypeOK'
         /\ UNCHANGED <<acked, group, elected, cut>>
         /\ \A m \in Node : term'[m] >= term[m] /\ (leads'[m] => leads[m] /\ term'[m] = term[m])
         /\ \E r \in Reply : /\ replies' = replies \cup {r}
                             /\ r.to = l /\ r.from = p /\ r.asked = term[l]
                             /\ r.term >= term[p] /\ group[p] = group[l]
<1>1. leads[l] /\ p \in Node \ {l} /\ group[p] = group[l]
  BY DEF Beat, Peers
<1>2. \A m \in Node : term[m] \in 0..MaxTerm /\ term[m] \in Nat
  BY DEF ShardTypeOK
<1>3. PICK t : t = Max({term[l], term[p]})
  OBVIOUS
<1>4. t \in 0..MaxTerm /\ t >= term[p]
  <2>1. Max({term[l], term[p]}) \in {term[l], term[p]}
          /\ \A y \in {term[l], term[p]} : Max({term[l], term[p]}) >= y
    BY <1>2, Sizes, MaxIs
  <2>2. QED
    BY <1>2, <1>3, <2>1
<1>5. PICK r : r = [to |-> l, from |-> p, asked |-> term[l], term |-> t]
  OBVIOUS
<1>6. r \in Reply /\ r.to = l /\ r.from = p /\ r.asked = term[l] /\ r.term = t
  BY <1>2, <1>4, <1>5 DEF Reply
<1>7. replies' = replies \cup {r}
  BY <1>3, <1>5 DEF Beat
<1>8. UNCHANGED <<acked, group, elected, cut, splits>>
  BY DEF Beat
<1>9. CASE term[p] > term[l]
  <2>1. UNCHANGED <<leads, term, voted, idle>>
    BY <1>9 DEF Beat
  <2>2. ShardTypeOK'
    BY <1>6, <1>7, <1>8, <2>1 DEF ShardTypeOK
  <2>3. QED
    BY <1>1, <1>2, <1>4, <1>6, <1>7, <1>8, <2>1, <2>2
<1>10. CASE ~(term[p] > term[l])
  <2>1. /\ leads' = [leads EXCEPT ![p] = FALSE]
        /\ term' = [term EXCEPT ![p] = term[l]]
        /\ voted' = [voted EXCEPT ![p] = voted[p] /\ term[p] = term[l]]
        /\ idle' = [idle EXCEPT ![p] = 0]
    BY <1>10 DEF Beat
  <2>2. leads' \in [Node -> BOOLEAN] /\ voted' \in [Node -> BOOLEAN]
    <3>1. leads \in [Node -> BOOLEAN] /\ voted \in [Node -> BOOLEAN]
      BY DEF ShardTypeOK
    <3>2. (voted[p] /\ term[p] = term[l]) \in BOOLEAN
      OBVIOUS
    <3>3. QED
      BY <2>1, <3>1, <3>2
  <2>3. term' \in [Node -> 0..MaxTerm] /\ idle' \in [Node -> 0..ElectionMin]
    BY <1>2, <2>1, Sizes DEF ShardTypeOK
  <2>4. ShardTypeOK'
    BY <1>6, <1>7, <1>8, <2>2, <2>3 DEF ShardTypeOK
  <2>5. \A m \in Node : term'[m] >= term[m] /\ (leads'[m] => leads[m] /\ term'[m] = term[m])
    BY <1>2, <1>10, <2>1 DEF ShardTypeOK
  <2>6. QED
    BY <1>1, <1>4, <1>6, <1>7, <1>8, <2>4, <2>5
<1>11. QED
  BY <1>9, <1>10

LEMMA AnsweredIs ==
  ASSUME ShardTypeOK, NEW r \in replies, Answered(r)
  PROVE  /\ ShardTypeOK'
         /\ UNCHANGED <<group, elected, cut>> /\ replies' = replies \ {r}
         /\ \A m \in Node : term'[m] >= term[m] /\ (leads'[m] => leads[m] /\ term'[m] = term[m])
         /\ \/ acked' = acked
            \/ /\ acked' = [acked EXCEPT ![r.to][r.from] = 0] /\ r.to \in Node /\ r.from \in Node
               /\ Counts(r) /\ r.asked = term[r.to]
<1>1. PICK q \in Node : q = r.to
  BY DEF ShardTypeOK, Reply
<1>2. r.from \in Node /\ r.term \in 0..MaxTerm /\ r.asked \in 0..MaxTerm
  BY DEF ShardTypeOK, Reply
<1>3. \A m \in Node : term[m] \in 0..MaxTerm /\ term[m] \in Nat
  BY DEF ShardTypeOK
<1>4. replies' = replies \ {r} /\ UNCHANGED <<group, elected, cut, splits>>
  BY DEF Answered
<1>5. CASE UNCHANGED <<leads, term, voted, idle, acked>>
  <2>1. ShardTypeOK'
    BY <1>4, <1>5 DEF ShardTypeOK
  <2>2. QED
    BY <1>3, <1>4, <1>5, <2>1
<1>6. CASE /\ Counts(r) /\ leads[r.to] /\ term[r.to] = r.asked
           /\ acked' = [acked EXCEPT ![r.to][r.from] = 0]
           /\ UNCHANGED <<leads, term, voted, idle>>
  <2>1. 0 \in Age
    BY Sizes DEF Age
  <2>2. acked' \in [Node -> [Node -> Age]]
    BY <1>6, <2>1 DEF ShardTypeOK
  <2>3. ShardTypeOK'
    BY <1>4, <1>6, <2>2 DEF ShardTypeOK
  <2>4. QED
    BY <1>1, <1>2, <1>3, <1>4, <1>6, <2>3
<1>7. CASE /\ ~Counts(r) /\ r.term > term[r.to]
           /\ leads' = [leads EXCEPT ![r.to] = FALSE]
           /\ term' = [term EXCEPT ![r.to] = r.term]
           /\ voted' = [voted EXCEPT ![r.to] = FALSE]
           /\ idle' = [idle EXCEPT ![r.to] = 0]
           /\ UNCHANGED acked
  <2>1. leads' \in [Node -> BOOLEAN] /\ voted' \in [Node -> BOOLEAN]
    BY <1>7 DEF ShardTypeOK
  <2>2. term' \in [Node -> 0..MaxTerm]
    BY <1>2, <1>7 DEF ShardTypeOK
  <2>6. idle' \in [Node -> 0..ElectionMin]
    <3>1. idle \in [Node -> 0..ElectionMin]
      BY DEF ShardTypeOK
    <3>2. 0 \in 0..ElectionMin
      BY Sizes
    <3>3. QED
      BY <1>7, <3>1, <3>2
  <2>3. ShardTypeOK'
    BY <1>4, <1>7, <2>1, <2>2, <2>6 DEF ShardTypeOK
  <2>4. \A m \in Node : term'[m] >= term[m] /\ (leads'[m] => leads[m] /\ term'[m] = term[m])
    BY <1>1, <1>2, <1>3, <1>7 DEF ShardTypeOK
  <2>5. QED
    BY <1>4, <1>7, <2>3, <2>4
<1>8. QED
  BY <1>5, <1>6, <1>7 DEF Answered

LEMMA PassIs ==
  ASSUME ShardTypeOK, Pass
  PROVE  /\ ShardTypeOK'
         /\ UNCHANGED <<leads, term, group, replies>> /\ replies = {}
         /\ \A n, p \in Node : acked'[n][p] = Older(acked[n][p])
         /\ \A n \in Node : elected'[n] = Older(elected[n])
         /\ cut' = IF Whole(group) THEN 0 ELSE Older(cut)
<1>1. UNCHANGED <<leads, term, voted, replies, group, splits>> /\ replies = {}
  BY DEF Pass
<1>2. /\ idle' = [n \in Node |-> Min({idle[n] + 1, ElectionMin})]
      /\ acked' = [n \in Node |-> [p \in Node |-> Older(acked[n][p])]]
      /\ elected' = [n \in Node |-> Older(elected[n])]
      /\ cut' = IF Whole(group) THEN 0 ELSE Older(cut)
  BY DEF Pass
<1>3. idle' \in [Node -> 0..ElectionMin]
  BY <1>2, IdleIs DEF ShardTypeOK
<1>4. \A n, p \in Node : Older(acked[n][p]) \in Age
  BY OlderIs DEF ShardTypeOK
<1>5. acked' \in [Node -> [Node -> Age]]
  BY <1>2, <1>4
<1>6. elected' \in [Node -> Age]
  BY <1>2, OlderIs DEF ShardTypeOK
<1>7. cut' \in Age
  <2>1. 0 \in Age /\ Older(cut) \in Age
    BY OlderIs, Sizes DEF ShardTypeOK, Age
  <2>2. QED
    BY <1>2, <2>1
<1>8. ShardTypeOK'
  BY <1>1, <1>3, <1>5, <1>6, <1>7 DEF ShardTypeOK
<1>9. QED
  BY <1>1, <1>2, <1>8

-----------------------------------------------------------------------------
(* The invariant of the group is one. *)

LEMMA SidesNext ==
  Sides' <=>
    /\ Whole(group') => cut' = 0
    /\ cut' > 0 =>
         /\ \A r \in replies' : group'[r.from] = group'[r.to]
         /\ \A n, p \in Node : acked'[n][p] < cut' => group'[p] = group'[n]
  BY DEF Sides

LEMMA SidesStep ==
  ASSUME GroupInv, [ShardNext]_shardVars
  PROVE  Sides'
<1>1. ShardTypeOK /\ Sides
  BY DEF GroupInv
<1>2. ASSUME UNCHANGED <<acked, group, cut>>, replies' \subseteq replies PROVE Sides'
  BY <1>1, <1>2, SidesNext DEF Sides
<1>3. ASSUME NEW n \in Node, NEW reached \in SUBSET Peers(n), NEW granting \in SUBSET reached,
             Elect(n, reached, granting)
      PROVE  Sides'
  BY <1>1, <1>2, <1>3, ElectIs
<1>4. ASSUME NEW l \in Node, NEW p \in Node, Beat(l, p) PROVE Sides'
  <2>1. UNCHANGED <<acked, group, cut>>
    BY <1>1, <1>4, BeatIs
  <2>2. PICK r \in Reply : /\ replies' = replies \cup {r} /\ r.to = l /\ r.from = p
                           /\ group[p] = group[l]
    BY <1>1, <1>4, BeatIs
  <2>3. QED
    BY <1>1, <2>1, <2>2, SidesNext DEF Sides
<1>5. ASSUME NEW r \in replies, Answered(r) PROVE Sides'
  <2>1. UNCHANGED <<group, cut>> /\ replies' = replies \ {r}
    BY <1>1, <1>5, AnsweredIs
  <2>2. CASE acked' = acked
    BY <1>2, <2>1, <2>2
  <2>3. CASE acked' = [acked EXCEPT ![r.to][r.from] = 0] /\ r.to \in Node /\ r.from \in Node
    <3>1. \A n, p \in Node : acked'[n][p] = IF n = r.to /\ p = r.from THEN 0 ELSE acked[n][p]
      BY <1>1, <2>3 DEF ShardTypeOK
    <3>2. cut > 0 => group[r.from] = group[r.to]
      BY <1>1 DEF Sides
    <3>3. QED
      BY <1>1, <2>1, <3>1, <3>2, SidesNext DEF Sides
  <2>4. QED
    BY <1>1, <1>5, <2>2, <2>3, AnsweredIs
<1>6. ASSUME NEW g \in Partitions, Partition(g) PROVE Sides'
  <2>1. cut' = 0
    BY <1>6 DEF Partition
  <2>2. QED
    BY <2>1, SidesNext
<1>7. CASE Pass
  <2>1. /\ UNCHANGED <<group, replies>> /\ replies = {}
        /\ \A n, p \in Node : acked'[n][p] = Older(acked[n][p])
        /\ cut' = IF Whole(group) THEN 0 ELSE Older(cut)
    BY <1>1, <1>7, PassIs
  <2>2. ASSUME NEW n \in Node, NEW p \in Node, acked'[n][p] < cut', ~Whole(group)
        PROVE  group[p] = group[n]
    <3>1. acked[n][p] \in Age /\ cut \in Age
      BY <1>1 DEF ShardTypeOK
    <3>2. acked[n][p] < cut
      BY <2>1, <2>2, <3>1, OlderIs, Sizes DEF Age
    <3>3. cut > 0
      BY <3>1, <3>2 DEF Age
    <3>4. QED
      BY <1>1, <3>2, <3>3 DEF Sides
  <2>3. QED
    BY <2>1, <2>2, SidesNext
<1>8. CASE UNCHANGED shardVars
  BY <1>2, <1>8 DEF shardVars
<1>9. QED
  BY <1>3, <1>4, <1>5, <1>6, <1>7, <1>8 DEF ShardNext

\* Behind, of the values of the variables.
BehindOf(tm, ak, el, rp, n, Q) ==
  /\ Q \subseteq Node /\ Majority(Q)
  /\ \A p \in Q :
       /\ tm[p] >= tm[n]
       /\ \A m \in Node : tm[m] < tm[n] => ak[m][p] >= el[n]
       /\ \A r \in rp : r.from = p /\ r.asked < tm[n] /\ r.term = r.asked => el[n] = 0

LEMMA ElectedIs ==
  Elected <=> \A n \in Node : leads[n] =>
                \E Q \in SUBSET Node : BehindOf(term, acked, elected, replies, n, Q)
  BY DEF Elected, Behind, BehindOf, Counts

LEMMA ElectedNext ==
  Elected' <=> \A n \in Node : leads'[n] =>
                 \E Q \in SUBSET Node : BehindOf(term', acked', elected', replies', n, Q)
  BY DEF Elected, Behind, BehindOf, Counts

LEMMA ElectedStep ==
  ASSUME GroupInv, [ShardNext]_shardVars
  PROVE  Elected'
<1>1. ShardTypeOK /\ Elected
  BY DEF GroupInv
<1>2. /\ \A m \in Node : term[m] \in Nat /\ elected[m] \in Nat
      /\ \A m, p \in Node : acked[m][p] \in Nat
      /\ \A r \in replies : r.from \in Node /\ r.to \in Node /\ r.asked \in Nat /\ r.term \in Nat
  BY <1>1, Sizes DEF ShardTypeOK, Reply, Age
<1>3. ASSUME NEW n \in Node, leads'[n],
             leads[n], term'[n] = term[n], elected'[n] = elected[n],
             \A m \in Node : term'[m] \in Nat /\ term'[m] >= term[m],
             \A m, p \in Node :
               \/ acked'[m][p] = acked[m][p]
               \/ /\ acked'[m][p] = 0
                  /\ \E r \in replies : r.from = p /\ r.asked = term[m] /\ r.term = r.asked,
             \A r \in replies' : r \in replies \/ r.term # r.asked
                                   \/ ~(r.term < term[n]) \/ term[r.from] < term[n]
      PROVE  \E Q \in SUBSET Node : BehindOf(term', acked', elected', replies', n, Q)
  <2>1. PICK Q \in SUBSET Node : BehindOf(term, acked, elected, replies, n, Q)
    BY <1>1, <1>3, ElectedIs
  <2>2. ASSUME NEW p \in Q
        PROVE  /\ term'[p] >= term'[n]
               /\ \A m \in Node : term'[m] < term'[n] => acked'[m][p] >= elected'[n]
               /\ \A r \in replies' : r.from = p /\ r.asked < term'[n] /\ r.term = r.asked
                                        => elected'[n] = 0
    <3>1. term[p] >= term[n] /\ p \in Node
      BY <2>1 DEF BehindOf
    <3>2. term'[p] >= term'[n]
      BY <1>2, <1>3, <3>1
    <3>3. ASSUME NEW m \in Node, term'[m] < term'[n] PROVE acked'[m][p] >= elected'[n]
      <4>1. term[m] < term[n]
        BY <1>2, <1>3, <3>3
      <4>2. acked[m][p] >= elected[n]
        BY <2>1, <4>1 DEF BehindOf
      <4>3. CASE acked'[m][p] = acked[m][p]
        BY <1>3, <4>2, <4>3
      <4>4. CASE /\ acked'[m][p] = 0
                 /\ \E r \in replies : r.from = p /\ r.asked = term[m] /\ r.term = r.asked
        <5>1. elected[n] = 0
          BY <2>1, <4>1, <4>4 DEF BehindOf
        <5>2. QED
          BY <1>3, <4>4, <5>1
      <4>5. QED
        BY <1>3, <3>1, <4>3, <4>4
    <3>4. ASSUME NEW r \in replies', r.from = p, r.asked < term'[n], r.term = r.asked
          PROVE  elected'[n] = 0
      <4>1. r \in replies \/ ~(r.term < term[n]) \/ term[r.from] < term[n]
        BY <1>3, <3>4
      <4>2. CASE r \in replies
        BY <1>3, <2>1, <3>4, <4>2 DEF BehindOf
      <4>3. CASE ~(r.term < term[n])
        BY <1>3, <3>4, <4>3
      <4>4. CASE term[r.from] < term[n]
        BY <1>2, <3>1, <3>4, <4>4
      <4>5. QED
        BY <4>1, <4>2, <4>3, <4>4
    <3>5. QED
      BY <3>2, <3>3, <3>4
  <2>3. QED
    BY <2>1, <2>2 DEF BehindOf
<1>4. ASSUME NEW l \in Node, NEW p \in Node, Beat(l, p) PROVE Elected'
  <2>1. /\ UNCHANGED <<acked, elected>> /\ ShardTypeOK'
        /\ \A m \in Node : term'[m] >= term[m] /\ (leads'[m] => leads[m] /\ term'[m] = term[m])
    BY <1>1, <1>4, BeatIs
  <2>2. PICK r \in Reply : /\ replies' = replies \cup {r} /\ r.from = p /\ r.term >= term[p]
    BY <1>1, <1>4, BeatIs
  <2>3. r.term \in Nat /\ \A m \in Node : term'[m] \in Nat
    BY <2>1, <2>2, Sizes DEF Reply, ShardTypeOK
  <2>4. ASSUME NEW n \in Node, leads'[n]
        PROVE  \E Q \in SUBSET Node : BehindOf(term', acked', elected', replies', n, Q)
    <3>1. \A s \in replies' : s \in replies \/ ~(s.term < term[n]) \/ term[s.from] < term[n]
      BY <1>2, <2>2, <2>3
    <3>2. QED
      BY <1>3, <2>1, <2>3, <2>4, <3>1
  <2>5. QED
    BY <2>4, ElectedNext
<1>5. ASSUME NEW r \in replies, Answered(r) PROVE Elected'
  <2>1. /\ elected' = elected /\ replies' = replies \ {r} /\ ShardTypeOK'
        /\ \A m \in Node : term'[m] >= term[m] /\ (leads'[m] => leads[m] /\ term'[m] = term[m])
    BY <1>1, <1>5, AnsweredIs
  <2>2. \A m \in Node : term'[m] \in Nat
    BY <2>1, Sizes DEF ShardTypeOK
  <2>3. \A m, p \in Node :
          \/ acked'[m][p] = acked[m][p]
          \/ /\ acked'[m][p] = 0
             /\ \E s \in replies : s.from = p /\ s.asked = term[m] /\ s.term = s.asked
    <3>1. CASE acked' = acked
      BY <3>1
    <3>2. CASE /\ acked' = [acked EXCEPT ![r.to][r.from] = 0] /\ r.to \in Node /\ r.from \in Node
               /\ Counts(r) /\ r.asked = term[r.to]
      <4>1. \A m, p \in Node : acked'[m][p] = IF m = r.to /\ p = r.from THEN 0 ELSE acked[m][p]
        BY <1>1, <3>2 DEF ShardTypeOK
      <4>2. r.term = r.asked
        BY <3>2 DEF Counts
      <4>3. QED
        BY <3>2, <4>1, <4>2
    <3>3. QED
      BY <1>1, <1>5, <3>1, <3>2, AnsweredIs
  <2>4. ASSUME NEW n \in Node, leads'[n]
        PROVE  \E Q \in SUBSET Node : BehindOf(term', acked', elected', replies', n, Q)
    BY <1>3, <2>1, <2>2, <2>3, <2>4
  <2>5. QED
    BY <2>4, ElectedNext
<1>6. ASSUME NEW k \in Node, NEW reached \in SUBSET Peers(k), NEW granting \in SUBSET reached,
             Elect(k, reached, granting)
      PROVE  Elected'
  <2>1. /\ ShardTypeOK' /\ UNCHANGED <<acked, replies>>
        /\ \A m \in Node : term'[m] >= term[m]
        /\ \A m \in Node \ {k} : elected'[m] = elected[m]
                                  /\ (leads'[m] => leads[m] /\ term'[m] = term[m])
        /\ leads'[k] => /\ elected'[k] = 0 /\ Majority(granting \cup {k})
                        /\ \A p \in granting \cup {k} : term'[p] = term'[k]
    BY <1>1, <1>6, ElectIs
  <2>2. \A m \in Node : term'[m] \in Nat
    BY <2>1, Sizes DEF ShardTypeOK
  <2>3. ASSUME NEW n \in Node, leads'[n]
        PROVE  \E Q \in SUBSET Node : BehindOf(term', acked', elected', replies', n, Q)
    <3>1. CASE n # k
      BY <1>3, <2>1, <2>2, <2>3, <3>1
    <3>2. CASE n = k
      <4>1. PICK Q : Q = granting \cup {k}
        OBVIOUS
      <4>2. Q \in SUBSET Node
        BY <1>6, <4>1 DEF Peers
      <4>3. elected'[n] = 0 /\ Majority(Q) /\ \A p \in Q : term'[p] = term'[n]
        BY <2>1, <2>3, <3>2, <4>1
      <4>4. \A p \in Q : term'[p] >= term'[n]
        BY <2>2, <4>2, <4>3
      <4>5. \A p \in Q, m \in Node : acked'[m][p] >= elected'[n]
        BY <1>2, <2>1, <4>2, <4>3
      <4>6. QED
        BY <4>2, <4>3, <4>4, <4>5 DEF BehindOf
    <3>3. QED
      BY <3>1, <3>2
  <2>4. QED
    BY <2>3, ElectedNext
<1>7. ASSUME UNCHANGED <<leads, term, acked, elected, replies>> PROVE Elected'
  BY <1>1, <1>7, ElectedIs, ElectedNext
<1>8. ASSUME NEW g \in Partitions, Partition(g) PROVE Elected'
  BY <1>7, <1>8 DEF Partition
<1>9. CASE Pass
  <2>1. /\ UNCHANGED <<leads, term, replies>> /\ replies = {}
        /\ \A n, p \in Node : acked'[n][p] = Older(acked[n][p])
        /\ \A n \in Node : elected'[n] = Older(elected[n])
    BY <1>1, <1>9, PassIs
  <2>2. ASSUME NEW n \in Node, leads[n]
        PROVE  \E Q \in SUBSET Node : BehindOf(term', acked', elected', replies', n, Q)
    <3>1. PICK Q \in SUBSET Node : BehindOf(term, acked, elected, replies, n, Q)
      BY <1>1, <2>2, ElectedIs
    <3>2. ASSUME NEW p \in Q, NEW m \in Node, term[m] < term[n]
          PROVE  acked'[m][p] >= elected'[n]
      <4>1. acked[m][p] \in Age /\ elected[n] \in Age /\ p \in Node
        BY <1>1 DEF ShardTypeOK
      <4>2. acked[m][p] >= elected[n]
        BY <3>1, <3>2 DEF BehindOf
      <4>3. QED
        BY <2>1, <4>1, <4>2, OlderIs, Sizes DEF Age
    <3>3. QED
      BY <2>1, <3>1, <3>2 DEF BehindOf
  <2>3. QED
    BY <2>1, <2>2, ElectedNext
<1>10. CASE UNCHANGED shardVars
  BY <1>7, <1>10 DEF shardVars
<1>11. QED
  BY <1>4, <1>5, <1>6, <1>8, <1>9, <1>10 DEF ShardNext

LEMMA GroupInit == ShardInit => GroupInv
<1> SUFFICES ASSUME ShardInit PROVE GroupInv
  OBVIOUS
<1>1. ShardTypeOK
  <2>1. [n \in Node |-> 1] \in Partitions
    <3>1. Node \subseteq Nat /\ 1 \in Node /\ \A n \in Node : 1 <= n
      BY Sizes DEF Node
    <3>2. QED
      BY <3>1 DEF Partitions
  <2>2. 0 \in Age /\ Stale \in Age /\ 0 \in 0..MaxTerm /\ 0 \in 0..ElectionMin /\ 0 \in 0..MaxSplits
    BY Sizes DEF Age
  <2>3. QED
    BY <2>1, <2>2 DEF ShardInit, ShardTypeOK
<1>2. Sides
  BY DEF ShardInit, Sides
<1>3. Elected
  BY DEF ShardInit, Elected
<1>4. QED
  BY <1>1, <1>2, <1>3 DEF GroupInv

LEMMA GroupStep == GroupInv /\ [ShardNext]_shardVars => GroupInv'
<1> SUFFICES ASSUME GroupInv, [ShardNext]_shardVars PROVE GroupInv'
  OBVIOUS
<1>1. ShardTypeOK
  BY DEF GroupInv
<1>2. ShardTypeOK'
  <2>1. ASSUME NEW g \in Partitions, Partition(g) PROVE ShardTypeOK'
    <3>1. splits' \in 0..MaxSplits /\ cut' \in Age
      BY <1>1, <2>1, Sizes DEF Partition, ShardTypeOK, Age
    <3>2. QED
      BY <1>1, <2>1, <3>1 DEF Partition, ShardTypeOK
  <2>2. CASE UNCHANGED shardVars
    BY <1>1, <2>2 DEF shardVars, ShardTypeOK
  <2>3. QED
    BY <1>1, <2>1, <2>2, ElectIs, BeatIs, AnsweredIs, PassIs DEF ShardNext
<1>3. Sides' /\ Elected'
  BY SidesStep, ElectedStep
<1>4. QED
  BY <1>2, <1>3 DEF GroupInv

LEMMA Groups == ShardSpec => []GroupInv
  BY GroupInit, GroupStep, PTL DEF ShardSpec

\* The type of the group: terms and elections within their bounds, contacts no further
\* back than the window, the cut one of the two sides (package quorum of services/shard).
THEOREM GroupTypeCorrect == ShardSpec => []ShardTypeOK
  BY Groups, PTL DEF GroupInv

\* An active leader is a leader.
LEMMA AvailableIs ==
  ASSUME Available
  PROVE  \E n \in Node : QuorumActive(n)
  BY DEF Available, Leader

\* "Without a majority the shard is unavailable" (package comment of services/shard):
\* quorumActiveLocked counts contacts within the window, and those of a cut that is
\* longer than the window are all from one side of it.
THEOREM CutOffGroup == ShardSpec => []CutOffIsUnavailable
<1>1. GroupInv => CutOffIsUnavailable
  <2> SUFFICES ASSUME GroupInv, cut > QuorumWindow, Available PROVE FALSE
    BY DEF CutOffIsUnavailable
  <2>1. PICK n \in Node : QuorumActive(n)
    BY AvailableIs
  <2>2. PICK Q, R : Q = {n} \cup {p \in Node : acked[n][p] <= QuorumWindow}
                    /\ R = {p \in Node : group[p] = group[n]}
    OBVIOUS
  <2>3. Majority(Q) /\ R \in SUBSET Node
    BY <2>1, <2>2 DEF QuorumActive
  <2>4. Q \subseteq R
    <3>1. ASSUME NEW p \in Node, acked[n][p] <= QuorumWindow PROVE group[p] = group[n]
      <4>1. acked[n][p] \in Nat /\ cut \in Nat
        BY Sizes DEF GroupInv, ShardTypeOK, Age
      <4>2. acked[n][p] < cut /\ cut > 0
        BY <3>1, <4>1, Sizes
      <4>3. QED
        BY <4>2 DEF GroupInv, Sides
    <3>2. QED
      BY <2>2, <3>1
  <2>5. Majority(R)
    BY <2>3, <2>4, MajoritiesGrow
  <2>6. cut = 0
    BY <2>2, <2>5 DEF GroupInv, Sides, Whole
  <2>7. QED
    BY <2>6, Sizes
<1>2. QED
  BY <1>1, Groups, PTL

\* A leader that was replaced is Active in Leader's eyes no longer than quorumWindow after
\* the election of the next: those who elected that one have not answered it since.
THEOREM ShortSplit == ShardSpec => []SplitIsShort
<1>1. GroupInv => SplitIsShort
  <2> SUFFICES ASSUME GroupInv, NEW m \in Node, NEW n \in Node,
                      QuorumActive(m), QuorumActive(n), term[m] < term[n],
                      ~(elected[n] <= QuorumWindow)
               PROVE  FALSE
    BY DEF SplitIsShort
  <2>1. PICK Q \in SUBSET Node : BehindOf(term, acked, elected, replies, n, Q)
    BY ElectedIs DEF GroupInv, QuorumActive
  <2>2. PICK R : R = {m} \cup {p \in Node : acked[m][p] <= QuorumWindow}
    OBVIOUS
  <2>3. R \in SUBSET Node /\ Majority(R) /\ Majority(Q)
    BY <2>1, <2>2 DEF QuorumActive, BehindOf
  <2>4. PICK p \in Node : p \in Q /\ p \in R
    BY <2>3, MajoritiesMeet
  <2>5. /\ term[p] \in Nat /\ term[m] \in Nat /\ term[n] \in Nat
        /\ acked[m][p] \in Nat /\ elected[n] \in Nat
    BY Sizes DEF GroupInv, ShardTypeOK, Age
  <2>6. term[p] >= term[n] /\ acked[m][p] >= elected[n]
    BY <2>1, <2>4 DEF BehindOf
  <2>7. p # m
    BY <2>5, <2>6
  <2>8. acked[m][p] <= QuorumWindow
    BY <2>2, <2>4, <2>7
  <2>9. QED
    BY <2>5, <2>6, <2>8, Sizes
<1>2. QED
  BY <1>1, Groups, PTL


-----------------------------------------------------------------------------
(* Messages about a player in the mailbox of a region. *)

About(q, p) == \E i \in 1..Len(q) : q[i].player = p

\* One at most.
Once(q, p) == \A i, j \in 1..Len(q) : q[i].player = p /\ q[j].player = p => i = j

\* Nothing but Joins of his first connection.
Plain(q, p) == \A i \in 1..Len(q) : q[i].player = p => q[i] = Join(p, 1)

LEMMA AppendAbout ==
  ASSUME NEW M, NEW q \in Seq(M), NEW m \in M, NEW p
  PROVE  /\ About(Append(q, m), p) <=> About(q, p) \/ m.player = p
         /\ m.player # p => /\ Once(q, p) => Once(Append(q, m), p)
                            /\ Plain(q, p) => Plain(Append(q, m), p)
         /\ ~About(q, p) /\ m = Join(p, 1) => Once(Append(q, m), p) /\ Plain(Append(q, m), p)
<1>1. PICK c : c = Append(q, m)
  OBVIOUS
<1>2. PICK n \in Nat : n = Len(q)
  OBVIOUS
<1>3. Len(c) = n + 1 /\ c[n + 1] = m /\ \A i \in 1..n : c[i] = q[i]
  BY <1>1, <1>2
<1>4. \A i \in 1..(n + 1) : i \in 1..n \/ i = n + 1
  OBVIOUS
<1>5. \A i \in 1..n : i \in 1..(n + 1)
  OBVIOUS
<1>6. n + 1 \in 1..(n + 1)
  OBVIOUS
<1>7. About(c, p) <=> About(q, p) \/ m.player = p
  BY <1>2, <1>3, <1>4, <1>5, <1>6 DEF About
<1>8. m.player # p /\ Once(q, p) => Once(c, p)
  BY <1>2, <1>3, <1>4 DEF Once
<1>9. m.player # p /\ Plain(q, p) => Plain(c, p)
  BY <1>2, <1>3, <1>4 DEF Plain
<1>10. ~About(q, p) /\ m = Join(p, 1) => Once(c, p) /\ Plain(c, p)
  BY <1>2, <1>3, <1>4 DEF Once, Plain, About
<1>11. QED
  BY <1>1, <1>7, <1>8, <1>9, <1>10

LEMMA TailAbout ==
  ASSUME NEW M, NEW q \in Seq(M), q # <<>>, NEW p
  PROVE  /\ About(q, p) <=> About(Tail(q), p) \/ Head(q).player = p
         /\ Once(q, p) => Once(Tail(q), p) /\ ~(About(Tail(q), p) /\ Head(q).player = p)
         /\ Plain(q, p) => Plain(Tail(q), p) /\ (Head(q).player = p => Head(q) = Join(p, 1))
<1>1. PICK n \in Nat : n = Len(q) /\ n > 0
  OBVIOUS
<1>2. PICK t : t = Tail(q)
  OBVIOUS
<1>3. Len(t) = n - 1 /\ \A i \in 1..(n - 1) : t[i] = q[i + 1]
  BY <1>1, <1>2
<1>4. Head(q) = q[1] /\ 1 \in 1..n
  BY <1>1
<1>5. \A i \in 1..(n - 1) : i + 1 \in 1..n /\ i + 1 # 1
  BY <1>1
<1>6. \A i \in 1..n : i = 1 \/ (i - 1 \in 1..(n - 1) /\ t[i - 1] = q[i])
  <2>1. ASSUME NEW i \in 1..n, i # 1 PROVE i - 1 \in 1..(n - 1) /\ t[i - 1] = q[i]
    <3>1. i - 1 \in 1..(n - 1) /\ (i - 1) + 1 = i
      BY <2>1
    <3>2. QED
      BY <1>3, <3>1
  <2>2. QED
    BY <2>1
<1>7. About(q, p) <=> About(t, p) \/ Head(q).player = p
  BY <1>1, <1>3, <1>4, <1>5, <1>6 DEF About
<1>8. ASSUME Once(q, p) PROVE Once(t, p) /\ ~(About(t, p) /\ Head(q).player = p)
  <2>1. ASSUME NEW i \in 1..(n - 1), NEW j \in 1..(n - 1), t[i].player = p, t[j].player = p
        PROVE  i = j
    <3>1. i + 1 = j + 1
      BY <1>1, <1>3, <1>5, <1>8, <2>1 DEF Once
    <3>2. QED
      BY <3>1
  <2>2. ASSUME NEW i \in 1..(n - 1), t[i].player = p, q[1].player = p PROVE FALSE
    BY <1>1, <1>3, <1>4, <1>5, <1>8, <2>2 DEF Once
  <2>3. QED
    BY <1>3, <1>4, <2>1, <2>2 DEF Once, About
<1>9. ASSUME Plain(q, p) PROVE Plain(t, p) /\ (Head(q).player = p => Head(q) = Join(p, 1))
  BY <1>1, <1>3, <1>4, <1>5, <1>9 DEF Plain
<1>10. QED
  BY <1>2, <1>7, <1>8, <1>9

-----------------------------------------------------------------------------
(* The invariant of the regions. *)

\* The types of what follows; World!TypeOK also bounds the number of connections.
Message == [type : {"Join"}, player : Player, conn : Nat] \cup [type : {"Leave"}, player : Player]

Note == [player : Player, conn : Nat, region : Region]

Places ==
  /\ entity \in [Region -> [Player -> Nat]]
  /\ inbox \in [Region -> Seq(Message)]
  /\ session \in [Player -> [up : BOOLEAN, region : Region, arena : BOOLEAN]]
  /\ mail \in [Player -> Seq(SessionMsg)]
  /\ away \in [Player -> BOOLEAN]
  /\ todo \in [Region -> [Player -> Region]] /\ tell \in [Region -> SUBSET Note]
  /\ conns \in [Player -> Nat] /\ matches \in [Player -> Nat] /\ drops \in Nat

\* Region r simulates p, or is about to.
Has(ent, inb, r, p) == ent[r][p] # None \/ About(inb[r], p)

\* The region a session will know of when it has read its mail.
Bound(ml, region) == IF ml = <<>> THEN region ELSE ml[Len(ml)].region

\* A region is about to tell p's session something.
Noted(tl, p) == \E r \in Region : \E n \in tl[r] : n.player = p

\* Whatever the session of p is told, or knows when nobody has anything to tell it, is
\* the region that has p.
HeadedFor(ent, inb, ml, region, tl, p) ==
  /\ \A r \in Region : \A n \in tl[r] :
       n.player = p => n.conn = 1 /\ n.region \in Region /\ Has(ent, inb, n.region, p)
  /\ ~Noted(tl, p) => Bound(ml, region) \in Region /\ Has(ent, inb, Bound(ml, region), p)

\* One region has p, once.
HomeOf(ent, inb, p) ==
  /\ \A r \in Region :
       /\ ent[r][p] \in {None, 1} /\ Plain(inb[r], p) /\ Once(inb[r], p)
       /\ ~(ent[r][p] # None /\ About(inb[r], p))
  /\ \E r \in Region : Has(ent, inb, r, p)
  /\ \A r, s \in Region : Has(ent, inb, r, p) /\ Has(ent, inb, s, p) => r = s

\* Nothing but AssignedRegions.
Letters(ml) == \A i \in 1..Len(ml) : ml[i].type = "AssignedRegion"

\* Nothing was dropped, and p was not handed on early.
InOrder(dr, lt, p) == dr = 0 /\ p \notin lt

\* Nothing is known of p.
NewOf(ent, inb, tl, p) == (\A r \in Region : ~Has(ent, inb, r, p)) /\ ~Noted(tl, p)

Fine(p) ==
  /\ conns[p] = 0 => ~session[p].up /\ mail[p] = <<>> /\ ~away[p] /\ NewOf(entity, inbox, tell, p)
  /\ AtHome(p) => /\ ~away[p] /\ HomeOf(entity, inbox, p) /\ Letters(mail[p])
                  /\ InOrder(drops, late, p)
                       => HeadedFor(entity, inbox, mail[p], session[p].region, tell, p)

\* A tick visits players the region has.
Agenda == \A r \in Region, p \in Player : todo[r][p] # r => entity[r][p] # None

WorldInv == Places /\ Agenda /\ \A p \in Player : Fine(p)

\* Nothing that concerns q changes in a mailbox.
Same(inb, inb2, q) ==
  \A r \in Region : /\ About(inb2[r], q) <=> About(inb[r], q)
                    /\ Once(inb[r], q) => Once(inb2[r], q)
                    /\ Plain(inb[r], q) => Plain(inb2[r], q)

\* Nothing that concerns q changes in what the regions are about to tell.
SameNotes(tl, tl2, q) ==
  \A r \in Region : \A n : n.player = q => (n \in tl2[r] <=> n \in tl[r])

LEMMA HomeKept ==
  ASSUME NEW ent, NEW inb, NEW ent2, NEW inb2, NEW ml, NEW region, NEW tl, NEW tl2, NEW q,
         \A r \in Region : ent2[r][q] = ent[r][q], Same(inb, inb2, q), SameNotes(tl, tl2, q)
  PROVE  /\ HomeOf(ent, inb, q) => HomeOf(ent2, inb2, q)
         /\ HeadedFor(ent, inb, ml, region, tl, q) => HeadedFor(ent2, inb2, ml, region, tl2, q)
         /\ NewOf(ent, inb, tl, q) => NewOf(ent2, inb2, tl2, q)
<1>1. \A r \in Region : Has(ent2, inb2, r, q) <=> Has(ent, inb, r, q)
  BY DEF Has, Same
<1>2. Noted(tl2, q) <=> Noted(tl, q)
  BY DEF Noted, SameNotes
<1>3. NewOf(ent, inb, tl, q) => NewOf(ent2, inb2, tl2, q)
  BY <1>1, <1>2 DEF NewOf
<1>4. ASSUME HomeOf(ent, inb, q) PROVE HomeOf(ent2, inb2, q)
  <2>1. \A r \in Region :
          /\ ent2[r][q] \in {None, 1} /\ Plain(inb2[r], q) /\ Once(inb2[r], q)
          /\ ~(ent2[r][q] # None /\ About(inb2[r], q))
    BY <1>4 DEF HomeOf, Same
  <2>2. QED
    BY <1>1, <1>4, <2>1 DEF HomeOf
<1>5. ASSUME HeadedFor(ent, inb, ml, region, tl, q) PROVE HeadedFor(ent2, inb2, ml, region, tl2, q)
  <2>1. ASSUME NEW r \in Region, NEW n \in tl2[r], n.player = q
        PROVE  n.conn = 1 /\ n.region \in Region /\ Has(ent, inb, n.region, q)
    <3>1. n \in tl[r]
      BY <2>1 DEF SameNotes
    <3>2. QED
      BY <1>5, <2>1, <3>1 DEF HeadedFor
  <2>2. \A x \in Region : Has(ent, inb, x, q) => Has(ent2, inb2, x, q)
    BY <1>1
  <2>3. QED
    BY <1>2, <1>5, <2>1, <2>2 DEF HeadedFor
<1>6. QED
  BY <1>3, <1>4, <1>5

LEMMA Bystander ==
  ASSUME NEW q \in Player, Fine(q), conns'[q] = conns[q], session'[q] = session[q],
         mail'[q] = mail[q], away'[q] = away[q], matches'[q] = matches[q],
         InOrder(drops, late, q)' => InOrder(drops, late, q), SameNotes(tell, tell', q),
         \A r \in Region : entity'[r][q] = entity[r][q], Same(inbox, inbox', q)
  PROVE  Fine(q)'
<1>1. PICK ent2, inb2, tl2 : ent2 = entity' /\ inb2 = inbox' /\ tl2 = tell'
  OBVIOUS
<1>2. /\ HomeOf(entity, inbox, q) => HomeOf(ent2, inb2, q)
      /\ HeadedFor(entity, inbox, mail[q], session[q].region, tell, q)
           => HeadedFor(ent2, inb2, mail[q], session[q].region, tl2, q)
      /\ NewOf(entity, inbox, tell, q) => NewOf(ent2, inb2, tl2, q)
  BY <1>1, HomeKept
<1>3. /\ conns'[q] = 0 => ~session'[q].up /\ mail'[q] = <<>> /\ ~away'[q] /\ NewOf(entity', inbox', tell', q)
      /\ session'[q].up /\ conns'[q] = 1 /\ matches'[q] = 0
           => /\ ~away'[q] /\ HomeOf(entity', inbox', q) /\ Letters(mail'[q])
              /\ InOrder(drops, late, q)'
                   => HeadedFor(entity', inbox', mail'[q], session'[q].region, tell', q)
  BY <1>1, <1>2 DEF Fine, AtHome
<1>4. QED
  BY <1>3 DEF Fine, AtHome

LEMMA SameIsSame == \A inb, q : Same(inb, inb, q) /\ SameNotes(inb, inb, q)
  BY DEF Same, SameNotes

LEMMA OrderIs == UNCHANGED <<drops, late>> => \A q : InOrder(drops, late, q)' <=> InOrder(drops, late, q)
  BY DEF InOrder

\* Messages about others.
LEMMA SendSame ==
  ASSUME Places, NEW d \in Region, NEW m \in Message, NEW q, m.player # q
  PROVE  Same(inbox, [inbox EXCEPT ![d] = Append(inbox[d], m)], q)
<1>1. PICK inb2 : inb2 = [inbox EXCEPT ![d] = Append(inbox[d], m)]
  OBVIOUS
<1>2. \A r \in Region : inb2[r] = IF r = d THEN Append(inbox[d], m) ELSE inbox[r]
  BY <1>1 DEF Places
<1>3. inbox[d] \in Seq(Message)
  BY DEF Places
<1>4. /\ About(Append(inbox[d], m), q) <=> About(inbox[d], q)
      /\ Once(inbox[d], q) => Once(Append(inbox[d], m), q)
      /\ Plain(inbox[d], q) => Plain(Append(inbox[d], m), q)
  BY <1>3, AppendAbout
<1>5. Same(inbox, inb2, q)
  BY <1>2, <1>4 DEF Same
<1>6. QED
  BY <1>1, <1>5

LEMMA SendType ==
  ASSUME Places, NEW d \in Region, NEW m \in Message
  PROVE  [inbox EXCEPT ![d] = Append(inbox[d], m)] \in [Region -> Seq(Message)]
<1>1. inbox[d] \in Seq(Message)
  BY DEF Places
<1>2. Append(inbox[d], m) \in Seq(Message)
  BY <1>1
<1>3. QED
  BY <1>2 DEF Places

LEMMA MessagesAre ==
  ASSUME NEW p \in Player, NEW c \in Nat
  PROVE  /\ Join(p, c) \in Message /\ Leave(p) \in Message
         /\ Join(p, c).player = p /\ Leave(p).player = p
         /\ Join(p, c).type = "Join" /\ Join(p, c).conn = c
  BY DEF Join, Leave, Message

\* A first connection: the spawn region is about to have the player.
LEMMA ConnectStep ==
  ASSUME WorldInv, NEW p \in Player, Connect(p)
  PROVE  WorldInv'
<1>1. PICK c \in Nat : c = conns[p] + 1
  BY DEF WorldInv, Places
<1>2. PICK m \in Message : m = Join(p, c) /\ m.player = p
  BY MessagesAre
<1>3. Spawn \in Region
  BY WorldAssumption
<1>4. PICK inb2 : inb2 = [inbox EXCEPT ![Spawn] = Append(inbox[Spawn], m)]
  OBVIOUS
<1>5. inbox' = inb2
  BY <1>1, <1>2, <1>4 DEF Connect, Send
<1>6. /\ conns' = [conns EXCEPT ![p] = c] /\ ~session[p].up
      /\ session' = [session EXCEPT ![p] = [up |-> TRUE, region |-> Spawn, arena |-> FALSE]]
      /\ UNCHANGED <<entity, mail, away, todo, tell, late, drops, matches>>
  BY <1>1 DEF Connect, turn
<1>7. Places'
  <2>1. conns' \in [Player -> Nat]
    BY <1>6 DEF WorldInv, Places
  <2>2. session' \in [Player -> [up : BOOLEAN, region : Region, arena : BOOLEAN]]
    BY <1>3, <1>6 DEF WorldInv, Places
  <2>3. inbox' \in [Region -> Seq(Message)]
    BY <1>3, <1>4, <1>5, SendType DEF WorldInv
  <2>4. QED
    BY <1>6, <2>1, <2>2, <2>3 DEF WorldInv, Places
<1>8. ASSUME NEW q \in Player, q # p PROVE Fine(q)'
  <2>1. Same(inbox, inbox', q)
    BY <1>2, <1>3, <1>4, <1>5, <1>8, SendSame DEF WorldInv
  <2>2. conns'[q] = conns[q] /\ session'[q] = session[q]
    BY <1>6, <1>8 DEF WorldInv, Places
  <2>3. Fine(q)
    BY DEF WorldInv
  <2>4. QED
    BY <1>6, <2>1, <2>2, <2>3, Bystander, SameIsSame, OrderIs
<1>9. Fine(p)'
  <2>1. /\ conns'[p] = c /\ c # 0 /\ session'[p].region = Spawn
    BY <1>1, <1>6 DEF WorldInv, Places
  <2>2. ASSUME c = 1
        PROVE  /\ ~away[p] /\ HomeOf(entity, inb2, p) /\ Letters(mail[p])
               /\ HeadedFor(entity, inb2, mail[p], Spawn, tell, p)
    <3>1. conns[p] = 0
      BY <1>1, <2>2 DEF WorldInv, Places
    <3>2. /\ mail[p] = <<>> /\ ~away[p] /\ ~Noted(tell, p)
          /\ \A r \in Region : entity[r][p] = None /\ ~About(inbox[r], p)
      BY <3>1 DEF WorldInv, Fine, NewOf, Has
    <3>3. inbox[Spawn] \in Seq(Message)
      BY <1>3 DEF WorldInv, Places
    <3>4. PICK q2 : q2 = Append(inbox[Spawn], m)
      OBVIOUS
    <3>5. About(q2, p) /\ Once(q2, p) /\ Plain(q2, p)
      BY <1>2, <1>3, <2>2, <3>2, <3>3, <3>4, AppendAbout
    <3>6. \A r \in Region : inb2[r] = IF r = Spawn THEN q2 ELSE inbox[r]
      BY <1>4, <3>4 DEF WorldInv, Places
    <3>7. \A r \in Region : ~About(inbox[r], p) => Once(inbox[r], p) /\ Plain(inbox[r], p)
      BY DEF About, Once, Plain
    <3>8. \A r \in Region : Has(entity, inb2, r, p) <=> r = Spawn
      BY <3>2, <3>5, <3>6 DEF Has
    <3>9. \A r \in Region :
            /\ entity[r][p] \in {None, 1} /\ Plain(inb2[r], p) /\ Once(inb2[r], p)
            /\ ~(entity[r][p] # None /\ About(inb2[r], p))
      BY <3>2, <3>5, <3>6, <3>7
    <3>10. Bound(mail[p], Spawn) = Spawn /\ \A i \in 1..Len(mail[p]) : FALSE
      BY <3>2 DEF Bound
    <3>11. QED
      BY <1>3, <3>2, <3>8, <3>9, <3>10 DEF HomeOf, Letters, HeadedFor, Noted
  <2>3. QED
    BY <1>5, <1>6, <2>1, <2>2 DEF Fine, AtHome
<1>10. QED
  BY <1>6, <1>7, <1>8, <1>9 DEF WorldInv, Agenda

LEMMA DisconnectStep ==
  ASSUME WorldInv, NEW p \in Player, Disconnect(p)
  PROVE  WorldInv'
<1>1. PICK d \in Region : d = session[p].region
  BY DEF WorldInv, Places
<1>2. PICK m \in Message : m = Leave(p) /\ m.player = p
  BY MessagesAre
<1>3. inbox' = [inbox EXCEPT ![d] = Append(inbox[d], m)]
  BY <1>1, <1>2 DEF Disconnect, Send
<1>4. /\ session[p].up /\ session' = [session EXCEPT ![p].up = FALSE]
      /\ mail' = [mail EXCEPT ![p] = <<>>]
      /\ UNCHANGED <<entity, away, todo, tell, late, conns, drops, matches>>
  BY DEF Disconnect, turn
<1>5. Places'
  <2>1. session' \in [Player -> [up : BOOLEAN, region : Region, arena : BOOLEAN]]
    BY <1>4 DEF WorldInv, Places
  <2>2. mail' \in [Player -> Seq(SessionMsg)]
    BY <1>4 DEF WorldInv, Places
  <2>3. inbox' \in [Region -> Seq(Message)]
    BY <1>3, SendType DEF WorldInv
  <2>4. QED
    BY <1>4, <2>1, <2>2, <2>3 DEF WorldInv, Places
<1>6. ASSUME NEW q \in Player, q # p PROVE Fine(q)'
  <2>1. Same(inbox, inbox', q)
    BY <1>2, <1>3, <1>6, SendSame DEF WorldInv
  <2>2. mail'[q] = mail[q] /\ session'[q] = session[q]
    BY <1>4, <1>6 DEF WorldInv, Places
  <2>3. Fine(q)
    BY DEF WorldInv
  <2>4. QED
    BY <1>4, <2>1, <2>2, <2>3, Bystander, SameIsSame, OrderIs
<1>7. Fine(p)'
  <2>1. session'[p].up = FALSE
    BY <1>4 DEF WorldInv, Places
  <2>2. conns'[p] # 0
    BY <1>4 DEF WorldInv, Fine
  <2>3. QED
    BY <2>1, <2>2 DEF Fine, AtHome
<1>8. QED
  BY <1>4, <1>5, <1>6, <1>7 DEF WorldInv, Agenda


\* A session that reads its mail knows of the region it was bound for.
LEMMA BoundTail ==
  ASSUME NEW ml \in Seq(SessionMsg), ml # <<>>, NEW region
  PROVE  Bound(Tail(ml), Head(ml).region) = Bound(ml, region)
<1>1. PICK n \in Nat : n = Len(ml) /\ n > 0
  OBVIOUS
<1>2. PICK t : t = Tail(ml)
  OBVIOUS
<1>3. t \in Seq(SessionMsg) /\ Len(t) = n - 1 /\ \A i \in 1..(n - 1) : t[i] = ml[i + 1]
  BY <1>1, <1>2
<1>4. CASE n = 1
  <2>1. t = <<>> /\ Head(ml) = ml[n]
    BY <1>1, <1>3, <1>4
  <2>2. QED
    BY <1>1, <1>2, <2>1 DEF Bound
<1>5. CASE n # 1
  <2>1. n - 1 \in 1..(n - 1) /\ (n - 1) + 1 = n
    BY <1>1, <1>5
  <2>2. t[n - 1] = ml[n] /\ t # <<>>
    BY <1>3, <2>1
  <2>3. QED
    BY <1>1, <1>2, <1>3, <2>2 DEF Bound
<1>6. QED
  BY <1>4, <1>5

LEMMA ReceiveStep ==
  ASSUME WorldInv, NEW p \in Player, Receive(p)
  PROVE  WorldInv'
<1>1. PICK ml : ml = mail[p]
  OBVIOUS
<1>2. ml \in Seq(SessionMsg) /\ ml # <<>> /\ session[p].up
  BY <1>1 DEF Receive, WorldInv, Places
<1>3. PICK m \in SessionMsg : m = Head(ml)
  BY <1>2
<1>4. PICK t \in Seq(SessionMsg) : t = Tail(ml)
  <2>1. Tail(ml) \in Seq(SessionMsg)
    BY <1>2, HeadTailProperties
  <2>2. QED
    BY <2>1
<1>5. mail' = [mail EXCEPT ![p] = t] /\ UNCHANGED <<entity, away, todo, tell, late, conns, drops, matches>>
  BY <1>1, <1>4 DEF Receive, counters, turn
<1>6. mail' \in [Player -> Seq(SessionMsg)]
  BY <1>4, <1>5 DEF WorldInv, Places
<1>7. PICK d \in Region : d = session[p].region
  BY DEF WorldInv, Places
<1>8. Spawn \in Region /\ conns[p] \in Nat
  BY WorldAssumption DEF WorldInv, Places
<1>9. PICK l, j \in Message : l = Leave(p) /\ j = Join(p, conns[p]) /\ l.player = p /\ j.player = p
  BY <1>8, MessagesAre
<1>10. session \in [Player -> [up : BOOLEAN, region : Region, arena : BOOLEAN]]
  BY DEF WorldInv, Places
<1>11. \/ /\ m.type = "AssignedRegion" /\ m.region \in Region
          /\ session' = [session EXCEPT ![p] = [session[p] EXCEPT !.region = m.region]]
          /\ inbox' = inbox
       \/ /\ m.type # "AssignedRegion"
          /\ session' = [session EXCEPT ![p].arena = TRUE]
          /\ inbox' = [inbox EXCEPT ![d] = Append(inbox[d], l)]
       \/ /\ m.type # "AssignedRegion"
          /\ session' = [session EXCEPT ![p].arena = FALSE, ![p].region = Spawn]
          /\ inbox' = [inbox EXCEPT ![Spawn] = Append(inbox[Spawn], j)]
  <2>1. CASE /\ m.type = "AssignedRegion"
             /\ session' = [session EXCEPT ![p] = Assigned(session[p], m)]
             /\ UNCHANGED inbox
    <3>1. m.region \in Region
      BY <2>1 DEF SessionMsg
    <3>2. QED
      BY <2>1, <3>1 DEF Assigned
  <2>2. CASE /\ m.type = "enterArena"
             /\ session' = [session EXCEPT ![p].arena = TRUE]
             /\ Send(session[p].region, Leave(p))
    BY <1>7, <1>9, <2>2 DEF Send
  <2>3. CASE /\ m.type = "enterHub"
             /\ session' = [session EXCEPT ![p].arena = FALSE, ![p].region = Spawn]
             /\ inbox' = [inbox EXCEPT ![Spawn] = inbox[Spawn] \o HubSends(p)]
    <3>1. inbox[Spawn] \in Seq(Message)
      BY <1>8 DEF WorldInv, Places
    <3>2. inbox[Spawn] \o HubSends(p) = Append(inbox[Spawn], j)
      BY <1>9, <3>1 DEF HubSends
    <3>3. QED
      BY <2>3, <3>2
  <2>4. QED
    BY <1>1, <1>3, <2>1, <2>2, <2>3 DEF Receive
<1>12. inbox' \in [Region -> Seq(Message)]
  <2>1. [inbox EXCEPT ![d] = Append(inbox[d], l)] \in [Region -> Seq(Message)]
    BY SendType DEF WorldInv
  <2>2. [inbox EXCEPT ![Spawn] = Append(inbox[Spawn], j)] \in [Region -> Seq(Message)]
    BY <1>8, SendType DEF WorldInv
  <2>3. inbox \in [Region -> Seq(Message)]
    BY DEF WorldInv, Places
  <2>4. QED
    BY <1>11, <2>1, <2>2, <2>3
<1>13. session' \in [Player -> [up : BOOLEAN, region : Region, arena : BOOLEAN]]
         /\ \A q \in Player : session'[q].up = session[q].up /\ (q # p => session'[q] = session[q])
  <2>1. CASE session' = [session EXCEPT ![p] = [session[p] EXCEPT !.region = m.region]]
             /\ m.region \in Region
    BY <1>10, <2>1
  <2>2. CASE session' = [session EXCEPT ![p].arena = TRUE]
    BY <1>10, <2>2
  <2>3. CASE session' = [session EXCEPT ![p].arena = FALSE, ![p].region = Spawn]
    BY <1>8, <1>10, <2>3
  <2>4. QED
    BY <1>11, <2>1, <2>2, <2>3
<1>14. Places'
  BY <1>5, <1>6, <1>12, <1>13 DEF WorldInv, Places
<1>15. ASSUME NEW q \in Player, q # p PROVE Fine(q)'
  <2>1. Same(inbox, inbox', q)
    <3>1. Same(inbox, [inbox EXCEPT ![d] = Append(inbox[d], l)], q)
      BY <1>9, <1>15, SendSame DEF WorldInv
    <3>2. Same(inbox, [inbox EXCEPT ![Spawn] = Append(inbox[Spawn], j)], q)
      BY <1>8, <1>9, <1>15, SendSame DEF WorldInv
    <3>3. Same(inbox, inbox, q)
      BY SameIsSame
    <3>4. \/ inbox' = inbox
          \/ inbox' = [inbox EXCEPT ![d] = Append(inbox[d], l)]
          \/ inbox' = [inbox EXCEPT ![Spawn] = Append(inbox[Spawn], j)]
      BY <1>11
    <3>5. QED
      BY <3>1, <3>2, <3>3, <3>4
  <2>2. mail'[q] = mail[q]
    BY <1>5, <1>15 DEF WorldInv, Places
  <2>3. Fine(q)
    BY DEF WorldInv
  <2>4. QED
    BY <1>5, <1>13, <1>15, <2>1, <2>2, <2>3, Bystander, SameIsSame, OrderIs
<1>16. Fine(p)'
  <2>1. Fine(p) /\ conns[p] # 0
    BY <1>2 DEF WorldInv, Fine
  <2>2. ASSUME conns[p] = 1, matches[p] = 0
        PROVE  /\ ~away[p] /\ HomeOf(entity, inbox', p) /\ Letters(t)
               /\ InOrder(drops, late, p) => HeadedFor(entity, inbox', t, session'[p].region, tell, p)
    <3>1. /\ ~away[p] /\ HomeOf(entity, inbox, p) /\ Letters(ml)
          /\ InOrder(drops, late, p) => HeadedFor(entity, inbox, ml, d, tell, p)
      BY <1>1, <1>2, <1>7, <2>1, <2>2 DEF Fine, AtHome
    <3>2. Len(ml) \in Nat /\ Len(ml) > 0 /\ m = ml[1] /\ Len(t) = Len(ml) - 1
            /\ \A i \in 1..(Len(ml) - 1) : t[i] = ml[i + 1]
      BY <1>2, <1>3, <1>4
    <3>3. m.type = "AssignedRegion" /\ \A i \in 1..Len(t) : t[i].type = "AssignedRegion"
      <4>1. \A i \in 1..Len(ml) : ml[i].type = "AssignedRegion"
        BY <3>1 DEF Letters
      <4>2. 1 \in 1..Len(ml) /\ \A i \in 1..Len(t) : i + 1 \in 1..Len(ml)
        BY <3>2
      <4>3. QED
        BY <3>2, <4>1, <4>2
    <3>4. inbox' = inbox /\ session'[p].region = m.region
      BY <1>10, <1>11, <3>3
    <3>5. Bound(t, m.region) = Bound(ml, d)
      BY <1>2, <1>3, <1>4, BoundTail
    <3>6. QED
      BY <3>1, <3>3, <3>4, <3>5 DEF Letters, HeadedFor
  <2>3. mail'[p] = t
    BY <1>5 DEF WorldInv, Places
  <2>4. QED
    BY <1>5, <2>1, <2>2, <2>3, OrderIs DEF Fine, AtHome
<1>17. QED
  BY <1>5, <1>14, <1>15, <1>16 DEF WorldInv, Agenda

LEMMA OrderStep ==
  ASSUME WorldInv, NEW p \in Player, Order(p)
  PROVE  WorldInv'
<1>1. /\ session[p].up /\ away' = [away EXCEPT ![p] = ~away[p]]
      /\ UNCHANGED <<entity, inbox, session, todo, tell, late, conns, drops>>
  BY DEF Order, turn
<1>2. PICK m \in SessionMsg :
        /\ mail' = [mail EXCEPT ![p] = Append(mail[p], m)]
        /\ \/ ~away[p] /\ matches' = [matches EXCEPT ![p] = matches[p] + 1]
           \/ away[p] /\ matches' = matches
  <2>1. [type |-> "enterArena"] \in SessionMsg /\ [type |-> "enterHub"] \in SessionMsg
    BY DEF SessionMsg
  <2>2. CASE /\ ~away[p] /\ matches' = [matches EXCEPT ![p] = matches[p] + 1]
             /\ mail' = [mail EXCEPT ![p] = Append(mail[p], [type |-> "enterArena"])]
    BY <2>1, <2>2
  <2>3. CASE /\ away[p] /\ matches' = matches
             /\ mail' = [mail EXCEPT ![p] = Append(mail[p], [type |-> "enterHub"])]
    BY <2>1, <2>3
  <2>4. QED
    BY <2>2, <2>3 DEF Order
<1>3. Places'
  <2>1. mail[p] \in Seq(SessionMsg)
    BY DEF WorldInv, Places
  <2>2. Append(mail[p], m) \in Seq(SessionMsg)
    BY <2>1
  <2>3. mail' \in [Player -> Seq(SessionMsg)]
    BY <1>2, <2>2 DEF WorldInv, Places
  <2>4. away' \in [Player -> BOOLEAN]
    <3>1. PICK b \in BOOLEAN : b = ~away[p]
      OBVIOUS
    <3>2. away' = [away EXCEPT ![p] = b]
      BY <1>1, <3>1
    <3>3. QED
      BY <3>2 DEF WorldInv, Places
  <2>5. matches' \in [Player -> Nat]
    <3>1. matches \in [Player -> Nat]
      BY DEF WorldInv, Places
    <3>2. PICK n \in Nat : n = matches[p] + 1
      BY <3>1
    <3>3. matches' = [matches EXCEPT ![p] = n] \/ matches' = matches
      BY <1>2, <3>2
    <3>4. QED
      BY <3>1, <3>3
  <2>6. QED
    BY <1>1, <2>3, <2>4, <2>5 DEF WorldInv, Places
<1>4. ASSUME NEW q \in Player, q # p PROVE Fine(q)'
  <2>1. mail'[q] = mail[q] /\ away'[q] = away[q] /\ matches'[q] = matches[q]
    BY <1>1, <1>2, <1>4 DEF WorldInv, Places
  <2>2. Fine(q)
    BY DEF WorldInv
  <2>3. Same(inbox, inbox', q)
    BY <1>1, SameIsSame
  <2>4. QED
    BY <1>1, <2>1, <2>2, <2>3, Bystander, SameIsSame, OrderIs
<1>5. Fine(p)'
  <2>1. Fine(p) /\ conns[p] # 0 /\ matches[p] \in Nat
    BY <1>1 DEF WorldInv, Fine, Places
  <2>2. ASSUME conns[p] = 1, matches'[p] = 0 PROVE FALSE
    <3>1. ~away[p] => matches'[p] = matches[p] + 1
      BY <1>2 DEF WorldInv, Places
    <3>2. away[p] /\ matches[p] = 0
      BY <1>2, <2>1, <2>2, <3>1
    <3>3. QED
      BY <1>1, <2>1, <2>2, <3>2 DEF Fine, AtHome
  <2>3. QED
    BY <1>1, <2>1, <2>2 DEF Fine, AtHome
<1>6. QED
  BY <1>1, <1>3, <1>4, <1>5 DEF WorldInv, Agenda

\* The region handles a Join or a Leave: who was about to be there is there.
LEMMA HandleStep ==
  ASSUME WorldInv, NEW r \in Region, Handle(r)
  PROVE  WorldInv'
<1>1. PICK b : b = inbox[r]
  OBVIOUS
<1>2. b \in Seq(Message) /\ b # <<>>
  BY <1>1 DEF Handle, WorldInv, Places
<1>3. PICK m \in Message : m = Head(b)
  BY <1>2
<1>4. PICK t \in Seq(Message) : t = Tail(b)
  <2>1. Tail(b) \in Seq(Message)
    BY <1>2, HeadTailProperties
  <2>2. QED
    BY <2>1
<1>5. PICK p \in Player : p = m.player
  BY DEF Message
<1>6. PICK c : c = IF m.type = "Join" THEN m.conn ELSE None
  OBVIOUS
<1>7. c \in Nat
  BY <1>6 DEF Message, None
<1>8. /\ inbox' = [inbox EXCEPT ![r] = t] /\ entity' = [entity EXCEPT ![r][p] = c]
      /\ UNCHANGED <<session, mail, away, todo, tell, late, conns, drops, matches>>
      /\ \A q \in Player : todo[r][q] = r
  BY <1>1, <1>3, <1>4, <1>5, <1>6 DEF Handle, counters, turn, Ticking
<1>9. /\ \A s \in Region : inbox'[s] = IF s = r THEN t ELSE inbox[s]
      /\ \A s \in Region, q \in Player : entity'[s][q] = IF s = r /\ q = p THEN c ELSE entity[s][q]
  BY <1>8 DEF WorldInv, Places
<1>10. Places'
  <2>1. inbox' \in [Region -> Seq(Message)]
    BY <1>8 DEF WorldInv, Places
  <2>2. entity' \in [Region -> [Player -> Nat]]
    BY <1>7, <1>8 DEF WorldInv, Places
  <2>3. QED
    BY <1>8, <2>1, <2>2 DEF WorldInv, Places
<1>11. ASSUME NEW q \in Player, q # p PROVE Fine(q)'
  <2>1. /\ About(b, q) <=> About(t, q)
        /\ Once(b, q) => Once(t, q)
        /\ Plain(b, q) => Plain(t, q)
    BY <1>2, <1>3, <1>4, <1>5, <1>11, TailAbout
  <2>2. Same(inbox, inbox', q)
    BY <1>1, <1>9, <2>1 DEF Same
  <2>3. Fine(q) /\ \A s \in Region : entity'[s][q] = entity[s][q]
    BY <1>9, <1>11 DEF WorldInv
  <2>4. QED
    BY <1>8, <2>2, <2>3, Bystander, SameIsSame, OrderIs
<1>12. Fine(p)'
  <2>1. Fine(p)
    BY DEF WorldInv
  <2>2. About(b, p)
    BY <1>2, <1>3, <1>5, TailAbout
  <2>3. conns[p] # 0
    BY <1>1, <2>1, <2>2 DEF Fine, NewOf, Has
  <2>4. ASSUME AtHome(p)
        PROVE  /\ ~away[p] /\ HomeOf(entity', inbox', p) /\ Letters(mail[p])
               /\ InOrder(drops, late, p)
                    => HeadedFor(entity', inbox', mail[p], session[p].region, tell, p)
    <3>1. /\ ~away[p] /\ HomeOf(entity, inbox, p) /\ Letters(mail[p])
          /\ InOrder(drops, late, p)
               => HeadedFor(entity, inbox, mail[p], session[p].region, tell, p)
      BY <2>1, <2>4 DEF Fine
    <3>2. Plain(b, p) /\ Once(b, p)
      BY <1>1, <3>1 DEF HomeOf
    <3>3. m = Join(p, 1) /\ Plain(t, p) /\ Once(t, p) /\ ~About(t, p)
      BY <1>2, <1>3, <1>4, <1>5, <3>2, TailAbout
    <3>4. c = 1
      BY <1>6, <3>3 DEF Join
    <3>5. PICK ent2, inb2 : ent2 = entity' /\ inb2 = inbox'
      OBVIOUS
    <3>6. /\ ent2[r][p] = 1 /\ inb2[r] = t
          /\ \A s \in Region : s # r => ent2[s][p] = entity[s][p] /\ inb2[s] = inbox[s]
      BY <1>9, <3>4, <3>5
    <3>7. \A s \in Region : Has(ent2, inb2, s, p) <=> Has(entity, inbox, s, p)
      BY <1>1, <2>2, <3>6 DEF Has, None
    <3>8. \A s \in Region :
            /\ ent2[s][p] \in {None, 1} /\ Plain(inb2[s], p) /\ Once(inb2[s], p)
            /\ ~(ent2[s][p] # None /\ About(inb2[s], p))
      BY <3>1, <3>3, <3>6 DEF HomeOf
    <3>9. HomeOf(ent2, inb2, p)
      BY <3>1, <3>7, <3>8 DEF HomeOf
    <3>10. HeadedFor(entity, inbox, mail[p], session[p].region, tell, p)
             => HeadedFor(ent2, inb2, mail[p], session[p].region, tell, p)
      BY <3>7 DEF HeadedFor
    <3>11. QED
      BY <3>1, <3>5, <3>9, <3>10
  <2>5. QED
    BY <1>8, <2>3, <2>4, OrderIs DEF Fine, AtHome
<1>13. Agenda'
  BY <1>8, <1>9 DEF WorldInv, Agenda
<1>14. QED
  BY <1>10, <1>11, <1>12, <1>13 DEF WorldInv


\* The mail of a player who is handed over and told: bound for his new region.
LEMMA BoundAppend ==
  ASSUME NEW ml \in Seq(SessionMsg), NEW x \in Region, NEW region
  PROVE  LET m == [type |-> "AssignedRegion", region |-> x]
         IN  /\ Append(ml, m) \in Seq(SessionMsg)
             /\ Bound(Append(ml, m), region) = x
             /\ (\A i \in 1..Len(ml) : ml[i].type = "AssignedRegion")
                  => \A i \in 1..Len(Append(ml, m)) : Append(ml, m)[i].type = "AssignedRegion"
<1>1. PICK m \in SessionMsg :
        m = [type |-> "AssignedRegion", region |-> x] /\ m.type = "AssignedRegion" /\ m.region = x
  <2>1. [type |-> "AssignedRegion", region |-> x] \in [type : {"AssignedRegion"}, region : Region]
    OBVIOUS
  <2>2. [type |-> "AssignedRegion", region |-> x] \in SessionMsg
    BY <2>1 DEF SessionMsg
  <2>3. QED
    BY <2>2
<1>2. PICK n \in Nat : n = Len(ml)
  OBVIOUS
<1>3. PICK c : c = Append(ml, m)
  OBVIOUS
<1>4. /\ c \in Seq(SessionMsg) /\ Len(c) = n + 1 /\ c[n + 1] = m /\ c # <<>>
      /\ \A i \in 1..n : c[i] = ml[i]
  BY <1>2, <1>3
<1>5. Bound(c, region) = x
  BY <1>1, <1>4 DEF Bound
<1>6. \A i \in 1..(n + 1) : i \in 1..n \/ i = n + 1
  OBVIOUS
<1>7. ASSUME \A i \in 1..n : ml[i].type = "AssignedRegion"
      PROVE  \A i \in 1..Len(c) : c[i].type = "AssignedRegion"
  BY <1>1, <1>4, <1>6, <1>7
<1>8. QED
  BY <1>1, <1>2, <1>3, <1>4, <1>5, <1>7

\* A tick begins: it moves nobody yet.
LEMMA TickStep ==
  ASSUME WorldInv, NEW r \in Region, NEW dst \in [In(r) -> Region], Tick(r, dst)
  PROVE  WorldInv'
<1>1. PICK f : f = [p \in Player |-> IF p \in In(r) THEN dst[p] ELSE r]
  OBVIOUS
<1>2. todo' = [todo EXCEPT ![r] = f]
  BY <1>1 DEF Tick
<1>3. UNCHANGED <<entity, inbox, session, mail, away, tell, late, conns, drops, matches>>
  BY DEF Tick
<1>4. f \in [Player -> Region] /\ \A p \in Player : f[p] # r => entity[r][p] # None
  BY <1>1 DEF In
<1>5. /\ todo' \in [Region -> [Player -> Region]]
      /\ \A s \in Region : todo'[s] = IF s = r THEN f ELSE todo[s]
  BY <1>2, <1>4 DEF WorldInv, Places
<1>6. Places' /\ Agenda'
  BY <1>3, <1>4, <1>5 DEF WorldInv, Places, Agenda
<1>7. ASSUME NEW p \in Player PROVE Fine(p)'
  BY <1>3, Bystander, SameIsSame, OrderIs DEF WorldInv
<1>8. QED
  BY <1>6, <1>7 DEF WorldInv

\* The player leaves region r, and region d is about to have him.
Leaves(ent, inb, ent2, inb2, r, d, q) ==
  /\ r \in Region /\ d \in Region /\ d # r /\ ent[r][q] # None
  /\ \A s \in Region : ent2[s][q] = IF s = r THEN None ELSE ent[s][q]
  /\ About(inb2[d], q)
  /\ ~About(inb[d], q) => Once(inb2[d], q) /\ Plain(inb2[d], q)
  /\ \A s \in Region : s # d => inb2[s] = inb[s]

LEMMA HandedOver ==
  ASSUME NEW ent, NEW inb, NEW ent2, NEW inb2, NEW q, NEW r, NEW d,
         HomeOf(ent, inb, q), Leaves(ent, inb, ent2, inb2, r, d, q)
  PROVE  HomeOf(ent2, inb2, q) /\ Has(ent2, inb2, d, q)
<1>1. \A s \in Region : ~About(inb[s], q) /\ (s # r => ent[s][q] = None)
  BY DEF HomeOf, Has, Leaves
<1>2. \A s \in Region : ent2[s][q] = None
  BY <1>1 DEF Leaves
<1>3. d \in Region /\ About(inb2[d], q) /\ \A s \in Region : s # d => ~About(inb2[s], q)
  BY <1>1 DEF Leaves
<1>4. \A s \in Region : Once(inb2[s], q) /\ Plain(inb2[s], q)
  BY <1>1 DEF HomeOf, Leaves
<1>5. \A s \in Region : Has(ent2, inb2, s, q) <=> s = d
  BY <1>2, <1>3 DEF Has
<1>6. QED
  BY <1>2, <1>3, <1>4, <1>5 DEF HomeOf

LEMMA HandOverStep ==
  ASSUME WorldInv, NEW r \in Region, NEW p \in Player, HandOver(r, p)
  PROVE  WorldInv'
<1>1. PICK d \in Region : d = todo[r][p] /\ d # r
  BY DEF HandOver, WorldInv, Places
<1>2. PICK c \in Nat : c = entity[r][p] /\ c # None
  BY <1>1 DEF WorldInv, Places, Agenda
<1>3. tell[r] = {} /\ UNCHANGED <<session, mail, away, conns, drops, matches>>
  BY DEF HandOver, counters
<1>4. /\ todo' \in [Region -> [Player -> Region]]
      /\ \A s \in Region, q \in Player : todo'[s][q] = IF s = r /\ q = p THEN r ELSE todo[s][q]
  <2>1. todo' = [todo EXCEPT ![r][p] = r]
    BY DEF HandOver
  <2>2. QED
    BY <2>1 DEF WorldInv, Places
<1>5. CASE UNCHANGED <<inbox, entity, tell, late>>
  <2>1. Places' /\ Agenda'
    BY <1>3, <1>4, <1>5 DEF WorldInv, Places, Agenda
  <2>2. ASSUME NEW q \in Player PROVE Fine(q)'
    BY <1>3, <1>5, Bystander, SameIsSame, OrderIs DEF WorldInv
  <2>3. QED
    BY <2>1, <2>2 DEF WorldInv
<1>6. CASE /\ Send(d, Join(p, c))
           /\ entity' = [entity EXCEPT ![r] = Kept(r, p)]
           /\ tell' = [tell EXCEPT ![r] = {[player |-> p, conn |-> c, region |-> d]}]
           /\ late' = IF Untold(p) THEN late \cup {p} ELSE late
  <2>1. PICK m \in Message : m = Join(p, c) /\ m.player = p
    BY MessagesAre
  <2>2. PICK n \in Note : n = [player |-> p, conn |-> c, region |-> d]
                            /\ n.player = p /\ n.conn = c /\ n.region = d
    <3>1. [player |-> p, conn |-> c, region |-> d] \in Note
      BY DEF Note
    <3>2. QED
      BY <3>1
  <2>3. PICK inb2 : inb2 = [inbox EXCEPT ![d] = Append(inbox[d], m)]
    OBVIOUS
  <2>4. inbox' = inb2 /\ inbox' \in [Region -> Seq(Message)]
    BY <1>6, <2>1, <2>3, SendType DEF Send, WorldInv
  <2>5. /\ entity' \in [Region -> [Player -> Nat]]
        /\ \A s \in Region, q \in Player :
             entity'[s][q] = IF s = r /\ q = p THEN None ELSE entity[s][q]
    BY <1>6 DEF Kept, None, WorldInv, Places
  <2>6. /\ tell' \in [Region -> SUBSET Note]
        /\ \A s \in Region : tell'[s] = IF s = r THEN {n} ELSE tell[s]
    BY <1>6, <2>2 DEF WorldInv, Places
  <2>7. Places'
    BY <1>3, <1>4, <2>4, <2>5, <2>6 DEF WorldInv, Places
  <2>8. Agenda'
    <3>1. PICK td2, ent2 : td2 = todo' /\ ent2 = entity'
      OBVIOUS
    <3>2. ASSUME NEW s \in Region, NEW q \in Player, td2[s][q] # s PROVE ent2[s][q] # None
      <4>1. ~(s = r /\ q = p) /\ todo[s][q] # s
        BY <1>4, <3>1, <3>2
      <4>2. ent2[s][q] = entity[s][q]
        BY <2>5, <3>1, <4>1
      <4>3. QED
        BY <4>1, <4>2 DEF WorldInv, Agenda
    <3>3. QED
      BY <3>1, <3>2 DEF Agenda
  <2>9. ASSUME NEW q \in Player, q # p PROVE Fine(q)'
    <3>1. Same(inbox, inbox', q)
      BY <2>1, <2>3, <2>4, <2>9, SendSame DEF WorldInv
    <3>2. SameNotes(tell, tell', q)
      BY <1>3, <2>2, <2>6, <2>9 DEF SameNotes
    <3>3. InOrder(drops, late, q)' => InOrder(drops, late, q)
      BY <1>3, <1>6 DEF InOrder
    <3>4. Fine(q) /\ \A s \in Region : entity'[s][q] = entity[s][q]
      BY <2>5, <2>9 DEF WorldInv
    <3>5. QED
      BY <1>3, <3>1, <3>2, <3>3, <3>4, Bystander
  <2>10. Fine(p)'
    <3>1. Fine(p) /\ conns[p] # 0
      BY <1>2 DEF WorldInv, Fine, NewOf, Has
    <3>2. ASSUME AtHome(p)
          PROVE  /\ ~away[p] /\ HomeOf(entity', inbox', p) /\ Letters(mail[p])
                 /\ InOrder(drops, late, p)'
                      => HeadedFor(entity', inbox', mail[p], session[p].region, tell', p)
      <4>1. ~away[p] /\ HomeOf(entity, inbox, p) /\ Letters(mail[p])
        BY <3>1, <3>2 DEF Fine
      <4>2. c = 1
        BY <1>2, <4>1 DEF HomeOf
      <4>3. inbox[d] \in Seq(Message)
        BY DEF WorldInv, Places
      <4>4. PICK b : b = Append(inbox[d], m)
        OBVIOUS
      <4>5. About(b, p) /\ (~About(inbox[d], p) => Once(b, p) /\ Plain(b, p))
        BY <2>1, <4>2, <4>3, <4>4, AppendAbout
      <4>6. inb2[d] = b /\ \A s \in Region : s # d => inb2[s] = inbox[s]
        BY <2>3, <4>4 DEF WorldInv, Places
      <4>7. PICK ent2 : ent2 = entity'
        OBVIOUS
      <4>8. HomeOf(ent2, inb2, p) /\ Has(ent2, inb2, d, p)
        <5>1. \A s \in Region : ent2[s][p] = IF s = r THEN None ELSE entity[s][p]
          BY <2>5, <4>7
        <5>2. entity[r][p] # None /\ d # r
          BY <1>1, <1>2
        <5>3. /\ About(inb2[d], p)
              /\ ~About(inbox[d], p) => Once(inb2[d], p) /\ Plain(inb2[d], p)
          BY <4>5, <4>6
        <5>4. HomeOf(entity, inbox, p) /\ \A s \in Region : s # d => inb2[s] = inbox[s]
          BY <4>1, <4>6
        <5>5. Leaves(entity, inbox, ent2, inb2, r, d, p)
          BY <5>1, <5>2, <5>3, <5>4 DEF Leaves
        <5>6. QED
          BY <5>4, <5>5, HandedOver
      <4>9. PICK tl2 : tl2 = tell'
        OBVIOUS
      <4>10. ASSUME ~Untold(p) PROVE HeadedFor(ent2, inb2, mail[p], session[p].region, tl2, p)
        <5>1. \A s \in Region : \A x \in tl2[s] : x.player = p => x = n
          BY <2>6, <4>9, <4>10 DEF Untold
        <5>2. Noted(tl2, p)
          BY <2>2, <2>6, <4>9 DEF Noted
        <5>3. QED
          BY <2>2, <4>2, <4>8, <5>1, <5>2 DEF HeadedFor
      <4>11. Untold(p) => ~InOrder(drops, late, p)'
        BY <1>6 DEF InOrder
      <4>12. QED
        BY <2>4, <4>1, <4>7, <4>8, <4>9, <4>10, <4>11
    <3>3. QED
      BY <1>3, <3>1, <3>2 DEF Fine, AtHome
  <2>11. QED
    BY <2>7, <2>8, <2>9, <2>10 DEF WorldInv
<1>7. QED
  BY <1>1, <1>2, <1>5, <1>6 DEF HandOver

\* The session is told: it is bound for the region that has its player.
LEMMA TellStep ==
  ASSUME WorldInv, NEW r \in Region, NEW n \in tell[r], Tell(r, n)
  PROVE  WorldInv'
<1>1. PICK p \in Player : p = n.player /\ n.region \in Region
  <2>1. n \in Note
    BY DEF WorldInv, Places
  <2>2. QED
    BY <2>1 DEF Note
<1>2. PICK x \in Region : x = n.region
  BY <1>1
<1>3. /\ tell' = [tell EXCEPT ![r] = tell[r] \ {n}]
      /\ UNCHANGED <<entity, inbox, session, away, todo, late, conns, matches>>
  BY DEF Tell
<1>4. \/ /\ session[p].up /\ n.conn = conns[p] /\ drops' = drops
         /\ mail' = [mail EXCEPT ![p] = Append(mail[p], [type |-> "AssignedRegion", region |-> x])]
      \/ session[p].up /\ n.conn = conns[p] /\ drops' = drops + 1 /\ mail' = mail
      \/ ~(session[p].up /\ n.conn = conns[p]) /\ drops' = drops /\ mail' = mail
  BY <1>1, <1>2 DEF Tell
<1>5. drops \in Nat /\ drops' \in Nat /\ (drops' = 0 => drops = 0)
  <2>1. drops \in Nat /\ (drops' = drops \/ drops' = drops + 1)
    BY DEF Tell, WorldInv, Places
  <2>2. QED
    BY <2>1
<1>6. PICK ml \in Seq(SessionMsg) : ml = mail[p]
  BY DEF WorldInv, Places
<1>7. PICK a : a = [type |-> "AssignedRegion", region |-> x]
  OBVIOUS
<1>8. /\ Append(ml, a) \in Seq(SessionMsg)
      /\ \A region : Bound(Append(ml, a), region) = x
      /\ Letters(ml) => Letters(Append(ml, a))
  BY <1>7, BoundAppend DEF Letters
<1>9. mail' \in [Player -> Seq(SessionMsg)] /\ \A q \in Player : q # p => mail'[q] = mail[q]
  BY <1>4, <1>6, <1>7, <1>8 DEF WorldInv, Places
<1>10. /\ tell' \in [Region -> SUBSET Note]
       /\ \A s \in Region : tell'[s] = IF s = r THEN tell[r] \ {n} ELSE tell[s]
  BY <1>3 DEF WorldInv, Places
<1>11. Places' /\ Agenda'
  BY <1>3, <1>5, <1>9, <1>10 DEF WorldInv, Places, Agenda
<1>12. ASSUME NEW q \in Player, q # p PROVE Fine(q)'
  <2>1. SameNotes(tell, tell', q)
    BY <1>1, <1>10, <1>12 DEF SameNotes
  <2>2. InOrder(drops, late, q)' => InOrder(drops, late, q)
    BY <1>3, <1>5 DEF InOrder
  <2>3. Fine(q) /\ Same(inbox, inbox', q)
    BY <1>3, SameIsSame DEF WorldInv
  <2>4. QED
    BY <1>3, <1>9, <1>12, <2>1, <2>2, <2>3, Bystander
<1>13. Fine(p)'
  <2>1. Fine(p) /\ conns[p] # 0
    BY <1>1 DEF WorldInv, Fine, NewOf, Noted
  <2>2. ASSUME AtHome(p)
        PROVE  /\ ~away[p] /\ HomeOf(entity, inbox, p) /\ Letters(mail'[p])
               /\ InOrder(drops, late, p)'
                    => HeadedFor(entity, inbox, mail'[p], session[p].region, tell', p)
    <3>1. /\ ~away[p] /\ HomeOf(entity, inbox, p) /\ Letters(ml)
          /\ InOrder(drops, late, p)
               => HeadedFor(entity, inbox, ml, session[p].region, tell, p)
      BY <1>6, <2>1, <2>2 DEF Fine
    <3>2. mail'[p] = Append(ml, a) \/ mail'[p] = ml
      BY <1>4, <1>6, <1>7 DEF WorldInv, Places
    <3>3. ASSUME InOrder(drops, late, p)'
          PROVE  HeadedFor(entity, inbox, mail'[p], session[p].region, tell', p)
      <4>1. drops' = 0 /\ InOrder(drops, late, p)
        BY <1>3, <1>5, <3>3 DEF InOrder
      <4>2. HeadedFor(entity, inbox, ml, session[p].region, tell, p)
        BY <3>1, <4>1
      <4>3. n.conn = 1 /\ Has(entity, inbox, x, p)
        BY <1>1, <1>2, <4>2 DEF HeadedFor
      <4>4. mail'[p] = Append(ml, a)
        BY <1>4, <1>5, <1>6, <1>7, <2>2, <4>1, <4>3 DEF AtHome, WorldInv, Places
      <4>5. Bound(mail'[p], session[p].region) = x
        BY <1>8, <4>4
      <4>6. PICK tl2 : tl2 = tell'
        OBVIOUS
      <4>7. \A s \in Region : \A y \in tl2[s] : y \in tell[s]
        BY <1>10, <4>6
      <4>8. HeadedFor(entity, inbox, mail'[p], session[p].region, tl2, p)
        BY <1>2, <4>2, <4>3, <4>5, <4>7 DEF HeadedFor
      <4>9. QED
        BY <4>6, <4>8
    <3>4. QED
      BY <1>8, <3>1, <3>2, <3>3
  <2>3. QED
    BY <1>3, <2>1, <2>2 DEF Fine, AtHome
<1>14. QED
  BY <1>11, <1>12, <1>13 DEF WorldInv

LEMMA FlipStep ==
  ASSUME WorldInv, NEW r \in Region, Flip(r)
  PROVE  WorldInv'
<1>1. UNCHANGED <<entity, inbox, session, mail, away, todo, tell, late, conns, drops, matches>>
  BY DEF Flip, turn
<1>2. Places' /\ Agenda'
  BY <1>1 DEF WorldInv, Places, Agenda
<1>3. ASSUME NEW p \in Player PROVE Fine(p)'
  BY <1>1, Bystander, SameIsSame, OrderIs DEF WorldInv
<1>4. QED
  BY <1>2, <1>3 DEF WorldInv

LEMMA WorldInit == Init => WorldInv
<1>1. SUFFICES ASSUME Init PROVE WorldInv
  OBVIOUS
<1>2. Places
  <2>1. <<>> \in Seq(Message) /\ <<>> \in Seq(SessionMsg)
    BY EmptySeq
  <2>2. inbox \in [Region -> Seq(Message)] /\ mail \in [Player -> Seq(SessionMsg)]
    BY <1>1, <2>1 DEF Init
  <2>3. Spawn \in Region
    BY WorldAssumption
  <2>4. session \in [Player -> [up : BOOLEAN, region : Region, arena : BOOLEAN]]
    BY <1>1, <2>3 DEF Init
  <2>5. entity \in [Region -> [Player -> Nat]] /\ away \in [Player -> BOOLEAN]
    BY <1>1 DEF Init, None
  <2>6. conns \in [Player -> Nat] /\ matches \in [Player -> Nat] /\ drops \in Nat
    BY <1>1 DEF Init
  <2>7. todo \in [Region -> [Player -> Region]] /\ tell \in [Region -> SUBSET Note]
    BY <1>1 DEF Init
  <2>8. QED
    BY <2>2, <2>4, <2>5, <2>6, <2>7 DEF Places
<1>3. ASSUME NEW p \in Player PROVE Fine(p)
  <2>1. ~session[p].up /\ mail[p] = <<>> /\ ~away[p]
    BY <1>1 DEF Init
  <2>2. \A r \in Region : entity[r][p] = None /\ inbox[r] = <<>>
    BY <1>1 DEF Init
  <2>3. \A r \in Region : ~About(inbox[r], p)
    BY <2>2 DEF About
  <2>4. QED
    BY <1>1, <2>1, <2>2, <2>3 DEF Fine, AtHome, NewOf, Has, Noted, Init
<1>4. Agenda
  BY <1>1 DEF Init, Agenda
<1>5. QED
  BY <1>2, <1>3, <1>4 DEF WorldInv

LEMMA WorldStep == WorldInv /\ [Next]_vars => WorldInv'
<1>1. SUFFICES ASSUME WorldInv, [Next]_vars PROVE WorldInv'
  OBVIOUS
<1>2. ASSUME UNCHANGED vars PROVE WorldInv'
  <2>1. UNCHANGED <<entity, inbox, session, mail, away, todo, tell, late, conns, drops, matches>>
    BY <1>2 DEF vars, turn
  <2>2. Places' /\ Agenda'
    BY <1>1, <2>1 DEF WorldInv, Places, Agenda
  <2>3. ASSUME NEW p \in Player PROVE Fine(p)'
    BY <1>1, <2>1, Bystander, SameIsSame, OrderIs DEF WorldInv
  <2>4. QED
    BY <2>2, <2>3 DEF WorldInv
<1>3. ASSUME NEW p \in Player, Connect(p) \/ Disconnect(p) \/ Receive(p) \/ Order(p) PROVE WorldInv'
  BY <1>1, <1>3, ConnectStep, DisconnectStep, ReceiveStep, OrderStep
<1>4. ASSUME NEW r \in Region, Handle(r) \/ Flip(r) \/ \E dst \in [In(r) -> Region] : Tick(r, dst)
      PROVE  WorldInv'
  BY <1>1, <1>4, HandleStep, FlipStep, TickStep
<1>5. ASSUME NEW r \in Region, (\E p \in Player : HandOver(r, p)) \/ \E n \in tell[r] : Tell(r, n)
      PROVE  WorldInv'
  BY <1>1, <1>5, HandOverStep, TellStep
<1>6. QED
  BY <1>1, <1>2, <1>3, <1>4, <1>5 DEF Next

LEMMA Worlds == Spec => []WorldInv
  BY WorldInit, WorldStep, PTL DEF Spec

\* A handoff between regions neither loses nor doubles a player (tickStep, Receive of
\* the region): on his first connection one region has him, or is about to.
THEOREM OneRegion == Spec => []OneOwner
<1>1. ASSUME WorldInv PROVE OneOwner
  <2>1. ASSUME NEW p \in Player, AtHome(p)
        PROVE  \E r \in Region : Copies(r, p) = 1 /\ \A s \in Region \ {r} : Copies(s, p) = 0
    <3>1. HomeOf(entity, inbox, p) /\ conns[p] = 1
      BY <1>1, <2>1 DEF WorldInv, Fine, AtHome
    <3>2. PICK r \in Region : Has(entity, inbox, r, p)
      BY <3>1 DEF HomeOf
    <3>3. ASSUME NEW s \in Region
          PROVE  LET I == {i \in DOMAIN inbox[s] : inbox[s][i] = Join(p, conns[p])}
                 IN  /\ I = {i \in 1..Len(inbox[s]) : inbox[s][i].player = p}
                     /\ ~About(inbox[s], p) => Cardinality(I) = 0
                     /\ About(inbox[s], p) => Cardinality(I) = 1
      <4>1. PICK b : b = inbox[s]
        OBVIOUS
      <4>2. b \in Seq(Message) /\ Plain(b, p) /\ Once(b, p)
        BY <1>1, <3>1, <4>1 DEF WorldInv, Places, HomeOf
      <4>3. DOMAIN b = 1..Len(b) /\ Join(p, 1).player = p
        BY <4>2 DEF Join
      <4>4. PICK I : I = {i \in 1..Len(b) : b[i].player = p}
        OBVIOUS
      <4>5. {i \in DOMAIN b : b[i] = Join(p, 1)} = I
        BY <4>2, <4>3, <4>4 DEF Plain
      <4>6. ~About(b, p) => Cardinality(I) = 0
        <5>1. ~About(b, p) => I = {}
          BY <4>4 DEF About
        <5>2. QED
          BY <5>1, FS_EmptySet
      <4>7. About(b, p) => Cardinality(I) = 1
        <5>1. ASSUME About(b, p) PROVE \E i : I = {i}
          <6>1. PICK i \in 1..Len(b) : b[i].player = p
            BY <5>1 DEF About
          <6>2. I = {i}
            BY <4>2, <4>4, <6>1 DEF Once
          <6>3. QED
            BY <6>2
        <5>2. QED
          BY <5>1, FS_Singleton
      <4>8. QED
        BY <3>1, <4>1, <4>4, <4>5, <4>6, <4>7
    <3>4. \A s \in Region : Copies(s, p) = (IF entity[s][p] = None THEN 0 ELSE 1)
                                              + (IF About(inbox[s], p) THEN 1 ELSE 0)
      BY <3>3 DEF Copies
    <3>5. Copies(r, p) = 1
      BY <3>1, <3>2, <3>4 DEF HomeOf, Has
    <3>6. \A s \in Region \ {r} : Copies(s, p) = 0
      BY <3>1, <3>2, <3>4 DEF HomeOf, Has
    <3>7. QED
      BY <3>5, <3>6
  <2>2. QED
    BY <2>1 DEF OneOwner
<1>2. QED
  BY <1>1, Worlds, PTL

\* The session follows its player (comment of type session of the gateway) when nothing
\* was dropped and the regions have told it in the order of the handoffs: with no message
\* under way, his entity is in the region his session sends his input to.
THEOREM SessionFollows == Spec => []InStepInOrder
<1>1. ASSUME WorldInv PROVE InStepInOrder
  <2>1. ASSUME NEW p \in Player \ late, AtHome(p), drops = 0, Settled(p) PROVE Followed(p)
    <3>1. /\ HomeOf(entity, inbox, p) /\ conns[p] = 1
          /\ HeadedFor(entity, inbox, mail[p], session[p].region, tell, p)
      BY <1>1, <2>1 DEF WorldInv, Fine, AtHome, InOrder
    <3>2. ASSUME NEW s \in Region PROVE ~About(inbox[s], p)
      <4>1. PICK b : b = inbox[s]
        OBVIOUS
      <4>2. b \in Seq(Message)
        BY <1>1, <4>1 DEF WorldInv, Places
      <4>3. DOMAIN b = 1..Len(b)
        BY <4>2
      <4>4. QED
        BY <2>1, <4>1, <4>3 DEF Settled, About
    <3>3. Bound(mail[p], session[p].region) = session[p].region
      BY <2>1 DEF Settled, Bound
    <3>4. ~Noted(tell, p)
      BY <2>1 DEF Settled, Untold, Noted
    <3>5. session[p].region \in Region /\ Has(entity, inbox, session[p].region, p)
      BY <3>1, <3>3, <3>4 DEF HeadedFor
    <3>6. QED
      BY <3>1, <3>2, <3>5 DEF HomeOf, Has, Followed
  <2>2. QED
    BY <2>1 DEF InStepInOrder
<1>2. QED
  BY <1>1, Worlds, PTL
=============================================================================
